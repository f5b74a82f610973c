------------------------- MODULE DisjuntorTeoremas -------------------------
(***************************************************************************)
(* Theorems about the breaker, for every window, rate and number of        *)
(* attempts.  The invariant that is inductive adds to those of the module  *)
(* Disjuntor that the window holds no more results than calls ended since  *)
(* the breaker last closed: that is why the rate cannot be reached on what *)
(* a recovery should have forgotten.                                       *)
(***************************************************************************)
EXTENDS Disjuntor, TLAPS

JanelaRecente == chamadas < Minimas => Len(resultados) <= chamadas

Inv ==
  /\ TypeOK
  /\ FechadoAbaixoDaTaxa
  /\ AbertoNaoTenta
  /\ AbreComEvidencia
  /\ JanelaRecente

-----------------------------------------------------------------------------
(* The window.                                                             *)

\* The window with one more result is a window, and at most one longer.
LEMMA TamanhoDaAcrescida ==
  ASSUME NEW janela \in Seq(BOOLEAN), Len(janela) <= Janela, NEW sucesso \in BOOLEAN
  PROVE  /\ Acrescida(janela, sucesso) \in Seq(BOOLEAN)
         /\ Len(Acrescida(janela, sucesso)) <= Janela
         /\ Len(Acrescida(janela, sucesso)) <= Len(janela) + 1
<1> DEFINE longa == Append(janela, sucesso)
<1>1. longa \in Seq(BOOLEAN) /\ Len(longa) = Len(janela) + 1
  OBVIOUS
<1>2. Len(janela) \in Nat /\ Janela \in Nat
  BY AjustesValidos
<1>3. CASE Len(longa) > Janela
  <2>1. longa # <<>>
    BY <1>1, <1>2
  <2>2. Tail(longa) \in Seq(BOOLEAN) /\ Len(Tail(longa)) = Len(longa) - 1
    BY <1>1, <2>1
  <2>3. Acrescida(janela, sucesso) = Tail(longa)
    BY <1>3 DEF Acrescida
  <2> QED
    BY <1>1, <1>2, <2>2, <2>3
<1>4. CASE ~(Len(longa) > Janela)
  <2>1. Acrescida(janela, sucesso) = longa
    BY <1>4 DEF Acrescida
  <2> QED
    BY <1>1, <1>2, <1>4, <2>1
<1> QED
  BY <1>3, <1>4

\* The empty window is a window.
LEMMA VaziaEJanela == <<>> \in Seq(BOOLEAN) /\ Len(<<>>) = 0
OBVIOUS

\* An empty window is below the rate, however low the rate is.
LEMMA VaziaNaoPassa == ~PassouDaTaxa(<<>>)
BY AjustesValidos DEF PassouDaTaxa

-----------------------------------------------------------------------------
(* The invariant.                                                          *)

LEMMA InvNoInicio == Init => Inv
<1> SUFFICES ASSUME Init PROVE Inv
  OBVIOUS
<1>1. TypeOK
  <2>1. vencida \in BOOLEAN
    BY DEF Init
  <2>2. resultados \in Seq(BOOLEAN)
    BY VaziaEJanela DEF Init
  <2>3. Len(resultados) <= Janela
    BY VaziaEJanela, AjustesValidos DEF Init
  <2> QED
    BY <2>1, <2>2, <2>3, AjustesValidos DEF Init, TypeOK, Estados, Desfechos
<1>2. FechadoAbaixoDaTaxa
  BY VaziaNaoPassa DEF Init, FechadoAbaixoDaTaxa
<1> QED
  BY <1>1, <1>2 DEF Init, Inv, AbertoNaoTenta, AbreComEvidencia, JanelaRecente

\* A call that ends, in either way.
LEMMA FimDeChamada ==
  ASSUME Inv, NEW sucesso \in BOOLEAN, tentativa > 0,
         RegistrarResultado(sucesso), Contar, tentativa' = 0,
         desfecho' \in Desfechos, UNCHANGED recuos
  PROVE  Inv'
<1> DEFINE janela == Acrescida(resultados, sucesso)
<1>1. /\ estado \in {"fechado", "meio_aberto"}
      /\ resultados \in Seq(BOOLEAN) /\ Len(resultados) <= Janela
      /\ Len(resultados) \in Nat
      /\ vencida \in BOOLEAN /\ chamadas \in 0 .. Minimas /\ recuos \in 0 .. MaxRecuos
      /\ Minimas \in Nat \ {0} /\ Tentativas \in Nat \ {0}
  BY AjustesValidos DEF Inv, TypeOK, Estados, AbertoNaoTenta
<1>2. vencida' \in BOOLEAN
  <2>1. vencida' = FALSE \/ vencida' = vencida
    BY DEF RegistrarResultado, Transitar
  <2> QED
    BY <1>1, <2>1, Zenon
<1>3. CASE estado = "meio_aberto"
  <2>1. /\ estado' = IF sucesso THEN "fechado" ELSE "aberto"
        /\ resultados' = IF sucesso THEN <<>> ELSE resultados
    BY <1>3 DEF RegistrarResultado, Transitar
  <2>2. chamadas = Minimas
    BY <1>1, <1>3 DEF Inv, AbreComEvidencia
  <2>3. chamadas' = IF sucesso THEN 0 ELSE chamadas
    BY <1>1, <1>3, <2>1, <2>2 DEF Contar
  <2>4. TypeOK'
    <3>1. resultados' \in Seq(BOOLEAN) /\ Len(resultados') <= Janela
      <4>1. CASE sucesso
        BY <2>1, <4>1, VaziaEJanela, AjustesValidos
      <4>2. CASE ~sucesso
        BY <1>1, <2>1, <4>2
      <4> QED
        BY <4>1, <4>2
    <3>2. chamadas' \in 0 .. Minimas /\ tentativa' \in 0 .. Tentativas
      BY <1>1, <2>3
    <3> QED
      BY <1>1, <1>2, <2>1, <3>1, <3>2 DEF TypeOK, Estados
  <2>5. FechadoAbaixoDaTaxa'
    <3> SUFFICES ASSUME estado' = "fechado" PROVE ~PassouDaTaxa(resultados')
      BY DEF FechadoAbaixoDaTaxa, PassouDaTaxa, FalhasEm
    <3> QED
      BY <2>1, VaziaNaoPassa
  <2>6. AbertoNaoTenta' /\ AbreComEvidencia' /\ JanelaRecente'
    BY <1>1, <2>1, <2>2, <2>3 DEF AbertoNaoTenta, AbreComEvidencia, JanelaRecente
  <2> QED
    BY <2>4, <2>5, <2>6 DEF Inv
<1>4. CASE estado = "fechado"
  <2>1. /\ resultados' = janela
        /\ estado' = IF PassouDaTaxa(resultados') THEN "aberto" ELSE estado
    BY <1>4 DEF RegistrarResultado, Transitar
  <2>2. /\ resultados' \in Seq(BOOLEAN)
        /\ Len(resultados') <= Janela
        /\ Len(resultados') <= Len(resultados) + 1
        /\ Len(resultados') \in Nat
    BY <1>1, <2>1, TamanhoDaAcrescida
  <2>3. chamadas' = IF chamadas < Minimas THEN chamadas + 1 ELSE chamadas
    BY <1>4 DEF Contar
  <2>4. TypeOK'
    BY <1>1, <1>2, <1>4, <2>1, <2>2, <2>3 DEF TypeOK, Estados
  <2>5. FechadoAbaixoDaTaxa'
    BY <2>1 DEF FechadoAbaixoDaTaxa, PassouDaTaxa, FalhasEm
  <2>6. JanelaRecente'
    BY <1>1, <2>2, <2>3 DEF Inv, JanelaRecente
  <2>7. AbreComEvidencia'
    <3> SUFFICES ASSUME estado' # "fechado" PROVE chamadas' >= Minimas
      BY DEF AbreComEvidencia
    <3>1. Len(resultados') >= Minimas
      BY <1>4, <2>1 DEF PassouDaTaxa
    <3> QED
      BY <1>1, <2>2, <2>3, <3>1 DEF Inv, JanelaRecente
  <2>8. AbertoNaoTenta'
    BY <1>4, <2>1 DEF AbertoNaoTenta
  <2> QED
    BY <2>4, <2>5, <2>6, <2>7, <2>8 DEF Inv
<1> QED
  BY <1>1, <1>3, <1>4

\* A step that leaves the window and the count of calls alone.
LEMMA SemRegistro ==
  ASSUME Inv, TypeOK', AbertoNaoTenta', UNCHANGED <<resultados, chamadas>>,
         estado' = "fechado" => estado = "fechado",
         estado' # "fechado" => estado # "fechado"
  PROVE  Inv'
BY DEF Inv, FechadoAbaixoDaTaxa, AbreComEvidencia, JanelaRecente, PassouDaTaxa, FalhasEm

LEMMA InvNoPasso == Inv /\ [Next]_vars => Inv'
<1> SUFFICES ASSUME Inv, [Next]_vars PROVE Inv'
  OBVIOUS
<1> USE AjustesValidos
<1>1. CASE Autorizar
  <2>1. vencida' = vencida
    BY <1>1 DEF Autorizar, Transitar
  <2>2. /\ estado' \in Estados
        /\ estado' = "fechado" <=> estado = "fechado"
        /\ estado' # "aberto"
        /\ tentativa' = 1
        /\ UNCHANGED <<resultados, recuos, desfecho, chamadas>>
    BY <1>1 DEF Autorizar, Transitar, Inv, TypeOK, Estados
  <2>3. TypeOK' /\ AbertoNaoTenta'
    BY <2>1, <2>2 DEF Inv, TypeOK, AbertoNaoTenta
  <2> QED
    BY <2>2, <2>3, SemRegistro
<1>2. CASE Recusar
  BY <1>2, SemRegistro DEF Recusar, Inv, TypeOK, Desfechos, AbertoNaoTenta
<1>3. CASE Suceder
  BY <1>3, FimDeChamada DEF Suceder, Desfechos
<1>4. CASE Retentar
  BY <1>4, SemRegistro DEF Retentar, Inv, TypeOK, AbertoNaoTenta
<1>5. CASE Esgotar
  <2>1. tentativa > 0
    BY <1>5 DEF Esgotar
  <2>2. desfecho' \in Desfechos
    BY <1>5 DEF Esgotar, Desfechos
  <2> QED
    BY <1>5, <2>1, <2>2, FimDeChamada DEF Esgotar
<1>6. CASE VencerEspera
  BY <1>6, SemRegistro DEF VencerEspera, Inv, TypeOK, AbertoNaoTenta
<1>7. CASE RecuarRelogio
  <2>1. recuos' \in 0 .. MaxRecuos
    BY <1>7 DEF RecuarRelogio, Inv, TypeOK
  <2>2. vencida' \in BOOLEAN
    BY <1>7 DEF RecuarRelogio
  <2>3. TypeOK' /\ AbertoNaoTenta'
    BY <1>7, <2>1, <2>2 DEF RecuarRelogio, Inv, TypeOK, AbertoNaoTenta
  <2> QED
    BY <1>7, <2>3, SemRegistro DEF RecuarRelogio
<1>8. CASE UNCHANGED vars
  BY <1>8, SemRegistro DEF vars, Inv, TypeOK, AbertoNaoTenta
<1> QED
  BY <1>1, <1>2, <1>3, <1>4, <1>5, <1>6, <1>7, <1>8 DEF Next

LEMMA InvSempre == Spec => []Inv
BY InvNoInicio, InvNoPasso, PTL DEF Spec

-----------------------------------------------------------------------------
\* The variables of the pipeline have their types, and the window never grows
\* past TamanhoDaJanela.
THEOREM TipoCorreto == Spec => []TypeOK
<1>1. Inv => TypeOK
  BY DEF Inv
<1> QED
  BY InvSempre, <1>1, PTL

\* A closed breaker is below the rate: what opened it never counts again.
THEOREM FechadoSempreAbaixo == Spec => []FechadoAbaixoDaTaxa
<1>1. Inv => FechadoAbaixoDaTaxa
  BY DEF Inv
<1> QED
  BY InvSempre, <1>1, PTL

\* No attempt is in progress while the breaker is open, and a half-open breaker
\* has its probe in progress.
THEOREM AbertoNuncaTenta == Spec => []AbertoNaoTenta
<1>1. Inv => AbertoNaoTenta
  BY DEF Inv
<1> QED
  BY InvSempre, <1>1, PTL

\* The breaker is closed until enough calls have ended since it last closed.
THEOREM SempreAbreComEvidencia == Spec => []AbreComEvidencia
<1>1. Inv => AbreComEvidencia
  BY DEF Inv
<1> QED
  BY InvSempre, <1>1, PTL
=============================================================================
