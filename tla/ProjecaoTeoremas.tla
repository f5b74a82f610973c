-------------------------- MODULE ProjecaoTeoremas --------------------------
(***************************************************************************)
(* The projection for every size of cycle, number of rows and restarts,    *)
(* and every pipeline.  The inductive invariant says what the rows read in *)
(* a cycle are (all there is between the cursor and the last of them), why *)
(* none of them can have been pruned meanwhile, and where the loop is      *)
(* while the pipeline has a call in progress.                              *)
(***************************************************************************)
EXTENDS Projecao, FiniteSetTheorems, NaturalsInduction, WellFoundedInduction, TLAPS

\* The theorems of the breaker, for the breaker of this module.
DT == INSTANCE DisjuntorTeoremas

-----------------------------------------------------------------------------
(* Sets of ids.                                                            *)

\* Some ids have a first one.
LEMMA PrimeiroId ==
  ASSUME NEW S \in SUBSET Nat, S # {}
  PROVE  \E n \in S : \A m \in S : n <= m
<1>1. PICK n \in S : \A m \in S : ~(<<m, n>> \in OpToRel(<, Nat))
  BY NatLessThanWellFounded, WFMin
<1>2. \A m \in Nat, k \in Nat : m < k => <<m, k>> \in OpToRel(<, Nat)
  BY DEF OpToRel
<1>3. \A m \in S : ~(m < n)
  BY <1>1, <1>2
<1>4. \A m \in S : n <= m
  BY <1>3
<1> QED BY <1>4

\* Some ids up to n have a greatest one.
LEMMA MaiorIdEhMaior ==
  ASSUME NEW n \in Nat, NEW S \in SUBSET (1 .. n), S # {}
  PROVE  MaiorId(S) \in S /\ \A m \in S : m <= MaiorId(S)
<1> DEFINE falta == {n - m : m \in S}
<1>1. falta \in SUBSET Nat /\ falta # {}
  <2>1. \A m \in S : n - m \in Nat
    OBVIOUS
  <2>2. PICK m \in S : TRUE
    OBVIOUS
  <2>3. n - m \in falta
    OBVIOUS
  <2> QED BY <2>1, <2>3
<1>2. PICK k \in falta : \A j \in falta : k <= j
  BY <1>1, PrimeiroId
<1>3. PICK maior \in S : k = n - maior
  OBVIOUS
<1>4. \A m \in S : n - m \in falta
  OBVIOUS
<1> HIDE DEF falta
<1>5. \A m \in S : m <= maior
  BY <1>2, <1>3, <1>4
<1> QED BY <1>5 DEF MaiorId

\* The rows a cycle reads: some if there are any, and none is left out before
\* the last of them.
LEMMA PendentesEmOrdem ==
  ASSUME NEW n \in Nat, linhas \in SUBSET (1 .. n), lido \in Nat
  PROVE  /\ Pendentes \subseteq linhas
         /\ \A id \in Pendentes : id > lido
         /\ \A id \in Pendentes, m \in linhas : lido < m /\ m < id => m \in Pendentes
         /\ (\E id \in linhas : id > lido) => Pendentes # {}
<1> DEFINE antes(id) == {m \in linhas : lido < m /\ m < id}
<1>1. Pendentes = {id \in linhas : id > lido /\ Cardinality(antes(id)) < RegistrosPorCiclo}
  BY DEF Pendentes
<1>2. IsFiniteSet(linhas)
  <2>1. IsFiniteSet(1 .. n)
    BY FS_Interval
  <2> QED BY <2>1, FS_Subset
<1>3. \A id \in linhas : IsFiniteSet(antes(id)) /\ Cardinality(antes(id)) \in Nat
  <2> SUFFICES ASSUME NEW id \in linhas
               PROVE  IsFiniteSet(antes(id)) /\ Cardinality(antes(id)) \in Nat
    OBVIOUS
  <2>1. antes(id) \in SUBSET linhas
    OBVIOUS
  <2>2. IsFiniteSet(antes(id))
    BY <1>2, <2>1, FS_Subset
  <2> QED BY <2>2, FS_CardinalityType
<1>4. ASSUME NEW id \in Pendentes, NEW m \in linhas, lido < m, m < id
      PROVE  m \in Pendentes
  <2>1. id \in linhas /\ Cardinality(antes(id)) < RegistrosPorCiclo
    BY <1>1
  <2>2. antes(m) \in SUBSET antes(id)
    <3> SUFFICES ASSUME NEW k \in linhas, lido < k, k < m PROVE k < id
      BY <1>4
    <3> QED BY <1>4, <2>1
  <2>3. Cardinality(antes(m)) <= Cardinality(antes(id))
    BY <1>3, <2>1, <2>2, FS_Subset
  <2>4. Cardinality(antes(m)) < RegistrosPorCiclo
    BY <1>3, <2>1, <2>3, LimitesValidos
  <2> QED BY <1>1, <1>4, <2>4
<1>5. ASSUME NEW id \in linhas, id > lido
      PROVE  Pendentes # {}
  <2> DEFINE novas == {m \in linhas : m > lido}
  <2>1. novas \in SUBSET Nat
    <3>1. \A m \in linhas : m \in Nat
      OBVIOUS
    <3> QED BY <3>1
  <2>2. novas # {}
    BY <1>5
  <2>3. PICK primeira \in novas : \A m \in novas : primeira <= m
    BY <2>1, <2>2, PrimeiroId
  <2>4. \A m \in linhas : ~(lido < m /\ m < primeira)
    BY <2>3
  <2>5. antes(primeira) = {}
    BY <2>4
  <2>6. Cardinality(antes(primeira)) < RegistrosPorCiclo
    BY <2>5, FS_EmptySet, LimitesValidos
  <2> QED BY <1>1, <2>3, <2>6
<1> QED BY <1>1, <1>4, <1>5

-----------------------------------------------------------------------------
(* The inductive invariant.                                                *)

\* What the cursor has not passed is in the journal: the pruning goes no further
\* than a cursor it read, and the cursor does not go back.
NaoPassadoFica ==
  /\ \A id \in 1 .. ultimo : id > cursor => id \in linhas
  /\ poda <= cursor

\* In a cycle the cursor is the one that was read, and the rows read are all
\* those from there to the last of them.
LoteCompleto ==
  /\ laco # "espera" => lido = cursor
  /\ laco \in {"executando", "avancando"} =>
       /\ lote # {}
       /\ \A id \in lote : id > cursor
       /\ \A id \in 1 .. ultimo, m \in lote : cursor < id /\ id < m => id \in lote

\* The cursor is moved over rows that arrived.
AvancaOProjetado == laco = "avancando" => Linhas \subseteq destino

\* The pipeline works for the loop, and for nobody else; the loop advances after
\* a call that succeeded.
ChamadaDoLaco ==
  /\ tentativa \in Nat
  /\ tentativa > 0 => laco = "executando"
  /\ laco = "avancando" => desfecho = "sucesso"

\* After a failure there is something left to project.
FalhaDeixaPendente == desfecho \in {"falha", "recusada"} => cursor < ultimo

\* What FalhaFicaVisivel reads through /saude.
FalhaNoRastreador ==
  laco # "avancando" /\ tentativa = 0 /\ desfecho \in {"falha", "recusada"} =>
    rastreador = IF estado = "aberto" THEN "degradado" ELSE "reconectando"

Inv ==
  /\ TypeOK
  /\ CursorNaoPulaNada
  /\ PodaNaoPerde
  /\ FalhaNoRastreador
  /\ NaoPassadoFica
  /\ LoteCompleto
  /\ AvancaOProjetado
  /\ ChamadaDoLaco
  /\ FalhaDeixaPendente

LEMMA InvInicial == Init => Inv
BY LimitesValidos DEF Init, Inv, D!Init, TypeOK, EstadosOperacionais, CursorNaoPulaNada,
   PodaNaoPerde, FalhaNoRastreador, NaoPassadoFica, LoteCompleto, AvancaOProjetado,
   ChamadaDoLaco, FalhaDeixaPendente

\* The ids at hand are numbers.
LEMMA IdsSaoNumeros ==
  ASSUME TypeOK
  PROVE  /\ ultimo \in Nat /\ cursor \in Nat /\ lido \in Nat /\ poda \in Nat
         /\ \A id \in linhas : id \in Nat /\ id <= ultimo
         /\ \A id \in legiveis : id \in 1 .. ultimo
         /\ \A id \in lote : id \in 1 .. ultimo
BY DEF TypeOK

-----------------------------------------------------------------------------
(* The journal.                                                            *)

LEMMA PassoGravar == ASSUME Inv, Gravar PROVE Inv'
<1> USE DEF doDiario, doLaco, doDisjuntor
<1>1. /\ ultimo' = ultimo + 1
      /\ linhas' = linhas \cup {ultimo + 1}
      /\ legiveis' = legiveis \/ legiveis' = legiveis \cup {ultimo + 1}
      /\ UNCHANGED <<cursor, destino, doLaco, poda, rastreador, quedas, doDisjuntor>>
  BY DEF Gravar
<1>2. /\ ultimo \in Nat /\ cursor \in Nat /\ cursor <= ultimo
      /\ lote \subseteq 1 .. ultimo /\ legiveis \subseteq 1 .. ultimo
      /\ linhas \subseteq 1 .. ultimo /\ destino \subseteq legiveis
      /\ lido \in 0 .. ultimo /\ poda \in 0 .. ultimo /\ quedas \in Nat
      /\ rastreador \in EstadosOperacionais
      /\ laco \in {"espera", "cursor_lido", "executando", "avancando"}
  BY DEF Inv, TypeOK
<1>3. 1 .. ultimo' = (1 .. ultimo) \cup {ultimo + 1}
  BY <1>1, <1>2
<1>4. TypeOK'
  <2>1. ultimo' \in Nat /\ cursor' \in 0 .. ultimo' /\ lido' \in 0 .. ultimo' /\ poda' \in 0 .. ultimo'
    BY <1>1, <1>2
  <2>2. /\ legiveis' \subseteq 1 .. ultimo' /\ linhas' \subseteq 1 .. ultimo'
        /\ lote' \subseteq 1 .. ultimo' /\ destino' \subseteq legiveis'
    BY <1>1, <1>2, <1>3
  <2> QED BY <1>1, <1>2, <2>1, <2>2 DEF TypeOK
<1>5. CursorNaoPulaNada' /\ PodaNaoPerde'
  <2>1. \A id \in legiveis' : id \in legiveis \/ (id = ultimo' /\ ~(id <= cursor') /\ id \in linhas')
    BY <1>1, <1>2
  <2> QED BY <1>1, <2>1 DEF Inv, CursorNaoPulaNada, PodaNaoPerde
<1>6. NaoPassadoFica'
  BY <1>1, <1>2, <1>3 DEF Inv, NaoPassadoFica
<1>7. LoteCompleto'
  BY <1>1, <1>2, <1>3 DEF Inv, LoteCompleto
<1>8. AvancaOProjetado'
  <2>1. ultimo + 1 \notin lote
    BY <1>2
  <2> QED BY <1>1, <2>1 DEF Inv, AvancaOProjetado, Linhas
<1>9. FalhaNoRastreador' /\ ChamadaDoLaco' /\ FalhaDeixaPendente'
  BY <1>1, <1>2 DEF Inv, FalhaNoRastreador, ChamadaDoLaco, FalhaDeixaPendente
<1> QED BY <1>4, <1>5, <1>6, <1>7, <1>8, <1>9 DEF Inv

LEMMA PassoLerMenorCursor == ASSUME Inv, LerMenorCursor PROVE Inv'
BY DEF LerMenorCursor, doDiario, doLaco, doDisjuntor, Inv, TypeOK, CursorNaoPulaNada,
   PodaNaoPerde, FalhaNoRastreador, NaoPassadoFica, LoteCompleto, AvancaOProjetado, Linhas,
   ChamadaDoLaco, FalhaDeixaPendente

LEMMA PassoPodar == ASSUME Inv, Podar PROVE Inv'
<1> USE DEF doDiario, doLaco, doDisjuntor
<1>1. PICK velhas \in SUBSET {id \in linhas : id <= poda} : linhas' = linhas \ velhas
  BY DEF Podar
<1>2. poda' = 0 /\ UNCHANGED <<ultimo, legiveis, cursor, destino, doLaco, rastreador,
                               quedas, doDisjuntor>>
  BY DEF Podar
<1>3. cursor \in Nat /\ poda \in Nat /\ ultimo \in Nat /\ linhas \subseteq 1 .. ultimo
  BY DEF Inv, TypeOK
<1>4. \A id \in velhas : id \in Nat /\ id <= cursor
  BY <1>1, <1>3 DEF Inv, NaoPassadoFica
<1>5. TypeOK'
  BY <1>1, <1>2 DEF Inv, TypeOK
<1>6. PodaNaoPerde'
  BY <1>1, <1>2, <1>4 DEF Inv, PodaNaoPerde, CursorNaoPulaNada
<1>7. NaoPassadoFica'
  BY <1>1, <1>2, <1>3, <1>4 DEF Inv, NaoPassadoFica
<1>8. /\ CursorNaoPulaNada' /\ FalhaNoRastreador' /\ LoteCompleto' /\ AvancaOProjetado'
      /\ ChamadaDoLaco' /\ FalhaDeixaPendente'
  BY <1>2 DEF Inv, CursorNaoPulaNada, FalhaNoRastreador, LoteCompleto, AvancaOProjetado,
     Linhas, ChamadaDoLaco, FalhaDeixaPendente
<1> QED BY <1>5, <1>6, <1>7, <1>8 DEF Inv

-----------------------------------------------------------------------------
(* The cycle, outside the pipeline.                                        *)

LEMMA PassoLerCursor == ASSUME Inv, LerCursor PROVE Inv'
BY DEF LerCursor, doDiario, doLaco, doDisjuntor, Inv, TypeOK, CursorNaoPulaNada,
   PodaNaoPerde, FalhaNoRastreador, NaoPassadoFica, LoteCompleto, AvancaOProjetado, Linhas,
   ChamadaDoLaco, FalhaDeixaPendente

\* Nothing pending: then no call failed since the last one that succeeded.
LEMMA PassoNadaPendente == ASSUME Inv, NadaPendente PROVE Inv'
<1> USE DEF doDiario, doLaco, doDisjuntor
<1>1. /\ laco = "cursor_lido" /\ Pendentes = {}
      /\ rastreador' = "conectado" /\ laco' = "espera"
      /\ UNCHANGED <<doDiario, cursor, destino, lido, lote, poda, quedas, doDisjuntor>>
  BY DEF NadaPendente
<1>2. /\ linhas \in SUBSET (1 .. ultimo) /\ ultimo \in Nat /\ cursor \in Nat
      /\ lido = cursor
  BY <1>1 DEF Inv, TypeOK, LoteCompleto
<1>3. ~(cursor < ultimo)
  <2> SUFFICES ASSUME cursor < ultimo PROVE FALSE
    OBVIOUS
  <2>1. ultimo \in linhas
    BY <1>2 DEF Inv, NaoPassadoFica
  <2> QED BY <1>1, <1>2, <2>1, PendentesEmOrdem
<1>4. desfecho \notin {"falha", "recusada"}
  BY <1>3 DEF Inv, FalhaDeixaPendente
<1>5. TypeOK' /\ FalhaNoRastreador'
  BY <1>1, <1>4 DEF Inv, TypeOK, EstadosOperacionais, FalhaNoRastreador
<1>6. /\ CursorNaoPulaNada' /\ PodaNaoPerde' /\ NaoPassadoFica' /\ LoteCompleto'
      /\ AvancaOProjetado' /\ ChamadaDoLaco' /\ FalhaDeixaPendente'
  BY <1>1 DEF Inv, CursorNaoPulaNada, PodaNaoPerde, NaoPassadoFica, LoteCompleto,
     AvancaOProjetado, Linhas, ChamadaDoLaco, FalhaDeixaPendente
<1> QED BY <1>5, <1>6 DEF Inv

LEMMA PassoLerRegistros == ASSUME Inv, LerRegistros PROVE Inv'
<1> USE DEF doDiario, doLaco, doDisjuntor
<1>1. /\ laco = "cursor_lido" /\ Pendentes # {}
      /\ lote' = Pendentes /\ laco' = "executando"
      /\ UNCHANGED <<doDiario, cursor, destino, lido, poda, rastreador, quedas, doDisjuntor>>
  BY DEF LerRegistros
<1>2. /\ linhas \in SUBSET (1 .. ultimo) /\ ultimo \in Nat /\ cursor \in Nat
      /\ lido = cursor
  BY <1>1 DEF Inv, TypeOK, LoteCompleto
<1>3. /\ Pendentes \subseteq linhas
      /\ \A id \in Pendentes : id > cursor
      /\ \A id \in Pendentes, m \in linhas : cursor < m /\ m < id => m \in Pendentes
  BY <1>2, PendentesEmOrdem
<1>4. TypeOK'
  BY <1>1, <1>2, <1>3 DEF Inv, TypeOK
<1>5. LoteCompleto'
  <2>1. \A id \in 1 .. ultimo, m \in Pendentes : cursor < id /\ id < m => id \in Pendentes
    BY <1>2, <1>3 DEF Inv, NaoPassadoFica
  <2> QED BY <1>1, <1>2, <1>3, <2>1 DEF LoteCompleto
<1>6. /\ CursorNaoPulaNada' /\ PodaNaoPerde' /\ FalhaNoRastreador' /\ NaoPassadoFica'
      /\ AvancaOProjetado' /\ ChamadaDoLaco' /\ FalhaDeixaPendente'
  BY <1>1 DEF Inv, CursorNaoPulaNada, PodaNaoPerde, FalhaNoRastreador, NaoPassadoFica,
     AvancaOProjetado, ChamadaDoLaco, FalhaDeixaPendente
<1> QED BY <1>4, <1>5, <1>6 DEF Inv

LEMMA PassoFalharLeitura == ASSUME Inv, FalharLeitura PROVE Inv'
BY DEF FalharLeitura, doDiario, doLaco, doDisjuntor, Inv, TypeOK, CursorNaoPulaNada,
   PodaNaoPerde, FalhaNoRastreador, NaoPassadoFica, LoteCompleto, AvancaOProjetado, Linhas,
   ChamadaDoLaco, FalhaDeixaPendente

\* The cursor moves to the last row read, which is past the cursor.
LEMMA AvancaOCursor ==
  ASSUME Inv, laco \in {"executando", "avancando"}
  PROVE  /\ UltimoProjetado \in lote
         /\ UltimoProjetado > cursor
         /\ \A id \in 1 .. ultimo : cursor < id /\ id <= UltimoProjetado => id \in lote
<1>1. /\ lote # {} /\ lote \in SUBSET (1 .. ultimo) /\ ultimo \in Nat /\ cursor \in Nat
      /\ \A id \in lote : id > cursor
      /\ \A id \in 1 .. ultimo, m \in lote : cursor < id /\ id < m => id \in lote
  BY DEF Inv, TypeOK, LoteCompleto
<1>2. UltimoProjetado \in lote
  BY <1>1, MaiorIdEhMaior DEF UltimoProjetado
<1> QED BY <1>1, <1>2

LEMMA PassoAvancarCursor == ASSUME Inv, AvancarCursor PROVE Inv'
<1> USE DEF doDiario, doLaco, doDisjuntor
<1>1. /\ laco = "avancando" /\ cursor' = UltimoProjetado
      /\ rastreador' = "conectado" /\ laco' = "espera"
      /\ UNCHANGED <<doDiario, destino, lido, lote, poda, quedas, doDisjuntor>>
  BY DEF AvancarCursor
<1>2. /\ ultimo \in Nat /\ cursor \in Nat /\ lote \subseteq 1 .. ultimo
      /\ legiveis \subseteq 1 .. ultimo /\ poda \in Nat
  BY DEF Inv, TypeOK
<1>3. /\ UltimoProjetado \in 1 .. ultimo /\ UltimoProjetado > cursor
      /\ \A id \in 1 .. ultimo : cursor < id /\ id <= UltimoProjetado => id \in lote
  BY <1>1, <1>2, AvancaOCursor
<1>4. lote \cap legiveis \subseteq destino /\ desfecho = "sucesso"
  BY <1>1 DEF Inv, AvancaOProjetado, Linhas, ChamadaDoLaco
<1>5. TypeOK'
  BY <1>1, <1>2, <1>3 DEF Inv, TypeOK, EstadosOperacionais
<1>6. CursorNaoPulaNada'
  <2> SUFFICES ASSUME NEW id \in legiveis, id <= UltimoProjetado PROVE id \in destino
    BY <1>1 DEF CursorNaoPulaNada
  <2>1. CASE id <= cursor
    BY <2>1 DEF Inv, CursorNaoPulaNada
  <2>2. CASE id > cursor
    BY <1>2, <1>3, <1>4, <2>2
  <2> QED BY <1>2, <2>1, <2>2
<1>7. NaoPassadoFica'
  BY <1>1, <1>2, <1>3 DEF Inv, NaoPassadoFica
<1>8. /\ PodaNaoPerde' /\ FalhaNoRastreador' /\ LoteCompleto' /\ AvancaOProjetado'
      /\ ChamadaDoLaco' /\ FalhaDeixaPendente'
  BY <1>1, <1>4 DEF Inv, PodaNaoPerde, FalhaNoRastreador, LoteCompleto, AvancaOProjetado,
     ChamadaDoLaco, FalhaDeixaPendente
<1> QED BY <1>5, <1>6, <1>7, <1>8 DEF Inv

LEMMA PassoFalharAvanco == ASSUME Inv, FalharAvanco PROVE Inv'
BY DEF FalharAvanco, doDiario, doLaco, doDisjuntor, Inv, TypeOK, CursorNaoPulaNada,
   PodaNaoPerde, FalhaNoRastreador, NaoPassadoFica, LoteCompleto, AvancaOProjetado, Linhas,
   ChamadaDoLaco, FalhaDeixaPendente

LEMMA PassoCair == ASSUME Inv, Cair PROVE Inv'
<1> USE DEF doDiario
<1>1. /\ quedas' = quedas + 1 /\ laco' = "espera" /\ lido' = 0 /\ lote' = {} /\ poda' = 0
      /\ rastreador' = "conectado" /\ tentativa' = 0 /\ desfecho' = "nenhum"
      /\ UNCHANGED <<doDiario, cursor, destino>>
  BY DEF Cair, D!NovaPipeline
<1>2. cursor \in Nat
  BY DEF Inv, TypeOK
<1>3. TypeOK'
  BY <1>1 DEF Inv, TypeOK, EstadosOperacionais
<1>4. NaoPassadoFica'
  BY <1>1, <1>2 DEF Inv, NaoPassadoFica
<1>5. /\ CursorNaoPulaNada' /\ PodaNaoPerde' /\ FalhaNoRastreador' /\ LoteCompleto'
      /\ AvancaOProjetado' /\ ChamadaDoLaco' /\ FalhaDeixaPendente'
  BY <1>1 DEF Inv, CursorNaoPulaNada, PodaNaoPerde, FalhaNoRastreador, LoteCompleto,
     AvancaOProjetado, ChamadaDoLaco, FalhaDeixaPendente
<1> QED BY <1>3, <1>4, <1>5 DEF Inv

-----------------------------------------------------------------------------
(* The call through the pipeline.                                          *)

\* A step of the loop or of the pipeline that leaves the journal, its cursors
\* and the rows read as they are, and may project those rows.
LEMMA PassoDaChamada ==
  ASSUME Inv, UNCHANGED <<doDiario, cursor, lido, lote, poda, quedas>>,
         UNCHANGED destino \/ Projetar,
         laco = "executando" \/ UNCHANGED laco,
         laco' \in {"espera", "executando", "avancando"} \/ UNCHANGED laco,
         laco' = "avancando" => laco = "avancando" \/ Projetar,
         rastreador' \in EstadosOperacionais,
         FalhaNoRastreador', ChamadaDoLaco',
         UNCHANGED desfecho \/ desfecho' = "sucesso" \/ laco = "executando"
  PROVE  Inv'
<1> USE DEF doDiario
<1>1. /\ ultimo \in Nat /\ cursor \in Nat /\ lote \subseteq 1 .. ultimo
      /\ destino \subseteq legiveis
  BY DEF Inv, TypeOK
<1>2. destino \subseteq destino' /\ destino' \subseteq legiveis
  BY <1>1 DEF Projetar, Linhas
<1>3. TypeOK'
  BY <1>2 DEF Inv, TypeOK
<1>4. CursorNaoPulaNada' /\ PodaNaoPerde'
  BY <1>2 DEF Inv, CursorNaoPulaNada, PodaNaoPerde
<1>5. NaoPassadoFica'
  BY DEF Inv, NaoPassadoFica
<1>6. LoteCompleto'
  BY DEF Inv, LoteCompleto
<1>7. AvancaOProjetado'
  BY <1>2 DEF Inv, AvancaOProjetado, Linhas, Projetar
<1>8. FalhaDeixaPendente'
  <2>1. ASSUME laco = "executando" PROVE cursor < ultimo
    <3>1. PICK id \in lote : id > cursor
      BY <2>1 DEF Inv, LoteCompleto
    <3> QED BY <1>1, <3>1
  <2> QED BY <2>1 DEF Inv, FalhaDeixaPendente
<1> QED BY <1>3, <1>4, <1>5, <1>6, <1>7, <1>8 DEF Inv

LEMMA PassoAutorizar == ASSUME Inv, Autorizar PROVE Inv'
<1>1. /\ laco = "executando" /\ tentativa' = 1 /\ desfecho' = desfecho
      /\ UNCHANGED <<doDiario, cursor, destino, doLaco, poda, rastreador, quedas>>
  BY DEF Autorizar, D!Autorizar
<1>2. FalhaNoRastreador' /\ ChamadaDoLaco'
  BY <1>1 DEF FalhaNoRastreador, ChamadaDoLaco, doLaco
<1>3. rastreador' \in EstadosOperacionais
  BY <1>1 DEF Inv, TypeOK
<1> QED BY <1>1, <1>2, <1>3, PassoDaChamada DEF doLaco

LEMMA PassoRecusarChamada == ASSUME Inv, RecusarChamada PROVE Inv'
<1>1. /\ laco = "executando" /\ laco' = "espera"
      /\ estado = "aberto" /\ estado' = estado
      /\ tentativa' = tentativa /\ desfecho' = "recusada" /\ rastreador' = "degradado"
      /\ UNCHANGED <<doDiario, cursor, destino, lido, lote, poda, quedas>>
  BY DEF RecusarChamada, D!Recusar, AoFalhar
<1>2. tentativa = 0
  BY DEF RecusarChamada, D!Recusar
<1>3. FalhaNoRastreador' /\ ChamadaDoLaco'
  BY <1>1, <1>2 DEF FalhaNoRastreador, ChamadaDoLaco
<1> QED BY <1>1, <1>3, PassoDaChamada DEF EstadosOperacionais

LEMMA PassoTentarDeNovo == ASSUME Inv, TentarDeNovo PROVE Inv'
<1>1. /\ tentativa > 0 /\ tentativa' = tentativa + 1 /\ desfecho' = desfecho
      /\ UNCHANGED destino \/ Projetar
      /\ UNCHANGED <<doDiario, cursor, doLaco, poda, rastreador, quedas>>
  BY DEF TentarDeNovo, D!Retentar
<1>2. laco = "executando" /\ tentativa \in Nat
  BY <1>1 DEF Inv, ChamadaDoLaco
<1>3. FalhaNoRastreador' /\ ChamadaDoLaco'
  BY <1>1, <1>2 DEF FalhaNoRastreador, ChamadaDoLaco, doLaco
<1>4. rastreador' \in EstadosOperacionais
  BY <1>1 DEF Inv, TypeOK
<1> QED BY <1>1, <1>2, <1>3, <1>4, PassoDaChamada DEF doLaco

LEMMA PassoEsgotar == ASSUME Inv, Esgotar, tentativa > 0 PROVE Inv'
<1>1. /\ tentativa' = 0 /\ desfecho' = "falha" /\ laco' = "espera"
      /\ rastreador' = IF estado' = "aberto" THEN "degradado" ELSE "reconectando"
      /\ UNCHANGED destino \/ Projetar
      /\ UNCHANGED <<doDiario, cursor, lido, lote, poda, quedas>>
  BY DEF Esgotar, D!Esgotar, AoFalhar
<1>2. laco = "executando"
  BY DEF Inv, ChamadaDoLaco
<1>3. FalhaNoRastreador' /\ ChamadaDoLaco'
  BY <1>1 DEF FalhaNoRastreador, ChamadaDoLaco
<1> QED BY <1>1, <1>2, <1>3, PassoDaChamada DEF EstadosOperacionais

LEMMA PassoSuceder == ASSUME Inv, Suceder PROVE Inv'
<1>1. /\ tentativa > 0 /\ tentativa' = 0 /\ desfecho' = "sucesso" /\ laco' = "avancando"
      /\ Projetar
      /\ UNCHANGED <<doDiario, cursor, lido, lote, poda, rastreador, quedas>>
  BY DEF Suceder, D!Suceder
<1>2. laco = "executando"
  BY <1>1 DEF Inv, ChamadaDoLaco
<1>3. FalhaNoRastreador' /\ ChamadaDoLaco'
  BY <1>1 DEF FalhaNoRastreador, ChamadaDoLaco
<1>4. rastreador' \in EstadosOperacionais
  BY <1>1 DEF Inv, TypeOK
<1> QED BY <1>1, <1>2, <1>3, <1>4, PassoDaChamada

\* Time changes neither the breaker nor what was told.
LEMMA PassoTempo == ASSUME Inv, Tempo \/ UNCHANGED vars PROVE Inv'
<1>1. UNCHANGED <<doDiario, cursor, destino, doLaco, poda, rastreador, quedas,
                  estado, tentativa, desfecho>>
  BY DEF Tempo, D!VencerEspera, D!RecuarRelogio, vars, doDiario, doLaco
<1> QED BY <1>1 DEF doDiario, doLaco, Inv, TypeOK, CursorNaoPulaNada,
     PodaNaoPerde, FalhaNoRastreador, NaoPassadoFica, LoteCompleto, AvancaOProjetado, Linhas,
     ChamadaDoLaco, FalhaDeixaPendente

-----------------------------------------------------------------------------
(* The theorems.                                                           *)

LEMMA InvMantido == Inv /\ [Next]_vars => Inv'
<1> SUFFICES ASSUME Inv, [Next]_vars PROVE Inv'
  OBVIOUS
<1>1. CASE Diario
  BY <1>1, PassoGravar, PassoLerMenorCursor, PassoPodar DEF Diario
<1>2. CASE Ciclo
  <2>1. Esgotar => tentativa > 0
    BY LimitesValidos DEF Esgotar, D!Esgotar
  <2> QED
    BY <1>2, <2>1, PassoLerCursor, PassoNadaPendente, PassoLerRegistros, PassoFalharLeitura,
       PassoAutorizar, PassoRecusarChamada, PassoTentarDeNovo, PassoEsgotar, PassoSuceder,
       PassoAvancarCursor, PassoFalharAvanco DEF Ciclo, Tentativa
<1> QED BY <1>1, <1>2, PassoTempo, PassoCair DEF Next

LEMMA InvSempre == Spec => []Inv
BY InvInicial, InvMantido, PTL DEF Spec

\* Every variable stays in its range: no cursor is ahead of the journal, and the
\* query database holds only rows that decode.
THEOREM TipoCorreto == Spec => []TypeOK
<1>1. Inv => TypeOK
  BY DEF Inv
<1> QED BY <1>1, InvSempre, PTL

\* The cursor has passed no row that decodes and that the query database lacks.
THEOREM CursorNuncaPula == Spec => []CursorNaoPulaNada
<1>1. Inv => CursorNaoPulaNada
  BY DEF Inv
<1> QED BY <1>1, InvSempre, PTL

\* A row that decodes is in the journal or in the query database, whatever was
\* pruned and whenever the process died.
THEOREM PodaNuncaPerde == Spec => []PodaNaoPerde
<1>1. Inv => PodaNaoPerde
  BY DEF Inv
<1> QED BY <1>1, InvSempre, PTL

\* A failed or refused call stays visible to the operator, with its kind, until
\* a call succeeds.
THEOREM FalhaSempreVisivel == Spec => []FalhaFicaVisivel
<1>1. Inv => FalhaFicaVisivel
  BY DEF Inv, FalhaNoRastreador, FalhaFicaVisivel, Saude
<1> QED BY <1>1, InvSempre, PTL

\* No step moves the cursor back.
THEOREM CursorNuncaRecua == Spec => CursorSoAvanca
<1>1. Inv /\ [Next]_vars => [cursor' >= cursor]_vars
  <2> SUFFICES ASSUME Inv, [Next]_vars PROVE cursor' >= cursor
    OBVIOUS
  <2>1. cursor \in Nat
    BY DEF Inv, TypeOK
  <2>2. CASE AvancarCursor
    <3>1. cursor' = UltimoProjetado /\ UltimoProjetado > cursor
      BY <2>2, AvancaOCursor DEF AvancarCursor
    <3>2. UltimoProjetado \in Nat
      <4>1. UltimoProjetado \in lote
        BY <2>2, AvancaOCursor DEF AvancarCursor
      <4>2. \A id \in lote : id \in Nat
        BY IdsSaoNumeros DEF Inv
      <4> QED BY <4>1, <4>2
    <3> QED BY <2>1, <3>1, <3>2
  <2>3. CASE ~AvancarCursor
    <3>1. cursor' = cursor
      BY <2>3 DEF Next, Diario, Gravar, LerMenorCursor, Podar, Ciclo, LerCursor, NadaPendente,
         LerRegistros, FalharLeitura, Autorizar, RecusarChamada, Tentativa, TentarDeNovo,
         Esgotar, Suceder, FalharAvanco, Tempo, Cair, vars
    <3> QED BY <2>1, <3>1
  <2> QED BY <2>2, <2>3
<1> QED BY <1>1, InvSempre, PTL DEF Spec, CursorSoAvanca

-----------------------------------------------------------------------------
(* The pipeline is the one of the module Disjuntor.                        *)

\* The two instances say the same.
LEMMA MesmaPipeline ==
  /\ DT!AjustesValidos
  /\ D!Init <=> DT!Init
  /\ D!Next <=> DT!Next
  /\ D!NovaPipeline <=> DT!NovaPipeline
  /\ D!vars = DT!vars
  /\ D!TypeOK <=> DT!TypeOK
  /\ D!FechadoAbaixoDaTaxa <=> DT!FechadoAbaixoDaTaxa
  /\ D!AbertoNaoTenta <=> DT!AbertoNaoTenta
  /\ D!AbreComEvidencia <=> DT!AbreComEvidencia
<1>1. DT!AjustesValidos
  BY PipelineValida DEF D!AjustesValidos, DT!AjustesValidos
<1>2. D!vars = DT!vars /\ (D!Init <=> DT!Init) /\ (D!NovaPipeline <=> DT!NovaPipeline)
  BY DEF D!vars, DT!vars, D!Init, DT!Init, D!NovaPipeline, DT!NovaPipeline
<1>3. \A d : D!Transitar(d) <=> DT!Transitar(d)
  BY DEF D!Transitar, DT!Transitar
<1>4. \A j : D!PassouDaTaxa(j) <=> DT!PassouDaTaxa(j)
  <2>1. \A S : D!Cardinality(S) = DT!Cardinality(S)
    BY DEF D!Cardinality, DT!Cardinality
  <2> QED BY <2>1 DEF D!PassouDaTaxa, DT!PassouDaTaxa, D!FalhasEm, DT!FalhasEm
<1>5. \A b : D!RegistrarResultado(b) <=> DT!RegistrarResultado(b)
  BY <1>3, <1>4 DEF D!RegistrarResultado, DT!RegistrarResultado, D!Acrescida, DT!Acrescida,
     D!Transitar, DT!Transitar, D!PassouDaTaxa, DT!PassouDaTaxa, D!FalhasEm, DT!FalhasEm
<1>6. D!Next <=> DT!Next
  BY <1>3, <1>5, Zenon
     DEF D!Next, DT!Next, D!Autorizar, DT!Autorizar, D!Recusar, DT!Recusar, D!Suceder,
       DT!Suceder, D!Retentar, DT!Retentar, D!Esgotar, DT!Esgotar, D!VencerEspera,
       DT!VencerEspera, D!RecuarRelogio, DT!RecuarRelogio, D!Contar, DT!Contar
<1>7. /\ D!TypeOK <=> DT!TypeOK
      /\ D!FechadoAbaixoDaTaxa <=> DT!FechadoAbaixoDaTaxa
      /\ D!AbertoNaoTenta <=> DT!AbertoNaoTenta
      /\ D!AbreComEvidencia <=> DT!AbreComEvidencia
  BY <1>4 DEF D!TypeOK, DT!TypeOK, D!Estados, DT!Estados, D!Desfechos, DT!Desfechos,
     D!FechadoAbaixoDaTaxa, DT!FechadoAbaixoDaTaxa, D!AbertoNaoTenta, DT!AbertoNaoTenta,
     D!AbreComEvidencia, DT!AbreComEvidencia
<1> QED BY <1>1, <1>2, <1>6, <1>7

\* Every step of the projection is a step of the pipeline, a new pipeline, or
\* none of it.
LEMMA PassoDaPipeline ==
  ASSUME [Next]_vars
  PROVE  [D!Next \/ D!NovaPipeline]_(D!vars)
<1>1. ASSUME UNCHANGED doDisjuntor PROVE UNCHANGED D!vars
  BY <1>1 DEF doDisjuntor, D!vars
<1>2. CASE Diario \/ UNCHANGED vars
  BY <1>1, <1>2 DEF Diario, Gravar, LerMenorCursor, Podar, vars, doDisjuntor
<1>3. CASE LerCursor \/ NadaPendente \/ LerRegistros \/ FalharLeitura \/ AvancarCursor \/ FalharAvanco
  BY <1>1, <1>3 DEF LerCursor, NadaPendente, LerRegistros, FalharLeitura, AvancarCursor, FalharAvanco
<1>4. CASE Autorizar \/ RecusarChamada \/ Tentativa
  BY <1>4 DEF Autorizar, RecusarChamada, Tentativa, TentarDeNovo, Esgotar, Suceder, D!Next
<1>5. CASE Tempo \/ Cair
  BY <1>5 DEF Tempo, Cair, D!Next
<1> QED BY <1>2, <1>3, <1>4, <1>5 DEF Next, Ciclo

\* A process that starts again starts with a breaker as good as the first.
LEMMA PipelineNova == DT!NovaPipeline => DT!Inv'
<1> SUFFICES ASSUME DT!NovaPipeline PROVE DT!Inv'
  OBVIOUS
<1>1. DT!AjustesValidos
  BY MesmaPipeline
<1>2. DT!TypeOK'
  <2>1. <<>> \in Seq(BOOLEAN) /\ Len(<<>>) = 0
    OBVIOUS
  <2>2. /\ 0 \in 0 .. Tentativas /\ 0 \in 0 .. MaxRecuos /\ 0 \in 0 .. Minimas /\ 0 <= Janela
    BY <1>1 DEF DT!AjustesValidos
  <2>3. resultados' \in Seq(BOOLEAN) /\ Len(resultados') <= Janela
    BY <2>1, <2>2 DEF DT!NovaPipeline
  <2> QED BY <2>2, <2>3 DEF DT!NovaPipeline, DT!TypeOK, DT!Estados, DT!Desfechos
<1>3. DT!FechadoAbaixoDaTaxa'
  <2>1. ~(Len(<<>>) >= Minimas)
    BY <1>1 DEF DT!AjustesValidos
  <2> QED BY <2>1 DEF DT!NovaPipeline, DT!FechadoAbaixoDaTaxa, DT!PassouDaTaxa
<1>4. DT!AbertoNaoTenta' /\ DT!AbreComEvidencia' /\ DT!JanelaRecente'
  BY DEF DT!NovaPipeline, DT!AbertoNaoTenta, DT!AbreComEvidencia, DT!JanelaRecente
<1> QED BY <1>2, <1>3, <1>4 DEF DT!Inv

LEMMA PipelineSempre == Spec => []DT!Inv
<1>1. Init => DT!Inv
  BY MesmaPipeline, DT!InvNoInicio DEF Init
<1>2. DT!Inv /\ [Next]_vars => DT!Inv'
  <2> SUFFICES ASSUME DT!Inv, [Next]_vars PROVE DT!Inv'
    OBVIOUS
  <2>1. D!Next \/ D!NovaPipeline \/ UNCHANGED D!vars
    BY PassoDaPipeline
  <2>2. UNCHANGED D!vars => UNCHANGED DT!vars
    BY DEF D!vars, DT!vars
  <2>3. [DT!Next]_(DT!vars) \/ DT!NovaPipeline
    BY <2>1, <2>2, MesmaPipeline
  <2> QED BY <2>3, MesmaPipeline, PipelineNova, DT!InvNoPasso
<1> QED BY <1>1, <1>2, PTL DEF Spec

\* The projection uses its pipeline only as the module Disjuntor allows; a new
\* process has a new one.
THEOREM ProjecaoUsaODisjuntor ==
  Spec => D!Init /\ [][D!Next \/ D!NovaPipeline]_(D!vars)
<1>1. Init => D!Init
  BY DEF Init
<1>2. [Next]_vars => [D!Next \/ D!NovaPipeline]_(D!vars)
  BY PassoDaPipeline
<1> QED BY <1>1, <1>2, PTL DEF Spec

\* What was proved of the breaker alone holds inside the projection, across
\* restarts: it is closed only below the rate, opens on evidence, and lets
\* nothing through while it is open.
THEOREM DisjuntorValeNaProjecao ==
  Spec => [](D!TypeOK /\ D!FechadoAbaixoDaTaxa /\ D!AbertoNaoTenta /\ D!AbreComEvidencia)
<1>1. DT!Inv => D!TypeOK /\ D!FechadoAbaixoDaTaxa /\ D!AbertoNaoTenta /\ D!AbreComEvidencia
  BY MesmaPipeline DEF DT!Inv
<1> QED BY <1>1, PipelineSempre, PTL

\* While the breaker is open no attempt starts, ends or changes the query
\* database: the dependency is left alone, whatever the loop does meanwhile.
AbertoPoupaODestino ==
  [][estado = "aberto" => ~Tentativa /\ destino' = destino]_vars

THEOREM DestinoSemprePoupado == Spec => AbertoPoupaODestino
<1>1. DT!Inv /\ [Next]_vars => [estado = "aberto" => ~Tentativa /\ destino' = destino]_vars
  <2> SUFFICES ASSUME DT!Inv, [Next]_vars, estado = "aberto"
               PROVE  ~Tentativa /\ destino' = destino
    OBVIOUS
  <2>1. tentativa = 0
    BY DEF DT!Inv, DT!AbertoNaoTenta
  <2>2. ~(tentativa > 0) /\ tentativa # Tentativas
    BY <2>1, LimitesValidos
  <2>3. ~D!Retentar /\ ~D!Esgotar /\ ~D!Suceder
    BY <2>2 DEF D!Retentar, D!Esgotar, D!Suceder
  <2>4. ~Tentativa
    BY <2>3 DEF Tentativa, TentarDeNovo, Esgotar, Suceder
  <2>5. destino' = destino
    BY <2>4 DEF Next, Diario, Gravar, LerMenorCursor, Podar, Ciclo, LerCursor, NadaPendente,
       LerRegistros, FalharLeitura, Autorizar, RecusarChamada, AvancarCursor, FalharAvanco,
       Tempo, Cair, vars
  <2> QED BY <2>4, <2>5
<1> QED BY <1>1, PipelineSempre, PTL DEF Spec, AbertoPoupaODestino
=============================================================================
