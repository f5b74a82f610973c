----------------------------- MODULE NoTeoremas -----------------------------
(***************************************************************************)
(* The source node for every capacity, every batch size and every number   *)
(* of envelopes.  The inductive invariant is the conjunction of the        *)
(* invariants of the module No with the finiteness of what was lost: the   *)
(* count of the gap needs that no removal is counted twice, which needs    *)
(* that every envelope has one fate, which needs the sequence order.       *)
(***************************************************************************)
EXTENDS No, BufferTeoremas

-----------------------------------------------------------------------------
(* Type correctness.                                                       *)

LEMMA ConteudoTipos ==
  /\ Amostra \in Conteudo /\ Evento \in Conteudo
  /\ \A l \in Lacunas : Marcador(l) \in Conteudo
  /\ \A c \in Conteudo, n \in Nat : /\ Numerado(c, n) \in Item
                                    /\ Numerado(c, n).seq = n
  /\ SemLacuna \in Lacunas
  BY DEF Amostra, Evento, Marcador, Numerado, Conteudo, Item, Classes, Lacunas, SemLacuna

LEMMA TipoInicial == Init => TypeOK
<1> SUFFICES ASSUME Init PROVE TypeOK
  OBVIOUS
<1>1. Numerado(Amostra, 1) \in Item
  BY ConteudoTipos
<1>2. <<Numerado(Amostra, 1)>> \in Seq(Item)
  BY <1>1
<1>3. itens \in Seq(Item)
  BY <1>2 DEF Init
<1>4. lote \in Seq(Item) /\ pauta \in Seq(Conteudo)
  BY DEF Init
<1> QED BY <1>3, <1>4, ConteudoTipos DEF Init, TypeOK

\* Every step keeps the types.  Acrescentar needs a buffer within its capacity
\* to return one, so the bound is part of the induction.
Cabe == Len(itens) <= Capacidade

LEMMA TipoMantido == TypeOK /\ Cabe /\ [Next]_vars => TypeOK' /\ Cabe'
<1> SUFFICES ASSUME TypeOK, Cabe, [Next]_vars PROVE TypeOK' /\ Cabe'
  OBVIOUS
<1> USE DEF TypeOK, Cabe
<1>1. CASE Amostrar
  <2>1. PICK mudouFase, mudouContagem \in BOOLEAN :
          pauta' = <<Amostra, Amostra>>
                   \o (IF mudouFase THEN <<Evento>> ELSE <<>>)
                   \o (IF mudouContagem THEN <<Evento>> ELSE <<>>)
    BY <1>1 DEF Amostrar
  <2>2. /\ <<Amostra, Amostra>> \in Seq(Conteudo)
        /\ <<Evento>> \in Seq(Conteudo) /\ <<>> \in Seq(Conteudo)
    BY ConteudoTipos
  <2>3. pauta' \in Seq(Conteudo)
    BY <2>1, <2>2, ConcatProperties
  <2> QED BY <1>1, <2>3 DEF Amostrar, doBuffer, doDespacho, historia
<1>2. CASE EmitirSaude
  <2>1. pauta' = (IF lacuna.registros = 0 THEN <<>> ELSE <<Marcador(lacuna)>>) \o <<Amostra>>
    BY <1>2 DEF EmitirSaude
  <2>2. /\ <<Marcador(lacuna)>> \in Seq(Conteudo)
        /\ <<Amostra>> \in Seq(Conteudo) /\ <<>> \in Seq(Conteudo)
    BY ConteudoTipos
  <2>3. pauta' \in Seq(Conteudo)
    BY <2>1, <2>2, ConcatProperties
  <2> QED BY <1>2, <2>3, ConteudoTipos DEF EmitirSaude, doDespacho
<1>3. CASE EmitirDescritor
  <2>1. pauta' \in Seq(Conteudo)
    BY <1>3, ConteudoTipos DEF EmitirDescritor
  <2> QED BY <1>3, <2>1 DEF EmitirDescritor, doBuffer, doDespacho, historia
<1>4. CASE Enfileirar
  <2>1. Head(pauta) \in Conteudo /\ Tail(pauta) \in Seq(Conteudo)
    BY <1>4, HeadTailProperties DEF Enfileirar
  <2>2. Numerado(Head(pauta), sequencia + 1) \in Item
    BY <2>1, ConteudoTipos
  <2>3. /\ itens' \in Seq(Item) /\ Len(itens') <= Capacidade
        /\ CaidosAoAcrescentar(itens, Capacidade) \in SUBSET Item
        /\ IsFiniteSet(CaidosAoAcrescentar(itens, Capacidade))
    BY <1>4, <2>2, AcrescentarFatos, ConfiguracaoValida DEF Enfileirar
  <2>4. lacuna' \in Lacunas /\ perdidos' \in SUBSET Item /\ perdidos \in SUBSET perdidos'
    BY <1>4, <2>3, AcumularFatos DEF Enfileirar, Perder
  <2> QED BY <1>4, <2>1, <2>3, <2>4 DEF Enfileirar, doDespacho
<1>5. CASE Despachar \/ DespacharNoDesligamento
  <2>1. lote' \in Seq(Item) /\ itens' \in Seq(Item) /\ Len(itens') <= Len(itens)
    BY <1>5, DrenarFatos, ConfiguracaoValida
       DEF Despachar, DespacharNoDesligamento, Drenar
  <2>2. Len(itens) \in Nat /\ Len(itens') \in Nat
    BY <2>1, LenProperties
  <2> QED BY <1>5, <2>1, <2>2, ConfiguracaoValida
          DEF Despachar, DespacharNoDesligamento, Drenar, daAmostragem, historia
<1>6. CASE Confirmacao
  <2>1. PICK rejeitados \in SUBSET Itens(lote) : RespostaConfirma(rejeitados)
    BY <1>6 DEF Confirmacao
  <2>2. Itens(lote) \in SUBSET Item /\ <<>> \in Seq(Item)
    BY ItensDeSeq
  <2> QED BY <2>1, <2>2 DEF RespostaConfirma, Depois, doBuffer, daAmostragem
<1>7. CASE RespostaRecusa
  <2>1. Itens(lote) \in SUBSET Item /\ <<>> \in Seq(Item)
    BY ItensDeSeq
  <2> QED BY <1>7, <2>1 DEF RespostaRecusa, Depois, doBuffer, daAmostragem
<1>8. CASE RespostaDevolve
  <2>1. /\ itens' \in Seq(Item) /\ Len(itens') <= Capacidade
        /\ CaidosAoDevolver(itens, lote, Capacidade) \in SUBSET Item
        /\ IsFiniteSet(CaidosAoDevolver(itens, lote, Capacidade))
    BY <1>8, DevolverFatos, ConfiguracaoValida DEF RespostaDevolve
  <2>2. lacuna' \in Lacunas /\ perdidos' \in SUBSET Item /\ perdidos \in SUBSET perdidos'
    BY <1>8, <2>1, AcumularFatos DEF RespostaDevolve, Perder
  <2>3. <<>> \in Seq(Item)
    OBVIOUS
  <2> QED BY <1>8, <2>1, <2>2, <2>3 DEF RespostaDevolve, Depois, daAmostragem
<1>9. CASE \/ PararAmostragem \/ PrazoVence \/ Decidir \/ FimDoRecuo \/ PararDespacho
           \/ Cancelar \/ Desligar \/ Encerrar \/ UNCHANGED vars
  BY <1>9 DEF PararAmostragem, PrazoVence, Decidir, FimDoRecuo, PararDespacho,
              Cancelar, Desligar, Encerrar, vars, doBuffer, daAmostragem, doDespacho, historia
<1> QED BY <1>1, <1>2, <1>3, <1>4, <1>5, <1>6, <1>7, <1>8, <1>9
        DEF Next, Amostragem, Despacho, Desligamento, Resposta, Terminado

\* Type correctness of every behaviour of the node.
THEOREM TipoCorreto == Spec => []TypeOK
<1>1. Init => TypeOK /\ Cabe
  <2>1. Init => Len(itens) = 1
    BY DEF Init
  <2> QED BY <2>1, TipoInicial, ConfiguracaoValida DEF Cabe
<1>2. TypeOK /\ Cabe /\ [Next]_vars => (TypeOK /\ Cabe)'
  BY TipoMantido
<1> QED BY <1>1, <1>2, PTL DEF Spec

-----------------------------------------------------------------------------
(* The inductive invariant.                                                *)

PerdidosFinitos == IsFiniteSet(perdidos)

Inv ==
  /\ TypeOK
  /\ LimitesDeMemoria
  /\ DecididoTemItem
  /\ OrdemDeSequencia
  /\ UmDestinoParaCadaUm
  /\ PerdidosFinitos
  /\ LacunaContaPerdas
  /\ LacunaCobreEventos

LEMMA SeqsUniao ==
  ASSUME NEW A, NEW B
  PROVE  Seqs(A \cup B) = Seqs(A) \cup Seqs(B)
<1>1. \A n : n \in Seqs(A \cup B) <=> n \in Seqs(A) \cup Seqs(B)
  BY DEF Seqs
<1> QED BY <1>1, Zenon

LEMMA EventosUniao ==
  ASSUME NEW A, NEW B
  PROVE  Eventos(A \cup B) = Eventos(A) \cup Eventos(B)
  BY DEF Eventos

\* The invariant on the queue, in terms of its two parts.
LEMMA FilaPartes ==
  ASSUME NEW a \in Seq(Item), NEW b \in Seq(Item)
  PROVE  /\ Itens(a \o b) = Itens(a) \cup Itens(b)
         /\ Seqs(Itens(a \o b)) = Seqs(Itens(a)) \cup Seqs(Itens(b))
         /\ Seqs(Itens(a)) \in SUBSET Nat /\ Seqs(Itens(b)) \in SUBSET Nat
<1>1. Itens(a \o b) = Itens(a) \cup Itens(b)
  BY ConcatFatos
<1>2. Itens(a) \in SUBSET Item /\ Itens(b) \in SUBSET Item
  BY ItensDeSeq
<1> QED BY <1>1, <1>2, SeqsUniao DEF Seqs, Item

LEMMA UmSo ==
  ASSUME NEW x \in Item
  PROVE  /\ <<x>> \in Seq(Item) /\ Itens(<<x>>) = {x} /\ Crescente(<<x>>)
         /\ Seqs({x}) = {x.seq}
  BY DEF Itens, Crescente, Seqs

\* A loss never counted before keeps the count and the cover of the gap.
LEMMA PerdaContada ==
  ASSUME TypeOK, PerdidosFinitos, LacunaContaPerdas, LacunaCobreEventos,
         NEW C \in SUBSET Item, IsFiniteSet(C), Seqs(C) \cap Seqs(perdidos) = {},
         Perder(C), denunciados' = denunciados
  PROVE  PerdidosFinitos' /\ LacunaContaPerdas' /\ LacunaCobreEventos'
<1> DEFINE P == perdidos \ denunciados
<1>1. lacuna' = Acumular(lacuna, C) /\ perdidos' = perdidos \cup C
  BY DEF Perder
<1>2. lacuna \in Lacunas /\ denunciados \in SUBSET perdidos
  BY DEF TypeOK
<1>3. C \cap perdidos = {}
  BY DEF Seqs
<1>4. perdidos' \ denunciados' = P \cup C
  BY <1>1, <1>2, <1>3
<1>5. PerdidosFinitos'
  BY <1>1, FS_Union DEF PerdidosFinitos
<1>6. IsFiniteSet(P) /\ P \cap C = {} /\ Cardinality(P) \in Nat /\ Cardinality(C) \in Nat
  BY <1>3, FS_Difference, FS_CardinalityType DEF PerdidosFinitos
<1>7. Cardinality(P \cup C) = Cardinality(P) + Cardinality(C)
  BY <1>6, FS_Union, FS_EmptySet
<1>8. lacuna.registros = Cardinality(P)
  BY DEF LacunaContaPerdas
<1>9. lacuna'.registros = lacuna.registros + Cardinality(C)
  BY <1>1, <1>2, AcumularFatos
<1>10. LacunaContaPerdas'
  BY <1>4, <1>7, <1>8, <1>9 DEF LacunaContaPerdas
<1>11. /\ lacuna.primeira \in Nat /\ lacuna.ultima \in Nat
       /\ lacuna'.primeira \in Nat /\ lacuna'.ultima \in Nat
  BY <1>1, <1>2, AcumularFatos DEF Lacunas
<1>12. lacuna'.primeira <= lacuna'.ultima
  BY <1>1, <1>2, AcumularFatos DEF LacunaCobreEventos
<1>13. ASSUME NEW n \in Seqs(Eventos(P \cup C))
       PROVE  lacuna'.primeira <= n /\ n <= lacuna'.ultima
  <2>1. n \in Seqs(Eventos(P)) \/ n \in Seqs(Eventos(C))
    BY EventosUniao, SeqsUniao
  <2>2. CASE n \in Seqs(Eventos(C))
    BY <2>2, <1>1, <1>2, AcumularFatos
  <2>3. CASE n \in Seqs(Eventos(P))
    <3>1. P # {} /\ n \in Nat
      BY <2>3, <1>2 DEF Seqs, Eventos, TypeOK, Item
    <3>2. lacuna.registros # 0
      BY <3>1, <1>6, <1>8, FS_EmptySet
    <3>3. lacuna'.primeira <= lacuna.primeira /\ lacuna.ultima <= lacuna'.ultima
      BY <3>2, <1>1, <1>2, AcumularFatos
    <3>4. lacuna.primeira <= n /\ n <= lacuna.ultima
      BY <2>3 DEF LacunaCobreEventos
    <3> QED BY <3>1, <3>3, <3>4, <1>11
  <2> QED BY <2>1, <2>2, <2>3
<1>14. LacunaCobreEventos'
  BY <1>4, <1>12, <1>13 DEF LacunaCobreEventos
<1> QED BY <1>5, <1>10, <1>14

\* What the invariant says of the numbers, part by part.
LEMMA Numeros ==
  ASSUME TypeOK, OrdemDeSequencia, UmDestinoParaCadaUm
  PROVE  /\ Crescente(lote) /\ Crescente(itens)
         /\ \A m \in Seqs(Itens(lote)), n \in Seqs(Itens(itens)) : m < n
         /\ \A m \in Seqs(Resolvidos), n \in Seqs(Itens(lote)) \cup Seqs(Itens(itens)) : m < n
         /\ 1 .. sequencia = Seqs(Itens(lote)) \cup Seqs(Itens(itens))
                             \cup Seqs(Resolvidos) \cup Seqs(perdidos)
         /\ Seqs(perdidos) \cap (Seqs(Itens(lote)) \cup Seqs(Itens(itens))
                                 \cup Seqs(Resolvidos)) = {}
<1>1. lote \in Seq(Item) /\ itens \in Seq(Item)
  BY DEF TypeOK
<1>2. Seqs(Itens(Fila)) = Seqs(Itens(lote)) \cup Seqs(Itens(itens))
  BY <1>1, FilaPartes DEF Fila
<1>3. Crescente(lote \o itens)
  BY DEF OrdemDeSequencia, Fila
<1> QED BY <1>1, <1>2, <1>3, ConcatFatos DEF OrdemDeSequencia, UmDestinoParaCadaUm

\* The converse, for the next state.
LEMMA NumerosDepois ==
  ASSUME TypeOK',
         Crescente(lote'), Crescente(itens'),
         \A m \in Seqs(Itens(lote')), n \in Seqs(Itens(itens')) : m < n,
         \A m \in Seqs(Resolvidos'), n \in Seqs(Itens(lote')) \cup Seqs(Itens(itens')) : m < n,
         1 .. sequencia' = Seqs(Itens(lote')) \cup Seqs(Itens(itens'))
                           \cup Seqs(Resolvidos') \cup Seqs(perdidos'),
         Seqs(perdidos') \cap (Seqs(Itens(lote')) \cup Seqs(Itens(itens'))
                               \cup Seqs(Resolvidos')) = {},
         Seqs(entregues') \cap Seqs(recusados') = {}
  PROVE  OrdemDeSequencia' /\ UmDestinoParaCadaUm'
<1>1. lote' \in Seq(Item) /\ itens' \in Seq(Item)
  BY DEF TypeOK
<1>2. Seqs(Itens(Fila')) = Seqs(Itens(lote')) \cup Seqs(Itens(itens'))
  BY <1>1, FilaPartes DEF Fila
<1>3. Crescente(Fila')
  BY <1>1, ConcatFatos DEF Fila
<1> QED BY <1>2, <1>3 DEF OrdemDeSequencia, UmDestinoParaCadaUm

-----------------------------------------------------------------------------
(* One lemma per kind of step.                                             *)

LEMMA InvInicial == Init => Inv
<1> SUFFICES ASSUME Init PROVE Inv
  OBVIOUS
<1> DEFINE x == Numerado(Amostra, 1)
<1>1. x \in Item /\ x.seq = 1
  BY ConteudoTipos
<1> HIDE DEF x
<1>2. /\ lote = <<>> /\ itens = <<x>> /\ sequencia = 1 /\ laco = "aguardando"
      /\ entregues = {} /\ recusados = {} /\ perdidos = {} /\ denunciados = {}
      /\ lacuna = SemLacuna
  BY DEF Init, x
<1>3. Fila = <<x>> /\ Itens(Fila) = {x} /\ Seqs(Itens(Fila)) = {1}
  BY <1>1, <1>2, UmSo, ConcatEmptySeq DEF Fila
<1>4. Seqs({}) = {} /\ Eventos({}) = {}
  BY DEF Seqs, Eventos
<1>5. OrdemDeSequencia
  BY <1>1, <1>2, <1>3, <1>4, UmSo DEF OrdemDeSequencia, Resolvidos
<1>6. UmDestinoParaCadaUm
  BY <1>2, <1>3, <1>4 DEF UmDestinoParaCadaUm, Resolvidos
<1>7. PerdidosFinitos /\ LacunaContaPerdas /\ LacunaCobreEventos
  BY <1>2, <1>4, FS_EmptySet
     DEF PerdidosFinitos, LacunaContaPerdas, LacunaCobreEventos, SemLacuna
<1>8. LimitesDeMemoria /\ DecididoTemItem
  BY <1>1, <1>2, ConfiguracaoValida DEF LimitesDeMemoria, DecididoTemItem
<1> QED BY <1>5, <1>6, <1>7, <1>8, TipoInicial DEF Inv

\* A step that moves no envelope.
LEMMA SemMover ==
  ASSUME Inv, TypeOK',
         UNCHANGED <<itens, lote, sequencia, entregues, recusados, perdidos>>
  PROVE  OrdemDeSequencia' /\ UmDestinoParaCadaUm' /\ PerdidosFinitos'
  BY DEF Inv, OrdemDeSequencia, UmDestinoParaCadaUm, PerdidosFinitos, Fila, Resolvidos

\* A step that also leaves the gap alone.
LEMMA SemPerder ==
  ASSUME Inv, UNCHANGED <<lacuna, perdidos, denunciados>>
  PROVE  PerdidosFinitos' /\ LacunaContaPerdas' /\ LacunaCobreEventos'
  BY DEF Inv, PerdidosFinitos, LacunaContaPerdas, LacunaCobreEventos

\* emitirSaude: the gap starts again from nothing.
LEMMA PassoEmitirSaude ==
  ASSUME Inv, TypeOK', EmitirSaude
  PROVE  Inv'
<1>1. /\ UNCHANGED <<itens, lote, sequencia, laco, entregues, recusados, perdidos>>
      /\ lacuna' = SemLacuna /\ denunciados' = perdidos
  BY DEF EmitirSaude, doDespacho
<1>2. OrdemDeSequencia' /\ UmDestinoParaCadaUm' /\ PerdidosFinitos'
  BY <1>1, SemMover
<1>3. perdidos' \ denunciados' = {} /\ Seqs(Eventos({})) = {}
  BY <1>1 DEF Seqs, Eventos
<1>4. LacunaContaPerdas' /\ LacunaCobreEventos'
  BY <1>1, <1>3, FS_EmptySet DEF LacunaContaPerdas, LacunaCobreEventos, SemLacuna
<1>5. LimitesDeMemoria' /\ DecididoTemItem'
  BY <1>1 DEF Inv, LimitesDeMemoria, DecididoTemItem, NaRede
<1> QED BY <1>2, <1>4, <1>5 DEF Inv

\* The new envelope goes behind everything; what it pushes out was nowhere else.
LEMMA PassoEnfileirar ==
  ASSUME Inv, TypeOK', Enfileirar
  PROVE  Inv'
<1> DEFINE x == Numerado(Head(pauta), sequencia + 1)
           C == CaidosAoAcrescentar(itens, Capacidade)
<1>1. /\ itens \in Seq(Item) /\ lote \in Seq(Item) /\ Len(itens) <= Capacidade
      /\ sequencia \in Nat
  BY DEF Inv, TypeOK, LimitesDeMemoria
<1>2. x \in Item /\ x.seq = sequencia + 1
  <2>1. Head(pauta) \in Conteudo
    BY HeadTailProperties DEF Enfileirar, Inv, TypeOK
  <2> QED BY <2>1, <1>1, ConteudoTipos
<1>3. /\ itens' = Acrescentar(itens, x, Capacidade) /\ sequencia' = sequencia + 1
      /\ UNCHANGED <<lote, laco, entregues, recusados, denunciados>> /\ Perder(C)
      /\ perdidos' = perdidos \cup C
  BY DEF Enfileirar, Perder, doDespacho
<1> HIDE DEF x, C
<1>4. /\ Crescente(lote) /\ Crescente(itens)
      /\ \A m \in Seqs(Itens(lote)), n \in Seqs(Itens(itens)) : m < n
      /\ \A m \in Seqs(Resolvidos), n \in Seqs(Itens(lote)) \cup Seqs(Itens(itens)) : m < n
      /\ 1 .. sequencia = Seqs(Itens(lote)) \cup Seqs(Itens(itens))
                          \cup Seqs(Resolvidos) \cup Seqs(perdidos)
      /\ Seqs(perdidos) \cap (Seqs(Itens(lote)) \cup Seqs(Itens(itens))
                              \cup Seqs(Resolvidos)) = {}
  BY Numeros DEF Inv
<1>5. PICK r \in Seq(Item) : /\ itens' = r \o <<x>>
                             /\ Crescente(r)
                             /\ Sobrou(Itens(itens), C, Itens(r))
  BY <1>1, <1>2, <1>3, <1>4, AcrescentarFatos, ConfiguracaoValida DEF C
<1>6. /\ Len(itens') <= Capacidade /\ itens' # <<>>
  <2>1. Len(itens') <= Capacidade
    BY <1>1, <1>2, <1>3, AcrescentarFatos, ConfiguracaoValida
  <2>2. itens' # <<>>
    BY <1>2, <1>5, UmSo, ConcatProperties, LenProperties, EmptySeq
  <2> QED BY <2>1, <2>2
<1>7. /\ C \in SUBSET Item /\ IsFiniteSet(C)
      /\ Seqs(Itens(itens)) = Seqs(Itens(r)) \cup Seqs(C)
      /\ Seqs(Itens(r)) \cap Seqs(C) = {}
  BY <1>5, SeqsUniao DEF Sobrou
<1>novo. <<x>> \in Seq(Item) /\ Crescente(<<x>>) /\ Seqs(Itens(<<x>>)) = {sequencia + 1}
  <2>1. <<x>> \in Seq(Item) /\ Crescente(<<x>>) /\ Itens(<<x>>) = {x} /\ Seqs({x}) = {x.seq}
    BY <1>2, UmSo
  <2> QED BY <2>1, <1>2, Zenon
<1>8. Seqs(Itens(itens')) = Seqs(Itens(r)) \cup {sequencia + 1}
  <2>1. Seqs(Itens(r \o <<x>>)) = Seqs(Itens(r)) \cup Seqs(Itens(<<x>>))
    BY <1>novo, FilaPartes
  <2> QED BY <2>1, <1>5, <1>novo, Zenon
<1>9. Crescente(itens')
  <2>1. \A m \in Seqs(Itens(r)), n \in Seqs(Itens(<<x>>)) : m < n
    <3>1. \A m \in Seqs(Itens(r)) : m \in 1 .. sequencia
      BY <1>4, <1>7
    <3> QED BY <3>1, <1>1, <1>novo
  <2> QED BY <2>1, <1>5, <1>novo, ConcatFatos
<1>10. Seqs(perdidos') = Seqs(perdidos) \cup Seqs(C) /\ Resolvidos' = Resolvidos
  BY <1>3, SeqsUniao DEF Resolvidos
<1>11. /\ Seqs(Itens(lote)) \in SUBSET (1 .. sequencia)
       /\ Seqs(Itens(itens)) \in SUBSET (1 .. sequencia)
       /\ Seqs(Resolvidos) \in SUBSET (1 .. sequencia)
       /\ Seqs(perdidos) \in SUBSET (1 .. sequencia)
  BY <1>4, Zenon
<1>12. 1 .. sequencia' = (1 .. sequencia) \cup {sequencia + 1}
  BY <1>1, <1>3
<1>13. Seqs(C) \cap (Seqs(Itens(lote)) \cup Seqs(Resolvidos) \cup Seqs(perdidos)) = {}
  BY <1>1, <1>4, <1>7, <1>11
<1>14. /\ \A m \in Seqs(Itens(lote')), n \in Seqs(Itens(itens')) : m < n
       /\ \A m \in Seqs(Resolvidos'), n \in Seqs(Itens(lote')) \cup Seqs(Itens(itens')) : m < n
  BY <1>1, <1>3, <1>4, <1>7, <1>8, <1>10, <1>11
<1>15. 1 .. sequencia' = Seqs(Itens(lote')) \cup Seqs(Itens(itens'))
                         \cup Seqs(Resolvidos') \cup Seqs(perdidos')
  <2>1. 1 .. sequencia' = Seqs(Itens(lote)) \cup Seqs(Itens(r)) \cup Seqs(C)
                          \cup Seqs(Resolvidos) \cup Seqs(perdidos) \cup {sequencia + 1}
    BY <1>4, <1>7, <1>12, Zenon
  <2>2. lote' = lote
    BY <1>3
  <2> QED BY <2>1, <2>2, <1>8, <1>10
<1>16. Seqs(perdidos') \cap (Seqs(Itens(lote')) \cup Seqs(Itens(itens'))
                             \cup Seqs(Resolvidos')) = {}
  <2>1. sequencia + 1 \notin Seqs(perdidos) \cup Seqs(C)
    BY <1>1, <1>7, <1>11
  <2>2. lote' = lote
    BY <1>3
  <2> QED BY <2>1, <2>2, <1>4, <1>7, <1>8, <1>10, <1>13
<1>17. OrdemDeSequencia' /\ UmDestinoParaCadaUm'
  <2>1. Crescente(lote') /\ Seqs(entregues') \cap Seqs(recusados') = {}
    BY <1>3, <1>4 DEF Inv, UmDestinoParaCadaUm
  <2> QED BY <2>1, <1>9, <1>14, <1>15, <1>16, NumerosDepois
<1>18. PerdidosFinitos' /\ LacunaContaPerdas' /\ LacunaCobreEventos'
  BY <1>3, <1>7, <1>13, PerdaContada DEF Inv
<1>19. LimitesDeMemoria' /\ DecididoTemItem'
  BY <1>3, <1>6 DEF Inv, LimitesDeMemoria, DecididoTemItem, NaRede
<1> QED BY <1>17, <1>18, <1>19 DEF Inv

\* Drenar moves the front of the buffer to the batch, which was empty.
LEMMA PassoDrenar ==
  ASSUME Inv, TypeOK', NEW para \in {"na_rede", "ultima_na_rede"},
         laco \in {"decidido", "desligando"}, Drenar(para)
  PROVE  Inv'
<1>1. /\ itens \in Seq(Item) /\ itens' \in Seq(Item) /\ lote' \in Seq(Item)
      /\ lote = <<>> /\ Len(itens) <= Capacidade
  BY DEF Inv, TypeOK, LimitesDeMemoria, NaRede
<1>2. /\ lote' = Drenados(itens, EnvelopesPorRemessa)
      /\ itens' = SemDrenados(itens, EnvelopesPorRemessa)
      /\ laco' = para
      /\ UNCHANGED <<sequencia, lacuna, entregues, recusados, perdidos, denunciados>>
  BY DEF Drenar, daAmostragem, historia
<1>3. /\ lote' \o itens' = itens
      /\ Len(lote') <= EnvelopesPorRemessa /\ Len(itens') <= Len(itens)
  BY <1>1, <1>2, DrenarFatos, ConfiguracaoValida
<1>4. Fila' = itens /\ Fila = itens
  BY <1>1, <1>3, ConcatEmptySeq DEF Fila
<1>5. OrdemDeSequencia' /\ UmDestinoParaCadaUm'
  BY <1>2, <1>4 DEF Inv, OrdemDeSequencia, UmDestinoParaCadaUm, Resolvidos
<1>6. PerdidosFinitos' /\ LacunaContaPerdas' /\ LacunaCobreEventos'
  BY <1>2, SemPerder
<1>7. Len(itens') <= Capacidade
  BY <1>1, <1>3, LenProperties, ConfiguracaoValida
<1>8. LimitesDeMemoria' /\ DecididoTemItem'
  BY <1>2, <1>3, <1>7 DEF LimitesDeMemoria, DecididoTemItem, NaRede
<1> QED BY <1>5, <1>6, <1>8 DEF Inv

\* An answer settles the whole batch: R refused, the rest delivered.
LEMMA PassoResolver ==
  ASSUME Inv, TypeOK', NEW R \in SUBSET Itens(lote),
         entregues' = entregues \cup (Itens(lote) \ R),
         recusados' = recusados \cup R,
         lote' = <<>>, laco' # "decidido",
         UNCHANGED <<itens, lacuna, sequencia, perdidos, denunciados>>
  PROVE  Inv'
<1>1. /\ lote \in Seq(Item) /\ Itens(lote) \in SUBSET Item
      /\ entregues \in SUBSET Item /\ recusados \in SUBSET Item
      /\ itens \in Seq(Item)
  BY ItensDeSeq DEF Inv, TypeOK
<1>2. Resolvidos' = Resolvidos \cup Itens(lote)
  BY DEF Resolvidos
<1>3. Seqs(Resolvidos') = Seqs(Resolvidos) \cup Seqs(Itens(lote))
  BY <1>2, SeqsUniao
<1>4. /\ Crescente(lote) /\ Crescente(itens)
      /\ \A m \in Seqs(Itens(lote)), n \in Seqs(Itens(itens)) : m < n
      /\ \A m \in Seqs(Resolvidos), n \in Seqs(Itens(lote)) \cup Seqs(Itens(itens)) : m < n
      /\ 1 .. sequencia = Seqs(Itens(lote)) \cup Seqs(Itens(itens))
                          \cup Seqs(Resolvidos) \cup Seqs(perdidos)
      /\ Seqs(perdidos) \cap (Seqs(Itens(lote)) \cup Seqs(Itens(itens))
                              \cup Seqs(Resolvidos)) = {}
  BY Numeros DEF Inv
<1>5. Crescente(<<>>) /\ Itens(<<>>) = {} /\ Seqs({}) = {} /\ Len(<<>>) = 0
  BY DEF Crescente, Itens, Seqs
<1>6. Seqs(entregues') \cap Seqs(recusados') = {}
  <2>1. Seqs(entregues) \cup Seqs(recusados) = Seqs(Resolvidos)
    BY SeqsUniao DEF Resolvidos
  <2>2. /\ Seqs(entregues') = Seqs(entregues) \cup Seqs(Itens(lote) \ R)
        /\ Seqs(recusados') = Seqs(recusados) \cup Seqs(R)
    BY SeqsUniao
  <2>3. Seqs(Itens(lote) \ R) \cap Seqs(R) = {}
    <3> SUFFICES ASSUME NEW a \in Itens(lote) \ R, NEW b \in R, a.seq = b.seq PROVE FALSE
      BY DEF Seqs
    <3>1. PICK i \in DOMAIN lote : a = lote[i]
      BY DEF Itens
    <3>2. PICK j \in DOMAIN lote : b = lote[j]
      BY DEF Itens
    <3>3. i = j
      BY <1>1, <1>4, <3>1, <3>2, CrescenteInjetiva
    <3> QED BY <3>1, <3>2, <3>3
  <2>4. /\ Seqs(Itens(lote) \ R) \in SUBSET Seqs(Itens(lote))
        /\ Seqs(R) \in SUBSET Seqs(Itens(lote))
    BY DEF Seqs
  <2>5. Seqs(Resolvidos) \cap Seqs(Itens(lote)) = {}
    <3>1. Seqs(Itens(lote)) \in SUBSET Nat
      BY <1>1 DEF Seqs, Item
    <3> QED BY <3>1, <1>4
  <2>6. Seqs(entregues) \cap Seqs(recusados) = {}
    BY DEF Inv, UmDestinoParaCadaUm
  <2> QED BY <2>1, <2>2, <2>3, <2>4, <2>5, <2>6
<1>7. OrdemDeSequencia' /\ UmDestinoParaCadaUm'
  <2>1. /\ Crescente(lote') /\ Crescente(itens')
        /\ \A m \in Seqs(Itens(lote')), n \in Seqs(Itens(itens')) : m < n
    BY <1>4, <1>5
  <2>2. \A m \in Seqs(Resolvidos'), n \in Seqs(Itens(lote')) \cup Seqs(Itens(itens')) : m < n
    BY <1>3, <1>4, <1>5
  <2>3. 1 .. sequencia' = Seqs(Itens(lote')) \cup Seqs(Itens(itens'))
                          \cup Seqs(Resolvidos') \cup Seqs(perdidos')
    BY <1>3, <1>4, <1>5
  <2>4. Seqs(perdidos') \cap (Seqs(Itens(lote')) \cup Seqs(Itens(itens'))
                              \cup Seqs(Resolvidos')) = {}
    BY <1>3, <1>4, <1>5
  <2> QED BY <1>6, <2>1, <2>2, <2>3, <2>4, NumerosDepois
<1>8. PerdidosFinitos' /\ LacunaContaPerdas' /\ LacunaCobreEventos'
  BY SemPerder
<1>9. LimitesDeMemoria' /\ DecididoTemItem'
  BY <1>5, ConfiguracaoValida DEF Inv, LimitesDeMemoria, DecididoTemItem
<1> QED BY <1>7, <1>8, <1>9 DEF Inv

\* The batch returns to the front; what does not fit was nowhere else.
LEMMA PassoDevolver ==
  ASSUME Inv, TypeOK', RespostaDevolve
  PROVE  Inv'
<1> DEFINE C == CaidosAoDevolver(itens, lote, Capacidade)
<1>1. /\ itens \in Seq(Item) /\ lote \in Seq(Item) /\ itens' \in Seq(Item)
      /\ Capacidade \in Nat
  BY ConfiguracaoValida DEF Inv, TypeOK
<1>2. /\ itens' = Devolver(itens, lote, Capacidade) /\ lote' = <<>>
      /\ Perder(C) /\ perdidos' = perdidos \cup C
      /\ laco' # "decidido"
      /\ UNCHANGED <<sequencia, entregues, recusados, denunciados>>
  BY DEF RespostaDevolve, Perder, daAmostragem, NaRede, Depois
<1> HIDE DEF C
<1>3. Crescente(lote \o itens)
  BY DEF Inv, OrdemDeSequencia, Fila
<1>4. /\ Len(itens') <= Capacidade /\ Crescente(itens')
      /\ Sobrou(Itens(lote) \cup Itens(itens), C, Itens(itens'))
  BY <1>1, <1>2, <1>3, DevolverFatos DEF C
<1>5. /\ C \in SUBSET Item /\ IsFiniteSet(C)
      /\ Seqs(Itens(lote)) \cup Seqs(Itens(itens)) = Seqs(Itens(itens')) \cup Seqs(C)
      /\ Seqs(Itens(itens')) \cap Seqs(C) = {}
  <2>1. /\ C \in SUBSET Item /\ IsFiniteSet(C)
        /\ Itens(itens') \cup C = Itens(lote) \cup Itens(itens)
        /\ Seqs(Itens(itens')) \cap Seqs(C) = {}
    BY <1>4 DEF Sobrou
  <2>2. /\ Seqs(Itens(lote) \cup Itens(itens)) = Seqs(Itens(lote)) \cup Seqs(Itens(itens))
        /\ Seqs(Itens(itens') \cup C) = Seqs(Itens(itens')) \cup Seqs(C)
    BY SeqsUniao
  <2> QED BY <2>1, <2>2
<1>6. /\ \A m \in Seqs(Resolvidos), n \in Seqs(Itens(lote)) \cup Seqs(Itens(itens)) : m < n
      /\ 1 .. sequencia = Seqs(Itens(lote)) \cup Seqs(Itens(itens))
                          \cup Seqs(Resolvidos) \cup Seqs(perdidos)
      /\ Seqs(perdidos) \cap (Seqs(Itens(lote)) \cup Seqs(Itens(itens))
                              \cup Seqs(Resolvidos)) = {}
  BY Numeros DEF Inv
<1>7. Crescente(<<>>) /\ Itens(<<>>) = {} /\ Seqs({}) = {} /\ Len(<<>>) = 0
  BY DEF Crescente, Itens, Seqs
<1>8. Seqs(perdidos') = Seqs(perdidos) \cup Seqs(C) /\ Resolvidos' = Resolvidos
  BY <1>2, SeqsUniao DEF Resolvidos
<1>9. Seqs(Itens(lote)) \cup Seqs(Itens(itens)) \in SUBSET Nat
  BY <1>1, FilaPartes
<1>10. Seqs(C) \cap (Seqs(Resolvidos) \cup Seqs(perdidos)) = {}
  <2>1. Seqs(C) \in SUBSET (Seqs(Itens(lote)) \cup Seqs(Itens(itens)))
    BY <1>5
  <2>2. Seqs(Resolvidos) \cap (Seqs(Itens(lote)) \cup Seqs(Itens(itens))) = {}
    BY <1>6, <1>9
  <2> QED BY <2>1, <2>2, <1>6
<1>11. OrdemDeSequencia' /\ UmDestinoParaCadaUm'
  <2>1. /\ Crescente(lote') /\ Crescente(itens')
        /\ \A m \in Seqs(Itens(lote')), n \in Seqs(Itens(itens')) : m < n
    BY <1>2, <1>4, <1>7
  <2>2. \A m \in Seqs(Resolvidos'), n \in Seqs(Itens(lote')) \cup Seqs(Itens(itens')) : m < n
    BY <1>2, <1>5, <1>6, <1>7, <1>8
  <2>3. 1 .. sequencia' = Seqs(Itens(lote')) \cup Seqs(Itens(itens'))
                          \cup Seqs(Resolvidos') \cup Seqs(perdidos')
    BY <1>2, <1>5, <1>6, <1>7, <1>8
  <2>4. Seqs(perdidos') \cap (Seqs(Itens(lote')) \cup Seqs(Itens(itens'))
                              \cup Seqs(Resolvidos')) = {}
    BY <1>2, <1>5, <1>6, <1>7, <1>8, <1>10
  <2>5. Seqs(entregues') \cap Seqs(recusados') = {}
    BY <1>2 DEF Inv, UmDestinoParaCadaUm
  <2> QED BY <2>1, <2>2, <2>3, <2>4, <2>5, NumerosDepois
<1>12. PerdidosFinitos' /\ LacunaContaPerdas' /\ LacunaCobreEventos'
  BY <1>2, <1>5, <1>10, PerdaContada DEF Inv
<1>13. LimitesDeMemoria' /\ DecididoTemItem'
  BY <1>2, <1>4, <1>7, ConfiguracaoValida DEF LimitesDeMemoria, DecididoTemItem
<1> QED BY <1>11, <1>12, <1>13 DEF Inv

\* The steps that touch neither the buffer nor the batch.
LEMMA PassoSemBuffer ==
  ASSUME Inv, TypeOK',
         \/ Amostrar \/ EmitirDescritor \/ PararAmostragem \/ PrazoVence \/ Decidir
         \/ FimDoRecuo \/ PararDespacho \/ Cancelar \/ Desligar \/ Encerrar
         \/ UNCHANGED vars
  PROVE  Inv'
<1> USE DEF Amostrar, EmitirDescritor, PararAmostragem, PrazoVence, Decidir, FimDoRecuo,
            PararDespacho, Cancelar, Desligar, Encerrar, vars,
            doBuffer, daAmostragem, doDespacho, historia
<1>1. UNCHANGED <<itens, lote, sequencia, lacuna, entregues, recusados, perdidos, denunciados>>
  OBVIOUS
<1>2. lote # <<>> => laco' = laco
  BY DEF Inv, LimitesDeMemoria, NaRede
<1>3. laco' = "decidido" => itens # <<>>
  BY DEF Inv, DecididoTemItem, DeveDespachar
<1> QED BY <1>1, <1>2, <1>3, SemMover, SemPerder
        DEF Inv, LimitesDeMemoria, DecididoTemItem, NaRede

LEMMA InvMantido == Inv /\ [Next]_vars => Inv'
<1> SUFFICES ASSUME Inv, [Next]_vars PROVE Inv'
  OBVIOUS
<1>1. TypeOK'
  BY TipoMantido DEF Inv, LimitesDeMemoria, Cabe
<1>2. CASE EmitirSaude
  BY <1>1, <1>2, PassoEmitirSaude
<1>3. CASE Enfileirar
  BY <1>1, <1>3, PassoEnfileirar
<1>4. CASE Despachar
  BY <1>1, <1>4, PassoDrenar DEF Despachar
<1>5. CASE DespacharNoDesligamento
  BY <1>1, <1>5, PassoDrenar DEF DespacharNoDesligamento
<1>6. CASE Confirmacao
  <2>1. PICK rejeitados \in SUBSET Itens(lote) : RespostaConfirma(rejeitados)
    BY <1>6 DEF Confirmacao
  <2> QED BY <1>1, <2>1, PassoResolver
          DEF RespostaConfirma, NaRede, Depois, doBuffer, daAmostragem
<1>7. CASE RespostaRecusa
  <2>1. entregues' = entregues \cup (Itens(lote) \ Itens(lote))
    BY <1>7 DEF RespostaRecusa
  <2>2. /\ recusados' = recusados \cup Itens(lote) /\ lote' = <<>> /\ laco' # "decidido"
        /\ UNCHANGED <<itens, lacuna, sequencia, perdidos, denunciados>>
    BY <1>7 DEF RespostaRecusa, NaRede, Depois, doBuffer, daAmostragem
  <2> QED BY <1>1, <2>1, <2>2, PassoResolver
<1>8. CASE RespostaDevolve
  BY <1>1, <1>8, PassoDevolver
<1>9. CASE \/ Amostrar \/ EmitirDescritor \/ PararAmostragem \/ PrazoVence \/ Decidir
           \/ FimDoRecuo \/ PararDespacho \/ Cancelar \/ Desligar \/ Encerrar
           \/ UNCHANGED vars
  BY <1>1, <1>9, PassoSemBuffer
<1> QED BY <1>2, <1>3, <1>4, <1>5, <1>6, <1>7, <1>8, <1>9
        DEF Next, Amostragem, Despacho, Desligamento, Resposta, Terminado

-----------------------------------------------------------------------------
(* The safety properties of the node.                                      *)

LEMMA InvSempre == Spec => []Inv
<1> QED BY InvInicial, InvMantido, PTL DEF Spec

\* Nothing overtakes between the buffer, the batch in flight and the gateway,
\* although Devolver puts a batch in front while Acrescentar keeps appending.
THEOREM OrdemSempre == Spec => []OrdemDeSequencia
<1>1. Inv => OrdemDeSequencia
  BY DEF Inv
<1> QED BY <1>1, InvSempre, PTL

\* No envelope is lost between Drenar and the answer, kept twice, or removed and
\* still sent.
THEOREM DestinoUnico == Spec => []UmDestinoParaCadaUm
<1>1. Inv => UmDestinoParaCadaUm
  BY DEF Inv
<1> QED BY <1>1, InvSempre, PTL

\* The buffer stays within CapacidadeDoBuffer and the batch within its size.
THEOREM MemoriaLimitada == Spec => []LimitesDeMemoria
<1>1. Inv => LimitesDeMemoria
  BY DEF Inv
<1> QED BY <1>1, InvSempre, PTL

\* What deveDespachar saw is still true when despachar drains.
THEOREM DecisaoValida == Spec => []DecididoTemItem
<1>1. Inv => DecididoTemItem
  BY DEF Inv
<1> QED BY <1>1, InvSempre, PTL

\* The pending gap counts exactly the removals that no marker reports.
THEOREM LacunaExata == Spec => []LacunaContaPerdas
<1>1. Inv => LacunaContaPerdas
  BY DEF Inv
<1> QED BY <1>1, InvSempre, PTL

\* The interval of the pending gap covers every event removed since the last
\* marker.
THEOREM LacunaCobre == Spec => []LacunaCobreEventos
<1>1. Inv => LacunaCobreEventos
  BY DEF Inv
<1> QED BY <1>1, InvSempre, PTL

\* The saturation policy never removes an event while a sample that was already
\* in the buffer stays there.
THEOREM EventoPoupado == Spec => EventoSoCaiSemAmostra
<1> DEFINE Poupa == \A e \in Eventos(perdidos' \ perdidos), a \in Amostras(Itens(itens')) :
                      a.seq > sequencia
<1>1. Inv /\ [Next]_vars => [Poupa]_vars
  <2> SUFFICES ASSUME Inv, [Next]_vars, Eventos(perdidos' \ perdidos) # {} PROVE Poupa
    OBVIOUS
  <2>1. /\ itens \in Seq(Item) /\ lote \in Seq(Item) /\ sequencia \in Nat
        /\ pauta \in Seq(Conteudo) /\ Len(itens) <= Capacidade
        /\ Crescente(itens) /\ Crescente(lote \o itens)
    BY Numeros DEF Inv, TypeOK, LimitesDeMemoria, OrdemDeSequencia, Fila
  <2>2. CASE Enfileirar
    <3> DEFINE x == Numerado(Head(pauta), sequencia + 1)
               C == CaidosAoAcrescentar(itens, Capacidade)
    <3>1. x \in Item /\ x.seq = sequencia + 1
      <4>1. Head(pauta) \in Conteudo
        BY <2>1, <2>2, HeadTailProperties DEF Enfileirar
      <4> QED BY <4>1, <2>1, ConteudoTipos
    <3>2. itens' = Acrescentar(itens, x, Capacidade) /\ perdidos' = perdidos \cup C
      BY <2>2 DEF Enfileirar, Perder
    <3> HIDE DEF x, C
    <3>3. PICK r \in Seq(Item) : itens' = r \o <<x>> /\ Sobrou(Itens(itens), C, Itens(r))
      BY <2>1, <3>1, <3>2, AcrescentarFatos, ConfiguracaoValida DEF C
    <3>4. Amostras(Itens(r)) = {}
      <4>1. Eventos(perdidos' \ perdidos) \in SUBSET Eventos(C)
        BY <3>2 DEF Eventos
      <4> QED BY <4>1, <3>3 DEF Sobrou
    <3>5. Itens(itens') = Itens(r) \cup {x}
      <4>1. <<x>> \in Seq(Item) /\ Itens(<<x>>) = {x}
        BY <3>1, UmSo
      <4>2. Itens(r \o <<x>>) = Itens(r) \cup Itens(<<x>>)
        BY <4>1, ConcatFatos
      <4> QED BY <3>3, <4>1, <4>2, Zenon
    <3>6. \A a \in Amostras(Itens(itens')) : a = x
      BY <3>4, <3>5 DEF Amostras
    <3> QED BY <2>1, <3>1, <3>6
  <2>3. CASE RespostaDevolve
    <3> DEFINE C == CaidosAoDevolver(itens, lote, Capacidade)
    <3>1. itens' = Devolver(itens, lote, Capacidade) /\ perdidos' = perdidos \cup C
      BY <2>3 DEF RespostaDevolve, Perder
    <3> HIDE DEF C
    <3>2. Sobrou(Itens(lote) \cup Itens(itens), C, Itens(itens'))
      BY <2>1, <3>1, DevolverFatos, ConfiguracaoValida DEF C
    <3>3. Eventos(perdidos' \ perdidos) \in SUBSET Eventos(C)
      BY <3>1 DEF Eventos
    <3> QED BY <3>2, <3>3 DEF Sobrou
  <2>4. CASE ~Enfileirar /\ ~RespostaDevolve
    <3>1. perdidos' = perdidos
      BY <2>4 DEF Next, Amostragem, Amostrar, EmitirSaude, EmitirDescritor, PararAmostragem,
                  Despacho, PrazoVence, Decidir, Despachar, Drenar, Resposta, Confirmacao,
                  RespostaConfirma, RespostaRecusa, FimDoRecuo, PararDespacho,
                  Desligamento, Cancelar, Desligar, DespacharNoDesligamento, Encerrar,
                  Terminado, vars, historia
    <3> QED BY <3>1 DEF Eventos
  <2> QED BY <2>2, <2>3, <2>4
<1> QED BY <1>1, InvSempre, PTL DEF Spec, EventoSoCaiSemAmostra

\* What the gateway settles now was emitted after all it settled before.
THEOREM ResolveNaOrdem == Spec => ResolveEmOrdem
<1> DEFINE EmOrdem == \A novo \in Seqs(Resolvidos' \ Resolvidos), velho \in Seqs(Resolvidos) :
                        velho < novo
<1>1. Inv /\ [Next]_vars => [EmOrdem]_vars
  <2> SUFFICES ASSUME Inv, [Next]_vars PROVE EmOrdem
    OBVIOUS
  <2>1. \A m \in Seqs(Resolvidos), n \in Seqs(Itens(lote)) : m < n
    BY Numeros DEF Inv
  <2>2. Resolvidos' \ Resolvidos \in SUBSET Itens(lote)
    <3>1. CASE Confirmacao
      BY <3>1 DEF Confirmacao, RespostaConfirma, Resolvidos
    <3>2. CASE RespostaRecusa
      BY <3>2 DEF RespostaRecusa, Resolvidos
    <3>3. CASE ~Confirmacao /\ ~RespostaRecusa
      <4>1. UNCHANGED <<entregues, recusados>>
        BY <3>3 DEF Next, Amostragem, Amostrar, EmitirSaude, EmitirDescritor, Enfileirar,
                    PararAmostragem, Despacho, PrazoVence, Decidir, Despachar, Drenar,
                    Resposta, RespostaDevolve, FimDoRecuo, PararDespacho, Desligamento,
                    Cancelar, Desligar, DespacharNoDesligamento, Encerrar, Terminado,
                    vars, historia
      <4> QED BY <4>1 DEF Resolvidos
    <3> QED BY <3>1, <3>2, <3>3
  <2>3. Seqs(Resolvidos' \ Resolvidos) \in SUBSET Seqs(Itens(lote))
    BY <2>2 DEF Seqs
  <2> QED BY <2>1, <2>3
<1> QED BY <1>1, InvSempre, PTL DEF Spec, ResolveEmOrdem

-----------------------------------------------------------------------------
(* The node implements the source of the module Origem.                    *)

LEMMA MesmosOperadores ==
  \A S : O!Eventos(S) = Eventos(S) /\ O!Amostras(S) = Amostras(S) /\ O!Seqs(S) = Seqs(S)
  BY DEF O!Eventos, Eventos, O!Amostras, Amostras, O!Seqs, Seqs

LEMMA MesmosItens == O!Item = Item
  BY DEF O!Item, Item, O!Classes, Classes

LEMMA OrigemInicial == Init => O!Init
<1> SUFFICES ASSUME Init PROVE O!Init
  OBVIOUS
<1>1. Numerado(Amostra, 1) = [seq |-> 1, classe |-> "amostra", relata |-> 0]
  BY DEF Numerado, Amostra
<1>2. Itens(itens) = {[seq |-> 1, classe |-> "amostra", relata |-> 0]} /\ Itens(lote) = {}
  <2>1. itens = <<Numerado(Amostra, 1)>> /\ lote = <<>>
    BY DEF Init
  <2>2. Itens(<<Numerado(Amostra, 1)>>) = {Numerado(Amostra, 1)} /\ Itens(<<>>) = {}
    BY ConteudoTipos, UmSo DEF Itens
  <2> QED BY <1>1, <2>1, <2>2, Zenon
<1> QED BY <1>2 DEF Init, O!Init

LEMMA OrigemPasso == Inv /\ [Next]_vars => [O!Next]_(O!vars)
<1> SUFFICES ASSUME Inv, [Next]_vars PROVE [O!Next]_(O!vars)
  OBVIOUS
<1>1. /\ itens \in Seq(Item) /\ lote \in Seq(Item) /\ sequencia \in Nat
      /\ pauta \in Seq(Conteudo) /\ Len(itens) <= Capacidade
      /\ Crescente(itens) /\ Crescente(lote \o itens)
      /\ \A m \in Seqs(Itens(lote)), n \in Seqs(Itens(itens)) : m < n
  BY Numeros DEF Inv, TypeOK, LimitesDeMemoria, OrdemDeSequencia, Fila
<1>2. CASE Enfileirar
  <2> DEFINE x == Numerado(Head(pauta), sequencia + 1)
             C == CaidosAoAcrescentar(itens, Capacidade)
  <2>1. x \in Item /\ x.seq = sequencia + 1
    <3>1. Head(pauta) \in Conteudo
      BY <1>1, <1>2, HeadTailProperties DEF Enfileirar
    <3> QED BY <3>1, <1>1, ConteudoTipos
  <2>2. /\ itens' = Acrescentar(itens, x, Capacidade) /\ perdidos' = perdidos \cup C
        /\ sequencia' = sequencia + 1 /\ UNCHANGED <<lote, entregues, recusados>>
    BY <1>2 DEF Enfileirar, Perder, doDespacho
  <2> HIDE DEF x, C
  <2>3. PICK r \in Seq(Item) : itens' = r \o <<x>> /\ Sobrou(Itens(itens), C, Itens(r))
    BY <1>1, <2>1, <2>2, AcrescentarFatos, ConfiguracaoValida DEF C
  <2>4. Itens(itens') = Itens(r) \cup {x}
    <3>1. <<x>> \in Seq(Item) /\ Itens(<<x>>) = {x}
      BY <2>1, UmSo
    <3>2. Itens(r \o <<x>>) = Itens(r) \cup Itens(<<x>>)
      BY <3>1, ConcatFatos
    <3> QED BY <2>3, <3>1, <3>2, Zenon
  <2>5. Itens(r) = Itens(itens) \ C /\ C \in SUBSET Itens(itens)
    BY <2>3 DEF Sobrou, Seqs
  <2>6. Eventos(C) # {} => Amostras(Itens(itens) \ C) = {}
    BY <2>3, <2>5 DEF Sobrou
  <2>7. O!Nascer
    BY <2>1, <2>2, <2>4, <2>5, <2>6, MesmosOperadores, MesmosItens
       DEF O!Nascer, O!PerdaJusta
  <2> QED BY <2>7 DEF O!Next
<1>3. CASE Despachar \/ DespacharNoDesligamento
  <2>1. /\ lote = <<>> /\ itens # <<>>
        /\ lote' = Drenados(itens, EnvelopesPorRemessa)
        /\ itens' = SemDrenados(itens, EnvelopesPorRemessa)
        /\ UNCHANGED <<sequencia, entregues, recusados, perdidos>>
    BY <1>3 DEF Despachar, DespacharNoDesligamento, Drenar, daAmostragem, historia,
                Inv, LimitesDeMemoria, NaRede, DecididoTemItem
  <2>2. /\ lote' \in Seq(Item) /\ itens' \in Seq(Item) /\ lote' \o itens' = itens
        /\ lote' # <<>>
    BY <1>1, <2>1, DrenarFatos, ConfiguracaoValida
  <2>3. /\ Itens(itens) = Itens(lote') \cup Itens(itens') /\ Itens(lote') # {}
        /\ \A m \in Seqs(Itens(lote')), n \in Seqs(Itens(itens')) : m < n
    BY <1>1, <2>2, ConcatFatos, ItensDeSeq
  <2>4. Itens(itens') = Itens(itens) \ Itens(lote')
    <3>1. Itens(lote') \cap Itens(itens') = {}
      <4> SUFFICES ASSUME NEW a \in Itens(lote'), a \in Itens(itens') PROVE FALSE
        OBVIOUS
      <4>1. a.seq \in Seqs(Itens(lote')) /\ a.seq \in Seqs(Itens(itens'))
        BY DEF Seqs
      <4>2. a.seq \in Nat
        BY <2>2, ItensDeSeq DEF Item
      <4> QED BY <2>3, <4>1, <4>2
    <3> QED BY <2>3, <3>1
  <2>5. Itens(lote) = {}
    BY <1>1, <2>1, ItensDeSeq
  <2>6. O!Partir
    BY <2>1, <2>3, <2>4, <2>5, MesmosOperadores DEF O!Partir
  <2> QED BY <2>6 DEF O!Next
<1>4. CASE Confirmacao
  <2>1. PICK R \in SUBSET Itens(lote) : RespostaConfirma(R)
    BY <1>4 DEF Confirmacao
  <2>2. Itens(<<>>) = {}
    BY DEF Itens
  <2>3. O!Resolver
    BY <2>1, <2>2 DEF RespostaConfirma, doBuffer, daAmostragem, O!Resolver
  <2> QED BY <2>3 DEF O!Next
<1>5. CASE RespostaRecusa
  <2>1. Itens(<<>>) = {}
    BY DEF Itens
  <2>2. O!Resolver
    <3>1. /\ entregues' = entregues \cup (Itens(lote) \ Itens(lote))
          /\ recusados' = recusados \cup Itens(lote)
          /\ Itens(lote') = {}
          /\ UNCHANGED <<sequencia, Itens(itens), perdidos>>
      BY <1>5, <2>1 DEF RespostaRecusa, doBuffer, daAmostragem
    <3> QED BY <3>1 DEF O!Resolver
  <2> QED BY <2>2 DEF O!Next
<1>6. CASE RespostaDevolve
  <2> DEFINE C == CaidosAoDevolver(itens, lote, Capacidade)
  <2>1. /\ itens' = Devolver(itens, lote, Capacidade) /\ perdidos' = perdidos \cup C
        /\ lote' = <<>> /\ UNCHANGED <<sequencia, entregues, recusados>>
    BY <1>6 DEF RespostaDevolve, Perder, daAmostragem
  <2> HIDE DEF C
  <2>2. Sobrou(Itens(lote) \cup Itens(itens), C, Itens(itens'))
    BY <1>1, <2>1, DevolverFatos, ConfiguracaoValida DEF C
  <2>3. /\ Itens(itens') = (Itens(itens) \cup Itens(lote)) \ C
        /\ C \in SUBSET (Itens(itens) \cup Itens(lote))
    BY <2>2 DEF Sobrou, Seqs
  <2>4. Eventos(C) # {} => Amostras((Itens(itens) \cup Itens(lote)) \ C) = {}
    BY <2>2, <2>3 DEF Sobrou
  <2>5. Itens(<<>>) = {}
    BY DEF Itens
  <2>6. O!Voltar
    BY <2>1, <2>3, <2>4, <2>5, MesmosOperadores DEF O!Voltar, O!PerdaJusta
  <2> QED BY <2>6 DEF O!Next
<1>7. CASE \/ Amostrar \/ EmitirSaude \/ EmitirDescritor \/ PararAmostragem \/ PrazoVence
           \/ Decidir \/ FimDoRecuo \/ PararDespacho \/ Cancelar \/ Desligar \/ Encerrar
           \/ UNCHANGED vars
  BY <1>7 DEF Amostrar, EmitirSaude, EmitirDescritor, PararAmostragem, PrazoVence, Decidir,
              FimDoRecuo, PararDespacho, Cancelar, Desligar, Encerrar, vars,
              doBuffer, daAmostragem, doDespacho, historia, O!vars
<1> QED BY <1>2, <1>3, <1>4, <1>5, <1>6, <1>7
        DEF Next, Amostragem, Despacho, Desligamento, Resposta, Terminado

\* Two goroutines, a mutex and a batch that comes and goes implement a source
\* that numbers envelopes, sends the oldest together and settles them once.
THEOREM NoImplementaOrigem == Spec => ImplementaOrigem
<1> QED BY OrigemInicial, OrigemPasso, InvSempre, PTL DEF Spec, ImplementaOrigem, O!Spec
=============================================================================
