--------------------------- MODULE EntregaTeoremas ---------------------------
(***************************************************************************)
(* The node, the network and the gateway together: what the gateway does   *)
(* here is what the module Ingestao allows, so that what was proved of     *)
(* Ingestao holds; and on it rests what the two ends promise each other.   *)
(* For every capacity, batch size, number of goroutines, requests, boot    *)
(* sessions and restarts.                                                  *)
(***************************************************************************)
EXTENDS Entrega, FiniteSetTheorems, WellFoundedInduction, TLAPS

\* The theorems of the gateway, for the gateway of this module.
GT == INSTANCE IngestaoTeoremas WITH
        Remessas <- [sessao : Sessoes, aceitos : SUBSET (1 .. MaxSequencia),
                     rejeitados : SUBSET (1 .. MaxSequencia)],
        Recusas <- {"entrada_invalida", "nao_autenticado", "permissao_negada", "interna"},
        Tolerancia <- 0, PausaMaxima <- 0, Desvios <- {0}, relogio <- 0, degraus <- 0

-----------------------------------------------------------------------------
(* Ordered finite sets.                                                    *)

LEMMA MenorQue == \A m, n \in Nat : m < n => <<m, n>> \in OpToRel(<, Nat)
  BY Zenon DEF OpToRel

\* Every non-empty set of numbers has a least one.
LEMMA MenorExiste ==
  ASSUME NEW S \in SUBSET Nat, S # {}
  PROVE  \E n \in S : \A m \in S : n <= m
<1>1. PICK n \in S : \A m \in S : ~(<<m, n>> \in OpToRel(<, Nat))
  BY NatLessThanWellFounded, WFMin
<1>2. \A m \in S : ~(m < n)
  BY <1>1, MenorQue, Zenon
<1>3. \A m \in S : n <= m
  BY <1>2
<1> QED BY <1>3

LEMMA NumeroE ==
  ASSUME NEW e \in EnvelopesPossiveis
  PROVE  e.seq \in 1 .. MaxSequencia /\ e.seq \in Nat
BY LimitesDaEntrega DEF EnvelopesPossiveis, Envelope

LEMMA MaisAntigo ==
  ASSUME NEW S \in SUBSET EnvelopesPossiveis, S # {}
  PROVE  \E e \in S : \A f \in S : e.seq <= f.seq
<1> DEFINE N == {e.seq : e \in S}
<1>1. N \in SUBSET Nat /\ N # {}
  BY NumeroE
<1>2. PICK n \in N : \A m \in N : n <= m
  BY <1>1, MenorExiste
<1>3. PICK e \in S : e.seq = n
  BY <1>2
<1>4. \A f \in S : n <= f.seq
  BY <1>2
<1> QED BY <1>3, <1>4

LEMMA MaisNovo ==
  ASSUME NEW S \in SUBSET EnvelopesPossiveis, S # {}
  PROVE  \E e \in S : \A f \in S : f.seq <= e.seq
<1> DEFINE N == {MaxSequencia - e.seq : e \in S}
<1>1. \A e \in S : e.seq \in Nat /\ MaxSequencia - e.seq \in Nat
  BY NumeroE, LimitesDaEntrega
<1>2. N \in SUBSET Nat /\ N # {}
  BY <1>1, Zenon
<1>3. PICK n \in N : \A m \in N : n <= m
  BY <1>2, MenorExiste
<1>4. PICK e \in S : MaxSequencia - e.seq = n
  BY <1>3
<1>5. \A f \in S : n <= MaxSequencia - f.seq
  BY <1>3
<1>6. \A f \in S : f.seq <= e.seq
  BY <1>1, <1>4, <1>5, LimitesDaEntrega
<1> QED BY <1>6

\* A set with all but one of its elements in a small set is small.
LEMMA QuasePequeno ==
  ASSUME NEW E, IsFiniteSet(E), NEW S \in SUBSET E, NEW m \in S, NEW A \in SUBSET E,
         S \ {m} \subseteq A, NEW k \in Nat, Cardinality(A) < k
  PROVE  Cardinality(S) <= k
<1>1. IsFiniteSet(S) /\ IsFiniteSet(A) /\ IsFiniteSet(S \ {m})
  BY FS_Subset
<1>2. Cardinality(S \ {m}) = Cardinality(S) - 1
  BY <1>1, FS_RemoveElement
<1>3. Cardinality(S \ {m}) <= Cardinality(A)
  BY <1>1, FS_Subset
<1>4. Cardinality(S) \in Nat /\ Cardinality(A) \in Nat
  BY <1>1, FS_CardinalityType
<1> QED BY <1>2, <1>3, <1>4

\* The numbers of E are all different.
NumeroUnico(E) == \A e, f \in E : e.seq = f.seq => e = f

-----------------------------------------------------------------------------
(* What the buffer keeps, and what a batch takes.                          *)

LEMMA SobraCabe ==
  ASSUME NEW E \in SUBSET EnvelopesPossiveis, IsFiniteSet(E), NumeroUnico(E),
         NEW k \in Nat
  PROVE  /\ Sobra(E, k) \subseteq E
         /\ IsFiniteSet(Sobra(E, k))
         /\ Cardinality(Sobra(E, k)) <= k
<1> DEFINE S == Sobra(E, k)
<1>1. S \subseteq E /\ IsFiniteSet(S)
  <2>1. S \subseteq E
    BY DEF Sobra
  <2> QED BY <2>1, FS_Subset
<1>2. CASE S = {}
  BY <1>1, <1>2, FS_EmptySet
<1>3. CASE S # {}
  <2> DEFINE D == {e \in S : Descartavel(e)}
  <2>1. PICK m \in S : \A e \in S : e # m => SaiAntes(m, e)
    <3>1. CASE D = {}
      <4>1. PICK m \in S : \A e \in S : m.seq <= e.seq
        BY <1>1, <1>3, MaisAntigo
      <4>2. \A e \in S : e # m => m.seq < e.seq
        BY <1>1, <4>1, NumeroE DEF NumeroUnico
      <4>3. \A e \in S : Descartavel(m) = Descartavel(e)
        BY <3>1 DEF Descartavel
      <4> QED BY <4>2, <4>3 DEF SaiAntes
    <3>2. CASE D # {}
      <4>1. D \in SUBSET EnvelopesPossiveis
        BY <1>1
      <4>2. PICK m \in D : \A e \in D : m.seq <= e.seq
        BY <3>2, <4>1, MaisAntigo
      <4>3. \A e \in D : e # m => m.seq < e.seq
        BY <1>1, <4>2, NumeroE DEF NumeroUnico
      <4>4. \A e \in S : e # m => SaiAntes(m, e)
        BY <4>2, <4>3 DEF SaiAntes, Descartavel
      <4> QED BY <4>4
    <3> QED BY <3>1, <3>2
  <2> DEFINE A == {x \in E \ {m} : SaiAntes(m, x)}
  <2>2. Cardinality(A) < k
    BY DEF Sobra
  <2>3. S \ {m} \subseteq A
    BY <1>1, <2>1
  <2> QED BY <1>1, <2>2, <2>3, QuasePequeno
<1> QED BY <1>1, <1>2, <1>3

LEMMA LoteE ==
  ASSUME NEW E \in SUBSET EnvelopesPossiveis, IsFiniteSet(E), NumeroUnico(E)
  PROVE  /\ Lote(E) \subseteq E /\ IsFiniteSet(Lote(E))
         /\ Cardinality(Lote(E)) <= EnvelopesPorRemessa
         /\ E # {} => Lote(E) # {}
         /\ \A x \in Lote(E), y \in E : y.seq <= x.seq => y \in Lote(E)
<1> DEFINE Antes(e) == {x \in E : x.seq < e.seq}
<1>0. EnvelopesPorRemessa \in Nat \ {0}
  BY LoteCabe, LimitesDoContrato
<1>1. Lote(E) = {e \in E : Cardinality(Antes(e)) < EnvelopesPorRemessa}
  BY DEF Lote
<1>2. \A e : Antes(e) \subseteq E /\ IsFiniteSet(Antes(e)) /\ Cardinality(Antes(e)) \in Nat
  <2>1. \A e : Antes(e) \subseteq E
    OBVIOUS
  <2> QED BY <2>1, FS_Subset, FS_CardinalityType
<1>3. Lote(E) \subseteq E /\ IsFiniteSet(Lote(E))
  <2>1. Lote(E) \subseteq E
    BY <1>1
  <2> QED BY <2>1, FS_Subset
<1>4. Cardinality(Lote(E)) <= EnvelopesPorRemessa
  <2>1. CASE Lote(E) = {}
    BY <1>0, <2>1, FS_EmptySet
  <2>2. CASE Lote(E) # {}
    <3>1. PICK m \in Lote(E) : \A e \in Lote(E) : e.seq <= m.seq
      BY <1>3, <2>2, MaisNovo
    <3>2. Lote(E) \ {m} \subseteq Antes(m)
      BY <1>3, <3>1, NumeroE DEF NumeroUnico
    <3>3. Cardinality(Antes(m)) < EnvelopesPorRemessa
      BY <1>1
    <3> HIDE DEF Antes
    <3> QED BY <1>0, <1>2, <1>3, <3>2, <3>3, QuasePequeno
  <2> QED BY <2>1, <2>2
<1>5. ASSUME E # {} PROVE Lote(E) # {}
  <2>1. PICK m \in E : \A e \in E : m.seq <= e.seq
    BY <1>5, MaisAntigo
  <2>2. Antes(m) = {}
    BY <2>1, NumeroE
  <2>3. Cardinality(Antes(m)) = 0
    BY <2>2, FS_EmptySet
  <2> QED BY <1>0, <1>1, <2>3
<1>6. ASSUME NEW x \in Lote(E), NEW y \in E, y.seq <= x.seq
      PROVE  y \in Lote(E)
  <2>1. Antes(y) \subseteq Antes(x)
    BY <1>3, <1>6, NumeroE
  <2>2. Cardinality(Antes(y)) <= Cardinality(Antes(x))
    <3> HIDE DEF Antes
    <3> QED BY <1>2, <2>1, FS_Subset
  <2>3. Cardinality(Antes(x)) < EnvelopesPorRemessa
    BY <1>1
  <2> HIDE DEF Antes
  <2> QED BY <1>0, <1>1, <1>2, <2>2, <2>3
<1> QED BY <1>3, <1>4, <1>5, <1>6

-----------------------------------------------------------------------------
(* The node keeps its types, whatever the gateway answers.                 *)

\* A request that was sent.
PedidoFeito ==
  [id : 1 .. MaxPedidos, sessao : Sessoes, envelopes : SUBSET EnvelopesPossiveis,
   credencial : Credenciais \cup {Dispositivo}]

\* What the node holds.
Tidos == guardados \cup espera.envelopes

\* Requests on the wire and requests some goroutine is at.
Soltos == rede \cup {servindo[t] : t \in Tratadores}

TiposDoNo ==
  /\ servindo \in [Tratadores -> PedidoFeito \cup {SemPedido}]
  /\ rede \subseteq PedidoFeito
  /\ sessao \in Sessoes
  /\ emitidos \in [Sessoes -> 0 .. MaxSequencia]
  /\ guardados \subseteq EnvelopesPossiveis
  /\ espera \in PedidoFeito \cup {SemPedido}
  /\ credencial \in Credenciais \cup {Dispositivo}
  /\ entregues \cup perdidos \cup apagados \subseteq ChavesPossiveis
  /\ recusados \subseteq [sessao : Sessoes, envelope : EnvelopesPossiveis]

\* No number twice, none that was not given, and no more than fits.
BufferCerto ==
  /\ IsFiniteSet(guardados) /\ IsFiniteSet(espera.envelopes)
  /\ Cardinality(guardados) <= Capacidade
  /\ NumeroUnico(Tidos)
  /\ \A e \in Tidos : e.seq <= emitidos[sessao]
  /\ espera # SemPedido => espera.sessao = sessao

NoCerto == TiposDoNo /\ BufferCerto

LEMMA ChavesTipo ==
  ASSUME NEW s \in Sessoes, NEW E \in SUBSET EnvelopesPossiveis
  PROVE  /\ Chaves(s, E) \subseteq ChavesPossiveis
         /\ \A e \in E : [sessao |-> s, seq |-> e.seq] \in Chaves(s, E)
<1>1. \A e \in E : e.seq \in 1 .. MaxSequencia
  BY NumeroE
<1>2. \A e \in E : [sessao |-> s, seq |-> e.seq] \in ChavesPossiveis
  BY <1>1 DEF ChavesPossiveis
<1> QED BY <1>2, Zenon DEF Chaves

\* The batch in flight, as a set.
LEMMA TidosTipo ==
  ASSUME TiposDoNo
  PROVE  /\ guardados \in SUBSET EnvelopesPossiveis
         /\ espera.envelopes \in SUBSET EnvelopesPossiveis
         /\ Tidos \in SUBSET EnvelopesPossiveis
BY DEF TiposDoNo, Tidos, PedidoFeito, SemPedido

LEMMA NoInicial == Init => NoCerto
<1> SUFFICES ASSUME Init PROVE NoCerto
  OBVIOUS
<1> USE DEF Init
<1>1. 1 \in Sessoes
  BY LimitesDaEntrega DEF Sessoes
<1>2. \A s \in Sessoes : 0 \in 0 .. MaxSequencia
  BY LimitesDaEntrega
<1>3. emitidos \in [Sessoes -> 0 .. MaxSequencia]
  BY <1>2
<1>4. servindo \in [Tratadores -> PedidoFeito \cup {SemPedido}]
  OBVIOUS
<1>5. TiposDoNo
  BY <1>1, <1>3, <1>4 DEF TiposDoNo
<1>6. guardados = {} /\ espera.envelopes = {} /\ Tidos = {}
  BY DEF SemPedido, Tidos
<1>7. IsFiniteSet(guardados) /\ IsFiniteSet(espera.envelopes) /\ Cardinality(guardados) = 0
  BY <1>6, FS_EmptySet
<1>8. BufferCerto
  BY <1>6, <1>7, LimitesDaEntrega DEF BufferCerto, NumeroUnico
<1> QED BY <1>5, <1>8 DEF NoCerto

-----------------------------------------------------------------------------
(* One lemma for each thing that can happen to the buffer of the node.     *)

\* A new envelope, with a number greater than any before.
LEMMA NoAmostrar ==
  ASSUME NoCerto, Amostrar
  PROVE  NoCerto'
<1> DEFINE n == emitidos[sessao] + 1
           S == Sobra(guardados, Capacidade - 1)
<1>1. /\ n \in 1 .. MaxSequencia /\ n \in Nat
      /\ emitidos' = [emitidos EXCEPT ![sessao] = n]
      /\ emitidos[sessao] \in Nat
      /\ UNCHANGED <<servindo, rede, sessao, espera, credencial, entregues, recusados, apagados>>
  BY LimitesDaEntrega DEF Amostrar, NoCerto, TiposDoNo
<1>2. PICK c \in Conteudos : guardados' = S \cup {Envelope(n, c)}
  BY DEF Amostrar
<1>3. Envelope(n, c) \in EnvelopesPossiveis /\ Envelope(n, c).seq = n
  BY <1>1 DEF EnvelopesPossiveis, Envelope
<1>4. /\ S \subseteq guardados /\ IsFiniteSet(S) /\ Cardinality(S) <= Capacidade - 1
      /\ Cardinality(S) \in Nat
  <2>1. Capacidade - 1 \in Nat /\ NumeroUnico(guardados)
    BY LimitesDaEntrega DEF NoCerto, BufferCerto, NumeroUnico, Tidos
  <2>2. guardados \in SUBSET EnvelopesPossiveis /\ IsFiniteSet(guardados)
    BY DEF NoCerto, TiposDoNo, BufferCerto
  <2> QED BY <2>1, <2>2, SobraCabe, FS_CardinalityType
<1>5. perdidos' \subseteq ChavesPossiveis
  <2>1. guardados \ S \in SUBSET EnvelopesPossiveis
    BY DEF NoCerto, TiposDoNo
  <2>2. perdidos' = perdidos \cup Chaves(sessao, guardados \ S)
    BY DEF Amostrar, Guardar
  <2> QED BY <2>1, <2>2, ChavesTipo DEF NoCerto, TiposDoNo
<1> HIDE DEF n, S
<1>6. TiposDoNo'
  <2>1. emitidos' \in [Sessoes -> 0 .. MaxSequencia]
    BY <1>1 DEF NoCerto, TiposDoNo
  <2>2. guardados' \subseteq EnvelopesPossiveis
    BY <1>2, <1>3, <1>4 DEF NoCerto, TiposDoNo
  <2> QED BY <1>1, <1>5, <2>1, <2>2 DEF NoCerto, TiposDoNo
<1>7. BufferCerto'
  <2>1. \A e \in Tidos : e.seq <= emitidos[sessao] /\ e.seq \in Nat
    BY TidosTipo, NumeroE DEF NoCerto, BufferCerto
  <2>2. Tidos' \subseteq Tidos \cup {Envelope(n, c)}
    BY <1>1, <1>2, <1>4 DEF Tidos
  <2>3. emitidos'[sessao'] = n /\ n = emitidos[sessao] + 1
    BY <1>1 DEF NoCerto, TiposDoNo, n
  <2>4. \A e \in Tidos' : e.seq <= emitidos'[sessao']
    BY <1>1, <1>3, <2>1, <2>2, <2>3
  <2>5. NumeroUnico(Tidos')
    <3> SUFFICES ASSUME NEW e \in Tidos', NEW f \in Tidos', e.seq = f.seq PROVE e = f
      BY DEF NumeroUnico
    <3>1. CASE e \in Tidos /\ f \in Tidos
      BY <3>1 DEF NoCerto, BufferCerto, NumeroUnico
    <3>2. CASE e = Envelope(n, c) \/ f = Envelope(n, c)
      BY <1>1, <1>3, <2>1, <2>2, <2>3, <3>2
    <3> QED BY <2>2, <3>1, <3>2
  <2>6. IsFiniteSet(guardados') /\ Cardinality(guardados') <= Capacidade
    <3>1. \/ Cardinality(guardados') = Cardinality(S)
          \/ Cardinality(guardados') = Cardinality(S) + 1
      BY <1>2, <1>4, FS_AddElement
    <3>2. IsFiniteSet(guardados')
      BY <1>2, <1>4, FS_AddElement
    <3> QED BY <1>4, <3>1, <3>2, LimitesDaEntrega
  <2> QED BY <1>1, <2>4, <2>5, <2>6 DEF NoCerto, BufferCerto
<1> QED BY <1>6, <1>7 DEF NoCerto

\* The oldest leave in a batch.
LEMMA NoEnviar ==
  ASSUME NoCerto, Enviar
  PROVE  /\ NoCerto'
         /\ Tidos' = Tidos
         /\ espera' \in PedidoFeito /\ espera'.sessao = sessao
         /\ espera'.envelopes = Lote(guardados)
         /\ rede' = rede \cup {espera'}
<1>1. /\ espera = SemPedido
      /\ rede' = rede \cup {espera'}
      /\ guardados' = guardados \ Lote(guardados)
      /\ UNCHANGED <<servindo, sessao, emitidos, credencial, entregues, recusados, perdidos, apagados>>
  BY DEF Enviar, historia
<1>2. PICK id \in 1 .. MaxPedidos :
        espera' = [id |-> id, sessao |-> sessao, envelopes |-> Lote(guardados),
                   credencial |-> credencial]
  BY DEF Enviar
<1>3. /\ guardados \in SUBSET EnvelopesPossiveis /\ IsFiniteSet(guardados)
      /\ NumeroUnico(guardados) /\ Cardinality(guardados) <= Capacidade
  BY DEF NoCerto, TiposDoNo, BufferCerto, NumeroUnico, Tidos
<1>4. Lote(guardados) \subseteq guardados /\ IsFiniteSet(Lote(guardados))
  BY <1>3, LoteE
<1>5. /\ espera' \in PedidoFeito /\ espera'.sessao = sessao
      /\ espera'.envelopes = Lote(guardados)
  BY <1>2, <1>3, <1>4 DEF PedidoFeito, NoCerto, TiposDoNo
<1>6. Tidos' = Tidos
  <2>1. espera.envelopes = {}
    BY <1>1 DEF SemPedido
  <2> QED BY <1>1, <1>4, <1>5, <2>1 DEF Tidos
<1>7. TiposDoNo'
  BY <1>1, <1>3, <1>5 DEF NoCerto, TiposDoNo
<1>8. IsFiniteSet(guardados') /\ Cardinality(guardados') <= Capacidade
  <2>1. guardados' \subseteq guardados
    BY <1>1
  <2>2. /\ IsFiniteSet(guardados') /\ Cardinality(guardados') <= Cardinality(guardados)
        /\ Cardinality(guardados') \in Nat /\ Cardinality(guardados) \in Nat
    BY <1>3, <2>1, FS_Subset, FS_CardinalityType
  <2> QED BY <1>3, <2>2, LimitesDaEntrega
<1>9. BufferCerto'
  BY <1>1, <1>4, <1>5, <1>6, <1>8 DEF NoCerto, BufferCerto
<1> QED BY <1>1, <1>5, <1>6, <1>7, <1>9 DEF NoCerto

\* The batch comes back, and what does not fit leaves.
LEMMA NoDevolver ==
  ASSUME NoCerto, Devolver, espera # SemPedido,
         UNCHANGED <<rede, sessao, emitidos, credencial, apagados>>,
         servindo' \in [Tratadores -> PedidoFeito \cup {SemPedido}]
  PROVE  /\ NoCerto'
         /\ Tidos' \subseteq Tidos
         /\ UNCHANGED <<entregues, recusados>>
         /\ perdidos \subseteq perdidos'
         /\ \A e \in Tidos \ Tidos' : [sessao |-> sessao, seq |-> e.seq] \in perdidos'
<1>1. /\ espera' = SemPedido
      /\ guardados' = Sobra(Tidos, Capacidade)
      /\ perdidos' = perdidos \cup Chaves(sessao, Tidos \ Sobra(Tidos, Capacidade))
      /\ UNCHANGED <<entregues, recusados>>
  BY DEF Devolver, Guardar, Tidos
<1>2. /\ Tidos \in SUBSET EnvelopesPossiveis /\ IsFiniteSet(Tidos) /\ NumeroUnico(Tidos)
      /\ Capacidade \in Nat
  <2>1. IsFiniteSet(Tidos)
    BY FS_Union DEF NoCerto, BufferCerto, Tidos
  <2> QED BY <2>1, TidosTipo, LimitesDaEntrega DEF NoCerto, BufferCerto
<1>3. /\ guardados' \subseteq Tidos /\ IsFiniteSet(guardados')
      /\ Cardinality(guardados') <= Capacidade
  BY <1>1, <1>2, SobraCabe
<1>4. espera'.envelopes = {} /\ Tidos' = guardados'
  BY <1>1 DEF SemPedido, Tidos
<1>5. /\ perdidos' \subseteq ChavesPossiveis
      /\ \A e \in Tidos \ guardados' : [sessao |-> sessao, seq |-> e.seq] \in perdidos'
  <2>1. Tidos \ guardados' \in SUBSET EnvelopesPossiveis
    BY <1>2
  <2>2. perdidos' = perdidos \cup Chaves(sessao, Tidos \ guardados')
    BY <1>1
  <2>3. sessao \in Sessoes /\ perdidos \subseteq ChavesPossiveis
    BY DEF NoCerto, TiposDoNo
  <2>4. /\ Chaves(sessao, Tidos \ guardados') \subseteq ChavesPossiveis
        /\ \A e \in Tidos \ guardados' :
             [sessao |-> sessao, seq |-> e.seq] \in Chaves(sessao, Tidos \ guardados')
    BY <2>1, <2>3, ChavesTipo
  <2> QED BY <2>2, <2>3, <2>4
<1>6. TiposDoNo'
  BY <1>1, <1>2, <1>3, <1>5 DEF NoCerto, TiposDoNo
<1>7. BufferCerto'
  BY <1>1, <1>3, <1>4, FS_EmptySet DEF NoCerto, BufferCerto, NumeroUnico
<1> QED BY <1>1, <1>3, <1>4, <1>5, <1>6, <1>7 DEF NoCerto

\* The batch is settled: what it names as rejected is thrown away.
LEMMA NoConfirmada ==
  ASSUME NoCerto, NEW rejeitados, Confirmada(rejeitados), espera # SemPedido,
         UNCHANGED <<rede, sessao, emitidos, credencial, apagados>>,
         servindo' \in [Tratadores -> PedidoFeito \cup {SemPedido}]
  PROVE  NoCerto' /\ Tidos' = guardados
<1> DEFINE fora == {e \in espera.envelopes : e.seq \in rejeitados}
<1>1. /\ espera' = SemPedido
      /\ entregues' = entregues \cup Chaves(espera.sessao, espera.envelopes \ fora)
      /\ recusados' = recusados \cup {[sessao |-> espera.sessao, envelope |-> e] : e \in fora}
      /\ UNCHANGED <<guardados, perdidos>>
  BY DEF Confirmada
<1>2. espera.envelopes \ fora \in SUBSET EnvelopesPossiveis /\ fora \subseteq EnvelopesPossiveis
  BY TidosTipo DEF NoCerto
<1>3. espera.sessao \in Sessoes
  BY DEF NoCerto, BufferCerto, TiposDoNo
<1> HIDE DEF fora
<1>4. entregues' \subseteq ChavesPossiveis
  BY <1>1, <1>2, <1>3, ChavesTipo DEF NoCerto, TiposDoNo
<1>5. recusados' \subseteq [sessao : Sessoes, envelope : EnvelopesPossiveis]
  BY <1>1, <1>2, <1>3 DEF NoCerto, TiposDoNo
<1>6. espera'.envelopes = {} /\ Tidos' = guardados
  BY <1>1 DEF SemPedido, Tidos
<1>7. TiposDoNo'
  BY <1>1, <1>4, <1>5 DEF NoCerto, TiposDoNo
<1>8. BufferCerto'
  BY <1>1, <1>6, FS_EmptySet DEF NoCerto, BufferCerto, NumeroUnico, Tidos
<1> QED BY <1>6, <1>7, <1>8 DEF NoCerto

\* The batch is thrown away.
LEMMA NoDescartada ==
  ASSUME NoCerto, Descartada, espera # SemPedido,
         UNCHANGED <<rede, sessao, emitidos, credencial, apagados, guardados, entregues, perdidos>>,
         servindo' \in [Tratadores -> PedidoFeito \cup {SemPedido}]
  PROVE  NoCerto' /\ Tidos' = guardados
<1>1. /\ espera' = SemPedido
      /\ recusados' = recusados \cup
           {[sessao |-> espera.sessao, envelope |-> e] : e \in espera.envelopes}
  BY DEF Descartada
<1>2. espera.sessao \in Sessoes /\ espera.envelopes \subseteq EnvelopesPossiveis
  BY TidosTipo DEF NoCerto, BufferCerto, TiposDoNo
<1>3. recusados' \subseteq [sessao : Sessoes, envelope : EnvelopesPossiveis]
  BY <1>1, <1>2 DEF NoCerto, TiposDoNo
<1>4. espera'.envelopes = {} /\ Tidos' = guardados
  BY <1>1 DEF SemPedido, Tidos
<1>5. TiposDoNo'
  BY <1>1, <1>3 DEF NoCerto, TiposDoNo
<1>6. BufferCerto'
  BY <1>1, <1>4, FS_EmptySet DEF NoCerto, BufferCerto, NumeroUnico, Tidos
<1> QED BY <1>4, <1>5, <1>6 DEF NoCerto

\* The memory is gone, and a new session begins.
LEMMA NoReligar ==
  ASSUME NoCerto, Religar
  PROVE  NoCerto' /\ Tidos' = {}
<1>1. /\ sessao < MaxPartidas /\ sessao' = sessao + 1
      /\ apagados' = apagados \cup Retidas
      /\ guardados' = {}
      /\ espera' = SemPedido
      /\ UNCHANGED <<servindo, rede, emitidos, credencial, entregues, recusados, perdidos>>
  BY DEF Religar
<1>2. Retidas \subseteq ChavesPossiveis
  BY TidosTipo, ChavesTipo DEF NoCerto, TiposDoNo, Retidas, Tidos
<1>3. sessao' \in Sessoes
  BY <1>1, LimitesDaEntrega DEF NoCerto, TiposDoNo, Sessoes
<1>4. TiposDoNo'
  BY <1>1, <1>2, <1>3 DEF NoCerto, TiposDoNo
<1>5. espera'.envelopes = {} /\ Tidos' = {}
  BY <1>1 DEF SemPedido, Tidos
<1>6. BufferCerto'
  BY <1>1, <1>5, FS_EmptySet, LimitesDaEntrega DEF BufferCerto, NumeroUnico
<1> QED BY <1>4, <1>5, <1>6 DEF NoCerto

\* What leaves the buffer alone.
LEMMA NoFica ==
  ASSUME NoCerto,
         UNCHANGED <<sessao, emitidos, guardados, espera, historia>>,
         credencial' \in {credencial, Dispositivo},
         rede' \subseteq rede,
         servindo' \in [Tratadores -> PedidoFeito \cup {SemPedido}]
  PROVE  NoCerto' /\ Tidos' = Tidos
<1>1. TiposDoNo'
  BY DEF NoCerto, TiposDoNo, historia
<1>2. Tidos' = Tidos
  BY DEF Tidos
<1>3. BufferCerto'
  BY <1>2 DEF NoCerto, BufferCerto, NumeroUnico
<1> QED BY <1>1, <1>2, <1>3 DEF NoCerto

-----------------------------------------------------------------------------
(* The gateway is the one of the module Ingestao.                          *)

RemessasDaOrigem ==
  [sessao : Sessoes, aceitos : SUBSET (1 .. MaxSequencia), rejeitados : SUBSET (1 .. MaxSequencia)]

RecusasDoGateway == {"entrada_invalida", "nao_autenticado", "permissao_negada", "interna"}

LEMMA HipotesesDaIngestao ==
  GT!RemessasValidas /\ GT!RecusasValidas /\ GT!RelogioValido /\ GT!ConexaoLivre
<1>1. GT!RemessasValidas
  <2>1. 1 .. MaxSequencia \subseteq Nat
    BY LimitesDaEntrega
  <2> QED BY <2>1 DEF GT!RemessasValidas, Sessoes
<1>2. GT!RecusasValidas /\ GT!RelogioValido /\ GT!ConexaoLivre
  BY LimitesDaEntrega DEF GT!RecusasValidas, GT!RelogioValido, GT!ConexaoLivre
<1> QED BY <1>1, <1>2

\* The two instances say the same.
LEMMA MesmoTratador ==
  ASSUME NEW t
  PROVE  /\ G!Trabalhar(t) <=> GT!Trabalhar(t)
         /\ G!FalharNoDiario(t) <=> GT!FalharNoDiario(t)
         /\ G!Responder(t) <=> GT!Responder(t)
         /\ \A fase : G!EmFase(t, fase) <=> GT!EmFase(t, fase)
         /\ \A r : G!Receber(t, r) <=> GT!Receber(t, r)
         /\ \A r, c : G!Recusar(t, r, c) <=> GT!Recusar(t, r, c)
BY DEF G!Trabalhar, GT!Trabalhar, G!LerAncora, GT!LerAncora, G!LerRelogio, GT!LerRelogio,
       G!GravarAncora, GT!GravarAncora, G!Conferir, GT!Conferir, G!AbrirTransacao,
       GT!AbrirTransacao, G!Confirmar, GT!Confirmar, G!Desfazer, GT!Desfazer, G!Responder,
       GT!Responder, G!FalharNoDiario, GT!FalharNoDiario, G!Receber, GT!Receber,
       G!Recusar, GT!Recusar, G!EmFase, GT!EmFase, G!Avancar, GT!Avancar, G!Falhar, GT!Falhar,
       G!ComConexao, GT!ComConexao, G!DaExecucaoAtual, GT!DaExecucaoAtual,
       G!AncorasCom, GT!AncorasCom, G!Linhas, GT!Linhas, G!Chaves, GT!Chaves,
       G!Primeiro, GT!Primeiro, G!Absoluto, GT!Absoluto, G!Confirma, GT!Confirma,
       G!Ocioso, GT!Ocioso, G!NenhumaAncora, GT!NenhumaAncora, G!NenhumaRemessa,
       GT!NenhumaRemessa, G!oDiario, GT!oDiario, G!oRelogio, GT!oRelogio

LEMMA MesmoProcesso ==
  /\ G!Init <=> GT!Init
  /\ G!Queda <=> GT!Queda
  /\ G!Degrau <=> GT!Degrau
  /\ G!Ocioso = GT!Ocioso
  /\ G!EstadoDoTratador = GT!EstadoDoTratador
  /\ \A r : G!Chaves(r) = GT!Chaves(r)
BY DEF G!Init, GT!Init, G!Queda, GT!Queda, G!Degrau, GT!Degrau, G!Ocioso, GT!Ocioso,
       G!NenhumaAncora, GT!NenhumaAncora, G!NenhumaRemessa, GT!NenhumaRemessa,
       G!oDiario, GT!oDiario, G!oRelogio, GT!oRelogio, G!EstadoDoTratador,
       GT!EstadoDoTratador, G!Fases, GT!Fases, G!Ancora, GT!Ancora, G!Vereditos,
       GT!Vereditos, G!Categorias, GT!Categorias, G!Chaves, GT!Chaves

LEMMA MesmoPasso == [G!Next]_(G!vars) <=> [GT!Next]_(GT!vars)
<1>1. G!Next <=> GT!Next
  BY MesmoTratador, MesmoProcesso, Zenon DEF G!Next, GT!Next
<1>2. UNCHANGED G!vars <=> UNCHANGED GT!vars
  BY DEF G!vars, GT!vars
<1> QED BY <1>1, <1>2

\* What a request decodes to; the codec looks at nothing else of the body.
Conteudo(p) == Decodificada(Remessa(p, "integro"))

LEMMA DecodificadaE ==
  ASSUME NEW p \in PedidoFeito, NEW corpo
  PROVE  /\ Decodificada(Remessa(p, corpo)) = Conteudo(p)
         /\ Conteudo(p) \in RemessasDaOrigem
         /\ Conteudo(p).sessao = p.sessao
         /\ Conteudo(p).aceitos \cup Conteudo(p).rejeitados = Numeros(p.envelopes)
<1> DEFINE A == {e \in p.envelopes : EnvelopeAceito(Remessa(p, "integro"), e)}
<1>1. \A e : EnvelopeAceito(Remessa(p, corpo), e) <=> EnvelopeAceito(Remessa(p, "integro"), e)
  BY DEF EnvelopeAceito, Remessa
<1>2. Aceitos(Remessa(p, corpo)) = A /\ Aceitos(Remessa(p, "integro")) = A
  BY <1>1 DEF Aceitos, Remessa
<1>3. Remessa(p, corpo).envelopes = p.envelopes /\ Remessa(p, "integro").envelopes = p.envelopes
  BY DEF Remessa
<1>4. Remessa(p, corpo).sessao = p.sessao /\ Remessa(p, "integro").sessao = p.sessao
  BY DEF Remessa
<1> HIDE DEF A
<1>5. /\ Decodificada(Remessa(p, corpo)) =
           [sessao |-> p.sessao, aceitos |-> Numeros(A), rejeitados |-> Numeros(p.envelopes \ A)]
      /\ Conteudo(p) =
           [sessao |-> p.sessao, aceitos |-> Numeros(A), rejeitados |-> Numeros(p.envelopes \ A)]
  BY <1>2, <1>3, <1>4 DEF Decodificada, Conteudo
<1>6. A \subseteq p.envelopes
  BY DEF A
<1>7. \A e \in p.envelopes : e.seq \in 1 .. MaxSequencia
  BY NumeroE DEF PedidoFeito
<1>8. /\ Numeros(A) \subseteq 1 .. MaxSequencia
      /\ Numeros(p.envelopes \ A) \subseteq 1 .. MaxSequencia
      /\ Numeros(A) \cup Numeros(p.envelopes \ A) = Numeros(p.envelopes)
  BY <1>6, <1>7, Zenon DEF Numeros
<1>9. p.sessao \in Sessoes
  BY DEF PedidoFeito
<1> QED BY <1>5, <1>8, <1>9 DEF RemessasDaOrigem

\* What the gateway may say of a whole batch.
LEMMA VereditoE ==
  ASSUME NEW r, NEW c
  PROVE  Veredito(r, c) \in RecusasDoGateway \cup {"nenhuma"}
BY DEF Veredito, RecusasDoGateway, IdentidadeAutenticada, ConferirIdentidade

\* What taking up a request does.
LEMMA AtenderMuda ==
  ASSUME TiposDoNo, NEW t \in Tratadores, NEW p \in rede, Atender(t, p)
  PROVE  /\ p \in PedidoFeito
         /\ rede' = rede \ {p}
         /\ servindo' = [servindo EXCEPT ![t] = p]
         /\ UNCHANGED <<oNo, historia>>
         /\ \E corpo \in {"integro"} \cup (IF p = espera THEN {} ELSE {"cortado"}) :
              LET c == Veredito(Remessa(p, corpo), p.credencial) IN
              \/ c = "nenhuma" /\ GT!Receber(t, Conteudo(p))
              \/ c \in RecusasDoGateway /\ c # "nenhuma" /\ GT!Recusar(t, Conteudo(p), c)
<1>1. p \in PedidoFeito
  BY DEF TiposDoNo
<1>2. PICK corpo \in {"integro"} \cup (IF p = espera THEN {} ELSE {"cortado"}) :
        LET r == Remessa(p, corpo)
            c == Veredito(r, p.credencial)
        IN  \/ c = "nenhuma" /\ G!Receber(t, Decodificada(r))
            \/ c # "nenhuma" /\ G!Recusar(t, Decodificada(r), c)
  BY DEF Atender
<1> DEFINE c == Veredito(Remessa(p, corpo), p.credencial)
<1>3. c \in RecusasDoGateway \cup {"nenhuma"}
  BY VereditoE
<1>4. Decodificada(Remessa(p, corpo)) = Conteudo(p)
  BY <1>1, DecodificadaE
<1> HIDE DEF c
<1>5. \/ c = "nenhuma" /\ G!Receber(t, Conteudo(p))
      \/ c # "nenhuma" /\ G!Recusar(t, Conteudo(p), c)
  BY <1>2, <1>4 DEF c
<1>6. \/ c = "nenhuma" /\ GT!Receber(t, Conteudo(p))
      \/ c # "nenhuma" /\ GT!Recusar(t, Conteudo(p), c)
  BY <1>5, MesmoTratador
<1>7. \E b \in {"integro"} \cup (IF p = espera THEN {} ELSE {"cortado"}) :
        LET v == Veredito(Remessa(p, b), p.credencial) IN
        \/ v = "nenhuma" /\ GT!Receber(t, Conteudo(p))
        \/ v \in RecusasDoGateway /\ v # "nenhuma" /\ GT!Recusar(t, Conteudo(p), v)
  BY <1>3, <1>6, Zenon DEF c
<1>8. rede' = rede \ {p} /\ servindo' = [servindo EXCEPT ![t] = p] /\ UNCHANGED <<oNo, historia>>
  BY DEF Atender
<1> QED BY <1>1, <1>7, <1>8

\* Every step of the composition is a step of the gateway or none of it.
LEMMA PassoDoGateway ==
  ASSUME TiposDoNo, [Next]_vars
  PROVE  [GT!Next]_(GT!vars)
<1>1. ASSUME UNCHANGED oGateway PROVE [GT!Next]_(GT!vars)
  BY <1>1 DEF oGateway, GT!vars
<1>2. CASE DaOrigem \/ (\E p \in rede : Sumir(p)) \/ UNCHANGED vars
  BY <1>1, <1>2, Zenon
     DEF DaOrigem, Amostrar, Enviar, Desistir, Religar, CorrigirCredencial, Sumir, vars, oGateway
<1>3. ASSUME NEW t \in Tratadores, NEW p \in rede, Atender(t, p)
      PROVE  GT!Next
  <2>1. Conteudo(p) \in RemessasDaOrigem
    BY DecodificadaE DEF TiposDoNo
  <2>2. \/ GT!Receber(t, Conteudo(p))
        \/ \E c \in RecusasDoGateway : GT!Recusar(t, Conteudo(p), c)
    BY <1>3, AtenderMuda, Zenon
  <2> QED BY <2>1, <2>2, Zenon DEF GT!Next, RemessasDaOrigem, RecusasDoGateway
<1>4. ASSUME NEW t \in Tratadores, Servir(t) \/ FalharNoDiario(t) \/ Chegar(t) \/ Extraviar(t)
      PROVE  GT!Next
  <2>1. G!Trabalhar(t) \/ G!FalharNoDiario(t)
    BY <1>4, Zenon DEF Servir, FalharNoDiario, Chegar, Extraviar, Responder, G!Trabalhar
  <2> QED BY <2>1, MesmoTratador, Zenon DEF GT!Next
<1>5. CASE Queda
  BY <1>5, MesmoProcesso, Zenon DEF Queda, GT!Next
<1> QED BY <1>2, <1>3, <1>4, <1>5, Zenon DEF Next, DoGateway

-----------------------------------------------------------------------------
(* The request a goroutine is at.                                          *)

\* What the goroutine has decoded is what its request carries.
ServeOPedido ==
  \A t \in Tratadores :
    IF tratador[t].fase = "livre" THEN servindo[t] = SemPedido
    ELSE servindo[t] \in PedidoFeito /\ tratador[t].remessa = Conteudo(servindo[t])

Base == GT!Inv /\ NoCerto /\ ServeOPedido

LEMMA TratadorTipo ==
  ASSUME GT!Inv
  PROVE  /\ tratador \in [Tratadores -> GT!EstadoDoTratador]
         /\ \A t \in Tratadores : tratador[t] \in GT!EstadoDoTratador
BY DEF GT!Inv, GT!TypeOK

\* Only its own goroutine moves, and it keeps its batch.
Trabalha(t) ==
  /\ \A u \in Tratadores : u # t => tratador'[u] = tratador[u]
  /\ tratador'[t].remessa = tratador[t].remessa
  /\ tratador[t].fase # "livre" /\ tratador[t].fase # "responder"
  /\ tratador'[t].fase # "livre"
  /\ execucao' = execucao
  /\ \/ tratador'[t].categoria = tratador[t].categoria
     \/ tratador'[t].categoria = "interna"
  /\ tratador'[t].fase = "gravar_ancora" =>
       tratador'[t].ancora.ligado = GT!Primeiro(tratador[t].remessa)

\* What it may write: the first anchor of a session, and the rows of its batch.
Escreve(t) ==
  \/ UNCHANGED <<diario, ancoras>>
  \/ /\ tratador[t].fase = "gravar_ancora"
     /\ diario' = diario
     /\ ancoras' = GT!AncorasCom(tratador[t].remessa.sessao, tratador[t].ancora)
  \/ /\ tratador[t].fase = "transacao"
     /\ diario' = diario \cup GT!Chaves(tratador[t].remessa)
     /\ ancoras' = ancoras

LEMMA AvancarMuda ==
  ASSUME GT!Inv, NEW t \in Tratadores, NEW fase, GT!Avancar(t, fase)
  PROVE  /\ \A u \in Tratadores : u # t => tratador'[u] = tratador[u]
         /\ tratador'[t].remessa = tratador[t].remessa
         /\ tratador'[t].categoria = tratador[t].categoria
         /\ tratador'[t].fase = fase
         /\ tratador'[t].ancora = tratador[t].ancora
BY TratadorTipo DEF GT!Avancar, GT!EstadoDoTratador

LEMMA FalharMuda ==
  ASSUME GT!Inv, NEW t \in Tratadores, GT!Falhar(t, "interna")
  PROVE  /\ \A u \in Tratadores : u # t => tratador'[u] = tratador[u]
         /\ tratador'[t].remessa = tratador[t].remessa
         /\ tratador'[t].categoria = "interna"
         /\ tratador'[t].fase = "responder"
BY TratadorTipo DEF GT!Falhar, GT!EstadoDoTratador

LEMMA TrabalhaE ==
  ASSUME GT!Inv, NEW t \in Tratadores,
         \/ GT!Trabalhar(t) /\ ~GT!EmFase(t, "responder")
         \/ GT!FalharNoDiario(t)
  PROVE  Trabalha(t) /\ Escreve(t)
<1>0. tratador \in [Tratadores -> GT!EstadoDoTratador]
  BY TratadorTipo
<1>1. CASE GT!LerAncora(t)
  <2>1. /\ tratador[t].fase = "ler_ancora"
        /\ UNCHANGED <<diario, ancoras, execucao>>
    BY <1>1 DEF GT!LerAncora, GT!ComConexao, GT!EmFase, GT!oDiario, GT!oRelogio
  <2>2. CASE GT!Avancar(t, "ancorar") \/ GT!Avancar(t, "gravar")
    BY <2>1, <2>2, AvancarMuda DEF Trabalha, Escreve
  <2>3. CASE tratador' = [tratador EXCEPT ![t].fase = "conferir",
                            ![t].ancora = ancoras[tratador[t].remessa.sessao]]
    BY <1>0, <2>1, <2>3 DEF Trabalha, Escreve, GT!EstadoDoTratador
  <2> QED BY <1>1, <2>2, <2>3 DEF GT!LerAncora
<1>2. CASE GT!LerRelogio(t)
  <2>1. /\ tratador[t].fase = "ancorar"
        /\ UNCHANGED <<diario, ancoras, execucao>>
    BY <1>2 DEF GT!LerRelogio, GT!EmFase, GT!oDiario, GT!oRelogio
  <2>2. PICK pausa :
          tratador' = [tratador EXCEPT ![t].fase = "gravar_ancora",
            ![t].ancora = [ligado |-> GT!Primeiro(tratador[t].remessa), base |-> 0 - pausa,
                           execucao |-> execucao, degraus |-> 0]]
    BY <1>2, Zenon DEF GT!LerRelogio
  <2> QED BY <1>0, <2>1, <2>2 DEF Trabalha, Escreve, GT!EstadoDoTratador
<1>3. CASE GT!GravarAncora(t)
  <2>1. /\ tratador[t].fase = "gravar_ancora"
        /\ ancoras' = GT!AncorasCom(tratador[t].remessa.sessao, tratador[t].ancora)
        /\ tratador' = [tratador EXCEPT ![t].fase = "gravar", ![t].ancora = GT!NenhumaAncora]
        /\ UNCHANGED <<diario, execucao>>
    BY <1>3 DEF GT!GravarAncora, GT!ComConexao, GT!EmFase, GT!oRelogio
  <2>2. Trabalha(t)
    BY <1>0, <2>1 DEF Trabalha, GT!EstadoDoTratador
  <2> QED BY <2>1, <2>2, Zenon DEF Escreve
<1>4. CASE GT!Conferir(t)
  <2>1. /\ tratador[t].fase = "conferir"
        /\ UNCHANGED <<diario, ancoras, execucao>>
    BY <1>4 DEF GT!Conferir, GT!EmFase, GT!oDiario, GT!oRelogio
  <2>2. PICK v, d : tratador' = [tratador EXCEPT ![t].fase = "gravar", ![t].veredito = v,
                                   ![t].degrau = d, ![t].ancora = GT!NenhumaAncora]
    BY <1>4, Zenon DEF GT!Conferir
  <2> QED BY <1>0, <2>1, <2>2 DEF Trabalha, Escreve, GT!EstadoDoTratador
<1>5. CASE GT!AbrirTransacao(t)
  <2>1. /\ tratador[t].fase = "gravar" /\ GT!Avancar(t, "transacao")
        /\ UNCHANGED <<diario, ancoras, execucao>>
    BY <1>5 DEF GT!AbrirTransacao, GT!ComConexao, GT!EmFase, GT!oDiario, GT!oRelogio
  <2> QED BY <2>1, AvancarMuda DEF Trabalha, Escreve
<1>6. CASE GT!Confirmar(t)
  <2>1. /\ tratador[t].fase = "transacao" /\ GT!Avancar(t, "responder")
        /\ diario' = diario \cup GT!Chaves(tratador[t].remessa)
        /\ UNCHANGED <<ancoras, execucao>>
    BY <1>6 DEF GT!Confirmar, GT!Linhas, GT!EmFase, GT!oRelogio
  <2> QED BY <2>1, AvancarMuda DEF Trabalha, Escreve
<1>7. CASE GT!Desfazer(t)
  <2>1. /\ tratador[t].fase = "transacao" /\ GT!Falhar(t, "interna")
        /\ UNCHANGED <<diario, ancoras, execucao>>
    BY <1>7 DEF GT!Desfazer, GT!EmFase, GT!oDiario, GT!oRelogio
  <2> QED BY <2>1, FalharMuda DEF Trabalha, Escreve
<1>8. CASE GT!FalharNoDiario(t)
  <2>1. /\ tratador[t].fase \in {"ler_ancora", "gravar_ancora", "gravar"}
        /\ GT!Falhar(t, "interna")
        /\ UNCHANGED <<diario, ancoras, execucao>>
    BY <1>8 DEF GT!FalharNoDiario, GT!oDiario, GT!oRelogio
  <2> QED BY <2>1, FalharMuda DEF Trabalha, Escreve
<1>9. ~(GT!Responder(t) /\ ~GT!EmFase(t, "responder"))
  BY DEF GT!Responder
<1> QED BY <1>1, <1>2, <1>3, <1>4, <1>5, <1>6, <1>7, <1>8, <1>9, Zenon DEF GT!Trabalhar

\* A goroutine at work, in the composition.
LEMMA ServirMuda ==
  ASSUME GT!Inv, NEW t \in Tratadores, Servir(t) \/ FalharNoDiario(t)
  PROVE  /\ Trabalha(t) /\ Escreve(t)
         /\ UNCHANGED <<servindo, rede, oNo, historia>>
<1>1. /\ \/ GT!Trabalhar(t) /\ ~GT!EmFase(t, "responder")
         \/ GT!FalharNoDiario(t)
      /\ UNCHANGED <<servindo, rede, oNo, historia>>
  BY MesmoTratador, Zenon DEF Servir, FalharNoDiario
<1> QED BY <1>1, TrabalhaE

\* The answer leaves, and the goroutine is free.
LEMMA ResponderMuda ==
  ASSUME GT!Inv, NEW t \in Tratadores, Responder(t)
  PROVE  /\ tratador[t].fase = "responder" /\ tratador'[t].fase = "livre"
         /\ \A u \in Tratadores : u # t => tratador'[u] = tratador[u]
         /\ servindo' = [servindo EXCEPT ![t] = SemPedido]
         /\ UNCHANGED <<rede, sessao, emitidos, credencial, apagados, diario, ancoras, execucao>>
<1>1. /\ tratador[t].fase = "responder"
      /\ tratador' = [tratador EXCEPT ![t] = GT!Ocioso]
      /\ servindo' = [servindo EXCEPT ![t] = SemPedido]
      /\ UNCHANGED <<rede, sessao, emitidos, credencial, apagados, diario, ancoras, execucao>>
  BY MesmoTratador DEF Responder, GT!Responder, GT!EmFase, GT!oDiario, GT!oRelogio
<1>2. GT!Ocioso.fase = "livre"
  BY DEF GT!Ocioso
<1> QED BY <1>1, <1>2, TratadorTipo

LEMMA QuedaMuda ==
  ASSUME GT!Inv, Queda
  PROVE  /\ \A t \in Tratadores : tratador'[t].fase = "livre"
         /\ servindo' = [t \in Tratadores |-> SemPedido]
         /\ UNCHANGED <<rede, oNo, historia, diario, ancoras>>
BY MesmoProcesso DEF Queda, GT!Queda, GT!Ocioso, GT!oDiario

\* The goroutine has decoded the request, and may have refused it.
LEMMA AtenderNoTratador ==
  ASSUME GT!Inv, TiposDoNo, NEW t \in Tratadores, NEW p \in rede, Atender(t, p)
  PROVE  /\ tratador[t].fase = "livre" /\ tratador'[t].fase # "livre"
         /\ \A u \in Tratadores : u # t => tratador'[u] = tratador[u]
         /\ tratador'[t].remessa = Conteudo(p)
         /\ tratador'[t].categoria = "nenhuma" =>
              \E b : Veredito(Remessa(p, b), p.credencial) = "nenhuma"
         /\ tratador'[t].categoria # "nenhuma" =>
              /\ tratador'[t].fase = "responder"
              /\ \E b \in {"integro"} \cup (IF p = espera THEN {} ELSE {"cortado"}) :
                   tratador'[t].categoria = Veredito(Remessa(p, b), p.credencial)
         /\ tratador'[t].fase \in {"responder", "ler_ancora"}
         /\ tratador'[t].categoria = "nenhuma" /\ tratador'[t].fase = "responder" =>
              Conteudo(p).aceitos = {}
         /\ UNCHANGED <<diario, ancoras, execucao>>
<1>1. PICK b \in {"integro"} \cup (IF p = espera THEN {} ELSE {"cortado"}) :
        LET v == Veredito(Remessa(p, b), p.credencial) IN
        \/ v = "nenhuma" /\ GT!Receber(t, Conteudo(p))
        \/ v \in RecusasDoGateway /\ v # "nenhuma" /\ GT!Recusar(t, Conteudo(p), v)
  BY AtenderMuda
<1> DEFINE v == Veredito(Remessa(p, b), p.credencial)
<1>2. CASE v = "nenhuma" /\ GT!Receber(t, Conteudo(p))
  <2> DEFINE novo == [GT!Ocioso EXCEPT
                        !.fase = IF Conteudo(p).aceitos = {} THEN "responder" ELSE "ler_ancora",
                        !.remessa = Conteudo(p)]
  <2>1. /\ tratador[t].fase = "livre"
        /\ tratador' = [tratador EXCEPT ![t] = novo]
        /\ UNCHANGED <<diario, ancoras, execucao>>
    BY <1>2 DEF GT!Receber, GT!EmFase, GT!oDiario, GT!oRelogio
  <2>2. /\ novo.fase = IF Conteudo(p).aceitos = {} THEN "responder" ELSE "ler_ancora"
        /\ novo.remessa = Conteudo(p) /\ novo.categoria = "nenhuma"
    BY DEF GT!Ocioso
  <2> HIDE DEF novo
  <2>3. tratador'[t] = novo /\ \A u \in Tratadores : u # t => tratador'[u] = tratador[u]
    BY <2>1, TratadorTipo
  <2> QED BY <1>2, <2>1, <2>2, <2>3
<1>3. CASE v \in RecusasDoGateway /\ v # "nenhuma" /\ GT!Recusar(t, Conteudo(p), v)
  <2> DEFINE novo == [GT!Ocioso EXCEPT !.fase = "responder", !.remessa = Conteudo(p),
                                       !.categoria = v]
  <2>1. /\ tratador[t].fase = "livre"
        /\ tratador' = [tratador EXCEPT ![t] = novo]
        /\ UNCHANGED <<diario, ancoras, execucao>>
    BY <1>3 DEF GT!Recusar, GT!EmFase, GT!oDiario, GT!oRelogio
  <2>2. /\ novo.fase = "responder"
        /\ novo.remessa = Conteudo(p) /\ novo.categoria = v
    BY DEF GT!Ocioso
  <2> HIDE DEF novo
  <2>3. tratador'[t] = novo /\ \A u \in Tratadores : u # t => tratador'[u] = tratador[u]
    BY <2>1, TratadorTipo
  <2> QED BY <1>3, <2>1, <2>2, <2>3
<1> QED BY <1>1, <1>2, <1>3

LEMMA ServeMantido ==
  ASSUME Base, [Next]_vars
  PROVE  ServeOPedido'
<1>0. GT!Inv /\ TiposDoNo /\ ServeOPedido /\ servindo \in [Tratadores -> PedidoFeito \cup {SemPedido}]
  BY DEF Base, NoCerto, TiposDoNo
<1>1. ASSUME UNCHANGED <<tratador, servindo>> PROVE ServeOPedido'
  BY <1>0, <1>1 DEF ServeOPedido
<1>2. CASE DaOrigem \/ (\E p \in rede : Sumir(p)) \/ UNCHANGED vars
  BY <1>1, <1>2, Zenon
     DEF DaOrigem, Amostrar, Enviar, Desistir, Religar, CorrigirCredencial, Sumir, vars, oGateway
<1>3. ASSUME NEW t \in Tratadores, NEW p \in rede, Atender(t, p)
      PROVE  ServeOPedido'
  <2>1. /\ p \in PedidoFeito
        /\ servindo'[t] = p /\ \A u \in Tratadores : u # t => servindo'[u] = servindo[u]
    BY <1>0, <1>3, AtenderMuda
  <2>2. /\ tratador'[t].fase # "livre" /\ tratador'[t].remessa = Conteudo(p)
        /\ \A u \in Tratadores : u # t => tratador'[u] = tratador[u]
    BY <1>0, <1>3, AtenderNoTratador
  <2> QED BY <1>0, <2>1, <2>2 DEF ServeOPedido
<1>4. ASSUME NEW t \in Tratadores, Servir(t) \/ FalharNoDiario(t)
      PROVE  ServeOPedido'
  BY <1>0, <1>4, ServirMuda DEF ServeOPedido, Trabalha
<1>5. ASSUME NEW t \in Tratadores, Responder(t)
      PROVE  ServeOPedido'
  BY <1>0, <1>5, ResponderMuda DEF ServeOPedido
<1>6. CASE Queda
  BY <1>0, <1>6, QuedaMuda DEF ServeOPedido
<1> QED BY <1>2, <1>3, <1>4, <1>5, <1>6, Zenon DEF Next, DoGateway, Chegar, Extraviar

\* The answer of a request the node waits for is about that request.
LEMMA ChegarE ==
  ASSUME Base, NEW t \in Tratadores, Chegar(t)
  PROVE  /\ espera \in PedidoFeito /\ espera # SemPedido
         /\ tratador[t].fase = "responder" /\ servindo[t] = espera
         /\ tratador[t].remessa = Conteudo(espera)
         /\ UNCHANGED <<rede, sessao, emitidos, credencial, apagados, diario, ancoras>>
         /\ servindo' \in [Tratadores -> PedidoFeito \cup {SemPedido}]
         /\ espera.sessao = sessao
<1>1. /\ tratador[t].fase = "responder"
      /\ servindo' = [servindo EXCEPT ![t] = SemPedido]
      /\ UNCHANGED <<rede, sessao, emitidos, credencial, apagados, diario, ancoras>>
  BY ResponderMuda, Zenon DEF Base, Chegar
<1>2. servindo[t] = espera
  BY DEF Chegar
<1>3. espera \in PedidoFeito /\ tratador[t].remessa = Conteudo(espera)
  BY <1>1, <1>2 DEF Base, ServeOPedido
<1>4. espera # SemPedido
  <2>1. SemPedido.id = 0 /\ espera.id \in 1 .. MaxPedidos
    BY <1>3 DEF SemPedido, PedidoFeito
  <2> QED BY <2>1
<1>5. espera.sessao = sessao
  BY <1>4 DEF Base, NoCerto, BufferCerto
<1>6. servindo' \in [Tratadores -> PedidoFeito \cup {SemPedido}]
  BY <1>1 DEF Base, NoCerto, TiposDoNo
<1> QED BY <1>1, <1>2, <1>3, <1>4, <1>5, <1>6

\* What an answer may do to the node.
LEMMA TratarE ==
  ASSUME Base, NEW t \in Tratadores, Chegar(t)
  PROVE  \/ /\ tratador[t].categoria = "nenhuma"
            /\ Confirmada(Conteudo(espera).rejeitados)
         \/ /\ tratador[t].categoria \in {"entrada_invalida", "nao_autenticado"}
            /\ Descartada /\ UNCHANGED <<guardados, entregues, perdidos>>
         \/ Devolver
<1> DEFINE lida(c) == CategoriaDoStatus(StatusDe[c])
<1>1. tratador[t].categoria \in
        {"nenhuma", "entrada_invalida", "nao_autenticado", "permissao_negada", "interna"}
  BY TratadorTipo DEF Base, GT!EstadoDoTratador, GT!Categorias
<1>2. /\ lida("nenhuma") = "nenhuma"
      /\ lida("permissao_negada") = "permissao_negada"
      /\ lida("interna") = "indisponivel"
      /\ lida("entrada_invalida") = "entrada_invalida"
      /\ lida("nao_autenticado") = "entrada_invalida"
  BY DEF CategoriaDoStatus, StatusDe
<1>3. Tratar(lida(tratador[t].categoria), Conteudo(espera).rejeitados)
  BY ChegarE DEF Chegar
<1> HIDE DEF lida
<1>4. \/ lida(tratador[t].categoria) = "nenhuma" /\ Confirmada(Conteudo(espera).rejeitados)
      \/ lida(tratador[t].categoria) = "entrada_invalida" /\ Descartada
      \/ Devolver
  BY <1>3 DEF Tratar, Descarta
<1>5. Descartada => UNCHANGED <<guardados, entregues, perdidos>>
  BY DEF Descartada
<1> QED BY <1>1, <1>2, <1>4, <1>5

LEMMA NoMantido ==
  ASSUME Base, [Next]_vars
  PROVE  NoCerto'
<1>0. NoCerto /\ GT!Inv /\ servindo \in [Tratadores -> PedidoFeito \cup {SemPedido}]
  BY DEF Base, NoCerto, TiposDoNo
<1>1. ASSUME UNCHANGED <<sessao, emitidos, guardados, espera, historia, servindo>>,
             credencial' \in {credencial, Dispositivo}, rede' \subseteq rede
      PROVE  NoCerto'
  BY <1>0, <1>1, NoFica
<1>2. CASE Amostrar \/ Enviar \/ Religar
  BY <1>0, <1>2, NoAmostrar, NoEnviar, NoReligar
<1>3. CASE Desistir
  BY <1>0, <1>3, NoDevolver DEF Desistir
<1>4. CASE CorrigirCredencial \/ (\E p \in rede : Sumir(p)) \/ UNCHANGED vars
  <2>1. /\ UNCHANGED <<sessao, emitidos, guardados, espera, historia, servindo>>
        /\ rede' \subseteq rede
        /\ credencial' \in {credencial, Dispositivo}
    BY <1>4 DEF CorrigirCredencial, Sumir, vars, oNo, historia
  <2> QED BY <1>1, <2>1
<1>5. ASSUME NEW t \in Tratadores, NEW p \in rede, Atender(t, p)
      PROVE  NoCerto'
  <2>1. /\ p \in PedidoFeito /\ rede' = rede \ {p}
        /\ servindo' = [servindo EXCEPT ![t] = p]
        /\ UNCHANGED <<oNo, historia>>
    BY <1>0, <1>5, AtenderMuda DEF NoCerto
  <2> QED BY <1>0, <2>1, NoFica DEF oNo
<1>6. ASSUME NEW t \in Tratadores, Servir(t) \/ FalharNoDiario(t)
      PROVE  NoCerto'
  <2>1. UNCHANGED <<servindo, rede, oNo, historia>>
    BY <1>0, <1>6, ServirMuda
  <2> QED BY <1>1, <2>1 DEF oNo
<1>7. ASSUME NEW t \in Tratadores, Chegar(t)
      PROVE  NoCerto'
  <2>1. /\ espera # SemPedido
        /\ UNCHANGED <<rede, sessao, emitidos, credencial, apagados>>
        /\ servindo' \in [Tratadores -> PedidoFeito \cup {SemPedido}]
    BY <1>7, ChegarE
  <2> QED BY <1>0, <1>7, <2>1, TratarE, NoConfirmada, NoDescartada, NoDevolver
<1>8. ASSUME NEW t \in Tratadores, Extraviar(t)
      PROVE  NoCerto'
  <2>1. /\ servindo' = [servindo EXCEPT ![t] = SemPedido]
        /\ UNCHANGED <<rede, sessao, emitidos, credencial, apagados>>
        /\ UNCHANGED <<guardados, espera, entregues, recusados, perdidos>>
    BY <1>0, <1>8, ResponderMuda DEF Extraviar
  <2> QED BY <1>0, <2>1, NoFica DEF historia
<1>9. CASE Queda
  <2>1. /\ servindo' = [t \in Tratadores |-> SemPedido]
        /\ UNCHANGED <<rede, oNo, historia>>
    BY <1>0, <1>9, QuedaMuda
  <2>2. servindo' \in [Tratadores -> PedidoFeito \cup {SemPedido}]
    BY <2>1
  <2> QED BY <1>0, <2>1, <2>2, NoFica DEF oNo
<1> QED BY <1>2, <1>3, <1>4, <1>5, <1>6, <1>7, <1>8, <1>9, Zenon
        DEF Next, DaOrigem, DoGateway

LEMMA BaseInicial == Init => Base
<1> SUFFICES ASSUME Init PROVE Base
  OBVIOUS
<1>1. GT!Inv
  BY HipotesesDaIngestao, GT!InvInicial, MesmoProcesso DEF Init
<1>2. NoCerto
  BY NoInicial
<1>3. ServeOPedido
  BY DEF Init, G!Init, G!Ocioso, ServeOPedido
<1> QED BY <1>1, <1>2, <1>3 DEF Base

LEMMA BaseMantida ==
  ASSUME Base, [Next]_vars
  PROVE  Base'
<1>1. [GT!Next]_(GT!vars)
  BY PassoDoGateway DEF Base, NoCerto
<1>2. GT!Inv'
  BY <1>1, HipotesesDaIngestao, GT!InvMantido DEF Base
<1> QED BY <1>2, NoMantido, ServeMantido DEF Base

LEMMA BaseSempre == Spec => []Base
BY BaseInicial, BaseMantida, PTL DEF Spec

-----------------------------------------------------------------------------
(* What a step does to what the node holds and to what is on its way.      *)

\* Where an envelope is that the node holds no longer.
Assentado(e) ==
  \/ [sessao |-> sessao, seq |-> e.seq] \in diario' \cup perdidos' \cup apagados'
  \/ [sessao |-> sessao, envelope |-> e] \in recusados'

LEMMA DiarioCresce ==
  ASSUME Base, [Next]_vars
  PROVE  diario \subseteq diario'
<1>0. GT!Inv /\ TiposDoNo
  BY DEF Base, NoCerto
<1>1. CASE DaOrigem \/ (\E p \in rede : Sumir(p)) \/ UNCHANGED vars
  BY <1>1, Zenon
     DEF DaOrigem, Amostrar, Enviar, Desistir, Religar, CorrigirCredencial, Sumir, vars, oGateway
<1>2. ASSUME NEW t \in Tratadores, NEW p \in rede, Atender(t, p)
      PROVE  diario' = diario
  BY <1>0, <1>2, AtenderNoTratador
<1>3. ASSUME NEW t \in Tratadores, Servir(t) \/ FalharNoDiario(t)
      PROVE  diario \subseteq diario'
  BY <1>0, <1>3, ServirMuda DEF Escreve
<1>4. ASSUME NEW t \in Tratadores, Responder(t)
      PROVE  diario' = diario
  BY <1>0, <1>4, ResponderMuda
<1>5. CASE Queda
  BY <1>0, <1>5, QuedaMuda
<1> QED BY <1>1, <1>2, <1>3, <1>4, <1>5, Zenon DEF Next, DoGateway, Chegar, Extraviar

\* A sample or an event is added; who leaves for it is counted.
LEMMA AmostrarE ==
  ASSUME NoCerto, Amostrar
  PROVE  \E c \in Conteudos :
           LET n == emitidos[sessao] + 1 IN
           /\ n \in 1 .. MaxSequencia /\ Envelope(n, c).seq = n
           /\ Envelope(n, c) \in EnvelopesPossiveis
           /\ emitidos' = [emitidos EXCEPT ![sessao] = n]
           /\ Envelope(n, c) \in Tidos'
           /\ Tidos' \subseteq Tidos \cup {Envelope(n, c)}
           /\ \A e \in Tidos \ Tidos' : [sessao |-> sessao, seq |-> e.seq] \in perdidos'
           /\ perdidos \subseteq perdidos'
           /\ UNCHANGED <<servindo, rede, sessao, espera, entregues, recusados, apagados,
                          diario, ancoras, tratador>>
<1> DEFINE n == emitidos[sessao] + 1
           S == Sobra(guardados, Capacidade - 1)
<1>1. PICK c \in Conteudos :
        /\ emitidos' = [emitidos EXCEPT ![sessao] = n]
        /\ guardados' = S \cup {Envelope(n, c)}
  BY DEF Amostrar
<1>2. /\ n \in 1 .. MaxSequencia
      /\ perdidos' = perdidos \cup Chaves(sessao, guardados \ S)
      /\ UNCHANGED <<servindo, rede, sessao, espera, entregues, recusados, apagados,
                     diario, ancoras, tratador>>
  BY LimitesDaEntrega DEF Amostrar, Guardar, NoCerto, TiposDoNo, oGateway
<1>3. Envelope(n, c).seq = n /\ Envelope(n, c) \in EnvelopesPossiveis
  BY <1>2 DEF Envelope, EnvelopesPossiveis
<1>4. S \subseteq guardados
  BY DEF Sobra
<1> HIDE DEF n, S
<1>5. Envelope(n, c) \in Tidos' /\ Tidos' \subseteq Tidos \cup {Envelope(n, c)}
  BY <1>1, <1>2, <1>4 DEF Tidos
<1>6. Tidos \ Tidos' \subseteq guardados \ S
  BY <1>1, <1>2 DEF Tidos
<1>7. guardados \ S \in SUBSET EnvelopesPossiveis /\ sessao \in Sessoes
  BY DEF NoCerto, TiposDoNo
<1>8. \A e \in guardados \ S : [sessao |-> sessao, seq |-> e.seq] \in perdidos'
  BY <1>2, <1>7, ChavesTipo
<1> QED BY <1>1, <1>2, <1>3, <1>5, <1>6, <1>8 DEF n

\* A confirmation says the truth of what it does not name as rejected.
LEMMA ConfirmadaE ==
  ASSUME Base, NEW t \in Tratadores, Chegar(t), tratador[t].categoria = "nenhuma",
         NEW e \in espera.envelopes, e.seq \notin Conteudo(espera).rejeitados
  PROVE  [sessao |-> sessao, seq |-> e.seq] \in diario
<1>1. /\ espera \in PedidoFeito /\ tratador[t].remessa = Conteudo(espera)
      /\ tratador[t].fase = "responder" /\ espera.sessao = sessao
  BY ChegarE
<1>2. e.seq \in Conteudo(espera).aceitos /\ Conteudo(espera).sessao = sessao
  <2>1. e.seq \in Numeros(espera.envelopes)
    BY DEF Numeros
  <2> QED BY <1>1, <2>1, DecodificadaE
<1>3. GT!Chaves(Conteudo(espera)) \subseteq diario
  BY <1>1 DEF Base, GT!Inv, GT!ConfirmaOGravado, GT!EmFase, GT!Confirma
<1>4. [sessao |-> sessao, seq |-> e.seq] \in GT!Chaves(Conteudo(espera))
  BY <1>2, Zenon DEF GT!Chaves
<1> QED BY <1>3, <1>4

\* What the node holds shrinks, and every envelope that leaves gets somewhere.
Encolhe ==
  /\ UNCHANGED <<sessao, emitidos, apagados>>
  /\ Tidos' \subseteq Tidos
  /\ espera' \in {espera, SemPedido}
  /\ perdidos \subseteq perdidos' /\ recusados \subseteq recusados'
  /\ \A x \in recusados' :
       x \in recusados \/ \E e \in Tidos : x = [sessao |-> sessao, envelope |-> e]
  /\ \A k \in entregues' : k \in entregues \/ k \in diario
  /\ \A e \in Tidos \ Tidos' : Assentado(e)

LEMMA NoEncolhe ==
  ASSUME Base, [Next]_vars, ~Amostrar, ~Enviar, ~Religar
  PROVE  Encolhe
<1>0. NoCerto /\ GT!Inv /\ TiposDoNo
  BY DEF Base, NoCerto
<1>1. ASSUME UNCHANGED <<sessao, emitidos, guardados, espera, historia>> PROVE Encolhe
  BY <1>1 DEF Encolhe, Tidos, historia
<1>2. ASSUME Devolver, espera # SemPedido,
             UNCHANGED <<rede, sessao, emitidos, credencial, apagados>>,
             servindo' \in [Tratadores -> PedidoFeito \cup {SemPedido}]
      PROVE  Encolhe
  <2>1. /\ Tidos' \subseteq Tidos /\ perdidos \subseteq perdidos'
        /\ UNCHANGED <<entregues, recusados>>
        /\ \A e \in Tidos \ Tidos' : [sessao |-> sessao, seq |-> e.seq] \in perdidos'
    BY <1>0, <1>2, NoDevolver
  <2>2. espera' = SemPedido
    BY <1>2 DEF Devolver
  <2> QED BY <1>2, <2>1, <2>2 DEF Encolhe, Assentado
<1>3. ASSUME NEW t \in Tratadores, Chegar(t)
      PROVE  Encolhe
  <2>1. /\ espera \in PedidoFeito /\ espera # SemPedido /\ espera.sessao = sessao
        /\ UNCHANGED <<rede, sessao, emitidos, credencial, apagados, diario>>
        /\ servindo' \in [Tratadores -> PedidoFeito \cup {SemPedido}]
    BY <1>3, ChegarE
  <2>2. CASE tratador[t].categoria = "nenhuma" /\ Confirmada(Conteudo(espera).rejeitados)
    <3> DEFINE fora == {e \in espera.envelopes : e.seq \in Conteudo(espera).rejeitados}
    <3>1. /\ espera' = SemPedido
          /\ entregues' = entregues \cup Chaves(sessao, espera.envelopes \ fora)
          /\ recusados' = recusados \cup {[sessao |-> sessao, envelope |-> e] : e \in fora}
          /\ UNCHANGED <<guardados, perdidos>>
      BY <2>1, <2>2 DEF Confirmada
    <3>2. Tidos' = guardados
      BY <1>0, <2>1, <2>2, NoConfirmada
    <3>3. \A e \in espera.envelopes \ fora : [sessao |-> sessao, seq |-> e.seq] \in diario
      BY <1>3, <2>2, ConfirmadaE
    <3>4. \A k \in Chaves(sessao, espera.envelopes \ fora) : k \in diario
      BY <3>3, Zenon DEF Chaves
    <3>5. \A e \in fora : [sessao |-> sessao, envelope |-> e] \in recusados'
      BY <3>1
    <3>6. \A e \in espera.envelopes : Assentado(e)
      BY <2>1, <3>3, <3>5 DEF Assentado
    <3>7. \A x \in recusados' :
            x \in recusados \/ \E e \in Tidos : x = [sessao |-> sessao, envelope |-> e]
      BY <3>1 DEF Tidos
    <3> HIDE DEF fora
    <3> QED BY <2>1, <3>1, <3>2, <3>4, <3>6, <3>7 DEF Encolhe, Tidos
  <2>3. CASE Descartada /\ UNCHANGED <<guardados, entregues, perdidos>>
    <3>1. /\ espera' = SemPedido
          /\ recusados' = recusados \cup
               {[sessao |-> sessao, envelope |-> e] : e \in espera.envelopes}
      BY <2>1, <2>3 DEF Descartada
    <3>2. Tidos' = guardados
      BY <1>0, <2>1, <2>3, NoDescartada
    <3>3. \A e \in espera.envelopes : Assentado(e)
      BY <3>1 DEF Assentado
    <3> QED BY <2>1, <2>3, <3>1, <3>2, <3>3 DEF Encolhe, Tidos
  <2> QED BY <1>2, <1>3, <2>1, <2>2, <2>3, TratarE
<1>4. CASE Desistir
  BY <1>0, <1>2, <1>4 DEF Desistir, TiposDoNo
<1>5. CASE CorrigirCredencial \/ (\E p \in rede : Sumir(p)) \/ UNCHANGED vars
  BY <1>1, <1>5, Zenon DEF CorrigirCredencial, Sumir, vars, oNo, historia
<1>6. ASSUME NEW t \in Tratadores, NEW p \in rede, Atender(t, p)
      PROVE  Encolhe
  BY <1>1, <1>6, Zenon DEF Atender, oNo, historia
<1>7. ASSUME NEW t \in Tratadores, Servir(t) \/ FalharNoDiario(t)
      PROVE  Encolhe
  BY <1>1, <1>7, Zenon DEF Servir, FalharNoDiario, oNo, historia
<1>8. ASSUME NEW t \in Tratadores, Extraviar(t)
      PROVE  Encolhe
  BY <1>1, <1>8, Zenon DEF Extraviar, Responder, historia
<1>9. CASE Queda
  BY <1>1, <1>9, Zenon DEF Queda, oNo, historia
<1> QED BY <1>3, <1>4, <1>5, <1>6, <1>7, <1>8, <1>9, Zenon DEF Next, DaOrigem, DoGateway

\* Nothing new is on its way but what the node sends.
SoOEnviado ==
  \A p \in Soltos' : p \in Soltos \/ p = SemPedido \/ (Enviar /\ p = espera')

LEMMA SoltosMuda ==
  ASSUME Base, [Next]_vars
  PROVE  SoOEnviado
<1>0. GT!Inv /\ TiposDoNo /\ NoCerto /\ servindo \in [Tratadores -> PedidoFeito \cup {SemPedido}]
  BY DEF Base, NoCerto, TiposDoNo
<1>1. ASSUME servindo' = servindo, rede' \subseteq rede PROVE SoOEnviado
  BY <1>1 DEF SoOEnviado, Soltos
<1>2. CASE Enviar
  <2>1. servindo' = servindo
    BY <1>2 DEF Enviar
  <2>2. rede' = rede \cup {espera'}
    BY <1>2 DEF Enviar
  <2> QED BY <1>2, <2>1, <2>2 DEF SoOEnviado, Soltos
<1>3. CASE Amostrar \/ Desistir \/ Religar \/ CorrigirCredencial
           \/ (\E p \in rede : Sumir(p)) \/ UNCHANGED vars
  <2>1. servindo' = servindo /\ rede' \subseteq rede
    BY <1>3 DEF Amostrar, Desistir, Religar, CorrigirCredencial, Sumir, vars
  <2> QED BY <1>1, <2>1
<1>4. ASSUME NEW t \in Tratadores, NEW p \in rede, Atender(t, p)
      PROVE  SoOEnviado
  <2>1. rede' = rede \ {p} /\ servindo' = [servindo EXCEPT ![t] = p]
    BY <1>0, <1>4, AtenderMuda
  <2> QED BY <1>0, <2>1 DEF SoOEnviado, Soltos
<1>5. ASSUME NEW t \in Tratadores, Servir(t) \/ FalharNoDiario(t)
      PROVE  SoOEnviado
  <2>1. servindo' = servindo /\ rede' = rede
    BY <1>0, <1>5, ServirMuda
  <2> QED BY <1>1, <2>1
<1>6. ASSUME NEW t \in Tratadores, Responder(t)
      PROVE  SoOEnviado
  <2>1. servindo' = [servindo EXCEPT ![t] = SemPedido] /\ rede' = rede
    BY <1>0, <1>6, ResponderMuda
  <2> QED BY <1>0, <2>1 DEF SoOEnviado, Soltos
<1>7. CASE Queda
  <2>1. servindo' = [t \in Tratadores |-> SemPedido] /\ rede' = rede
    BY <1>0, <1>7, QuedaMuda
  <2> QED BY <1>0, <2>1 DEF SoOEnviado, Soltos
<1> QED BY <1>2, <1>3, <1>4, <1>5, <1>6, <1>7, Zenon
        DEF Next, DaOrigem, DoGateway, Chegar, Extraviar

-----------------------------------------------------------------------------
(* What became of every envelope.                                          *)

LEMMA EntregueMantido ==
  ASSUME Base, EntregueEstaNoDiario, [Next]_vars
  PROVE  EntregueEstaNoDiario'
<1>1. diario \subseteq diario'
  BY DiarioCresce
<1>2. CASE Amostrar \/ Enviar \/ Religar
  <2>1. entregues' = entregues
    BY <1>2 DEF Amostrar, Enviar, Religar, historia
  <2> QED BY <1>1, <2>1 DEF EntregueEstaNoDiario
<1>3. CASE ~Amostrar /\ ~Enviar /\ ~Religar
  BY <1>1, <1>3, NoEncolhe DEF Encolhe, EntregueEstaNoDiario
<1> QED BY <1>2, <1>3

\* Where a number may be.
Explicada(k) ==
  \/ k \in diario \cup perdidos \cup apagados
  \/ \E e \in Tidos : k = [sessao |-> sessao, seq |-> e.seq]
  \/ \E x \in recusados : k = [sessao |-> x.sessao, seq |-> x.envelope.seq]

\* BuracoTemExplicacao, number by number.
TudoExplicado == \A k \in Emitidas : Explicada(k)

LEMMA BuracoE == BuracoTemExplicacao <=> TudoExplicado
<1>1. \A k : k \in Retidas <=> \E e \in Tidos : k = [sessao |-> sessao, seq |-> e.seq]
  BY Zenon DEF Retidas, Chaves, Tidos
<1>2. \A k, x : k \in Chaves(x.sessao, {x.envelope})
                <=> k = [sessao |-> x.sessao, seq |-> x.envelope.seq]
  BY Zenon DEF Chaves
<1>3. \A k : k \in UNION {Chaves(x.sessao, {x.envelope}) : x \in recusados}
             <=> \E x \in recusados : k \in Chaves(x.sessao, {x.envelope})
  BY Zenon
<1>4. \A k : k \in UNION {Chaves(x.sessao, {x.envelope}) : x \in recusados}
             <=> \E x \in recusados : k = [sessao |-> x.sessao, seq |-> x.envelope.seq]
  BY <1>2, <1>3
<1> QED BY <1>1, <1>4, Zenon DEF BuracoTemExplicacao, TudoExplicado, Explicada

\* An envelope that leaves the node for a place leaves its number explained.
LEMMA ExplicadaFica ==
  ASSUME diario \subseteq diario', perdidos \subseteq perdidos', apagados \subseteq apagados',
         recusados \subseteq recusados',
         \A e \in Tidos : (e \in Tidos' /\ sessao' = sessao) \/ Assentado(e),
         NEW k, Explicada(k)
  PROVE  Explicada(k)'
<1>1. CASE k \in diario \cup perdidos \cup apagados
  BY <1>1 DEF Explicada
<1>2. CASE \E x \in recusados : k = [sessao |-> x.sessao, seq |-> x.envelope.seq]
  BY <1>2 DEF Explicada
<1>3. ASSUME NEW e \in Tidos, k = [sessao |-> sessao, seq |-> e.seq]
      PROVE  Explicada(k)'
  <2>1. CASE e \in Tidos' /\ sessao' = sessao
    BY <1>3, <2>1 DEF Explicada
  <2>2. CASE [sessao |-> sessao, seq |-> e.seq] \in diario' \cup perdidos' \cup apagados'
    BY <1>3, <2>2 DEF Explicada
  <2>3. CASE [sessao |-> sessao, envelope |-> e] \in recusados'
    BY <1>3, <2>3 DEF Explicada
  <2> QED BY <2>1, <2>2, <2>3 DEF Assentado
<1> QED BY <1>1, <1>2, <1>3 DEF Explicada

LEMMA BuracoMantido ==
  ASSUME Base, TudoExplicado, [Next]_vars
  PROVE  TudoExplicado'
<1>0. NoCerto /\ TiposDoNo /\ diario \subseteq diario'
  BY DiarioCresce DEF Base, NoCerto
<1>1. \A k \in Emitidas : Explicada(k)
  BY DEF TudoExplicado
<1>2. CASE Amostrar
  <2>1. PICK c \in Conteudos :
          LET n == emitidos[sessao] + 1 IN
          /\ n \in 1 .. MaxSequencia /\ Envelope(n, c).seq = n
          /\ emitidos' = [emitidos EXCEPT ![sessao] = n]
          /\ Envelope(n, c) \in Tidos'
          /\ Tidos' \subseteq Tidos \cup {Envelope(n, c)}
          /\ \A e \in Tidos \ Tidos' : [sessao |-> sessao, seq |-> e.seq] \in perdidos'
          /\ perdidos \subseteq perdidos'
          /\ UNCHANGED <<sessao, recusados, apagados>>
    BY <1>0, <1>2, AmostrarE
  <2> DEFINE n == emitidos[sessao] + 1
  <2>2. \A k \in Emitidas' : k \in Emitidas \/ k = [sessao |-> sessao, seq |-> n]
    <3> SUFFICES ASSUME NEW k \in Emitidas'
                 PROVE  k \in Emitidas \/ k = [sessao |-> sessao, seq |-> n]
      OBVIOUS
    <3>1. k \in ChavesPossiveis /\ k.seq <= emitidos'[k.sessao]
      BY DEF Emitidas
    <3>2. k.sessao \in Sessoes /\ k.seq \in Nat /\ k = [sessao |-> k.sessao, seq |-> k.seq]
      BY <3>1, LimitesDaEntrega DEF ChavesPossiveis
    <3>3. CASE k.sessao # sessao
      BY <2>1, <3>1, <3>2, <3>3 DEF NoCerto, TiposDoNo, Emitidas
    <3>4. CASE k.sessao = sessao
      <4>1. emitidos'[sessao] = n /\ emitidos[sessao] \in Nat
        BY <1>0, <2>1, LimitesDaEntrega DEF TiposDoNo
      <4>2. k.seq = n \/ k.seq <= emitidos[sessao]
        BY <3>1, <3>2, <3>4, <4>1
      <4> QED BY <3>1, <3>2, <3>4, <4>2 DEF Emitidas
    <3> QED BY <3>3, <3>4
  <2>3. \A e \in Tidos : (e \in Tidos' /\ sessao' = sessao) \/ Assentado(e)
    BY <2>1 DEF Assentado
  <2>4. \A k : Explicada(k) => Explicada(k)'
    BY <1>0, <2>1, <2>3, ExplicadaFica
  <2>5. \A k : k = [sessao |-> sessao, seq |-> n] => Explicada(k)'
    BY <2>1 DEF Explicada
  <2> HIDE DEF n
  <2>6. \A k \in Emitidas' : Explicada(k)'
    BY <1>1, <2>2, <2>4, <2>5
  <2> QED BY <2>6 DEF TudoExplicado
<1>3. ASSUME perdidos \subseteq perdidos', apagados \subseteq apagados',
             recusados \subseteq recusados', emitidos' = emitidos,
             \A e \in Tidos : (e \in Tidos' /\ sessao' = sessao) \/ Assentado(e)
      PROVE  TudoExplicado'
  <2>1. \A k : Explicada(k) => Explicada(k)'
    BY <1>0, <1>3, ExplicadaFica
  <2>2. Emitidas' = Emitidas
    BY <1>3 DEF Emitidas
  <2>3. \A k \in Emitidas' : Explicada(k)'
    BY <1>1, <2>1, <2>2
  <2> QED BY <2>3 DEF TudoExplicado
<1>4. CASE Enviar
  <2>1. Tidos' = Tidos
    BY <1>0, <1>4, NoEnviar
  <2>2. UNCHANGED <<sessao, emitidos, perdidos, apagados, recusados>>
    BY <1>4 DEF Enviar, historia
  <2> QED BY <1>3, <2>1, <2>2
<1>5. CASE Religar
  <2>1. UNCHANGED <<emitidos, perdidos, recusados>> /\ apagados' = apagados \cup Retidas
    BY <1>5 DEF Religar
  <2>2. \A e \in Tidos : [sessao |-> sessao, seq |-> e.seq] \in Retidas
    BY Zenon DEF Retidas, Chaves, Tidos
  <2>3. \A e \in Tidos : Assentado(e)
    BY <2>1, <2>2 DEF Assentado
  <2> QED BY <1>3, <2>1, <2>3
<1>6. CASE ~Amostrar /\ ~Enviar /\ ~Religar
  <2>1. Encolhe
    BY <1>6, NoEncolhe
  <2>2. \A e \in Tidos : (e \in Tidos' /\ sessao' = sessao) \/ Assentado(e)
    BY <2>1 DEF Encolhe
  <2> QED BY <1>3, <2>1, <2>2 DEF Encolhe
<1> QED BY <1>2, <1>4, <1>5, <1>6

-----------------------------------------------------------------------------
(* What is on its way, and what the node holds.                            *)

\* A request of this session takes along everything held up to its last number:
\* batches take the oldest, and what is new is newer than all of them.
FilaPrimeiro ==
  \A p \in Soltos :
    /\ p.sessao <= sessao
    /\ p.sessao = sessao =>
         \A x \in p.envelopes :
           /\ x.seq <= emitidos[sessao]
           /\ \A e \in Tidos : e.seq <= x.seq => e \in p.envelopes

LEMMA SoltosTipo ==
  ASSUME TiposDoNo, NEW p \in Soltos
  PROVE  /\ p \in PedidoFeito \/ p = SemPedido
         /\ p.envelopes \in SUBSET EnvelopesPossiveis
         /\ p.sessao \in Nat
<1>1. p \in PedidoFeito \/ p = SemPedido
  BY DEF TiposDoNo, Soltos
<1>2. CASE p = SemPedido
  BY <1>2 DEF SemPedido
<1>3. CASE p \in PedidoFeito
  BY <1>3, LimitesDaEntrega DEF PedidoFeito, Sessoes
<1> QED BY <1>1, <1>2, <1>3

LEMMA FilaMantida ==
  ASSUME Base, FilaPrimeiro, [Next]_vars
  PROVE  FilaPrimeiro'
<1>0. NoCerto /\ TiposDoNo /\ BufferCerto /\ sessao \in Nat
  BY LimitesDaEntrega DEF Base, NoCerto, TiposDoNo, Sessoes
<1>1. \A p \in Soltos' : p \in Soltos \/ p = SemPedido \/ (Enviar /\ p = espera')
  BY SoltosMuda DEF SoOEnviado
<1>2. SemPedido.sessao = 0 /\ SemPedido.envelopes = {}
  BY DEF SemPedido
<1>3. CASE Amostrar
  <2>1. PICK c \in Conteudos :
          LET n == emitidos[sessao] + 1 IN
          /\ n \in 1 .. MaxSequencia /\ Envelope(n, c).seq = n
          /\ emitidos' = [emitidos EXCEPT ![sessao] = n]
          /\ Tidos' \subseteq Tidos \cup {Envelope(n, c)}
          /\ UNCHANGED <<servindo, rede, sessao>>
    BY <1>0, <1>3, AmostrarE
  <2>2. emitidos'[sessao] = emitidos[sessao] + 1 /\ emitidos[sessao] \in Nat
    BY <1>0, <2>1, LimitesDaEntrega DEF TiposDoNo
  <2>3. Soltos' = Soltos
    BY <2>1 DEF Soltos
  <2> SUFFICES ASSUME NEW p \in Soltos, p.sessao = sessao, NEW x \in p.envelopes
               PROVE  /\ x.seq <= emitidos'[sessao]
                      /\ \A e \in Tidos' : e.seq <= x.seq => e \in p.envelopes
    BY <2>1, <2>3 DEF FilaPrimeiro
  <2>4. x.seq \in Nat /\ x.seq <= emitidos[sessao]
    BY <1>0, SoltosTipo, NumeroE DEF FilaPrimeiro
  <2>5. Envelope(emitidos[sessao] + 1, c).seq = emitidos[sessao] + 1
    BY <2>1
  <2>6. ASSUME NEW e \in Tidos', e.seq <= x.seq
        PROVE  e \in p.envelopes
    <3>1. e \in Tidos
      BY <2>1, <2>2, <2>4, <2>5, <2>6
    <3> QED BY <2>6, <3>1 DEF FilaPrimeiro
  <2> QED BY <2>2, <2>4, <2>6
<1>4. CASE Enviar
  <2>1. /\ Tidos' = Tidos /\ espera'.sessao = sessao
        /\ espera'.envelopes = Lote(guardados)
        /\ UNCHANGED <<sessao, emitidos>>
    BY <1>0, <1>4, NoEnviar DEF Enviar
  <2>2. espera = SemPedido /\ Tidos = guardados
    BY <1>2, <1>4 DEF Enviar, Tidos
  <2>3. /\ Lote(guardados) \subseteq guardados
        /\ \A x \in Lote(guardados), y \in guardados : y.seq <= x.seq => y \in Lote(guardados)
    <3>1. guardados \in SUBSET EnvelopesPossiveis /\ IsFiniteSet(guardados) /\ NumeroUnico(guardados)
      BY <1>0, <2>2 DEF TiposDoNo, BufferCerto
    <3> QED BY <3>1, LoteE
  <2>4. \A e \in guardados : e.seq <= emitidos[sessao]
    BY <1>0, <2>2 DEF BufferCerto
  <2> SUFFICES ASSUME NEW p \in Soltos'
               PROVE  /\ p.sessao <= sessao
                      /\ p.sessao = sessao =>
                           \A x \in p.envelopes :
                             /\ x.seq <= emitidos[sessao]
                             /\ \A e \in guardados : e.seq <= x.seq => e \in p.envelopes
    BY <2>1, <2>2 DEF FilaPrimeiro
  <2>5. CASE p \in Soltos
    BY <2>2, <2>5 DEF FilaPrimeiro
  <2>6. CASE p = SemPedido
    BY <1>0, <1>2, <2>6
  <2>7. CASE p = espera'
    BY <1>0, <2>1, <2>3, <2>4, <2>7
  <2> QED BY <1>1, <2>5, <2>6, <2>7
<1>5. CASE Religar
  <2>1. Tidos' = {} /\ sessao' = sessao + 1
    BY <1>0, <1>5, NoReligar DEF Religar
  <2>2. Soltos' = Soltos
    BY <1>5 DEF Religar, Soltos
  <2>3. \A p \in Soltos : p.sessao <= sessao /\ p.sessao \in Nat
    BY <1>0, SoltosTipo DEF FilaPrimeiro
  <2>4. \A p \in Soltos : p.sessao <= sessao' /\ p.sessao # sessao'
    BY <1>0, <2>1, <2>3
  <2> QED BY <2>2, <2>4 DEF FilaPrimeiro
<1>6. CASE ~Amostrar /\ ~Enviar /\ ~Religar
  <2>1. Tidos' \subseteq Tidos /\ UNCHANGED <<sessao, emitidos>>
    BY <1>6, NoEncolhe DEF Encolhe
  <2> SUFFICES ASSUME NEW p \in Soltos'
               PROVE  /\ p.sessao <= sessao
                      /\ p.sessao = sessao =>
                           \A x \in p.envelopes :
                             /\ x.seq <= emitidos[sessao]
                             /\ \A e \in Tidos : e.seq <= x.seq => e \in p.envelopes
    BY <2>1 DEF FilaPrimeiro
  <2>2. CASE p \in Soltos
    BY <2>2 DEF FilaPrimeiro
  <2>3. CASE p = SemPedido
    BY <1>0, <1>2, <2>3
  <2> QED BY <1>1, <1>6, <2>2, <2>3
<1> QED BY <1>3, <1>4, <1>5, <1>6

-----------------------------------------------------------------------------
(* duravel_ate.                                                            *)

LEMMA MaiorExiste ==
  ASSUME NEW S \in SUBSET (1 .. MaxSequencia), S # {}
  PROVE  \E n \in S : \A m \in S : m <= n
<1> DEFINE D == {MaxSequencia - n : n \in S}
<1>1. \A n \in S : n \in Nat /\ MaxSequencia - n \in Nat
  BY LimitesDaEntrega
<1>2. D \in SUBSET Nat /\ D # {}
  BY <1>1, Zenon
<1>3. PICK d \in D : \A m \in D : d <= m
  BY <1>2, MenorExiste
<1>4. PICK n \in S : MaxSequencia - n = d
  BY <1>3
<1>5. \A m \in S : d <= MaxSequencia - m
  BY <1>3
<1>6. \A m \in S : m <= n
  BY <1>1, <1>4, <1>5, LimitesDaEntrega
<1> QED BY <1>6

\* What a source may free on the strength of an answer is in the journal.
LEMMA DuravelAteE ==
  ASSUME Base, FilaPrimeiro, NEW t \in Tratadores, NEW e \in Tidos,
         tratador[t].fase = "responder", tratador[t].categoria = "nenhuma",
         tratador[t].remessa.sessao = sessao,
         e.seq <= DuravelAte(tratador[t].remessa),
         e.seq \notin tratador[t].remessa.rejeitados
  PROVE  [sessao |-> sessao, seq |-> e.seq] \in diario
<1> DEFINE p == servindo[t]
           r == tratador[t].remessa
<1>1. p \in PedidoFeito /\ r = Conteudo(p) /\ p \in Soltos
  BY DEF Base, ServeOPedido, Soltos
<1>2. /\ r \in RemessasDaOrigem /\ r.sessao = p.sessao
      /\ r.aceitos \cup r.rejeitados = Numeros(p.envelopes)
  BY <1>1, DecodificadaE
<1>3. e.seq \in Nat /\ 0 < e.seq
  BY TidosTipo, NumeroE, LimitesDaEntrega DEF Base, NoCerto
<1>4. GT!Chaves(r) \subseteq diario
  BY DEF Base, GT!Inv, GT!ConfirmaOGravado, GT!EmFase, GT!Confirma
<1>5. r.aceitos \in SUBSET (1 .. MaxSequencia)
  BY <1>2 DEF RemessasDaOrigem
<1> HIDE DEF p, r
<1>6. r.aceitos # {}
  BY <1>3 DEF DuravelAte, r
<1>7. DuravelAte(r) \in r.aceitos
  <2>1. \E n \in r.aceitos : \A m \in r.aceitos : m <= n
    BY <1>5, <1>6, MaiorExiste
  <2> QED BY <1>6, <2>1 DEF DuravelAte
<1>8. PICK x \in p.envelopes : x.seq = DuravelAte(r)
  BY <1>2, <1>7 DEF Numeros
<1>9. e \in p.envelopes
  BY <1>1, <1>2, <1>8 DEF FilaPrimeiro, r
<1>10. e.seq \in r.aceitos
  BY <1>2, <1>9 DEF Numeros, r
<1>11. [sessao |-> sessao, seq |-> e.seq] \in GT!Chaves(r)
  BY <1>10, Zenon DEF GT!Chaves, r
<1> QED BY <1>4, <1>11

-----------------------------------------------------------------------------
(* Who writes.                                                             *)

\* Only a request under the certificate of the device it claims gets as far as
\* the journal.
DonoCerto ==
  \A t \in Tratadores :
    tratador[t].fase \notin {"livre", "responder"} => servindo[t].credencial = Dispositivo

LEMMA DonoPassa ==
  ASSUME ExigirIdentidade, NEW r, NEW c, Veredito(r, c) = "nenhuma"
  PROVE  c = r.dispositivo
BY DEF Veredito, ConferirIdentidade

LEMMA DonoMantido ==
  ASSUME ExigirIdentidade, Base, DonoCerto, [Next]_vars
  PROVE  DonoCerto'
<1>0. GT!Inv /\ TiposDoNo /\ servindo \in [Tratadores -> PedidoFeito \cup {SemPedido}]
  BY DEF Base, NoCerto, TiposDoNo
<1>1. CASE DaOrigem \/ (\E p \in rede : Sumir(p)) \/ UNCHANGED vars
  <2>1. UNCHANGED <<tratador, servindo>>
    BY <1>1, Zenon
       DEF DaOrigem, Amostrar, Enviar, Desistir, Religar, CorrigirCredencial, Sumir, vars, oGateway
  <2> QED BY <2>1 DEF DonoCerto
<1>2. ASSUME NEW t \in Tratadores, NEW p \in rede, Atender(t, p)
      PROVE  DonoCerto'
  <2>1. servindo'[t] = p /\ \A u \in Tratadores : u # t => servindo'[u] = servindo[u]
    BY <1>0, <1>2, AtenderMuda
  <2>2. /\ \A u \in Tratadores : u # t => tratador'[u] = tratador[u]
        /\ tratador'[t].fase # "responder" =>
             \E b : Veredito(Remessa(p, b), p.credencial) = "nenhuma"
    BY <1>0, <1>2, AtenderNoTratador
  <2>3. \A b : Remessa(p, b).dispositivo = Dispositivo
    BY DEF Remessa
  <2>4. tratador'[t].fase # "responder" => p.credencial = Dispositivo
    BY <2>2, <2>3, DonoPassa
  <2> QED BY <2>1, <2>2, <2>4 DEF DonoCerto
<1>3. ASSUME NEW t \in Tratadores, Servir(t) \/ FalharNoDiario(t)
      PROVE  DonoCerto'
  BY <1>0, <1>3, ServirMuda DEF DonoCerto, Trabalha
<1>4. ASSUME NEW t \in Tratadores, Responder(t)
      PROVE  DonoCerto'
  BY <1>0, <1>4, ResponderMuda DEF DonoCerto
<1>5. CASE Queda
  BY <1>0, <1>5, QuedaMuda DEF DonoCerto
<1> QED BY <1>1, <1>2, <1>3, <1>4, <1>5, Zenon DEF Next, DoGateway, Chegar, Extraviar

LEMMA SoODonoE ==
  ASSUME Base, DonoCerto, [Next]_vars, NEW linha \in diario' \ diario
  PROVE  \E t \in Tratadores :
           /\ servindo[t].credencial = Dispositivo
           /\ linha \in Chaves(servindo[t].sessao, servindo[t].envelopes)
<1>0. GT!Inv /\ TiposDoNo
  BY DEF Base, NoCerto
<1>1. CASE DaOrigem \/ (\E p \in rede : Sumir(p)) \/ UNCHANGED vars
  <2>1. diario' = diario
    BY <1>1, Zenon
       DEF DaOrigem, Amostrar, Enviar, Desistir, Religar, CorrigirCredencial, Sumir, vars, oGateway
  <2> QED BY <2>1
<1>2. ASSUME NEW t \in Tratadores, NEW p \in rede, Atender(t, p)
      PROVE  diario' = diario
  BY <1>0, <1>2, AtenderNoTratador
<1>3. ASSUME NEW t \in Tratadores, Servir(t) \/ FalharNoDiario(t)
      PROVE  /\ servindo[t].credencial = Dispositivo
             /\ linha \in Chaves(servindo[t].sessao, servindo[t].envelopes)
  <2>1. tratador[t].fase = "transacao" /\ linha \in GT!Chaves(tratador[t].remessa)
    BY <1>0, <1>3, ServirMuda DEF Escreve
  <2>2. servindo[t] \in PedidoFeito /\ tratador[t].remessa = Conteudo(servindo[t])
    BY <2>1 DEF Base, ServeOPedido
  <2>3. PICK n \in Conteudo(servindo[t]).aceitos :
          linha = [sessao |-> Conteudo(servindo[t]).sessao, seq |-> n]
    BY <2>1, <2>2, Zenon DEF GT!Chaves
  <2>4. /\ Conteudo(servindo[t]).sessao = servindo[t].sessao
        /\ n \in Numeros(servindo[t].envelopes)
    BY <2>2, <2>3, DecodificadaE
  <2>5. linha \in Chaves(servindo[t].sessao, servindo[t].envelopes)
    BY <2>3, <2>4, Zenon DEF Numeros, Chaves
  <2> QED BY <2>1, <2>5 DEF DonoCerto
<1>4. ASSUME NEW t \in Tratadores, Responder(t)
      PROVE  diario' = diario
  BY <1>0, <1>4, ResponderMuda
<1>5. Queda => diario' = diario
  BY <1>0, QuedaMuda
<1> QED BY <1>1, <1>2, <1>3, <1>4, <1>5, Zenon DEF Next, DoGateway, Chegar, Extraviar

-----------------------------------------------------------------------------
(* What is refused.                                                        *)

\* Every identifier is one the gateway accepts, and no uptime is beyond belief.
TudoLegivel ==
  /\ Credenciais \cup {Dispositivo} \cup Sessoes \subseteq Identificadores
  /\ Ausente \notin Identificadores
  /\ MaxSequencia <= LigadoMaximo

\* A batch is neither empty nor too large.
PedidoCheio ==
  espera # SemPedido => Cardinality(espera.envelopes) \in 1 .. EnvelopesMaximos

\* The request the node waits for is not refused whole for what it says.
EsperaLegivel ==
  \A t \in Tratadores :
    servindo[t] = espera /\ tratador[t].fase # "livre" =>
      tratador[t].categoria \notin {"entrada_invalida", "nao_autenticado"}

RecusaJusta == PedidoCheio /\ EsperaLegivel /\ RecusadoSoInvalido

LEMMA CheioMantido ==
  ASSUME Base, PedidoCheio, [Next]_vars
  PROVE  PedidoCheio'
<1>1. CASE Enviar
  <2>1. espera'.envelopes = Lote(guardados)
    BY <1>1, NoEnviar DEF Base
  <2>2. /\ guardados \in SUBSET EnvelopesPossiveis /\ IsFiniteSet(guardados)
        /\ NumeroUnico(guardados) /\ guardados # {}
    BY <1>1 DEF Base, NoCerto, TiposDoNo, BufferCerto, NumeroUnico, Tidos, Enviar
  <2>3. /\ Lote(guardados) # {} /\ IsFiniteSet(Lote(guardados))
        /\ Cardinality(Lote(guardados)) <= EnvelopesPorRemessa
    BY <2>2, LoteE
  <2>4. Cardinality(Lote(guardados)) \in Nat /\ Cardinality(Lote(guardados)) # 0
    BY <2>3, FS_CardinalityType, FS_EmptySet
  <2>5. Cardinality(Lote(guardados)) \in 1 .. EnvelopesMaximos
    BY <2>3, <2>4, LoteCabe, LimitesDoContrato
  <2> QED BY <2>1, <2>5 DEF PedidoCheio
<1>2. CASE Amostrar \/ Religar
  BY <1>2 DEF Amostrar, Religar, PedidoCheio
<1>3. CASE ~Amostrar /\ ~Enviar /\ ~Religar
  BY <1>3, NoEncolhe DEF Encolhe, PedidoCheio
<1> QED BY <1>1, <1>2, <1>3

\* The gateway refuses such a request whole for its certificate only.
LEMMA VereditoDaEspera ==
  ASSUME TudoLegivel, Base, PedidoCheio, espera # SemPedido
  PROVE  Veredito(Remessa(espera, "integro"), espera.credencial) \in {"nenhuma", "permissao_negada"}
<1>1. espera \in PedidoFeito
  BY DEF Base, NoCerto, TiposDoNo
<1>2. RemessaLegivel(Remessa(espera, "integro"))
  BY DEF RemessaLegivel, Remessa, PedidoCheio
<1>3. espera.credencial \in Identificadores /\ espera.credencial # Ausente /\ Dispositivo # Ausente
  BY <1>1 DEF PedidoFeito, TudoLegivel
<1>4. IdentidadeAutenticada(espera.credencial) = "nenhuma"
  BY <1>3 DEF IdentidadeAutenticada, Identificavel
<1>5. ConferirIdentidade(espera.credencial, Remessa(espera, "integro").dispositivo)
        \in {"nenhuma", "permissao_negada"}
  BY <1>3 DEF ConferirIdentidade, Remessa
<1> QED BY <1>2, <1>4, <1>5 DEF Veredito

LEMMA EsperaMantida ==
  ASSUME TudoLegivel, Base, PedidoCheio, EsperaLegivel, [Next]_vars
  PROVE  EsperaLegivel'
<1>0. GT!Inv /\ TiposDoNo /\ servindo \in [Tratadores -> PedidoFeito \cup {SemPedido}]
  BY DEF Base, NoCerto, TiposDoNo
<1>1. CASE Enviar
  <2>1. UNCHANGED <<tratador, servindo>>
    BY <1>1 DEF Enviar, oGateway
  <2>2. PICK id \in (1 .. MaxPedidos) \ Vivos : espera'.id = id
    BY <1>1 DEF Enviar
  <2>3. \A t \in Tratadores : servindo[t].id \in Vivos
    BY Zenon DEF Vivos
  <2>4. \A t \in Tratadores : servindo'[t] # espera'
    BY <2>1, <2>2, <2>3
  <2> QED BY <2>4 DEF EsperaLegivel
<1>2. ASSUME espera' \in {espera, SemPedido}, Base',
             \A t \in Tratadores :
               servindo'[t] = espera /\ tratador'[t].fase # "livre" =>
                 tratador'[t].categoria \notin {"entrada_invalida", "nao_autenticado"}
      PROVE  EsperaLegivel'
  <2>1. \A t \in Tratadores : servindo'[t] = SemPedido => tratador'[t].fase = "livre"
    <3>1. SemPedido \notin PedidoFeito
      BY DEF SemPedido, PedidoFeito
    <3> QED BY <1>2, <3>1 DEF Base, ServeOPedido
  <2> QED BY <1>2, <2>1 DEF EsperaLegivel
<1>3. Base'
  BY BaseMantida
<1>4. ASSUME ~Enviar PROVE espera' \in {espera, SemPedido}
  <2>1. CASE Amostrar \/ Religar
    BY <2>1 DEF Amostrar, Religar
  <2>2. CASE ~Amostrar /\ ~Religar
    BY <1>4, <2>2, NoEncolhe DEF Encolhe
  <2> QED BY <2>1, <2>2
<1>5. CASE Amostrar \/ Desistir \/ Religar \/ CorrigirCredencial
           \/ (\E p \in rede : Sumir(p)) \/ UNCHANGED vars
  <2>1. UNCHANGED <<tratador, servindo>> /\ espera' \in {espera, SemPedido}
    BY <1>5 DEF Amostrar, Desistir, Devolver, Religar, CorrigirCredencial, Sumir, vars,
                oGateway, oNo
  <2> QED BY <1>2, <1>3, <2>1 DEF EsperaLegivel
<1>6. ASSUME NEW t \in Tratadores, NEW p \in rede, Atender(t, p)
      PROVE  EsperaLegivel'
  <2>1. /\ p \in PedidoFeito /\ servindo'[t] = p
        /\ \A u \in Tratadores : u # t => servindo'[u] = servindo[u]
        /\ espera' = espera
    BY <1>0, <1>6, AtenderMuda DEF oNo
  <2>2. /\ \A u \in Tratadores : u # t => tratador'[u] = tratador[u]
        /\ tratador'[t].categoria # "nenhuma" =>
             \E b \in {"integro"} \cup (IF p = espera THEN {} ELSE {"cortado"}) :
               tratador'[t].categoria = Veredito(Remessa(p, b), p.credencial)
    BY <1>0, <1>6, AtenderNoTratador
  <2>3. SemPedido \notin PedidoFeito
    BY DEF SemPedido, PedidoFeito
  <2>4. p = espera => tratador'[t].categoria \in {"nenhuma", "permissao_negada"}
    BY <2>1, <2>2, <2>3, VereditoDaEspera
  <2> QED BY <1>2, <1>3, <2>1, <2>2, <2>4 DEF EsperaLegivel
<1>7. ASSUME NEW t \in Tratadores, Servir(t) \/ FalharNoDiario(t)
      PROVE  EsperaLegivel'
  <2>1. Trabalha(t) /\ servindo' = servindo /\ espera' = espera
    BY <1>0, <1>7, ServirMuda DEF oNo
  <2> QED BY <1>2, <1>3, <2>1 DEF EsperaLegivel, Trabalha
<1>8. ASSUME NEW t \in Tratadores, Chegar(t) \/ Extraviar(t)
      PROVE  EsperaLegivel'
  <2>1. /\ tratador'[t].fase = "livre"
        /\ \A u \in Tratadores : u # t => tratador'[u] = tratador[u]
        /\ servindo' = [servindo EXCEPT ![t] = SemPedido]
    BY <1>0, <1>8, ResponderMuda, Zenon DEF Chegar, Extraviar
  <2>2. ~Enviar \/ EsperaLegivel'
    BY <1>1
  <2> QED BY <1>0, <1>2, <1>3, <1>4, <2>1, <2>2 DEF EsperaLegivel
<1>9. CASE Queda
  BY <1>0, <1>2, <1>3, <1>9, QuedaMuda DEF EsperaLegivel, oNo
<1> QED BY <1>1, <1>5, <1>6, <1>7, <1>8, <1>9, Zenon DEF Next, DaOrigem, DoGateway

\* In a batch that is read, the content decides.
LEMMA AceitoE ==
  ASSUME TudoLegivel, NEW p \in PedidoFeito, NEW e \in p.envelopes
  PROVE  e \in Aceitos(Remessa(p, "integro")) <=> ConteudoAceito(e.conteudo)
<1> DEFINE r == Remessa(p, "integro")
<1>1. /\ r.versao = 1 /\ r.dispositivo = Dispositivo /\ r.sessao = p.sessao
      /\ r.envelopes = p.envelopes
  BY DEF Remessa, VersaoDoEsquema
<1>2. VersaoLida(1) = VersaoDoEsquema
  BY DEF VersaoLida, VersaoDoEsquema
<1>3. Identificavel(Dispositivo) /\ Identificavel(p.sessao)
  BY DEF TudoLegivel, Identificavel, PedidoFeito
<1>4. e.ligado <= LigadoMaximo
  <2>1. e \in EnvelopesPossiveis
    BY DEF PedidoFeito
  <2>2. e.ligado \in 1 .. MaxSequencia
    BY <2>1 DEF EnvelopesPossiveis, Envelope
  <2> QED BY <2>2, LimitesDaEntrega, LimitesDoContrato DEF TudoLegivel
<1> HIDE DEF r
<1>5. e \in Aceitos(r) <=> ConteudoAceito(e.conteudo)
  BY <1>1, <1>2, <1>3, <1>4 DEF Aceitos, EnvelopeAceito
<1> QED BY <1>5 DEF r

LEMMA RejeitadoE ==
  ASSUME TudoLegivel, NEW p \in PedidoFeito, NumeroUnico(p.envelopes), NEW e \in p.envelopes
  PROVE  e.seq \in Conteudo(p).rejeitados <=> ~ConteudoAceito(e.conteudo)
<1>1. Conteudo(p).rejeitados = Numeros(p.envelopes \ Aceitos(Remessa(p, "integro")))
  BY DEF Conteudo, Decodificada, Remessa
<1>2. e.seq \in Conteudo(p).rejeitados <=> e \notin Aceitos(Remessa(p, "integro"))
  BY <1>1 DEF Numeros, NumeroUnico
<1> QED BY <1>2, AceitoE

LEMMA RecusadoMantido ==
  ASSUME TudoLegivel, Base, RecusaJusta, [Next]_vars
  PROVE  RecusadoSoInvalido'
<1>1. ASSUME recusados' = recusados PROVE RecusadoSoInvalido'
  BY <1>1 DEF RecusaJusta, RecusadoSoInvalido
<1>2. ASSUME NEW t \in Tratadores, Chegar(t)
      PROVE  RecusadoSoInvalido'
  <2>1. /\ espera \in PedidoFeito /\ tratador[t].fase = "responder" /\ servindo[t] = espera
    BY <1>2, ChegarE
  <2>2. tratador[t].categoria \notin {"entrada_invalida", "nao_autenticado"}
    BY <2>1 DEF RecusaJusta, EsperaLegivel
  <2>3. CASE Confirmada(Conteudo(espera).rejeitados)
    <3>1. NumeroUnico(espera.envelopes)
      BY DEF Base, NoCerto, BufferCerto, NumeroUnico, Tidos
    <3>2. \A e \in espera.envelopes :
            e.seq \in Conteudo(espera).rejeitados => ~ConteudoAceito(e.conteudo)
      BY <2>1, <3>1, RejeitadoE
    <3>3. \A x \in recusados' :
            x \in recusados \/ \E e \in espera.envelopes :
              e.seq \in Conteudo(espera).rejeitados /\ x.envelope = e
      BY <2>3 DEF Confirmada
    <3> QED BY <3>2, <3>3 DEF RecusaJusta, RecusadoSoInvalido
  <2>4. CASE Devolver
    BY <1>1, <2>4 DEF Devolver
  <2> QED BY <1>2, <2>2, <2>3, <2>4, TratarE
<1>3. CASE Amostrar \/ Enviar \/ Desistir \/ Religar \/ CorrigirCredencial
           \/ (\E p \in rede : Sumir(p)) \/ UNCHANGED vars
  <2>1. recusados' = recusados
    BY <1>3 DEF Amostrar, Enviar, Desistir, Devolver, Religar, CorrigirCredencial, Sumir, vars,
                historia
  <2> QED BY <1>1, <2>1
<1>4. ASSUME NEW t \in Tratadores,
             (\E p \in rede : Atender(t, p)) \/ Servir(t) \/ FalharNoDiario(t) \/ Extraviar(t)
      PROVE  RecusadoSoInvalido'
  <2>1. recusados' = recusados
    BY <1>4 DEF Atender, Servir, FalharNoDiario, Extraviar, historia
  <2> QED BY <1>1, <2>1
<1>5. CASE Queda
  BY <1>1, <1>5 DEF Queda, historia
<1> QED BY <1>2, <1>3, <1>4, <1>5, Zenon DEF Next, DaOrigem, DoGateway

-----------------------------------------------------------------------------
(* The anchor of a session and the rows it dates.                          *)

\* The gateway accepts it.
Bom(e) == ConteudoAceito(e.conteudo)

\* An envelope of a session that is held, on its way or refused.
Visto(s, e) ==
  \/ \E p \in Soltos : p.sessao = s /\ e \in p.envelopes
  \/ s = sessao /\ e \in Tidos
  \/ [sessao |-> s, envelope |-> e] \in recusados

\* A number means one envelope wherever it is, and was given before.
UmConteudo ==
  \A s, e : Visto(s, e) =>
    /\ s \in Sessoes /\ e \in EnvelopesPossiveis
    /\ e.seq <= emitidos[s]
    /\ \A f : Visto(s, f) /\ f.seq = e.seq => f = e

\* The memory that was lost is that of an earlier session.
ApagadosAntigos == \A k \in apagados : k.sessao < sessao

LEMMA ApagadosMantido ==
  ASSUME Base, ApagadosAntigos, [Next]_vars
  PROVE  ApagadosAntigos'
<1>0. TiposDoNo /\ NoCerto /\ sessao \in Nat
  BY LimitesDaEntrega DEF Base, NoCerto, TiposDoNo, Sessoes
<1>1. CASE Religar
  <2>1. sessao' = sessao + 1 /\ apagados' = apagados \cup Retidas
    BY <1>1 DEF Religar
  <2>2. \A k \in Retidas : k.sessao = sessao
    BY DEF Retidas, Chaves
  <2>3. \A k \in apagados : k.sessao \in Nat
    BY <1>0, LimitesDaEntrega DEF TiposDoNo, ChavesPossiveis, Sessoes
  <2> QED BY <1>0, <2>1, <2>2, <2>3 DEF ApagadosAntigos
<1>2. CASE Amostrar \/ Enviar
  BY <1>2 DEF Amostrar, Enviar, historia, ApagadosAntigos
<1>3. CASE ~Amostrar /\ ~Enviar /\ ~Religar
  BY <1>3, NoEncolhe DEF Encolhe, ApagadosAntigos
<1> QED BY <1>1, <1>2, <1>3

\* Only sampling makes an envelope.
LEMMA VistoMuda ==
  ASSUME Base, [Next]_vars, ~Amostrar, NEW s, NEW e, Visto(s, e)'
  PROVE  Visto(s, e)
<1>0. NoCerto /\ TiposDoNo /\ BufferCerto
  BY DEF Base, NoCerto
<1>1. \A p \in Soltos' : p \in Soltos \/ p = SemPedido \/ (Enviar /\ p = espera')
  BY SoltosMuda DEF SoOEnviado
<1>2. CASE Enviar
  <2>1. /\ Tidos' = Tidos /\ espera'.sessao = sessao /\ espera'.envelopes = Lote(guardados)
        /\ UNCHANGED <<sessao, recusados>>
    BY <1>0, <1>2, NoEnviar DEF Enviar, historia
  <2>2. Lote(guardados) \subseteq Tidos
    BY DEF Lote, Tidos
  <2> QED BY <1>1, <2>1, <2>2 DEF Visto, SemPedido
<1>3. CASE Religar
  <2>1. Tidos' = {} /\ recusados' = recusados
    BY <1>0, <1>3, NoReligar DEF Religar
  <2>2. Soltos' = Soltos
    BY <1>3 DEF Religar, Soltos
  <2> QED BY <2>1, <2>2 DEF Visto
<1>4. CASE ~Enviar /\ ~Religar
  <2>1. /\ Tidos' \subseteq Tidos /\ sessao' = sessao
        /\ \A x \in recusados' :
             x \in recusados \/ \E f \in Tidos : x = [sessao |-> sessao, envelope |-> f]
    BY <1>4, NoEncolhe DEF Encolhe
  <2>2. CASE \E p \in Soltos' : p.sessao = s /\ e \in p.envelopes
    BY <1>1, <1>4, <2>2 DEF Visto, SemPedido
  <2>3. CASE s = sessao' /\ e \in Tidos'
    BY <2>1, <2>3 DEF Visto
  <2>4. CASE [sessao |-> s, envelope |-> e] \in recusados'
    <3>1. CASE [sessao |-> s, envelope |-> e] \in recusados
      BY <3>1 DEF Visto
    <3>2. ASSUME NEW f \in Tidos, [sessao |-> s, envelope |-> e] = [sessao |-> sessao, envelope |-> f]
          PROVE  Visto(s, e)
      <4>1. s = sessao /\ e = f
        BY <3>2
      <4> QED BY <3>2, <4>1 DEF Visto
    <3> QED BY <2>1, <2>4, <3>1, <3>2
  <2> QED BY <2>2, <2>3, <2>4 DEF Visto
<1> QED BY <1>2, <1>3, <1>4

LEMMA VistoNovo ==
  ASSUME Base, Amostrar
  PROVE  \E novo \in EnvelopesPossiveis :
           /\ novo.seq = emitidos[sessao] + 1
           /\ emitidos' = [emitidos EXCEPT ![sessao] = novo.seq]
           /\ \A s, e : Visto(s, e)' => Visto(s, e) \/ (s = sessao /\ e = novo)
<1>1. PICK c \in Conteudos :
        LET n == emitidos[sessao] + 1 IN
        /\ Envelope(n, c).seq = n /\ Envelope(n, c) \in EnvelopesPossiveis
        /\ emitidos' = [emitidos EXCEPT ![sessao] = n]
        /\ Tidos' \subseteq Tidos \cup {Envelope(n, c)}
        /\ UNCHANGED <<servindo, rede, sessao, recusados>>
  BY AmostrarE DEF Base
<1> DEFINE novo == Envelope(emitidos[sessao] + 1, c)
<1>2. /\ novo \in EnvelopesPossiveis /\ novo.seq = emitidos[sessao] + 1
      /\ emitidos' = [emitidos EXCEPT ![sessao] = novo.seq]
      /\ Tidos' \subseteq Tidos \cup {novo}
  BY <1>1
<1>3. Soltos' = Soltos /\ UNCHANGED <<sessao, recusados>>
  BY <1>1 DEF Soltos
<1> HIDE DEF novo
<1>4. \A s, e : Visto(s, e)' => Visto(s, e) \/ (s = sessao /\ e = novo)
  BY <1>2, <1>3 DEF Visto
<1> QED BY <1>2, <1>4

LEMMA UmConteudoMantido ==
  ASSUME Base, UmConteudo, [Next]_vars
  PROVE  UmConteudo'
<1>0. /\ emitidos \in [Sessoes -> 0 .. MaxSequencia] /\ sessao \in Sessoes
      /\ \A s \in Sessoes : emitidos[s] \in Nat
  BY LimitesDaEntrega DEF Base, NoCerto, TiposDoNo
<1>1. CASE Amostrar
  <2>1. PICK novo \in EnvelopesPossiveis :
          /\ novo.seq = emitidos[sessao] + 1
          /\ emitidos' = [emitidos EXCEPT ![sessao] = novo.seq]
          /\ \A s, e : Visto(s, e)' => Visto(s, e) \/ (s = sessao /\ e = novo)
    BY <1>1, VistoNovo
  <2> SUFFICES ASSUME NEW s, NEW e, Visto(s, e)'
               PROVE  /\ s \in Sessoes /\ e \in EnvelopesPossiveis
                      /\ e.seq <= emitidos'[s]
                      /\ \A f : Visto(s, f)' /\ f.seq = e.seq => f = e
    BY DEF UmConteudo
  <2>2. s \in Sessoes /\ e \in EnvelopesPossiveis
    BY <1>0, <2>1 DEF UmConteudo
  <2>3. e.seq \in Nat /\ novo.seq \in Nat
    BY <2>1, <2>2, NumeroE
  <2>4. emitidos'[s] \in Nat /\ emitidos[s] <= emitidos'[s]
        /\ (s = sessao => emitidos'[s] = novo.seq)
    BY <1>0, <2>1, <2>2, <2>3
  <2>5. e.seq <= emitidos'[s]
    <3>1. CASE Visto(s, e)
      BY <1>0, <2>2, <2>3, <2>4, <3>1 DEF UmConteudo
    <3>2. CASE s = sessao /\ e = novo
      BY <2>3, <2>4, <3>2
    <3> QED BY <2>1, <3>1, <3>2
  <2>6. ASSUME NEW f, Visto(s, f)', f.seq = e.seq
        PROVE  f = e
    <3>1. \A g : Visto(s, g) => g.seq <= emitidos[s]
      BY DEF UmConteudo
    <3>2. CASE Visto(s, e) /\ Visto(s, f)
      BY <2>6, <3>2 DEF UmConteudo
    <3>3. CASE s = sessao /\ e = novo /\ f = novo
      BY <3>3
    <3>4. CASE s = sessao /\ (e = novo \/ f = novo) /\ (Visto(s, e) \/ Visto(s, f))
      BY <1>0, <2>1, <2>6, <3>1, <3>4
    <3> QED BY <2>1, <2>6, <3>2, <3>3, <3>4
  <2> QED BY <2>2, <2>5, <2>6
<1>2. CASE ~Amostrar
  <2>1. \A s, e : Visto(s, e)' => Visto(s, e)
    BY <1>2, VistoMuda
  <2>2. emitidos' = emitidos
    <3>1. CASE Enviar \/ Religar
      BY <3>1 DEF Enviar, Religar
    <3>2. CASE ~Enviar /\ ~Religar
      BY <1>2, <3>2, NoEncolhe DEF Encolhe
    <3> QED BY <3>1, <3>2
  <2> QED BY <2>1, <2>2 DEF UmConteudo
<1> QED BY <1>1, <1>2

\* Saturation took something of the session.
Faltou(s) == \E k \in perdidos : k.sessao = s

\* An anchor on its way to the journal is that of the first accepted number.
AncoraPropria ==
  \A t \in Tratadores :
    tratador[t].fase = "gravar_ancora" =>
      tratador[t].ancora.ligado = GT!Primeiro(tratador[t].remessa)

\* A request that would anchor its session too late finds it anchored.
PrimeirosJuntos ==
  \A p, q \in Soltos :
    \A f \in q.envelopes, x \in p.envelopes :
      /\ p.sessao = q.sessao /\ Bom(f) /\ Bom(x)
      /\ \A y \in p.envelopes : Bom(y) => f.seq < y.seq
      => q.sessao \in DOMAIN ancoras \/ Faltou(q.sessao)

\* Nothing that may become a row, and no row, is older than the anchor.
AncoraNoInicio ==
  \A s \in DOMAIN ancoras :
    \/ Faltou(s)
    \/ /\ ancoras[s].ligado <= emitidos[s]
       /\ \A e : Visto(s, e) /\ Bom(e) => ancoras[s].ligado <= e.seq
       /\ \A linha \in diario : linha.sessao = s => ancoras[s].ligado <= linha.seq

LEMMA FaltouFica ==
  ASSUME Base, [Next]_vars
  PROVE  perdidos \subseteq perdidos' /\ \A s : Faltou(s) => Faltou(s)'
<1>1. perdidos \subseteq perdidos'
  <2>1. CASE Amostrar
    BY <2>1, AmostrarE DEF Base
  <2>2. CASE Enviar \/ Religar
    BY <2>2 DEF Enviar, Religar, historia
  <2>3. CASE ~Amostrar /\ ~Enviar /\ ~Religar
    BY <2>3, NoEncolhe DEF Encolhe
  <2> QED BY <2>1, <2>2, <2>3
<1> QED BY <1>1 DEF Faltou

LEMMA AncoraPropriaMantida ==
  ASSUME Base, AncoraPropria, [Next]_vars
  PROVE  AncoraPropria'
<1>0. GT!Inv /\ TiposDoNo
  BY DEF Base, NoCerto
<1>1. CASE DaOrigem \/ (\E p \in rede : Sumir(p)) \/ UNCHANGED vars
  <2>1. tratador' = tratador
    BY <1>1, Zenon
       DEF DaOrigem, Amostrar, Enviar, Desistir, Religar, CorrigirCredencial, Sumir, vars, oGateway
  <2> QED BY <2>1 DEF AncoraPropria
<1>2. ASSUME NEW t \in Tratadores, NEW p \in rede, Atender(t, p)
      PROVE  AncoraPropria'
  BY <1>0, <1>2, AtenderNoTratador DEF AncoraPropria
<1>3. ASSUME NEW t \in Tratadores, Servir(t) \/ FalharNoDiario(t)
      PROVE  AncoraPropria'
  BY <1>0, <1>3, ServirMuda DEF AncoraPropria, Trabalha
<1>4. ASSUME NEW t \in Tratadores, Responder(t)
      PROVE  AncoraPropria'
  BY <1>0, <1>4, ResponderMuda DEF AncoraPropria
<1>5. CASE Queda
  BY <1>0, <1>5, QuedaMuda DEF AncoraPropria
<1> QED BY <1>1, <1>2, <1>3, <1>4, <1>5, Zenon DEF Next, DoGateway, Chegar, Extraviar

\* What a step does to the journal.
DiarioMuda ==
  \/ UNCHANGED <<diario, ancoras>>
  \/ \E t \in Tratadores : Escreve(t) /\ (Servir(t) \/ FalharNoDiario(t))

LEMMA DiarioMudaE ==
  ASSUME Base, [Next]_vars
  PROVE  DiarioMuda
<1>0. GT!Inv /\ TiposDoNo
  BY DEF Base, NoCerto
<1>1. CASE DaOrigem \/ (\E p \in rede : Sumir(p)) \/ UNCHANGED vars
  <2>1. UNCHANGED <<diario, ancoras>>
    BY <1>1, Zenon
       DEF DaOrigem, Amostrar, Enviar, Desistir, Religar, CorrigirCredencial, Sumir, vars, oGateway
  <2> QED BY <2>1 DEF DiarioMuda
<1>2. ASSUME NEW t \in Tratadores, NEW p \in rede, Atender(t, p)
      PROVE  DiarioMuda
  BY <1>0, <1>2, AtenderNoTratador DEF DiarioMuda
<1>3. ASSUME NEW t \in Tratadores, Servir(t) \/ FalharNoDiario(t)
      PROVE  DiarioMuda
  BY <1>0, <1>3, ServirMuda DEF DiarioMuda
<1>4. ASSUME NEW t \in Tratadores, Responder(t)
      PROVE  DiarioMuda
  BY <1>0, <1>4, ResponderMuda DEF DiarioMuda
<1>5. CASE Queda
  BY <1>0, <1>5, QuedaMuda DEF DiarioMuda
<1> QED BY <1>1, <1>2, <1>3, <1>4, <1>5, Zenon DEF Next, DoGateway, Chegar, Extraviar

LEMMA AncorasFicam ==
  ASSUME Base, [Next]_vars
  PROVE  /\ DOMAIN ancoras \subseteq DOMAIN ancoras'
         /\ \A s \in DOMAIN ancoras : ancoras'[s] = ancoras[s]
<1>1. DiarioMuda
  BY DiarioMudaE
<1> QED BY <1>1 DEF DiarioMuda, Escreve, GT!AncorasCom

\* What is known of the numbers before a batch is sent: a good envelope that is
\* on its way, older than one in the batch and not in it, is in the journal.
LEMMA AntesDoLote ==
  ASSUME TudoLegivel, Base, TudoExplicado, UmConteudo, ApagadosAntigos, RecusadoSoInvalido,
         espera = SemPedido,
         NEW q \in Soltos, q.sessao = sessao, NEW f \in q.envelopes, Bom(f),
         NEW x \in Lote(guardados), f.seq < x.seq, f \notin Lote(guardados)
  PROVE  sessao \in DOMAIN ancoras \/ Faltou(sessao)
<1>0. /\ TiposDoNo /\ sessao \in Sessoes /\ Tidos = guardados
      /\ guardados \in SUBSET EnvelopesPossiveis /\ IsFiniteSet(guardados)
      /\ NumeroUnico(guardados)
  BY DEF Base, NoCerto, TiposDoNo, BufferCerto, Tidos, SemPedido
<1>1. Visto(sessao, f)
  BY DEF Visto
<1>2. f \in EnvelopesPossiveis /\ f.seq <= emitidos[sessao]
      /\ \A g : Visto(sessao, g) /\ g.seq = f.seq => g = f
  BY <1>1 DEF UmConteudo
<1> DEFINE k == [sessao |-> sessao, seq |-> f.seq]
<1>3. k \in Emitidas
  BY <1>0, <1>2, NumeroE DEF Emitidas, ChavesPossiveis
<1>4. Explicada(k)
  BY <1>3 DEF TudoExplicado
<1>5. CASE k \in diario
  BY <1>5 DEF Base, GT!Inv, GT!DadoTemAncora
<1>6. CASE k \in perdidos
  BY <1>6 DEF Faltou
<1>7. k \notin apagados
  BY <1>0, LimitesDaEntrega DEF ApagadosAntigos, Sessoes
<1>8. ~(\E e \in Tidos : k = [sessao |-> sessao, seq |-> e.seq])
  <2> SUFFICES ASSUME NEW e \in Tidos, k = [sessao |-> sessao, seq |-> e.seq] PROVE FALSE
    OBVIOUS
  <2>1. e.seq = f.seq /\ Visto(sessao, e)
    BY DEF Visto
  <2>2. e = f
    BY <1>2, <2>1
  <2>3. f \in guardados /\ f.seq <= x.seq
    BY <1>0, <1>2, <2>2, NumeroE DEF Lote
  <2>4. f \in Lote(guardados)
    BY <1>0, <2>3, LoteE
  <2> QED BY <2>4
<1>9. ~(\E y \in recusados : k = [sessao |-> y.sessao, seq |-> y.envelope.seq])
  <2> SUFFICES ASSUME NEW y \in recusados, k = [sessao |-> y.sessao, seq |-> y.envelope.seq]
               PROVE  FALSE
    OBVIOUS
  <2>1. y \in [sessao : Sessoes, envelope : EnvelopesPossiveis]
    BY <1>0 DEF TiposDoNo
  <2>2. y.sessao = sessao /\ y.envelope.seq = f.seq
    OBVIOUS
  <2>3. y = [sessao |-> sessao, envelope |-> y.envelope]
    BY <2>1, <2>2
  <2>4. Visto(sessao, y.envelope)
    BY <2>3 DEF Visto
  <2>5. y.envelope = f
    BY <1>2, <2>2, <2>4
  <2> QED BY <2>5 DEF RecusadoSoInvalido, Bom
<1> HIDE DEF k
<1> QED BY <1>4, <1>5, <1>6, <1>7, <1>8, <1>9 DEF Explicada

LEMMA PrimeirosMantido ==
  ASSUME TudoLegivel, Base, TudoExplicado, FilaPrimeiro, UmConteudo, ApagadosAntigos,
         RecusadoSoInvalido, PrimeirosJuntos, [Next]_vars
  PROVE  PrimeirosJuntos'
<1>0. NoCerto /\ TiposDoNo /\ SemPedido.envelopes = {}
  BY DEF Base, NoCerto, SemPedido
<1>1. \A p \in Soltos' : p \in Soltos \/ p = SemPedido \/ (Enviar /\ p = espera')
  BY SoltosMuda DEF SoOEnviado
<1>2. /\ DOMAIN ancoras \subseteq DOMAIN ancoras'
      /\ \A s : Faltou(s) => Faltou(s)'
  BY AncorasFicam, FaltouFica
<1> SUFFICES ASSUME NEW p \in Soltos', NEW q \in Soltos',
                    NEW f \in q.envelopes, NEW x \in p.envelopes,
                    p.sessao = q.sessao, Bom(f), Bom(x),
                    \A y \in p.envelopes : Bom(y) => f.seq < y.seq
             PROVE  q.sessao \in DOMAIN ancoras \/ Faltou(q.sessao)
  <2>1. \A s : s \in DOMAIN ancoras \/ Faltou(s) => s \in DOMAIN ancoras' \/ Faltou(s)'
    BY <1>2
  <2> QED BY <2>1 DEF PrimeirosJuntos
<1>3. CASE p \in Soltos /\ q \in Soltos
  BY <1>3 DEF PrimeirosJuntos
<1>4. p # SemPedido /\ q # SemPedido
  BY <1>0
<1>5. CASE Enviar /\ p = espera' /\ q \in Soltos
  <2>1. /\ espera'.sessao = sessao /\ espera'.envelopes = Lote(guardados) /\ espera = SemPedido
    BY <1>0, <1>5, NoEnviar DEF Enviar
  <2>2. /\ q.sessao = sessao /\ x \in Lote(guardados)
        /\ \A y \in Lote(guardados) : Bom(y) => f.seq < y.seq
    BY <1>5, <2>1
  <2>3. f.seq < x.seq
    BY <2>2
  <2>4. f.seq \in Nat
    BY <1>0, <1>5, SoltosTipo, NumeroE
  <2>5. f \notin Lote(guardados)
    BY <2>2, <2>4
  <2> QED BY <1>5, <2>1, <2>2, <2>3, <2>5, AntesDoLote
<1>6. CASE Enviar /\ q = espera' /\ p \in Soltos
  <2>1. espera'.sessao = sessao /\ espera'.envelopes = Lote(guardados)
    BY <1>0, <1>6, NoEnviar
  <2>2. f \in Tidos /\ p.sessao = sessao
    BY <1>6, <2>1 DEF Lote, Tidos
  <2>3. f.seq < x.seq /\ f.seq \in Nat /\ x.seq \in Nat
    BY <1>0, <1>6, <2>2, SoltosTipo, TidosTipo, NumeroE
  <2>4. f \in p.envelopes
    BY <1>6, <2>2, <2>3 DEF FilaPrimeiro
  <2>5. f.seq < f.seq
    BY <2>4
  <2> QED BY <2>3, <2>5
<1>7. CASE Enviar /\ p = espera' /\ q = espera'
  <2>1. f.seq < f.seq
    BY <1>7
  <2>2. espera' \in PedidoFeito
    BY <1>0, <1>7, NoEnviar
  <2>3. f.seq \in Nat
    BY <1>7, <2>2, NumeroE DEF PedidoFeito
  <2> QED BY <2>1, <2>3
<1> QED BY <1>1, <1>3, <1>4, <1>5, <1>6, <1>7

LEMMA AceitasE ==
  ASSUME TudoLegivel, NEW p \in PedidoFeito, NEW n
  PROVE  n \in Conteudo(p).aceitos <=> \E e \in p.envelopes : e.seq = n /\ Bom(e)
<1>1. Conteudo(p).aceitos = Numeros(Aceitos(Remessa(p, "integro")))
  BY DEF Conteudo, Decodificada
<1>2. \A e : e \in Aceitos(Remessa(p, "integro")) <=> e \in p.envelopes /\ Bom(e)
  <2>1. \A e : e \in Aceitos(Remessa(p, "integro")) => e \in p.envelopes
    BY DEF Aceitos, Remessa
  <2> QED BY <2>1, AceitoE DEF Bom
<1> QED BY <1>1, <1>2, Zenon DEF Numeros

\* The anchor that a goroutine is about to write.
LEMMA AncoraE ==
  ASSUME TudoLegivel, Base, AncoraPropria, NEW t \in Tratadores,
         tratador[t].fase = "gravar_ancora"
  PROVE  /\ servindo[t] \in PedidoFeito /\ servindo[t] \in Soltos
         /\ tratador[t].remessa.sessao = servindo[t].sessao
         /\ \E x \in servindo[t].envelopes :
              /\ Bom(x) /\ x.seq = tratador[t].ancora.ligado
              /\ \A y \in servindo[t].envelopes : Bom(y) => x.seq <= y.seq
<1>1. /\ servindo[t] \in PedidoFeito /\ tratador[t].remessa = Conteudo(servindo[t])
      /\ servindo[t] \in Soltos
  BY DEF Base, ServeOPedido, Soltos
<1> DEFINE r == Conteudo(servindo[t])
<1>2. r.aceitos \in SUBSET (1 .. MaxSequencia) /\ r.sessao = servindo[t].sessao
  BY <1>1, DecodificadaE DEF RemessasDaOrigem
<1>3. r.aceitos # {}
  BY <1>1 DEF Base, GT!Inv, GT!ComRemessa
<1>4. r.aceitos \in SUBSET Nat
  BY <1>2, LimitesDaEntrega
<1>5. \E n \in r.aceitos : \A m \in r.aceitos : n <= m
  BY <1>3, <1>4, MenorExiste
<1>6. /\ GT!Primeiro(r) \in r.aceitos
      /\ \A m \in r.aceitos : GT!Primeiro(r) <= m
  BY <1>5 DEF GT!Primeiro
<1>7. tratador[t].ancora.ligado = GT!Primeiro(r)
  BY <1>1 DEF AncoraPropria
<1>8. PICK x \in servindo[t].envelopes : x.seq = GT!Primeiro(r) /\ Bom(x)
  BY <1>1, <1>6, AceitasE
<1>9. \A y \in servindo[t].envelopes : Bom(y) => x.seq <= y.seq
  BY <1>1, <1>6, <1>8, AceitasE
<1> QED BY <1>1, <1>2, <1>7, <1>8, <1>9

\* The first anchor of a session is no later than anything that may become a row.
LEMMA AncoraNova ==
  ASSUME TudoLegivel, Base, FilaPrimeiro, UmConteudo, RecusadoSoInvalido, PrimeirosJuntos,
         AncoraPropria, NEW t \in Tratadores, tratador[t].fase = "gravar_ancora",
         tratador[t].remessa.sessao \notin DOMAIN ancoras,
         ~Faltou(tratador[t].remessa.sessao)
  PROVE  LET s == tratador[t].remessa.sessao
             n == tratador[t].ancora.ligado
         IN  /\ n <= emitidos[s]
             /\ \A e : Visto(s, e) /\ Bom(e) => n <= e.seq
             /\ \A linha \in diario : linha.sessao # s
<1> DEFINE s == tratador[t].remessa.sessao
           p == servindo[t]
<1>1. p \in PedidoFeito /\ p \in Soltos /\ p.sessao = s
  BY AncoraE
<1>2. PICK x \in p.envelopes : /\ Bom(x) /\ x.seq = tratador[t].ancora.ligado
                               /\ \A y \in p.envelopes : Bom(y) => x.seq <= y.seq
  BY AncoraE
<1>3. TiposDoNo
  BY DEF Base, NoCerto
<1> HIDE DEF s, p
<1>4. Visto(s, x)
  BY <1>1 DEF Visto
<1>5. x.seq <= emitidos[s] /\ x.seq \in Nat
  BY <1>4, NumeroE DEF UmConteudo
<1>6. \A linha \in diario : linha.sessao # s
  BY DEF Base, GT!Inv, GT!DadoTemAncora, s
<1>7. ASSUME NEW e, Visto(s, e), Bom(e)
      PROVE  x.seq <= e.seq
  <2>1. e.seq \in Nat
    BY <1>7, NumeroE DEF UmConteudo
  <2> SUFFICES ASSUME e.seq < x.seq PROVE FALSE
    BY <1>5, <2>1
  <2>2. \A y \in p.envelopes : Bom(y) => e.seq < y.seq
    <3> SUFFICES ASSUME NEW y \in p.envelopes, Bom(y) PROVE e.seq < y.seq
      OBVIOUS
    <3>1. y.seq \in Nat /\ x.seq <= y.seq
      BY <1>1, <1>2, NumeroE DEF PedidoFeito
    <3> QED BY <1>5, <2>1, <3>1
  <2>3. CASE \E q \in Soltos : q.sessao = s /\ e \in q.envelopes
    <3>1. s \in DOMAIN ancoras \/ Faltou(s)
      BY <1>1, <1>2, <1>7, <2>2, <2>3 DEF PrimeirosJuntos
    <3> QED BY <3>1 DEF s
  <2>4. CASE s = sessao /\ e \in Tidos
    <3>1. e \in p.envelopes
      BY <1>1, <1>5, <2>1, <2>4 DEF FilaPrimeiro
    <3> QED BY <1>7, <2>1, <2>2, <3>1
  <2>5. CASE [sessao |-> s, envelope |-> e] \in recusados
    BY <1>7, <2>5 DEF RecusadoSoInvalido, Bom
  <2> QED BY <1>7, <2>3, <2>4, <2>5 DEF Visto
<1> QED BY <1>2, <1>5, <1>6, <1>7 DEF s

LEMMA InicioMantido ==
  ASSUME TudoLegivel, Base, FilaPrimeiro, UmConteudo, RecusadoSoInvalido, PrimeirosJuntos,
         AncoraPropria, AncoraNoInicio, [Next]_vars
  PROVE  AncoraNoInicio'
<1>0. /\ GT!Inv /\ TiposDoNo /\ sessao \in Sessoes
      /\ emitidos \in [Sessoes -> 0 .. MaxSequencia]
      /\ \A s \in Sessoes : emitidos[s] \in Nat
  BY LimitesDaEntrega DEF Base, NoCerto, TiposDoNo
<1>1. \A s : Faltou(s) => Faltou(s)'
  BY FaltouFica
<1>2. \A s \in DOMAIN ancoras : s \in Sessoes /\ ancoras[s].ligado \in Nat
  BY <1>0 DEF GT!Inv, GT!TypeOK, GT!Ancora
<1>3. CASE Amostrar
  <2>1. PICK novo \in EnvelopesPossiveis :
          /\ novo.seq = emitidos[sessao] + 1
          /\ emitidos' = [emitidos EXCEPT ![sessao] = novo.seq]
          /\ \A s, e : Visto(s, e)' => Visto(s, e) \/ (s = sessao /\ e = novo)
    BY <1>3, VistoNovo
  <2>2. UNCHANGED <<diario, ancoras>>
    BY <1>3 DEF Amostrar, oGateway
  <2> SUFFICES ASSUME NEW s \in DOMAIN ancoras, ~Faltou(s)
               PROVE  /\ ancoras[s].ligado <= emitidos'[s]
                      /\ \A e : Visto(s, e)' /\ Bom(e) => ancoras[s].ligado <= e.seq
                      /\ \A linha \in diario : linha.sessao = s => ancoras[s].ligado <= linha.seq
    BY <1>1, <2>2 DEF AncoraNoInicio
  <2>3. /\ ancoras[s].ligado <= emitidos[s]
        /\ \A e : Visto(s, e) /\ Bom(e) => ancoras[s].ligado <= e.seq
        /\ \A linha \in diario : linha.sessao = s => ancoras[s].ligado <= linha.seq
    BY DEF AncoraNoInicio
  <2>4. s \in Sessoes /\ ancoras[s].ligado \in Nat /\ emitidos[s] \in Nat
    BY <1>0, <1>2
  <2>5. emitidos'[s] = emitidos[s] \/ (s = sessao /\ emitidos'[s] = emitidos[s] + 1)
    BY <1>0, <2>1, <2>4
  <2>6. ancoras[s].ligado <= emitidos'[s]
    BY <2>3, <2>4, <2>5
  <2>7. ASSUME NEW e, Visto(s, e)', Bom(e)
        PROVE  ancoras[s].ligado <= e.seq
    <3>1. CASE Visto(s, e)
      BY <2>3, <2>7, <3>1
    <3>2. CASE s = sessao /\ e = novo
      BY <2>1, <2>3, <2>4, <3>2
    <3> QED BY <2>1, <2>7, <3>1, <3>2
  <2> QED BY <2>3, <2>6, <2>7
<1>4. CASE ~Amostrar
  <2>1. \A s, e : Visto(s, e)' => Visto(s, e)
    BY <1>4, VistoMuda
  <2>2. emitidos' = emitidos
    <3>1. CASE Enviar \/ Religar
      BY <3>1 DEF Enviar, Religar
    <3>2. CASE ~Enviar /\ ~Religar
      BY <1>4, <3>2, NoEncolhe DEF Encolhe
    <3> QED BY <3>1, <3>2
  <2>3. CASE UNCHANGED <<diario, ancoras>>
    BY <1>1, <2>1, <2>2, <2>3 DEF AncoraNoInicio
  <2>4. ASSUME NEW t \in Tratadores, tratador[t].fase = "gravar_ancora", diario' = diario,
               ancoras' = GT!AncorasCom(tratador[t].remessa.sessao, tratador[t].ancora)
        PROVE  AncoraNoInicio'
    <3> DEFINE s0 == tratador[t].remessa.sessao
    <3>1. /\ DOMAIN ancoras' = DOMAIN ancoras \cup {s0}
          /\ \A s \in DOMAIN ancoras : ancoras'[s] = ancoras[s]
          /\ s0 \notin DOMAIN ancoras => ancoras'[s0] = tratador[t].ancora
      BY <2>4 DEF GT!AncorasCom
    <3> SUFFICES ASSUME NEW s \in DOMAIN ancoras', ~Faltou(s)
                 PROVE  /\ ancoras'[s].ligado <= emitidos[s]
                        /\ \A e : Visto(s, e) /\ Bom(e) => ancoras'[s].ligado <= e.seq
                        /\ \A linha \in diario :
                             linha.sessao = s => ancoras'[s].ligado <= linha.seq
      BY <1>1, <2>1, <2>2, <2>4 DEF AncoraNoInicio
    <3>2. CASE s \in DOMAIN ancoras
      BY <3>1, <3>2 DEF AncoraNoInicio
    <3>3. CASE s \notin DOMAIN ancoras
      <4>1. s = s0 /\ ancoras'[s] = tratador[t].ancora
        BY <3>1, <3>3
      <4>2. /\ tratador[t].ancora.ligado <= emitidos[s]
            /\ \A e : Visto(s, e) /\ Bom(e) => tratador[t].ancora.ligado <= e.seq
            /\ \A linha \in diario : linha.sessao # s
        BY <2>4, <3>3, <4>1, AncoraNova
      <4> QED BY <4>1, <4>2
    <3> QED BY <3>2, <3>3
  <2>5. ASSUME NEW t \in Tratadores, tratador[t].fase = "transacao", ancoras' = ancoras,
               diario' = diario \cup GT!Chaves(tratador[t].remessa)
        PROVE  AncoraNoInicio'
    <3>1. /\ servindo[t] \in PedidoFeito /\ tratador[t].remessa = Conteudo(servindo[t])
          /\ servindo[t] \in Soltos
      BY <2>5 DEF Base, ServeOPedido, Soltos
    <3>2. ASSUME NEW linha \in diario', linha \notin diario
          PROVE  \E e : Visto(linha.sessao, e) /\ Bom(e) /\ e.seq = linha.seq
      <4>1. PICK n \in Conteudo(servindo[t]).aceitos :
              linha = [sessao |-> Conteudo(servindo[t]).sessao, seq |-> n]
        BY <2>5, <3>1, <3>2, Zenon DEF GT!Chaves
      <4>2. PICK e \in servindo[t].envelopes : e.seq = n /\ Bom(e)
        BY <3>1, <4>1, AceitasE
      <4>3. linha.sessao = servindo[t].sessao /\ linha.seq = n
        BY <3>1, <4>1, DecodificadaE
      <4> QED BY <3>1, <4>2, <4>3 DEF Visto
    <3> SUFFICES ASSUME NEW s \in DOMAIN ancoras, ~Faltou(s)
                 PROVE  /\ ancoras[s].ligado <= emitidos[s]
                        /\ \A e : Visto(s, e) /\ Bom(e) => ancoras[s].ligado <= e.seq
                        /\ \A linha \in diario' :
                             linha.sessao = s => ancoras[s].ligado <= linha.seq
      BY <1>1, <2>1, <2>2, <2>5 DEF AncoraNoInicio
    <3> QED BY <3>2 DEF AncoraNoInicio
  <2> QED BY <2>3, <2>4, <2>5, DiarioMudaE DEF DiarioMuda, Escreve
<1> QED BY <1>3, <1>4

-----------------------------------------------------------------------------
(* Theorems.                                                               *)

\* Types, and the buffer within its capacity.
THEOREM TipoCorreto == Spec => []TypeOK
<1>1. Base => TypeOK
  <2> SUFFICES ASSUME Base PROVE TypeOK
    OBVIOUS
  <2>1. /\ diario \subseteq GT!Envelopes /\ confirmados \subseteq GT!Envelopes
        /\ DOMAIN ancoras \subseteq Sessoes
        /\ conexao \in Tratadores \cup {Livre}
        /\ tratador \in [Tratadores -> G!EstadoDoTratador]
    BY MesmoProcesso DEF Base, GT!Inv, GT!TypeOK
  <2>2. GT!Envelopes \subseteq ChavesPossiveis
    BY DEF GT!Envelopes, GT!Chaves, ChavesPossiveis
  <2>3. PedidoFeito \cup {SemPedido} \subseteq Pedido
    <3>1. /\ 1 .. MaxPedidos \subseteq 0 .. MaxPedidos /\ Sessoes \subseteq 0 .. MaxPartidas
          /\ 0 \in 0 .. MaxPedidos /\ 0 \in 0 .. MaxPartidas
      BY LimitesDaEntrega DEF Sessoes
    <3>2. PedidoFeito \subseteq Pedido
      BY <3>1 DEF PedidoFeito, Pedido
    <3>3. SemPedido \in Pedido
      BY <3>1 DEF SemPedido, Pedido
    <3> QED BY <3>2, <3>3
  <2>4. {x.envelope : x \in recusados} \in SUBSET EnvelopesPossiveis /\ 1 \in Sessoes
    BY LimitesDaEntrega DEF Base, NoCerto, TiposDoNo, Sessoes
  <2>5. Chaves(1, {x.envelope : x \in recusados}) \subseteq ChavesPossiveis
    BY <2>4, ChavesTipo
  <2>6. /\ servindo \in [Tratadores -> PedidoFeito \cup {SemPedido}]
        /\ rede \subseteq PedidoFeito
        /\ espera \in PedidoFeito \cup {SemPedido}
        /\ sessao \in Sessoes
        /\ emitidos \in [Sessoes -> 0 .. MaxSequencia]
        /\ entregues \cup perdidos \cup apagados \subseteq ChavesPossiveis
        /\ Cardinality(guardados) <= Capacidade
    BY DEF Base, NoCerto, TiposDoNo, BufferCerto
  <2>7. servindo \in [Tratadores -> Pedido] /\ rede \subseteq Pedido /\ espera \in Pedido
    BY <2>3, <2>6
  <2> QED BY <2>1, <2>2, <2>5, <2>6, <2>7 DEF TypeOK
<1> QED BY <1>1, BaseSempre, PTL

\* What the gateway does under these requests is what Ingestao allows: its
\* anchors never move, no row is without one, and what it confirmed stays.
THEOREM GatewayImplementaIngestao == Spec => G!Spec
<1>1. Init => G!Init
  BY DEF Init
<1>2. Base /\ [Next]_vars => [G!Next]_(G!vars)
  BY PassoDoGateway, MesmoPasso DEF Base, NoCerto
<1> QED BY <1>1, <1>2, BaseSempre, PTL DEF Spec, G!Spec

\* What the node freed as confirmed is in the journal, whichever copy of the
\* batch was recorded, whatever was given up, repeated, killed or lost.
THEOREM EntregueSempreNoDiario == Spec => []EntregueEstaNoDiario
<1>1. Init => EntregueEstaNoDiario
  BY DEF Init, EntregueEstaNoDiario
<1>2. Base /\ EntregueEstaNoDiario /\ [Next]_vars => EntregueEstaNoDiario'
  BY EntregueMantido
<1> QED BY <1>1, <1>2, BaseSempre, PTL DEF Spec

LEMMA ExplicadoSempre == Spec => []TudoExplicado
<1>1. Init => TudoExplicado
  <2> SUFFICES ASSUME Init PROVE Emitidas = {}
    BY DEF TudoExplicado
  <2>1. \A s \in Sessoes : emitidos[s] = 0
    BY DEF Init
  <2>2. \A k \in ChavesPossiveis : k.sessao \in Sessoes /\ k.seq \in Nat /\ 0 < k.seq
    BY LimitesDaEntrega DEF ChavesPossiveis
  <2>3. \A k \in ChavesPossiveis : ~(k.seq <= emitidos[k.sessao])
    BY <2>1, <2>2
  <2> QED BY <2>3 DEF Emitidas
<1>2. Base /\ TudoExplicado /\ [Next]_vars => TudoExplicado'
  BY BuracoMantido
<1> QED BY <1>1, <1>2, BaseSempre, PTL DEF Spec

\* A number that is not in the journal is accounted for: held, refused, counted
\* by the saturation, or gone with the memory.
THEOREM TodoBuracoExplicado == Spec => []BuracoTemExplicacao
<1>1. TudoExplicado => BuracoTemExplicacao
  BY BuracoE
<1> QED BY <1>1, ExplicadoSempre, PTL

\* Nothing is on its way at first.
LEMMA SoltosNoInicio ==
  ASSUME Init
  PROVE  /\ \A p \in Soltos : p = SemPedido
         /\ Tidos = {} /\ recusados = {}
         /\ SemPedido.sessao = 0 /\ SemPedido.envelopes = {}
BY DEF Init, Soltos, Tidos, SemPedido

LEMMA FilaSempre == Spec => []FilaPrimeiro
<1>1. Init => FilaPrimeiro
  <2> SUFFICES ASSUME Init PROVE FilaPrimeiro
    OBVIOUS
  <2>1. sessao = 1
    BY DEF Init
  <2> QED BY <2>1, SoltosNoInicio DEF FilaPrimeiro
<1>2. Base /\ FilaPrimeiro /\ [Next]_vars => FilaPrimeiro'
  BY FilaMantida
<1> QED BY <1>1, <1>2, BaseSempre, PTL DEF Spec

\* A source that frees its buffer up to duravel_ate frees nothing but what is in
\* the journal or named as rejected.
THEOREM DuravelAteNuncaMente == Spec => DuravelAteNaoMente
<1> DEFINE Passo ==
      \A t \in Tratadores, e \in guardados \cup espera.envelopes :
        LET r == tratador[t].remessa IN
        (/\ G!EmFase(t, "responder") /\ tratador'[t] = G!Ocioso /\ execucao' = execucao
         /\ tratador[t].categoria = "nenhuma"
         /\ r.sessao = sessao
         /\ e.seq <= DuravelAte(r) /\ e.seq \notin r.rejeitados)
        => [sessao |-> sessao, seq |-> e.seq] \in diario
<1>1. Base /\ FilaPrimeiro => Passo
  BY DuravelAteE DEF G!EmFase, Tidos
<1>2. Base /\ FilaPrimeiro /\ [Next]_vars => [Passo]_vars
  BY <1>1
<1>3. Spec => [][Passo]_vars
  BY <1>2, BaseSempre, FilaSempre, PTL DEF Spec
<1> QED BY <1>3 DEF DuravelAteNaoMente

\* With authenticated identities, a row enters the journal only from a request
\* under the certificate of the device it claims.
THEOREM SoODonoSempreGrava ==
  ASSUME ExigirIdentidade
  PROVE  Spec => SoODonoGrava
<1> DEFINE Passo ==
      \A linha \in diario' \ diario :
        \E t \in Tratadores : servindo[t].credencial = Dispositivo
                               /\ linha \in Chaves(servindo[t].sessao, servindo[t].envelopes)
<1>1. Init => DonoCerto
  BY DEF Init, G!Init, G!Ocioso, DonoCerto
<1>2. Base /\ DonoCerto /\ [Next]_vars => DonoCerto'
  BY DonoMantido
<1>3. Base /\ DonoCerto /\ [Next]_vars => [Passo]_vars
  BY SoODonoE
<1>4. Spec => [][Passo]_vars
  BY <1>1, <1>2, <1>3, BaseSempre, PTL DEF Spec
<1> QED BY <1>4 DEF SoODonoGrava

LEMMA RecusaSempreJusta ==
  ASSUME TudoLegivel
  PROVE  Spec => []RecusaJusta
<1>1. Init => RecusaJusta
  BY DEF Init, G!Init, G!Ocioso, RecusaJusta, PedidoCheio, EsperaLegivel, RecusadoSoInvalido
<1>2. Base /\ RecusaJusta /\ [Next]_vars => RecusaJusta'
  BY CheioMantido, EsperaMantida, RecusadoMantido DEF RecusaJusta
<1> QED BY <1>1, <1>2, BaseSempre, PTL DEF Spec

\* Where every identifier is valid, the node throws away as refused only what the
\* gateway does not accept: no time limit, no failure and no foreign certificate
\* costs good data.
THEOREM RecusadoSempreInvalido ==
  ASSUME TudoLegivel
  PROVE  Spec => []RecusadoSoInvalido
<1>1. RecusaJusta => RecusadoSoInvalido
  BY DEF RecusaJusta
<1> QED BY <1>1, RecusaSempreJusta, PTL

LEMMA ConteudosSempreUnicos == Spec => [](UmConteudo /\ ApagadosAntigos /\ AncoraPropria)
<1>1. Init => UmConteudo /\ ApagadosAntigos /\ AncoraPropria
  <2> SUFFICES ASSUME Init PROVE UmConteudo /\ ApagadosAntigos /\ AncoraPropria
    OBVIOUS
  <2>1. \A s, e : ~Visto(s, e)
    BY SoltosNoInicio DEF Visto
  <2>2. ApagadosAntigos /\ AncoraPropria
    BY DEF Init, G!Init, G!Ocioso, ApagadosAntigos, AncoraPropria
  <2> QED BY <2>1, <2>2 DEF UmConteudo
<1>2. Base /\ UmConteudo /\ ApagadosAntigos /\ AncoraPropria /\ [Next]_vars
      => (UmConteudo /\ ApagadosAntigos /\ AncoraPropria)'
  BY UmConteudoMantido, ApagadosMantido, AncoraPropriaMantida
<1> QED BY <1>1, <1>2, BaseSempre, PTL DEF Spec

\* Unless the saturation took something of its session, no row is older than the
\* anchor of the session: batches that were given up and are served late start
\* where the repeated ones start.
THEOREM LinhaSempreDatavel ==
  ASSUME TudoLegivel
  PROVE  Spec => []LinhaDatavel
<1> DEFINE Inv == PrimeirosJuntos /\ AncoraNoInicio
           Apoio == /\ Base /\ TudoExplicado /\ FilaPrimeiro /\ UmConteudo /\ ApagadosAntigos
                    /\ AncoraPropria /\ RecusadoSoInvalido
<1>1. Init => Inv
  <2> SUFFICES ASSUME Init PROVE Inv
    OBVIOUS
  <2>1. PrimeirosJuntos
    BY SoltosNoInicio DEF PrimeirosJuntos
  <2>2. AncoraNoInicio
    BY DEF Init, G!Init, AncoraNoInicio
  <2> QED BY <2>1, <2>2
<1>2. Apoio /\ Inv /\ [Next]_vars => Inv'
  BY PrimeirosMantido, InicioMantido
<1>3. Apoio /\ Inv => LinhaDatavel
  <2> SUFFICES ASSUME Apoio, Inv, NEW linha \in diario, ~Faltou(linha.sessao)
               PROVE  Datavel(linha)
    BY DEF LinhaDatavel, Faltou
  <2>1. linha.sessao \in DOMAIN ancoras
    BY DEF Base, GT!Inv, GT!DadoTemAncora
  <2>2. ancoras[linha.sessao].ligado <= linha.seq
    BY <2>1 DEF AncoraNoInicio
  <2>3. ancoras[linha.sessao].ligado \in Nat /\ linha.seq \in Nat
    <3>1. GT!TypeOK
      BY DEF Base, GT!Inv
    <3>2. ancoras[linha.sessao] \in GT!Ancora
      BY <2>1, <3>1 DEF GT!TypeOK
    <3>3. linha \in GT!Envelopes
      BY <3>1 DEF GT!TypeOK
    <3>4. linha.seq \in Nat
      BY <3>3, LimitesDaEntrega DEF GT!Envelopes, GT!Chaves
    <3> QED BY <3>2, <3>4 DEF GT!Ancora
  <2> QED BY <2>2, <2>3 DEF Datavel
<1>4. Spec => []Apoio
  BY BaseSempre, ExplicadoSempre, FilaSempre, ConteudosSempreUnicos, RecusadoSempreInvalido, PTL
<1> HIDE DEF Inv, Apoio
<1> QED BY <1>1, <1>2, <1>3, <1>4, PTL DEF Spec

-----------------------------------------------------------------------------
(* What the two ends promise together: the module Canal.                   *)

Recusadas == {[sessao |-> x.sessao, seq |-> x.envelope.seq] : x \in recusados}

C == INSTANCE Canal WITH
       Possiveis <- ChavesPossiveis,
       emitidos  <- Emitidas,
       retidos   <- Retidas,
       recusados <- Recusadas

\* An envelope waits in the buffer or is on its way, never both.
Separados == guardados \cap espera.envelopes = {}

\* No row but of a number some session gave.
DiarioEmitido == diario \subseteq Emitidas

\* An envelope that is refused, or may yet be, has no row.
DiarioBom ==
  \A s, e : Visto(s, e) /\ [sessao |-> s, seq |-> e.seq] \in diario => Bom(e)

Contas == Separados /\ DiarioEmitido /\ DiarioBom

\* The steps that do not touch the node.
NoParado ==
  UNCHANGED <<sessao, emitidos, guardados, espera, historia>>

\* What a step may do to the node.
PassoDoNo ==
  \/ Amostrar \/ Enviar \/ Religar
  \/ Desistir /\ diario' = diario
  \/ \E t \in Tratadores : Chegar(t)
  \/ NoParado

LEMMA PassoDoNoE ==
  ASSUME Base, [Next]_vars
  PROVE  PassoDoNo
<1>1. CASE Desistir
  BY <1>1 DEF Desistir, oGateway, PassoDoNo
<1>2. CASE CorrigirCredencial \/ (\E p \in rede : Sumir(p)) \/ UNCHANGED vars
  BY <1>2, Zenon DEF CorrigirCredencial, Sumir, vars, oNo, historia, PassoDoNo, NoParado
<1>3. ASSUME NEW t \in Tratadores, NEW p \in rede, Atender(t, p)
      PROVE  PassoDoNo
  BY <1>3, Zenon DEF Atender, oNo, historia, PassoDoNo, NoParado
<1>4. ASSUME NEW t \in Tratadores, Servir(t) \/ FalharNoDiario(t)
      PROVE  PassoDoNo
  BY <1>4, Zenon DEF Servir, FalharNoDiario, oNo, historia, PassoDoNo, NoParado
<1>5. ASSUME NEW t \in Tratadores, Extraviar(t)
      PROVE  PassoDoNo
  BY <1>5, Zenon DEF Extraviar, Responder, historia, PassoDoNo, NoParado
<1>6. CASE Queda
  BY <1>6, Zenon DEF Queda, oNo, historia, PassoDoNo, NoParado
<1> QED BY <1>1, <1>2, <1>3, <1>4, <1>5, <1>6, Zenon DEF Next, DaOrigem, DoGateway, PassoDoNo

\* The keys of a part of what the node holds, and of the rest.
LEMMA ChavesPartes ==
  ASSUME NEW s, NEW A, NEW B, NumeroUnico(A \cup B), A \cap B = {}
  PROVE  /\ Chaves(s, A \cup B) = Chaves(s, A) \cup Chaves(s, B)
         /\ Chaves(s, A) \cap Chaves(s, B) = {}
<1>1. Chaves(s, A \cup B) = Chaves(s, A) \cup Chaves(s, B)
  BY DEF Chaves
<1>2. ASSUME NEW a \in A, NEW b \in B, [sessao |-> s, seq |-> a.seq] = [sessao |-> s, seq |-> b.seq]
      PROVE  FALSE
  <2>1. a.seq = b.seq
    BY <1>2
  <2> QED BY <2>1 DEF NumeroUnico
<1>3. Chaves(s, A) \cap Chaves(s, B) = {}
  BY <1>2 DEF Chaves
<1> QED BY <1>1, <1>3

LEMMA RetidasE ==
  Retidas = Chaves(sessao, Tidos) /\ Retidas' = Chaves(sessao', Tidos')
BY DEF Retidas, Tidos

LEMMA SeparadosMantido ==
  ASSUME Base, Separados, [Next]_vars
  PROVE  Separados'
<1>0. NoCerto /\ TiposDoNo /\ BufferCerto
  BY DEF Base, NoCerto
<1>1. CASE Amostrar
  <2>1. PICK c \in Conteudos :
          /\ guardados' = Sobra(guardados, Capacidade - 1) \cup {Envelope(emitidos[sessao] + 1, c)}
          /\ espera' = espera
    BY <1>1 DEF Amostrar
  <2>2. Sobra(guardados, Capacidade - 1) \subseteq guardados
    BY DEF Sobra
  <2>3. Envelope(emitidos[sessao] + 1, c) \notin espera.envelopes
    <3>1. emitidos[sessao] \in Nat
      BY <1>0, LimitesDaEntrega DEF TiposDoNo
    <3>2. Envelope(emitidos[sessao] + 1, c).seq = emitidos[sessao] + 1
      BY DEF Envelope
    <3>3. \A e \in espera.envelopes : e.seq <= emitidos[sessao] /\ e.seq \in Nat
      BY <1>0, TidosTipo, NumeroE DEF BufferCerto, Tidos
    <3> QED BY <3>1, <3>2, <3>3
  <2> QED BY <2>1, <2>2, <2>3 DEF Separados
<1>2. CASE Enviar
  <2>1. espera'.envelopes = Lote(guardados) /\ guardados' = guardados \ Lote(guardados)
    BY <1>0, <1>2, NoEnviar DEF Enviar
  <2> QED BY <2>1 DEF Separados
<1>3. CASE espera' = SemPedido
  BY <1>3 DEF Separados, SemPedido
<1>4. CASE Religar \/ Desistir
  BY <1>3, <1>4 DEF Religar, Desistir, Devolver
<1>5. ASSUME NEW t \in Tratadores, Chegar(t)
      PROVE  Separados'
  BY <1>3, <1>5, TratarE DEF Confirmada, Descartada, Devolver
<1>6. CASE NoParado
  BY <1>6 DEF NoParado, Separados
<1> QED BY <1>1, <1>2, <1>4, <1>5, <1>6, PassoDoNoE DEF PassoDoNo

\* A new row is of an envelope that some goroutine has in hand.
LEMMA LinhaNova ==
  ASSUME Base, [Next]_vars, NEW k \in diario', k \notin diario
  PROVE  \E p \in Soltos :
           /\ p \in PedidoFeito
           /\ NoParado
           /\ \E n \in Conteudo(p).aceitos : k = [sessao |-> p.sessao, seq |-> n]
<1>1. PICK t \in Tratadores :
        /\ Servir(t) \/ FalharNoDiario(t)
        /\ tratador[t].fase = "transacao"
        /\ diario' = diario \cup GT!Chaves(tratador[t].remessa)
  BY DiarioMudaE DEF DiarioMuda, Escreve
<1>2. /\ servindo[t] \in PedidoFeito /\ tratador[t].remessa = Conteudo(servindo[t])
      /\ servindo[t] \in Soltos
  BY <1>1 DEF Base, ServeOPedido, Soltos
<1>3. NoParado
  BY <1>1, Zenon DEF Servir, FalharNoDiario, oNo, historia, NoParado
<1>4. PICK n \in Conteudo(servindo[t]).aceitos :
        k = [sessao |-> Conteudo(servindo[t]).sessao, seq |-> n]
  BY <1>1, <1>2, Zenon DEF GT!Chaves
<1>5. Conteudo(servindo[t]).sessao = servindo[t].sessao
  BY <1>2, DecodificadaE
<1> QED BY <1>2, <1>3, <1>4, <1>5

LEMMA EmitidasCresce ==
  ASSUME Base, [Next]_vars
  PROVE  /\ Emitidas \subseteq Emitidas'
         /\ Amostrar =>
              /\ [sessao |-> sessao, seq |-> emitidos[sessao] + 1] \in ChavesPossiveis \ Emitidas
              /\ Emitidas' = Emitidas \cup {[sessao |-> sessao, seq |-> emitidos[sessao] + 1]}
         /\ ~Amostrar => Emitidas' = Emitidas
<1> DEFINE n == emitidos[sessao] + 1
           novo == [sessao |-> sessao, seq |-> n]
<1>0. /\ emitidos \in [Sessoes -> 0 .. MaxSequencia] /\ sessao \in Sessoes
      /\ MaxSequencia \in Nat
  BY LimitesDaEntrega DEF Base, NoCerto, TiposDoNo
<1>1. CASE Amostrar
  <2>1. emitidos' = [emitidos EXCEPT ![sessao] = n] /\ n \in 1 .. MaxSequencia
    BY <1>1, AmostrarE DEF Base
  <2>2. novo \in ChavesPossiveis
    BY <1>0, <2>1 DEF ChavesPossiveis
  <2>3. emitidos[sessao] \in Nat /\ ~(n <= emitidos[sessao])
    BY <1>0
  <2>4. novo \notin Emitidas
    BY <2>3 DEF Emitidas
  <2>5. ASSUME NEW k \in ChavesPossiveis
        PROVE  k.seq <= emitidos'[k.sessao] <=> k.seq <= emitidos[k.sessao] \/ k = novo
    <3>1. k.sessao \in Sessoes /\ k.seq \in Nat /\ k = [sessao |-> k.sessao, seq |-> k.seq]
      BY <1>0 DEF ChavesPossiveis
    <3>2. CASE k.sessao # sessao
      <4>1. emitidos'[k.sessao] = emitidos[k.sessao] /\ k # novo
        BY <1>0, <2>1, <3>1, <3>2
      <4> QED BY <4>1
    <3>3. CASE k.sessao = sessao
      <4>1. emitidos'[k.sessao] = n /\ (k = novo <=> k.seq = n)
        BY <1>0, <2>1, <3>1, <3>3
      <4>2. k.seq <= n <=> k.seq <= emitidos[sessao] \/ k.seq = n
        BY <2>3, <3>1
      <4> QED BY <3>3, <4>1, <4>2
    <3> QED BY <3>2, <3>3
  <2> HIDE DEF novo, n
  <2>6. Emitidas' = Emitidas \cup {novo}
    BY <2>2, <2>5 DEF Emitidas
  <2> QED BY <1>1, <2>2, <2>4, <2>6 DEF novo, n
<1>2. CASE ~Amostrar
  <2>1. emitidos' = emitidos
    <3>1. CASE Enviar \/ Religar
      BY <3>1 DEF Enviar, Religar
    <3>2. CASE ~Enviar /\ ~Religar
      BY <1>2, <3>2, NoEncolhe DEF Encolhe
    <3> QED BY <3>1, <3>2
  <2>2. Emitidas' = Emitidas
    BY <2>1 DEF Emitidas
  <2> QED BY <1>2, <2>2
<1> QED BY <1>1, <1>2

LEMMA DiarioEmitidoMantido ==
  ASSUME Base, UmConteudo, DiarioEmitido, [Next]_vars
  PROVE  DiarioEmitido'
<1> SUFFICES ASSUME NEW k \in diario', k \notin diario PROVE k \in Emitidas
  BY EmitidasCresce DEF DiarioEmitido
<1>1. PICK p \in Soltos :
        /\ p \in PedidoFeito
        /\ \E n \in Conteudo(p).aceitos : k = [sessao |-> p.sessao, seq |-> n]
  BY LinhaNova
<1>2. PICK n \in Conteudo(p).aceitos : k = [sessao |-> p.sessao, seq |-> n]
  BY <1>1
<1>3. n \in Numeros(p.envelopes)
  BY <1>1, DecodificadaE
<1>4. PICK e \in p.envelopes : e.seq = n
  BY <1>3 DEF Numeros
<1>5. Visto(p.sessao, e)
  BY DEF Visto
<1>6. p.sessao \in Sessoes /\ e.seq \in 1 .. MaxSequencia /\ e.seq <= emitidos[p.sessao]
  BY <1>5, NumeroE DEF UmConteudo
<1> QED BY <1>2, <1>4, <1>6 DEF Emitidas, ChavesPossiveis

LEMMA DiarioBomMantido ==
  ASSUME TudoLegivel, Base, UmConteudo, DiarioEmitido, DiarioBom, [Next]_vars
  PROVE  DiarioBom'
<1> SUFFICES ASSUME NEW s, NEW e, Visto(s, e)', [sessao |-> s, seq |-> e.seq] \in diario'
             PROVE  Bom(e)
  BY DEF DiarioBom, Bom
<1> DEFINE k == [sessao |-> s, seq |-> e.seq]
<1>1. CASE k \notin diario
  <2>1. PICK p \in Soltos :
          /\ p \in PedidoFeito /\ NoParado
          /\ \E n \in Conteudo(p).aceitos : k = [sessao |-> p.sessao, seq |-> n]
    BY <1>1, LinhaNova
  <2>2. PICK n \in Conteudo(p).aceitos : k = [sessao |-> p.sessao, seq |-> n]
    BY <2>1
  <2>3. PICK f \in p.envelopes : f.seq = n /\ Bom(f)
    BY <2>1, <2>2, AceitasE
  <2>4. s = p.sessao /\ e.seq = f.seq
    BY <2>2, <2>3
  <2>5. Visto(s, f)
    BY <2>4 DEF Visto
  <2>6. ~Amostrar
    <3>1. Amostrar => Emitidas' # Emitidas
      BY EmitidasCresce
    <3>2. Emitidas' = Emitidas
      BY <2>1 DEF NoParado, Emitidas
    <3> QED BY <3>1, <3>2
  <2>7. Visto(s, e)
    BY <2>6, VistoMuda
  <2>8. e = f
    BY <2>4, <2>5, <2>7 DEF UmConteudo
  <2> QED BY <2>3, <2>8
<1>2. CASE k \in diario /\ Visto(s, e)
  BY <1>2 DEF DiarioBom
<1>3. CASE k \in diario /\ ~Visto(s, e)
  <2>1. Amostrar
    BY <1>3, VistoMuda
  <2>2. s = sessao /\ e.seq = emitidos[sessao] + 1
    BY <1>3, <2>1, VistoNovo
  <2>3. [sessao |-> sessao, seq |-> emitidos[sessao] + 1] \notin Emitidas
    BY <2>1, EmitidasCresce
  <2> QED BY <1>3, <2>2, <2>3 DEF DiarioEmitido
<1> QED BY <1>1, <1>2, <1>3

LEMMA ContasNoPasso ==
  ASSUME TudoLegivel, Base, UmConteudo, Contas, [Next]_vars
  PROVE  Contas'
BY SeparadosMantido, DiarioEmitidoMantido, DiarioBomMantido DEF Contas

\* The keys of what is refused now.
LEMMA RecusadasE ==
  ASSUME NEW E, recusados' = recusados \cup {[sessao |-> sessao, envelope |-> e] : e \in E}
  PROVE  Recusadas' = Recusadas \cup Chaves(sessao, E)
<1> DEFINE Par(e) == [sessao |-> sessao, envelope |-> e]
           Novos == {Par(e) : e \in E}
           Chave(x) == [sessao |-> x.sessao, seq |-> x.envelope.seq]
<1>1. Chaves(sessao, E) = {Chave(x) : x \in Novos}
  <2>1. \A e : Chave(Par(e)) = [sessao |-> sessao, seq |-> e.seq]
    OBVIOUS
  <2> HIDE DEF Chave, Par
  <2>2. {Chave(x) : x \in Novos} = {Chave(Par(e)) : e \in E}
    OBVIOUS
  <2>3. Chaves(sessao, E) = {Chave(Par(e)) : e \in E}
    BY <2>1 DEF Chaves
  <2> QED BY <2>2, <2>3
<1>2. recusados' = recusados \cup Novos
  OBVIOUS
<1>3. /\ Recusadas = {Chave(x) : x \in recusados}
      /\ Recusadas' = {Chave(x) : x \in recusados'}
  BY DEF Recusadas
<1> HIDE DEF Novos, Chave
<1> QED BY <1>1, <1>2, <1>3

\* A new envelope, and those that leave for it.
LEMMA CanalNascer ==
  ASSUME Base, Separados, Amostrar
  PROVE  C!Nascer
<1> DEFINE n == emitidos[sessao] + 1
           novo == [sessao |-> sessao, seq |-> n]
           S == Sobra(guardados, Capacidade - 1)
           fora == guardados \ S
           ficam == S \cup espera.envelopes
<1>0. BufferCerto /\ TiposDoNo
  BY DEF Base, NoCerto
<1>1. PICK c \in Conteudos : guardados' = S \cup {Envelope(n, c)}
  BY DEF Amostrar
<1>2. /\ perdidos' = perdidos \cup Chaves(sessao, fora)
      /\ UNCHANGED <<sessao, espera, recusados, diario, entregues, apagados>>
  BY DEF Amostrar, Guardar, oGateway
<1>3. S \subseteq guardados
  BY DEF Sobra
<1> HIDE DEF S
<1>4. Tidos = fora \cup ficam /\ fora \cap ficam = {}
  BY <1>3 DEF Tidos, Separados
<1>5. NumeroUnico(Tidos)
  BY <1>0 DEF BufferCerto
<1> HIDE DEF fora, ficam
<1>6. /\ Chaves(sessao, Tidos) = Chaves(sessao, fora) \cup Chaves(sessao, ficam)
      /\ Chaves(sessao, fora) \cap Chaves(sessao, ficam) = {}
  BY <1>4, <1>5, ChavesPartes
<1>7. Retidas' = Chaves(sessao, ficam) \cup {novo}
  <2>1. Tidos' = ficam \cup {Envelope(n, c)}
    BY <1>1, <1>2 DEF Tidos, ficam
  <2>2. Envelope(n, c).seq = n
    BY DEF Envelope
  <2>3. Retidas' = Chaves(sessao, ficam \cup {Envelope(n, c)})
    BY <1>2, <2>1, RetidasE
  <2> QED BY <2>2, <2>3 DEF Chaves
<1>8. novo \in ChavesPossiveis \ Emitidas /\ Emitidas' = Emitidas \cup {novo}
  <2>1. [Next]_vars
    BY DEF Next, DaOrigem
  <2> QED BY <2>1, EmitidasCresce
<1>9. Retidas' = (Retidas \ Chaves(sessao, fora)) \cup {novo} /\ Chaves(sessao, fora) \subseteq Retidas
  BY <1>6, <1>7, RetidasE
<1>10. Recusadas' = Recusadas
  BY <1>2 DEF Recusadas
<1> HIDE DEF novo
<1> QED BY <1>2, <1>8, <1>9, <1>10 DEF C!Nascer

LEMMA CanalPerder ==
  ASSUME Base, Separados, Devolver, UNCHANGED <<sessao, emitidos, apagados, diario>>
  PROVE  C!Perder
<1> DEFINE S == Sobra(Tidos, Capacidade)
           fora == Tidos \ S
<1>0. BufferCerto /\ TiposDoNo
  BY DEF Base, NoCerto
<1>1. /\ espera' = SemPedido /\ guardados' = S
      /\ perdidos' = perdidos \cup Chaves(sessao, fora)
      /\ UNCHANGED <<entregues, recusados>>
  BY DEF Devolver, Guardar, Tidos
<1>2. S \subseteq Tidos
  BY DEF Sobra
<1> HIDE DEF S
<1>3. Tidos' = S
  BY <1>1 DEF Tidos, SemPedido
<1>4. Tidos = fora \cup S /\ fora \cap S = {}
  BY <1>2
<1>5. NumeroUnico(Tidos)
  BY <1>0 DEF BufferCerto
<1> HIDE DEF fora
<1>6. /\ Chaves(sessao, Tidos) = Chaves(sessao, fora) \cup Chaves(sessao, S)
      /\ Chaves(sessao, fora) \cap Chaves(sessao, S) = {}
  BY <1>4, <1>5, ChavesPartes
<1>7. Retidas = Chaves(sessao, Tidos) /\ Retidas' = Chaves(sessao, S)
  BY <1>3, RetidasE
<1>8. Retidas' = Retidas \ Chaves(sessao, fora) /\ Chaves(sessao, fora) \subseteq Retidas
  BY <1>6, <1>7
<1>9. Recusadas' = Recusadas /\ Emitidas' = Emitidas
  BY <1>1 DEF Recusadas, Emitidas
<1> QED BY <1>1, <1>8, <1>9 DEF C!Perder

\* An answer that settles the batch: what it confirms and what it refuses.
LEMMA CanalResolver ==
  ASSUME Base, Separados, UNCHANGED <<sessao, emitidos, apagados, diario, guardados, perdidos>>,
         espera' = SemPedido,
         NEW fora \in SUBSET espera.envelopes,
         entregues' = entregues \cup Chaves(sessao, espera.envelopes \ fora),
         recusados' = recusados \cup {[sessao |-> sessao, envelope |-> e] : e \in fora},
         Chaves(sessao, espera.envelopes \ fora) \subseteq diario,
         Chaves(sessao, fora) \cap diario = {}
  PROVE  C!Resolver
<1> DEFINE E == Chaves(sessao, espera.envelopes \ fora)
           R == Chaves(sessao, fora)
<1>0. BufferCerto /\ TiposDoNo
  BY DEF Base, NoCerto
<1>1. NumeroUnico(Tidos) /\ NumeroUnico(espera.envelopes)
  BY <1>0 DEF BufferCerto, Tidos, NumeroUnico
<1>2. Tidos' = guardados
  BY DEF Tidos, SemPedido
<1>3. /\ Chaves(sessao, Tidos) = Chaves(sessao, guardados) \cup Chaves(sessao, espera.envelopes)
      /\ Chaves(sessao, guardados) \cap Chaves(sessao, espera.envelopes) = {}
  BY <1>1, ChavesPartes DEF Separados, Tidos
<1>4. Chaves(sessao, espera.envelopes) = E \cup R
  BY DEF Chaves
<1>5. Retidas = Chaves(sessao, Tidos) /\ Retidas' = Chaves(sessao, guardados)
  BY <1>2, RetidasE
<1>6. Recusadas' = Recusadas \cup R
  BY RecusadasE
<1>7. Emitidas' = Emitidas
  BY DEF Emitidas
<1>8. /\ E \subseteq diario /\ R \cap diario = {} /\ entregues' = entregues \cup E
      /\ diario' = diario /\ perdidos' = perdidos /\ apagados' = apagados
  OBVIOUS
<1> HIDE DEF E, R
<1>9. Retidas' = Retidas \ (E \cup R) /\ E \in SUBSET (Retidas \cap diario) /\ R \in SUBSET (Retidas \ diario)
  BY <1>3, <1>4, <1>5, <1>8
<1> QED BY <1>6, <1>7, <1>8, <1>9 DEF C!Resolver

\* The answer a node waits for.
LEMMA CanalChegar ==
  ASSUME TudoLegivel, Base, RecusaJusta, Contas, NEW t \in Tratadores, Chegar(t)
  PROVE  C!Perder \/ C!Resolver
<1>1. /\ espera \in PedidoFeito /\ tratador[t].fase = "responder" /\ servindo[t] = espera
      /\ UNCHANGED <<sessao, emitidos, apagados, diario>>
      /\ espera.sessao = sessao
  BY ChegarE
<1>2. tratador[t].categoria \notin {"entrada_invalida", "nao_autenticado"}
  BY <1>1 DEF RecusaJusta, EsperaLegivel
<1>3. CASE Devolver
  BY <1>1, <1>3, CanalPerder DEF Contas
<1>4. CASE tratador[t].categoria = "nenhuma" /\ Confirmada(Conteudo(espera).rejeitados)
  <2> DEFINE fora == {e \in espera.envelopes : e.seq \in Conteudo(espera).rejeitados}
  <2>1. /\ espera' = SemPedido
        /\ entregues' = entregues \cup Chaves(sessao, espera.envelopes \ fora)
        /\ recusados' = recusados \cup {[sessao |-> sessao, envelope |-> e] : e \in fora}
        /\ UNCHANGED <<guardados, perdidos>>
    BY <1>1, <1>4 DEF Confirmada
  <2>2. \A e \in espera.envelopes \ fora : [sessao |-> sessao, seq |-> e.seq] \in diario
    BY <1>4, ConfirmadaE
  <2>3. \A e \in fora : ~Bom(e)
    <3>1. NumeroUnico(espera.envelopes)
      BY DEF Base, NoCerto, BufferCerto, NumeroUnico, Tidos
    <3> QED BY <1>1, <3>1, RejeitadoE DEF Bom
  <2>4. \A e \in fora : Visto(sessao, e)
    BY DEF Visto, Tidos
  <2>5. \A e \in fora : [sessao |-> sessao, seq |-> e.seq] \notin diario
    BY <2>3, <2>4 DEF Contas, DiarioBom
  <2>6. fora \in SUBSET espera.envelopes
    OBVIOUS
  <2> HIDE DEF fora
  <2>7. Chaves(sessao, espera.envelopes \ fora) \subseteq diario
    BY <2>2 DEF Chaves
  <2>8. Chaves(sessao, fora) \cap diario = {}
    BY <2>5 DEF Chaves
  <2>9. C!Resolver
    BY <1>1, <2>1, <2>6, <2>7, <2>8, CanalResolver DEF Contas
  <2> QED BY <2>9
<1> QED BY <1>2, <1>3, <1>4, TratarE

\* What was refused has no row.
LEMMA RecusadasSemLinha ==
  ASSUME DiarioBom', RecusadoSoInvalido', TiposDoNo'
  PROVE  Recusadas' \cap diario' = {}
<1> SUFFICES ASSUME NEW x \in recusados', [sessao |-> x.sessao, seq |-> x.envelope.seq] \in diario'
             PROVE  FALSE
  BY DEF Recusadas
<1>1. [sessao |-> x.sessao, envelope |-> x.envelope] \in recusados'
  BY DEF TiposDoNo
<1>2. Visto(x.sessao, x.envelope)'
  BY <1>1 DEF Visto
<1> QED BY <1>2 DEF DiarioBom, RecusadoSoInvalido, Bom

LEMMA CanalPasso ==
  ASSUME TudoLegivel, Base, Base', RecusaJusta, RecusaJusta', Contas, Contas',
         [Next]_vars
  PROVE  [C!Next]_(C!vars)
<1>1. CASE Amostrar
  BY <1>1, CanalNascer DEF Contas, C!Next
<1>2. CASE Enviar
  <2>1. Tidos' = Tidos
    BY <1>2, NoEnviar DEF Base
  <2>2. UNCHANGED <<sessao, emitidos, diario, entregues, recusados, perdidos, apagados>>
    BY <1>2 DEF Enviar, historia, oGateway
  <2>3. UNCHANGED <<Emitidas, Retidas, Recusadas>>
    BY <2>1, <2>2, RetidasE DEF Emitidas, Recusadas
  <2> QED BY <2>2, <2>3 DEF C!vars
<1>3. CASE Religar
  <2>1. Tidos' = {}
    BY <1>3, NoReligar DEF Base
  <2>2. /\ UNCHANGED <<emitidos, diario, entregues, recusados, perdidos>>
        /\ apagados' = apagados \cup Retidas
    BY <1>3 DEF Religar, oGateway
  <2>3. Retidas' = {}
    <3>1. Retidas' = Chaves(sessao', Tidos')
      BY RetidasE
    <3> QED BY <2>1, <3>1 DEF Chaves
  <2>4. UNCHANGED <<Emitidas, Recusadas>>
    BY <2>2 DEF Emitidas, Recusadas
  <2>5. C!Apagar
    BY <2>2, <2>3, <2>4 DEF C!Apagar
  <2> QED BY <2>5 DEF C!Next
<1>4. CASE Desistir /\ diario' = diario
  <2>1. Devolver /\ UNCHANGED <<sessao, emitidos, apagados, diario>>
    BY <1>4 DEF Desistir
  <2>2. C!Perder
    BY <2>1, CanalPerder DEF Contas
  <2> QED BY <2>2 DEF C!Next
<1>5. ASSUME NEW t \in Tratadores, Chegar(t)
      PROVE  [C!Next]_(C!vars)
  BY <1>5, CanalChegar DEF C!Next
<1>6. CASE NoParado
  <2>1. UNCHANGED <<sessao, emitidos, guardados, espera, entregues, recusados, perdidos, apagados>>
    BY <1>6 DEF NoParado, historia
  <2>2. UNCHANGED <<Emitidas, Retidas, Recusadas>>
    BY <2>1 DEF Emitidas, Retidas, Recusadas
  <2>3. diario \subseteq diario'
    BY DiarioCresce
  <2>4. diario' \subseteq Emitidas
    BY <2>2 DEF Contas, DiarioEmitido
  <2>5. Recusadas' \cap diario' = {}
    <3>1. TiposDoNo' /\ DiarioBom' /\ RecusadoSoInvalido'
      BY DEF Base, NoCerto, Contas, RecusaJusta
    <3> QED BY <3>1, RecusadasSemLinha
  <2>6. diario' \ diario \in SUBSET (Emitidas \ Recusadas) /\ diario' = diario \cup (diario' \ diario)
    BY <2>2, <2>3, <2>4, <2>5
  <2>7. C!Gravar
    BY <2>1, <2>2, <2>6 DEF C!Gravar
  <2> QED BY <2>7 DEF C!Next
<1> QED BY <1>1, <1>2, <1>3, <1>4, <1>5, <1>6, PassoDoNoE DEF PassoDoNo

\* The abstract promises, from the abstract steps alone.
LEMMA CanalPromete ==
  ASSUME C!UmDestino, C!DiarioHonesto, [C!Next]_(C!vars)
  PROVE  C!UmDestino' /\ C!DiarioHonesto'
<1>1. CASE C!Nascer
  <2>1. PICK novo \in ChavesPossiveis \ Emitidas, S \in SUBSET Retidas :
          /\ Emitidas' = Emitidas \cup {novo}
          /\ Retidas' = (Retidas \ S) \cup {novo}
          /\ perdidos' = perdidos \cup S
          /\ UNCHANGED <<diario, entregues, Recusadas, apagados>>
    BY <1>1, Zenon DEF C!Nascer
  <2> QED BY <2>1 DEF C!UmDestino, C!DiarioHonesto
<1>2. CASE C!Gravar
  BY <1>2 DEF C!Gravar, C!UmDestino, C!DiarioHonesto
<1>3. CASE C!Resolver
  <2>1. PICK E \in SUBSET (Retidas \cap diario), R \in SUBSET (Retidas \ diario) :
          /\ Retidas' = Retidas \ (E \cup R)
          /\ entregues' = entregues \cup E
          /\ Recusadas' = Recusadas \cup R
          /\ UNCHANGED <<Emitidas, diario, perdidos, apagados>>
    BY <1>3, Zenon DEF C!Resolver
  <2> QED BY <2>1 DEF C!UmDestino, C!DiarioHonesto
<1>4. CASE C!Perder
  BY <1>4 DEF C!Perder, C!UmDestino, C!DiarioHonesto
<1>5. CASE C!Apagar
  BY <1>5 DEF C!Apagar, C!UmDestino, C!DiarioHonesto
<1>6. CASE UNCHANGED C!vars
  BY <1>6 DEF C!vars, C!UmDestino, C!DiarioHonesto
<1> QED BY <1>1, <1>2, <1>3, <1>4, <1>5, <1>6 DEF C!Next

LEMMA CanalNoInicio ==
  ASSUME Init
  PROVE  C!Init /\ Separados /\ DiarioEmitido /\ DiarioBom
<1>1. /\ diario = {} /\ entregues = {} /\ perdidos = {} /\ apagados = {} /\ recusados = {}
      /\ guardados = {} /\ espera.envelopes = {} /\ \A s \in Sessoes : emitidos[s] = 0
  BY DEF Init, G!Init, SemPedido
<1>2. Emitidas = {}
  <2>1. \A k \in ChavesPossiveis : k.sessao \in Sessoes /\ k.seq \in Nat /\ 0 < k.seq
    BY LimitesDaEntrega DEF ChavesPossiveis
  <2>2. \A k \in ChavesPossiveis : ~(k.seq <= emitidos[k.sessao])
    BY <1>1, <2>1
  <2> QED BY <2>2 DEF Emitidas
<1>3. Retidas = {} /\ Recusadas = {}
  BY <1>1 DEF Retidas, Chaves, Recusadas
<1> QED BY <1>1, <1>2, <1>3 DEF C!Init, Separados, DiarioEmitido, DiarioBom

LEMMA ContasSempre ==
  ASSUME TudoLegivel
  PROVE  Spec => []Contas
<1>1. Init => Contas
  BY CanalNoInicio DEF Contas
<1>2. Base /\ UmConteudo /\ Contas /\ [Next]_vars => Contas'
  BY ContasNoPasso
<1> QED BY <1>1, <1>2, BaseSempre, ConteudosSempreUnicos, PTL DEF Spec

\* The node, the network and the gateway implement the module Canal: batches
\* that are lost, given up, served twice, late or half, answers that are lost,
\* goroutines, restarts and a saturated buffer leave every envelope with one
\* fate.  (Where every identifier is valid.)
THEOREM EntregaImplementaCanal ==
  ASSUME TudoLegivel
  PROVE  Spec => C!Spec
<1>1. Init => C!Init
  BY CanalNoInicio
<1>2. Base /\ Base' /\ RecusaJusta /\ RecusaJusta' /\ Contas /\ Contas' /\ [Next]_vars
      => [C!Next]_(C!vars)
  BY CanalPasso
<1> QED BY <1>1, <1>2, BaseSempre, RecusaSempreJusta, ContasSempre, PTL DEF Spec, C!Spec

\* Every envelope that was given a number is held, delivered, refused, pushed
\* out or gone with the memory, and only one of these; what was delivered has
\* its row, what was refused has none, and no row is of an envelope that no
\* session gave.
THEOREM SempreUmDestino ==
  ASSUME TudoLegivel
  PROVE  Spec => [](C!UmDestino /\ C!DiarioHonesto)
<1>1. Init => C!UmDestino /\ C!DiarioHonesto
  BY CanalNoInicio DEF C!Init, C!UmDestino, C!DiarioHonesto
<1>2. C!UmDestino /\ C!DiarioHonesto /\ [C!Next]_(C!vars) => (C!UmDestino /\ C!DiarioHonesto)'
  BY CanalPromete
<1> QED BY <1>1, <1>2, EntregaImplementaCanal, PTL DEF Spec, C!Spec

\* A fate is for good, and so is a row.
THEOREM DestinoSempreDefinitivo ==
  ASSUME TudoLegivel
  PROVE  Spec => C!DestinoDefinitivo
<1>1. [C!Next]_(C!vars) =>
        [/\ entregues \subseteq entregues' /\ Recusadas \subseteq Recusadas'
         /\ perdidos \subseteq perdidos' /\ apagados \subseteq apagados'
         /\ diario \subseteq diario']_(C!vars)
  BY DEF C!Next, C!Nascer, C!Gravar, C!Resolver, C!Perder, C!Apagar, C!vars
<1> QED BY <1>1, EntregaImplementaCanal, PTL DEF C!Spec, C!DestinoDefinitivo

-----------------------------------------------------------------------------
(* The buffer of this module, a set with counts, is that of the module     *)
(* Buffer, a sequence with the methods of the code.                        *)

B == INSTANCE BufferTeoremas

LEMMA MesmaCardinalidade == \A S : B!Cardinality(S) = Cardinality(S)
BY DEF B!Cardinality, Cardinality

\* What the buffer of the code tells of an envelope.
Retratado(item, e) ==
  item.seq = e.seq /\ item.classe = Definicoes[e.conteudo.tipo]

\* s holds the envelopes of E, in the order of their numbers.
Retrata(s, E) ==
  /\ s \in Seq(B!Item) /\ B!Crescente(s)
  /\ \A e \in E : \E i \in DOMAIN s : Retratado(s[i], e)
  /\ \A i \in DOMAIN s : \E e \in E : Retratado(s[i], e)

\* Envelopes a node may hold: of types of the catalogue, no number twice.
DoNo(E) ==
  /\ E \in SUBSET EnvelopesPossiveis /\ NumeroUnico(E)
  /\ \A e \in E : Buscar(e.conteudo.tipo)

\* Where each one is in the sequence.
Lugar(s, E) == [e \in E |-> CHOOSE i \in DOMAIN s : Retratado(s[i], e)]

LEMMA LugarE ==
  ASSUME NEW s, NEW E, DoNo(E), Retrata(s, E)
  PROVE  /\ B!Enumera(Lugar(s, E), E, s)
         /\ \A e \in E : Lugar(s, E)[e] \in DOMAIN s /\ Retratado(s[Lugar(s, E)[e]], e)
<1> DEFINE p == Lugar(s, E)
<1>1. \A e \in E : p[e] \in DOMAIN s /\ Retratado(s[p[e]], e)
  BY DEF Retrata, Lugar
<1>2. p \in [E -> DOMAIN s]
  BY <1>1 DEF Lugar
<1> HIDE DEF p
<1>3. \A x, y \in E : p[x] = p[y] => x = y
  BY <1>1 DEF Retratado, DoNo, NumeroUnico
<1>4. ASSUME NEW i \in DOMAIN s PROVE \E e \in E : p[e] = i
  <2>1. PICK e \in E : Retratado(s[i], e)
    BY DEF Retrata
  <2>2. s[i].seq = s[p[e]].seq /\ p[e] \in DOMAIN s
    BY <1>1, <2>1 DEF Retratado
  <2>3. i = p[e]
    BY <2>2, B!CrescenteInjetiva DEF Retrata
  <2> QED BY <2>3
<1>5. B!Enumera(p, E, s)
  BY <1>2, <1>3, <1>4 DEF B!Enumera
<1> QED BY <1>1, <1>5 DEF p

\* A sequence that keeps of s the items of F.
LEMMA RetrataParte ==
  ASSUME NEW s, NEW E, DoNo(E), Retrata(s, E), NEW F \in SUBSET E,
         NEW r \in Seq(B!Item), B!Crescente(r), B!Itens(r) \subseteq B!Itens(s),
         \A e \in E : s[Lugar(s, E)[e]] \in B!Itens(r) <=> e \in F
  PROVE  Retrata(r, F)
<1> DEFINE p == Lugar(s, E)
<1>1. /\ B!Enumera(p, E, s)
      /\ \A e \in E : p[e] \in DOMAIN s /\ Retratado(s[p[e]], e)
  BY LugarE
<1>2. \A e \in E : s[p[e]] \in B!Itens(r) <=> e \in F
  OBVIOUS
<1> HIDE DEF p
<1>3. ASSUME NEW e \in F PROVE \E i \in DOMAIN r : Retratado(r[i], e)
  <2>1. s[p[e]] \in B!Itens(r) /\ Retratado(s[p[e]], e)
    BY <1>1, <1>2
  <2>2. PICK i \in DOMAIN r : r[i] = s[p[e]]
    BY <2>1 DEF B!Itens
  <2> QED BY <2>1, <2>2
<1>4. ASSUME NEW i \in DOMAIN r PROVE \E e \in F : Retratado(r[i], e)
  <2>1. r[i] \in B!Itens(r)
    BY DEF B!Itens
  <2>2. r[i] \in B!Itens(s)
    BY <2>1
  <2>3. PICK j \in DOMAIN s : r[i] = s[j]
    BY <2>2 DEF B!Itens
  <2>4. PICK e \in E : p[e] = j
    BY <1>1 DEF B!Enumera
  <2>5. e \in F
    BY <1>2, <2>1, <2>3, <2>4
  <2> QED BY <1>1, <2>3, <2>4, <2>5
<1> QED BY <1>3, <1>4 DEF Retrata

\* The order in which envelopes leave is that of their positions.
LEMMA MesmaOrdem ==
  ASSUME NEW s, NEW E, DoNo(E), Retrata(s, E), NEW x \in E, NEW y \in E
  PROVE  /\ x.seq < y.seq <=> Lugar(s, E)[x] < Lugar(s, E)[y]
         /\ SaiAntes(x, y) <=> B!SaiAntes(s, Lugar(s, E)[x], Lugar(s, E)[y])
<1> DEFINE p == Lugar(s, E)
<1>1. \A e \in E : p[e] \in DOMAIN s /\ Retratado(s[p[e]], e)
  BY LugarE
<1>2. DOMAIN s \in SUBSET Nat /\ \A i \in DOMAIN s : s[i].seq \in Nat
  BY B!Dominio DEF Retrata
<1> HIDE DEF p
<1>3. x.seq < y.seq <=> p[x] < p[y]
  <2>1. p[x] < p[y] => s[p[x]].seq < s[p[y]].seq
    BY <1>1 DEF Retrata, B!Crescente
  <2>2. p[y] < p[x] => s[p[y]].seq < s[p[x]].seq
    BY <1>1 DEF Retrata, B!Crescente
  <2>3. /\ p[x] \in Nat /\ p[y] \in Nat /\ s[p[x]].seq \in Nat /\ s[p[y]].seq \in Nat
        /\ s[p[x]].seq = x.seq /\ s[p[y]].seq = y.seq
    BY <1>1, <1>2 DEF Retratado
  <2>4. p[x] = p[y] => x.seq = y.seq
    BY <2>3
  <2> QED BY <2>1, <2>2, <2>3, <2>4
<1>4. /\ Descartavel(x) <=> s[p[x]].classe = "amostra"
      /\ Descartavel(y) <=> s[p[y]].classe = "amostra"
      /\ s[p[x]].classe \in {"amostra", "evento"} /\ s[p[y]].classe \in {"amostra", "evento"}
  <2>1. \A e \in E : Definicoes[e.conteudo.tipo] \in {"amostra", "evento"}
    BY DEF DoNo, Buscar, Definicoes
  <2>2. \A e \in E : s[p[e]].classe = Definicoes[e.conteudo.tipo]
    BY <1>1 DEF Retratado
  <2> HIDE DEF Definicoes
  <2> QED BY <2>1, <2>2 DEF Descartavel, PoliticaDeSaturacao
<1>5. (Descartavel(x) = Descartavel(y)) <=> s[p[x]].classe = s[p[y]].classe
  <2>1. Descartavel(x) \in BOOLEAN /\ Descartavel(y) \in BOOLEAN
    BY DEF Descartavel
  <2>2. (Descartavel(x) = Descartavel(y)) <=> (Descartavel(x) <=> Descartavel(y))
    BY <2>1, Zenon
  <2> QED BY <1>4, <2>2
<1>6. SaiAntes(x, y) <=> IF s[p[x]].classe = s[p[y]].classe THEN p[x] < p[y]
                         ELSE s[p[x]].classe = "amostra"
  BY <1>3, <1>4, <1>5, Zenon DEF SaiAntes
<1>7. SaiAntes(x, y) <=> B!SaiAntes(s, p[x], p[y])
  BY <1>4, <1>6 DEF B!SaiAntes
<1> QED BY <1>3, <1>7 DEF p

\* What the policy leaves of an overfull buffer is what it leaves here.
LEMMA SobraEAparar ==
  ASSUME NEW s, NEW E, DoNo(E), Retrata(s, E), NEW cap \in Nat
  PROVE  Retrata(B!Aparar(s, B!Excesso(s, cap)), Sobra(E, cap))
<1> DEFINE p == Lugar(s, E)
           r == B!Aparar(s, B!Excesso(s, cap))
<1>1. s \in Seq(B!Item) /\ B!Crescente(s) /\ B!Enumera(p, E, s)
  BY LugarE DEF Retrata
<1>2. r \in Seq(B!Item) /\ B!Crescente(r) /\ B!Itens(r) \subseteq B!Itens(s)
  <2>1. B!Excesso(s, cap) \in 0 .. Len(s)
    <3>1. Len(s) \in Nat
      BY <1>1
    <3>2. \A n, c \in Nat : (IF n > c THEN n - c ELSE 0) \in 0 .. n
      OBVIOUS
    <3> QED BY <3>1, <3>2 DEF B!Excesso
  <2> QED BY <1>1, <2>1, B!ApararFatos
<1> HIDE DEF p, r
<1>3. ASSUME NEW e \in E
      PROVE  s[p[e]] \in B!Itens(r) <=> e \in Sobra(E, cap)
  <2>1. s[p[e]] \in B!Itens(r)
        <=> B!Cardinality({y \in E \ {e} : B!SaiAntes(s, p[e], p[y])}) < cap
    BY <1>1, B!ApararPorContagem DEF r
  <2>2. \A y \in E : B!SaiAntes(s, p[e], p[y]) <=> SaiAntes(e, y)
    BY MesmaOrdem DEF p
  <2>3. {y \in E \ {e} : B!SaiAntes(s, p[e], p[y])} = {y \in E \ {e} : SaiAntes(e, y)}
    BY <2>2
  <2> QED BY <2>1, <2>3, MesmaCardinalidade DEF Sobra
<1>4. Sobra(E, cap) \in SUBSET E
  BY DEF Sobra
<1>5. Retrata(r, Sobra(E, cap))
  BY <1>2, <1>3, <1>4, RetrataParte DEF p
<1> QED BY <1>5 DEF r

\* A batch takes the same, and leaves the same.
LEMMA LoteEDrenados ==
  ASSUME NEW s, NEW E, DoNo(E), Retrata(s, E)
  PROVE  /\ Retrata(B!Drenados(s, EnvelopesPorRemessa), Lote(E))
         /\ Retrata(B!SemDrenados(s, EnvelopesPorRemessa), E \ Lote(E))
<1> DEFINE p == Lugar(s, E)
           a == B!Drenados(s, EnvelopesPorRemessa)
           b == B!SemDrenados(s, EnvelopesPorRemessa)
<1>0. EnvelopesPorRemessa \in Nat \ {0}
  BY LoteCabe, LimitesDoContrato
<1>1. s \in Seq(B!Item) /\ B!Crescente(s) /\ B!Enumera(p, E, s)
  BY LugarE DEF Retrata
<1>2. a \in Seq(B!Item) /\ b \in Seq(B!Item) /\ a \o b = s
  BY <1>0, <1>1, B!DrenarFatos
<1> HIDE DEF a, b, p
<1>3. /\ B!Crescente(a) /\ B!Crescente(b)
      /\ B!Itens(a) \subseteq B!Itens(s) /\ B!Itens(b) \subseteq B!Itens(s)
  BY <1>1, <1>2, B!ConcatFatos
<1>4. ASSUME NEW e \in E
      PROVE  /\ s[p[e]] \in B!Itens(a) <=> e \in Lote(E)
             /\ s[p[e]] \in B!Itens(b) <=> e \in E \ Lote(E)
  <2>1. /\ s[p[e]] \in B!Itens(a)
           <=> B!Cardinality({y \in E : p[y] < p[e]}) < EnvelopesPorRemessa
        /\ s[p[e]] \in B!Itens(b)
           <=> ~(B!Cardinality({y \in E : p[y] < p[e]}) < EnvelopesPorRemessa)
    BY <1>0, <1>1, B!DrenadosPorContagem DEF a, b
  <2>2. \A y \in E : p[y] < p[e] <=> y.seq < e.seq
    BY MesmaOrdem DEF p
  <2>3. {y \in E : p[y] < p[e]} = {y \in E : y.seq < e.seq}
    BY <2>2
  <2> QED BY <2>1, <2>3, MesmaCardinalidade DEF Lote
<1>5. Lote(E) \in SUBSET E /\ E \ Lote(E) \in SUBSET E
  BY DEF Lote
<1>6. Retrata(a, Lote(E))
  BY <1>2, <1>3, <1>4, <1>5, RetrataParte DEF p
<1>7. Retrata(b, E \ Lote(E))
  BY <1>2, <1>3, <1>4, <1>5, RetrataParte DEF p
<1> QED BY <1>6, <1>7 DEF a, b

\* The batch in front of what waits, all of it older.
LEMMA RetrataJuntos ==
  ASSUME NEW l, NEW P, NEW s, NEW V, Retrata(l, P), Retrata(s, V),
         NumeroUnico(P \cup V), P \cap V = {}, P \cup V \in SUBSET EnvelopesPossiveis,
         \A e \in P, f \in V : e.seq < f.seq
  PROVE  Retrata(l \o s, P \cup V)
<1>1. l \in Seq(B!Item) /\ s \in Seq(B!Item) /\ B!Crescente(l) /\ B!Crescente(s)
  BY DEF Retrata
<1>2. /\ l \o s \in Seq(B!Item)
      /\ B!Itens(l \o s) = B!Itens(l) \cup B!Itens(s)
      /\ B!Crescente(l \o s) <=>
           /\ B!Crescente(l) /\ B!Crescente(s)
           /\ \A m \in B!Seqs(B!Itens(l)), n \in B!Seqs(B!Itens(s)) : m < n
  BY <1>1, B!ConcatFatos
<1>3. \A x \in B!Itens(l) : \E e \in P : Retratado(x, e)
  BY DEF Retrata, B!Itens
<1>4. \A x \in B!Itens(s) : \E e \in V : Retratado(x, e)
  BY DEF Retrata, B!Itens
<1>5. \A m \in B!Seqs(B!Itens(l)), n \in B!Seqs(B!Itens(s)) : m < n
  BY <1>3, <1>4 DEF B!Seqs, Retratado
<1>6. \A e \in P : \E x \in B!Itens(l) : Retratado(x, e)
  BY DEF Retrata, B!Itens
<1>7. \A e \in V : \E x \in B!Itens(s) : Retratado(x, e)
  BY DEF Retrata, B!Itens
<1>8. \A e \in P \cup V : \E x \in B!Itens(l \o s) : Retratado(x, e)
  BY <1>2, <1>6, <1>7
<1>9. \A x \in B!Itens(l \o s) : \E e \in P \cup V : Retratado(x, e)
  BY <1>2, <1>3, <1>4
<1> QED BY <1>1, <1>2, <1>5, <1>8, <1>9 DEF Retrata, B!Itens

\* As many items as envelopes.
LEMMA RetrataTamanho ==
  ASSUME NEW s, NEW E, DoNo(E), Retrata(s, E)
  PROVE  IsFiniteSet(E) /\ Len(s) \in Nat /\ Cardinality(E) = Len(s)
<1> DEFINE p == Lugar(s, E)
<1>1. s \in Seq(B!Item) /\ B!Enumera(p, E, s)
  BY LugarE DEF Retrata
<1>2. \A e \in E : p[e] \in DOMAIN s
  BY LugarE
<1> HIDE DEF p
<1>3. {e \in E : p[e] \in DOMAIN s} = E
  BY <1>2
<1>4. /\ B!IsFiniteSet(E)
      /\ B!Cardinality(E) = B!Cardinality(DOMAIN s)
      /\ B!Cardinality(DOMAIN s) = Len(s) /\ Len(s) \in Nat
  <2> DEFINE K == DOMAIN s
  <2>1. K \in SUBSET DOMAIN s /\ {x \in E : p[x] \in K} = E
    BY <1>3
  <2> HIDE DEF K
  <2>2. /\ B!IsFiniteSet({x \in E : p[x] \in K})
        /\ B!Cardinality({x \in E : p[x] \in K}) = B!Cardinality(K)
    BY <1>1, <2>1, B!MesmaConta
  <2>3. B!IsFiniteSet(E) /\ B!Cardinality(E) = B!Cardinality(K)
    BY <2>1, <2>2
  <2> QED BY <1>1, <2>3, B!Dominio DEF K
<1>5. IsFiniteSet(E)
  BY <1>4 DEF B!IsFiniteSet, IsFiniteSet
<1> QED BY <1>4, <1>5, MesmaCardinalidade

\* The new item behind what is left.
LEMMA SobraEAcrescentar ==
  ASSUME NEW s, NEW E, DoNo(E), Retrata(s, E), NEW cap \in Nat \ {0},
         Cardinality(E) <= cap,
         NEW item \in B!Item, NEW novo, Retratado(item, novo),
         \A e \in E : e.seq < item.seq
  PROVE  Retrata(B!Acrescentar(s, item, cap), Sobra(E, cap - 1) \cup {novo})
<1> DEFINE r == B!Aparar(s, B!Excesso(s, cap - 1))
           S == Sobra(E, cap - 1)
           u == <<item>>
<1>1. Len(s) \in Nat /\ Len(s) <= cap
  BY RetrataTamanho
<1>2. B!VagasParaAcrescentar(s, cap) = B!Excesso(s, cap - 1)
  BY <1>1 DEF B!VagasParaAcrescentar, B!Excesso
<1>3. Retrata(r, S)
  BY SobraEAparar
<1>4. S \subseteq E
  BY DEF Sobra
<1>5. B!Acrescentar(s, item, cap) = Append(r, item)
  BY <1>2 DEF B!Acrescentar
<1> HIDE DEF r, S
<1>6. r \in Seq(B!Item) /\ u \in Seq(B!Item) /\ Append(r, item) = r \o u
  BY <1>3 DEF Retrata
<1>7. /\ DOMAIN u = {1} /\ u[1] = item
  OBVIOUS
<1> HIDE DEF u
<1>8. B!Itens(u) = {item}
  BY <1>7 DEF B!Itens
<1>9. /\ r \o u \in Seq(B!Item)
      /\ B!Itens(r \o u) = B!Itens(r) \cup {item}
      /\ B!Crescente(r \o u) <=>
           /\ B!Crescente(r) /\ B!Crescente(u)
           /\ \A m \in B!Seqs(B!Itens(r)), n \in B!Seqs(B!Itens(u)) : m < n
  BY <1>6, <1>8, B!ConcatFatos
<1>10. B!Crescente(u)
  BY <1>7 DEF B!Crescente
<1>11. \A x \in B!Itens(r) : \E e \in S : Retratado(x, e)
  BY <1>3 DEF Retrata, B!Itens
<1>12. \A e \in S : \E x \in B!Itens(r) : Retratado(x, e)
  BY <1>3 DEF Retrata, B!Itens
<1>13. \A m \in B!Seqs(B!Itens(r)), n \in B!Seqs(B!Itens(u)) : m < n
  BY <1>4, <1>8, <1>11 DEF B!Seqs, Retratado
<1>14. \A e \in S \cup {novo} : \E x \in B!Itens(r \o u) : Retratado(x, e)
  BY <1>9, <1>12
<1>15. \A x \in B!Itens(r \o u) : \E e \in S \cup {novo} : Retratado(x, e)
  BY <1>9, <1>11
<1>16. B!Crescente(r \o u)
  BY <1>3, <1>9, <1>10, <1>13 DEF Retrata
<1>17. Retrata(r \o u, S \cup {novo})
  BY <1>9, <1>14, <1>15, <1>16 DEF Retrata, B!Itens
<1> QED BY <1>5, <1>6, <1>17 DEF S

LEMMA RetrataNada == Retrata(<<>>, {})
BY DEF Retrata, B!Crescente

-----------------------------------------------------------------------------
(* What the node holds is, at every step, what the methods of the buffer   *)
(* make of the sequence it held.                                           *)

\* The node names only types of the catalogue.
ConteudosDoCatalogo == \A c \in Conteudos : Buscar(c.tipo)

\* The batch is older than all that waits.
LoteNaFrente == \A e \in espera.envelopes, f \in guardados : e.seq < f.seq

EmSequencia ==
  /\ LoteNaFrente
  /\ \E s : Retrata(s, guardados)
  /\ \E l : Retrata(l, espera.envelopes)

\* The items of a batch and those that wait, before a step, and after it.
PassoDoBuffer ==
  \A s, l : Retrata(s, guardados) /\ Retrata(l, espera.envelopes) =>
    /\ Amostrar =>
         \E item \in B!Item : /\ item.seq = emitidos'[sessao]
                              /\ Retrata(B!Acrescentar(s, item, Capacidade), guardados')
    /\ Enviar =>
         /\ Retrata(B!Drenados(s, EnvelopesPorRemessa), espera'.envelopes)
         /\ Retrata(B!SemDrenados(s, EnvelopesPorRemessa), guardados')
    /\ Devolver => Retrata(B!Devolver(s, l, Capacidade), guardados')

LEMMA TidosDoNo ==
  ASSUME ConteudosDoCatalogo, NoCerto
  PROVE  DoNo(Tidos) /\ DoNo(guardados) /\ DoNo(espera.envelopes)
<1>1. Tidos \in SUBSET EnvelopesPossiveis /\ NumeroUnico(Tidos)
  BY TidosTipo DEF NoCerto, BufferCerto
<1>2. \A e \in EnvelopesPossiveis : Buscar(e.conteudo.tipo)
  BY DEF EnvelopesPossiveis, Envelope, ConteudosDoCatalogo
<1> QED BY <1>1, <1>2 DEF DoNo, Tidos, NumeroUnico

\* The batch in front, and what does not fit pushed out by class and age.
LEMMA SobraEDevolver ==
  ASSUME ConteudosDoCatalogo, NoCerto, LoteNaFrente,
         NEW s, NEW l, Retrata(s, guardados), Retrata(l, espera.envelopes)
  PROVE  Retrata(B!Devolver(s, l, Capacidade), Sobra(guardados \cup espera.envelopes, Capacidade))
<1> DEFINE P == espera.envelopes
           V == guardados
<1>1. /\ NumeroUnico(P \cup V) /\ P \cup V \in SUBSET EnvelopesPossiveis /\ DoNo(P \cup V)
      /\ P \cup V = guardados \cup espera.envelopes
  BY TidosDoNo DEF Tidos, DoNo
<1>2. \A e \in P, f \in V : e.seq < f.seq
  BY DEF LoteNaFrente
<1>3. P \cap V = {}
  <2>1. \A e \in P : e.seq \in Nat
    BY <1>1, NumeroE
  <2> QED BY <1>2, <2>1
<1>4. Retrata(l, P) /\ Retrata(s, V)
  OBVIOUS
<1>5. Capacidade \in Nat
  BY LimitesDaEntrega
<1> HIDE DEF P, V
<1>6. Retrata(l \o s, P \cup V)
  BY <1>1, <1>2, <1>3, <1>4, RetrataJuntos
<1>7. Retrata(B!Aparar(l \o s, B!Excesso(l \o s, Capacidade)), Sobra(P \cup V, Capacidade))
  BY <1>1, <1>5, <1>6, SobraEAparar
<1> QED BY <1>1, <1>7 DEF B!Devolver

LEMMA PassoDoBufferE ==
  ASSUME ConteudosDoCatalogo, NoCerto, LoteNaFrente
  PROVE  PassoDoBuffer
<1> SUFFICES ASSUME NEW s, NEW l, Retrata(s, guardados), Retrata(l, espera.envelopes)
             PROVE  /\ Amostrar =>
                         \E item \in B!Item :
                           /\ item.seq = emitidos'[sessao]
                           /\ Retrata(B!Acrescentar(s, item, Capacidade), guardados')
                    /\ Enviar =>
                         /\ Retrata(B!Drenados(s, EnvelopesPorRemessa), espera'.envelopes)
                         /\ Retrata(B!SemDrenados(s, EnvelopesPorRemessa), guardados')
                    /\ Devolver => Retrata(B!Devolver(s, l, Capacidade), guardados')
  BY DEF PassoDoBuffer
<1>1. DoNo(guardados)
  BY TidosDoNo
<1>2. ASSUME Amostrar
      PROVE  \E item \in B!Item :
               /\ item.seq = emitidos'[sessao]
               /\ Retrata(B!Acrescentar(s, item, Capacidade), guardados')
  <2> DEFINE n == emitidos[sessao] + 1
  <2>1. PICK c \in Conteudos : guardados' = Sobra(guardados, Capacidade - 1) \cup {Envelope(n, c)}
    BY <1>2 DEF Amostrar
  <2>2. emitidos'[sessao] = n /\ n \in Nat /\ emitidos[sessao] \in Nat
    BY <1>2, LimitesDaEntrega DEF Amostrar, NoCerto, TiposDoNo
  <2>3. Envelope(n, c).seq = n /\ Envelope(n, c).conteudo = c
    BY DEF Envelope
  <2>4. Definicoes[c.tipo] \in {"amostra", "evento"}
    BY DEF ConteudosDoCatalogo, Buscar, Definicoes
  <2> DEFINE classe == Definicoes[c.tipo]
             item == [seq |-> n, classe |-> classe, relata |-> 0]
  <2>5. /\ item \in B!Item /\ item.seq = n
        /\ Retratado(item, Envelope(n, c))
    BY <2>2, <2>3, <2>4 DEF B!Item, B!Classes, Retratado
  <2>6. \A e \in guardados : e.seq < n
    <3>1. \A e \in guardados : e.seq \in Nat /\ e.seq <= emitidos[sessao]
      BY NumeroE DEF NoCerto, TiposDoNo, BufferCerto, Tidos
    <3> QED BY <2>2, <3>1
  <2>7. Capacidade \in Nat \ {0} /\ Cardinality(guardados) <= Capacidade
    BY LimitesDaEntrega DEF NoCerto, BufferCerto
  <2> HIDE DEF item, n
  <2>8. Retrata(B!Acrescentar(s, item, Capacidade),
                Sobra(guardados, Capacidade - 1) \cup {Envelope(n, c)})
    BY <1>1, <2>5, <2>6, <2>7, SobraEAcrescentar
  <2> QED BY <2>1, <2>2, <2>5, <2>8
<1>3. ASSUME Enviar
      PROVE  /\ Retrata(B!Drenados(s, EnvelopesPorRemessa), espera'.envelopes)
             /\ Retrata(B!SemDrenados(s, EnvelopesPorRemessa), guardados')
  <2>1. espera'.envelopes = Lote(guardados) /\ guardados' = guardados \ Lote(guardados)
    BY <1>3, NoEnviar DEF Enviar
  <2> QED BY <1>1, <2>1, LoteEDrenados
<1>4. ASSUME Devolver
      PROVE  Retrata(B!Devolver(s, l, Capacidade), guardados')
  <2>1. guardados' = Sobra(guardados \cup espera.envelopes, Capacidade)
    BY <1>4 DEF Devolver
  <2> QED BY <2>1, SobraEDevolver
<1> QED BY <1>2, <1>3, <1>4

LEMMA EmSequenciaNoPasso ==
  ASSUME ConteudosDoCatalogo, Base, EmSequencia, [Next]_vars
  PROVE  EmSequencia'
<1>0. NoCerto
  BY DEF Base
<1>1. PICK s : Retrata(s, guardados)
  BY DEF EmSequencia
<1>2. PICK l : Retrata(l, espera.envelopes)
  BY DEF EmSequencia
<1>3. PassoDoBuffer
  BY <1>0, PassoDoBufferE DEF EmSequencia
<1>4. CASE UNCHANGED <<guardados, espera>>
  BY <1>4 DEF EmSequencia, LoteNaFrente, Retrata
<1>5. CASE espera' = SemPedido /\ \E r : Retrata(r, guardados')
  <2>1. espera'.envelopes = {}
    BY <1>5 DEF SemPedido
  <2>2. Retrata(<<>>, espera'.envelopes)
    BY <2>1, RetrataNada
  <2>3. LoteNaFrente'
    BY <2>1 DEF LoteNaFrente
  <2>4. (\E r : Retrata(r, guardados))' /\ (\E r : Retrata(r, espera.envelopes))'
    BY <1>5, <2>2
  <2> QED BY <2>3, <2>4 DEF EmSequencia
<1>6. CASE espera' = SemPedido /\ guardados' = guardados
  BY <1>1, <1>5, <1>6
<1>7. CASE Devolver
  <2>1. Retrata(B!Devolver(s, l, Capacidade), guardados')
    BY <1>1, <1>2, <1>3, <1>7 DEF PassoDoBuffer
  <2> QED BY <1>5, <1>7, <2>1 DEF Devolver
<1>8. CASE Religar
  <2>1. espera' = SemPedido /\ guardados' = {}
    BY <1>8 DEF Religar
  <2> QED BY <1>5, <2>1, RetrataNada
<1>9. CASE Amostrar
  <2>1. PICK c \in Conteudos :
          guardados' = Sobra(guardados, Capacidade - 1) \cup {Envelope(emitidos[sessao] + 1, c)}
    BY <1>9 DEF Amostrar
  <2>2. espera' = espera
    BY <1>9 DEF Amostrar
  <2>3. PICK item \in B!Item : Retrata(B!Acrescentar(s, item, Capacidade), guardados')
    BY <1>1, <1>2, <1>3, <1>9 DEF PassoDoBuffer
  <2>4. \A e \in espera.envelopes : /\ e.seq \in Nat /\ emitidos[sessao] \in Nat
                                    /\ e.seq <= emitidos[sessao]
    BY <1>0, NumeroE, TidosTipo DEF NoCerto, TiposDoNo, BufferCerto, Tidos
  <2>5. \A e \in espera.envelopes : e.seq < emitidos[sessao] + 1
    BY <2>4
  <2>6. \A f \in guardados' : f \in guardados \/ f.seq = emitidos[sessao] + 1
    BY <2>1 DEF Sobra, Envelope
  <2>7. LoteNaFrente'
    BY <2>2, <2>5, <2>6 DEF EmSequencia, LoteNaFrente
  <2>8. (\E r : Retrata(r, guardados))' /\ (\E r : Retrata(r, espera.envelopes))'
    BY <1>2, <2>2, <2>3
  <2> QED BY <2>7, <2>8 DEF EmSequencia
<1>10. CASE Enviar
  <2>1. /\ Retrata(B!Drenados(s, EnvelopesPorRemessa), espera'.envelopes)
        /\ Retrata(B!SemDrenados(s, EnvelopesPorRemessa), guardados')
    BY <1>1, <1>2, <1>3, <1>10 DEF PassoDoBuffer
  <2>2. espera'.envelopes = Lote(guardados) /\ guardados' = guardados \ Lote(guardados)
    BY <1>0, <1>10, NoEnviar DEF Enviar
  <2>3. /\ Lote(guardados) \subseteq guardados
        /\ \A x \in Lote(guardados), y \in guardados : y.seq <= x.seq => y \in Lote(guardados)
    BY <1>0, LoteE DEF NoCerto, TiposDoNo, BufferCerto, NumeroUnico, Tidos
  <2>4. \A e \in guardados : e.seq \in Nat
    BY <1>0, NumeroE DEF NoCerto, TiposDoNo
  <2>5. \A x \in Lote(guardados), y \in guardados \ Lote(guardados) : x.seq < y.seq
    BY <2>3, <2>4
  <2>6. LoteNaFrente'
    BY <2>2, <2>5 DEF LoteNaFrente
  <2> QED BY <2>1, <2>6 DEF EmSequencia
<1>11. ASSUME NEW t \in Tratadores, Chegar(t)
       PROVE  EmSequencia'
  <2>1. CASE Devolver
    BY <1>7, <2>1
  <2>2. CASE espera' = SemPedido /\ guardados' = guardados
    BY <1>6, <2>2
  <2>3. Devolver \/ (espera' = SemPedido /\ guardados' = guardados)
    BY <1>11 DEF Chegar, Tratar, Confirmada, Descartada
  <2> QED BY <2>1, <2>2, <2>3
<1>12. CASE Desistir
  BY <1>7, <1>12 DEF Desistir
<1>13. CASE NoParado
  BY <1>4, <1>13 DEF NoParado
<1> QED BY <1>8, <1>9, <1>10, <1>11, <1>12, <1>13, PassoDoNoE DEF PassoDoNo

LEMMA EmSequenciaSempre ==
  ASSUME ConteudosDoCatalogo
  PROVE  Spec => []EmSequencia
<1>1. Init => EmSequencia
  <2> SUFFICES ASSUME Init PROVE EmSequencia
    OBVIOUS
  <2>1. guardados = {} /\ espera.envelopes = {}
    BY DEF Init, SemPedido
  <2> QED BY <2>1, RetrataNada DEF EmSequencia, LoteNaFrente
<1>2. Base /\ EmSequencia /\ [Next]_vars => EmSequencia'
  BY EmSequenciaNoPasso
<1> QED BY <1>1, <1>2, BaseSempre, PTL DEF Spec

\* What is on its way is older than all that waits, so a batch that comes back
\* goes in front; and there are sequences of items, those of the code, for what
\* waits and for what is on its way.
THEOREM LoteSempreNaFrente ==
  ASSUME ConteudosDoCatalogo
  PROVE  Spec => []EmSequencia
BY EmSequenciaSempre

\* Acrescentar, Drenar and Devolver, on the sequence the buffer of the code
\* holds, do to it what this module does to its set: the two models of the
\* buffer, and of what the saturation takes from it, are the same buffer.
THEOREM BufferDaEntregaEODoCodigo ==
  ASSUME ConteudosDoCatalogo
  PROVE  Spec => [][PassoDoBuffer]_vars
<1>1. Base /\ EmSequencia => PassoDoBuffer
  BY PassoDoBufferE DEF Base, EmSequencia
<1> QED BY <1>1, BaseSempre, EmSequenciaSempre, PTL DEF Spec
=============================================================================
