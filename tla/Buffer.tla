------------------------------- MODULE Buffer -------------------------------
(***************************************************************************)
(* The bounded store-and-forward buffer of a source node                   *)
(* (internal/no/buffer.go): what its methods do to the sequence of items   *)
(* and to the accumulated gap, as operators.  Every method runs under the  *)
(* buffer's mutex, so a method is one atomic operator here and the module  *)
(* that uses them (No) chooses the interleavings.                          *)
(*                                                                         *)
(* An envelope is abstracted to what the saturation policy and the gap     *)
(* marker can tell apart: its sequence number, its data class and, for a   *)
(* LacunaDeBuffer marker, how many lost records it reports (0 otherwise).  *)
(*                                                                         *)
(* abrirEspaco, called k times in a row, is stated in closed form: the k   *)
(* items that leave are the first k in the order SaiAntes.  The module     *)
(* LacoDaSaturacao runs the loop as the code writes it, one abrirEspaco    *)
(* per step, and checks it against this closed form.                       *)
(***************************************************************************)
EXTENDS Integers, Sequences, FiniteSets

Classes == {"amostra", "evento"}

Item == [seq : Nat, classe : Classes, relata : Nat]

\* LacunaAcumulada: what was lost since the last TomarLacuna.
Lacunas == [registros : Nat, primeira : Nat, ultima : Nat]

SemLacuna == [registros |-> 0, primeira |-> 0, ultima |-> 0]

Itens(s) == {s[i] : i \in DOMAIN s}

Seqs(S) == {item.seq : item \in S}

Eventos(S) == {item \in S : item.classe = "evento"}

Amostras(S) == {item \in S : item.classe = "amostra"}

\* In sequence order, without repetition.
Crescente(s) == \A i, j \in DOMAIN s : i < j => s[i].seq < s[j].seq

Menor(S) == CHOOSE n \in S : \A m \in S : n <= m

Maior(S) == CHOOSE n \in S : \A m \in S : m <= n

-----------------------------------------------------------------------------
(* Saturation: which items leave, and what is left.                        *)

\* Mutation: by age alone.
SaiAntesPorIdade(s, i, j) == i < j

\* Position i leaves before position j: samples before events, and within a
\* class the oldest position first.
SaiAntes(s, i, j) ==
  \/ s[i].classe = "amostra" /\ s[j].classe = "evento"
  \/ s[i].classe = s[j].classe /\ i < j

\* The positions that k calls of abrirEspaco remove: the k first in that order.
Descartados(s, k) ==
  CHOOSE D \in SUBSET DOMAIN s :
    /\ Cardinality(D) = k
    /\ \A i \in D : \A j \in DOMAIN s \ D : SaiAntes(s, i, j)

\* The m-th position of a set of positions, in increasing order.
Posicao(K, m) == CHOOSE i \in K : Cardinality({j \in K : j <= i}) = m

\* s restricted to the positions in K, in their order.
Restante(s, K) == [m \in 1 .. Cardinality(K) |-> s[Posicao(K, m)]]

\* The items removed and the items left after k calls of abrirEspaco.
Caidos(s, k) == {s[i] : i \in Descartados(s, k)}

Aparar(s, k) == Restante(s, DOMAIN s \ Descartados(s, k))

\* Mutation: the gap counts the events only.
AcumularSoEventos(l, C) ==
  IF Eventos(C) = {} THEN l
  ELSE [registros |-> l.registros + Cardinality(Eventos(C)),
        primeira  |-> IF l.registros = 0 THEN Menor(Seqs(Eventos(C)))
                      ELSE Menor({l.primeira} \cup Seqs(Eventos(C))),
        ultima    |-> Maior({l.ultima} \cup Seqs(Eventos(C)))]

\* Mutation: one condition guards both ends of the interval.
AcumularDeUmaVez(l, C) ==
  LET seqs == Seqs(Eventos(C))
      abre == seqs # {} /\ l.registros = 0 /\ Amostras(C) = {}
  IN  [registros |-> l.registros + Cardinality(C),
       primeira  |-> IF abre THEN Menor(seqs) ELSE l.primeira,
       ultima    |-> IF abre THEN Maior(seqs) ELSE l.ultima]

\* The gap after the items in C left a buffer whose gap was l.  A sample only
\* counts; an event also widens the interval.  `primeira` is set from nothing
\* only when nothing had been counted before the event.
Acumular(l, C) ==
  LET seqs == Seqs(Eventos(C))
      novaPrimeira == IF l.registros = 0 /\ Amostras(C) = {}
                      THEN Menor(seqs)
                      ELSE Menor({l.primeira} \cup seqs)
  IN  [registros |-> l.registros + Cardinality(C),
       primeira  |-> IF seqs = {} THEN l.primeira ELSE novaPrimeira,
       ultima    |-> IF seqs = {} THEN l.ultima ELSE Maior({l.ultima} \cup seqs)]

-----------------------------------------------------------------------------
(* The methods.  Each one takes the capacity and the current items.        *)

Excesso(s, cap) == IF Len(s) > cap THEN Len(s) - cap ELSE 0

\* Acrescentar makes room for one item before it appends, if the buffer is full.
VagasParaAcrescentar(s, cap) == IF Len(s) >= cap THEN 1 ELSE 0

Acrescentar(s, item, cap) ==
  Append(Aparar(s, VagasParaAcrescentar(s, cap)), item)

CaidosAoAcrescentar(s, cap) == Caidos(s, VagasParaAcrescentar(s, cap))

\* Mutation: the batch goes to the END.
DevolverNoFim(s, lote, cap) == Aparar(s \o lote, Excesso(s \o lote, cap))

\* Devolver puts the batch back in FRONT and then removes the excess.
Devolver(s, lote, cap) == Aparar(lote \o s, Excesso(lote \o s, cap))

CaidosAoDevolver(s, lote, cap) ==
  Caidos(lote \o s, Excesso(lote \o s, cap))

\* Drenar takes up to `limite` items from the front.
Drenados(s, limite) == SubSeq(s, 1, IF limite > Len(s) THEN Len(s) ELSE limite)

\* Mutation: what was drained stays in the buffer.
SemDrenadosEsquecido(s, limite) == s

SemDrenados(s, limite) ==
  SubSeq(s, (IF limite > Len(s) THEN Len(s) ELSE limite) + 1, Len(s))

TemEventoDiscreto(s) == \E i \in DOMAIN s : s[i].classe = "evento"
=============================================================================
