------------------------------- MODULE Origem -------------------------------
(***************************************************************************)
(* What a source promises, without its goroutines, its queue and its gap:  *)
(* numbered envelopes wait, leave in batches from the oldest on, and come  *)
(* back or are settled together.  An envelope leaves the source unsettled  *)
(* only by the saturation policy, which touches an event only when no      *)
(* sample is left beside it.  The module No implements it.                 *)
(***************************************************************************)
EXTENDS Buffer

VARIABLES
  emitidos,     \* numbers given so far
  guardados,    \* items that wait in the source
  emTransito,   \* items of the batch in flight
  entregues, recusados, perdidos

vars == <<emitidos, guardados, emTransito, entregues, recusados, perdidos>>

Init ==
  /\ emitidos = 1
  /\ guardados = {[seq |-> 1, classe |-> "amostra", relata |-> 0]}
  /\ emTransito = {}
  /\ entregues = {}
  /\ recusados = {}
  /\ perdidos = {}

\* The policy may remove C and leave S: an event goes only if no sample stays.
PerdaJusta(C, S) == Eventos(C) # {} => Amostras(S) = {}

\* A new envelope, with the next number, may push others out.
Nascer ==
  \E C \in SUBSET guardados, novo \in guardados' :
    /\ PerdaJusta(C, guardados \ C)
    /\ novo \in Item
    /\ novo.seq = emitidos + 1
    /\ emitidos' = emitidos + 1
    /\ guardados' = (guardados \ C) \cup {novo}
    /\ perdidos' = perdidos \cup C
    /\ UNCHANGED <<emTransito, entregues, recusados>>

\* The oldest envelopes leave together, when nothing else is in flight.
Partir ==
  \E L \in SUBSET guardados :
    /\ L # {}
    /\ emTransito = {}
    /\ \A n \in Seqs(L), m \in Seqs(guardados \ L) : n < m
    /\ emTransito' = L
    /\ guardados' = guardados \ L
    /\ UNCHANGED <<emitidos, entregues, recusados, perdidos>>

\* The batch is settled: some of it recorded, some of it refused for good.
Resolver ==
  \E R \in SUBSET emTransito :
    /\ entregues' = entregues \cup (emTransito \ R)
    /\ recusados' = recusados \cup R
    /\ emTransito' = {}
    /\ UNCHANGED <<emitidos, guardados, perdidos>>

\* The batch comes back among what waits, and may push others out.
Voltar ==
  \E C \in SUBSET (guardados \cup emTransito) :
    /\ PerdaJusta(C, (guardados \cup emTransito) \ C)
    /\ guardados' = (guardados \cup emTransito) \ C
    /\ emTransito' = {}
    /\ perdidos' = perdidos \cup C
    /\ UNCHANGED <<emitidos, entregues, recusados>>

Next == Nascer \/ Partir \/ Resolver \/ Voltar

Spec == Init /\ [][Next]_vars
=============================================================================
