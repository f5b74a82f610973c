-------------------------------- MODULE Canal --------------------------------
(***************************************************************************)
(* What a node and its gateway promise together, without batches, answers, *)
(* time limits or processes: every envelope the node numbers waits in it   *)
(* until it has ONE fate, for good, and the journal is the only place an   *)
(* envelope may be said to have been delivered to.  The module Entrega     *)
(* implements it.                                                          *)
(***************************************************************************)
CONSTANT Possiveis  \* the envelopes that may ever exist, by session and number

VARIABLES
  emitidos,   \* given so far
  retidos,    \* still in the node
  diario,     \* with a row in the journal
  entregues,  \* freed by the node as confirmed
  recusados,  \* thrown away by the node: the gateway will never take them
  perdidos,   \* pushed out of the full buffer
  apagados    \* gone with the memory of the node

vars == <<emitidos, retidos, diario, entregues, recusados, perdidos, apagados>>

Init ==
  /\ emitidos = {} /\ retidos = {} /\ diario = {}
  /\ entregues = {} /\ recusados = {} /\ perdidos = {} /\ apagados = {}

\* A new envelope may push others out, never itself.
Nascer ==
  \E novo \in Possiveis \ emitidos, C \in SUBSET retidos :
    /\ emitidos' = emitidos \cup {novo}
    /\ retidos' = (retidos \ C) \cup {novo}
    /\ perdidos' = perdidos \cup C
    /\ UNCHANGED <<diario, entregues, recusados, apagados>>

\* Rows are written for envelopes that exist, wherever they are by now: the
\* node may have lost them since, or may still hold them.  Not for one that it
\* was told is refused.
Gravar ==
  \E S \in SUBSET (emitidos \ recusados) :
    /\ diario' = diario \cup S
    /\ UNCHANGED <<emitidos, retidos, entregues, recusados, perdidos, apagados>>

\* The node is told what became of some: those it takes for delivered have
\* their row, and those it throws away have none.
Resolver ==
  \E E \in SUBSET (retidos \cap diario), R \in SUBSET (retidos \ diario) :
    /\ retidos' = retidos \ (E \cup R)
    /\ entregues' = entregues \cup E
    /\ recusados' = recusados \cup R
    /\ UNCHANGED <<emitidos, diario, perdidos, apagados>>

\* What came back does not fit any more.
Perder ==
  \E C \in SUBSET retidos :
    /\ retidos' = retidos \ C
    /\ perdidos' = perdidos \cup C
    /\ UNCHANGED <<emitidos, diario, entregues, recusados, apagados>>

\* The node loses its memory.
Apagar ==
  /\ retidos' = {}
  /\ apagados' = apagados \cup retidos
  /\ UNCHANGED <<emitidos, diario, entregues, recusados, perdidos>>

Next == Nascer \/ Gravar \/ Resolver \/ Perder \/ Apagar

Spec == Init /\ [][Next]_vars

-----------------------------------------------------------------------------
\* Every envelope is in exactly one place: held, delivered, refused, pushed out
\* or gone with the memory.
UmDestino ==
  /\ emitidos = retidos \cup entregues \cup recusados \cup perdidos \cup apagados
  /\ retidos \cap (entregues \cup recusados \cup perdidos \cup apagados) = {}
  /\ entregues \cap (recusados \cup perdidos \cup apagados) = {}
  /\ recusados \cap (perdidos \cup apagados) = {}
  /\ perdidos \cap apagados = {}

\* The journal has what was delivered, nothing that was refused, and nothing
\* that no node gave.
DiarioHonesto ==
  /\ entregues \subseteq diario
  /\ diario \subseteq emitidos
  /\ recusados \cap diario = {}

\* A fate is for good, and so is a row.
DestinoDefinitivo ==
  [][/\ entregues \subseteq entregues' /\ recusados \subseteq recusados'
     /\ perdidos \subseteq perdidos' /\ apagados \subseteq apagados'
     /\ diario \subseteq diario']_vars
=============================================================================
