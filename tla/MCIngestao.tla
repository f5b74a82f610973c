----------------------------- MODULE MCIngestao -----------------------------
(***************************************************************************)
(* The acquisition path for TLC: two goroutines, batches of one session    *)
(* that overlap, one of another session, and one that is refused whole.    *)
(***************************************************************************)
EXTENDS Ingestao, TLC

CONSTANTS s1, s2, t1, t2

MCSessoes == {s1, s2}

MCTratadores == {t1, t2}

Simetria == Permutations(MCTratadores)

MCRemessas ==
  {[sessao |-> s1, aceitos |-> {1}, rejeitados |-> {}],
   [sessao |-> s1, aceitos |-> {2}, rejeitados |-> {3}],
   [sessao |-> s2, aceitos |-> {}, rejeitados |-> {1}]}

MCDesvios == {0, 1, 3}
=============================================================================
