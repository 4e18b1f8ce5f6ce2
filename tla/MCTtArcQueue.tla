---------------------------- MODULE MCTtArcQueue ----------------------------
(* Senders are only ever compared for equality.                            *)
EXTENDS TtArcQueue, TLC

Symmetry == Permutations(Sender)
=============================================================================
