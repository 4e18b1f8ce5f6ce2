--------------------------- MODULE MCTtLockOrder ---------------------------
(* Three threads, two open handles.                                        *)
EXTENDS TtLockOrder, TLC

CONSTANTS f1, f2
TwoFiles == << f1, f2 >>

Symmetry == Permutations(Thread)
=============================================================================
