----------------------------- MODULE MCTtMemory -----------------------------
(* Small instances of TtMemory.  The permuted sets are only ever compared for
   equality; handles are permuted where all of them are of one kind.       *)
EXTENDS TtMemory, TLC

Symmetry == Permutations(File) \cup Permutations(Process) \cup Permutations(Thread)
              \cup Permutations(Va)
=============================================================================
