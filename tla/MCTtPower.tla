----------------------------- MODULE MCTtPower -----------------------------
EXTENDS TtPower, TLC

(* A client that knows both flags and wants neither, one that knows only   *)
(* the first and asks for a setting, and one that asks for a higher one.   *)
SomeRequests ==
  { [known |-> 2, flags |-> {}, declared |-> FALSE, setting |-> 2],
    [known |-> 1, flags |-> {}, declared |-> TRUE, setting |-> 1],
    [known |-> 2, flags |-> {0}, declared |-> TRUE, setting |-> 2] }

Symmetry == Permutations(File) \cup Permutations(Thread)
=============================================================================
