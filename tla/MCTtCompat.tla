----------------------------- MODULE MCTtCompat -----------------------------
(* The shim with three handles and four addresses: two views of a handle,   *)
(* or a view of each, before, around and after its tt_close and a reset.    *)
EXTENDS TtCompat, TLC

(* Handles and addresses are only compared for equality.                    *)
Symmetry == Permutations(Handle) \cup Permutations(Addr)
=============================================================================
