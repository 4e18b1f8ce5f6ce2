---------------------------- MODULE LockService ----------------------------
(***************************************************************************)
(* What the 64 device-wide resource locks promise their clients, with no   *)
(* bitmaps, no queue, no reset generation and no wake passes: every lock   *)
(* has at most one owner, it is granted only to a handle that has a        *)
(* request for it outstanding and only when it is free, and nobody but its *)
(* owner gives it up.                                                      *)
(***************************************************************************)
CONSTANTS File, Lock, Thread, NoFile, NoReq

VARIABLES
  owner,   \* owner[l]: the handle that holds lock l, or NoFile
  asked    \* asked[t]: the acquisition thread t has outstanding, or NoReq

vars == << owner, asked >>

Init ==
  /\ owner = [l \in Lock |-> NoFile]
  /\ asked = [t \in Thread |-> NoReq]

(* A client thread asks for a lock on behalf of a handle.                  *)
Ask(t, f, l) ==
  /\ asked[t] = NoReq
  /\ asked' = [asked EXCEPT ![t] = [file |-> f, lock |-> l]]
  /\ UNCHANGED owner

(***************************************************************************)
(* One handle f gives up the locks R it owns (possibly none); then the     *)
(* requests of the threads W are granted, and any others may be refused.   *)
(***************************************************************************)
Serve(f, R, W) ==
  /\ \A l \in R : owner[l] = f
  /\ \A t \in W : /\ asked[t] # NoReq
                  /\ owner[asked[t].lock] = NoFile \/ asked[t].lock \in R
                  /\ asked'[t] = NoReq
  /\ \A t, u \in W : asked[t].lock = asked[u].lock => t = u
  /\ owner' = [l \in Lock |->
                 IF \E t \in W : asked[t].lock = l
                 THEN asked[CHOOSE t \in W : asked[t].lock = l].file
                 ELSE IF l \in R THEN NoFile ELSE owner[l]]
  /\ \E D \in SUBSET Thread :
        asked' = [t \in Thread |-> IF t \in D THEN NoReq ELSE asked[t]]

Next ==
  \/ \E t \in Thread, f \in File, l \in Lock : Ask(t, f, l)
  \/ \E f \in File, R \in SUBSET Lock, W \in SUBSET Thread : Serve(f, R, W)

Spec == Init /\ [][Next]_vars
=============================================================================
