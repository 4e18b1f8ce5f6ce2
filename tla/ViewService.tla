---------------------------- MODULE ViewService ----------------------------
(***************************************************************************)
(* What the driver promises its clients about the views of a handle, with  *)
(* no requests, locks, lists or windows: a view is mapped and unmapped     *)
(* only for an open handle that is not refused, never at an address that   *)
(* is in use in its process; a reset takes the device views and no buffer  *)
(* view; closing a handle takes every view it has.  TtMemory keeps to it,  *)
(* and so does the driver that TtCompat has below its shim.                *)
(***************************************************************************)
CONSTANTS File, Process, NoProcess, Addr

VARIABLES
  state,    \* "none", "open" or "closed", for each handle
  home,     \* the process that opened it
  refused,  \* open handles that a reset or a removal has invalidated
  views     \* the views of each handle

vars == << state, home, refused, views >>

View == [va : Addr, kind : { "device", "buffer" }]
Opened == { f \in File : state[f] = "open" }

Init ==
  /\ state = [f \in File |-> "none"]
  /\ home = [f \in File |-> NoProcess]
  /\ refused = {}
  /\ views = [f \in File |-> {}]

(* A handle of a removed device is refused from the start.                 *)
Open(f, p) ==
  /\ state[f] = "none"
  /\ state' = [state EXCEPT ![f] = "open"]
  /\ home' = [home EXCEPT ![f] = p]
  /\ refused' \in { refused, refused \cup { f } }
  /\ UNCHANGED views

Map(f, v) ==
  /\ f \in Opened \ refused
  /\ \A g \in File : home[g] = home[f] => \A w \in views[g] : w.va # v.va
  /\ views' = [views EXCEPT ![f] = @ \cup { v }]
  /\ UNCHANGED << state, home, refused >>

Unmap(f, va) ==
  /\ f \in Opened \ refused
  /\ views' = [views EXCEPT ![f] = { v \in @ : v.va # va }]
  /\ UNCHANGED << state, home, refused >>

Close(f) ==
  /\ f \in Opened
  /\ state' = [state EXCEPT ![f] = "closed"]
  /\ refused' = refused \ { f }
  /\ views' = [views EXCEPT ![f] = {}]
  /\ UNCHANGED home

(* A reset or a removal; the survivors are served on.                      *)
Reset(survivors) ==
  /\ survivors \subseteq Opened \ refused
  /\ refused' = Opened \ survivors
  /\ views' = [f \in File |-> IF f \in Opened THEN { v \in views[f] : v.kind = "buffer" }
                                              ELSE views[f]]
  /\ UNCHANGED << state, home >>

(* A process exits: handles it opened lose their views and stay open.      *)
Exit(p, S) ==
  /\ S \subseteq { f \in Opened : home[f] = p }
  /\ views' = [f \in File |-> IF f \in S THEN {} ELSE views[f]]
  /\ UNCHANGED << state, home, refused >>

Next ==
  \/ \E f \in File, p \in Process : Open(f, p)
  \/ \E f \in File, v \in View : Map(f, v)
  \/ \E f \in File, va \in Addr : Unmap(f, va)
  \/ \E f \in File : Close(f)
  \/ \E survivors \in SUBSET File : Reset(survivors)
  \/ \E p \in Process, S \in SUBSET File : Exit(p, S)

Spec == Init /\ [][Next]_vars
=============================================================================
