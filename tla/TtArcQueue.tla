----------------------------- MODULE TtArcQueue -----------------------------
(***************************************************************************)
(* The message queue between the driver and the ARC firmware               *)
(* (TtBhArcMsgPush, TtBhArcMsgPop and TtBhSendArcMessage of blackhole.c):  *)
(* two rings of NumEntries slots in device memory, one for requests and    *)
(* one for responses.  The driver owns REQ_WPTR and RES_RPTR, firmware     *)
(* owns REQ_RPTR and RES_WPTR; pointers run modulo 2 * NumEntries so that  *)
(* a full ring and an empty one differ.  ArcMsgLock makes push, doorbell   *)
(* and pop one transaction among senders; nothing makes it one against the *)
(* firmware, which answers when it likes, or after the sender gave up.     *)
(*                                                                         *)
(* Messages are numbered in the order they are pushed, and a response      *)
(* carries the number of the request it answers: the protocol itself has   *)
(* no such tag.                                                            *)
(***************************************************************************)
EXTENDS Naturals

CONSTANTS
  Sender,      \* threads that send messages
  NumEntries,  \* slots of each ring, as the queue control block says
  Word,        \* the modulus of a UINT32
  MaxSends,    \* bound on the messages pushed
  NONE

ASSUME QueueAssumption ==
  /\ NumEntries \in Nat \ {0}
  /\ Word \in Nat
  /\ 2 * NumEntries < Word
  /\ MaxSends \in Nat
  /\ NONE \notin Sender

(* The occupancy (wptr - rptr) % (2 * NumEntries) is computed in UINT32,   *)
(* and its wrap is harmless only when 2 * NumEntries divides 2^32: for the *)
(* counts 1, 2, 4, ... 128 of those from 1 to 255 that the code accepts.   *)
WidthDivides == Word % (2 * NumEntries) = 0

VARIABLES
  lock,      \* the holder of ArcMsgLock, or NONE
  pc,        \* where each sender is
  ptr,       \* the pointer a sender has read: wptr in push, rptr in pop
  mine,      \* history: the number of the message a sender pushed
  got,       \* the response a sender has read
  reqW, reqR, resW, resR,  \* the four queue pointers
  req, res,  \* the slots of the two rings
  rung,      \* the doorbell is pending
  pushed,    \* history: messages published
  answered,  \* history: messages firmware has answered
  abandoned  \* history: a sender gave up after it had pushed

local == <<pc, ptr, mine, got>>
vars == <<lock, pc, ptr, mine, got, reqW, reqR, resW, resR, req, res, rung,
          pushed, answered, abandoned>>

Slot == 0 .. NumEntries - 1
Pointer == 0 .. 2 * NumEntries - 1

Occupancy(wptr, rptr) == ((wptr + Word - rptr) % Word) % (2 * NumEntries)
Advance(p) == (p + 1) % (2 * NumEntries)

-----------------------------------------------------------------------------
(* 0 stands for the content of a slot nothing was written to.              *)
Init ==
  /\ lock = NONE
  /\ pc = [s \in Sender |-> "idle"]
  /\ ptr = [s \in Sender |-> 0]
  /\ mine = [s \in Sender |-> 0]
  /\ got = [s \in Sender |-> 0]
  /\ \E p, q \in Pointer : reqW = p /\ reqR = p /\ resW = q /\ resR = q
  /\ req = [i \in Slot |-> 0]
  /\ res = [i \in Slot |-> 0]
  /\ rung = FALSE
  /\ pushed = 0
  /\ answered = 0
  /\ abandoned = FALSE

(* Plausible slip: senders are left to serialise themselves.               *)
AcquireUnlocked(s) ==
  /\ pc[s] = "idle"
  /\ pushed < MaxSends
  /\ lock' = s
  /\ pc' = [pc EXCEPT ![s] = "ready"]
  /\ UNCHANGED <<ptr, mine, got, reqW, reqR, resW, resR, req, res, rung,
                 pushed, answered, abandoned>>

Acquire(s) ==
  /\ pc[s] = "idle"
  /\ lock = NONE
  /\ pushed < MaxSends
  /\ lock' = s
  /\ pc' = [pc EXCEPT ![s] = "ready"]
  /\ UNCHANGED <<ptr, mine, got, reqW, reqR, resW, resR, req, res, rung,
                 pushed, answered, abandoned>>

(* The ready gate, the queue control block and REQ_WPTR have been read.    *)
Ready(s) ==
  /\ pc[s] = "ready"
  /\ ptr' = [ptr EXCEPT ![s] = reqW]
  /\ pc' = [pc EXCEPT ![s] = "push"]
  /\ UNCHANGED <<lock, mine, got, reqW, reqR, resW, resR, req, res, rung,
                 pushed, answered, abandoned>>

(* Plausible slip: a full ring passes for one with space.                  *)
PushEntryWhenFull(s) ==
  /\ pc[s] = "push"
  /\ Occupancy(ptr[s], reqR) <= NumEntries
  /\ req' = [req EXCEPT ![ptr[s] % NumEntries] = pushed + 1]
  /\ pc' = [pc EXCEPT ![s] = "publish"]
  /\ UNCHANGED <<lock, ptr, mine, got, reqW, reqR, resW, resR, res, rung,
                 pushed, answered, abandoned>>

(* A poll of REQ_RPTR finds space; the eight words go into the slot.       *)
PushEntry(s) ==
  /\ pc[s] = "push"
  /\ Occupancy(ptr[s], reqR) < NumEntries
  /\ req' = [req EXCEPT ![ptr[s] % NumEntries] = pushed + 1]
  /\ pc' = [pc EXCEPT ![s] = "publish"]
  /\ UNCHANGED <<lock, ptr, mine, got, reqW, reqR, resW, resR, res, rung,
                 pushed, answered, abandoned>>

PublishWptr(s) ==
  /\ pc[s] = "publish"
  /\ reqW' = Advance(ptr[s])
  /\ pushed' = pushed + 1
  /\ mine' = [mine EXCEPT ![s] = pushed + 1]
  /\ pc' = [pc EXCEPT ![s] = "doorbell"]
  /\ UNCHANGED <<lock, ptr, got, reqR, resW, resR, req, res, rung, answered,
                 abandoned>>

(* Plausible slip: the doorbell is not rung.                               *)
DoorbellSkipped(s) ==
  /\ pc[s] = "doorbell"
  /\ ptr' = [ptr EXCEPT ![s] = resR]
  /\ pc' = [pc EXCEPT ![s] = "pop"]
  /\ UNCHANGED <<lock, mine, got, reqW, reqR, resW, resR, req, res, rung,
                 pushed, answered, abandoned>>

(* The doorbell, and RES_RPTR for the pop.                                 *)
Doorbell(s) ==
  /\ pc[s] = "doorbell"
  /\ rung' = TRUE
  /\ ptr' = [ptr EXCEPT ![s] = resR]
  /\ pc' = [pc EXCEPT ![s] = "pop"]
  /\ UNCHANGED <<lock, mine, got, reqW, reqR, resW, resR, req, res, pushed,
                 answered, abandoned>>

(* Plausible slip: an empty response ring passes for one with a response.  *)
PopEntryEarly(s) ==
  /\ pc[s] = "pop"
  /\ got' = [got EXCEPT ![s] = res[ptr[s] % NumEntries]]
  /\ pc' = [pc EXCEPT ![s] = "popped"]
  /\ UNCHANGED <<lock, ptr, mine, reqW, reqR, resW, resR, req, res, rung,
                 pushed, answered, abandoned>>

(* A poll of RES_WPTR finds a response; its words are read.                *)
PopEntry(s) ==
  /\ pc[s] = "pop"
  /\ Occupancy(resW, ptr[s]) > 0
  /\ got' = [got EXCEPT ![s] = res[ptr[s] % NumEntries]]
  /\ pc' = [pc EXCEPT ![s] = "popped"]
  /\ UNCHANGED <<lock, ptr, mine, reqW, reqR, resW, resR, req, res, rung,
                 pushed, answered, abandoned>>

(* RES_RPTR is advanced, the lock dropped, the message returned.           *)
Finish(s) ==
  /\ pc[s] = "popped"
  /\ resR' = Advance(ptr[s])
  /\ lock' = NONE
  /\ pc' = [pc EXCEPT ![s] = "idle"]
  /\ UNCHANGED <<ptr, mine, got, reqW, reqR, resW, req, res, rung, pushed,
                 answered, abandoned>>

(* A wait that times out or reads all-ones returns FALSE; what was pushed  *)
(* stays pushed.                                                           *)
GiveUp(s) ==
  /\ pc[s] \in {"ready", "push", "pop"}
  /\ abandoned' = (abandoned \/ pc[s] = "pop")
  /\ lock' = NONE
  /\ pc' = [pc EXCEPT ![s] = "idle"]
  /\ UNCHANGED <<ptr, mine, got, reqW, reqR, resW, resR, req, res, rung,
                 pushed, answered>>

-----------------------------------------------------------------------------
(* The firmware, from how the driver uses it: the doorbell starts it, it   *)
(* answers request after request and sleeps when it finds none.            *)
FirmwareAnswers ==
  /\ rung
  /\ reqR # reqW
  /\ Occupancy(resW, resR) < NumEntries
  /\ res' = [res EXCEPT ![resW % NumEntries] = req[reqR % NumEntries]]
  /\ resW' = Advance(resW)
  /\ reqR' = Advance(reqR)
  /\ answered' = answered + 1
  /\ UNCHANGED <<lock, local, reqW, resR, req, rung, pushed, abandoned>>

FirmwareSleeps ==
  /\ rung
  /\ reqR = reqW
  /\ rung' = FALSE
  /\ UNCHANGED <<lock, local, reqW, reqR, resW, resR, req, res, pushed,
                 answered, abandoned>>

-----------------------------------------------------------------------------
Send(s) ==
  \/ Ready(s) \/ PushEntry(s) \/ PublishWptr(s) \/ Doorbell(s)
  \/ PopEntry(s) \/ Finish(s)

Next ==
  \/ \E s \in Sender : Acquire(s) \/ Send(s) \/ GiveUp(s)
  \/ FirmwareAnswers
  \/ FirmwareSleeps

Spec == Init /\ [][Next]_vars

(* A sender that holds the lock runs on; firmware serves its doorbell.     *)
FairSpec ==
  /\ Spec
  /\ \A s \in Sender : WF_vars(Send(s))
  /\ WF_vars(FirmwareAnswers)

-----------------------------------------------------------------------------
TypeOK ==
  /\ lock \in Sender \cup {NONE}
  /\ pc \in [Sender -> {"idle", "ready", "push", "publish", "doorbell", "pop",
                        "popped"}]
  /\ ptr \in [Sender -> Pointer]
  /\ mine \in [Sender -> 0..MaxSends]
  /\ got \in [Sender -> 0..MaxSends]
  /\ {reqW, reqR, resW, resR} \subseteq Pointer
  /\ req \in [Slot -> 0..MaxSends]
  /\ res \in [Slot -> 0..MaxSends]
  /\ rung \in BOOLEAN
  /\ pushed \in 0..MaxSends
  /\ answered \in 0..pushed
  /\ abandoned \in BOOLEAN

(* The request ring holds exactly the published, unanswered messages, each *)
(* whole and in order, through every wrap of the pointers and every wait   *)
(* that was given up (TtBhArcMsgPush).  This and the two properties below  *)
(* need WidthDivides.                                                      *)
RequestRing ==
  LET waiting == Occupancy(reqW, reqR)
  IN /\ waiting = pushed - answered
     /\ waiting <= NumEntries
     /\ \A i \in 0 .. waiting - 1 :
           req[(reqR + i) % NumEntries] = answered + 1 + i

(* The response ring likewise holds a run of answers that ends with the    *)
(* last one given; none is overwritten before it is read (TtBhArcMsgPop).  *)
ResponseRing ==
  LET waiting == Occupancy(resW, resR)
  IN /\ waiting <= NumEntries
     /\ \A i \in 0 .. waiting - 1 :
           res[(resR + i) % NumEntries] = answered - waiting + 1 + i

(* "Msg is overwritten with the response": the response a sender takes is  *)
(* the response to the message it pushed in the same transaction, as long  *)
(* as no sender has given up after pushing.  Timeouts in the ready gate    *)
(* and on a full request ring leave nothing behind that shifts the         *)
(* responses, and ArcMsgLock keeps the transactions apart.                 *)
OwnResponse ==
  ~abandoned => \A s \in Sender : pc[s] = "popped" => got[s] = mine[s]

(* With a firmware that answers, a sender that got the lock returns        *)
(* without the help of its deadlines: no doorbell is lost between the      *)
(* publish and the firmware's going to sleep.  Abandoned responses can     *)
(* fill the rings; from then on only the deadlines end a wait.             *)
SendReturns == \A s \in Sender : (lock = s) ~> (lock # s \/ abandoned)
=============================================================================
