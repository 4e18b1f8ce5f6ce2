------------------------------ MODULE TtPower ------------------------------
(***************************************************************************)
(* The power requests of all handles, combined and sent to firmware        *)
(* (power.c, with the calls in TtEvtDeviceFileCreate and TtEvtFileCleanup  *)
(* of device.c).                                                           *)
(*                                                                         *)
(* Every open, close and SET_POWER_STATE ends in TtPowerAggregate, which   *)
(* reads the reset generation before it takes a lock, combines the listed  *)
(* handles of that generation under PowerLock and FileListLock, caches the *)
(* result, drops both locks and only then sends it.  SET_POWER_STATE holds *)
(* the reset resource shared all the while; open takes it never and close  *)
(* has released it by then.                                                *)
(*                                                                         *)
(* A request is the set of flags switched on, the number of flags the      *)
(* client knows of, and one setting, which counts if the client declared   *)
(* it.  A chip may reset or lose its power at any time: the order of that  *)
(* against RESET_DEVICE and POST_RESET is left to TtReset.                 *)
(***************************************************************************)
EXTENDS Naturals, FiniteSets, FiniteSetsExt

CONSTANTS
  File,       \* handles
  Thread,     \* threads inside the driver
  FlagCount,  \* number of defined flags (15 in the driver); flag 0 is MAX_AI_CLK
  Requests,   \* the requests clients make
  MaxGen,     \* bound on the reset generation
  NONE

Request == [known: 0..FlagCount, flags: SUBSET (0 .. FlagCount - 1),
            declared: BOOLEAN, setting: Nat]

ASSUME PowerAssumption ==
  /\ FlagCount \in Nat \ {0}
  /\ \A r \in Requests :
        /\ r.known \in 0..FlagCount /\ r.flags \subseteq 0 .. FlagCount - 1
        /\ r.declared \in BOOLEAN /\ r.setting \in Nat
  /\ MaxGen \in Nat
  /\ NONE \notin File \cup Requests

VARIABLES
  listed,    \* FileList: the handles on it
  request,   \* the contribution fields of each handle
  openGen,   \* OpenResetGen of each handle
  resetGen,  \* ResetGen of the context
  pc,        \* where each thread is
  op,        \* what each thread is doing, and for which handle
  gen,       \* the generation TtPowerAggregate read
  msg,       \* the aggregate a thread is about to send
  cached,    \* PowerAggFlags, PowerAggSettings of the context
  firmware,  \* the last POWER_SETTING put in firmware's queue; NONE: forgotten
  detached,  \* Detached of the context
  dirty,     \* history: the last aggregate was not of this generation
  lone,      \* history: the thread whose aggregate is alone on its way
  settled    \* history: the last send was of a lone aggregate, and arrived

vars == <<listed, request, openGen, resetGen, pc, op, gen, msg, cached,
          firmware, detached, dirty, lone, settled>>

-----------------------------------------------------------------------------
(* TtPowerFileDefault.                                                     *)
FileDefault ==
  [known |-> FlagCount, flags |-> 1 .. FlagCount - 1, declared |-> FALSE,
   setting |-> 0]

(* Flags the client does not know of default to on.                        *)
Effective(r) == r.flags \cup (r.known .. FlagCount - 1)

Combine(reqs) ==
  [flags |-> UNION { Effective(r) : r \in reqs },
   setting |-> Max({0} \cup { r.setting : r \in { q \in reqs : q.declared } })]

(* The handles an aggregate of generation g combines.                      *)
Counted(g) == { f \in listed : openGen[f] = g }
Aggregate(g) == Combine({ request[f] : f \in Counted(g) })

Idle == [name |-> "idle", file |-> NONE, wants |-> NONE]

(* A client has the handle once its create has completed.                  *)
Usable(f) ==
  f \in listed /\ \A t \in Thread : op[t].name = "create" => op[t].file # f

-----------------------------------------------------------------------------
(* PrepareHardware has aggregated over no handle.                          *)
Init ==
  /\ listed = {}
  /\ request = [f \in File |-> FileDefault]
  /\ openGen = [f \in File |-> 0]
  /\ resetGen = 0
  /\ pc = [t \in Thread |-> "idle"]
  /\ op = [t \in Thread |-> Idle]
  /\ gen = [t \in Thread |-> 0]
  /\ msg = [t \in Thread |-> Combine({})]
  /\ cached = Combine({})
  /\ firmware = Combine({})
  /\ detached = FALSE
  /\ dirty = FALSE
  /\ lone = {}
  /\ settled = TRUE

FileCreate(t, f) ==
  /\ pc[t] = "idle"
  /\ f \notin listed
  /\ listed' = listed \cup {f}
  /\ request' = [request EXCEPT ![f] = FileDefault]
  /\ openGen' = [openGen EXCEPT ![f] = resetGen]
  /\ op' = [op EXCEPT ![t] = [name |-> "create", file |-> f, wants |-> NONE]]
  /\ pc' = [pc EXCEPT ![t] = "aggregate"]
  /\ UNCHANGED <<resetGen, gen, msg, cached, firmware, detached, dirty, lone,
                 settled>>

FileCleanup(t, f) ==
  /\ pc[t] = "idle"
  /\ Usable(f)
  /\ listed' = listed \ {f}
  /\ op' = [op EXCEPT ![t] = [name |-> "cleanup", file |-> f, wants |-> NONE]]
  /\ pc' = [pc EXCEPT ![t] = "aggregate"]
  /\ UNCHANGED <<request, openGen, resetGen, gen, msg, cached, firmware,
                 detached, dirty, lone, settled>>

(* The fields are stored one after the other under the handle's Lock,      *)
(* which TtPowerAggregate does not take: the validity byte first, the      *)
(* flags and settings after it.                                            *)
SetPowerState(t, f, r) ==
  /\ pc[t] = "idle"
  /\ Usable(f)
  /\ ~detached
  /\ openGen[f] = resetGen
  /\ \A u \in Thread : pc[u] = "store" => op[u].file # f
  /\ request' = [request EXCEPT ![f].known = r.known,
                                ![f].declared = r.declared]
  /\ op' = [op EXCEPT ![t] = [name |-> "set", file |-> f, wants |-> r]]
  /\ pc' = [pc EXCEPT ![t] = "store"]
  /\ UNCHANGED <<listed, openGen, resetGen, gen, msg, cached, firmware,
                 detached, dirty, lone, settled>>

SetPowerStateStored(t) ==
  /\ pc[t] = "store"
  /\ request' = [request EXCEPT ![op[t].file] = op[t].wants]
  /\ pc' = [pc EXCEPT ![t] = "aggregate"]
  /\ UNCHANGED <<listed, openGen, resetGen, op, gen, msg, cached, firmware,
                 detached, dirty, lone, settled>>

-----------------------------------------------------------------------------
(* TtPowerAggregate.                                                       *)
ReadGen(t) ==
  /\ pc[t] = "aggregate"
  /\ gen' = [gen EXCEPT ![t] = resetGen]
  /\ pc' = [pc EXCEPT ![t] = "combine"]
  /\ UNCHANGED <<listed, request, openGen, resetGen, op, msg, cached, firmware,
                 detached, dirty, lone, settled>>

(* Plausible slip: the cache is only ever raised.                          *)
CombineLockedKeepsOld(t) ==
  /\ pc[t] = "combine"
  /\ cached' = [flags |-> cached.flags \cup Aggregate(gen[t]).flags,
                setting |-> Max({cached.setting, Aggregate(gen[t]).setting})]
  /\ msg' = [msg EXCEPT ![t] = Aggregate(gen[t])]
  /\ dirty' = (gen[t] # resetGen)
  /\ lone' = IF \E u \in Thread : pc[u] = "send" THEN {} ELSE {t}
  /\ pc' = [pc EXCEPT ![t] = "send"]
  /\ UNCHANGED <<listed, request, openGen, resetGen, op, gen, firmware,
                 detached, settled>>

CombineLocked(t) ==
  /\ pc[t] = "combine"
  /\ cached' = Aggregate(gen[t])
  /\ msg' = [msg EXCEPT ![t] = Aggregate(gen[t])]
  /\ dirty' = (gen[t] # resetGen)
  /\ lone' = IF \E u \in Thread : pc[u] = "send" THEN {} ELSE {t}
  /\ pc' = [pc EXCEPT ![t] = "send"]
  /\ UNCHANGED <<listed, request, openGen, resetGen, op, gen, firmware,
                 detached, settled>>

(* The locals of TtPowerAggregate end with it.                             *)
Return(t) ==
  /\ pc' = [pc EXCEPT ![t] = "idle"]
  /\ op' = [op EXCEPT ![t] = Idle]
  /\ gen' = [gen EXCEPT ![t] = 0]
  /\ msg' = [msg EXCEPT ![t] = Combine({})]
  /\ lone' = lone \ {t}

(* Plausible slip: an aggregate whose flags did not change is not sent.    *)
SendUnlessSame(t) ==
  /\ pc[t] = "send"
  /\ ~detached
  /\ firmware' = IF firmware # NONE /\ msg[t].flags = firmware.flags
                   THEN firmware ELSE msg[t]
  /\ settled' = (t \in lone)
  /\ Return(t)
  /\ UNCHANGED <<listed, request, openGen, resetGen, cached, detached, dirty>>

(* TtBhSendArcMessage serialises the senders, in no particular order, and  *)
(* puts the message in firmware's queue.                                   *)
Send(t) ==
  /\ pc[t] = "send"
  /\ ~detached
  /\ firmware' = msg[t]
  /\ settled' = (t \in lone)
  /\ Return(t)
  /\ UNCHANGED <<listed, request, openGen, resetGen, cached, detached, dirty>>

(* The device is Detached, so no message is sent, or TtBhSendArcMessage    *)
(* fails before it has put one in the queue, which nobody is told of.      *)
SendLost(t) ==
  /\ pc[t] = "send"
  /\ settled' = FALSE
  /\ Return(t)
  /\ UNCHANGED <<listed, request, openGen, resetGen, cached, firmware, detached,
                 dirty>>

-----------------------------------------------------------------------------
(* Plausible slip: a reset does not wait for the requests in flight.       *)
ResetUnguarded(f) ==
  /\ Usable(f)
  /\ openGen[f] = resetGen
  /\ ~detached
  /\ resetGen < MaxGen
  /\ resetGen' = resetGen + 1
  /\ openGen' = [openGen EXCEPT ![f] = resetGen + 1]
  /\ dirty' = TRUE
  /\ UNCHANGED <<listed, request, pc, op, gen, msg, cached, firmware, detached,
                 lone, settled>>

(* A destructive RESET_DEVICE of handle f, exclusive against the           *)
(* SET_POWER_STATEs in flight.  It does not aggregate again.               *)
Reset(f) ==
  /\ Usable(f)
  /\ openGen[f] = resetGen
  /\ ~detached
  /\ resetGen < MaxGen
  /\ \A t \in Thread : op[t].name # "set"
  /\ resetGen' = resetGen + 1
  /\ openGen' = [openGen EXCEPT ![f] = resetGen + 1]
  /\ dirty' = TRUE
  /\ UNCHANGED <<listed, request, pc, op, gen, msg, cached, firmware, detached,
                 lone, settled>>

(* TtEvtDeviceSurpriseRemoval, under the reset resource exclusive.         *)
SurpriseRemoval ==
  /\ ~detached
  /\ \A t \in Thread : op[t].name # "set"
  /\ detached' = TRUE
  /\ UNCHANGED <<listed, request, openGen, resetGen, pc, op, gen, msg, cached,
                 firmware, dirty, lone, settled>>

(* A reset or a loss of power: firmware starts over, knowing no aggregate. *)
(* Nothing on the way back up (POST_RESET, D0Entry) tells it one.          *)
ChipReset ==
  /\ firmware' = NONE
  /\ settled' = FALSE
  /\ UNCHANGED <<listed, request, openGen, resetGen, pc, op, gen, msg, cached,
                 detached, dirty, lone>>

Next ==
  \/ \E t \in Thread :
       \/ \E f \in File :
            \/ FileCreate(t, f)
            \/ FileCleanup(t, f)
            \/ \E r \in Requests : SetPowerState(t, f, r)
       \/ SetPowerStateStored(t)
       \/ ReadGen(t)
       \/ CombineLocked(t)
       \/ Send(t)
       \/ SendLost(t)
  \/ \E f \in File : Reset(f)
  \/ SurpriseRemoval
  \/ ChipReset

Spec == Init /\ [][Next]_vars

-----------------------------------------------------------------------------
TypeOK ==
  /\ listed \subseteq File
  /\ \A f \in File : request[f] \in Request
  /\ openGen \in [File -> 0..MaxGen]
  /\ resetGen \in 0..MaxGen
  /\ pc \in [Thread -> {"idle", "store", "aggregate", "combine", "send"}]
  /\ \A t \in Thread : (pc[t] = "idle") = (op[t] = Idle)
  /\ gen \in [Thread -> 0..MaxGen]
  /\ cached.flags \subseteq 0 .. FlagCount - 1
  /\ \A t \in Thread : msg[t].flags \subseteq 0 .. FlagCount - 1
  /\ firmware # NONE => firmware.flags \subseteq 0 .. FlagCount - 1
  /\ detached \in BOOLEAN
  /\ dirty \in BOOLEAN
  /\ lone \subseteq Thread
  /\ settled \in BOOLEAN

Quiet == \A t \in Thread : pc[t] = "idle"

(* When nothing is in flight and the last aggregate was made for this      *)
(* generation, the cached aggregate is the combination of exactly the live *)
(* handles, whatever opens, closes, sets and torn reads of contributions   *)
(* raced with it (TtPowerAggregate).  A reset does not aggregate, and an   *)
(* aggregate that read the generation before a reset and took its locks    *)
(* after it combines the handles the reset left behind: both end when the  *)
(* next one is made.                                                       *)
CachedIsCurrent == Quiet /\ ~dirty => cached = Aggregate(resetGen)

(* One send is enough to bring firmware abreast, whatever was lost,        *)
(* skipped, crossed or forgotten before it: one that reached firmware's    *)
(* queue and whose thread met no other between its sum under PowerLock and *)
(* its message.  Two that meet may arrive in the order opposite to that of *)
(* their sums, the locks being dropped by then, and firmware keeps the     *)
(* older one until the next open, close or SET_POWER_STATE.                *)
FirmwareIsCurrent ==
  Quiet /\ ~dirty /\ settled => firmware = Aggregate(resetGen)

(* A SET_POWER_STATE takes part in the aggregate made on its behalf: the   *)
(* reset it is exclusive with cannot make its own handle stale between the *)
(* gate and the sum, and a flag its client does not know of stays on.      *)
SetCounts ==
  [][\A t \in Thread :
       CombineLocked(t) /\ op[t].name = "set" /\ op[t].file \in listed
         => LET r == request[op[t].file]
            IN r.flags \cup (r.known .. FlagCount - 1) \subseteq cached'.flags]_vars
=============================================================================
