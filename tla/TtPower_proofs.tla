--------------------------- MODULE TtPower_proofs ---------------------------
(***************************************************************************)
(* Proofs about the power aggregate of TtPower for any number of handles   *)
(* and threads, any requests and any number of resets.                     *)
(***************************************************************************)
EXTENDS TtPower, TLAPS

(***************************************************************************)
(* The cached aggregate.  Whatever changes a contribution leaves a thread  *)
(* that has yet to combine; the last one to combine settles the cache.     *)
(***************************************************************************)
PcInv == pc \in [Thread -> {"idle", "store", "aggregate", "combine", "send"}]

(* Every thread has combined what it changed, or changed nothing.          *)
Combined == \A t \in Thread : pc[t] \in {"idle", "send"}
CachedInv == Combined /\ ~dirty => cached = Aggregate(resetGen)

(* Initially the cache is the aggregate of no handle.                      *)
LEMMA CachedInit == Init => PcInv /\ CachedInv
<1> SUFFICES ASSUME Init PROVE PcInv /\ CachedInv
  OBVIOUS
<1>1. Counted(0) = {}
  BY DEF Init, Counted
<1>2. { request[f] : f \in Counted(0) } = {}
  BY <1>1
<1>3. Aggregate(0) = Combine({})
  BY <1>2 DEF Aggregate
<1> QED  BY <1>3 DEF Init, PcInv, CachedInv

(* An aggregate depends on the list, the contributions and the generations
   of the handles alone.                                                   *)
LEMMA AggregateFrame ==
  ASSUME UNCHANGED <<listed, request, openGen>>, NEW g
  PROVE  Aggregate(g)' = Aggregate(g)
BY DEF Aggregate, Counted

(* Every step keeps the cache settled.                                     *)
LEMMA CachedStep == PcInv /\ CachedInv /\ [Next]_vars => PcInv' /\ CachedInv'
<1> SUFFICES ASSUME PcInv, CachedInv, [Next]_vars PROVE PcInv' /\ CachedInv'
  OBVIOUS
<1>1. ASSUME NEW t \in Thread, NEW f \in File,
             FileCreate(t, f) \/ FileCleanup(t, f)
               \/ (\E r \in Requests : SetPowerState(t, f, r))
      PROVE  PcInv' /\ CachedInv'
  <2>1. pc'[t] \in {"store", "aggregate"} /\ PcInv'
    BY <1>1 DEF PcInv, FileCreate, FileCleanup, SetPowerState
  <2> QED  BY <2>1 DEF CachedInv, Combined
<1>2. ASSUME NEW t \in Thread, SetPowerStateStored(t)
      PROVE  PcInv' /\ CachedInv'
  <2>1. pc'[t] = "aggregate" /\ PcInv'
    BY <1>2 DEF PcInv, SetPowerStateStored
  <2> QED  BY <2>1 DEF CachedInv, Combined
<1>3. ASSUME NEW t \in Thread, ReadGen(t)
      PROVE  PcInv' /\ CachedInv'
  <2>1. pc'[t] = "combine" /\ PcInv'
    BY <1>3 DEF PcInv, ReadGen
  <2> QED  BY <2>1 DEF CachedInv, Combined
<1>4. ASSUME NEW t \in Thread, CombineLocked(t)
      PROVE  PcInv' /\ CachedInv'
  <2>1. PcInv'
    BY <1>4 DEF PcInv, CombineLocked
  <2>2. /\ cached' = Aggregate(gen[t]) /\ dirty' = (gen[t] # resetGen)
        /\ UNCHANGED <<listed, request, openGen>> /\ resetGen' = resetGen
    BY <1>4 DEF CombineLocked
  <2>3. PICK g : g = resetGen
    OBVIOUS
  <2>4. Aggregate(g)' = Aggregate(g)
    BY <2>2, AggregateFrame
  <2>5. ~dirty' => cached' = Aggregate(resetGen)'
    BY <2>2, <2>3, <2>4
  <2> QED  BY <2>1, <2>5 DEF CachedInv
<1>5. ASSUME NEW t \in Thread, Send(t) \/ SendLost(t)
      PROVE  PcInv' /\ CachedInv'
  <2>1. PcInv'
    BY <1>5 DEF PcInv, Send, SendLost, Return
  <2>2. UNCHANGED <<listed, request, openGen, resetGen, cached, dirty>>
    BY <1>5 DEF Send, SendLost
  <2>3. Combined' => Combined
    BY <1>5 DEF Combined, Send, SendLost, Return, PcInv
  <2>4. Aggregate(resetGen)' = Aggregate(resetGen)
    BY <2>2 DEF Aggregate, Counted
  <2> QED  BY <2>1, <2>2, <2>3, <2>4 DEF CachedInv
<1>6. ASSUME NEW f \in File, Reset(f)
      PROVE  PcInv' /\ CachedInv'
  BY <1>6 DEF Reset, PcInv, CachedInv
<1>7. CASE SurpriseRemoval \/ ChipReset \/ UNCHANGED vars
  <2>1. UNCHANGED <<listed, request, openGen, resetGen, cached, dirty, pc>>
    BY <1>7 DEF SurpriseRemoval, ChipReset, vars
  <2>2. Aggregate(resetGen)' = Aggregate(resetGen)
    BY <2>1 DEF Aggregate, Counted
  <2> QED  BY <2>1, <2>2 DEF PcInv, CachedInv, Combined
<1> QED  BY <1>1, <1>2, <1>3, <1>4, <1>5, <1>6, <1>7 DEF Next

(* When nothing is in flight and no reset has intervened, the cached
   aggregate is that of the live handles (TtPowerAggregate).               *)
THEOREM CacheSettles == Spec => []CachedIsCurrent
<1>1. Spec => [](PcInv /\ CachedInv)
  BY CachedInit, CachedStep, PTL DEF Spec
<1>2. PcInv /\ CachedInv => CachedIsCurrent
  BY DEF CachedInv, CachedIsCurrent, Quiet, Combined
<1> QED  BY <1>1, <1>2, PTL

-----------------------------------------------------------------------------
(***************************************************************************)
(* What firmware was told.  A lone sender is the last that combined: one   *)
(* that combined after it would have found it on its way.                  *)
(***************************************************************************)
SendType == DOMAIN msg = Thread
LoneInv ==
  \A t \in lone :
    /\ t \in Thread /\ pc[t] = "send" /\ msg[t] = cached
    /\ \A u \in Thread \ {t} : pc[u] # "send"
SettledInv == settled /\ (\A t \in Thread : pc[t] # "send") => firmware = cached
LastSent == LoneInv /\ SettledInv

(* Initially firmware has been told the aggregate of no handle.            *)
LEMMA LastInit == Init => SendType /\ LastSent
BY DEF Init, LastSent, LoneInv, SettledInv, SendType

(* Every step keeps firmware abreast of the cache, or unsettled.           *)
LEMMA LastStep == PcInv /\ SendType /\ LastSent /\ [Next]_vars => SendType' /\ LastSent'
<1> SUFFICES ASSUME PcInv, SendType, LastSent, [Next]_vars PROVE SendType' /\ LastSent'
  OBVIOUS
<1>1. ASSUME UNCHANGED <<msg, cached, lone>>,
             UNCHANGED <<firmware, settled>> \/ settled' = FALSE,
             \A t \in Thread : pc'[t] = "send" <=> pc[t] = "send"
      PROVE  SendType' /\ LastSent'
  BY <1>1 DEF SendType, LastSent, LoneInv, SettledInv
<1>2. ASSUME NEW t \in Thread, NEW f \in File,
             FileCreate(t, f) \/ FileCleanup(t, f)
               \/ (\E r \in Requests : SetPowerState(t, f, r))
      PROVE  SendType' /\ LastSent'
  <2>1. UNCHANGED <<msg, cached, lone, firmware, settled>>
    BY <1>2 DEF FileCreate, FileCleanup, SetPowerState
  <2>2. \A u \in Thread : pc'[u] = "send" <=> pc[u] = "send"
    BY <1>2 DEF PcInv, FileCreate, FileCleanup, SetPowerState
  <2> QED  BY <1>1, <2>1, <2>2
<1>3. ASSUME NEW t \in Thread, SetPowerStateStored(t) \/ ReadGen(t)
      PROVE  SendType' /\ LastSent'
  <2>1. UNCHANGED <<msg, cached, lone, firmware, settled>>
    BY <1>3 DEF SetPowerStateStored, ReadGen
  <2>2. \A u \in Thread : pc'[u] = "send" <=> pc[u] = "send"
    BY <1>3 DEF PcInv, SetPowerStateStored, ReadGen
  <2> QED  BY <1>1, <2>1, <2>2
<1>4. ASSUME NEW t \in Thread, CombineLocked(t)
      PROVE  SendType' /\ LastSent'
  <2>1. /\ pc'[t] = "send" /\ msg'[t] = cached'
        /\ \A u \in Thread \ {t} : pc'[u] = pc[u]
        /\ lone' = IF \E u \in Thread : pc[u] = "send" THEN {} ELSE {t}
    BY <1>4 DEF CombineLocked, PcInv, SendType
  <2>2. SendType'
    BY <1>4 DEF CombineLocked, SendType
  <2>3. LoneInv'
    BY <2>1 DEF LoneInv
  <2>4. SettledInv'
    BY <2>1 DEF SettledInv
  <2> QED  BY <2>2, <2>3, <2>4 DEF LastSent
<1>5. ASSUME NEW t \in Thread, Send(t) \/ SendLost(t)
      PROVE  SendType' /\ LastSent'
  <2>1. /\ pc[t] = "send" /\ pc'[t] = "idle"
        /\ \A u \in Thread \ {t} : pc'[u] = pc[u] /\ msg'[u] = msg[u]
        /\ lone' = lone \ {t} /\ UNCHANGED cached
        /\ settled' => firmware' = msg[t] /\ t \in lone
    BY <1>5 DEF Send, SendLost, Return, PcInv, SendType
  <2>2. SendType'
    BY <1>5 DEF SendType, Send, SendLost, Return
  <2>3. LoneInv'
    BY <2>1 DEF LastSent, LoneInv
  <2>4. SettledInv'
    BY <2>1 DEF LastSent, LoneInv, SettledInv
  <2> QED  BY <2>2, <2>3, <2>4 DEF LastSent
<1>6. ASSUME NEW f \in File, Reset(f)
      PROVE  SendType' /\ LastSent'
  BY <1>1, <1>6 DEF Reset
<1>7. CASE SurpriseRemoval \/ ChipReset \/ UNCHANGED vars
  BY <1>1, <1>7 DEF SurpriseRemoval, ChipReset, vars
<1> QED  BY <1>2, <1>3, <1>4, <1>5, <1>6, <1>7 DEF Next

(* One send is enough to bring firmware abreast of the live handles, whatever
   was lost, skipped, crossed or forgotten before it: one that reached its
   queue and met no other between its sum and its message
   (TtPowerAggregate).                                                     *)
THEOREM FirmwareSettles == Spec => []FirmwareIsCurrent
<1>1. Spec => [](PcInv /\ CachedInv)
  BY CachedInit, CachedStep, PTL DEF Spec
<1>2. Spec => [](SendType /\ LastSent)
  BY <1>1, LastInit, LastStep, PTL DEF Spec
<1>3. CachedInv /\ LastSent => FirmwareIsCurrent
  BY DEF CachedInv, LastSent, SettledInv, FirmwareIsCurrent, Quiet, Combined
<1> QED  BY <1>1, <1>2, <1>3, PTL

-----------------------------------------------------------------------------
(***************************************************************************)
(* A SET_POWER_STATE and the reset it excludes.                            *)
(***************************************************************************)
OpType ==
  op \in [Thread -> [name: {"idle", "create", "cleanup", "set"},
                     file: File \cup {NONE}, wants: Requests \cup {NONE}]]
SetInv ==
  \A t \in Thread :
    op[t].name = "set" =>
      /\ op[t].file \in File
      /\ openGen[op[t].file] = resetGen
      /\ pc[t] \in {"combine", "send"} => gen[t] = resetGen
SetTypes ==
  /\ PcInv /\ OpType
  /\ DOMAIN gen = Thread /\ DOMAIN openGen = File

(* Initially nothing is set.                                               *)
LEMMA SetInit == Init => SetTypes /\ SetInv
BY DEF Init, SetTypes, PcInv, OpType, SetInv, Idle

(* Every step keeps the handle of a request in flight current.             *)
LEMMA SetStep == SetTypes /\ SetInv /\ [Next]_vars => SetTypes' /\ SetInv'
<1> SUFFICES ASSUME SetTypes, SetInv, [Next]_vars PROVE SetTypes' /\ SetInv'
  OBVIOUS
<1> USE DEF SetTypes, PcInv, OpType
<1>1. ASSUME NEW t \in Thread, NEW f \in File, FileCreate(t, f)
      PROVE  SetTypes' /\ SetInv'
  <2>1. SetTypes'
    BY <1>1 DEF FileCreate
  <2>2. SetInv'
    BY <1>1 DEF FileCreate, SetInv
  <2> QED  BY <2>1, <2>2
<1>2. ASSUME NEW t \in Thread, NEW f \in File, FileCleanup(t, f)
      PROVE  SetTypes' /\ SetInv'
  <2>1. SetTypes'
    BY <1>2 DEF FileCleanup
  <2>2. SetInv'
    BY <1>2 DEF FileCleanup, SetInv
  <2> QED  BY <2>1, <2>2
<1>3. ASSUME NEW t \in Thread, NEW f \in File, NEW r \in Requests, SetPowerState(t, f, r)
      PROVE  SetTypes' /\ SetInv'
  <2>1. SetTypes'
    BY <1>3 DEF SetPowerState
  <2>2. SetInv'
    BY <1>3 DEF SetPowerState, SetInv
  <2> QED  BY <2>1, <2>2
<1>4. ASSUME NEW t \in Thread, SetPowerStateStored(t)
      PROVE  SetTypes' /\ SetInv'
  BY <1>4 DEF SetPowerStateStored, SetInv
<1>5. ASSUME NEW t \in Thread, ReadGen(t)
      PROVE  SetTypes' /\ SetInv'
  BY <1>5 DEF ReadGen, SetInv
<1>6. ASSUME NEW t \in Thread, CombineLocked(t)
      PROVE  SetTypes' /\ SetInv'
  BY <1>6 DEF CombineLocked, SetInv
<1>7. ASSUME NEW t \in Thread, Send(t) \/ SendLost(t)
      PROVE  SetTypes' /\ SetInv'
  <2>1. Return(t) /\ UNCHANGED <<openGen, resetGen>>
    BY <1>7 DEF Send, SendLost
  <2> QED  BY <2>1 DEF Return, SetInv, Idle
<1>8. ASSUME NEW f \in File, Reset(f)
      PROVE  SetTypes' /\ SetInv'
  BY <1>8 DEF Reset, SetInv
<1>9. CASE SurpriseRemoval \/ ChipReset \/ UNCHANGED vars
  BY <1>9 DEF SurpriseRemoval, ChipReset, vars, SetInv
<1> QED  BY <1>1, <1>2, <1>3, <1>4, <1>5, <1>6, <1>7, <1>8, <1>9 DEF Next

(* A SET_POWER_STATE takes part in the aggregate made on its behalf.       *)
THEOREM RequestIsCounted == Spec => SetCounts
<1>1. Spec => [](SetTypes /\ SetInv)
  BY SetInit, SetStep, PTL DEF Spec
<1>2. SetTypes /\ SetInv /\ [Next]_vars
        => [\A t \in Thread :
              CombineLocked(t) /\ op[t].name = "set" /\ op[t].file \in listed
                => LET r == request[op[t].file]
                   IN r.flags \cup (r.known .. FlagCount - 1) \subseteq cached'.flags]_vars
  <2> SUFFICES ASSUME SetInv, NEW t \in Thread, CombineLocked(t),
                      op[t].name = "set", op[t].file \in listed
               PROVE  LET r == request[op[t].file]
                      IN r.flags \cup (r.known .. FlagCount - 1) \subseteq cached'.flags
    OBVIOUS
  <2>1. PICK f, g : f = op[t].file /\ g = gen[t]
    OBVIOUS
  <2>2. f \in Counted(g)
    BY <2>1 DEF SetInv, CombineLocked, Counted
  <2>3. cached' = Combine({ request[h] : h \in Counted(g) })
    BY <2>1 DEF CombineLocked, Aggregate
  <2>4. cached'.flags = UNION { Effective(r) : r \in { request[h] : h \in Counted(g) } }
    BY <2>3 DEF Combine
  <2>5. Effective(request[f]) \subseteq cached'.flags
    BY <2>2, <2>4
  <2> QED  BY <2>1, <2>5 DEF Effective
<1> QED  BY <1>1, <1>2, PTL DEF Spec, SetCounts
=============================================================================
