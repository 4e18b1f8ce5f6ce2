--------------------------- MODULE TtLocks_proofs ---------------------------
(***************************************************************************)
(* Proofs about the resource locks of TtLocks for any number of handles,   *)
(* locks and requests.                                                     *)
(***************************************************************************)
EXTENDS TtLocks, FiniteSetTheorems, TLAPS

(***************************************************************************)
(* What a wake pass does to the types, to the bitmaps and to the queue.    *)
(***************************************************************************)

(* The sets a wake pass works with are sets of pended threads.             *)
LEMMA BatchFacts ==
  ASSUME TypeOK, NEW held
  PROVE  /\ Pended \subseteq Thread /\ Batch \subseteq Pended
         /\ Winners(held) \subseteq Batch /\ Losers(held) \subseteq Batch
         /\ Undrained \subseteq Pended
         /\ \A t \in Pended : /\ req[t] \in Request
                              /\ req[t].lock \in Lock /\ req[t].file \in File
  BY DEF TypeOK, Pended, Batch, Winners, Losers, Undrained, Request

(* The part of TypeOK a wake pass is responsible for, and the rest.        *)
LockTypeOK ==
  /\ resourceLockHeld \in SUBSET Lock
  /\ locksHeld \in [File -> SUBSET Lock]
  /\ pc \in [Thread -> { "idle", "ctl", "pend" }]
  /\ req \in [Thread -> Request \cup { NoReq }]
  /\ ahead \in [Thread -> SUBSET Thread]
  /\ \A t \in Thread : pc[t] # "idle" => req[t] \in Request
DeviceTypeOK ==
  /\ handle \in [File -> { "none", "open", "closed" }]
  /\ openResetGen \in [File -> Nat]
  /\ resetGen \in Nat
  /\ needsHwInit \in BOOLEAN
  /\ detached \in BOOLEAN
  /\ removalWake \in BOOLEAN

(* A wake pass started with well-typed bitmaps leaves well-typed state.    *)
LEMMA WakeType ==
  ASSUME TypeOK,
         NEW held \in SUBSET Lock, NEW lh \in [File -> SUBSET Lock],
         NEW done \in SUBSET Thread,
         TtLocksWakeWaiters(held, lh, done)
  PROVE  LockTypeOK'
<1> PICK kept \in SUBSET Losers(held) : WakePass(held, lh, done, kept)
  BY DEF TtLocksWakeWaiters
<1>1. resourceLockHeld' \in SUBSET Lock
  BY BatchFacts DEF WakePass
<1>2. locksHeld' \in [File -> SUBSET Lock]
  BY BatchFacts DEF WakePass
<1>3. pc' \in [Thread -> { "idle", "ctl", "pend" }]
  BY DEF TypeOK, WakePass
<1>4. req' \in [Thread -> Request \cup { NoReq }]
  BY DEF TypeOK, WakePass
<1>5. ahead' \in [Thread -> SUBSET Thread]
  BY BatchFacts DEF TypeOK, WakePass
<1>6. \A t \in Thread : pc'[t] # "idle" => req'[t] \in Request
  BY DEF TypeOK, WakePass
<1> QED  BY <1>1, <1>2, <1>3, <1>4, <1>5, <1>6 DEF LockTypeOK

(***************************************************************************)
(* Type correctness.                                                       *)
(***************************************************************************)
LEMMA TypeStep == TypeOK /\ [Next]_vars => TypeOK'
<1> SUFFICES ASSUME TypeOK, [Next]_vars PROVE TypeOK'
  OBVIOUS
<1>1. ASSUME NEW f \in File, FileCreate(f) PROVE TypeOK'
  BY <1>1 DEF FileCreate, TypeOK
<1>2. ASSUME NEW f \in File, FileCleanup(f) PROVE TypeOK'
  <2>1. /\ resourceLockHeld \ locksHeld[f] \in SUBSET Lock
        /\ [locksHeld EXCEPT ![f] = {}] \in [File -> SUBSET Lock]
    BY DEF TypeOK
  <2>2. TtLocksWakeWaiters(resourceLockHeld \ locksHeld[f],
                           [locksHeld EXCEPT ![f] = {}], {})
    BY <1>2 DEF FileCleanup
  <2>3. DeviceTypeOK'
    BY <1>2 DEF FileCleanup, TypeOK, DeviceTypeOK
  <2>4. LockTypeOK'
    BY <2>1, <2>2, WakeType
  <2> QED  BY <2>3, <2>4 DEF TypeOK, LockTypeOK, DeviceTypeOK
<1>3. ASSUME NEW f \in File, PostReset(f) PROVE TypeOK'
  BY <1>3 DEF PostReset, TypeOK, bitmapVars
<1>4. ASSUME NEW f \in File, NEW hw \in BOOLEAN, BumpResetGen(f, hw)
      PROVE  TypeOK'
  <2>1. TtLocksWakeWaiters(resourceLockHeld, locksHeld, {})
    BY <1>4 DEF BumpResetGen
  <2>2. needsHwInit' \in BOOLEAN
    BY <1>4 DEF BumpResetGen, TypeOK
  <2>3. DeviceTypeOK'
    BY <1>4, <2>2 DEF BumpResetGen, TypeOK, DeviceTypeOK
  <2>4. resourceLockHeld \in SUBSET Lock /\ locksHeld \in [File -> SUBSET Lock]
    BY DEF TypeOK
  <2>5. LockTypeOK'
    BY <2>1, <2>4, WakeType
  <2> QED  BY <2>3, <2>5 DEF TypeOK, LockTypeOK, DeviceTypeOK
<1>5. ASSUME NEW t \in Thread, NEW f \in File, NEW cmd \in Cmd, NEW l \in Lock,
             Dispatch(t, f, cmd, l)
      PROVE  TypeOK'
  BY <1>5 DEF Dispatch, TypeOK, Request, bitmapVars, deviceVars
<1>6. ASSUME NEW t \in Thread, AcquireWins(t) PROVE TypeOK'
  BY <1>6 DEF AcquireWins, TtLockTryAcquire, Complete, TypeOK, Request, deviceVars
<1>7. ASSUME NEW t \in Thread, CtlNoEffect(t) PROVE TypeOK'
  BY <1>7 DEF CtlNoEffect, Complete, TypeOK, bitmapVars, deviceVars
<1>8. ASSUME NEW t \in Thread, AcquirePends(t) PROVE TypeOK'
  BY <1>8 DEF AcquirePends, TypeOK, Pended, bitmapVars, deviceVars
<1>9. ASSUME NEW t \in Thread, Release(t) PROVE TypeOK'
  <2> DEFINE f == req[t].file
             l == req[t].lock
  <2>1. TtLocksWakeWaiters(resourceLockHeld \ { l },
                           [locksHeld EXCEPT ![f] = @ \ { l }], { t })
    BY <1>9 DEF Release
  <2>2. /\ resourceLockHeld \ { l } \in SUBSET Lock
        /\ [locksHeld EXCEPT ![f] = @ \ { l }] \in [File -> SUBSET Lock]
        /\ { t } \in SUBSET Thread
    BY DEF TypeOK
  <2>3. DeviceTypeOK'
    BY <1>9 DEF Release, TypeOK, DeviceTypeOK, deviceVars
  <2>4. LockTypeOK'
    BY <2>1, <2>2, WakeType
  <2> QED  BY <2>3, <2>4 DEF TypeOK, LockTypeOK, DeviceTypeOK
<1>10. ASSUME NEW t \in Thread, WdfCancel(t) PROVE TypeOK'
  BY <1>10 DEF WdfCancel, Complete, TypeOK, bitmapVars, deviceVars
<1>11. CASE SurpriseRemoval
  BY <1>11 DEF SurpriseRemoval, TypeOK, bitmapVars
<1>12. CASE SurpriseRemovalWake
  <2>1. TtLocksWakeWaiters(resourceLockHeld, locksHeld, {})
    BY <1>12 DEF SurpriseRemovalWake
  <2>2. resourceLockHeld \in SUBSET Lock /\ locksHeld \in [File -> SUBSET Lock]
    BY DEF TypeOK
  <2>3. DeviceTypeOK'
    BY <1>12 DEF SurpriseRemovalWake, TypeOK, DeviceTypeOK
  <2>4. LockTypeOK'
    BY <2>1, <2>2, WakeType
  <2> QED  BY <2>3, <2>4 DEF TypeOK, LockTypeOK, DeviceTypeOK
<1>13. CASE UNCHANGED vars
  BY <1>13 DEF vars, TypeOK
<1> QED
  BY <1>1, <1>2, <1>3, <1>4, <1>5, <1>6, <1>7, <1>8, <1>9, <1>10, <1>11, <1>12,
     <1>13 DEF Next, TtIoctlLockCtl

(* The initial state is well typed.                                         *)
LEMMA TypeInit == Init => TypeOK
<1>1. Init => LockTypeOK
  BY DEF Init, LockTypeOK
<1>2. Init => DeviceTypeOK
  <2>1. Init => /\ needsHwInit \in BOOLEAN /\ detached \in BOOLEAN
                /\ removalWake \in BOOLEAN
    BY Zenon DEF Init
  <2>2. Init => /\ handle \in [File -> { "none", "open", "closed" }]
                /\ openResetGen \in [File -> Nat] /\ resetGen \in Nat
    BY DEF Init
  <2> QED  BY <2>1, <2>2 DEF DeviceTypeOK
<1> QED  BY <1>1, <1>2 DEF TypeOK, LockTypeOK, DeviceTypeOK

(* Every reachable state of the lock code is well typed, for any number of
   handles, locks and outstanding requests.                                *)
THEOREM TypeCorrect == Spec => []TypeOK
  BY TypeInit, TypeStep, PTL DEF Spec

(***************************************************************************)
(* Mutual exclusion and the order of the queue.  HeldExactlyOnce alone is  *)
(* not inductive: a wake pass grants each free lock to one request only    *)
(* because two queued requests are always ordered, so QueueOrder is        *)
(* carried along.                                                          *)
(***************************************************************************)
Consistent(held, lh) ==
  /\ \A f, g \in File : f # g => lh[f] \cap lh[g] = {}
  /\ held = UNION { lh[f] : f \in File }

(* ahead describes a queue: the pended requests are totally ordered by it and
   nothing else is in it.                                                  *)
QueueOrder ==
  /\ \A t \in Thread : ahead[t] \subseteq Pended \ { t }
  /\ \A t \in Thread \ Pended : ahead[t] = {}
  /\ \A t, u \in Pended : t # u => (t \in ahead[u] <=> u \notin ahead[t])
  /\ \A t, u \in Pended : u \in ahead[t] => ahead[u] \subseteq ahead[t]

LockInv == TypeOK /\ HeldExactlyOnce /\ QueueOrder

(* A wake pass keeps the queue totally ordered: re-queued losers keep their
   order among themselves and go behind the requests that were not drained. *)
LEMMA WakeQueue ==
  ASSUME TypeOK, QueueOrder, NEW held, NEW lh, NEW done \in SUBSET Thread,
         done \cap Pended = {}, TtLocksWakeWaiters(held, lh, done)
  PROVE  QueueOrder'
<1> PICK kept \in SUBSET Losers(held) : WakePass(held, lh, done, kept)
  BY DEF TtLocksWakeWaiters
<1>1. /\ kept \subseteq Batch /\ Batch \subseteq Pended /\ Pended \subseteq Thread
      /\ Undrained = Pended \ Batch
  BY BatchFacts DEF Undrained
<1>2. Pended' = Undrained \cup kept
  BY <1>1 DEF WakePass, Pended, TypeOK
<1> DEFINE Before(w, t) ==
             \/ t \in kept /\ (w \in Undrained \/ (w \in ahead[t] /\ w \in kept))
             \/ t \in Undrained /\ w \in ahead[t] /\ w \notin Batch
<1>3. \A t \in Thread : \A w : w \in ahead'[t] <=> Before(w, t)
  <2> TAKE t \in Thread
  <2>1. ahead'[t] = IF t \in kept THEN Undrained \cup (ahead[t] \cap kept)
                    ELSE IF t \in Undrained THEN ahead[t] \ Batch
                    ELSE {}
    BY DEF WakePass
  <2> QED  BY <1>1, <2>1
<1>0. /\ \A t \in Thread : \A w : w \in ahead[t] => w \in Pended /\ w # t
      /\ \A t, u \in Pended : t # u => (t \in ahead[u] <=> u \notin ahead[t])
      /\ \A t, u \in Pended : \A w : u \in ahead[t] /\ w \in ahead[u] => w \in ahead[t]
  BY DEF QueueOrder
<1>4. \A t \in Thread : ahead'[t] \subseteq Pended' \ { t }
  <2> SUFFICES ASSUME NEW t \in Thread, NEW w, w \in ahead'[t]
               PROVE  w \in Pended' /\ w # t
    OBVIOUS
  <2> QED  BY <1>0, <1>1, <1>2, <1>3
<1>5. \A t \in Thread \ Pended' : ahead'[t] = {}
  BY <1>1, <1>2, <1>3
<1>6. \A t, u \in Pended' : t # u => (t \in ahead'[u] <=> u \notin ahead'[t])
  <2> SUFFICES ASSUME NEW t \in Pended', NEW u \in Pended', t # u
               PROVE  t \in ahead'[u] <=> u \notin ahead'[t]
    OBVIOUS
  <2>1. t \in ahead[u] <=> u \notin ahead[t]
    BY <1>0, <1>1, <1>2
  <2>2. /\ t \in Thread /\ u \in Thread
        /\ t \in kept <=> t \in Batch
        /\ u \in kept <=> u \in Batch
        /\ t \in Undrained <=> t \notin Batch
        /\ u \in Undrained <=> u \notin Batch
    BY <1>1, <1>2
  <2> QED  BY <1>3, <2>1, <2>2
<1>7. \A t, u \in Pended' : u \in ahead'[t] => ahead'[u] \subseteq ahead'[t]
  <2> SUFFICES ASSUME NEW t \in Pended', NEW u \in Pended', u \in ahead'[t],
                      NEW w, w \in ahead'[u]
               PROVE  w \in ahead'[t]
    OBVIOUS
  <2> QED  BY <1>0, <1>1, <1>2, <1>3
<1> QED  BY <1>4, <1>5, <1>6, <1>7 DEF QueueOrder

(* A wake pass never grants one lock twice.                                *)
LEMMA WinnersDiffer ==
  ASSUME TypeOK, QueueOrder, NEW held,
         NEW t \in Winners(held), NEW u \in Winners(held),
         req[t].lock = req[u].lock
  PROVE  t = u
<1>1. t \in Pended /\ u \in Pended
  BY BatchFacts
<1> QED  BY <1>1 DEF QueueOrder, Winners

(* A wake pass started with consistent bitmaps leaves them consistent.     *)
LEMMA WakeHeld ==
  ASSUME TypeOK, QueueOrder, NEW held, NEW lh, NEW done \in SUBSET Thread,
         Consistent(held, lh), TtLocksWakeWaiters(held, lh, done)
  PROVE  HeldExactlyOnce'
<1> PICK kept \in SUBSET Losers(held) : WakePass(held, lh, done, kept)
  BY DEF TtLocksWakeWaiters
<1>1. \A f \in File : \A l :
        l \in locksHeld'[f] <=>
          \/ l \in lh[f]
          \/ \E t \in Winners(held) : req[t].file = f /\ req[t].lock = l
  BY DEF WakePass
<1>2. \A t \in Winners(held) : req[t].lock \notin held /\ req[t].file \in File
  BY BatchFacts DEF Winners
<1>3. \A f, g \in File : f # g => locksHeld'[f] \cap locksHeld'[g] = {}
  <2> SUFFICES ASSUME NEW f \in File, NEW g \in File, f # g,
                      NEW l, l \in locksHeld'[f], l \in locksHeld'[g]
               PROVE  FALSE
    OBVIOUS
  <2>1. CASE l \in lh[f]
    BY <1>1, <1>2, <2>1 DEF Consistent
  <2>2. CASE l \in lh[g]
    BY <1>1, <1>2, <2>2 DEF Consistent
  <2>3. CASE l \notin lh[f] /\ l \notin lh[g]
    <3>1. PICK t \in Winners(held) : req[t].file = f /\ req[t].lock = l
      BY <1>1, <2>3
    <3>2. PICK u \in Winners(held) : req[u].file = g /\ req[u].lock = l
      BY <1>1, <2>3
    <3> QED  BY <3>1, <3>2, WinnersDiffer
  <2> QED  BY <2>1, <2>2, <2>3
<1>4. resourceLockHeld' = UNION { locksHeld'[f] : f \in File }
  BY <1>1, <1>2 DEF WakePass, Consistent
<1> QED  BY <1>3, <1>4 DEF HeldExactlyOnce

(* What every waker leaves for its wake pass: consistent bitmaps.          *)
LEMMA LockStep == LockInv /\ [Next]_vars => LockInv'
<1> SUFFICES ASSUME LockInv, [Next]_vars PROVE HeldExactlyOnce' /\ QueueOrder'
  BY TypeStep DEF LockInv
<1> USE DEF LockInv
<1>0. Consistent(resourceLockHeld, locksHeld)
  BY DEF HeldExactlyOnce, Consistent
<1>1. ASSUME NEW f \in File, FileCreate(f) PROVE HeldExactlyOnce' /\ QueueOrder'
  BY <1>1 DEF FileCreate, HeldExactlyOnce, QueueOrder, Pended
<1>2. ASSUME NEW f \in File, FileCleanup(f) PROVE HeldExactlyOnce' /\ QueueOrder'
  <2> DEFINE held == resourceLockHeld \ locksHeld[f]
             lh == [locksHeld EXCEPT ![f] = {}]
  <2>1. Consistent(held, lh)
    BY <1>0 DEF Consistent, TypeOK
  <2>2. TtLocksWakeWaiters(held, lh, {})
    BY <1>2 DEF FileCleanup
  <2> HIDE DEF held, lh
  <2> QED  BY <2>1, <2>2, WakeHeld, WakeQueue
<1>3. ASSUME NEW f \in File, PostReset(f) PROVE HeldExactlyOnce' /\ QueueOrder'
  BY <1>3 DEF PostReset, HeldExactlyOnce, QueueOrder, Pended, bitmapVars
<1>4. ASSUME NEW f \in File, NEW hw \in BOOLEAN, BumpResetGen(f, hw)
      PROVE  HeldExactlyOnce' /\ QueueOrder'
  <2>1. TtLocksWakeWaiters(resourceLockHeld, locksHeld, {})
    BY <1>4 DEF BumpResetGen
  <2> QED  BY <1>0, <2>1, WakeHeld, WakeQueue
<1>5. ASSUME NEW t \in Thread, NEW f \in File, NEW cmd \in Cmd, NEW l \in Lock,
             Dispatch(t, f, cmd, l)
      PROVE  HeldExactlyOnce' /\ QueueOrder'
  <2>1. Pended' = Pended
    BY <1>5 DEF Dispatch, Pended, TypeOK
  <2> QED  BY <1>5, <2>1 DEF Dispatch, HeldExactlyOnce, QueueOrder, bitmapVars
<1>6. ASSUME NEW t \in Thread, AcquireWins(t) PROVE HeldExactlyOnce' /\ QueueOrder'
  <2>1. Pended' = Pended /\ ahead' = ahead
    BY <1>6 DEF AcquireWins, TtLockTryAcquire, Complete, Pended, TypeOK
  <2>2. QueueOrder'
    BY <2>1 DEF QueueOrder
  <2>3. req[t].file \in File
    BY <1>6 DEF AcquireWins, TypeOK, Request
  <2>4. /\ req[t].lock \notin resourceLockHeld
        /\ resourceLockHeld' = resourceLockHeld \cup { req[t].lock }
        /\ locksHeld' = [locksHeld EXCEPT ![req[t].file] = @ \cup { req[t].lock }]
    BY <1>6 DEF AcquireWins, TtLockTryAcquire
  <2>5. HeldExactlyOnce'
    BY <2>3, <2>4 DEF HeldExactlyOnce, TypeOK
  <2> QED  BY <2>2, <2>5
<1>7. ASSUME NEW t \in Thread, CtlNoEffect(t) PROVE HeldExactlyOnce' /\ QueueOrder'
  <2>1. Pended' = Pended
    BY <1>7 DEF CtlNoEffect, Complete, Pended, TypeOK
  <2> QED  BY <1>7, <2>1 DEF CtlNoEffect, HeldExactlyOnce, QueueOrder, bitmapVars
<1>8. ASSUME NEW t \in Thread, AcquirePends(t) PROVE HeldExactlyOnce' /\ QueueOrder'
  <2>1. Pended' = Pended \cup { t } /\ t \notin Pended
    BY <1>8 DEF AcquirePends, Pended, TypeOK
  <2>2. \A u \in Thread : ahead'[u] = IF u = t THEN Pended ELSE ahead[u]
    BY <1>8 DEF AcquirePends, TypeOK
  <2>3. Pended \subseteq Thread /\ t \in Thread
    BY DEF Pended
  <2>4. QueueOrder'
    <3>1. \A u \in Thread : ahead'[u] \subseteq Pended' \ { u }
      BY <2>1, <2>2, <2>3 DEF QueueOrder
    <3>2. \A u \in Thread \ Pended' : ahead'[u] = {}
      BY <2>1, <2>2, <2>3 DEF QueueOrder
    <3>3. \A u, w \in Pended' : u # w => (u \in ahead'[w] <=> w \notin ahead'[u])
      BY <2>1, <2>2, <2>3 DEF QueueOrder
    <3>4. \A u, w \in Pended' : w \in ahead'[u] => ahead'[w] \subseteq ahead'[u]
      BY <2>1, <2>2, <2>3 DEF QueueOrder
    <3> QED  BY <3>1, <3>2, <3>3, <3>4 DEF QueueOrder
  <2> QED  BY <1>8, <2>4 DEF AcquirePends, HeldExactlyOnce, bitmapVars
<1>9. ASSUME NEW t \in Thread, Release(t) PROVE HeldExactlyOnce' /\ QueueOrder'
  <2> DEFINE f == req[t].file
             l == req[t].lock
             held == resourceLockHeld \ { l }
             lh == [locksHeld EXCEPT ![f] = @ \ { l }]
  <2>1. TtLocksWakeWaiters(held, lh, { t })
    BY <1>9 DEF Release
  <2>2. l \in locksHeld[f] /\ f \in File /\ { t } \cap Pended = {}
    BY <1>9 DEF Release, TypeOK, Request, Pended
  <2>3. Consistent(held, lh)
    BY <1>0, <2>2 DEF Consistent, TypeOK
  <2> HIDE DEF held, lh
  <2> QED  BY <2>1, <2>2, <2>3, WakeHeld, WakeQueue
<1>10. ASSUME NEW t \in Thread, WdfCancel(t) PROVE HeldExactlyOnce' /\ QueueOrder'
  <2>1. Pended' = Pended \ { t }
    BY <1>10 DEF WdfCancel, Complete, Pended, TypeOK
  <2>2. \A u \in Thread : \A w : w \in ahead'[u] <=> (u # t /\ w # t /\ w \in ahead[u])
    BY <1>10 DEF WdfCancel
  <2>3. Pended \subseteq Thread /\ t \in Thread
    BY DEF Pended
  <2>4. QueueOrder'
    <3>0. /\ \A u \in Thread : \A w : w \in ahead[u] => w \in Pended /\ w # u
          /\ \A u, w \in Pended : u # w => (u \in ahead[w] <=> w \notin ahead[u])
          /\ \A u, w \in Pended : \A x :
               w \in ahead[u] /\ x \in ahead[w] => x \in ahead[u]
          /\ \A u \in Thread \ Pended : ahead[u] = {}
      BY DEF QueueOrder
    <3>1. \A u \in Thread : ahead'[u] \subseteq Pended' \ { u }
      BY <2>1, <2>2, <2>3, <3>0
    <3>2. \A u \in Thread \ Pended' : ahead'[u] = {}
      BY <2>1, <2>2, <2>3, <3>0
    <3>3. \A u, w \in Pended' : u # w => (u \in ahead'[w] <=> w \notin ahead'[u])
      BY <2>1, <2>2, <2>3, <3>0
    <3>4. \A u, w \in Pended' : w \in ahead'[u] => ahead'[w] \subseteq ahead'[u]
      BY <2>1, <2>2, <2>3, <3>0
    <3> QED  BY <3>1, <3>2, <3>3, <3>4 DEF QueueOrder
  <2> QED  BY <1>10, <2>4 DEF WdfCancel, HeldExactlyOnce, bitmapVars
<1>11. CASE SurpriseRemoval
  BY <1>11 DEF SurpriseRemoval, HeldExactlyOnce, QueueOrder, Pended, bitmapVars
<1>12. CASE SurpriseRemovalWake
  <2>1. TtLocksWakeWaiters(resourceLockHeld, locksHeld, {})
    BY <1>12 DEF SurpriseRemovalWake
  <2> QED  BY <1>0, <2>1, WakeHeld, WakeQueue
<1>13. CASE UNCHANGED vars
  BY <1>13 DEF vars, HeldExactlyOnce, QueueOrder, Pended
<1> QED
  BY <1>1, <1>2, <1>3, <1>4, <1>5, <1>6, <1>7, <1>8, <1>9, <1>10, <1>11, <1>12,
     <1>13 DEF Next, TtIoctlLockCtl

(* The invariant holds in every state of every behaviour.                   *)
LEMMA LockInvariant == Spec => []LockInv
<1>1. Init => HeldExactlyOnce /\ QueueOrder
  BY DEF Init, HeldExactlyOnce, QueueOrder, Pended
<1>2. Init => LockInv
  BY <1>1, TypeInit DEF LockInv
<1> QED  BY <1>2, LockStep, PTL DEF Spec

(* Mutual exclusion for any number of handles, locks and requests, and any
   batch size: the wake passes never grant one lock twice, and the device
   bitmap never disagrees with the handles' bitmaps.                       *)
THEOREM MutualExclusion == Spec => []HeldExactlyOnce
  BY LockInvariant, PTL DEF LockInv

(***************************************************************************)
(* No lost wake-up and no stranded waiter, when the batch can drain the    *)
(* whole queue.  (TLC refutes both without that condition.)                *)
(***************************************************************************)
WideBatch == Cardinality(Thread) <= WakeBatch

(* Stronger than NoLostWakeup: even a stale waiter's lock is held.         *)
QueuedHeld == \A t \in Pended : req[t].lock \in resourceLockHeld

(* A thread past its gate check has a live handle: no exclusive section ran
   since, because the thread holds the reset resource shared.              *)
GateHolds ==
  \A t \in Thread : pc[t] = "ctl" => ~detached /\ ~Stale(req[t].file)

WakeInv == LockInv /\ QueuedHeld /\ GateHolds /\ NoStrandedWaiter

(* A batch as long as the list of requests drains the whole queue.          *)
LEMMA BatchIsQueue ==
  ASSUME TypeOK, QueueOrder, WideBatch PROVE Batch = Pended
<1> SUFFICES ASSUME NEW t \in Pended PROVE Cardinality(ahead[t]) < WakeBatch
  BY DEF Batch
<1>1. t \in Thread /\ ahead[t] \in SUBSET (Thread \ { t })
  BY DEF QueueOrder, Pended
<1>2. IsFiniteSet(Thread) /\ WakeBatch \in Nat
  BY LocksAssumption
<1>3. /\ IsFiniteSet(Thread \ { t })
      /\ Cardinality(Thread \ { t }) = Cardinality(Thread) - 1
  BY <1>1, <1>2, FS_RemoveElement
<1>4. IsFiniteSet(ahead[t]) /\ Cardinality(ahead[t]) <= Cardinality(Thread \ { t })
  BY <1>1, <1>3, FS_Subset
<1>5. Cardinality(ahead[t]) \in Nat /\ Cardinality(Thread) \in Nat
  BY <1>2, <1>4, FS_CardinalityType
<1> QED  BY <1>2, <1>3, <1>4, <1>5 DEF WideBatch

(* Among the live drained requests for a lock one was queued first: it wins. *)
LEMMA FreeLockIsGranted ==
  ASSUME TypeOK, QueueOrder, WideBatch, NEW held,
         NEW t \in Batch, ~Dead(t), req[t].lock \notin held
  PROVE  \E u \in Winners(held) : req[u].lock = req[t].lock
<1> DEFINE Rivals == { u \in Batch : ~Dead(u) /\ req[u].lock = req[t].lock }
           A == { ahead[u] : u \in Rivals }
<1>1. Batch \subseteq Pended /\ Pended \subseteq Thread /\ Batch = Pended
  BY BatchFacts, BatchIsQueue
<1>2. A \subseteq SUBSET Thread /\ A # {}
  BY <1>1 DEF TypeOK
<1>3. IsWellFoundedOn(StrictSubsetOrdering(Thread), SUBSET Thread)
  BY FS_StrictSubsetOrderingWellFounded, FS_FiniteSubsetsOfFinite, LocksAssumption
<1>4. PICK a \in A : \A b \in A : ~(<<b, a>> \in StrictSubsetOrdering(Thread))
  <2> HIDE DEF A
  <2> QED  BY <1>2, <1>3, WFMin
<1>5. PICK u \in Rivals : a = ahead[u]
  OBVIOUS
<1>6. ASSUME NEW w \in ahead[u], ~Dead(w), req[w].lock = req[u].lock
      PROVE  FALSE
  <2>1. w \in Pended /\ u \in Pended /\ w # u
    BY <1>1, <1>5 DEF QueueOrder
  <2>2. ahead[w] \subseteq ahead[u] /\ w \notin ahead[w]
    BY <2>1, <1>1 DEF QueueOrder
  <2>3. ahead[w] \in A
    BY <1>1, <1>5, <1>6, <2>1
  <2>4. <<ahead[w], a>> \in StrictSubsetOrdering(Thread)
    BY <1>2, <1>5, <1>6, <2>2, <2>3 DEF StrictSubsetOrdering
  <2> QED  BY <1>4, <2>3, <2>4
<1>7. u \in Winners(held)
  BY <1>5, <1>6 DEF Winners
<1> QED  BY <1>5, <1>7

(* After a wake pass that drained the whole queue, every request still queued
   is live and waits for a lock that is held.                              *)
LEMMA WakeServes ==
  ASSUME TypeOK, QueueOrder, WideBatch, NEW held, NEW lh,
         NEW done \in SUBSET Thread, done \cap Pended = {},
         TtLocksWakeWaiters(held, lh, done)
  PROVE  \A t \in Pended' : /\ ~Dead(t) /\ req'[t] = req[t] /\ t \in Thread
                             /\ req'[t].lock \in resourceLockHeld'
<1> PICK kept \in SUBSET Losers(held) : WakePass(held, lh, done, kept)
  BY DEF TtLocksWakeWaiters
<1>1. Batch = Pended /\ kept \subseteq Batch /\ Pended \subseteq Thread
  BY BatchFacts, BatchIsQueue
<1>2. Pended' = kept
  BY <1>1 DEF WakePass, Pended, TypeOK
<1> SUFFICES ASSUME NEW t \in kept
             PROVE  /\ ~Dead(t) /\ req'[t] = req[t] /\ t \in Thread
                    /\ req'[t].lock \in resourceLockHeld'
  BY <1>2
<1>3. ~Dead(t) /\ t \in Thread /\ t \in Pended
  BY <1>1 DEF Losers
<1>4. req'[t] = req[t]
  BY <1>1, <1>3 DEF WakePass
<1>5. CASE req[t].lock \in held
  BY <1>3, <1>4, <1>5 DEF WakePass
<1>6. CASE req[t].lock \notin held
  <2>1. PICK u \in Winners(held) : req[u].lock = req[t].lock
    BY <1>1, <1>3, <1>6, FreeLockIsGranted
  <2> QED  BY <1>3, <1>4, <2>1 DEF WakePass
<1> QED  BY <1>5, <1>6

(* A wake pass moves no thread into or within a handler.                   *)
LEMMA WakeKeepsHandlers ==
  ASSUME TypeOK, NEW held, NEW lh, NEW done \in SUBSET Thread,
         TtLocksWakeWaiters(held, lh, done)
  PROVE  \A t \in Thread : pc'[t] = "ctl" => pc[t] = "ctl" /\ req'[t] = req[t]
<1> PICK kept \in SUBSET Losers(held) : WakePass(held, lh, done, kept)
  BY DEF TtLocksWakeWaiters
<1> QED  BY DEF WakePass, TypeOK

(* What a waker has to establish beyond its wake pass: that the threads in
   their handlers still have live handles.                                 *)
LEMMA WakerStep ==
  ASSUME WideBatch, WakeInv, NEW held, NEW lh, NEW done \in SUBSET Thread,
         done \cap Pended = {}, TtLocksWakeWaiters(held, lh, done),
         \/ NoSharedHolder
         \/ UNCHANGED << openResetGen, resetGen, detached >>
  PROVE  QueuedHeld' /\ GateHolds' /\ NoStrandedWaiter'
<1> USE DEF WakeInv, LockInv
<1>1. \A t \in Pended' : /\ ~Dead(t) /\ req'[t] = req[t] /\ t \in Thread
                         /\ req'[t].lock \in resourceLockHeld'
  BY WakeServes
<1>2. QueuedHeld'
  BY <1>1 DEF QueuedHeld
<1>3. NoStrandedWaiter'
  BY <1>1 DEF NoStrandedWaiter, Dead, Stale
<1>4. \A t \in Thread : pc'[t] = "ctl" => pc[t] = "ctl" /\ req'[t] = req[t]
  BY WakeKeepsHandlers
<1>5. GateHolds'
  BY <1>4 DEF GateHolds, NoSharedHolder, Stale
<1> QED  BY <1>2, <1>3, <1>5

(* Every step keeps the invariant of the waiters.                           *)
LEMMA WakeStep == WideBatch /\ WakeInv /\ [Next]_vars => WakeInv'
<1> SUFFICES ASSUME WideBatch, WakeInv, [Next]_vars
             PROVE  QueuedHeld' /\ GateHolds' /\ NoStrandedWaiter'
  BY LockStep DEF WakeInv
<1> DEFINE Goal == QueuedHeld' /\ GateHolds' /\ NoStrandedWaiter'
<1>0. TypeOK /\ {} \subseteq Thread /\ {} \cap Pended = {}
  BY DEF WakeInv, LockInv
<1>1. ASSUME NEW f \in File, FileCreate(f) PROVE Goal
  BY <1>0, <1>1 DEF FileCreate, WakeInv, QueuedHeld, GateHolds, NoStrandedWaiter,
     Pended, Stale, TypeOK
<1>2. ASSUME NEW f \in File, FileCleanup(f) PROVE Goal
  <2> DEFINE held == resourceLockHeld \ locksHeld[f]
             lh == [locksHeld EXCEPT ![f] = {}]
  <2>1. /\ TtLocksWakeWaiters(held, lh, {})
        /\ UNCHANGED << openResetGen, resetGen, detached >>
    BY <1>2 DEF FileCleanup
  <2> HIDE DEF held, lh
  <2> QED  BY <1>0, <2>1, WakerStep
<1>3. ASSUME NEW f \in File, PostReset(f) PROVE Goal
  BY <1>3 DEF PostReset, WakeInv, QueuedHeld, GateHolds, NoStrandedWaiter, Pended,
     Stale, bitmapVars
<1>4. ASSUME NEW f \in File, NEW hw \in BOOLEAN, BumpResetGen(f, hw) PROVE Goal
  <2>1. NoSharedHolder /\ TtLocksWakeWaiters(resourceLockHeld, locksHeld, {})
    BY <1>4 DEF BumpResetGen
  <2> QED  BY <1>0, <2>1, WakerStep
<1>5. ASSUME NEW t \in Thread, NEW f \in File, NEW cmd \in Cmd, NEW l \in Lock,
             Dispatch(t, f, cmd, l)
      PROVE  Goal
  <2>1. Pended' = Pended /\ \A u \in Pended : req'[u] = req[u]
    BY <1>0, <1>5 DEF Dispatch, Pended, TypeOK
  <2>2. UNCHANGED << resourceLockHeld, openResetGen, resetGen, detached, removalWake >>
    BY <1>5 DEF Dispatch, bitmapVars, deviceVars
  <2>3. ~detached /\ ~Stale(f)
    BY <1>5 DEF Dispatch, TtCheckIoGates
  <2>4. \A u \in Thread : pc'[u] = "ctl" => \/ pc[u] = "ctl" /\ req'[u] = req[u]
                                            \/ u = t /\ req'[u].file = f
    BY <1>0, <1>5 DEF Dispatch, TypeOK
  <2> QED  BY <2>1, <2>2, <2>3, <2>4 DEF WakeInv, QueuedHeld, GateHolds,
             NoStrandedWaiter, Stale
<1>6. ASSUME NEW t \in Thread, AcquireWins(t) PROVE Goal
  BY <1>0, <1>6 DEF AcquireWins, TtLockTryAcquire, Complete, WakeInv, QueuedHeld,
     GateHolds, NoStrandedWaiter, Pended, Stale, TypeOK, deviceVars
<1>7. ASSUME NEW t \in Thread, CtlNoEffect(t) PROVE Goal
  BY <1>0, <1>7 DEF CtlNoEffect, Complete, WakeInv, QueuedHeld, GateHolds,
     NoStrandedWaiter, Pended, Stale, TypeOK, bitmapVars, deviceVars
<1>8. ASSUME NEW t \in Thread, AcquirePends(t) PROVE Goal
  BY <1>0, <1>8 DEF AcquirePends, WakeInv, QueuedHeld, GateHolds, NoStrandedWaiter,
     Pended, Stale, TypeOK, bitmapVars, deviceVars
<1>9. ASSUME NEW t \in Thread, Release(t) PROVE Goal
  <2> DEFINE held == resourceLockHeld \ { req[t].lock }
             lh == [locksHeld EXCEPT ![req[t].file] = @ \ { req[t].lock }]
  <2>1. TtLocksWakeWaiters(held, lh, { t })
    BY <1>9 DEF Release
  <2>2. { t } \cap Pended = {} /\ UNCHANGED << openResetGen, resetGen, detached >>
    BY <1>9 DEF Release, Pended, deviceVars
  <2> HIDE DEF held, lh
  <2> QED  BY <2>1, <2>2, WakerStep
<1>10. ASSUME NEW t \in Thread, WdfCancel(t) PROVE Goal
  BY <1>0, <1>10 DEF WdfCancel, Complete, WakeInv, QueuedHeld, GateHolds,
     NoStrandedWaiter, Pended, Stale, TypeOK, bitmapVars, deviceVars
<1>11. CASE SurpriseRemoval
  BY <1>11 DEF SurpriseRemoval, NoSharedHolder, WakeInv, QueuedHeld, GateHolds,
     NoStrandedWaiter, Pended, Stale, bitmapVars
<1>12. CASE SurpriseRemovalWake
  <2>1. /\ TtLocksWakeWaiters(resourceLockHeld, locksHeld, {})
        /\ UNCHANGED << openResetGen, resetGen, detached >>
    BY <1>12 DEF SurpriseRemovalWake
  <2> QED  BY <1>0, <2>1, WakerStep
<1>13. CASE UNCHANGED vars
  BY <1>13 DEF vars, WakeInv, QueuedHeld, GateHolds, NoStrandedWaiter, Pended, Stale
<1> QED
  BY <1>1, <1>2, <1>3, <1>4, <1>5, <1>6, <1>7, <1>8, <1>9, <1>10, <1>11, <1>12,
     <1>13 DEF Next, TtIoctlLockCtl

(* The invariant when the batch covers every request.                      *)
LEMMA WakeInvariant == ASSUME WideBatch PROVE Spec => []WakeInv
<1>1. Init => WakeInv
  <2>1. Init => HeldExactlyOnce /\ QueueOrder
    BY DEF Init, HeldExactlyOnce, QueueOrder, Pended
  <2>2. Init => QueuedHeld /\ GateHolds /\ NoStrandedWaiter
    BY DEF Init, QueuedHeld, GateHolds, NoStrandedWaiter, Pended
  <2> QED  BY <2>1, <2>2, TypeInit DEF WakeInv, LockInv
<1>2. WakeInv /\ [Next]_vars => WakeInv'
  BY WakeStep
<1> QED  BY <1>1, <1>2, PTL DEF Spec

(* If the batch covers every request that can be outstanding, a lock that a
   live request is queued for is held: its release is still to come.       *)
THEOREM EveryWaiterIsServed == ASSUME WideBatch PROVE Spec => []NoLostWakeup
<1>1. WakeInv => NoLostWakeup
  BY DEF WakeInv, QueuedHeld, NoLostWakeup
<1> QED  BY <1>1, WakeInvariant, PTL

(* If the batch covers every request that can be outstanding, no request of an
   invalidated handle outlives the wake pass of the reset or removal that
   invalidated it.                                                         *)
THEOREM NoWaiterIsStranded == ASSUME WideBatch PROVE Spec => []NoStrandedWaiter
<1>1. WakeInv => NoStrandedWaiter
  BY DEF WakeInv
<1> QED  BY <1>1, WakeInvariant, PTL


(***************************************************************************)
(* First come, first served.  A direct ACQUIRE cannot overtake the queue   *)
(* because the locks waited for are held, and of two queued requests for a *)
(* lock a wake pass grants the one queued first; both need the batch to    *)
(* drain the whole queue.                                                  *)
(***************************************************************************)

(* What a wake pass adds to the bitmaps of the handles.                    *)
LEMMA WakeGrants ==
  ASSUME NEW held, NEW lh, NEW done, TtLocksWakeWaiters(held, lh, done)
  PROVE  \A f \in File : \A l :
           l \in locksHeld'[f] <=>
             \/ l \in lh[f]
             \/ \E t \in Winners(held) : req[t].file = f /\ req[t].lock = l
BY DEF TtLocksWakeWaiters, WakePass

(* The first live request for a lock that a wake pass hands out gets it.   *)
LEMMA WakeIsFifo ==
  ASSUME WideBatch, LockInv, NEW held, NEW lh, NEW done \in SUBSET Thread,
         TtLocksWakeWaiters(held, lh, done),
         NEW f \in File, lh[f] \subseteq locksHeld[f],
         NEW t \in Thread, FirstLive(t), req[t].lock \in locksHeld'[f] \ locksHeld[f]
  PROVE  req[t].file = f /\ pc'[t] = "idle"
<1>1. TypeOK /\ QueueOrder /\ t \in Batch
  BY BatchIsQueue DEF LockInv, FirstLive, Pended
<1>2. PICK u \in Winners(held) : req[u].file = f /\ req[u].lock = req[t].lock
  BY WakeGrants
<1>3. t \in Winners(held)
  BY <1>1, <1>2 DEF Winners, FirstLive
<1>4. t = u
  BY <1>1, <1>2, <1>3, WinnersDiffer
<1>5. PICK kept \in SUBSET Losers(held) : WakePass(held, lh, done, kept)
  BY DEF TtLocksWakeWaiters
<1>6. pc'[t] = "idle"
  BY <1>1, <1>3, <1>5 DEF WakePass, Losers
<1> QED  BY <1>2, <1>4, <1>6

(* If the batch covers every request that can be outstanding, a lock that live
   requests wait for only ever goes to the one of them that was queued first:
   no ACQUIRE and no later waiter overtakes it.                            *)
THEOREM FirstComeFirstServed == ASSUME WideBatch PROVE Spec => FifoGrant
<1> DEFINE A == \A f \in File, t \in Thread :
                  FirstLive(t) /\ req[t].lock \in locksHeld'[f] \ locksHeld[f]
                    => req[t].file = f /\ pc'[t] = "idle"
<1>1. ASSUME WakeInv, [Next]_vars PROVE A
  <2> SUFFICES ASSUME NEW f \in File, NEW t \in Thread, FirstLive(t),
                      req[t].lock \in locksHeld'[f] \ locksHeld[f]
               PROVE  req[t].file = f /\ pc'[t] = "idle"
    OBVIOUS
  <2> DEFINE Goal == req[t].file = f /\ pc'[t] = "idle"
  <2>0. LockInv /\ TypeOK
    BY <1>1 DEF WakeInv, LockInv
  <2>1. UNCHANGED locksHeld => Goal
    OBVIOUS
  <2>2. ASSUME TtLocksWakeWaiters(resourceLockHeld, locksHeld, {}) PROVE Goal
    BY <2>0, <2>2, WakeIsFifo
  <2>3. ASSUME NEW g \in File, FileCreate(g) \/ PostReset(g) PROVE Goal
    BY <2>1, <2>3 DEF FileCreate, PostReset, bitmapVars
  <2>4. ASSUME NEW g \in File, FileCleanup(g) PROVE Goal
    <3> DEFINE held == resourceLockHeld \ locksHeld[g]
               lh == [locksHeld EXCEPT ![g] = {}]
    <3>1. TtLocksWakeWaiters(held, lh, {}) /\ lh[f] \subseteq locksHeld[f]
      BY <2>0, <2>4 DEF FileCleanup, TypeOK
    <3> HIDE DEF held, lh
    <3> QED  BY <2>0, <3>1, WakeIsFifo
  <2>5. ASSUME NEW g \in File, NEW hw \in BOOLEAN, BumpResetGen(g, hw) PROVE Goal
    BY <2>2, <2>5 DEF BumpResetGen
  <2>6. ASSUME NEW u \in Thread, NEW g \in File, NEW cmd \in Cmd, NEW l \in Lock,
               Dispatch(u, g, cmd, l)
        PROVE  Goal
    BY <2>1, <2>6 DEF Dispatch, bitmapVars
  <2>7. ASSUME NEW u \in Thread, AcquireWins(u) PROVE Goal
    <3>1. req[t].lock = req[u].lock
      BY <2>0, <2>7 DEF AcquireWins, TtLockTryAcquire, TypeOK
    <3>2. req[t].lock \in resourceLockHeld
      BY <1>1 DEF WakeInv, QueuedHeld, FirstLive, Pended
    <3> QED  BY <2>7, <3>1, <3>2 DEF AcquireWins, TtLockTryAcquire
  <2>8. ASSUME NEW u \in Thread, CtlNoEffect(u) \/ AcquirePends(u) \/ WdfCancel(u) PROVE Goal
    BY <2>1, <2>8 DEF CtlNoEffect, AcquirePends, WdfCancel, bitmapVars
  <2>9. ASSUME NEW u \in Thread, Release(u) PROVE Goal
    <3> DEFINE held == resourceLockHeld \ { req[u].lock }
               lh == [locksHeld EXCEPT ![req[u].file] = @ \ { req[u].lock }]
    <3>1. TtLocksWakeWaiters(held, lh, { u }) /\ lh[f] \subseteq locksHeld[f]
      BY <2>0, <2>9 DEF Release, TypeOK
    <3> HIDE DEF held, lh
    <3> QED  BY <2>0, <3>1, WakeIsFifo
  <2>10. CASE SurpriseRemoval \/ UNCHANGED vars
    BY <2>1, <2>10 DEF SurpriseRemoval, bitmapVars, vars
  <2>11. CASE SurpriseRemovalWake
    BY <2>2, <2>11 DEF SurpriseRemovalWake
  <2> QED
    BY <1>1, <2>3, <2>4, <2>5, <2>6, <2>7, <2>8, <2>9, <2>10, <2>11 DEF Next, TtIoctlLockCtl
<1>2. WakeInv /\ [Next]_vars => [A]_vars
  BY <1>1
<1>3. Spec => []WakeInv
  BY WakeInvariant
<1> QED  BY <1>2, <1>3, PTL DEF Spec, FifoGrant

(***************************************************************************)
(* What a closed handle holds, for any batch size.                         *)
(***************************************************************************)

(* Only ACQUIRE_BLOCKING is queued.                                        *)
QueuedBlocking == \A t \in Pended : req[t].cmd = "ACQUIRE_BLOCKING"

(* A synchronous handle stays open while a request of it is outstanding.   *)
BusyIsOpen ==
  \A t \in Thread :
    pc[t] # "idle" /\ req[t].file \in SyncFile => handle[req[t].file] = "open"

CloseInv == LockInv /\ QueuedBlocking /\ BusyIsOpen /\ ClosedHoldsNothing

(* A wake pass completes requests and leaves the others as they are.       *)
LEMMA WakeThreads ==
  ASSUME TypeOK, NEW held, NEW lh, NEW done \in SUBSET Thread,
         TtLocksWakeWaiters(held, lh, done)
  PROVE  \A t \in Thread : pc'[t] # "idle" => pc'[t] = pc[t] /\ req'[t] = req[t]
<1> PICK kept \in SUBSET Losers(held) : WakePass(held, lh, done, kept)
  BY DEF TtLocksWakeWaiters
<1> QED  BY DEF WakePass, TypeOK

(* A wake pass grants nothing to a handle with no request outstanding.     *)
LEMMA WakerCloses ==
  ASSUME CloseInv, NEW held, NEW lh, NEW done \in SUBSET Thread,
         TtLocksWakeWaiters(held, lh, done),
         \A t \in Thread : pc[t] # "idle" /\ req[t].file \in SyncFile
                             => handle'[req[t].file] = "open",
         \A f \in SyncFile : handle'[f] = "closed" => lh[f] = {}
  PROVE  QueuedBlocking' /\ BusyIsOpen' /\ ClosedHoldsNothing'
<1>1. TypeOK
  BY DEF CloseInv, LockInv
<1>2. \A t \in Thread : pc'[t] # "idle" => pc'[t] = pc[t] /\ req'[t] = req[t]
  BY <1>1, WakeThreads
<1>3. QueuedBlocking' /\ BusyIsOpen'
  BY <1>2 DEF CloseInv, QueuedBlocking, BusyIsOpen, Pended
<1>4. ASSUME NEW f \in SyncFile, handle'[f] = "closed" PROVE locksHeld'[f] = {}
  <2>1. f \in File /\ lh[f] = {}
    BY <1>4, LocksAssumption
  <2>2. ASSUME NEW t \in Winners(held), req[t].file = f PROVE FALSE
    <3>1. t \in Thread /\ pc[t] = "pend"
      BY <1>1, BatchFacts DEF Pended
    <3> QED  BY <1>4, <2>2, <3>1
  <2> QED  BY <2>1, <2>2, WakeGrants
<1> QED  BY <1>3, <1>4 DEF ClosedHoldsNothing

(* Every step keeps the invariant.                                         *)
LEMMA CloseStep == CloseInv /\ [Next]_vars => CloseInv'
<1> SUFFICES ASSUME CloseInv, [Next]_vars
             PROVE  QueuedBlocking' /\ BusyIsOpen' /\ ClosedHoldsNothing'
  BY LockStep DEF CloseInv
<1> DEFINE Goal == QueuedBlocking' /\ BusyIsOpen' /\ ClosedHoldsNothing'
<1>0. TypeOK /\ SyncFile \subseteq File /\ {} \in SUBSET Thread
  BY LocksAssumption DEF CloseInv, LockInv
<1>a. ASSUME TtLocksWakeWaiters(resourceLockHeld, locksHeld, {}), UNCHANGED handle PROVE Goal
  BY <1>0, <1>a, WakerCloses DEF CloseInv, BusyIsOpen, ClosedHoldsNothing
<1>1. ASSUME NEW f \in File, FileCreate(f) PROVE Goal
  <2>1. \A g \in File : handle'[g] = IF g = f THEN "open" ELSE handle[g]
    BY <1>0, <1>1 DEF FileCreate, TypeOK
  <2> QED  BY <1>0, <1>1, <2>1
            DEF FileCreate, CloseInv, QueuedBlocking, BusyIsOpen, ClosedHoldsNothing, Pended
<1>2. ASSUME NEW f \in File, FileCleanup(f) PROVE Goal
  <2> DEFINE held == resourceLockHeld \ locksHeld[f]
             lh == [locksHeld EXCEPT ![f] = {}]
  <2>1. TtLocksWakeWaiters(held, lh, {})
    BY <1>2 DEF FileCleanup
  <2>2. \A g \in File : /\ handle'[g] = (IF g = f THEN "closed" ELSE handle[g])
                        /\ lh[g] = (IF g = f THEN {} ELSE locksHeld[g])
    BY <1>0, <1>2 DEF FileCleanup, TypeOK
  <2>3. \A t \in Thread : pc[t] # "idle" /\ req[t].file \in SyncFile
                             => handle'[req[t].file] = "open"
    BY <1>0, <1>2, <2>2 DEF FileCleanup, CloseInv, BusyIsOpen
  <2>4. \A g \in SyncFile : handle'[g] = "closed" => lh[g] = {}
    BY <1>0, <2>2 DEF CloseInv, ClosedHoldsNothing
  <2> HIDE DEF held, lh
  <2> QED  BY <1>0, <2>1, <2>3, <2>4, WakerCloses
<1>3. ASSUME NEW f \in File, PostReset(f) PROVE Goal
  BY <1>3 DEF PostReset, CloseInv, QueuedBlocking, BusyIsOpen, ClosedHoldsNothing, Pended,
     bitmapVars
<1>4. ASSUME NEW f \in File, NEW hw \in BOOLEAN, BumpResetGen(f, hw) PROVE Goal
  BY <1>a, <1>4 DEF BumpResetGen
<1>5. ASSUME NEW t \in Thread, NEW f \in File, NEW cmd \in Cmd, NEW l \in Lock,
             Dispatch(t, f, cmd, l)
      PROVE  Goal
  <2>1. /\ handle[f] = "open" /\ UNCHANGED << handle, locksHeld >>
        /\ pc'[t] = "ctl" /\ req'[t].file = f
        /\ \A u \in Thread : u # t => pc'[u] = pc[u] /\ req'[u] = req[u]
    BY <1>0, <1>5 DEF Dispatch, TypeOK, bitmapVars, deviceVars
  <2> QED  BY <2>1 DEF CloseInv, QueuedBlocking, BusyIsOpen, ClosedHoldsNothing, Pended
<1>b. ASSUME NEW t \in Thread, Complete(t), UNCHANGED handle PROVE QueuedBlocking' /\ BusyIsOpen'
  BY <1>0, <1>b DEF Complete, CloseInv, QueuedBlocking, BusyIsOpen, Pended, TypeOK
<1>6. ASSUME NEW t \in Thread, AcquireWins(t) PROVE Goal
  <2>1. QueuedBlocking' /\ BusyIsOpen'
    BY <1>b, <1>6 DEF AcquireWins, TtLockTryAcquire, deviceVars
  <2>2. pc[t] # "idle" /\ UNCHANGED handle
    BY <1>6 DEF AcquireWins, TtLockTryAcquire, deviceVars
  <2>3. \A g \in File : g # req[t].file => locksHeld'[g] = locksHeld[g]
    BY <1>0, <1>6 DEF AcquireWins, TtLockTryAcquire, TypeOK
  <2> QED  BY <1>0, <2>1, <2>2, <2>3 DEF CloseInv, BusyIsOpen, ClosedHoldsNothing
<1>7. ASSUME NEW t \in Thread, CtlNoEffect(t) \/ WdfCancel(t) PROVE Goal
  BY <1>b, <1>7 DEF CtlNoEffect, WdfCancel, CloseInv, ClosedHoldsNothing, bitmapVars, deviceVars
<1>8. ASSUME NEW t \in Thread, AcquirePends(t) PROVE Goal
  BY <1>0, <1>8 DEF AcquirePends, CloseInv, QueuedBlocking, BusyIsOpen, ClosedHoldsNothing,
     Pended, TypeOK, bitmapVars, deviceVars
<1>9. ASSUME NEW t \in Thread, Release(t) PROVE Goal
  <2> DEFINE held == resourceLockHeld \ { req[t].lock }
             lh == [locksHeld EXCEPT ![req[t].file] = @ \ { req[t].lock }]
  <2>1. TtLocksWakeWaiters(held, lh, { t }) /\ UNCHANGED handle
    BY <1>9 DEF Release, deviceVars
  <2>2. \A g \in SyncFile : handle'[g] = "closed" => lh[g] = {}
    BY <1>0, <2>1 DEF CloseInv, ClosedHoldsNothing, TypeOK
  <2> HIDE DEF held, lh
  <2> QED  BY <2>1, <2>2, WakerCloses DEF CloseInv, BusyIsOpen
<1>10. CASE SurpriseRemoval \/ UNCHANGED vars
  BY <1>10 DEF SurpriseRemoval, vars, CloseInv, QueuedBlocking, BusyIsOpen, ClosedHoldsNothing,
     Pended, bitmapVars
<1>11. CASE SurpriseRemovalWake
  BY <1>a, <1>11 DEF SurpriseRemovalWake
<1> QED
  BY <1>1, <1>2, <1>3, <1>4, <1>5, <1>6, <1>7, <1>8, <1>9, <1>10, <1>11
    DEF Next, TtIoctlLockCtl

(* The invariant about closed handles.                                     *)
LEMMA CloseInvariant == Spec => []CloseInv
<1>1. Init => QueuedBlocking /\ BusyIsOpen /\ ClosedHoldsNothing
  BY LocksAssumption DEF Init, QueuedBlocking, BusyIsOpen, ClosedHoldsNothing, Pended
<1>2. Init => HeldExactlyOnce /\ QueueOrder
  BY DEF Init, HeldExactlyOnce, QueueOrder, Pended
<1>3. Init => CloseInv
  BY <1>1, <1>2, TypeInit DEF CloseInv, LockInv
<1> QED  BY <1>3, CloseStep, PTL DEF Spec

(* A synchronous handle holds no lock once its cleanup has run, whatever the
   other handles wait for and whatever the size of the batch: no wake pass
   grants to it after TtLocksReleaseAll.                                   *)
THEOREM CloseReleasesLocks == Spec => []ClosedHoldsNothing
<1>1. CloseInv => ClosedHoldsNothing
  BY DEF CloseInv
<1> QED  BY <1>1, CloseInvariant, PTL

(***************************************************************************)
(* The refinement.  A wake pass is one Serve of the abstract service: the  *)
(* waker's locks are given up and the winners' requests granted at once.   *)
(***************************************************************************)

(* OwnerOf finds the one handle that has the lock in its bitmap.           *)
OwnerSpec ==
  \A l \in Lock : /\ \A f \in File : OwnerOf(l) = f <=> l \in locksHeld[f]
                  /\ OwnerOf(l) = NoFile <=> l \notin resourceLockHeld

(* Because no lock is held twice.                                          *)
LEMMA OwnerFacts == HeldExactlyOnce => OwnerSpec
<1> SUFFICES ASSUME HeldExactlyOnce, NEW l \in Lock
             PROVE  /\ \A f \in File : OwnerOf(l) = f <=> l \in locksHeld[f]
                    /\ OwnerOf(l) = NoFile <=> l \notin resourceLockHeld
  BY DEF OwnerSpec
<1>1. NoFile \notin File
  BY LocksAssumption
<1>2. CASE \E f \in File : l \in locksHeld[f]
  <2> DEFINE c == CHOOSE f \in File : l \in locksHeld[f]
  <2>1. c \in File /\ l \in locksHeld[c]
    BY <1>2
  <2>2. OwnerOf(l) = c
    BY <1>2 DEF OwnerOf
  <2> HIDE DEF c
  <2>3. \A f \in File : l \in locksHeld[f] => f = c
    BY <2>1 DEF HeldExactlyOnce
  <2>4. l \in resourceLockHeld
    BY <2>1 DEF HeldExactlyOnce
  <2> QED  BY <1>1, <2>1, <2>2, <2>3, <2>4
<1>3. CASE ~\E f \in File : l \in locksHeld[f]
  <2>1. OwnerOf(l) = NoFile
    BY <1>3 DEF OwnerOf
  <2>2. l \notin resourceLockHeld
    BY <1>3 DEF HeldExactlyOnce
  <2> QED  BY <1>1, <1>3, <2>1, <2>2
<1> QED  BY <1>2, <1>3

(* What has to be shown of a step for it to be a Serve of the service.     *)
LEMMA ServeStep ==
  ASSUME NEW f \in File, NEW R \in SUBSET Lock, NEW W \in SUBSET Thread,
         NEW D \in SUBSET Thread, W \subseteq D,
         \A l \in R : OwnerOf(l) = f,
         \A t \in W : /\ AskedBy(t) # NoReq /\ AskedBy(t).lock \in Lock
                      /\ OwnerOf(AskedBy(t).lock) = NoFile \/ AskedBy(t).lock \in R,
         \A t, u \in W : AskedBy(t).lock = AskedBy(u).lock => t = u,
         \A l \in Lock : \A t \in W : AskedBy(t).lock = l => OwnerOf(l)' = AskedBy(t).file,
         \A l \in Lock : (\A t \in W : AskedBy(t).lock # l)
                            => OwnerOf(l)' = IF l \in R THEN NoFile ELSE OwnerOf(l),
         \A t \in Thread : AskedBy(t)' = IF t \in D THEN NoReq ELSE AskedBy(t)
  PROVE  Service!Serve(f, R, W)
<1> DEFINE own == [l \in Lock |-> OwnerOf(l)]
           ask == [t \in Thread |-> AskedBy(t)]
<1>1. \A l \in Lock : own[l] = OwnerOf(l)
  OBVIOUS
<1>2. \A t \in Thread : ask[t] = AskedBy(t)
  OBVIOUS
<1>3. own' = [l \in Lock |-> OwnerOf(l)']
  OBVIOUS
<1>4. ask' = [t \in Thread |-> AskedBy(t)']
  OBVIOUS
<1>5. \A l \in R : own[l] = f
  BY <1>1
<1>6. \A t \in W : /\ ask[t] # NoReq
                   /\ own[ask[t].lock] = NoFile \/ ask[t].lock \in R
                   /\ ask'[t] = NoReq
  BY <1>1, <1>2, <1>4
<1>7. \A t, u \in W : ask[t].lock = ask[u].lock => t = u
  BY <1>2
<1>8. own' = [l \in Lock |->
                IF \E t \in W : ask[t].lock = l
                THEN ask[CHOOSE t \in W : ask[t].lock = l].file
                ELSE IF l \in R THEN NoFile ELSE own[l]]
  <2> SUFFICES ASSUME NEW l \in Lock
               PROVE  OwnerOf(l)' = IF \E t \in W : ask[t].lock = l
                                    THEN ask[CHOOSE t \in W : ask[t].lock = l].file
                                    ELSE IF l \in R THEN NoFile ELSE own[l]
    BY <1>3
  <2> HIDE DEF own, ask
  <2>1. CASE \E t \in W : ask[t].lock = l
    <3> DEFINE c == CHOOSE t \in W : ask[t].lock = l
    <3>1. c \in W /\ ask[c].lock = l
      BY <2>1
    <3> HIDE DEF c
    <3>2. OwnerOf(l)' = ask[c].file
      BY <1>2, <3>1
    <3> QED  BY <2>1, <3>2 DEF c
  <2>2. CASE ~\E t \in W : ask[t].lock = l
    BY <1>1, <1>2, <2>2
  <2> QED  BY <2>1, <2>2
<1>9. ask' = [t \in Thread |-> IF t \in D THEN NoReq ELSE ask[t]]
  BY <1>2, <1>4
<1> QED  BY <1>5, <1>6, <1>7, <1>8, <1>9 DEF Service!Serve

(* The acquisition a request stands for.                                   *)
LEMMA AskedFacts ==
  ASSUME TypeOK, NEW t \in Thread
  PROVE  /\ pc[t] = "idle" => AskedBy(t) = NoReq
         /\ pc[t] # "idle" /\ req[t].cmd \in { "ACQUIRE", "ACQUIRE_BLOCKING" } =>
              /\ AskedBy(t) = [file |-> req[t].file, lock |-> req[t].lock]
              /\ AskedBy(t) # NoReq
         /\ pc[t] # "idle" /\ req[t].cmd \notin { "ACQUIRE", "ACQUIRE_BLOCKING" } =>
              AskedBy(t) = NoReq
         /\ pc[t] # "idle" => req[t].file \in File /\ req[t].lock \in Lock
<1>1. pc[t] # "idle" => req[t].file \in File /\ req[t].lock \in Lock
  BY DEF TypeOK, Request
<1>2. ASSUME req[t].file \in File, req[t].lock \in Lock
      PROVE  [file |-> req[t].file, lock |-> req[t].lock] # NoReq
  <2>1. [file |-> req[t].file, lock |-> req[t].lock] \in [file : File, lock : Lock]
    BY <1>2
  <2> QED  BY <2>1, LocksAssumption
<1> QED  BY <1>1, <1>2 DEF AskedBy

(* A waker that gives up the locks R of handle f serves the abstract service. *)
LEMMA WakerServes ==
  ASSUME CloseInv, OwnerSpec, OwnerSpec', NEW f \in File, NEW R \in SUBSET Lock,
         R \subseteq locksHeld[f], NEW held, held = resourceLockHeld \ R,
         NEW lh, \A g \in File : lh[g] = IF g = f THEN locksHeld[g] \ R ELSE locksHeld[g],
         NEW done \in SUBSET Thread, done \cap Pended = {},
         \A t \in done : AskedBy(t) = NoReq,
         TtLocksWakeWaiters(held, lh, done)
  PROVE  \E W \in SUBSET Thread : Service!Serve(f, R, W)
<1>1. TypeOK /\ QueueOrder /\ HeldExactlyOnce /\ QueuedBlocking
  BY DEF CloseInv, LockInv
<1>2. PICK kept \in SUBSET Losers(held) : WakePass(held, lh, done, kept)
  BY DEF TtLocksWakeWaiters
<1>3. PICK W \in SUBSET Thread : W = Winners(held)
  BY <1>1, BatchFacts
<1>4. PICK D \in SUBSET Thread : D = done \cup (Batch \ kept)
  BY <1>1, BatchFacts
<1>5. W \subseteq D /\ W \subseteq Pended
  BY <1>1, <1>2, <1>3, <1>4, BatchFacts DEF Losers
<1>6. \A t \in W : /\ t \in Thread /\ pc[t] = "pend" /\ req[t].cmd = "ACQUIRE_BLOCKING"
                   /\ req[t].file \in File /\ req[t].lock \in Lock
                   /\ req[t].lock \notin held
  BY <1>1, <1>3, <1>5, AskedFacts DEF QueuedBlocking, Pended, Winners
<1>7. \A t \in W : /\ AskedBy(t) # NoReq
                   /\ AskedBy(t).lock = req[t].lock /\ AskedBy(t).file = req[t].file
  BY <1>1, <1>6, AskedFacts
<1>8. \A l \in R : OwnerOf(l) = f
  BY DEF OwnerSpec
<1>9. \A t \in W : /\ AskedBy(t) # NoReq /\ AskedBy(t).lock \in Lock
                   /\ OwnerOf(AskedBy(t).lock) = NoFile \/ AskedBy(t).lock \in R
  BY <1>6, <1>7 DEF OwnerSpec
<1>10. \A t, u \in W : AskedBy(t).lock = AskedBy(u).lock => t = u
  <2> SUFFICES ASSUME NEW t \in W, NEW u \in W, AskedBy(t).lock = AskedBy(u).lock PROVE t = u
    OBVIOUS
  <2>1. t \in Winners(held) /\ u \in Winners(held) /\ req[t].lock = req[u].lock
    BY <1>3, <1>7
  <2> QED  BY <1>1, <2>1, WinnersDiffer
<1>11. \A g \in File : \A l :
         l \in locksHeld'[g] <=> \/ l \in lh[g]
                                \/ \E t \in W : req[t].file = g /\ req[t].lock = l
  BY <1>3, WakeGrants
<1>12. \A l \in Lock : \A t \in W : AskedBy(t).lock = l => OwnerOf(l)' = AskedBy(t).file
  BY <1>6, <1>7, <1>11 DEF OwnerSpec
<1>13. ASSUME NEW l \in Lock, \A t \in W : AskedBy(t).lock # l
       PROVE  OwnerOf(l)' = IF l \in R THEN NoFile ELSE OwnerOf(l)
  <2>1. resourceLockHeld' = held \cup { req[t].lock : t \in W }
    BY <1>2, <1>3 DEF WakePass
  <2>2. l \in resourceLockHeld' <=> l \in held
    BY <1>7, <1>13, <2>1
  <2>3. CASE l \notin held
    <3>1. OwnerOf(l)' = NoFile
      BY <2>2, <2>3 DEF OwnerSpec
    <3> QED  BY <2>3, <3>1 DEF OwnerSpec
  <2>4. CASE l \in held
    <3>1. l \notin R /\ l \in resourceLockHeld
      BY <2>4
    <3>2. PICK g \in File : l \in locksHeld[g]
      BY <1>1, <3>1 DEF HeldExactlyOnce
    <3>3. l \in locksHeld'[g]
      BY <1>11, <3>1, <3>2
    <3> QED  BY <3>1, <3>2, <3>3 DEF OwnerSpec
  <2> QED  BY <2>3, <2>4
<1>14. ASSUME NEW t \in Thread PROVE AskedBy(t)' = IF t \in D THEN NoReq ELSE AskedBy(t)
  <2>1. /\ pc'[t] = IF t \in D THEN "idle" ELSE pc[t]
        /\ req'[t] = IF t \in D THEN NoReq ELSE req[t]
    BY <1>2, <1>4 DEF WakePass
  <2> QED  BY <2>1 DEF AskedBy
<1> QED  BY <1>5, <1>8, <1>9, <1>10, <1>12, <1>13, <1>14, ServeStep

(* A step that leaves owners and acquisitions as they are is invisible.    *)
LEMMA Invisible ==
  ASSUME \A l \in Lock : OwnerOf(l)' = OwnerOf(l),
         \A t \in Thread : AskedBy(t)' = AskedBy(t)
  PROVE  UNCHANGED Service!vars
BY DEF Service!vars

(* The owners depend on nothing but the handles' bitmaps.                  *)
LEMMA OwnersKept == UNCHANGED locksHeld => \A l \in Lock : OwnerOf(l)' = OwnerOf(l)
BY DEF OwnerOf

(* Completing a request without granting it is a refusal.                  *)
LEMMA Refusal ==
  ASSUME TypeOK, NEW t \in Thread, Complete(t), pc[t] # "idle", UNCHANGED locksHeld
  PROVE  \E f \in File, R \in SUBSET Lock, W \in SUBSET Thread : Service!Serve(f, R, W)
<1>1. PICK f \in File : f = req[t].file
  BY AskedFacts
<1>2. ASSUME NEW u \in Thread PROVE AskedBy(u)' = IF u \in { t } THEN NoReq ELSE AskedBy(u)
  <2>1. /\ pc'[u] = IF u = t THEN "idle" ELSE pc[u]
        /\ req'[u] = IF u = t THEN NoReq ELSE req[u]
    BY DEF Complete, TypeOK
  <2> QED  BY <2>1 DEF AskedBy
<1>3. \A l \in Lock : OwnerOf(l)' = OwnerOf(l)
  BY OwnersKept
<1>4. Service!Serve(f, {}, {})
  <2> DEFINE none == {}
  <2>1. none \in SUBSET Lock /\ none \in SUBSET Thread /\ none \subseteq { t }
    OBVIOUS
  <2> QED  BY <1>1, <1>2, <1>3, <2>1, ServeStep
<1> QED  BY <1>4

(* Every step of the lock code is a step of the service, or none.          *)
LEMMA ServiceStep ==
  CloseInv /\ CloseInv' /\ [Next]_vars => Service!Next \/ UNCHANGED Service!vars
<1> SUFFICES ASSUME CloseInv, CloseInv', [Next]_vars
             PROVE  Service!Next \/ UNCHANGED Service!vars
  OBVIOUS
<1> DEFINE Serves == \E f \in File, R \in SUBSET Lock, W \in SUBSET Thread : Service!Serve(f, R, W)
           Goal == Service!Next \/ UNCHANGED Service!vars
<1>1. TypeOK /\ TypeOK' /\ HeldExactlyOnce /\ HeldExactlyOnce'
  BY DEF CloseInv, LockInv
<1>2. OwnerSpec
  BY <1>1, OwnerFacts
<1>3. OwnerSpec'
  BY <1>1, OwnerFacts, PTL
<1>4. Serves => Goal
  BY DEF Service!Next
<1>5. UNCHANGED << locksHeld, pc, req >> => Goal
  <2> SUFFICES ASSUME UNCHANGED << locksHeld, pc, req >> PROVE UNCHANGED Service!vars
    OBVIOUS
  <2>1. \A t \in Thread : AskedBy(t)' = AskedBy(t)
    BY DEF AskedBy
  <2> QED  BY <2>1, OwnersKept, Invisible
<1>6. ASSUME NEW f \in File, TtLocksWakeWaiters(resourceLockHeld, locksHeld, {}) PROVE Goal
  <2> DEFINE none == {}
  <2>1. none \in SUBSET Lock /\ none \in SUBSET Thread
    OBVIOUS
  <2>2. \E W \in SUBSET Thread : Service!Serve(f, {}, W)
    BY <1>2, <1>3, <1>6, <2>1, WakerServes
  <2> QED  BY <1>4, <2>1, <2>2
<1>7. ASSUME NEW f \in File, FileCreate(f) \/ PostReset(f) PROVE Goal
  BY <1>5, <1>7 DEF FileCreate, PostReset, bitmapVars
<1>8. ASSUME NEW f \in File, FileCleanup(f) PROVE Goal
  <2>1. PICK R \in SUBSET Lock : R = locksHeld[f]
    BY <1>1 DEF TypeOK
  <2> DEFINE held == resourceLockHeld \ R
             lh == [locksHeld EXCEPT ![f] = {}]
  <2>2. TtLocksWakeWaiters(held, lh, {})
    BY <1>8, <2>1 DEF FileCleanup
  <2>3. \A g \in File : lh[g] = IF g = f THEN locksHeld[g] \ R ELSE locksHeld[g]
    BY <1>1, <2>1 DEF TypeOK
  <2>4. held = resourceLockHeld \ R
    OBVIOUS
  <2> HIDE DEF held, lh
  <2>5. {} \in SUBSET Thread /\ {} \cap Pended = {} /\ \A t \in {} : AskedBy(t) = NoReq
    OBVIOUS
  <2>6. \E W \in SUBSET Thread : Service!Serve(f, R, W)
    BY <1>2, <1>3, <2>1, <2>2, <2>3, <2>4, <2>5, WakerServes
  <2> QED  BY <1>4, <2>6
<1>9. ASSUME NEW f \in File, NEW hw \in BOOLEAN, BumpResetGen(f, hw) PROVE Goal
  BY <1>6, <1>9 DEF BumpResetGen
<1>10. ASSUME NEW t \in Thread, NEW f \in File, NEW cmd \in Cmd, NEW l \in Lock,
              Dispatch(t, f, cmd, l)
       PROVE  Goal
  <2>1. /\ pc[t] = "idle" /\ pc'[t] = "ctl" /\ UNCHANGED locksHeld
        /\ req'[t] = [file |-> f, cmd |-> cmd, lock |-> l]
        /\ \A u \in Thread : u # t => pc'[u] = pc[u] /\ req'[u] = req[u]
    BY <1>1, <1>10 DEF Dispatch, TypeOK, bitmapVars
  <2>2. \A u \in Thread : u # t => AskedBy(u)' = AskedBy(u)
    BY <2>1 DEF AskedBy
  <2>3. AskedBy(t) = NoReq
    BY <2>1 DEF AskedBy
  <2>4. CASE cmd \in { "ACQUIRE", "ACQUIRE_BLOCKING" }
    <3>1. AskedBy(t)' = [file |-> f, lock |-> l]
      BY <2>1, <2>4 DEF AskedBy
    <3>2. [u \in Thread |-> AskedBy(u)]'
            = [[u \in Thread |-> AskedBy(u)] EXCEPT ![t] = [file |-> f, lock |-> l]]
      BY <2>2, <3>1
    <3>3. [u \in Thread |-> AskedBy(u)][t] = NoReq
      BY <2>3
    <3>4. UNCHANGED [m \in Lock |-> OwnerOf(m)]
      BY <2>1, OwnersKept
    <3>5. Service!Ask(t, f, l)
      BY <3>2, <3>3, <3>4 DEF Service!Ask
    <3> QED  BY <3>5 DEF Service!Next
  <2>5. CASE cmd \notin { "ACQUIRE", "ACQUIRE_BLOCKING" }
    <3>1. AskedBy(t)' = NoReq
      BY <2>1, <2>5 DEF AskedBy
    <3> QED  BY <2>1, <2>2, <2>3, <3>1, OwnersKept, Invisible
  <2> QED  BY <2>4, <2>5
<1>11. ASSUME NEW t \in Thread, AcquireWins(t) PROVE Goal
  <2>1. PICK f \in File : f = req[t].file
    BY <1>1, <1>11, AskedFacts DEF AcquireWins
  <2>2. PICK l \in Lock : l = req[t].lock
    BY <1>1, <1>11, AskedFacts DEF AcquireWins
  <2>3. AskedBy(t) # NoReq /\ AskedBy(t).lock = l /\ AskedBy(t).file = f
    BY <1>1, <1>11, <2>1, <2>2, AskedFacts DEF AcquireWins
  <2>4. OwnerOf(l) = NoFile
    BY <1>2, <1>11, <2>2 DEF AcquireWins, TtLockTryAcquire, OwnerSpec
  <2>5. \A g \in File : locksHeld'[g] = IF g = f THEN locksHeld[g] \cup { l } ELSE locksHeld[g]
    BY <1>1, <1>11, <2>1, <2>2 DEF AcquireWins, TtLockTryAcquire, TypeOK
  <2>6. resourceLockHeld' = resourceLockHeld \cup { l }
    BY <1>11, <2>2 DEF AcquireWins, TtLockTryAcquire
  <2>7. OwnerOf(l)' = f
    BY <1>3, <2>5 DEF OwnerSpec
  <2>8. ASSUME NEW k \in Lock, k # l PROVE OwnerOf(k)' = OwnerOf(k)
    <3>1. CASE k \notin resourceLockHeld
      BY <1>2, <1>3, <2>6, <2>8, <3>1 DEF OwnerSpec
    <3>2. CASE k \in resourceLockHeld
      <4>1. PICK g \in File : k \in locksHeld[g]
        BY <1>1, <3>2 DEF HeldExactlyOnce
      <4> QED  BY <1>2, <1>3, <2>5, <4>1 DEF OwnerSpec
    <3> QED  BY <3>1, <3>2
  <2>9. ASSUME NEW u \in Thread PROVE AskedBy(u)' = IF u \in { t } THEN NoReq ELSE AskedBy(u)
    <3>1. /\ pc'[u] = IF u = t THEN "idle" ELSE pc[u]
          /\ req'[u] = IF u = t THEN NoReq ELSE req[u]
      BY <1>1, <1>11 DEF AcquireWins, TtLockTryAcquire, Complete, TypeOK
    <3> QED  BY <3>1 DEF AskedBy
  <2>10. PICK R \in SUBSET Lock : R = {}
    OBVIOUS
  <2>11. PICK W \in SUBSET Thread : W = { t }
    OBVIOUS
  <2>12. Service!Serve(f, R, W)
    BY <2>3, <2>4, <2>7, <2>8, <2>9, <2>10, <2>11, ServeStep
  <2> QED  BY <1>4, <2>12
<1>12. ASSUME NEW t \in Thread, CtlNoEffect(t) \/ WdfCancel(t) PROVE Goal
  <2>1. Complete(t) /\ pc[t] # "idle" /\ UNCHANGED locksHeld
    BY <1>12 DEF CtlNoEffect, WdfCancel, bitmapVars
  <2> QED  BY <1>1, <1>4, <2>1, Refusal
<1>13. ASSUME NEW t \in Thread, AcquirePends(t) PROVE Goal
  <2>1. /\ UNCHANGED << locksHeld, req >> /\ pc[t] # "idle"
        /\ \A u \in Thread : pc'[u] # "idle" <=> pc[u] # "idle"
    BY <1>1, <1>13 DEF AcquirePends, bitmapVars, TypeOK
  <2>2. \A u \in Thread : AskedBy(u)' = AskedBy(u)
    BY <2>1 DEF AskedBy
  <2> QED  BY <2>1, <2>2, OwnersKept, Invisible
<1>14. ASSUME NEW t \in Thread, Release(t) PROVE Goal
  <2>1. PICK f \in File : f = req[t].file
    BY <1>1, <1>14, AskedFacts DEF Release
  <2>2. PICK R \in SUBSET Lock : R = { req[t].lock }
    BY <1>1, <1>14, AskedFacts DEF Release
  <2> DEFINE held == resourceLockHeld \ R
             lh == [locksHeld EXCEPT ![f] = @ \ R]
  <2>3. TtLocksWakeWaiters(held, lh, { t })
    BY <1>14, <2>1, <2>2 DEF Release
  <2>4. \A g \in File : lh[g] = IF g = f THEN locksHeld[g] \ R ELSE locksHeld[g]
    BY <1>1 DEF TypeOK
  <2>5. held = resourceLockHeld \ R /\ R \subseteq locksHeld[f]
    BY <1>14, <2>1, <2>2 DEF Release
  <2> HIDE DEF held, lh
  <2>6. { t } \in SUBSET Thread /\ { t } \cap Pended = {}
    BY <1>14 DEF Release, Pended
  <2>7. \A u \in { t } : AskedBy(u) = NoReq
    BY <1>1, <1>14, AskedFacts DEF Release
  <2>8. \E W \in SUBSET Thread : Service!Serve(f, R, W)
    BY <1>2, <1>3, <2>3, <2>4, <2>5, <2>6, <2>7, WakerServes
  <2> QED  BY <1>4, <2>8
<1>15. CASE SurpriseRemoval \/ UNCHANGED vars
  BY <1>5, <1>15 DEF SurpriseRemoval, bitmapVars, vars
<1>16. CASE SurpriseRemovalWake
  <2>1. TtLocksWakeWaiters(resourceLockHeld, locksHeld, {})
    BY <1>16 DEF SurpriseRemovalWake
  <2>2. CASE Pended # {}
    <3>1. PICK t \in Thread : pc[t] = "pend"
      BY <2>2 DEF Pended
    <3>2. req[t].file \in File
      BY <1>1, <3>1, AskedFacts
    <3> QED  BY <1>6, <2>1, <3>2
  <2>3. CASE Pended = {}
    <3>1. PICK kept \in SUBSET Losers(resourceLockHeld) : WakePass(resourceLockHeld, locksHeld, {}, kept)
      BY <2>1 DEF TtLocksWakeWaiters
    <3>2. Batch = {} /\ Winners(resourceLockHeld) = {}
      BY <1>1, <2>3, BatchFacts
    <3>3. locksHeld' = locksHeld /\ pc' = pc /\ req' = req
      BY <1>1, <3>1, <3>2 DEF WakePass, TypeOK
    <3> QED  BY <1>5, <3>3
  <2> QED  BY <2>2, <2>3
<1> QED
  BY <1>7, <1>8, <1>9, <1>10, <1>11, <1>12, <1>13, <1>14, <1>15, <1>16 DEF Next, TtIoctlLockCtl

(* The bitmaps, the wait queue and the wake passes implement the lock service:
   its initial states and every step, for any number of handles, locks,
   requests and any batch size.                                            *)
THEOREM LocksImplementService == Spec => ImplementsLockService
<1>1. Init => Service!Init
  <2> SUFFICES ASSUME Init PROVE Service!Init
    OBVIOUS
  <2>1. \A l \in Lock : OwnerOf(l) = NoFile
    BY DEF Init, OwnerOf
  <2>2. \A t \in Thread : AskedBy(t) = NoReq
    BY DEF Init, AskedBy
  <2> QED  BY <2>1, <2>2 DEF Service!Init
<1>2. CloseInv /\ CloseInv' /\ [Next]_vars => [Service!Next]_(Service!vars)
  BY ServiceStep
<1> QED  BY <1>1, <1>2, CloseInvariant, PTL DEF Spec, ImplementsLockService, Service!Spec
=============================================================================
