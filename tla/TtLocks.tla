------------------------------ MODULE TtLocks ------------------------------
(***************************************************************************)
(* The resource locks of locks.c: a device bitmap of held locks, a bitmap  *)
(* per handle, and a manual WDF queue of pended ACQUIRE_BLOCKING requests, *)
(* with every caller that touches them: LOCK_CTL, handle create and        *)
(* cleanup, the generation bump of RESET_DEVICE and surprise removal.      *)
(*                                                                         *)
(* LockLock serialises every access to the bitmaps and the queue, so each  *)
(* LockLock section is one step.  RESET_DEVICE and surprise removal hold   *)
(* the reset resource exclusively, LOCK_CTL holds it shared from before    *)
(* its gate check until it completes or pends: an exclusive section is one *)
(* step that waits until no thread is between gate and handler.            *)
(*                                                                         *)
(* A Thread is one outstanding I/O request (a WDFREQUEST); a File is one   *)
(* opening of the device.  Handles in SyncFile were opened without         *)
(* FILE_FLAG_OVERLAPPED: the I/O manager sends their cleanup only after    *)
(* their outstanding requests completed.                                   *)
(***************************************************************************)
EXTENDS Naturals, FiniteSets, TtGates

CONSTANTS
  File,       \* handles
  SyncFile,   \* the ones opened for synchronous I/O
  Lock,       \* lock indices, 0..63 in the code
  Thread,     \* outstanding requests
  WakeBatch,  \* TT_LOCK_WAKE_BATCH
  MaxGen,     \* bound on ResetGen
  NoFile, NoReq

ASSUME LocksAssumption ==
  /\ SyncFile \subseteq File
  /\ IsFiniteSet(Thread)
  /\ WakeBatch \in Nat \ {0}
  /\ MaxGen \in Nat
  /\ NoFile \notin File
  /\ NoReq \notin [file : File, lock : Lock]

VARIABLES
  resourceLockHeld,  \* TT_DEVICE_CONTEXT.ResourceLockHeld
  locksHeld,         \* TT_FILE_CONTEXT.LocksHeld, per handle
  handle,            \* "none", "open" or "closed" (EvtFileCleanup has run)
  openResetGen,      \* TT_FILE_CONTEXT.OpenResetGen
  resetGen,          \* TT_DEVICE_CONTEXT.ResetGen
  needsHwInit,       \* TT_DEVICE_CONTEXT.NeedsHwInit
  detached,          \* TT_DEVICE_CONTEXT.Detached
  removalWake,       \* surprise removal has yet to wake the waiters
  pc,                \* "idle", "ctl" (past the gate) or "pend" (in LockWaitQueue)
  req,               \* the LOCK_CTL input of a thread that is not idle
  ahead              \* ahead[t]: the pended threads queued before t

vars == << resourceLockHeld, locksHeld, handle, openResetGen, resetGen,
           needsHwInit, detached, removalWake, pc, req, ahead >>
deviceVars == << handle, openResetGen, resetGen, needsHwInit, detached,
                 removalWake >>
bitmapVars == << resourceLockHeld, locksHeld >>

Cmd == { "ACQUIRE", "RELEASE", "TEST", "ACQUIRE_BLOCKING" }
Request == [file : File, cmd : Cmd, lock : Lock]

Stale(f) == openResetGen[f] # resetGen
Pended == { t \in Thread : pc[t] = "pend" }
NoSharedHolder == \A t \in Thread : pc[t] # "ctl"

Init ==
  /\ resourceLockHeld = {}
  /\ locksHeld = [f \in File |-> {}]
  /\ handle = [f \in File |-> "none"]
  /\ openResetGen = [f \in File |-> 0]
  /\ resetGen = 0
  /\ needsHwInit = FALSE
  /\ detached = FALSE
  /\ removalWake = FALSE
  /\ pc = [t \in Thread |-> "idle"]
  /\ req = [t \in Thread |-> NoReq]
  /\ ahead = [t \in Thread |-> {}]

-----------------------------------------------------------------------------
(***************************************************************************)
(* TtLocksWakeWaiters.  The queue is drained into a batch of at most       *)
(* WakeBatch requests; each drained request is failed if its handle is     *)
(* stale or the device detached, granted if its lock is free when its turn *)
(* comes, and re-queued at the tail, behind the undrained rest, otherwise. *)
(* A re-queue that fails completes its request with that error.            *)
(***************************************************************************)
Batch == { t \in Pended : Cardinality(ahead[t]) < WakeBatch }

(* Mutant: a pass that only compares generations and forgets Detached.     *)
DeadByGenerationOnly(t) == openResetGen'[req[t].file] # resetGen'

(* Waiters a pass fails: the state is the one after the waker's change.    *)
Dead(t) == detached' \/ openResetGen'[req[t].file] # resetGen'

(* Mutants: a pass that tests every waiter against the bitmap it started
   from, and one that serves the newest waiter first.                      *)
WinnersFromOldBitmap(held) ==
  { t \in Batch : ~Dead(t) /\ req[t].lock \notin held }
WinnersNewestFirst(held) ==
  { t \in Batch : /\ ~Dead(t)
                  /\ req[t].lock \notin held
                  /\ \A u \in Batch :
                       t \in ahead[u] => Dead(u) \/ req[u].lock # req[t].lock }

(* Waiters a pass grants when held is the set of locks the waker left held. *)
Winners(held) ==
  { t \in Batch : /\ ~Dead(t)
                  /\ req[t].lock \notin held
                  /\ \A u \in ahead[t] : Dead(u) \/ req[u].lock # req[t].lock }

Losers(held) == { t \in Batch : ~Dead(t) } \ Winners(held)

Undrained == Pended \ Batch

(***************************************************************************)
(* The pass itself, started by a waker that left the bitmaps held and lh   *)
(* and finished the requests in done; kept are the re-queued losers.       *)
(***************************************************************************)
WakePass(held, lh, done, kept) ==
  /\ resourceLockHeld' = held \cup { req[t].lock : t \in Winners(held) }
  /\ locksHeld' = [f \in File |->
       lh[f] \cup { req[t].lock : t \in { u \in Winners(held) : req[u].file = f } }]
  /\ ahead' = [t \in Thread |->
       IF t \in kept THEN Undrained \cup (ahead[t] \cap kept)
       ELSE IF t \in Undrained THEN ahead[t] \ Batch
       ELSE {}]
  /\ pc' = [t \in Thread |->
       IF t \in done \/ t \in Batch \ kept THEN "idle" ELSE pc[t]]
  /\ req' = [t \in Thread |->
       IF t \in done \/ t \in Batch \ kept THEN NoReq ELSE req[t]]

TtLocksWakeWaiters(held, lh, done) ==
  \E kept \in SUBSET Losers(held) : WakePass(held, lh, done, kept)

-----------------------------------------------------------------------------
(* TtEvtDeviceFileCreate: the handle latches the current generation.       *)
FileCreate(f) ==
  /\ handle[f] = "none"
  /\ handle' = [handle EXCEPT ![f] = "open"]
  /\ openResetGen' = [openResetGen EXCEPT ![f] = resetGen]
  /\ UNCHANGED << resourceLockHeld, locksHeld, resetGen, needsHwInit, detached,
                  removalWake, pc, req, ahead >>

(* TtEvtIoDeviceControl up to the gate check; a refused request completes
   with no effect.                                                          *)
Dispatch(t, f, cmd, l) ==
  /\ pc[t] = "idle"
  /\ handle[f] = "open"
  /\ f \in SyncFile => \A u \in Thread : pc[u] # "idle" => req[u].file # f
  /\ TtCheckIoGates(detached, Stale(f), needsHwInit, "LOCK_CTL") = "SUCCESS"
  /\ pc' = [pc EXCEPT ![t] = "ctl"]
  /\ req' = [req EXCEPT ![t] = [file |-> f, cmd |-> cmd, lock |-> l]]
  /\ UNCHANGED << bitmapVars, deviceVars, ahead >>

(* The request of a thread in its handler completes.                       *)
Complete(t) ==
  /\ pc' = [pc EXCEPT ![t] = "idle"]
  /\ req' = [req EXCEPT ![t] = NoReq]

(* TtLockTryAcquire winning, and the request completing with value 1.      *)
TtLockTryAcquire(t) ==
  /\ req[t].lock \notin resourceLockHeld
  /\ resourceLockHeld' = resourceLockHeld \cup { req[t].lock }
  /\ locksHeld' = [locksHeld EXCEPT ![req[t].file] = @ \cup { req[t].lock }]
  /\ Complete(t)
  /\ UNCHANGED << deviceVars, ahead >>

(* Either acquisition command winning the lock at once.                    *)
AcquireWins(t) ==
  /\ pc[t] = "ctl"
  /\ req[t].cmd \in { "ACQUIRE", "ACQUIRE_BLOCKING" }
  /\ TtLockTryAcquire(t)

(* ACQUIRE of a held lock (value 0), RELEASE of one the handle does not hold
   (value 0), TEST, and an ACQUIRE_BLOCKING whose context allocation or
   forward fails: the request completes and nothing else changes.          *)
CtlNoEffect(t) ==
  /\ pc[t] = "ctl"
  /\ \/ req[t].cmd = "TEST"
     \/ req[t].cmd = "RELEASE" /\ req[t].lock \notin locksHeld[req[t].file]
     \/ /\ req[t].cmd \in { "ACQUIRE", "ACQUIRE_BLOCKING" }
        /\ req[t].lock \in resourceLockHeld
  /\ Complete(t)
  /\ UNCHANGED << bitmapVars, deviceVars, ahead >>

(* Mutant: LockLock dropped between the failed try and the forward, so the
   lock may have been released in between.                                 *)
AcquirePendsUnlocked(t) ==
  /\ pc[t] = "ctl"
  /\ req[t].cmd = "ACQUIRE_BLOCKING"
  /\ pc' = [pc EXCEPT ![t] = "pend"]
  /\ ahead' = [ahead EXCEPT ![t] = Pended]
  /\ UNCHANGED << bitmapVars, deviceVars, req >>

(* ACQUIRE_BLOCKING of a held lock is forwarded to the tail of the queue;
   the dispatcher then drops the reset resource.                           *)
AcquirePends(t) ==
  /\ pc[t] = "ctl"
  /\ req[t].cmd = "ACQUIRE_BLOCKING"
  /\ req[t].lock \in resourceLockHeld
  /\ pc' = [pc EXCEPT ![t] = "pend"]
  /\ ahead' = [ahead EXCEPT ![t] = Pended]
  /\ UNCHANGED << bitmapVars, deviceVars, req >>

(* Mutant: RELEASE tests the device bitmap instead of the handle's own.    *)
ReleaseAnyHeld(t) ==
  LET f == req[t].file
      l == req[t].lock
  IN  /\ pc[t] = "ctl"
      /\ req[t].cmd = "RELEASE"
      /\ l \in resourceLockHeld
      /\ UNCHANGED deviceVars
      /\ TtLocksWakeWaiters(resourceLockHeld \ { l },
                            [locksHeld EXCEPT ![f] = @ \ { l }], { t })

(* RELEASE by the holding handle: both bits cleared, then a wake pass.     *)
Release(t) ==
  LET f == req[t].file
      l == req[t].lock
  IN  /\ pc[t] = "ctl"
      /\ req[t].cmd = "RELEASE"
      /\ l \in locksHeld[f]
      /\ UNCHANGED deviceVars
      /\ TtLocksWakeWaiters(resourceLockHeld \ { l },
                            [locksHeld EXCEPT ![f] = @ \ { l }], { t })

(* Mutant: cleanup clears the device bitmap and leaves the handle's own.   *)
FileCleanupGlobalOnly(f) ==
  /\ handle[f] = "open"
  /\ f \in SyncFile => \A t \in Thread : pc[t] # "idle" => req[t].file # f
  /\ handle' = [handle EXCEPT ![f] = "closed"]
  /\ UNCHANGED << openResetGen, resetGen, needsHwInit, detached, removalWake >>
  /\ TtLocksWakeWaiters(resourceLockHeld \ locksHeld[f], locksHeld, {})

(* TtEvtFileCleanup's lock part, TtLocksReleaseAll.                        *)
FileCleanup(f) ==
  /\ handle[f] = "open"
  /\ f \in SyncFile => \A t \in Thread : pc[t] # "idle" => req[t].file # f
  /\ handle' = [handle EXCEPT ![f] = "closed"]
  /\ UNCHANGED << openResetGen, resetGen, needsHwInit, detached, removalWake >>
  /\ TtLocksWakeWaiters(resourceLockHeld \ locksHeld[f],
                        [locksHeld EXCEPT ![f] = {}], {})

(* External: WDF cancels a queued request (CancelIo, thread exit, or the
   flush of a closed handle's queued requests).                            *)
WdfCancel(t) ==
  /\ pc[t] = "pend"
  /\ Complete(t)
  /\ ahead' = [u \in Thread |-> IF u = t THEN {} ELSE ahead[u] \ { t }]
  /\ UNCHANGED << bitmapVars, deviceVars >>

(* Mutant: the bump does not wait for the holders of the shared lock.      *)
BumpResetGenUnguarded(f, hw) ==
  /\ handle[f] = "open"
  /\ TtCheckIoGates(detached, Stale(f), needsHwInit, "RESET_DEVICE") = "SUCCESS"
  /\ resetGen < MaxGen
  /\ resetGen' = resetGen + 1
  /\ openResetGen' = [openResetGen EXCEPT ![f] = resetGen + 1]
  /\ needsHwInit' = (needsHwInit \/ hw)
  /\ UNCHANGED << handle, detached, removalWake >>
  /\ TtLocksWakeWaiters(resourceLockHeld, locksHeld, {})

(***************************************************************************)
(* TtBumpResetGen inside RESET_DEVICE, for the flavours that bump:         *)
(* USER_RESET, ASIC_RESET and ASIC_DMC_RESET set NeedsHwInit (hw),         *)
(* CONFIG_WRITE does not.  Only the resetting handle f stays current.      *)
(***************************************************************************)
BumpResetGen(f, hw) ==
  /\ NoSharedHolder
  /\ handle[f] = "open"
  /\ f \in SyncFile => \A t \in Thread : pc[t] # "idle" => req[t].file # f
  /\ TtCheckIoGates(detached, Stale(f), needsHwInit, "RESET_DEVICE") = "SUCCESS"
  /\ resetGen < MaxGen
  /\ resetGen' = resetGen + 1
  /\ openResetGen' = [openResetGen EXCEPT ![f] = resetGen + 1]
  /\ needsHwInit' = (needsHwInit \/ hw)
  /\ UNCHANGED << handle, detached, removalWake >>
  /\ TtLocksWakeWaiters(resourceLockHeld, locksHeld, {})

(* POST_RESET clears NeedsHwInit whatever else it finds.                   *)
PostReset(f) ==
  /\ NoSharedHolder
  /\ handle[f] = "open"
  /\ f \in SyncFile => \A t \in Thread : pc[t] # "idle" => req[t].file # f
  /\ TtCheckIoGates(detached, Stale(f), needsHwInit, "RESET_DEVICE") = "SUCCESS"
  /\ needsHwInit
  /\ needsHwInit' = FALSE
  /\ UNCHANGED << bitmapVars, handle, openResetGen, resetGen, detached,
                  removalWake, pc, req, ahead >>

(* TtEvtDeviceSurpriseRemoval: Detached is set under the exclusive lock ... *)
SurpriseRemoval ==
  /\ NoSharedHolder
  /\ ~detached
  /\ detached' = TRUE
  /\ removalWake' = TRUE
  /\ UNCHANGED << bitmapVars, handle, openResetGen, resetGen, needsHwInit, pc,
                  req, ahead >>

(* ... and the waiters are woken after it was dropped.                     *)
SurpriseRemovalWake ==
  /\ removalWake
  /\ removalWake' = FALSE
  /\ UNCHANGED << handle, openResetGen, resetGen, needsHwInit, detached >>
  /\ TtLocksWakeWaiters(resourceLockHeld, locksHeld, {})

TtIoctlLockCtl(t) ==
  AcquireWins(t) \/ CtlNoEffect(t) \/ AcquirePends(t) \/ Release(t)

Next ==
  \/ \E f \in File : FileCreate(f) \/ FileCleanup(f) \/ PostReset(f)
  \/ \E f \in File, hw \in BOOLEAN : BumpResetGen(f, hw)
  \/ \E t \in Thread, f \in File, cmd \in Cmd, l \in Lock : Dispatch(t, f, cmd, l)
  \/ \E t \in Thread : TtIoctlLockCtl(t) \/ WdfCancel(t)
  \/ SurpriseRemoval
  \/ SurpriseRemovalWake

Spec == Init /\ [][Next]_vars

(***************************************************************************)
(* Driver threads that run are scheduled: a handler past its gate and the  *)
(* second half of surprise removal are never abandoned.  Nothing is        *)
(* assumed of clients: they need not release, close, cancel or reset.      *)
(***************************************************************************)
FairSpec ==
  /\ Spec
  /\ \A t \in Thread : WF_vars(TtIoctlLockCtl(t))
  /\ WF_vars(SurpriseRemovalWake)

-----------------------------------------------------------------------------
(* Every variable keeps its type; only a thread inside a request has one.  *)
TypeOK ==
  /\ resourceLockHeld \in SUBSET Lock
  /\ locksHeld \in [File -> SUBSET Lock]
  /\ handle \in [File -> { "none", "open", "closed" }]
  /\ openResetGen \in [File -> Nat]
  /\ resetGen \in Nat
  /\ needsHwInit \in BOOLEAN
  /\ detached \in BOOLEAN
  /\ removalWake \in BOOLEAN
  /\ pc \in [Thread -> { "idle", "ctl", "pend" }]
  /\ req \in [Thread -> Request \cup { NoReq }]
  /\ ahead \in [Thread -> SUBSET Thread]
  /\ \A t \in Thread : pc[t] # "idle" => req[t] \in Request

(* Mutual exclusion, through every wake pass: no lock is in the bitmaps of two
   handles, and the device bitmap is exactly the union of the handles'
   (locks.c "acquire sets global then local", "release clears local then
   global").                                                               *)
HeldExactlyOnce ==
  /\ \A f, g \in File : f # g => locksHeld[f] \cap locksHeld[g] = {}
  /\ resourceLockHeld = UNION { locksHeld[f] : f \in File }

(* No lost wake-up: a lock that a live request is queued for is held, so the
   request always has a release to wait for (design-decisions.md DD-10: wakers
   drain the queue and "each waiter is retried").                           *)
NoLostWakeup ==
  \A t \in Pended :
    ~detached /\ ~Stale(req[t].file) => req[t].lock \in resourceLockHeld

(* No waiter of an invalidated handle, or of a removed device, is left in the
   queue once the invalidating operation has run its wake pass (TtBumpResetGen,
   TtEvtDeviceSurpriseRemoval): the gate check and the pend cannot straddle it. *)
NoStrandedWaiter ==
  \A t \in Pended : detached \/ Stale(req[t].file) => removalWake

(* A waiter whose handle was invalidated is not left waiting forever
   (reset.c "fail -ENODEV instead of waiting forever"): it leaves the queue. *)
StaleWaiterFails ==
  \A t \in Thread :
    (pc[t] = "pend" /\ (detached \/ Stale(req[t].file))) ~> (pc[t] # "pend")

(* A live request with no live one for its lock before it in the queue.    *)
FirstLive(t) ==
  /\ pc[t] = "pend"
  /\ ~Dead(t)
  /\ \A u \in ahead[t] : Dead(u) \/ req[u].lock # req[t].lock

(* First come, first served (locks.c "FIFO-fair"): whenever a handle gains a
   lock that live requests are queued for, the gain is the grant of the request
   that was queued first.  A direct ACQUIRE never overtakes the queue.       *)
FifoGrant ==
  [][\A f \in File, t \in Thread :
       FirstLive(t) /\ req[t].lock \in locksHeld'[f] \ locksHeld[f]
         => req[t].file = f /\ pc'[t] = "idle"]_vars

(* Handle close releases everything: a handle opened for synchronous I/O holds
   no lock once its cleanup has run (device.c "Release all resource locks this
   handle held").  An overlapped handle may: a LOCK_CTL that is past the gate
   when TtLocksReleaseAll runs acquires after it.                          *)
ClosedHoldsNothing ==
  \A f \in SyncFile : handle[f] = "closed" => locksHeld[f] = {}

(* The abstract state: who has a lock, and who has asked for one.          *)
OwnerOf(l) ==
  IF \E f \in File : l \in locksHeld[f]
  THEN CHOOSE f \in File : l \in locksHeld[f] ELSE NoFile
AskedBy(t) ==
  IF pc[t] # "idle" /\ req[t].cmd \in { "ACQUIRE", "ACQUIRE_BLOCKING" }
  THEN [file |-> req[t].file, lock |-> req[t].lock] ELSE NoReq
Service == INSTANCE LockService
             WITH owner <- [l \in Lock |-> OwnerOf(l)],
                  asked <- [t \in Thread |-> AskedBy(t)]

(* The bitmaps, the queue and its wake passes (locks.c) implement the abstract
   lock service.                                                           *)
ImplementsLockService == Service!Spec
=============================================================================
