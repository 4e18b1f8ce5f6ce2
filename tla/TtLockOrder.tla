---------------------------- MODULE TtLockOrder ----------------------------
(***************************************************************************)
(* Every lock of the driver and every path that takes more than one.  An   *)
(* operation is the sequence of its lock steps, written with the nesting   *)
(* the code has: wait locks (WDFWAITLOCK, exclusive, not recursive), the   *)
(* reset resource (ERESOURCE, shared or exclusive; a waiting exclusive     *)
(* acquirer holds back new shared ones) and, under KernelTlbLock, the two  *)
(* halves of a NOC access: programming the kernel's window and using it.   *)
(* Threads run operations in any order, forever.                           *)
(***************************************************************************)
EXTENDS Naturals, Sequences, SequencesExt

CONSTANTS
  Thread, NoThread,
  FileList      \* the open handles, in the order of TT_DEVICE_CONTEXT.FileList

File == ToSet(FileList)

DeviceLock == { "DeviceListLock", "PowerLock", "FileListLock", "TlbLock", "IatuLock",
                "ArcMsgLock", "KernelTlbLock", "LockLock" }
WaitLock == DeviceLock \cup File     \* TT_FILE_CONTEXT.Lock of f is f itself

ASSUME LockOrderAssumption ==
  /\ NoThread \notin Thread
  /\ FileList \in Seq(File)
  /\ File \cap (DeviceLock \cup { "ResetResource" }) = {}

-----------------------------------------------------------------------------
(* Operations.                                                             *)
Step(kind, lock) == [kind |-> kind, lock |-> lock]
With(lock, body) == << Step("acquire", lock) >> \o body \o << Step("release", lock) >>

(* TtResetAcquireShared, TtResetAcquireExclusive, TtResetRelease.           *)
Shared(body) ==
  << Step("shared", "ResetResource") >> \o body \o << Step("leave", "ResetResource") >>
Exclusive(body) ==
  << Step("exclusive", "ResetResource") >> \o body \o << Step("leave", "ResetResource") >>

(* Mutant: a NOC access that forgets the lock of the kernel's window.       *)
NocAccessUnlocked == << Step("program", "window"), Step("access", "window") >>

(* TtBhNocRead32, TtBhNocWrite32.                                           *)
NocAccess == With("KernelTlbLock", << Step("program", "window"), Step("access", "window") >>)
SendArcMessage == With("ArcMsgLock", NocAccess)
PowerAggregate == With("PowerLock", With("FileListLock", << >>)) \o SendArcMessage
SetupNocDma == With("IatuLock", << >>)
WakeWaiters == With("LockLock", << >>)

(* TtMemoryProcessExit of one handle, and of each on the list in turn.       *)
ReleasePins(f) == With(f, SetupNocDma)
ReleaseAllPins == FlattenSeq([i \in DOMAIN FileList |-> ReleasePins(FileList[i])])

(* TtResetZapMappings: each handle's lock in turn, inside FileListLock.      *)
ZapMappings ==
  With("FileListLock", FlattenSeq([i \in DOMAIN FileList |-> With(FileList[i], << >>)]))

FreeTlb(f) == Shared(With(f, With("TlbLock", << >>)))       \* and MAP of a window
PinPages(f) == Shared(With(f, SetupNocDma))                 \* and the DMA buffer calls
UnpinPages(f) == Shared(With(f, << >>) \o SetupNocDma)
ConfigureTlb == Shared(With("TlbLock", << >>))              \* and ALLOCATE_TLB
LockCtl == Shared(WakeWaiters)
SetPowerState(f) == Shared(With(f, << >>) \o PowerAggregate)
QueryTelemetry == Shared(NocAccess)
ResetAndBump == Exclusive(WakeWaiters \o ZapMappings \o SendArcMessage)
PostReset == Exclusive(NocAccess \o SendArcMessage \o NocAccess)
FileCreate == With("FileListLock", << >>) \o PowerAggregate
FileCleanup(f) ==
  Shared(NocAccess \o WakeWaiters \o With("FileListLock", << >>)
           \o ReleasePins(f) \o With("TlbLock", << >>))
    \o PowerAggregate

(* Mutant: the exit callback walks the handles before it has the resource.   *)
ProcessNotifyInverted ==
  With("DeviceListLock", With("FileListLock", Shared(ReleaseAllPins)))

(* TtProcessNotify.                                                         *)
ProcessNotify ==
  With("DeviceListLock", Shared(With("FileListLock", ReleaseAllPins)))

SurpriseRemoval == Exclusive(ZapMappings) \o WakeWaiters
PrepareHardware == SendArcMessage \o NocAccess \o PowerAggregate
DeviceListUpdate == With("DeviceListLock", << >>)

Operations ==
  { ConfigureTlb, LockCtl, QueryTelemetry, PostReset, FileCreate, PrepareHardware,
    SendArcMessage, DeviceListUpdate, ResetAndBump, ProcessNotify, SurpriseRemoval }
    \cup UNION { { FreeTlb(f), PinPages(f), UnpinPages(f), SetPowerState(f), FileCleanup(f) } :
                   f \in File }

-----------------------------------------------------------------------------
VARIABLES
  todo,      \* what is left of each thread's operation, << >> when idle
  owner,     \* the thread that holds each wait lock
  readers,   \* threads that hold the reset resource shared
  writer,    \* the thread that holds it exclusively
  queued,    \* threads in its queue for exclusive access
  window     \* the thread for whose access the kernel's window is programmed

vars == << todo, owner, readers, writer, queued, window >>

Init ==
  /\ todo = [t \in Thread |-> << >>]
  /\ owner = [l \in WaitLock |-> NoThread]
  /\ readers = {} /\ writer = NoThread /\ queued = {}
  /\ window = NoThread

Begin(t) ==
  /\ todo[t] = << >>
  /\ \E op \in Operations : todo' = [todo EXCEPT ![t] = op]
  /\ UNCHANGED << owner, readers, writer, queued, window >>

At(t, kind) == todo[t] # << >> /\ Head(todo[t]).kind = kind
Lock(t) == Head(todo[t]).lock
Done(t) == todo' = [todo EXCEPT ![t] = Tail(@)]

Acquire(t) ==
  /\ At(t, "acquire")
  /\ owner[Lock(t)] = NoThread
  /\ owner' = [owner EXCEPT ![Lock(t)] = t]
  /\ Done(t)
  /\ UNCHANGED << readers, writer, queued, window >>

Release(t) ==
  /\ At(t, "release")
  /\ owner' = [owner EXCEPT ![Lock(t)] = NoThread]
  /\ Done(t)
  /\ UNCHANGED << readers, writer, queued, window >>

(* ExAcquireResourceSharedLite.                                             *)
AcquireShared(t) ==
  /\ At(t, "shared")
  /\ writer = NoThread /\ queued = {}
  /\ readers' = readers \cup { t }
  /\ Done(t)
  /\ UNCHANGED << owner, writer, queued, window >>

(* ExAcquireResourceExclusiveLite: at once, or from its queue.              *)
AcquireExclusive(t) ==
  /\ At(t, "exclusive")
  /\ writer = NoThread /\ readers = {}
  /\ t \in queued \/ queued = {}
  /\ writer' = t
  /\ queued' = queued \ { t }
  /\ Done(t)
  /\ UNCHANGED << owner, readers, window >>
QueueExclusive(t) ==
  /\ At(t, "exclusive")
  /\ t \notin queued
  /\ writer # NoThread \/ readers # {}
  /\ queued' = queued \cup { t }
  /\ UNCHANGED << todo, owner, readers, writer, window >>

Leave(t) ==
  /\ At(t, "leave")
  /\ readers' = readers \ { t }
  /\ writer' = IF writer = t THEN NoThread ELSE writer
  /\ Done(t)
  /\ UNCHANGED << owner, queued, window >>

(* TtBhConfigureKernelTlb, and the register access that follows it.          *)
ConfigureKernelTlb(t) ==
  /\ At(t, "program")
  /\ window' = t
  /\ Done(t)
  /\ UNCHANGED << owner, readers, writer, queued >>
AccessWindow(t) ==
  /\ At(t, "access")
  /\ Done(t)
  /\ UNCHANGED << owner, readers, writer, queued, window >>

Next ==
  \E t \in Thread :
    \/ Begin(t)
    \/ Acquire(t) \/ Release(t)
    \/ AcquireShared(t) \/ AcquireExclusive(t) \/ QueueExclusive(t) \/ Leave(t)
    \/ ConfigureKernelTlb(t) \/ AccessWindow(t)

Spec == Init /\ [][Next]_vars

-----------------------------------------------------------------------------
(* The threads that keep t from its next step.                             *)
Blockers(t) ==
  { u \in Thread :
      \/ At(t, "acquire") /\ owner[Lock(t)] = u
      \/ At(t, "shared") /\ (writer = u \/ u \in queued)
      \/ At(t, "exclusive") /\ (writer = u \/ u \in readers) }

(***************************************************************************)
(* No deadlock (driver.c "Lock order matches cleanup and the reset zap"):  *)
(* among any threads in the driver at least one is not waiting for another *)
(* of them, whatever they run and however a waiting reset holds back new   *)
(* shared acquirers.                                                       *)
(***************************************************************************)
NoDeadlockedSet ==
  \A S \in SUBSET Thread : S # {} => \E t \in S : Blockers(t) \cap S = {}

(***************************************************************************)
(* The kernel's one window serves ARC messages, telemetry, the DBI         *)
(* backdoor and the NOC write of a closing handle (blackhole.c "each       *)
(* 32-bit access reprograms the kernel window under the lock"): an access  *)
(* reaches the target it was programmed for, never another thread's.       *)
(***************************************************************************)
AccessReachesItsTarget == \A t \in Thread : At(t, "access") => window = t
=============================================================================
