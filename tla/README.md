# A TLA+ model of the tt-win-kmd driver

tt-win-kmd is the Windows kernel driver for Tenstorrent Blackhole cards. User
programs open the device, take hardware windows (TLBs) and DMA buffers, map and
pin memory, take device-wide locks, ask for power and reset the chip. This
directory holds TLA+ modules that model the driver's state machines, TLC
configurations that check them on small instances, and TLAPS proofs of the
properties that matter most for every instance. All source paths are relative to
the repository; the driver is `src/driver/`.

Run a check with `tlc -config <cfg> <module>` and a proof module with `tlapm
<module>.tla`. `PROJECT.json` lists the runs, the source lines behind every
definition, the hazards of the code and the mutation of the model each property
is known to detect.

## 1. The system

| Component | State | Operations | What makes it correct |
|---|---|---|---|
| Request gate (`ioctl.c`, `TtCheckIoGates`) | none of its own: `Detached`, `ResetGen`/`OpenResetGen`, `NeedsHwInit` | called at the head of every request | a removed device, a stale handle or a device in a reset admits only what the order of the tests allows |
| Resource locks (`locks.c`) | `ResourceLockHeld`, `LocksHeld` per handle, `LockWaitQueue` | `LOCK_CTL` acquire, blocking acquire, release, test; wake passes | one owner per lock, FIFO service, no lost wake-up, nothing held by a closed handle |
| Handle memory (`memory.c`, `device.c`, `driver.c`) | `TlbOwner`, `DmaBufs`, `Mappings`, `Pinnings` | allocate, free and configure TLB; allocate and free DMA buffer; map, unmap, pin, unpin; cleanup, process exit, reset zap, removal | nothing is used after its owner lost it, nothing survives its owner |
| Outbound iATU (`memory.c`, `blackhole.c`) | `Iatu[]` and the chip's region registers | set-up (gap search, claim, programming), teardown | apertures disjoint, registers follow the table |
| Reset protocol (`reset.c`, `blackhole.c`, `device.c`) | `ResetGen`, `NeedsHwInit`, saved configuration, `PldrQueued`, the marker bit in the chip | seven flavours of `RESET_DEVICE`, D0 entry and exit, stop, surprise removal, release, PLDR work item | success means a real reset and a restored chip; stale handles stay dead |
| ARC message queue (`blackhole.c`) | two rings and four pointers in chip memory, `ArcMsgLock` | push, doorbell, pop | no message lost or overwritten; a sender gets its own response |
| Power aggregation (`power.c`) | per-handle contribution, cached aggregate | `SET_POWER_STATE`, open, close | firmware knows the combination of the live handles |
| DMA byte account (`memory.c`) | `DmaBufBytes`, one counter for all handles, changed without a lock | reserve, release | at quiet points the sum of the live buffers; never too small, and no live total above the registry's ceiling |
| Map tokens (`memory.c`, `ioctl.c`) | none: a numbering of BARs, windows and buffers | issued by `QUERY_MAPPINGS`, `ALLOCATE_TLB`, `ALLOCATE_DMA_BUF`; decoded by `MAP` | a token resolves to what it was issued for; a window token reaches no window of another handle |
| PnP and device lifetime (`device.c`), NOC cleanup write (`device.c`, `power.c`) | mapped BARs, `BarLength`, the window table, `Detached`, `NocCleanupEnabled` | start, failed start, stop, surprise removal; `SET_NOC_CLEANUP` and the write at close | registers are touched only while they are mapped |
| Lock order, kernel TLB window (all of `src/driver/`) | nine kinds of lock, the target of window 201 | every path that takes more than one lock; NOC reads and writes | no set of threads waits in a circle; an access reaches the target it was programmed for |
| User-mode shim (`src/ttwin_compat/`) | `tt_device` with its `views` and `closed` | `tt_open`, `tt_mmap`, `tt_munmap`, `tt_close` | views outlive `tt_close`; the driver handle is closed once, behind the last view |
| Telemetry, ioctl buffer protocol | see section 6 | | |

**How the parts interact.** Every request enters `TtEvtIoDeviceControl`, takes
`ResetResource` shared (`RESET_DEVICE` takes it exclusive), passes the gate and
calls its handler. Handle create, cleanup and close, process exit, power and PnP
callbacks and cancellation come from the system at any time. The locks, from
outside in: the global device list lock, `ResetResource`, `PowerLock`,
`FileListLock`, a handle's `Lock`, then `TlbLock` or `IatuLock`; `ArcMsgLock`
before `KernelTlbLock`; `LockLock` of the resource locks is a leaf. A reset
bumps `ResetGen`, which makes every other handle stale, wakes lock waiters and
revokes user views. The shim turns `mmap` and `close` of a Linux client into
MAP, UNMAP and the closing of a driver handle, whose cleanup revokes the views.

**What is hard here.** Handles opened for overlapped I/O may have any number of
requests in flight, and cleanup runs with `ResetResource` held shared, so a
request past the gate can act after the cleanup of its handle. Several handlers
drop a lock between finding an object and acting on it. Handles can be
duplicated into other processes, so cleanup may run in a process other than the
opener's, and race with the opener's exit. The chip resets by itself some time
after it was asked to. Firmware answers late or never. The wake pass of the lock
queue has a batch limit. ReleaseHardware unmaps the registers without taking the
lock that requests hold. `PROJECT.json` lists these hazards with their lines.

## 2. Modules

Each module is parameterised by CONSTANTS with a named ASSUME; an `MC...` module
adds symmetry sets and input sets for TLC. Definitions keep the names of the C
functions where there is one. Definitions introduced as a mutant or a *plausible
slip* stand directly before the definition they vary; no specification uses
them.

* **TtGates**: `TtCheckIoGates` as a function of the three flags and the request
  number, with the list of requests admitted before re-initialisation. TtLocks,
  TtMemory and TtReset call it where the dispatchers do.
* **TtLocks**: one action per critical section of `locks.c`. A thread is idle,
  past the gate, or pended in the wait queue; the queue is the order relation
  `ahead`. `TtLocksWakeWaiters` is a part of each action that wakes: it drains
  the first `WakeBatch` requests, fails the dead, grants free locks in order and
  re-queues the losers, any of which may be cancelled at that moment. Release,
  cleanup and reset include their wake pass; surprise removal sets `Detached`
  first and wakes in a second step, as the callback does.
* **LockService**: the abstract service. A lock has at most one owner, is
  granted only to a handle that asked for it and only when free, and is given up
  only by its owner. TtLocks implements it under the mapping `OwnerOf`,
  `AskedBy`.
* **TtMemory**: the memory requests split at their locks. A request is idle,
  gated, or in its second part with the object it found (a claimed window to
  report or roll back, a checked window to program, an unlinked view or pin to
  destroy). Cleanup has the three steps of `TtEvtFileCleanup`: off the list,
  memory, windows. Process exit, the reset zap and surprise removal are single
  steps, guarded by the locks they take. ALLOCATE_DMA_BUF has two steps with the
  file Lock held, since the byte account it reserves in belongs to all handles
  and has no lock.
* **TtIatu**: the aperture table and the region registers, written one register
  per step in the order of `TtBhConfigureOutboundAtu`. `FirstFit` says
  declaratively which address the gap search picks; `LoopBottomUp` and
  `LoopTopDown` are the two search loops, as recursive functions, over `Sorted`,
  the table in the order that the insertion sort of memory.c:263-277 produces
  (the sort itself is abstracted); `LoopsAgree` says that they compute it. A
  chip reset clears the registers under the table; `lost` are the claimed
  regions it has hit.
* **TtReset**: each flavour of `RESET_DEVICE` is one action (it holds
  `ResetResource` exclusive). The chip is what the protocol can see of it: the
  marker, programmed BARs, payload size, whether firmware was initialised. It
  resets, loses its link and hangs in steps of its own. The PLDR work item, D0
  entry and exit, surprise removal and release, after it or after an orderly
  stop, are the other actors. D0 entry saves what it reads, from a link that
  answers or not; `blind` records the latter. A start after a stop is `Init`
  again.
* **TtArcQueue**: a sender step per lock, poll, slot, pointer and doorbell
  access. Firmware is external: it serves the queue when the doorbell has been
  rung and sleeps when it finds it empty. The pointer arithmetic keeps the
  UINT32 wrap (`Word`).
* **TtPower**: a handle's contribution is stored in two steps, since the
  aggregate reads it without the handle's lock. `TtPowerAggregate` has three
  steps, read the generation, combine under the locks, send without them. A send
  is skipped when the device is detached and may fail unnoticed (`SendLost`); a
  chip reset makes firmware forget. `settled` says that the last thing that
  happened to firmware was a send that arrived and whose thread met no other
  between its sum and its message.
* **TtMapTokens**: the token of a window, a BAR and a buffer,
  `TtResolveMapTarget` region by region, and `MapTarget`, which puts the tests
  of `TtIoctlMap` on the length (not zero, whole pages, at most 32 bits) before
  it, as operators over a layout.
* **TtPnp**: PrepareHardware with its failures, power-down, ReleaseHardware and
  surprise removal against handles that open, pin, unpin, allocate and free
  windows, exit and close. A handle's `stage` is the register access that comes
  next after the test of `Detached` that allowed it; `Fenced` stages hold the
  reset resource. The framework's part (when a stop may come, that the queue is
  stopped with the device) is external. **MCTtPnp** gives TtMapTokens a scaled
  layout for the run, and its ASSUME evaluates the tokens of all 210 windows and
  256 buffers in the real layout, counted in pages.
* **TtLockOrder**: an operation is the sequence of its lock steps, with the
  nesting of the code; threads run any operation, forever. The reset resource is
  an ERESOURCE: a waiting exclusive acquirer holds back new shared ones. Under
  `KernelTlbLock` a NOC access programs the kernel's window and then uses it.
* **TtCompat**: a call of the shim is one step up to its request to the driver
  and one after it; another process may reset the device, or only its link, in
  between. Names that TtMemory has too are given a prefix here, so that one
  proof module can extend both.
* **ViewService**: the abstract service of views, between the two. A view is
  mapped and unmapped only for an open handle that is not refused, never at an
  address its process uses; a close, an exit of the opener or a reset takes
  views away, and a reset takes device views only. TtMemory implements it
  (`DriverServesViews`, under the mapping `ViewState`, `RefusedHandles`,
  `ViewsSeen`), and the driver that TtCompat has below the shim keeps to it too
  (`ShimReliesOnViews`).
* **TtLocks_proofs**, **TtMemory_proofs**, **TtIatu_proofs**,
  **TtReset_proofs**, **TtArcQueue_proofs**, **TtPower_proofs**,
  **TtPnp_proofs**, **TtLockOrder_proofs**: theorems, section 5.

## 3. Runs

| Run | Checks | Shows |
|---|---|---|
| `locks` | `HeldExactlyOnce`, `NoLostWakeup`, `NoStrandedWaiter`, `ClosedHoldsNothing`, `FifoGrant`, `ImplementsLockService`, `StaleWaiterFails` | with a queue that fits in a batch, mutual exclusion and FIFO grants survive every pass, every waiter has a release to wait for, waiters of dead handles leave the queue, and the whole refines LockService |
| `memory_sync` | `NothingOutlivesItsBuffer`, `WindowViewsAreOwners`, `ClosedOwnsNothing`, `ConfiguredByOwner` | for handles opened for synchronous I/O, no order of requests, cleanup, exit, reset and removal uses or leaks an object |
| `memory_overlap` | `ListedRefsHaveBuffer`, `ListedViewsRevoked`, `DmaAccountIsExact`, `DeadProcessHasNothing` | for overlapped, duplicated handles the lists themselves never refer to a freed buffer, to a view a reset should have revoked or into a process whose exit callback has run, and the byte account is exact and under its ceiling while two allocations race |
| `memory_buffer` | `NothingOutlivesItsBuffer` (violated) | UNMAP or UNPIN_PAGES destroys after dropping the lock; FREE_DMA_BUF_EX in between frees under the view |
| `iatu` | `RegionsDisjoint`, `NoSpuriousRefusal`, `HardwareMatchesTable`, `SetupNeverCaptures`, `LoopsAgree` | the gap search finds a gap whenever one exists, claims never overlap, only claimed regions are enabled and those no chip reset has hit follow the table, a half-programmed region diverts nobody's traffic |
| `reset` | `OthersStayDead`, `PldrReferences`, `WindowClosedRestored`, `ResetProven`, `PldrSettles` | through all flavours, suspends, stops and removals: stale handles stay dead, no use of a released interface, success in the window means a real reset and a restored chip (its BARs only if the last resume did not meet a dead link), the work item settles |
| `reset_retry` | `PostResetMeansUsable` (violated) | a POST_RESET that came too early makes the next one report success for an unusable chip |
| `arc` | `RequestRing`, `ResponseRing`, `OwnResponse`, `SendReturns` | the rings are right through every wrap and every timeout; until a pushed message is abandoned each sender gets its own response and returns |
| `power` | `CachedIsCurrent`, `FirmwareIsCurrent`, `SetCounts` | the aggregate is that of the live handles once things are quiet, torn reads included; one send that arrives and meets no other brings firmware abreast of it, whatever was lost, skipped or forgotten before |
| `pnp` | `FencedMmioIsMapped`, `TokenRoundTrip`, `WindowTokensStayOwned` | whoever found the device attached is waited for by a removal before the BARs go; every token issued maps to its object in every length MAP takes; no number of the window regions reaches a window of somebody else |
| `lockorder` | `NoDeadlockedSet`, `AccessReachesItsTarget` | no circle of waiting threads, waiting resets included; NOC accesses through the one kernel window do not mix |
| `compat` | `ViewSurvivesClose`, `ClosedAndUnmappedIsFreed` | a view not unmapped stays usable past `tt_close` until a reset revokes it; with the last one the driver handle is closed, once, whatever UNMAP answered |

**Bounds, and why they are enough.** Handles, locks, windows, slots, addresses,
threads and senders are only compared for equality, so a violation needs as many
as take part in it. Two handles give an owner and a rival; three requests give a
holder's release, a winner and a loser that is re-queued (two waiters and a
waker); two locks let a pass grant one and re-queue the other. `WakeBatch` is 3
in `locks` (the queue fits, as 64 does for ordinary use). `MaxGen` bounds the
reset generation: one bump separates a stale from a live handle, two let a stale
handle live through a second reset; past the bound resets are disabled, nothing
wraps. In `memory_sync` one window, one buffer slot and two addresses let an
object be freed and claimed again by the rival; `memory_overlap` has one window,
buffers of sizes 1 and 2 under a ceiling of 2 (so that two reservations fit,
just fill the ceiling or overshoot it) and one address, and leaves `DmaIdentity`
off, so that only pages of the driver's own buffers can be pinned. `iatu` has
four regions, a window of nine addresses and sizes 2 and 3: it reaches full
tables, gaps of every size from 0, adjacent regions and both ends of the window.
`arc` starts from every pointer position of a two-slot ring and pushes six
messages, more than a full wrap of the pointers; `Word` is a multiple of the
pointers' modulus, as 2^32 is for power-of-two ring sizes (section 4 on others).
`power` has two flags (the special flag 0 and an ordinary one) and three
requests that differ in what the client knows, sets and declares. CHECK_DEADLOCK
is off where the bounded system may stop: a removed device with every handle
closed, a spent budget of messages. `power` has no such state and checks for
deadlock, and so does `lockorder`, which never stops. `pnp` has two handles, a
2M window for them next to the kernel's, room behind both in BAR0, two 4G
windows, buffers of different sizes, lengths up to one past the limit of MAP,
and three BAR layouts: all of BAR4, BAR4 cut in the middle of its second window,
and a BAR0 too short to start with. `lockorder` has three threads and two
handles: a circle through the reset resource needs a reader, a queued writer and
a second reader. `compat` has three handles and four addresses, so that a handle
has two views while others are mapped, closed and reset around it.

**Fairness, and why the code justifies it.** `locks`: a thread inside the driver
runs its handler to the end and the surprise-removal callback reaches its wake
pass; no fairness of clients, so nobody is assumed to release a lock. `reset`:
the PLDR work item runs on a system worker thread, and a stack whose platform
reset pci.sys has accepted is surprise-removed. `arc`: a sender that holds
`ArcMsgLock` runs on, and firmware serves a rung doorbell; giving up is possible
and never required, so no property rests on a timeout.

## 4. Limits of what holds

Two runs show the code departing from what its comments, documents or tests say;
`PROJECT.json` quotes the lines under `findings`. The conditions in the
statements of the other properties are the rest of what the model shows, and a
reader should know them:

* `ClosedHoldsNothing` is stated for handles opened for synchronous I/O, and
  `ClosedOwnsNothing`, `WindowViewsAreOwners` and `ConfiguredByOwner` are
  checked with only such handles. With overlapped requests in flight (`SyncFile
  = {}` in the instance of `memory_buffer`) TLC finds these violated, and a
  closed overlapped handle may hold a lock: a LOCK_CTL, MAP or PIN_PAGES past
  the gate acts after the cleanup of its handle (device.c:277, 286), the
  rollback of ALLOCATE_TLB frees a window that has changed hands (memory.c:141),
  and CONFIGURE_TLB programs one (memory.c:228).
* `NoLostWakeup` and `StaleWaiterFails` need a queue no longer than the batch
  (64): with more, a RELEASE may leave its lock free with a request for it
  queued, and waiters of a removed device wait until they are cancelled
  (locks.c:115). With `WakeBatch = 1` TLC shows both.
* `DeadProcessHasNothing` speaks of the handles on the device's list, duplicated
  ones included. A cleanup in another process takes the handle off the list
  first (device.c:281); if the opener exits then, its exit callback does not
  find it, and the mappings are destroyed after the process is gone, which the
  comment at memory.c:783-785 rules out. With the list left out of the property
  TLC finds this, for synchronous handles (`SharedFile` set to both in
  `memory_sync`) and overlapped ones.
* `OwnResponse` holds until a pushed message is abandoned: its late response is
  popped by the next sender, and every later one is shifted by one
  (blackhole.c:552).
* The ring properties need `WidthDivides`: twice the ring size divides 2^32, as
  for powers of two. The driver accepts every size from 1 to 255 that firmware
  publishes (blackhole.c:540-541; docs/analysis/09-arc-msgqueue.md:90 notes that
  the code does not validate the power of two). With another size, 3 say, the
  32-bit difference of blackhole.c:405 no longer counts entries once a pointer
  has wrapped.
* The optimistic reservation (memory.c:403) may refuse an allocation that fits
  while another that does not is still counted; `DmaAccountIsExact` says that
  nothing of it stays behind.
* `FencedMmioIsMapped` is for a system that does not stop the device under open
  handles. With `StopsWhileOpen = TRUE` it fails: ReleaseHardware neither sets
  `Detached` nor waits for the reset resource (device.c:687), although
  docs/linux-driver-analysis.md:1163 wants the flag set there. A restart after
  such a stop clears the window table under its owners (device.c:592). The
  aggregate that an open or a close sends holds no lock against a removal at all
  (power.c:106), so the property leaves it out.
* Tokens of windows and buffers take no byte offset (memory.c:668, 712), while
  the comments on MAP and in the shim speak of a token "plus any byte offset"
  (ttkmd_ioctl.h:392-395, ttwin_compat.h:59-61); neither a 4G window nor BAR4
  can be mapped whole, since a length is at most 32 bits (memory.c:834-836). A
  BAR token is subject to no ownership (memory.c:683-696): a view of BAR0 or
  BAR4 covers whatever windows lie in its range, other handles' and the kernel's
  included, and `WindowTokensStayOwned` is about the numbers of the window
  regions only. Of these, numbers between the last 2M window and the re-base
  point decode to the ids of 4G windows (memory.c:711), and an owner of that
  window then maps the part of BAR0 they point to. Both properties say so in
  their statements.
* `ViewSurvivesClose` is checked and proved with `ReusesVa = FALSE`. If the
  system gives out the address of a revoked view again before the client has
  unmapped the old one, that `tt_munmap` takes the new view.
* `ResetProven` excludes a RESTORE_STATE between the reset and its POST_RESET,
  which writes the saved command register, without the marker, over the marker
  (reset.c:270), and a DMC reset that failed and never set one: POST_RESET then
  reports success without a reset.
* `WindowClosedRestored` promises the BARs only if the last resume did not find
  the link down. `TtEvtDeviceD0Entry` saves the state whatever it reads
  (device.c:731-735, reset.c:195-236); of a link that a chip reset has taken
  down it reads all-ones, and the POST_RESET that follows writes them into the
  BARs and reports success. Without `blind` TLC shows it in eight states.
* A chip reset clears the apertures of buffers and pins that stay claimed, and
  POST_RESET programs none again (reset.c:530-548): their NOC addresses are dead
  until they are torn down, which `HardwareMatchesTable` allows for (`lost`). A
  set-up that the reset crosses loses the registers already written and may end
  enabled from base 0, over the addresses of others; `SetupNeverCaptures` leaves
  such regions out.
* `FirmwareIsCurrent` speaks of a send that arrived and met no other. Messages
  are sent after the locks are dropped (power.c:94), so two that meet may arrive
  in reverse, and firmware keeps the older; a send to a detached device is
  skipped and a failed one ignored (power.c:106-115); and nothing aggregates
  after POST_RESET or a resume, so a chip that was reset stays at its default.
  Each lasts until the next open, close or SET_POWER_STATE.
* `CachedIsCurrent` speaks of aggregates made for the current generation: one
  made by an open or a close may read the generation before a reset and combine
  after it (power.c:44).
* `SetupNeverCaptures` is about set-up. Teardown clears base and limit while the
  region is still enabled.

## 5. Proofs

Each proof module extends the module it is about. A theorem holds for every
value of the constants that satisfies the module's named ASSUME; where it needs
more, the statement says so with ASSUME ... PROVE. TLC evaluates the same
ASSUMEs on the instances of the runs. What the assumptions ask: null values
outside the sets they extend, subsets that are subsets, natural numbers where
the code has unsigned ones, and the few facts about sizes named below. Every
invariant is proved with one lemma for the initial state and one for a step,
which goes through the actions one by one.

**TtLocks_proofs**, for any handles and locks, finitely many outstanding
requests and any batch of at least one:

* `TypeCorrect`: `Spec => []TypeOK`, for every instance; no run repeats it.
* `MutualExclusion`: the invariant is `LockInv == TypeOK /\ HeldExactlyOnce /\
  QueueOrder`. Mutual exclusion is not inductive alone: that a wake pass grants
  a lock once rests on "the first in the queue" being unique, which is
  `QueueOrder` (the order that the framework's queue has by itself and the
  model's `ahead` must be shown to keep). Lemma `WinnersDiffer` says so,
  `WakeHeld` and `WakeQueue` carry both parts through a pass.
* `EveryWaiterIsServed`, `NoWaiterIsStranded`, `FirstComeFirstServed`: if the
  batch is at least the number of outstanding requests (`WideBatch`),
  `NoLostWakeup`, `NoStrandedWaiter` and the action property `FifoGrant` hold.
  The invariant `WakeInv` adds that a queued live request's lock is held, and
  that a handler past the gate was let in by a gate that still stands (which is
  what the reset's exclusive lock guarantees). `BatchIsQueue`, by cardinality,
  turns the assumption into "a pass drains the whole queue"; `FreeLockIsGranted`
  finds the first waiter of a freed lock. The batch is 64 (locks.c:115); section
  4 says what is lost beyond it.
* `CloseReleasesLocks`: `ClosedHoldsNothing`, for any batch. `CloseInv` adds
  that only ACQUIRE_BLOCKING is queued and that a busy synchronous handle is
  open, so that its cleanup finds no request of it past the gate.
* `LocksImplementService`: `Spec => ImplementsLockService`, for any batch. The
  initial states map to initial states; `ServiceStep` maps every step to a step
  of LockService or a stutter. A wake pass that grants several locks and drops
  several waiters is one `Serve` step (`ServeStep`, `WakerServes`).

**TtIatu_proofs**, for any number of regions, any window and request sizes of at
least 2 (PIN_PAGES works in pages):

* `IatuTypeCorrect`, `ClaimsAreDisjoint`, `AperturesFollowTable`,
  `SetupIsIsolated`, all from `IatuInv == TypeOK /\ RegionsDisjoint /\ WorkInv
  /\ SettledInv`. `SettledInv` says that a region nobody is configuring is
  enabled only if it is claimed and, unless a chip reset has hit it since, has
  registers equal to its table entry; `WorkInv` says which registers of the one
  being configured have been written and that a set-up has not enabled it yet.
  Without it the last register write could not be shown to re-establish
  `SettledInv`. Disjointness of the claims then gives disjointness of enabled
  apertures.
* `FirstFitIsComplete`: `NoSpuriousRefusal`. The code tries only the ends of the
  window and the addresses next to claimed regions. If any place is free, the
  lowest free place below it (`LeastOf`) touches a region or the bottom, and the
  highest (`GreatestOf`) a region or the top, so one of those is tried
  (`BottomUpFinds`, `TopDownFinds`).
* `LoopsComputeFirstFit`: `LoopsAgree`, for tables of any length. The loops are
  recursive functions and the library's induction theorems cannot be used here,
  so the argument is by extremes. `EnumerationExists`: any finite set of claims
  can be listed in the order of their bases, else take the smallest set that
  cannot, remove its last claim and put it back; `SortedTable` gives what the
  sort returns. `WalkUp` and `WalkDown`: such a loop has, at every index, the
  value of the nearest index at which it stops; a value that satisfies the
  recursion exists (it is given outright) and is the only one (take the nearest
  index at which two differ). `BottomUpLoop` and `TopDownLoop` apply both to the
  code's loops and compare the gap found with `FirstFit`.

**TtPnp_proofs**, for any handles and BAR layouts:

* `FenceHolds`: `FencedMmioIsMapped`, if the device is not stopped under open
  handles. The invariant `PnpInv` says that a started device is mapped, that a
  device with a handle in use is started unless it was removed, and that a
  request or register access admitted by a test of `Detached` still finds it
  false. The last part is the fence: SurpriseRemoval waits for all `Fenced`
  stages, and only a detached device is powered down with handles open.
* `TokensResolve`, `WindowViewsAreOwned`: `TokenRoundTrip` and
  `WindowTokensStayOwned`, for every table of buffers and every layout made of
  whole pages in which the 2M windows end below the re-base point, the 4G
  windows end within a region and the buffers start behind the regions
  (`TokenLayout`; MCTtPnp's ASSUME evaluates these for the real one). The
  invariant `TableInv` ties the window table to the BARs: handles own only
  windows that exist and never the kernel's, and the counted 4G windows lie in
  BAR4. The rest is arithmetic on quotients and remainders (`DivModSum`,
  `AlignedOverlap`). Both hold with stops under open handles too.

**TtReset_proofs**, for any number of handles and resets and every subset of the
flavours, from `ResetInv == ChipInv /\ SnapshotInv /\ MarkerInv /\ GenInv /\
PldrInv`:

* `StaleForGood`: `OthersStayDead`. `GenInv`: an invalidated handle is behind
  the device's generation, and stays so.
* `ReferencesAreCounted`: `PldrReferences`. `PldrInv` adds that the queued flag
  and the work item agree, so at most one work item has a reference.
* `ClosingRestores`: `WindowClosedRestored`. It rests on `SnapshotInv`, that a
  snapshot is only ever taken of a chip whose BARs are assigned, but for the
  last resume on a dead link.
* `MarkerProvesReset`: `ResetProven`. `MarkerInv`: until a reset that was asked
  for happens, its marker is in the chip or the link is down.

**TtMemory_proofs**, for finitely many handles, requests and buffer slots (the
account adds up over them):

* For any handles, overlapped and duplicated ones included, `ListedRefsSafe`
  (`ListedRefsHaveBuffer`) and `ViewsAreRevoked` (`ListedViewsRevoked`), from
  `MemoryInv`: the types, what the gate promised a request that passed it, that
  a handle not yet open has nothing, and that an invalidated handle lists only
  views of DMA buffers. FREE_DMA_BUF_EX looks at the lists under the same lock
  that publishes on them.
* If all handles are synchronous (`SyncFile = File`), `BufferOutlivesItsUsers`
  (`NothingOutlivesItsBuffer`), `OnlyOwnersSeeWindows` (`WindowViewsAreOwners`),
  `CleanupTakesEverything` (`ClosedOwnsNothing`) and `OnlyOwnersConfigure` (the
  action property `ConfiguredByOwner`), from `SyncInv`. Its parts: a handle has
  one request in flight, the handle of a request is open, what a request found
  in its first part still stands in its second (`FoundInv`), views of windows
  belong to their owners, and the steps of a cleanup leave nothing behind. The
  assumption is what section 4 shows to be needed.
* For any handles again, `ExitTakesEverything` (`DeadProcessHasNothing`).
* For any handles, `AccountStaysExact` (`DmaAccountIsExact`): whatever
  reservations, publications, rollbacks, frees, cleanups and exits interleave,
  the one counter is the sum of the live buffers and of the reservations under
  way, and the live total with the granted reservations stays under the ceiling.
  The property adds up over finite sets with the fold of the community modules;
  `Iter` and `MinimalSet` characterise that fold without an induction theorem
  (the set on which two folds differ first), and `SumTake`, `SumAdd`,
  `SumChange` and `SumSubset` are what the steps need. `SlotInv` says that a
  reservation is for an empty slot and is its handle's only one.
* `ViewsOutliveClose` (`ViewSurvivesClose`) and `LastUnmapFrees`
  (`ClosedAndUnmappedIsFreed`) of TtCompat, for any handles, addresses and
  resets, if the system gives no revoked address out again before it is unmapped
  (`~ ReusesVa`). The invariant is `CompatInv`: the `tt_device`'s list holds
  exactly what the client has still to unmap, each address once (`ListInv`;
  `ListPrepend` and `ListRemove` say what the list operations do to that); what
  it may use is mapped and not revoked (`HeldInv`); the `tt_device` lives as
  long as its driver handle (`LifeInv`); it is freed behind the last view, but
  for the `tt_munmap` about to do so (`FreeInv`); and the call in progress is on
  a live `tt_device` (`CallInv`). Without the assumption `ListInv` fails: an
  address is listed twice.
* `DriverIsViewService`: `Spec => DriverServesViews`, if all handles are
  synchronous, which is how the shim opens them (ttwin_compat.c:132-134). A view
  is in the page tables until `TtDestroyUserMapping`, so an UNMAP becomes
  visible in its second step. `ViewInv` adds to `SyncInv` that the views of a
  handle, unlinked ones included, have different addresses, and that what an
  UNMAP unlinked is not listed again; `ViewChange` says that a step of a request
  keeps the views, adds one at an unused address or takes one away. With
  overlapped requests TLC finds the refinement violated: a MAP past the gate
  acts after the cleanup of its handle.
* `ShimUsesViewService`: `CompatSpec => ShimReliesOnViews`, from `CompatInv`. An
  UNMAP that the gate refuses is a stutter of the service, and the closing of
  the handle behind the last view is its close. The driver of TtMemory and the
  one TtCompat has below the shim thus keep to one contract; that the second has
  every behaviour of the first is not claimed (a client whose process exits is
  not in TtCompat).

**TtArcQueue_proofs**, for any senders, any number of messages and the ring
sizes of `WidthDivides`, whose double divides `Word` (2^32); each theorem names
the condition, which the code does not check:

* `RequestsAreWhole`, `ResponsesAreWhole`: `RequestRing` and `ResponseRing`,
  from `RingInv`, which adds that only the lock's holder is in a transaction and
  that the pointer it read is still the ring's (`ReadInv`). `OccupancyIs` and
  `AdvanceIs` show that the 32-bit difference and increment of the code count
  entries modulo twice the ring size through every wrap.
* `EveryoneGetsTheirOwn`: `OwnResponse`. `OwnInv`: until a message is abandoned,
  both rings are empty between transactions and hold one entry during one.

**TtPower_proofs**, for any handles, threads, flags and requests:

* `CacheSettles` (`CachedIsCurrent`): if nobody is between a change and its
  combination, the cache is the aggregate (`CachedInv`); a contribution torn
  between its two stores is followed by a combination.
* `FirmwareSettles` (`FirmwareIsCurrent`): `LoneInv`, a thread that has met no
  other since its sum is the only one about to send and carries the cache;
  `SettledInv`, what such a thread delivered is the cache until the next sum.
* `RequestIsCounted` (`SetCounts`, an action property): the handle of a request
  in flight is of the current generation, since the reset resource is held.

**TtLockOrder_proofs**, for any threads, handles and list of open handles:

* `NoDeadlock`: `NoDeadlockedSet`. The argument is the rank of a lock (`Rank`,
  outermost first). `Good(n, s)` says that a sequence of lock steps, started
  with locks of rank at most n, takes only higher-ranked ones, gives back
  exactly what it took and programs the kernel's window immediately before each
  use, under its lock. `GoodBracket`, `GoodConcat` and `GoodFlatten` (the walks
  over the list of handles) follow the way operations are put together, and
  `GoodOperations` has it for every operation. The invariant `LockInv` says that
  every thread can run the rest of its operation with what it holds, and that
  only threads about to take the reset resource exclusively are queued for it.
  In a set of threads that waits for itself, take one that waits for the lock of
  the highest rank awaited: its holder waits for a higher one still. A queued
  reset that holds readers back is itself held up only by threads that hold the
  resource, so the same argument covers it.
* `WindowIsNotShared`: `AccessReachesItsTarget`, from the same invariant.

**Model-checked only.** Liveness under fairness (`StaleWaiterFails`,
`PldrSettles`, `SendReturns`) is out of this prover's reach; every invariant and
every action property of the passing runs has a theorem. The theorems about
TtLocks under `WideBatch`, TtMemory with synchronous handles, TtPnp without
stops and TtCompat without reuse of revoked addresses are as wide as section 4
shows the properties to be true.

## 6. Not modelled, and why

* Telemetry: tag discovery and reads without state of their own, except a cache
  of addresses that is filled at start and again by a POST_RESET that succeeds
  (reset.c:538-540). Only its locks are in TtLockOrder.
* The ioctl buffer protocol, device and driver information: sizes and copies.
  The failures they cause are steps of the component modules.
* Reading the BARs from configuration space, DriverEntry and the creation of
  framework objects: a straight line of calls at start.
* The composition of window registers (`TtBhSetBits`) and other register
  layouts: data. TtMemory keeps who configured a window, not to what.
  SET_NOC_CLEANUP accepts coordinates up to 64 (power.c:188) where the register
  field has six bits; nothing here depends on it.
* In the shim, the enumeration of devices by reference string and the size table
  of `tt_ioctl`.
* A chip reset in the middle of an ARC transaction: planned below. In TtIatu and
  TtPower the chip reset is a step of the environment that may come at any time,
  not tied to the flavours of TtReset.
* The test programs, the simulator glue and the tools.

## 7. Plan

Done: TtGates, TtLocks with LockService, TtMemory with the byte account and
ViewService, TtIatu, TtReset, TtArcQueue, TtPower, TtMapTokens, TtPnp,
TtLockOrder, TtCompat, and proofs for all of them. Left: **TtReset with
TtArcQueue**, a chip reset under a transaction.
