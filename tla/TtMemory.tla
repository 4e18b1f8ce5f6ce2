------------------------------ MODULE TtMemory ------------------------------
(***************************************************************************)
(* What a handle can own besides locks (memory.c): inbound TLB windows,    *)
(* DMA buffers, user mappings (views) and pinned pages, and everything     *)
(* that takes them away again: the owner's own requests, handle cleanup,   *)
(* the exit of the process that opened the handle, resets and surprise     *)
(* removal.                                                                *)
(*                                                                         *)
(* The steps are the sections the locks make atomic.  A file Lock section  *)
(* (MAP, PIN_PAGES, FREE_DMA_BUF_EX, FREE_TLB with TlbLock nested) is one  *)
(* step, failed attempts that roll back inside it are the step             *)
(* HandlerFails.  ALLOCATE_TLB, CONFIGURE_TLB, UNMAP and UNPIN_PAGES work  *)
(* on after they dropped their lock, so they take a second step on the     *)
(* object they found.  ALLOCATE_DMA_BUF keeps the file Lock throughout,    *)
(* but the byte account it adds to is shared by all handles and has no     *)
(* lock: it takes a second step with the Lock held.  Every request         *)
(* and every cleanup holds the reset resource shared from its gate to its  *)
(* end; RESET_DEVICE and surprise removal hold it exclusively and are one  *)
(* step that waits for the others.                                         *)
(*                                                                         *)
(* An iATU aperture lives and dies with the buffer or pinning it serves    *)
(* (TtDmaBufDestroy, TtDestroyPinning) and is not a variable of its own:   *)
(* module TtIatu models the table.  A PinRange stands for a (VA, size)     *)
(* pair of PIN_PAGES.                                                      *)
(***************************************************************************)
EXTENDS Integers, FiniteSets, FiniteSetsExt, TtGates

CONSTANTS
  File, Process, Thread,
  SyncFile,     \* handles opened for synchronous I/O: one request at a time,
                \* and cleanup only after it
  SharedFile,   \* handles duplicated into a process other than the opener's
  Window,       \* TLB ids of one pool
  Slot,         \* DMA buffer indices
  Va,           \* user addresses a view can be mapped at
  PinRange,     \* page ranges a client can pin
  Size,         \* sizes of the DMA buffers clients ask for
  DmaBufLimitBytes,  \* the registry's ceiling on them all, 0 for none
  DmaIdentity,  \* DmaIdentityKnown /\ DmaIdentityMapped
  NoFile, NoProcess, NoReq, NoObj, Bar

ASSUME MemoryAssumption ==
  /\ IsFiniteSet(File) /\ IsFiniteSet(Thread) /\ IsFiniteSet(Slot)
  /\ SyncFile \subseteq File
  /\ SharedFile \subseteq File
  /\ DmaIdentity \in BOOLEAN
  /\ Size \subseteq Nat \ { 0 } /\ DmaBufLimitBytes \in Nat
  /\ NoFile \notin File /\ NoProcess \notin Process
  /\ Window \cap Slot = {} /\ Bar \notin Window \cup Slot
  /\ NoObj \notin Slot \cup Window

VARIABLES
  handle,       \* "none", "open" (on FileList), "delisted", "freed", "closed"
  creator,      \* TT_FILE_CONTEXT.CreatorProcess
  alive,        \* processes whose exit callback has not run
  stale,        \* handles whose OpenResetGen is not ResetGen
  detached, needsHwInit,
  tlbOwner,     \* TT_DEVICE_CONTEXT.TlbOwner
  tlbConfig,    \* the handle whose CONFIGURE_TLB wrote the window's registers
  dmaBufs,      \* the size of the buffer of each handle and index, 0 for none
  dmaBufBytes,  \* TT_DEVICE_CONTEXT.DmaBufBytes, a signed counter
  mappings,     \* TT_FILE_CONTEXT.Mappings
  pinnings,     \* TT_FILE_CONTEXT.Pinnings
  pc,           \* "idle", "gated" or "second"
  req           \* the request: handle, operation and the object it found

vars == << handle, creator, alive, stale, detached, needsHwInit, tlbOwner,
           tlbConfig, dmaBufs, dmaBufBytes, mappings, pinnings, pc, req >>
deviceVars == << handle, creator, alive, stale, detached, needsHwInit >>
tlbVars == << tlbOwner, tlbConfig >>
dmaVars == << dmaBufs, dmaBufBytes >>
fileVars == << dmaBufs, dmaBufBytes, mappings, pinnings >>
threadVars == << pc, req >>

CallerOp == { "MAP", "UNMAP", "PIN_PAGES", "UNPIN_PAGES" }
QueuedOp == { "ALLOCATE_TLB", "FREE_TLB", "CONFIGURE_TLB", "ALLOCATE_DMA_BUF",
              "FREE_DMA_BUF_EX" }
Mapping == [va : Va, target : Window \cup Slot \cup { Bar }]
Pinning == [range : PinRange, backing : Slot \cup { NoObj }]
Reservation == [slot : Slot, size : Size, refused : BOOLEAN]
Object == Window \cup Mapping \cup Pinning \cup Reservation \cup { NoObj }
Request == [file : File, op : CallerOp \cup QueuedOp, obj : Object]

Init ==
  /\ handle = [f \in File |-> "none"]
  /\ creator = [f \in File |-> NoProcess]
  /\ alive = Process
  /\ stale = {}
  /\ detached = FALSE /\ needsHwInit = FALSE
  /\ tlbOwner = [w \in Window |-> NoFile]
  /\ tlbConfig = [w \in Window |-> NoFile]
  /\ dmaBufs = [f \in File |-> [s \in Slot |-> 0]]
  /\ dmaBufBytes = 0
  /\ mappings = [f \in File |-> {}]
  /\ pinnings = [f \in File |-> {}]
  /\ pc = [t \in Thread |-> "idle"]
  /\ req = [t \in Thread |-> NoReq]

Busy(f) == \E t \in Thread : pc[t] # "idle" /\ req[t].file = f
Cleaning(f) == handle[f] \in { "delisted", "freed" }
NoSharedHolder ==
  (\A t \in Thread : pc[t] = "idle") /\ (\A f \in File : ~Cleaning(f))

(* Nobody is between the two steps of an ALLOCATE_DMA_BUF of the handle.   *)
LockFree(f) ==
  \A t \in Thread :
    pc[t] = "second" /\ req[t].op = "ALLOCATE_DMA_BUF" => req[t].file # f
Bufs(f) == { s \in Slot : dmaBufs[f][s] # 0 }
BytesOf(f) == MapThenSumSet(LAMBDA s : dmaBufs[f][s], Slot)
GateNr(op) == IF op \in { "MAP", "UNMAP" } THEN "MMAP" ELSE op

(* Views and pins whose destruction a request has yet to do: unlinked from
   the handle's list, still in the process' page tables or locked.         *)
Unlinked(f, op) ==
  { req[t].obj : t \in { u \in Thread : pc[u] = "second" /\ req[u].op = op
                                          /\ req[u].file = f } }
Views(f) == mappings[f] \cup Unlinked(f, "UNMAP")
Pins(f) == pinnings[f] \cup Unlinked(f, "UNPIN_PAGES")

-----------------------------------------------------------------------------
(* TtEvtDeviceFileCreate: latch the generation, record the opener, join
   FileList.  It does not look at Detached.                                *)
FileCreate(f, p) ==
  /\ handle[f] = "none"
  /\ p \in alive
  /\ handle' = [handle EXCEPT ![f] = "open"]
  /\ creator' = [creator EXCEPT ![f] = p]
  /\ UNCHANGED << alive, stale, detached, needsHwInit, tlbVars, fileVars, threadVars >>

(* The dispatchers up to their gates: TtEvtIoInCallerContext serves only the
   opener's process, TtEvtIoDeviceControl any process that has the handle.  *)
Dispatch(t, f, op) ==
  /\ pc[t] = "idle"
  /\ handle[f] = "open"
  /\ f \in SyncFile => ~Busy(f)
  /\ creator[f] \in alive \/ (f \in SharedFile /\ op \in QueuedOp)
  /\ TtCheckIoGates(detached, f \in stale, needsHwInit, GateNr(op)) = "SUCCESS"
  /\ pc' = [pc EXCEPT ![t] = "gated"]
  /\ req' = [req EXCEPT ![t] = [file |-> f, op |-> op, obj |-> NoObj]]
  /\ UNCHANGED << deviceVars, tlbVars, fileVars >>

Handles(t, op) == pc[t] = "gated" /\ req[t].op = op
LockAndHandle(t, op) == Handles(t, op) /\ LockFree(req[t].file)
Continues(t, op) == pc[t] = "second" /\ req[t].op = op

Complete(t) ==
  /\ pc' = [pc EXCEPT ![t] = "idle"]
  /\ req' = [req EXCEPT ![t] = NoReq]
GoOn(t, obj) ==
  /\ pc' = [pc EXCEPT ![t] = "second"]
  /\ req' = [req EXCEPT ![t].obj = obj]

(* Any handler may fail under its lock (bad input, no resources, the wrong
   owner, a busy object, a short output buffer) and undo what it began.    *)
HandlerFails(t) ==
  /\ pc[t] = "gated"
  /\ Complete(t)
  /\ UNCHANGED << deviceVars, tlbVars, fileVars >>

-----------------------------------------------------------------------------
(* TtIoctlAllocateTlb: a free window of the pool is claimed under TlbLock ... *)
AllocateTlb(t, w) ==
  /\ Handles(t, "ALLOCATE_TLB")
  /\ tlbOwner[w] = NoFile
  /\ tlbOwner' = [tlbOwner EXCEPT ![w] = req[t].file]
  /\ GoOn(t, w)
  /\ UNCHANGED << deviceVars, tlbConfig, fileVars >>

(* ... and the id is returned ...                                          *)
AllocateTlbReturns(t) ==
  /\ Continues(t, "ALLOCATE_TLB")
  /\ Complete(t)
  /\ UNCHANGED << deviceVars, tlbVars, fileVars >>

(* ... or, the output buffer being too small, the window is given back.    *)
AllocateTlbRollback(t) ==
  /\ Continues(t, "ALLOCATE_TLB")
  /\ tlbOwner' = [tlbOwner EXCEPT ![req[t].obj] = NoFile]
  /\ Complete(t)
  /\ UNCHANGED << deviceVars, tlbConfig, fileVars >>

(* Mutant: the -EBUSY scan of the views is missing.                        *)
FreeTlbMapped(t, w) ==
  /\ LockAndHandle(t, "FREE_TLB")
  /\ tlbOwner[w] = req[t].file
  /\ tlbOwner' = [tlbOwner EXCEPT ![w] = NoFile]
  /\ Complete(t)
  /\ UNCHANGED << deviceVars, tlbConfig, fileVars >>

(* TtIoctlFreeTlb, under the file Lock and TlbLock.  The registers stay.   *)
FreeTlb(t, w) ==
  /\ LockAndHandle(t, "FREE_TLB")
  /\ tlbOwner[w] = req[t].file
  /\ \A m \in mappings[req[t].file] : m.target # w
  /\ tlbOwner' = [tlbOwner EXCEPT ![w] = NoFile]
  /\ Complete(t)
  /\ UNCHANGED << deviceVars, tlbConfig, fileVars >>

(* Mutant: any window in use may be configured.                            *)
ConfigureTlbOfAnyone(t, w) ==
  /\ Handles(t, "CONFIGURE_TLB")
  /\ tlbOwner[w] # NoFile
  /\ GoOn(t, w)
  /\ UNCHANGED << deviceVars, tlbVars, fileVars >>

(* TtIoctlConfigureTlb: ownership is checked under TlbLock ...             *)
ConfigureTlb(t, w) ==
  /\ Handles(t, "CONFIGURE_TLB")
  /\ tlbOwner[w] = req[t].file
  /\ GoOn(t, w)
  /\ UNCHANGED << deviceVars, tlbVars, fileVars >>

(* ... and TtBhConfigureUserTlb writes the registers without it, unless the
   address is unaligned.                                                   *)
BhConfigureUserTlb(t) ==
  /\ Continues(t, "CONFIGURE_TLB")
  /\ tlbConfig' \in { tlbConfig, [tlbConfig EXCEPT ![req[t].obj] = req[t].file] }
  /\ Complete(t)
  /\ UNCHANGED << deviceVars, tlbOwner, fileVars >>

-----------------------------------------------------------------------------
(* Mutant: the account is read, and only then added to.                    *)
DmaAccountRefusesLate(bytes) == DmaBufLimitBytes # 0 /\ dmaBufBytes > DmaBufLimitBytes

(* TtDmaAccountReserve adds first and tests the sum the addition returned.  *)
DmaAccountRefuses(bytes) ==
  DmaBufLimitBytes # 0 /\ dmaBufBytes + bytes > DmaBufLimitBytes

(* TtIoctlAllocateDmaBuf for an empty slot: the reservation, which keeps the
   file Lock ...                                                           *)
AllocateDmaBuf(t, s, n) ==
  /\ LockAndHandle(t, "ALLOCATE_DMA_BUF")
  /\ s \notin Bufs(req[t].file)
  /\ dmaBufBytes' = dmaBufBytes + n
  /\ GoOn(t, [slot |-> s, size |-> n, refused |-> DmaAccountRefuses(n)])
  /\ UNCHANGED << deviceVars, tlbVars, dmaBufs, mappings, pinnings >>

(* ... then the buffer, its aperture and the answer, published last ...    *)
AllocateDmaBufPublishes(t) ==
  /\ Continues(t, "ALLOCATE_DMA_BUF")
  /\ ~req[t].obj.refused
  /\ dmaBufs' = [dmaBufs EXCEPT ![req[t].file][req[t].obj.slot] = req[t].obj.size]
  /\ Complete(t)
  /\ UNCHANGED << deviceVars, tlbVars, dmaBufBytes, mappings, pinnings >>

(* ... or the reservation taken back: over the ceiling, or no memory, no
   aperture, an unreachable address, a short output buffer.                *)
AllocateDmaBufFails(t) ==
  /\ Continues(t, "ALLOCATE_DMA_BUF")
  /\ dmaBufBytes' = dmaBufBytes - req[t].obj.size
  /\ Complete(t)
  /\ UNCHANGED << deviceVars, tlbVars, dmaBufs, mappings, pinnings >>

(***************************************************************************)
(* TtDmaBufDestroy of the buffers in slots: the slot is cleared, the       *)
(* aperture goes down, memory and then account are released.  The callers  *)
(* hold the file Lock, so only the release of the account, the last of     *)
(* these steps, is seen by other handles: until then they find it too high *)
(* and may be refused, as before the whole.                                *)
(***************************************************************************)
DmaBufDestroy(f, slots) ==
  /\ dmaBufs' = [dmaBufs EXCEPT ![f] = [s \in Slot |-> IF s \in slots THEN 0 ELSE @[s]]]
  /\ dmaBufBytes' = dmaBufBytes - MapThenSumSet(LAMBDA s : dmaBufs[f][s], slots)

(* Mutants: one of the two -EBUSY scans is missing.                        *)
FreeDmaBufExIgnoringPins(t, s) ==
  LET f == req[t].file
  IN  /\ LockAndHandle(t, "FREE_DMA_BUF_EX")
      /\ s \in Bufs(f)
      /\ \A m \in mappings[f] : m.target # s
      /\ DmaBufDestroy(f, { s })
      /\ Complete(t)
      /\ UNCHANGED << deviceVars, tlbVars, mappings, pinnings >>
FreeDmaBufExIgnoringViews(t, s) ==
  LET f == req[t].file
  IN  /\ LockAndHandle(t, "FREE_DMA_BUF_EX")
      /\ s \in Bufs(f)
      /\ \A p \in pinnings[f] : p.backing # s
      /\ DmaBufDestroy(f, { s })
      /\ Complete(t)
      /\ UNCHANGED << deviceVars, tlbVars, mappings, pinnings >>

(* TtIoctlFreeDmaBufEx: refused while a listed view or pin refers to it.   *)
FreeDmaBufEx(t, s) ==
  LET f == req[t].file
  IN  /\ LockAndHandle(t, "FREE_DMA_BUF_EX")
      /\ s \in Bufs(f)
      /\ \A m \in mappings[f] : m.target # s
      /\ \A p \in pinnings[f] : p.backing # s
      /\ DmaBufDestroy(f, { s })
      /\ Complete(t)
      /\ UNCHANGED << deviceVars, tlbVars, mappings, pinnings >>

(* TtResolveMapTarget: a BAR, a window of this handle or one of its buffers. *)
ResolveMapTarget(f) ==
  { Bar } \cup { w \in Window : tlbOwner[w] = f } \cup Bufs(f)

(* TtIoctlMap, under the file Lock.  The memory manager chooses an address
   that is unused in the opener's process.                                 *)
Map(t, va, target) ==
  LET f == req[t].file
  IN  /\ LockAndHandle(t, "MAP")
      /\ target \in ResolveMapTarget(f)
      /\ \A g \in File : creator[g] = creator[f] => \A m \in Views(g) : m.va # va
      /\ mappings' = [mappings EXCEPT ![f] = @ \cup { [va |-> va, target |-> target] }]
      /\ Complete(t)
      /\ UNCHANGED << deviceVars, tlbVars, dmaVars, pinnings >>

(* TtIoctlUnmap unlinks the view at an address under the file Lock ...     *)
Unmap(t, m) ==
  /\ LockAndHandle(t, "UNMAP")
  /\ m \in mappings[req[t].file]
  /\ mappings' = [mappings EXCEPT ![req[t].file] = @ \ { m }]
  /\ GoOn(t, m)
  /\ UNCHANGED << deviceVars, tlbVars, dmaVars, pinnings >>

(* TtFindDmaBufView: the buffer a listed view of which contains the range. *)
FindDmaBufView(f) == { m.target : m \in { n \in mappings[f] : n.target \in Slot } }

(* TtIoctlPinPages: a range not pinned yet, backed by a buffer of this handle
   or, where device addresses are physical addresses, locked directly.     *)
PinPages(t, r, backing) ==
  LET f == req[t].file
  IN  /\ LockAndHandle(t, "PIN_PAGES")
      /\ \A p \in pinnings[f] : p.range # r
      /\ backing \in FindDmaBufView(f) \/ (backing = NoObj /\ DmaIdentity)
      /\ pinnings' = [pinnings EXCEPT ![f] = @ \cup { [range |-> r, backing |-> backing] }]
      /\ Complete(t)
      /\ UNCHANGED << deviceVars, tlbVars, dmaVars, mappings >>

(* TtIoctlUnpinPages unlinks the pin under the file Lock ...               *)
UnpinPages(t, p) ==
  /\ LockAndHandle(t, "UNPIN_PAGES")
  /\ p \in pinnings[req[t].file]
  /\ pinnings' = [pinnings EXCEPT ![req[t].file] = @ \ { p }]
  /\ GoOn(t, p)
  /\ UNCHANGED << deviceVars, tlbVars, dmaVars, mappings >>

(* ... and TtDestroyUserMapping or TtDestroyPinning follow after it.       *)
DestroyUnlinked(t) ==
  /\ Continues(t, "UNMAP") \/ Continues(t, "UNPIN_PAGES")
  /\ Complete(t)
  /\ UNCHANGED << deviceVars, tlbVars, fileVars >>

-----------------------------------------------------------------------------
(* TtEvtFileCleanup: delisted under FileListLock, holding the reset resource
   shared; in the opener's process unless another one has the handle ...   *)
CleanupDelist(f) ==
  /\ handle[f] = "open"
  /\ f \in SyncFile => ~Busy(f)
  /\ handle' = [handle EXCEPT ![f] = "delisted"]
  /\ UNCHANGED << creator, alive, stale, detached, needsHwInit, tlbVars, fileVars,
                  threadVars >>

(* ... then TtMemoryFileCleanup: views, pins and buffers under the file Lock ... *)
CleanupMemory(f) ==
  /\ handle[f] = "delisted"
  /\ LockFree(f)
  /\ handle' = [handle EXCEPT ![f] = "freed"]
  /\ mappings' = [mappings EXCEPT ![f] = {}]
  /\ pinnings' = [pinnings EXCEPT ![f] = {}]
  /\ DmaBufDestroy(f, Slot)
  /\ UNCHANGED << creator, alive, stale, detached, needsHwInit, tlbVars, threadVars >>

(* Mutant: the windows of a closed handle are never returned to the pool.  *)
CleanupWindowsLeaks(f) ==
  /\ handle[f] = "freed"
  /\ handle' = [handle EXCEPT ![f] = "closed"]
  /\ UNCHANGED << creator, alive, stale, detached, needsHwInit, tlbVars, fileVars,
                  threadVars >>

(* ... and its windows under TlbLock; the reset resource and the reference to
   the opener are dropped.                                                 *)
CleanupWindows(f) ==
  /\ handle[f] = "freed"
  /\ handle' = [handle EXCEPT ![f] = "closed"]
  /\ tlbOwner' = [w \in Window |-> IF tlbOwner[w] = f THEN NoFile ELSE tlbOwner[w]]
  /\ UNCHANGED << creator, alive, stale, detached, needsHwInit, tlbConfig, fileVars,
                  threadVars >>

(* Mutant: the exit callback releases views and forgets the locked pages.  *)
ProcessExitKeepsPins(p) ==
  LET mine == { f \in File : handle[f] = "open" /\ creator[f] = p }
  IN  /\ p \in alive
      /\ \A t \in Thread : pc[t] # "idle" /\ creator[req[t].file] = p
           => req[t].file \in SharedFile /\ req[t].op \in QueuedOp
      /\ \A f \in File \ SharedFile : creator[f] = p => ~Cleaning(f)
      /\ \A f \in mine : LockFree(f)
      /\ alive' = alive \ { p }
      /\ mappings' = [f \in File |-> IF f \in mine THEN {} ELSE mappings[f]]
      /\ UNCHANGED << handle, creator, stale, detached, needsHwInit, tlbVars, dmaVars,
                      pinnings, threadVars >>

(***************************************************************************)
(* TtProcessNotify in the last thread of process p: no other thread of p   *)
(* is left in the driver.  Views and pins of the listed handles p opened   *)
(* are destroyed (TtMemoryProcessExit); buffers and windows stay.          *)
(***************************************************************************)
ProcessExit(p) ==
  LET mine == { f \in File : handle[f] = "open" /\ creator[f] = p }
  IN  /\ p \in alive
      /\ \A t \in Thread : pc[t] # "idle" /\ creator[req[t].file] = p
           => req[t].file \in SharedFile /\ req[t].op \in QueuedOp
      /\ \A f \in File \ SharedFile : creator[f] = p => ~Cleaning(f)
      /\ \A f \in mine : LockFree(f)
      /\ alive' = alive \ { p }
      /\ mappings' = [f \in File |-> IF f \in mine THEN {} ELSE mappings[f]]
      /\ pinnings' = [f \in File |-> IF f \in mine THEN {} ELSE pinnings[f]]
      /\ UNCHANGED << handle, creator, stale, detached, needsHwInit, tlbVars, dmaVars,
                      threadVars >>

(* TtResetZapMappings: views of listed handles, DMA buffer views excepted.  *)
ResetZapMappings ==
  mappings' = [f \in File |->
    IF handle[f] = "open" THEN { m \in mappings[f] : m.target \in Slot } ELSE mappings[f]]

(* Mutant: RESET_DEVICE does not wait for the holders of the shared lock.   *)
MayResetUnguarded(f) ==
  /\ handle[f] = "open"
  /\ creator[f] \in alive \/ f \in SharedFile
  /\ TtCheckIoGates(detached, f \in stale, needsHwInit, "RESET_DEVICE") = "SUCCESS"

MayReset(f) ==
  /\ NoSharedHolder
  /\ handle[f] = "open"
  /\ creator[f] \in alive \/ f \in SharedFile
  /\ TtCheckIoGates(detached, f \in stale, needsHwInit, "RESET_DEVICE") = "SUCCESS"

(* RESET_DEVICE: USER_RESET, ASIC_RESET and ASIC_DMC_RESET (hw), CONFIG_WRITE
   (not hw).  Every handle but the resetting one goes stale.               *)
ResetAndBump(f, hw) ==
  /\ MayReset(f)
  /\ stale' = { g \in File : handle[g] # "none" } \ { f }
  /\ needsHwInit' = (needsHwInit \/ hw)
  /\ ResetZapMappings
  /\ UNCHANGED << handle, creator, alive, detached, tlbVars, dmaVars, pinnings, threadVars >>

(* RESET_DEVICE with RESET_PCIE_LINK: views are zapped, handles stay.      *)
ResetPcieLink(f) ==
  /\ MayReset(f)
  /\ ResetZapMappings
  /\ UNCHANGED << deviceVars, tlbVars, dmaVars, pinnings, threadVars >>

(* RESET_DEVICE with POST_RESET.                                           *)
PostReset(f) ==
  /\ MayReset(f)
  /\ needsHwInit' = FALSE
  /\ UNCHANGED << handle, creator, alive, stale, detached, tlbVars, fileVars, threadVars >>

(* TtEvtDeviceSurpriseRemoval.                                             *)
SurpriseRemoval ==
  /\ NoSharedHolder
  /\ detached' = TRUE
  /\ ResetZapMappings
  /\ UNCHANGED << handle, creator, alive, stale, needsHwInit, tlbVars, dmaVars, pinnings,
                  threadVars >>

WindowStep(t) ==
  \/ \E w \in Window : AllocateTlb(t, w) \/ FreeTlb(t, w) \/ ConfigureTlb(t, w)
  \/ AllocateTlbReturns(t) \/ AllocateTlbRollback(t) \/ BhConfigureUserTlb(t)

BufferStep(t) ==
  \/ \E s \in Slot, n \in Size : AllocateDmaBuf(t, s, n)
  \/ AllocateDmaBufPublishes(t) \/ AllocateDmaBufFails(t)
  \/ \E s \in Slot : FreeDmaBufEx(t, s)

CallerStep(t) ==
  \/ \E va \in Va, target \in Window \cup Slot \cup { Bar } : Map(t, va, target)
  \/ \E m \in Mapping : Unmap(t, m)
  \/ \E r \in PinRange, backing \in Slot \cup { NoObj } : PinPages(t, r, backing)
  \/ \E p \in Pinning : UnpinPages(t, p)
  \/ DestroyUnlinked(t)

Next ==
  \/ \E f \in File, p \in Process : FileCreate(f, p)
  \/ \E t \in Thread, f \in File, op \in CallerOp \cup QueuedOp : Dispatch(t, f, op)
  \/ \E t \in Thread : HandlerFails(t) \/ WindowStep(t) \/ BufferStep(t) \/ CallerStep(t)
  \/ \E f \in File : CleanupDelist(f) \/ CleanupMemory(f) \/ CleanupWindows(f)
  \/ \E p \in Process : ProcessExit(p)
  \/ \E f \in File, hw \in BOOLEAN : ResetAndBump(f, hw)
  \/ \E f \in File : ResetPcieLink(f) \/ PostReset(f)
  \/ SurpriseRemoval

Spec == Init /\ [][Next]_vars

-----------------------------------------------------------------------------
(* Every variable keeps its type, and a request in its second step holds the
   kind of object its operation found.                                     *)
TypeOK ==
  /\ handle \in [File -> { "none", "open", "delisted", "freed", "closed" }]
  /\ creator \in [File -> Process \cup { NoProcess }]
  /\ alive \subseteq Process
  /\ stale \subseteq File
  /\ detached \in BOOLEAN /\ needsHwInit \in BOOLEAN
  /\ tlbOwner \in [Window -> File \cup { NoFile }]
  /\ tlbConfig \in [Window -> File \cup { NoFile }]
  /\ dmaBufs \in [File -> [Slot -> Size \cup { 0 }]]
  /\ dmaBufBytes \in Int
  /\ mappings \in [File -> SUBSET Mapping]
  /\ pinnings \in [File -> SUBSET Pinning]
  /\ pc \in [Thread -> { "idle", "gated", "second" }]
  /\ req \in [Thread -> Request \cup { NoReq }]
  /\ \A t \in Thread : pc[t] # "idle" => req[t] \in Request
  /\ \A t \in Thread : pc[t] = "second" =>
       \/ req[t].op \in { "ALLOCATE_TLB", "CONFIGURE_TLB" } /\ req[t].obj \in Window
       \/ req[t].op = "ALLOCATE_DMA_BUF" /\ req[t].obj \in Reservation
       \/ req[t].op = "UNMAP" /\ req[t].obj \in Mapping
       \/ req[t].op = "UNPIN_PAGES" /\ req[t].obj \in Pinning

(* A buffer outlives what refers to it (memory.c "A live MAP view or a
   PIN_PAGES registration backed by this buffer keeps it alive"): no view in a
   process' page tables and no pin, hence no aperture, targets freed memory. *)
NothingOutlivesItsBuffer ==
  \A f \in File : /\ \A m \in Views(f) : m.target \in Slot => m.target \in Bufs(f)
                  /\ \A p \in Pins(f) : p.backing \in Bufs(f) \cup { NoObj }

(* The same of the objects on the handle's lists only: it holds however many
   requests of one handle overlap.                                         *)
ListedRefsHaveBuffer ==
  \A f \in File : /\ \A m \in mappings[f] : m.target \in Slot => m.target \in Bufs(f)
                  /\ \A p \in pinnings[f] : p.backing \in Bufs(f) \cup { NoObj }

(***************************************************************************)
(* The byte account is what the buffers and the running reservations add   *)
(* up to, on every path of every handler and of cleanup, and the buffers   *)
(* never exceed the ceiling although the test follows the addition and     *)
(* allocations of different handles race (memory.c DD-17).  A reservation  *)
(* that will be refused counts meanwhile, so others may be refused with it. *)
(***************************************************************************)
DmaAccountIsExact ==
  LET live == MapThenSumSet(BytesOf, File)
      reserving == { t \in Thread : pc[t] = "second" /\ req[t].op = "ALLOCATE_DMA_BUF" }
      Reserved(t) == req[t].obj.size
  IN  /\ dmaBufBytes = live + MapThenSumSet(Reserved, reserving)
      /\ DmaBufLimitBytes # 0 =>
           live + MapThenSumSet(Reserved, { t \in reserving : ~req[t].obj.refused })
             <= DmaBufLimitBytes

(* A window's views belong to its owner: FREE_TLB, cleanup and the rollback of
   ALLOCATE_TLB never hand a window on while somebody can still reach it.   *)
WindowViewsAreOwners ==
  \A f \in File, m \in UNION { Views(g) : g \in File } :
    m \in Views(f) /\ m.target \in Window => tlbOwner[m.target] = f

(* Reset and removal revoke device memory: no view of a BAR or a window belongs
   to an invalidated handle that is on FileList, or to a removed device
   (device.c "revoke user mappings so stale accesses fault rather than
   dangle").  It holds however many requests overlap.                      *)
ListedViewsRevoked ==
  \A f \in File : handle[f] = "open" /\ (\E m \in Views(f) : m.target \notin Slot)
                    => ~detached /\ f \notin stale

(* A handle whose cleanup is over owns nothing (ttkmd.h "all torn down at
   handle cleanup").                                                       *)
ClosedOwnsNothing ==
  \A f \in File : handle[f] = "closed" =>
    /\ Views(f) = {} /\ Pins(f) = {} /\ Bufs(f) = {}
    /\ \A w \in Window : tlbOwner[w] # f

(* A process whose exit callback has run has no view and no locked page through
   any handle on FileList, duplicated handles included (driver.c: they "keep
   the file object alive past this point, which is exactly the case
   IRP_MJ_CLEANUP cannot cover"): what another process or a later cleanup does
   with such a handle never reaches into the dead one.                     *)
DeadProcessHasNothing ==
  \A f \in File : handle[f] = "open" /\ creator[f] \in Process \ alive =>
    Views(f) = {} /\ Pins(f) = {}

(* A window's registers are only ever written for its owner, although they are
   written after TlbLock was dropped (memory.c CONFIGURE_TLB, -EPERM).      *)
ConfiguredByOwner ==
  [][\A w \in Window : tlbConfig'[w] # tlbConfig[w] => tlbOwner[w] = tlbConfig'[w]]_vars

-----------------------------------------------------------------------------
(* The views of handles as clients see them: a handle is open until cleanup
   has taken its views, and refused when the gates refuse all its requests;
   a view is of device memory or of a DMA buffer.                          *)
ViewState ==
  [f \in File |-> CASE handle[f] = "none" -> "none"
                    [] handle[f] \in { "open", "delisted" } -> "open"
                    [] OTHER -> "closed"]
RefusedHandles == { f \in File : ViewState[f] = "open" /\ (detached \/ f \in stale) }
Seen(m) == [va |-> m.va, kind |-> IF m.target \in Slot THEN "buffer" ELSE "device"]
ViewsSeen == [f \in File |-> { Seen(m) : m \in Views(f) }]

Driver ==
  INSTANCE ViewService WITH Addr <- Va, state <- ViewState, home <- creator,
                            refused <- RefusedHandles, views <- ViewsSeen

(* The driver serves views as ViewService promises, however requests, cleanup,
   process exits, resets and a removal interleave.                         *)
DriverServesViews == Driver!Spec
=============================================================================
