------------------------------- MODULE TtPnp -------------------------------
(***************************************************************************)
(* The life of the device between the plug-and-play manager and open       *)
(* handles (device.c): PrepareHardware finds the BARs, maps the driver's   *)
(* part of them and sets up the window table, ReleaseHardware unmaps, a    *)
(* surprise removal cuts the hardware off.  The handles hold windows, an   *)
(* aperture and a NOC write to be done when they close.                    *)
(*                                                                         *)
(* A stage of a handle says which register access comes next, after the    *)
(* test of Detached that allowed it.  Requests here are the ones served in *)
(* the caller's context, which the framework does not hold back when it    *)
(* stops the device's queue; they and cleanup hold the reset resource      *)
(* shared.  The power aggregate of an open and a close holds nothing.      *)
(***************************************************************************)
EXTENDS Naturals, FiniteSets, TtMapTokens

CONSTANTS
  File, NoFile, Kernel,
  BarLayout,        \* BAR lengths the device may be given when it starts
  BufSizes,         \* sizes of DMA buffers, and 0 for a slot without one
  Noc2AxiEnd,       \* TT_BH_NOC2AXI_CFG_START + TT_BH_NOC2AXI_CFG_LEN
  StopsWhileOpen    \* the system rebalances resources under open handles

ASSUME PnpAssumption ==
  /\ NoFile \notin File /\ Kernel \notin File /\ Kernel # NoFile
  /\ BarLayout \subseteq [Bars -> Nat]
  /\ BufSizes \subseteq Nat
  /\ Noc2AxiEnd \in Nat /\ StopsWhileOpen \in BOOLEAN
  /\ Tlb2mCount * TlbLen <= Noc2AxiEnd

VARIABLES
  pnp,          \* "stopped", "started", "stopping", "failed", "gone"
  mapped,       \* TlbRegs, KernelTlb, Noc2AxiCfg and Bar2Mapping are mapped
  barLength,    \* TT_DEVICE_CONTEXT.BarLength of BAR 0, 2 and 4
  tlb4gCount, tlbOwner, detached,
  handle,       \* "none", "open", "closing", "closed"
  stage,        \* the step a handle's open, request or cleanup is at
  nocCleanup,   \* TT_FILE_CONTEXT.NocCleanupEnabled
  aperture      \* handles with an outbound iATU region

vars == << pnp, mapped, barLength, tlb4gCount, tlbOwner, detached, handle, stage,
           nocCleanup, aperture >>
pnpVars == << pnp, mapped, barLength, detached >>
tlbVars == << tlb4gCount, tlbOwner >>
fileVars == << handle, stage >>
ownVars == << nocCleanup, aperture >>

NoBars == [b \in Bars |-> 0]
WindowPool == 0 .. Tlb2mCount + tlb4gCount - 1
Stage == { "idle", "request", "pin", "unpin", "exit", "noc", "memory", "teardown",
           "windows", "aggregate" }

(* Stages at which the reset resource is held shared.                      *)
Fenced == Stage \ { "idle", "aggregate" }

Init ==
  /\ pnp = "stopped" /\ mapped = FALSE /\ detached = FALSE
  /\ barLength = NoBars
  /\ tlb4gCount = 0
  /\ tlbOwner = [id \in 0 .. TlbTotal - 1 |-> NoFile]
  /\ handle = [f \in File |-> "none"]
  /\ stage = [f \in File |-> "idle"]
  /\ nocCleanup = {} /\ aperture = {}

GoTo(f, s) == stage' = [stage EXCEPT ![f] = s]

-----------------------------------------------------------------------------
(* TtMapBlackholeBars: the layout is checked before anything is mapped.     *)
LayoutExpected(layout) == layout[0] >= Noc2AxiEnd /\ layout[2] # 0

(* The window table of a start: cleared, the kernel's window claimed.      *)
InitialTlbTable ==
  [id \in 0 .. TlbTotal - 1 |-> IF id = KernelTlbIndex THEN Kernel ELSE NoFile]

(* TtEvtDevicePrepareHardware of a device with an expected layout.          *)
PrepareHardware(layout) ==
  /\ pnp = "stopped" /\ ~detached
  /\ LayoutExpected(layout)
  /\ pnp' = "started" /\ mapped' = TRUE
  /\ barLength' = layout
  /\ tlb4gCount' = IF layout[4] \div Tlb4gLen < Tlb4gMax
                   THEN layout[4] \div Tlb4gLen ELSE Tlb4gMax
  /\ tlbOwner' = InitialTlbTable
  /\ UNCHANGED << detached, fileVars, ownVars >>

(* Its failure: an unexpected layout, or a mapping refused and the ones
   before it undone.  The lengths it found stay.                           *)
PrepareHardwareFails(layout) ==
  /\ pnp = "stopped" /\ ~detached
  /\ pnp' = "failed" /\ mapped' = FALSE
  /\ barLength' = layout
  /\ UNCHANGED << detached, tlbVars, fileVars, ownVars >>

(* The framework powers the device down (TtEvtDeviceD0Exit) before it stops it
   or removes it in order; only a stop finds handles open.                 *)
PowerDown ==
  /\ pnp = "started"
  /\ \A f \in File : handle[f] \in { "open", "closing" } => StopsWhileOpen \/ detached
  /\ \A f \in File : stage[f] = "aggregate" => StopsWhileOpen \/ detached
  /\ pnp' = "stopping"
  /\ UNCHANGED << mapped, barLength, detached, tlbVars, fileVars, ownVars >>

(* TtEvtDeviceReleaseHardware.  It does not wait for the reset resource,
   touch Detached or the window table.                                     *)
ReleaseHardware ==
  /\ pnp \in { "stopping", "failed" }
  /\ mapped' = FALSE /\ barLength' = NoBars
  /\ pnp' = IF detached THEN "gone" ELSE "stopped"
  /\ UNCHANGED << detached, tlbVars, fileVars, ownVars >>

(* Mutant: the removal does not wait for the holders of the reset resource. *)
SurpriseRemovalUnfenced ==
  /\ ~detached /\ pnp # "gone"
  /\ detached' = TRUE
  /\ UNCHANGED << pnp, mapped, barLength, tlbVars, fileVars, ownVars >>

(* TtEvtDeviceSurpriseRemoval, the reset resource held exclusively.  The views
   it revokes are in TtMemory, the waiters it wakes in TtLocks.            *)
SurpriseRemoval ==
  /\ ~detached /\ pnp # "gone"
  /\ \A f \in File : stage[f] \notin Fenced
  /\ detached' = TRUE
  /\ UNCHANGED << pnp, mapped, barLength, tlbVars, fileVars, ownVars >>

-----------------------------------------------------------------------------
(* TtEvtDeviceFileCreate, up to the test of Detached in TtPowerAggregate; the
   device interface is enabled while the device is started.                *)
FileCreate(f) ==
  /\ handle[f] = "none"
  /\ pnp = "started"
  /\ handle' = [handle EXCEPT ![f] = "open"]
  /\ GoTo(f, IF detached THEN "idle" ELSE "aggregate")
  /\ UNCHANGED << pnpVars, tlbVars, ownVars >>

(* The ARC message of TtPowerAggregate, at open and at close.                *)
SendAggregate(f) ==
  /\ stage[f] = "aggregate"
  /\ GoTo(f, "idle")
  /\ handle' = [handle EXCEPT ![f] = IF @ = "closing" THEN "closed" ELSE @]
  /\ UNCHANGED << pnpVars, tlbVars, ownVars >>

(* A request served by the queue, which is stopped when the device is.  Of the
   gate only Detached matters here; the rest would refuse more.            *)
Queued(f) == handle[f] = "open" /\ stage[f] = "idle" /\ pnp = "started" /\ ~detached

(* TtIoctlSetNocCleanup.                                                    *)
SetNocCleanup(f, enabled) ==
  /\ Queued(f)
  /\ nocCleanup' = IF enabled THEN nocCleanup \cup { f } ELSE nocCleanup \ { f }
  /\ UNCHANGED << pnpVars, tlbVars, fileVars, aperture >>

(* Mutant: the scan runs one window past the pool.                         *)
AllocateTlbPastEnd(f, first, count) ==
  LET free == { id \in first .. first + count : id < TlbTotal /\ tlbOwner[id] = NoFile }
  IN  /\ Queued(f)
      /\ \E id \in free : /\ \A other \in free : id <= other
                          /\ tlbOwner' = [tlbOwner EXCEPT ![id] = f]
      /\ UNCHANGED << pnpVars, tlb4gCount, fileVars, ownVars >>

(* TtIoctlAllocateTlb: the first free window of the pool of the asked size.  The
   rollback of an answer that cannot be returned is in TtMemory.           *)
AllocateTlb(f, first, count) ==
  LET free == { id \in first .. first + count - 1 : tlbOwner[id] = NoFile }
  IN  /\ Queued(f)
      /\ \E id \in free : /\ \A other \in free : id <= other
                          /\ tlbOwner' = [tlbOwner EXCEPT ![id] = f]
      /\ UNCHANGED << pnpVars, tlb4gCount, fileVars, ownVars >>

(* TtIoctlFreeTlb of a window without views.                                *)
FreeTlb(f, id) ==
  /\ Queued(f)
  /\ tlbOwner[id] = f
  /\ tlbOwner' = [tlbOwner EXCEPT ![id] = NoFile]
  /\ UNCHANGED << pnpVars, tlb4gCount, fileVars, ownVars >>

(* TtEvtIoInCallerContext, up to the gate ...                               *)
CallerRequest(f) ==
  /\ handle[f] = "open" /\ stage[f] = "idle"
  /\ ~detached
  /\ GoTo(f, "request")
  /\ UNCHANGED << pnpVars, tlbVars, handle, ownVars >>

(* ... PIN_PAGES with NOC_DMA, UNPIN_PAGES of such a pin, or neither.       *)
CallerHandler(f) ==
  /\ stage[f] = "request"
  /\ \/ f \notin aperture /\ GoTo(f, "pin")
     \/ f \in aperture /\ GoTo(f, IF detached THEN "idle" ELSE "unpin")
     \/ GoTo(f, "idle")
  /\ UNCHANGED << pnpVars, tlbVars, handle, ownVars >>

(* TtProcessNotify for a handle of the exiting process, until the teardown.  *)
ProcessNotify(f) ==
  /\ handle[f] = "open" /\ stage[f] = "idle"
  /\ f \in aperture
  /\ ~detached
  /\ GoTo(f, "exit")
  /\ UNCHANGED << pnpVars, tlbVars, handle, ownVars >>

(* The register accesses of TtBhConfigureOutboundAtu.                        *)
ConfigureOutboundAtu(f) ==
  /\ stage[f] \in { "pin", "unpin", "exit" }
  /\ aperture' = IF stage[f] = "pin" THEN aperture \cup { f } ELSE aperture \ { f }
  /\ GoTo(f, "idle")
  /\ UNCHANGED << pnpVars, tlbVars, handle, nocCleanup >>

-----------------------------------------------------------------------------
(* TtEvtFileCleanup: the reset resource, and the test before the NOC write ... *)
FileCleanup(f) ==
  /\ handle[f] = "open" /\ stage[f] = "idle"
  /\ handle' = [handle EXCEPT ![f] = "closing"]
  /\ GoTo(f, IF f \in nocCleanup /\ ~detached THEN "noc" ELSE "memory")
  /\ UNCHANGED << pnpVars, tlbVars, ownVars >>

(* ... TtBhNocWrite through the kernel's window ...                         *)
NocWrite(f) ==
  /\ stage[f] = "noc"
  /\ GoTo(f, "memory")
  /\ UNCHANGED << pnpVars, tlbVars, handle, ownVars >>

(* ... TtMemoryFileCleanup: apertures, torn down unless detached, buffers ... *)
CleanupMemory(f) ==
  /\ stage[f] = "memory"
  /\ GoTo(f, IF f \in aperture /\ ~detached THEN "teardown" ELSE "windows")
  /\ UNCHANGED << pnpVars, tlbVars, handle, ownVars >>
CleanupTeardown(f) ==
  /\ stage[f] = "teardown"
  /\ GoTo(f, "windows")
  /\ UNCHANGED << pnpVars, tlbVars, handle, ownVars >>

(* ... the windows, and, the reset resource released, the power aggregate.  *)
CleanupWindows(f) ==
  /\ stage[f] = "windows"
  /\ tlbOwner' = [id \in 0 .. TlbTotal - 1 |-> IF tlbOwner[id] = f THEN NoFile ELSE tlbOwner[id]]
  /\ aperture' = aperture \ { f }
  /\ nocCleanup' = nocCleanup \ { f }
  /\ GoTo(f, IF detached THEN "idle" ELSE "aggregate")
  /\ handle' = [handle EXCEPT ![f] = IF detached THEN "closed" ELSE @]
  /\ UNCHANGED << pnpVars, tlb4gCount >>

Next ==
  \/ \E layout \in BarLayout : PrepareHardware(layout) \/ PrepareHardwareFails(layout)
  \/ PowerDown \/ ReleaseHardware \/ SurpriseRemoval
  \/ \E f \in File : FileCreate(f) \/ SendAggregate(f) \/ FileCleanup(f) \/ NocWrite(f)
                       \/ CleanupMemory(f) \/ CleanupTeardown(f) \/ CleanupWindows(f)
  \/ \E f \in File, b \in BOOLEAN : SetNocCleanup(f, b)
  \/ \E f \in File : AllocateTlb(f, 0, Tlb2mCount) \/ AllocateTlb(f, Tlb2mCount, tlb4gCount)
  \/ \E f \in File, id \in WindowPool : FreeTlb(f, id)
  \/ \E f \in File : CallerRequest(f) \/ CallerHandler(f) \/ ProcessNotify(f)
                       \/ ConfigureOutboundAtu(f)

Spec == Init /\ [][Next]_vars

-----------------------------------------------------------------------------
(* Every variable keeps its type.                                          *)
TypeOK ==
  /\ pnp \in { "stopped", "started", "stopping", "failed", "gone" }
  /\ mapped \in BOOLEAN /\ detached \in BOOLEAN
  /\ barLength \in [Bars -> Nat]
  /\ tlb4gCount \in 0 .. Tlb4gMax
  /\ tlbOwner \in [0 .. TlbTotal - 1 -> File \cup { NoFile, Kernel }]
  /\ handle \in [File -> { "none", "open", "closing", "closed" }]
  /\ stage \in [File -> Stage]
  /\ nocCleanup \subseteq File /\ aperture \subseteq File

(***************************************************************************)
(* The cut-off of a removal (device.c "mark detached", "for a stable       *)
(* snapshot"): an access to the registers that a request, the exit of a    *)
(* process or a cleanup makes under the reset resource finds the BARs      *)
(* mapped, although ReleaseHardware unmaps them without that lock: whoever *)
(* found the device attached is waited for by the removal.                 *)
(***************************************************************************)
FencedMmioIsMapped ==
  \A f \in File : stage[f] \in { "pin", "unpin", "exit", "noc", "teardown" } => mapped

(* What MAP of a handle makes of a token, its buffers being bufs.          *)
Slots == 0 .. MaxDmaBufs - 1
MapOf(f, bufs, token, length) == MapTarget(token, length, barLength, tlbOwner, bufs, f)
CacheOf(wc) == IF wc THEN WriteCombined ELSE Uncached

WindowTokensResolve(f, bufs) ==
  \A id \in 0 .. TlbTotal - 1, wc \in BOOLEAN : pnp = "started" /\ tlbOwner[id] = f =>
    LET w == TlbDescribe(id)
    IN  \A length \in ViewLengths(w.size) :
          MapOf(f, bufs, TlbToken(id, wc), length) =
            { Target("window", id, w.bar, w.offset, CacheOf(wc)) }

BarTokensResolve(f, bufs) ==
  \A bar \in Bars, wc \in BOOLEAN, at \in 0 .. ResourceSize - 1 :
    at % PageSize = 0 /\ at < barLength[bar] =>
      \A length \in ViewLengths(barLength[bar] - at) :
        MapOf(f, bufs, BarToken(bar, wc) + at, length) =
          { Target("bar", 0, bar, at, CacheOf(wc)) }

BufferTokensResolve(f, bufs) ==
  \A slot \in Slots : \A length \in ViewLengths(bufs[slot]) :
    MapOf(f, bufs, DmaToken(slot), length) = { Target("buffer", slot, 0, 0, Cached) }

(***************************************************************************)
(* Every token the driver gave out for an object the handle still has maps *)
(* to that object with its caching: windows of both sizes and buffers, in  *)
(* any whole number of pages that the object has and that is below 4 GiB   *)
(* (memory.c "BAR4 windows re-based"); the BARs that exist, likewise, and  *)
(* from any page of theirs that tt-umd adds to mapping_base (ioctl.c       *)
(* "MMAP_OFFSET_RESOURCE<n>_<UC/WC> tokens").  A whole 4G window or BAR4   *)
(* and an offset inside a window or a buffer are refused.                  *)
(***************************************************************************)
TokenRoundTrip ==
  \A f \in File, bufs \in [Slots -> BufSizes] :
    /\ WindowTokensResolve(f, bufs)
    /\ BarTokensResolve(f, bufs)
    /\ BufferTokensResolve(f, bufs)

(***************************************************************************)
(* Whatever number of the two window regions a client presents, and        *)
(* whatever length, its view touches windows of that handle only (memory.c *)
(* "Ownership enforced", "window not owned by this handle"), never the     *)
(* kernel's or another handle's, and ends before the BAR does.  It starts  *)
(* where the window of its number does, or, for the numbers between the    *)
(* last 2M window and Rebase, behind all windows of BAR0: such a number    *)
(* passes for that of a 4G window the handle owns.  The numbers of the BAR *)
(* regions are another matter: they are subject to no ownership, and a     *)
(* view of BAR0 or BAR4 covers whatever windows lie in its range.          *)
(***************************************************************************)
WindowTokensStayOwned ==
  \A f \in File, token \in 6 * ResourceSize .. 8 * ResourceSize - 1, length \in 1 .. MaxLength + 1 :
    \A t \in MapOf(f, [s \in Slots |-> 0], token, length) :
      /\ t.kind = "window" /\ t.offset + length <= barLength[t.bar]
      /\ \/ t.bar = TlbDescribe(t.id).bar /\ t.offset = TlbDescribe(t.id).offset
         \/ t.bar = 0 /\ t.offset >= Tlb2mCount * TlbLen
      /\ \A id \in 0 .. TlbTotal - 1 :
           LET w == TlbDescribe(id)
           IN  w.bar = t.bar /\ t.offset < w.offset + w.size /\ w.offset < t.offset + length
                 => tlbOwner[id] = f /\ id # KernelTlbIndex
=============================================================================
