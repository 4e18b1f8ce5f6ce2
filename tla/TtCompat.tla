------------------------------ MODULE TtCompat ------------------------------
(***************************************************************************)
(* The user-mode shim (ttwin_compat.c) between a client written for        *)
(* open/mmap/munmap/close and the driver.  The driver takes a view away    *)
(* when its handle closes, the client expects views to outlive tt_close:   *)
(* the shim keeps a list of views and closes the handle behind the last.   *)
(* The client is one thread and unmaps each view once; between two calls   *)
(* of the shim into the driver another process may reset the device.       *)
(* The driver is what MAP, UNMAP, handle cleanup and the reset zap of      *)
(* module TtMemory show the shim.                                          *)
(***************************************************************************)
EXTENDS Naturals, Sequences, SequencesExt, FiniteSets

CONSTANTS
  Handle,      \* tt_handle values, one per tt_open
  Addr,        \* addresses of the client's process
  Kind,        \* "device" (BAR, window) or "buffer" views
  NoCall,
  ReusesVa     \* addresses of revoked views are given out again

Call == [fn : { "mmap", "munmap" }, h : Handle, va : Addr]

ASSUME CompatAssumption ==
  /\ Kind \subseteq { "device", "buffer" }
  /\ NoCall \notin Call
  /\ ReusesVa \in BOOLEAN

VARIABLES
  dev,         \* struct tt_device: "none", "live", "freed"
  closed,      \* tt_device.closed
  views,       \* tt_device.views, newest first
  file,        \* driver handles that are open
  staleFiles,  \* driver handles a reset has invalidated
  driverViews, \* views of each handle on the driver's Mappings list
  held,        \* addresses the client may use: mapped, not unmapped, not revoked
  revoked,     \* addresses a reset took from it that it has not unmapped yet
  call         \* the call in progress between two requests to the driver

compatVars == << dev, closed, views, file, staleFiles, driverViews, held, revoked, call >>
clientVars == << held, revoked >>
shimVars == << dev, closed, views >>

View == [va : Addr, kind : Kind]

CompatInit ==
  /\ dev = [h \in Handle |-> "none"]
  /\ closed = {} /\ file = {} /\ staleFiles = {}
  /\ views = [h \in Handle |-> << >>]
  /\ driverViews = [h \in Handle |-> {}]
  /\ held = [h \in Handle |-> {}]
  /\ revoked = [h \in Handle |-> {}]
  /\ call = NoCall

(* tt_open; without memory for the tt_device it closes what it opened.      *)
Open(h) ==
  /\ call = NoCall
  /\ dev[h] = "none"
  /\ dev' = [dev EXCEPT ![h] = "live"]
  /\ file' = file \cup { h }
  /\ UNCHANGED << closed, views, staleFiles, driverViews, clientVars, call >>

(* Addresses in use in the process; the manager never gives one of those.   *)
InUse ==
  { v.va : v \in UNION { driverViews[h] : h \in Handle } }
    \cup (IF ReusesVa THEN {} ELSE UNION { revoked[h] : h \in Handle })

(* tt_mmap: MAP, which the driver serves for a handle that is not stale ... *)
MmapMap(h, v) ==
  /\ call = NoCall
  /\ dev[h] = "live" /\ h \notin closed
  /\ h \notin staleFiles
  /\ v.va \notin InUse
  /\ driverViews' = [driverViews EXCEPT ![h] = @ \cup { v }]
  /\ call' = [fn |-> "mmap", h |-> h, va |-> v.va]
  /\ UNCHANGED << shimVars, file, staleFiles, clientVars >>

(* ... then the list entry; the view may have been revoked in between ...   *)
MmapReturns ==
  LET h == call.h
      va == call.va
      mapped == \E v \in driverViews[h] : v.va = va
  IN  /\ call # NoCall /\ call.fn = "mmap"
      /\ views' = [views EXCEPT ![h] = << va >> \o @]
      /\ held' = [held EXCEPT ![h] = IF mapped THEN @ \cup { va } ELSE @]
      /\ revoked' = [revoked EXCEPT ![h] = IF mapped THEN @ ELSE @ \cup { va }]
      /\ call' = NoCall
      /\ UNCHANGED << dev, closed, file, staleFiles, driverViews >>

(* UNMAP, refused by the gate for a stale handle.                          *)
Unmapped(h, va) ==
  IF h \in staleFiles THEN driverViews[h] ELSE { v \in driverViews[h] : v.va # va }

(* ... or, without memory for it, a best-effort UNMAP.                     *)
MmapOom ==
  /\ call # NoCall /\ call.fn = "mmap"
  /\ driverViews' = [driverViews EXCEPT ![call.h] = Unmapped(call.h, call.va)]
  /\ call' = NoCall
  /\ UNCHANGED << shimVars, file, staleFiles, clientVars >>

(* Mutant: the handle is closed with views on the list.                    *)
MaybeFreeEagerly(h, closedNow, viewsNow) == h \in closedNow

(* tt_maybe_free: whether the handle is to be closed and the tt_device freed. *)
MaybeFree(h, closedNow, viewsNow) == h \in closedNow /\ viewsNow = << >>

(* CloseHandle runs the driver's cleanup, which takes every view away.       *)
CloseAndFree(h, mappedNow, frees) ==
  /\ dev' = IF frees THEN [dev EXCEPT ![h] = "freed"] ELSE dev
  /\ file' = IF frees THEN file \ { h } ELSE file
  /\ driverViews' = [driverViews EXCEPT ![h] = IF frees THEN {} ELSE mappedNow]

(* tt_munmap of an address the client got: the list entry goes first ...    *)
MunmapUnlink(h, va) ==
  /\ call = NoCall
  /\ va \in held[h] \cup revoked[h]
  /\ views' = [views EXCEPT ![h] = RemoveFirst(@, va)]
  /\ \/ /\ va \in held[h]
        /\ held' = [held EXCEPT ![h] = @ \ { va }]
        /\ UNCHANGED revoked
     \/ /\ va \in revoked[h]
        /\ revoked' = [revoked EXCEPT ![h] = @ \ { va }]
        /\ UNCHANGED held
  /\ call' = [fn |-> "munmap", h |-> h, va |-> va]
  /\ UNCHANGED << dev, closed, file, staleFiles, driverViews >>

(* Mutant: a refused UNMAP returns before the handle is looked after.      *)
MunmapUnmapReturnsEarly ==
  LET h == call.h
      now == Unmapped(h, call.va)
  IN  /\ call # NoCall /\ call.fn = "munmap"
      /\ CloseAndFree(h, now, now # driverViews[h] /\ MaybeFree(h, closed, views[h]))
      /\ call' = NoCall
      /\ UNCHANGED << closed, views, staleFiles, clientVars >>

(* ... then UNMAP, and tt_maybe_free whatever came of it.                   *)
MunmapUnmap ==
  LET h == call.h
  IN  /\ call # NoCall /\ call.fn = "munmap"
      /\ CloseAndFree(h, Unmapped(h, call.va), MaybeFree(h, closed, views[h]))
      /\ call' = NoCall
      /\ UNCHANGED << closed, views, staleFiles, clientVars >>

(* tt_close.                                                               *)
Close(h) ==
  /\ call = NoCall
  /\ dev[h] = "live" /\ h \notin closed
  /\ closed' = closed \cup { h }
  /\ CloseAndFree(h, driverViews[h], MaybeFree(h, closed', views[h]))
  /\ UNCHANGED << views, staleFiles, clientVars, call >>

(* TtResetZapMappings: device views are gone, buffer views stay.           *)
Zap ==
  LET zapped(h) == { v.va : v \in { w \in driverViews[h] : w.kind = "device" } }
  IN  /\ driverViews' = [h \in Handle |-> { v \in driverViews[h] : v.kind = "buffer" }]
      /\ held' = [h \in Handle |-> held[h] \ zapped(h)]
      /\ revoked' = [h \in Handle |-> revoked[h] \cup (held[h] \cap zapped(h))]

(* A reset, by one of these handles (tt_ioctl) or by another process (none of
   them), zaps and makes the other handles stale.                           *)
Reset(survivors) ==
  /\ call # NoCall => survivors = {}
  /\ survivors \subseteq file \ (staleFiles \cup closed)
  /\ Cardinality(survivors) <= 1
  /\ staleFiles' = file \ survivors
  /\ Zap
  /\ UNCHANGED << shimVars, file, call >>

(* RESET_PCIE_LINK zaps and leaves every handle as it is.                   *)
LinkReset == Zap /\ UNCHANGED << shimVars, file, staleFiles, call >>

CompatNext ==
  \/ \E h \in Handle : Open(h) \/ Close(h)
  \/ \E h \in Handle, v \in View : MmapMap(h, v)
  \/ MmapReturns \/ MmapOom
  \/ \E h \in Handle, va \in Addr : MunmapUnlink(h, va)
  \/ MunmapUnmap
  \/ \E survivors \in SUBSET Handle : Reset(survivors)
  \/ LinkReset

CompatSpec == CompatInit /\ [][CompatNext]_compatVars

-----------------------------------------------------------------------------
(***************************************************************************)
(* "mmap views survive tt_close" (ttwin_compat.h): while the client has an *)
(* address to use it is mapped, and while it has one to unmap the tt_device *)
(* it must pass to tt_munmap exists and its driver handle is open.         *)
(***************************************************************************)
ViewSurvivesClose ==
  \A h \in Handle :
    /\ \A va \in held[h] : \E v \in driverViews[h] : v.va = va
    /\ held[h] \cup revoked[h] # {} => dev[h] = "live" /\ h \in file

(***************************************************************************)
(* "until the last view for it is tt_munmap'd": when the client has closed *)
(* a handle and unmapped its views, whatever the driver answered, the      *)
(* handle is closed, the tt_device freed once, and no view is left of it,  *)
(* not even one whose UNMAP a reset made fail.                             *)
(***************************************************************************)
ClosedAndUnmappedIsFreed ==
  /\ \A h \in Handle :
       h \in closed /\ held[h] \cup revoked[h] = {} /\ call = NoCall
         => dev[h] = "freed" /\ h \notin file /\ driverViews[h] = {}
  /\ \A h \in Handle : h \in file <=> dev[h] = "live"

-----------------------------------------------------------------------------
(* The driver as this module has it, one process using it.                 *)
ServiceState ==
  [h \in Handle |-> CASE dev[h] = "none" -> "none" [] dev[h] = "live" -> "open"
                      [] dev[h] = "freed" -> "closed"]

UsedDriver ==
  INSTANCE ViewService WITH
    File <- Handle, Process <- { "client" }, NoProcess <- "nobody",
    state <- ServiceState,
    home <- [h \in Handle |-> IF dev[h] = "none" THEN "nobody" ELSE "client"],
    refused <- staleFiles \cap file, views <- driverViews

(* The driver below the shim keeps to ViewService, as TtMemory does.        *)
ShimReliesOnViews == UsedDriver!Spec
=============================================================================
