------------------------------ MODULE TtReset ------------------------------
(***************************************************************************)
(* RESET_DEVICE and everything that may happen around it (reset.c,         *)
(* TtBhReset and TtBhInitHardware of blackhole.c, the D0 and removal       *)
(* callbacks of device.c).                                                 *)
(*                                                                         *)
(* A reset is a conversation of several calls.  A client starts one        *)
(* (USER_RESET, ASIC_RESET, ASIC_DMC_RESET); the driver leaves a marker,   *)
(* the parity bit of PCI_COMMAND, in the chip's own configuration space    *)
(* and closes the device for ordinary requests (NeedsHwInit); the chip     *)
(* resets by itself some time later, which drops its link for a while and  *)
(* returns the configuration space to defaults, marker included; a client  *)
(* calls POST_RESET, which takes the missing marker for proof of the       *)
(* reset, rewrites the saved configuration and initialises the chip.       *)
(*                                                                         *)
(* Handlers run with the reset resource held exclusive and the queue       *)
(* stopped across power transitions, so each is one step; what interleaves *)
(* with them is the chip, the power and PnP callbacks, the handles and the *)
(* work item of the platform-level reset (PLDR).                           *)
(***************************************************************************)
EXTENDS TtGates, Naturals, FiniteSets

CONSTANTS
  File,           \* handles
  Flags,          \* the flavours of RESET_DEVICE the clients use
  PldrSupported,  \* pci.sys offers PlatformLevelDeviceReset
  MaxGen          \* bound on the reset generation

ASSUME ResetAssumption ==
  /\ Flags \subseteq { "RESTORE_STATE", "RESET_PCIE_LINK", "CONFIG_WRITE",
                       "USER_RESET", "ASIC_RESET", "ASIC_DMC_RESET",
                       "POST_RESET" }
  /\ PldrSupported \in BOOLEAN
  /\ MaxGen \in Nat

VARIABLES
  simulated,   \* all-zero subsystem ID: the ttsim model, not silicon
  chip,        \* what the reset protocol can observe or lose of the chip
  up,          \* the link answers; a dead link reads all-ones
  noc,         \* firmware behind the NOC answers ARC messages
  trigger,     \* a chip reset was asked for and has not begun
  saved,       \* SavedHeaderDword of the context, SavedStateValid
  savedMps,    \* SavedMpsValid of the context
  needsHwInit, \* NeedsHwInit of the context
  resetGen,    \* ResetGen of the context
  openGen,     \* OpenResetGen of each open handle
  power,       \* "D0", "D3", "stopped" in order, "removed" (Detached) or
               \* "released" after a removal
  pldr,        \* PldrQueued, the work item, references to the interface
  ok,          \* the result the last RESET_DEVICE reported
  asked,       \* history: the last reset of flavour 3, 4 or 5 reported ok, and
               \* its marker has not been rewritten by RESTORE_STATE
  done,        \* history: the chip has been reset since that call
  blind,       \* history: the last resume saved the state of a dead link
  killed       \* history: handles another handle's reset has invalidated

chipVars == <<chip, up, noc, trigger>>
ctxVars  == <<saved, savedMps, needsHwInit, blind>>
genVars  == <<resetGen, openGen, killed>>
vars == <<simulated, chip, up, noc, trigger, saved, savedMps, needsHwInit,
          resetGen, openGen, power, pldr, ok, asked, done, blind, killed>>

Open == DOMAIN openGen

-----------------------------------------------------------------------------
(* The chip.                                                               *)

(* Memory requests reach it once the BARs decode; ARC messages need the    *)
(* firmware as well.                                                       *)
Answers(c) == up /\ noc /\ c.programmed

(* Configuration space after a chip reset: no marker, no BARs, the         *)
(* power-on payload size, and firmware that was told nothing.              *)
Defaults ==
  [parity |-> FALSE, programmed |-> FALSE, mps |-> "default", a0 |-> FALSE]

TtBhInitHardware(c) ==
  IF Answers(c) THEN [c EXCEPT !.a0 = TRUE] ELSE c

TtBhRestoreResetState(c) ==
  IF savedMps /\ Answers(c) THEN [c EXCEPT !.mps = "negotiated"] ELSE c

(* TtSetResetMarker and TtBhSetResetMarker: a read-modify-write that a     *)
(* dead link swallows.                                                     *)
SetResetMarker(c) == IF up THEN [c EXCEPT !.parity = TRUE] ELSE c

(* Plausible slip: a read that fails counts as a cleared marker.           *)
MarkerZeroOnFailedRead == ~up \/ ~chip.parity

TtIsResetMarkerZero == up /\ ~chip.parity

(* A dead link reads all-ones: the marker bit set and no address anybody   *)
(* assigned.  The driver does not look at what it reads.                   *)
TtPciSaveState(c) ==
  [valid |-> TRUE, programmed |-> up /\ c.programmed, parity |-> up => c.parity]

(* TtSafeRestoreState: refused when the vendor ID does not read back or    *)
(* nothing was saved; the saved command register is written last, marker   *)
(* bit and all, and the outcome is saved again.                            *)
CanRestore == up /\ saved.valid
Restored(c) ==
  [c EXCEPT !.programmed = saved.programmed, !.parity = saved.parity]

(* Plausible slip: the payload size is written before the BARs decode.     *)
ReinitialisedPayloadFirst(c) ==
  TtBhInitHardware(Restored(TtBhRestoreResetState(c)))

(* The common tail of RESTORE_STATE and POST_RESET.                        *)
Reinitialised(c) == TtBhInitHardware(TtBhRestoreResetState(Restored(c)))

-----------------------------------------------------------------------------
(* PrepareHardware has run: BARs assigned, hardware initialised, state     *)
(* saved.  Configuration space outlives the driver, so a marker that an    *)
(* earlier instance left is still there and enters the snapshot.           *)
Init ==
  /\ simulated \in BOOLEAN
  /\ up = TRUE
  /\ noc \in BOOLEAN
  /\ \E parity \in BOOLEAN :
        chip = TtBhInitHardware([Defaults EXCEPT !.parity = parity,
                                                 !.programmed = TRUE,
                                                 !.mps = "negotiated"])
  /\ saved = TtPciSaveState(chip)
  /\ savedMps = noc
  /\ trigger = FALSE
  /\ needsHwInit = FALSE
  /\ resetGen = 0
  /\ openGen = << >>
  /\ power = "D0"
  /\ pldr = [queued |-> FALSE, work |-> "idle", refs |-> 1]
  /\ ok = FALSE
  /\ asked = FALSE
  /\ done = FALSE
  /\ blind = FALSE
  /\ killed = {}

(* Open does not look at Detached; the new handle gets the current         *)
(* generation.                                                             *)
FileCreate(f) ==
  /\ f \notin Open
  /\ power \notin {"stopped", "released"}
  /\ openGen' = [g \in Open \cup {f} |-> IF g = f THEN resetGen ELSE openGen[g]]
  /\ UNCHANGED <<simulated, chipVars, ctxVars, resetGen, power, pldr, ok,
                 asked, done, killed>>

FileCleanup(f) ==
  /\ f \in Open
  /\ openGen' = [g \in Open \ {f} |-> openGen[g]]
  /\ killed' = killed \ {f}
  /\ UNCHANGED <<simulated, chipVars, ctxVars, resetGen, power, pldr, ok,
                 asked, done>>

Gate(f, nr) ==
  TtCheckIoGates(power \in {"removed", "released"},
                 openGen[f] # resetGen, needsHwInit, nr)

(* RESET_DEVICE of one flavour passes the queue, the resource and the gate. *)
Calls(f, flag) ==
  /\ flag \in Flags
  /\ power = "D0"
  /\ f \in Open
  /\ Gate(f, "RESET_DEVICE") = "SUCCESS"

(* Plausible slip: every handle is carried forward.                        *)
TtBumpResetGenForAll(f) ==
  /\ resetGen < MaxGen
  /\ resetGen' = resetGen + 1
  /\ openGen' = [g \in Open |-> resetGen + 1]
  /\ killed' = killed \cup (Open \ {f})

(* TtBumpResetGen: every handle but the resetter's falls behind.           *)
TtBumpResetGen(f) ==
  /\ resetGen < MaxGen
  /\ resetGen' = resetGen + 1
  /\ openGen' = [openGen EXCEPT ![f] = resetGen + 1]
  /\ killed' = killed \cup (Open \ {f})

-----------------------------------------------------------------------------
(* The seven flavours.                                                     *)

RestoreState(f) ==
  /\ Calls(f, "RESTORE_STATE")
  /\ ok' = CanRestore
  /\ chip' = IF CanRestore THEN Reinitialised(chip) ELSE chip
  /\ saved' = IF CanRestore THEN TtPciSaveState(Restored(chip)) ELSE saved
  /\ asked' = (asked /\ ~CanRestore)
  /\ UNCHANGED <<simulated, up, noc, trigger, savedMps, needsHwInit, blind, genVars,
                 power, pldr, done>>

(* Plausible slip: the work item borrows the context's reference.          *)
ResetPcieLinkBorrows(f) ==
  /\ Calls(f, "RESET_PCIE_LINK")
  /\ ok' = PldrSupported
  /\ pldr' = IF PldrSupported /\ ~pldr.queued
               THEN [queued |-> TRUE, work |-> "queued", refs |-> pldr.refs]
               ELSE pldr
  /\ UNCHANGED <<simulated, chipVars, ctxVars, genVars, power, asked, done>>

(* TtPldrInitiate: a second call while one is in flight reports success    *)
(* and queues nothing; the first takes the work item's own reference.      *)
ResetPcieLink(f) ==
  /\ Calls(f, "RESET_PCIE_LINK")
  /\ ok' = PldrSupported
  /\ pldr' = IF PldrSupported /\ ~pldr.queued
               THEN [queued |-> TRUE, work |-> "queued", refs |-> pldr.refs + 1]
               ELSE pldr
  /\ UNCHANGED <<simulated, chipVars, ctxVars, genVars, power, asked, done>>

Refused(f, flag) ==
  /\ Calls(f, flag)
  /\ ~simulated
  /\ ok' = FALSE
  /\ UNCHANGED <<simulated, chipVars, ctxVars, genVars, power, pldr, asked,
                 done>>

ConfigWrite(f) ==
  /\ Calls(f, "CONFIG_WRITE")
  /\ simulated
  /\ TtBumpResetGen(f)
  /\ trigger' = (trigger \/ up)
  /\ ok' = TRUE
  /\ UNCHANGED <<simulated, chip, up, noc, ctxVars, power, pldr, asked, done>>

(* The client resets the chip by means of its own after this.              *)
UserReset(f) ==
  /\ Calls(f, "USER_RESET")
  /\ TtBumpResetGen(f)
  /\ chip' = SetResetMarker(chip)
  /\ trigger' = TRUE
  /\ needsHwInit' = TRUE
  /\ ok' = TRUE
  /\ asked' = TRUE
  /\ done' = FALSE
  /\ UNCHANGED <<simulated, up, noc, saved, savedMps, blind, power, pldr>>

AsicReset(f) ==
  /\ Calls(f, "ASIC_RESET")
  /\ simulated
  /\ TtBumpResetGen(f)
  /\ chip' = SetResetMarker(chip)
  /\ trigger' = (trigger \/ up)
  /\ needsHwInit' = TRUE
  /\ ok' = TRUE
  /\ asked' = TRUE
  /\ done' = FALSE
  /\ UNCHANGED <<simulated, up, noc, saved, savedMps, blind, power, pldr>>

(* TEST first: a firmware that does not answer gets neither a marker nor a *)
(* trigger, but the device is closed for ordinary requests all the same.   *)
AsicDmcReset(f) ==
  /\ Calls(f, "ASIC_DMC_RESET")
  /\ TtBumpResetGen(f)
  /\ chip' = IF Answers(chip) THEN SetResetMarker(chip) ELSE chip
  /\ trigger' = (trigger \/ Answers(chip))
  /\ needsHwInit' = TRUE
  /\ ok' = Answers(chip)
  /\ asked' = Answers(chip)
  /\ done' = FALSE
  /\ UNCHANGED <<simulated, up, noc, saved, savedMps, blind, power, pldr>>

(* NeedsHwInit is cleared whatever the outcome; outside the window the     *)
(* marker alone decides the result and nothing is restored.                *)
PostReset(f) ==
  LET restores == needsHwInit /\ TtIsResetMarkerZero /\ CanRestore
  IN /\ Calls(f, "POST_RESET")
     /\ ok' = IF needsHwInit THEN restores ELSE TtIsResetMarkerZero
     /\ chip' = IF restores THEN Reinitialised(chip) ELSE chip
     /\ saved' = IF restores THEN TtPciSaveState(Restored(chip)) ELSE saved
     /\ needsHwInit' = FALSE
     /\ UNCHANGED <<simulated, up, noc, trigger, savedMps, blind, genVars,
                    power, pldr, asked, done>>

-----------------------------------------------------------------------------
(* The chip's own steps.  A reset that was triggered begins at any time    *)
(* and takes the link down; it may never end.                              *)
ChipResetBegins ==
  /\ trigger
  /\ trigger' = FALSE
  /\ up' = FALSE
  /\ UNCHANGED <<simulated, chip, noc, ctxVars, genVars, power, pldr, ok,
                 asked, done>>

ChipResetEnds ==
  /\ ~up
  /\ up' = TRUE
  /\ noc' = TRUE
  /\ chip' = Defaults
  /\ done' = TRUE
  /\ UNCHANGED <<simulated, trigger, ctxVars, genVars, power, pldr, ok, asked>>

NocHangs ==
  /\ noc
  /\ noc' = FALSE
  /\ UNCHANGED <<simulated, chip, up, trigger, ctxVars, genVars, power, pldr,
                 ok, asked, done>>

-----------------------------------------------------------------------------
(* TtPldrWorkItem.  pci.sys refuses, or accepts and tears the stack down   *)
(* while the work item is still in its call.                               *)
PldrCalls ==
  /\ pldr.work = "queued"
  /\ \E status \in {"refused", "accepted"} :
        pldr' = [pldr EXCEPT !.work = status]
  /\ UNCHANGED <<simulated, chipVars, ctxVars, genVars, power, ok, asked,
                 done>>

(* Plausible slip: a refusal leaves PldrQueued set.                        *)
PldrReturnsStillQueued ==
  /\ pldr.work \in {"refused", "accepted"}
  /\ pldr' = [pldr EXCEPT !.refs = pldr.refs - 1,
                          !.work = IF pldr.work = "refused" THEN "idle" ELSE "done"]
  /\ UNCHANGED <<simulated, chipVars, ctxVars, genVars, power, ok, asked,
                 done>>

PldrReturns ==
  /\ pldr.work \in {"refused", "accepted"}
  /\ pldr' = IF pldr.work = "refused"
               THEN [queued |-> FALSE, work |-> "idle", refs |-> pldr.refs - 1]
               ELSE [pldr EXCEPT !.work = "done", !.refs = pldr.refs - 1]
  /\ UNCHANGED <<simulated, chipVars, ctxVars, genVars, power, ok, asked,
                 done>>

-----------------------------------------------------------------------------
(* Power and PnP.                                                          *)

D0Exit ==
  /\ power = "D0"
  /\ power' = "D3"
  /\ chip' = IF Answers(chip) THEN [chip EXCEPT !.a0 = FALSE] ELSE chip
  /\ UNCHANGED <<simulated, up, noc, trigger, ctxVars, genVars, pldr, ok,
                 asked, done>>

(* The driver initialises the hardware and saves the state it finds,       *)
(* whatever the link does.  The slot may or may not have lost power; pci.sys *)
(* has assigned the BARs of a chip that answers.                           *)
D0Entry ==
  /\ power = "D3"
  /\ power' = "D0"
  /\ \E lost \in BOOLEAN :
        LET found == IF lost THEN Defaults ELSE chip
            ready == IF up THEN [found EXCEPT !.programmed = TRUE] ELSE chip
        IN /\ lost => up
           /\ chip' = TtBhInitHardware(ready)
           /\ saved' = TtPciSaveState(ready)
           /\ done' = (done \/ lost)
  /\ blind' = ~up
  /\ UNCHANGED <<simulated, up, noc, trigger, savedMps, needsHwInit, genVars,
                 pldr, ok, asked>>

(* Of a device that is stopped there is nothing left to release.           *)
SurpriseRemoval ==
  /\ power \in {"D0", "D3", "stopped"}
  /\ power' = IF power = "stopped" THEN "released" ELSE "removed"
  /\ UNCHANGED <<simulated, chipVars, ctxVars, genVars, pldr, ok, asked, done>>

(* After a removal, or after the power-down of an orderly stop, which does *)
(* not set Detached.  The start that may follow is Init again.             *)
ReleaseHardware ==
  /\ power \in {"D3", "removed"}
  /\ power' = IF power = "D3" THEN "stopped" ELSE "released"
  /\ saved' = [saved EXCEPT !.valid = FALSE]
  /\ savedMps' = FALSE
  /\ pldr' = [pldr EXCEPT !.refs = pldr.refs - 1]
  /\ UNCHANGED <<simulated, chipVars, needsHwInit, blind, genVars, ok, asked,
                 done>>

-----------------------------------------------------------------------------
ResetDevice(f) ==
  \/ RestoreState(f)
  \/ ResetPcieLink(f)
  \/ Refused(f, "CONFIG_WRITE")
  \/ Refused(f, "ASIC_RESET")
  \/ ConfigWrite(f)
  \/ UserReset(f)
  \/ AsicReset(f)
  \/ AsicDmcReset(f)
  \/ PostReset(f)

Environment == ChipResetBegins \/ ChipResetEnds \/ NocHangs

Next ==
  \/ \E f \in File : FileCreate(f) \/ FileCleanup(f) \/ ResetDevice(f)
  \/ Environment
  \/ PldrCalls \/ PldrReturns
  \/ D0Exit \/ D0Entry \/ SurpriseRemoval \/ ReleaseHardware

Spec == Init /\ [][Next]_vars

(* The work item runs on a system worker thread, and a stack pci.sys has   *)
(* agreed to reset is surprise-removed.                                    *)
Fairness ==
  /\ WF_vars(PldrCalls)
  /\ WF_vars(PldrReturns)
  /\ WF_vars(pldr.work \in {"accepted", "done"} /\ SurpriseRemoval)

FairSpec == Spec /\ Fairness
-----------------------------------------------------------------------------
TypeOK ==
  /\ simulated \in BOOLEAN
  /\ chip \in [parity: BOOLEAN, programmed: BOOLEAN,
               mps: {"negotiated", "default"}, a0: BOOLEAN]
  /\ up \in BOOLEAN /\ noc \in BOOLEAN /\ trigger \in BOOLEAN
  /\ saved \in [valid: BOOLEAN, programmed: BOOLEAN, parity: BOOLEAN]
  /\ savedMps \in BOOLEAN /\ needsHwInit \in BOOLEAN
  /\ resetGen \in 0..MaxGen
  /\ Open \subseteq File
  /\ \A f \in Open : openGen[f] \in 0..resetGen
  /\ power \in {"D0", "D3", "stopped", "removed", "released"}
  /\ pldr \in [queued: BOOLEAN, refs: 0..2,
               work: {"idle", "queued", "refused", "accepted", "done"}]
  /\ ok \in BOOLEAN /\ asked \in BOOLEAN /\ done \in BOOLEAN
  /\ blind \in BOOLEAN
  /\ killed \subseteq Open

(* A handle that was open when another handle reset the device is refused  *)
(* every operation for the rest of its life, whatever resets and re-opens  *)
(* follow (TtBumpResetGen against TtCheckIoGates).                         *)
OthersStayDead ==
  \A f \in killed : Gate(f, "RESET_DEVICE") # "SUCCESS"

(* The work item of RESET_PCIE_LINK calls through its snapshot only while  *)
(* it holds a reference of its own, ReleaseHardware running first or not,  *)
(* and no reference is left once both are through (TtPldrInitiate,         *)
(* TtPldrWorkItem, TtEvtDeviceReleaseHardware).                            *)
PldrReferences ==
  pldr.refs = (IF pldr.work \in {"idle", "done"} THEN 0 ELSE 1)
              + (IF power \in {"stopped", "released"} THEN 0 ELSE 1)

(* A POST_RESET that closes the window and reports success leaves the      *)
(* chip's BARs programmed and, if firmware answers, the chip initialised   *)
(* and its payload size back at the negotiated value, in whatever order    *)
(* resets, suspends and legacy flavours came before it.  A resume while    *)
(* the link is down has replaced the snapshot by all-ones: then the BARs   *)
(* are gone, and only what needs no snapshot is claimed.                   *)
WindowClosedRestored ==
  [][\A f \in File :
       PostReset(f) /\ needsHwInit /\ ok'
         => /\ ~blind => chip'.programmed
            /\ Answers(chip') => /\ chip'.a0
                                 /\ savedMps => chip'.mps = "negotiated"]_vars

(* "Parity bit cleared proves the chip's config space was reset": after a  *)
(* reset that reported success, POST_RESET reports success only if the     *)
(* chip has really been reset since (a successful RESTORE_STATE in between *)
(* writes the saved command register over the marker and voids the proof). *)
ResetProven ==
  [][\A f \in File : PostReset(f) /\ ok' => (asked => done)]_vars

(* Whenever POST_RESET reports success the resetter can use the device     *)
(* again: its BARs decode.                                                 *)
PostResetMeansUsable ==
  [][\A f \in File : PostReset(f) /\ ok' => chip'.programmed]_vars

(* A RESET_PCIE_LINK that was queued is refused by the platform, so that   *)
(* it can be asked for again, or the device is stopped or goes away.       *)
PldrSettles ==
  pldr.queued ~> (~pldr.queued \/ power \in {"stopped", "removed", "released"})

=============================================================================
