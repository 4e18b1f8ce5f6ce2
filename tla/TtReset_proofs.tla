--------------------------- MODULE TtReset_proofs ---------------------------
(***************************************************************************)
(* Proofs about the reset protocol of TtReset for any number of handles,   *)
(* any set of flavours and any number of resets.                           *)
(***************************************************************************)
EXTENDS TtReset, Integers, TLAPS

Chip == [parity: BOOLEAN, programmed: BOOLEAN, mps: {"negotiated", "default"},
         a0: BOOLEAN]
Saved == [valid: BOOLEAN, programmed: BOOLEAN, parity: BOOLEAN]

(***************************************************************************)
(* The operators on the chip keep its type, and say what they change.      *)
(***************************************************************************)
LEMMA ChipOperators ==
  ASSUME NEW c \in Chip, saved \in Saved, up \in BOOLEAN
  PROVE  /\ TtBhInitHardware(c) \in Chip
         /\ TtBhInitHardware(c).parity = c.parity
         /\ TtBhInitHardware(c).programmed = c.programmed
         /\ TtBhInitHardware(c).mps = c.mps
         /\ Answers(c) => TtBhInitHardware(c).a0
         /\ TtBhRestoreResetState(c) \in Chip
         /\ TtBhRestoreResetState(c).parity = c.parity
         /\ TtBhRestoreResetState(c).programmed = c.programmed
         /\ savedMps /\ Answers(c) => TtBhRestoreResetState(c).mps = "negotiated"
         /\ SetResetMarker(c) \in Chip
         /\ up => SetResetMarker(c).parity
         /\ Restored(c) \in Chip
         /\ Restored(c).parity = saved.parity
         /\ Restored(c).programmed = saved.programmed
         /\ TtPciSaveState(c) \in Saved
         /\ up => TtPciSaveState(c).programmed = c.programmed
  BY DEF Chip, Saved, TtBhInitHardware, TtBhRestoreResetState, SetResetMarker, Restored,
         TtPciSaveState

(* The common tail of RESTORE_STATE and POST_RESET, in the order of the code. *)
LEMMA ReinitialisedFacts ==
  ASSUME NEW c \in Chip, saved \in Saved, up \in BOOLEAN
  PROVE  /\ Reinitialised(c) \in Chip
         /\ Reinitialised(c).parity = saved.parity
         /\ Reinitialised(c).programmed = saved.programmed
         /\ Answers(Reinitialised(c)) => /\ Reinitialised(c).a0
                                         /\ savedMps => Reinitialised(c).mps = "negotiated"
<1> DEFINE r == Restored(c)
           m == TtBhRestoreResetState(r)
<1>1. r \in Chip /\ r.parity = saved.parity /\ r.programmed = saved.programmed
  BY ChipOperators
<1>2. /\ m \in Chip /\ m.parity = r.parity /\ m.programmed = r.programmed
      /\ savedMps /\ Answers(r) => m.mps = "negotiated"
  BY <1>1, ChipOperators
<1> HIDE DEF r, m
<1>3. /\ TtBhInitHardware(m) \in Chip
      /\ TtBhInitHardware(m).parity = m.parity
      /\ TtBhInitHardware(m).programmed = m.programmed
      /\ TtBhInitHardware(m).mps = m.mps
      /\ Answers(m) => TtBhInitHardware(m).a0
  BY <1>2, ChipOperators
<1>4. Reinitialised(c) = TtBhInitHardware(m)
  BY DEF Reinitialised, r, m
<1> QED  BY <1>1, <1>2, <1>3, <1>4 DEF Answers

(***************************************************************************)
(* What the safety properties rest on.                                     *)
(***************************************************************************)
ChipInv ==
  /\ chip \in Chip /\ saved \in Saved
  /\ up \in BOOLEAN /\ noc \in BOOLEAN /\ trigger \in BOOLEAN
  /\ savedMps \in BOOLEAN /\ needsHwInit \in BOOLEAN
  /\ blind \in BOOLEAN

(* A snapshot is taken of a chip whose BARs are assigned, unless the last
   resume took it of a dead link.                                          *)
SnapshotInv == ~blind => saved.programmed

(* As long as a reset that was asked for has not happened, its marker is in
   the chip, unless the link is down: then only a reset brings it back.    *)
MarkerInv == asked /\ ~done => ~up \/ chip.parity

(* The generation of an open handle is at most the device's, and that of a
   handle another one's reset has invalidated is behind for good.          *)
GenInv ==
  /\ resetGen \in Nat
  /\ \A f \in Open : openGen[f] \in 0..resetGen
  /\ killed \subseteq Open
  /\ \A f \in killed : openGen[f] < resetGen

(* The work item is queued, called and returned; while it is, it is the only
   one, and it has its own reference.                                      *)
PldrInv ==
  /\ pldr \in [queued: BOOLEAN, refs: Int,
               work: {"idle", "queued", "refused", "accepted", "done"}]
  /\ power \in {"D0", "D3", "stopped", "removed", "released"}
  /\ ~pldr.queued <=> pldr.work = "idle"
  /\ PldrReferences

ResetInv == ChipInv /\ SnapshotInv /\ MarkerInv /\ GenInv /\ PldrInv

(***************************************************************************)
(* The chip, the snapshot and the marker.                                  *)
(***************************************************************************)
LEMMA ChipStep ==
  ASSUME ChipInv, SnapshotInv, MarkerInv, [Next]_vars
  PROVE  (ChipInv /\ SnapshotInv /\ MarkerInv)'
<1> USE DEF ChipInv, SnapshotInv, MarkerInv
<1>1. ASSUME NEW f \in File, FileCreate(f) \/ FileCleanup(f) \/ ResetPcieLink(f)
               \/ Refused(f, "CONFIG_WRITE") \/ Refused(f, "ASIC_RESET")
      PROVE  (ChipInv /\ SnapshotInv /\ MarkerInv)'
  BY <1>1 DEF FileCreate, FileCleanup, ResetPcieLink, Refused, chipVars, ctxVars
<1>2. ASSUME NEW f \in File, RestoreState(f)
      PROVE  (ChipInv /\ SnapshotInv /\ MarkerInv)'
  <2>1. Reinitialised(chip) \in Chip /\ Restored(chip) \in Chip
          /\ Restored(chip).programmed = saved.programmed
    BY ReinitialisedFacts, ChipOperators
  <2>2. /\ TtPciSaveState(Restored(chip)) \in Saved
        /\ CanRestore => TtPciSaveState(Restored(chip)).programmed = saved.programmed
    BY <2>1, ChipOperators DEF CanRestore
  <2>3. CASE CanRestore
    <3>1. /\ chip' = Reinitialised(chip) /\ saved' = TtPciSaveState(Restored(chip))
          /\ ~asked'
          /\ UNCHANGED <<up, noc, trigger, savedMps, needsHwInit, blind>>
      BY <1>2, <2>3 DEF RestoreState
    <3>2. ChipInv' /\ MarkerInv'
      BY <2>1, <2>2, <3>1
    <3>3. SnapshotInv'
      BY <2>2, <2>3, <3>1
    <3> QED  BY <3>2, <3>3
  <2>4. CASE ~CanRestore
    BY <1>2, <2>4 DEF RestoreState
  <2> QED  BY <2>3, <2>4
<1>3. ASSUME NEW f \in File, ConfigWrite(f)
      PROVE  (ChipInv /\ SnapshotInv /\ MarkerInv)'
  BY <1>3 DEF ConfigWrite, ctxVars
<1>4. ASSUME NEW f \in File, UserReset(f) \/ AsicReset(f) \/ AsicDmcReset(f)
      PROVE  (ChipInv /\ SnapshotInv /\ MarkerInv)'
  <2>1. SetResetMarker(chip) \in Chip /\ (up => SetResetMarker(chip).parity)
    BY ChipOperators
  <2>2. Answers(chip) => up
    BY DEF Answers
  <2>3. Answers(chip) \in BOOLEAN
    BY DEF Answers
  <2>4. CASE UserReset(f)
    BY <2>4, <2>1 DEF UserReset
  <2>5. CASE AsicReset(f)
    <3>1. trigger' \in BOOLEAN
      BY <2>5 DEF AsicReset
    <3> QED  BY <2>5, <2>1, <3>1 DEF AsicReset
  <2>6. CASE AsicDmcReset(f)
    <3>1. trigger' \in BOOLEAN
      BY <2>6, <2>3 DEF AsicDmcReset
    <3> QED  BY <2>6, <2>1, <2>2, <2>3, <3>1 DEF AsicDmcReset
  <2> QED  BY <1>4, <2>4, <2>5, <2>6
<1>5. ASSUME NEW f \in File, PostReset(f)
      PROVE  (ChipInv /\ SnapshotInv /\ MarkerInv)'
  <2>1. Reinitialised(chip) \in Chip /\ Restored(chip) \in Chip
          /\ Restored(chip).programmed = saved.programmed
    BY ReinitialisedFacts, ChipOperators
  <2>2. /\ TtPciSaveState(Restored(chip)) \in Saved
        /\ CanRestore => TtPciSaveState(Restored(chip)).programmed = saved.programmed
    BY <2>1, ChipOperators DEF CanRestore
  <2>3. CASE needsHwInit /\ TtIsResetMarkerZero /\ CanRestore
    <3>1. /\ chip' = Reinitialised(chip) /\ saved' = TtPciSaveState(Restored(chip))
          /\ ~needsHwInit' /\ needsHwInit' \in BOOLEAN
          /\ UNCHANGED <<up, noc, trigger, savedMps, blind, asked, done>>
      BY <1>5, <2>3 DEF PostReset
    <3>2. ChipInv'
      BY <2>1, <2>2, <3>1
    <3>3. SnapshotInv'
      BY <2>2, <2>3, <3>1
    <3>4. MarkerInv'
      BY <2>3, <3>1 DEF TtIsResetMarkerZero, CanRestore
    <3> QED  BY <3>2, <3>3, <3>4
  <2>4. CASE ~(needsHwInit /\ TtIsResetMarkerZero /\ CanRestore)
    BY <1>5, <2>4 DEF PostReset
  <2> QED  BY <2>3, <2>4
<1>6. CASE Environment
  <2>1. CASE ChipResetBegins
    BY <2>1 DEF ChipResetBegins, ctxVars
  <2>2. CASE ChipResetEnds
    <3>1. Defaults \in Chip
      BY DEF Defaults, Chip
    <3> QED  BY <2>2, <3>1 DEF ChipResetEnds, ctxVars
  <2>3. CASE NocHangs
    BY <2>3 DEF NocHangs, ctxVars
  <2> QED  BY <1>6, <2>1, <2>2, <2>3 DEF Environment
<1>7. CASE PldrCalls \/ PldrReturns \/ SurpriseRemoval
  BY <1>7 DEF PldrCalls, PldrReturns, SurpriseRemoval, chipVars, ctxVars
<1>8. CASE D0Exit
  BY <1>8 DEF D0Exit, Chip, ctxVars
<1>9. CASE D0Entry
  <2>1. PICK lost \in BOOLEAN :
          LET found == IF lost THEN Defaults ELSE chip
              ready == IF up THEN [found EXCEPT !.programmed = TRUE] ELSE chip
          IN  /\ lost => up
              /\ chip' = TtBhInitHardware(ready)
              /\ saved' = TtPciSaveState(ready)
              /\ done' = (done \/ lost)
    BY <1>9 DEF D0Entry
  <2> DEFINE c == IF up THEN [(IF lost THEN Defaults ELSE chip) EXCEPT !.programmed = TRUE]
                        ELSE chip
  <2>2. c \in Chip /\ (up => c.programmed) /\ (~lost => c.parity = chip.parity)
    <3>1. Defaults \in Chip
      BY DEF Chip, Defaults
    <3>2. CASE up /\ lost
      BY <3>1, <3>2 DEF Chip
    <3>3. CASE up /\ ~lost
      BY <3>3 DEF Chip
    <3>4. CASE ~up
      BY <3>4
    <3> QED  BY <3>2, <3>3, <3>4
  <2>3. /\ chip' = TtBhInitHardware(c) /\ saved' = TtPciSaveState(c)
        /\ done' = (done \/ lost)
    BY <2>1
  <2> HIDE DEF c
  <2>4. /\ TtBhInitHardware(c) \in Chip /\ TtBhInitHardware(c).parity = c.parity
        /\ TtPciSaveState(c) \in Saved
        /\ up => TtPciSaveState(c).programmed = c.programmed
    BY <2>2, ChipOperators
  <2>5. blind' = ~up /\ up' = up
    BY <1>9 DEF D0Entry
  <2>6. UNCHANGED <<noc, trigger, savedMps, needsHwInit, asked>>
    BY <1>9 DEF D0Entry
  <2>7. ChipInv'
    BY <2>3, <2>4, <2>5, <2>6
  <2>8. SnapshotInv'
    BY <2>2, <2>3, <2>4, <2>5
  <2>9. MarkerInv'
    BY <2>2, <2>3, <2>4, <2>5, <2>6
  <2> QED  BY <2>7, <2>8, <2>9
<1>10. CASE ReleaseHardware
  BY <1>10 DEF ReleaseHardware, Saved, chipVars
<1>11. CASE UNCHANGED vars
  BY <1>11 DEF vars
<1> QED
  BY <1>1, <1>2, <1>3, <1>4, <1>5, <1>6, <1>7, <1>8, <1>9, <1>10, <1>11
  DEF Next, ResetDevice

(***************************************************************************)
(* Generations.                                                            *)
(***************************************************************************)
(* A reset leaves the handles it kills a generation behind, for good.      *)
LEMMA BumpStep ==
  ASSUME GenInv, NEW f \in Open, openGen[f] = resetGen, TtBumpResetGen(f)
  PROVE  GenInv'
<1>1. resetGen' \in Nat /\ resetGen' = resetGen + 1
  BY DEF GenInv, TtBumpResetGen
<1>2. DOMAIN openGen' = DOMAIN openGen
  BY DEF TtBumpResetGen
<1>3. \A g \in Open : openGen'[g] = IF g = f THEN resetGen + 1 ELSE openGen[g]
  BY DEF TtBumpResetGen, Open
<1>4. f \notin killed
  BY DEF GenInv
<1> QED  BY <1>1, <1>2, <1>3, <1>4 DEF GenInv, TtBumpResetGen, Open

(* Every step keeps killed handles behind the current generation.          *)
LEMMA GenStep == GenInv /\ [Next]_vars => GenInv'
<1> SUFFICES ASSUME GenInv, [Next]_vars PROVE GenInv'
  OBVIOUS
<1>1. ASSUME NEW f \in File, FileCreate(f) PROVE GenInv'
  BY <1>1 DEF FileCreate, GenInv, Open
<1>2. ASSUME NEW f \in File, FileCleanup(f) PROVE GenInv'
  BY <1>2 DEF FileCleanup, GenInv, Open
<1>3. ASSUME NEW f \in File, ConfigWrite(f) \/ UserReset(f) \/ AsicReset(f) \/ AsicDmcReset(f)
      PROVE  GenInv'
  <2>1. f \in Open /\ Gate(f, "RESET_DEVICE") = "SUCCESS" /\ TtBumpResetGen(f)
    BY <1>3 DEF ConfigWrite, UserReset, AsicReset, AsicDmcReset, Calls
  <2>2. openGen[f] = resetGen
    BY <2>1 DEF Gate, TtCheckIoGates
  <2> QED  BY <2>1, <2>2, BumpStep
<1>4. ASSUME NEW f \in File, RestoreState(f) \/ ResetPcieLink(f) \/ Refused(f, "CONFIG_WRITE")
                               \/ Refused(f, "ASIC_RESET") \/ PostReset(f)
      PROVE  GenInv'
  BY <1>4 DEF RestoreState, ResetPcieLink, Refused, PostReset, genVars, GenInv, Open
<1>5. CASE Environment \/ PldrCalls \/ PldrReturns
  BY <1>5 DEF Environment, ChipResetBegins, ChipResetEnds, NocHangs, PldrCalls, PldrReturns,
              genVars, GenInv, Open
<1>6. CASE D0Exit \/ D0Entry \/ SurpriseRemoval \/ ReleaseHardware
  BY <1>6 DEF D0Exit, D0Entry, SurpriseRemoval, ReleaseHardware, genVars, GenInv, Open
<1>7. CASE UNCHANGED vars
  BY <1>7 DEF vars, GenInv, Open
<1> QED  BY <1>1, <1>2, <1>3, <1>4, <1>5, <1>6, <1>7 DEF Next, ResetDevice

(***************************************************************************)
(* The platform-level reset.                                               *)
(***************************************************************************)
LEMMA PldrStep == PldrInv /\ [Next]_vars => PldrInv'
<1> SUFFICES ASSUME PldrInv, [Next]_vars PROVE PldrInv'
  OBVIOUS
<1> USE DEF PldrInv, PldrReferences
<1>1. ASSUME NEW f \in File, FileCreate(f) \/ FileCleanup(f) \/ RestoreState(f) \/ PostReset(f)
               \/ Refused(f, "CONFIG_WRITE") \/ Refused(f, "ASIC_RESET")
      PROVE  PldrInv'
  BY <1>1 DEF FileCreate, FileCleanup, RestoreState, PostReset, Refused
<1>2. ASSUME NEW f \in File, ConfigWrite(f) \/ UserReset(f) \/ AsicReset(f) \/ AsicDmcReset(f)
      PROVE  PldrInv'
  BY <1>2 DEF ConfigWrite, UserReset, AsicReset, AsicDmcReset
<1>3. ASSUME NEW f \in File, ResetPcieLink(f) PROVE PldrInv'
  <2>1. power = "D0" /\ power' = power
    BY <1>3 DEF ResetPcieLink, Calls
  <2>2. CASE PldrSupported /\ ~pldr.queued
    BY <1>3, <2>1, <2>2 DEF ResetPcieLink
  <2>3. CASE ~(PldrSupported /\ ~pldr.queued)
    BY <1>3, <2>1, <2>3 DEF ResetPcieLink
  <2> QED  BY <2>2, <2>3
<1>4. CASE Environment
  BY <1>4 DEF Environment, ChipResetBegins, ChipResetEnds, NocHangs
<1>5. CASE PldrCalls
  BY <1>5 DEF PldrCalls
<1>6. CASE PldrReturns
  <2>1. CASE pldr.work = "refused"
    BY <1>6, <2>1 DEF PldrReturns
  <2>2. CASE pldr.work = "accepted"
    <3>1. pldr' = [pldr EXCEPT !.work = "done", !.refs = pldr.refs - 1] /\ power' = power
      BY <1>6, <2>2 DEF PldrReturns
    <3>2. pldr.refs - 1 \in Int
      OBVIOUS
    <3>3. pldr' = [queued |-> pldr.queued, refs |-> pldr.refs - 1, work |-> "done"]
      BY <3>1
    <3>4. pldr.queued /\ power' = power
      BY <2>2, <3>1
    <3>5. pldr'.queued /\ pldr'.work = "done" /\ pldr'.refs = pldr.refs - 1
      BY <3>3, <3>4
    <3>6. pldr' \in [queued: BOOLEAN, refs: Int,
                    work: {"idle", "queued", "refused", "accepted", "done"}]
      BY <3>2, <3>3
    <3> QED  BY <2>2, <3>4, <3>5, <3>6
  <2> QED  BY <1>6, <2>1, <2>2 DEF PldrReturns
<1>7. CASE D0Exit \/ D0Entry \/ SurpriseRemoval
  BY <1>7 DEF D0Exit, D0Entry, SurpriseRemoval
<1>8. CASE ReleaseHardware
  BY <1>8 DEF ReleaseHardware
<1>9. CASE UNCHANGED vars
  BY <1>9 DEF vars
<1> QED
  BY <1>1, <1>2, <1>3, <1>4, <1>5, <1>6, <1>7, <1>8, <1>9 DEF Next, ResetDevice

-----------------------------------------------------------------------------
(* The invariant holds at the start.                                        *)
LEMMA ResetInit == Init => ResetInv
<1> SUFFICES ASSUME Init PROVE ResetInv
  OBVIOUS
<1>1. PICK parity \in BOOLEAN :
        chip = TtBhInitHardware([Defaults EXCEPT !.parity = parity, !.programmed = TRUE,
                                                 !.mps = "negotiated"])
  BY DEF Init
<1>2. chip \in Chip /\ chip.programmed
  BY <1>1 DEF Chip, Defaults, TtBhInitHardware
<1>3. saved \in Saved /\ saved.programmed
  BY <1>2 DEF Init, TtPciSaveState, Saved, Chip
<1>4. ChipInv /\ SnapshotInv /\ MarkerInv
  BY <1>2, <1>3 DEF Init, ChipInv, SnapshotInv, MarkerInv
<1>5. GenInv
  BY DEF Init, GenInv, Open
<1>6. PldrInv
  BY DEF Init, PldrInv, PldrReferences
<1> QED  BY <1>4, <1>5, <1>6 DEF ResetInv

(* The invariant holds in every state of every behaviour.                   *)
LEMMA ResetInvariant == Spec => []ResetInv
<1>1. ResetInv /\ [Next]_vars => ResetInv'
  BY ChipStep, GenStep, PldrStep DEF ResetInv
<1> QED  BY ResetInit, <1>1, PTL DEF Spec

(***************************************************************************)
(* A handle open at another handle's reset is refused for the rest of its  *)
(* life, for any number of handles and resets (TtBumpResetGen against      *)
(* TtCheckIoGates).                                                        *)
(***************************************************************************)
THEOREM StaleForGood == Spec => []OthersStayDead
<1>1. ResetInv => OthersStayDead
  BY DEF ResetInv, GenInv, OthersStayDead, Gate, TtCheckIoGates
<1> QED  BY ResetInvariant, <1>1, PTL

(***************************************************************************)
(* The references to the platform-reset interface are those of the work    *)
(* item and of the context, in every order of the work item, removal and   *)
(* ReleaseHardware (TtPldrInitiate, TtPldrWorkItem).                       *)
(***************************************************************************)
THEOREM ReferencesAreCounted == Spec => []PldrReferences
<1>1. ResetInv => PldrReferences
  BY DEF ResetInv, PldrInv
<1> QED  BY ResetInvariant, <1>1, PTL

(***************************************************************************)
(* A POST_RESET that closes the window with success has restored the BARs, *)
(* unless the last resume saved the state of a dead link, and, if firmware *)
(* answers, initialised the chip and its payload size                      *)
(* (TtSafeRestoreState, TtBhRestoreResetState, TtBhInitHardware).          *)
(***************************************************************************)
THEOREM ClosingRestores == Spec => WindowClosedRestored
<1>1. ASSUME ResetInv, NEW f \in File, PostReset(f), needsHwInit, ok'
      PROVE  /\ ~blind => chip'.programmed
             /\ Answers(chip') => /\ chip'.a0
                                  /\ savedMps => chip'.mps = "negotiated"
  <2>1. chip' = Reinitialised(chip)
    BY <1>1 DEF PostReset
  <2> QED  BY <1>1, <2>1, ReinitialisedFacts DEF ResetInv, ChipInv, SnapshotInv
<1>2. ResetInv /\ [Next]_vars =>
        [\A f \in File : PostReset(f) /\ needsHwInit /\ ok'
           => /\ ~blind => chip'.programmed
              /\ Answers(chip') => /\ chip'.a0
                                   /\ savedMps => chip'.mps = "negotiated"]_vars
  BY <1>1
<1> QED  BY ResetInvariant, <1>2, PTL DEF Spec, WindowClosedRestored

(***************************************************************************)
(* The missing marker proves the reset: after a reset that reported        *)
(* success, POST_RESET succeeds only if the chip was reset since, in every *)
(* order of suspends, link losses and other flavours (TtIsResetMarkerZero). *)
(***************************************************************************)
THEOREM MarkerProvesReset == Spec => ResetProven
<1>1. ASSUME ResetInv, NEW f \in File, PostReset(f), ok'
      PROVE  asked => done
  BY <1>1 DEF ResetInv, MarkerInv, ChipInv, PostReset, TtIsResetMarkerZero
<1>2. ResetInv /\ [Next]_vars => [\A f \in File : PostReset(f) /\ ok' => (asked => done)]_vars
  BY <1>1
<1> QED  BY ResetInvariant, <1>2, PTL DEF Spec, ResetProven
=============================================================================
