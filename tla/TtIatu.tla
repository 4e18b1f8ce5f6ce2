------------------------------- MODULE TtIatu -------------------------------
(***************************************************************************)
(* The outbound iATU: TtIatuFindAndClaim, TtSetupNocDma, TtTeardownNocDma  *)
(* (memory.c) and the register writes of TtBhConfigureOutboundAtu          *)
(* (blackhole.c).  IatuLock is held from the search of a gap to the last   *)
(* register write, but the chip sees the writes one at a time while other  *)
(* apertures carry traffic, so each write that matters is a step.          *)
(*                                                                         *)
(* A size is a number of pages' worth of addresses: at least 2, so that    *)
(* Limit = 0, which TtBhConfigureOutboundAtu takes for "disable", is never *)
(* the limit of a claimed region, and far below its 1 TiB refusal.         *)
(***************************************************************************)
EXTENDS Naturals, FiniteSets

CONSTANTS
  Regions,       \* TT_IATU_REGIONS
  NocDmaLimit,   \* TT_BH_NOC_DMA_LIMIT, the last address of the NOC window
  Sizes,         \* sizes clients ask for
  Targets,       \* bus addresses of buffers and pinned pages
  NoTarget, NoWork

Region == 0 .. Regions - 1

VARIABLES
  used,      \* regions with Iatu[i].Used
  base, limit,
  hw,        \* the registers of each region
  lost,      \* claimed regions whose registers a chip reset has cleared
  work,      \* the configuration IatuLock is held for, and the writes left
  detached

vars == << used, base, limit, hw, lost, work, detached >>
table == << used, base, limit >>

(* Mutant: the region is enabled before its addresses are written.         *)
WritesEnableFirst == << "enable", "base", "target", "limit" >>

Writes == << "base", "target", "limit", "enable" >>
Registers == [base : Nat, limit : Nat, target : Targets \cup { NoTarget }, en : BOOLEAN]
Work == [region : Region, regs : Registers, next : 1 .. 4]

ASSUME IatuAssumption ==
  /\ Regions \in Nat /\ NocDmaLimit \in Nat
  /\ Sizes \subseteq Nat \ { 0, 1 }
  /\ NoTarget \notin Targets
  /\ NoWork \notin Work

Zero == [base |-> 0, limit |-> 0, target |-> NoTarget, en |-> FALSE]

Init ==
  /\ used = {}
  /\ base = [r \in Region |-> 0]
  /\ limit = [r \in Region |-> 0]
  /\ hw = [r \in Region |-> Zero]
  /\ lost = {}
  /\ work = NoWork
  /\ detached = FALSE

-----------------------------------------------------------------------------
(* A region of the given size can be placed at b.                          *)
Fits(b, size) ==
  /\ b + size <= NocDmaLimit + 1
  /\ \A r \in used : b + size <= base[r] \/ limit[r] < b

(* Mutant: the gap before the first region is never considered.            *)
GapStartsAboveOnly ==
  IF used = {} THEN { 0 } ELSE { limit[r] + 1 : r \in used }

(***************************************************************************)
(* TtIatuFindAndClaim walks the used regions in the order of their bases   *)
(* and stops at the first gap that is large enough: bottom-up, the lowest  *)
(* address that is 0 or just above a region, top-down, the highest that    *)
(* ends at the limit or just below a region.                               *)
(***************************************************************************)
GapStarts == { 0 } \cup { limit[r] + 1 : r \in used }
GapEnds == { NocDmaLimit } \cup { base[r] - 1 : r \in { q \in used : base[q] > 0 } }

FirstFit(topDown, size, b) ==
  /\ Fits(b, size)
  /\ IF topDown
     THEN /\ b + size - 1 \in GapEnds
          /\ \A e \in GapEnds : e + 1 >= size /\ Fits((e + 1) - size, size) => e <= b + size - 1
     ELSE /\ b \in GapStarts
          /\ \A c \in GapStarts : Fits(c, size) => b <= c

(***************************************************************************)
(* The search as it is written: one of two loops walks over the used       *)
(* regions in the order of their bases.  The insertion sort that puts them *)
(* in that order is abstracted to its result.                              *)
(***************************************************************************)
Sorted ==
  CHOOSE s \in [1 .. Cardinality(used) -> used] :
    \A i, j \in 1 .. Cardinality(used) : i < j => base[s[i]] < base[s[j]]

(* gapStart when i - 1 regions, and gapEnd when all but i, have been passed. *)
GapStart(i) == IF i = 1 THEN 0 ELSE limit[Sorted[i - 1]] + 1
GapEnd(i) == IF i = Cardinality(used) THEN NocDmaLimit ELSE base[Sorted[i + 1]] - 1

(* Mutant: the last address of the window is never used.                   *)
LoopBottomUpStrict(size) ==
  LET n == Cardinality(used)
      stop[i \in 1 .. n + 1] ==
        IF i <= n /\ ~(base[Sorted[i]] > GapStart(i) /\ base[Sorted[i]] - GapStart(i) >= size)
        THEN stop[i + 1] ELSE GapStart(i)
  IN  IF stop[1] + size > NocDmaLimit THEN {} ELSE { stop[1] }

(* The bottom-up loop: stop[i] is the gapStart it ends with from there.  The
   walk stops at the first region that leaves enough room below it.        *)
LoopBottomUp(size) ==
  LET n == Cardinality(used)
      stop[i \in 1 .. n + 1] ==
        IF i <= n /\ ~(base[Sorted[i]] > GapStart(i) /\ base[Sorted[i]] - GapStart(i) >= size)
        THEN stop[i + 1] ELSE GapStart(i)
  IN  IF (stop[1] + size) - 1 > NocDmaLimit THEN {} ELSE { stop[1] }

(* The top-down loop, from the last region; it gives up at a region that
   starts at 0 and, past the last one, when the rest is too small.         *)
LoopTopDown(size) ==
  LET walk[i \in 0 .. Cardinality(used)] ==
        IF i = 0
        THEN IF GapEnd(0) + 1 < size THEN {} ELSE { (GapEnd(0) - size) + 1 }
        ELSE IF GapEnd(i) >= limit[Sorted[i]] /\ GapEnd(i) - limit[Sorted[i]] >= size
             THEN { (GapEnd(i) - size) + 1 }
        ELSE IF base[Sorted[i]] = 0 THEN {} ELSE walk[i - 1]
  IN  walk[Cardinality(used)]

(* The lowest free slot of the table.                                      *)
FreeSlot(r) == r \in Region \ used /\ \A q \in Region \ used : r <= q

(* Mutant: the limit recorded in the table is one past the last address.   *)
SetupNocDmaLimitPastEnd(topDown, size, target) ==
  /\ work = NoWork
  /\ ~detached
  /\ \E r \in Region, b \in 0 .. NocDmaLimit :
       /\ FreeSlot(r)
       /\ FirstFit(topDown, size, b)
       /\ used' = used \cup { r }
       /\ base' = [base EXCEPT ![r] = b]
       /\ limit' = [limit EXCEPT ![r] = b + size]
       /\ work' = [region |-> r, next |-> 1,
                   regs |-> [base |-> b, limit |-> b + size - 1, target |-> target, en |-> TRUE]]
  /\ UNCHANGED << hw, lost, detached >>

(* TtSetupNocDma: claim a region, then program it.                         *)
SetupNocDma(topDown, size, target) ==
  /\ work = NoWork
  /\ ~detached
  /\ \E r \in Region, b \in 0 .. NocDmaLimit :
       /\ FreeSlot(r)
       /\ FirstFit(topDown, size, b)
       /\ used' = used \cup { r }
       /\ base' = [base EXCEPT ![r] = b]
       /\ limit' = [limit EXCEPT ![r] = b + size - 1]
       /\ work' = [region |-> r, next |-> 1,
                   regs |-> [base |-> b, limit |-> b + size - 1, target |-> target, en |-> TRUE]]
  /\ UNCHANGED << hw, lost, detached >>

(* Mutant: the register writes are skipped with the device present, too.   *)
TeardownTableOnly(r) ==
  /\ work = NoWork
  /\ ~detached
  /\ r \in used
  /\ used' = used \ { r }
  /\ lost' = lost \ { r }
  /\ UNCHANGED << base, limit, hw, work, detached >>

(* TtTeardownNocDma with the device present: write zeroes ...              *)
TeardownNocDma(r) ==
  /\ work = NoWork
  /\ ~detached
  /\ r \in used
  /\ work' = [region |-> r, regs |-> Zero, next |-> 1]
  /\ UNCHANGED << table, hw, lost, detached >>

ClearEntry(r) ==
  /\ used' = used \ { r }
  /\ lost' = lost \ { r }
  /\ base' = [base EXCEPT ![r] = 0]
  /\ limit' = [limit EXCEPT ![r] = 0]

(* ... and without it: only the table entry goes.                          *)
TeardownDetached(r) ==
  /\ work = NoWork
  /\ detached
  /\ r \in used
  /\ ClearEntry(r)
  /\ UNCHANGED << hw, work, detached >>

(* The registers old after the one write that reg names.                   *)
Written(old, w, reg) ==
  [base   |-> IF reg = "base" THEN w.base ELSE old.base,
   target |-> IF reg = "target" THEN w.target ELSE old.target,
   limit  |-> IF reg = "limit" THEN w.limit ELSE old.limit,
   en     |-> IF reg = "enable" THEN w.en ELSE old.en]

(***************************************************************************)
(* The next register write of TtBhConfigureOutboundAtu.  The enable bit is *)
(* last; the teardown then clears its table entry and IatuLock is dropped. *)
(***************************************************************************)
WriteRegister ==
  LET r == work.region
      w == work.regs
  IN  /\ work # NoWork
      /\ hw' = [hw EXCEPT ![r] = Written(hw[r], w, Writes[work.next])]
      /\ IF work.next < 4
         THEN /\ work' = [region |-> r, regs |-> w, next |-> work.next + 1]
              /\ UNCHANGED << table, lost >>
         ELSE /\ work' = NoWork
              /\ IF w.en THEN UNCHANGED << table, lost >> ELSE ClearEntry(r)
      /\ UNCHANGED detached

(* Surprise removal: requests hold the reset resource shared, so no
   configuration is under way.                                             *)
Detach ==
  /\ work = NoWork
  /\ detached' = TRUE
  /\ UNCHANGED << table, hw, lost, work >>

(***************************************************************************)
(* External: the chip is reset or loses power, at any time as far as       *)
(* IatuLock is concerned, and forgets its apertures.  The table is left    *)
(* alone: neither RESET_DEVICE nor POST_RESET nor D0 entry clears entries  *)
(* or programs regions again.                                              *)
(***************************************************************************)
ChipReset ==
  /\ hw' = [r \in Region |-> Zero]
  /\ lost' = used
  /\ UNCHANGED << table, work, detached >>

Next ==
  \/ \E topDown \in BOOLEAN, size \in Sizes, target \in Targets :
       SetupNocDma(topDown, size, target)
  \/ \E r \in Region : TeardownNocDma(r) \/ TeardownDetached(r)
  \/ WriteRegister
  \/ Detach
  \/ ChipReset

Spec == Init /\ [][Next]_vars

-----------------------------------------------------------------------------
(* Every variable keeps its type.                                          *)
TypeOK ==
  /\ used \subseteq Region
  /\ base \in [Region -> Nat]
  /\ limit \in [Region -> Nat]
  /\ hw \in [Region -> Registers]
  /\ lost \subseteq used
  /\ work \in Work \cup { NoWork }
  /\ detached \in BOOLEAN

(* No address belongs to two regions and none lies beyond the NOC window,
   however many bottom-up and top-down claims and teardowns there were: two
   clients never receive the same NOC address.                             *)
RegionsDisjoint ==
  /\ \A r \in used : base[r] < limit[r] /\ limit[r] <= NocDmaLimit
  /\ \A r, q \in used : r # q => limit[r] < base[q] \/ limit[q] < base[r]

(* First fit is complete: when any placement exists, both directions find one,
   so TtSetupNocDma refuses only a full table or a window without a gap.    *)
NoSpuriousRefusal ==
  \A size \in Sizes : (\E b \in 0 .. NocDmaLimit : Fits(b, size)) =>
    \A topDown \in BOOLEAN : \E b \in 0 .. NocDmaLimit : FirstFit(topDown, size, b)

(* On every reachable table and for every size the loops of TtIatuFindAndClaim
   return the address FirstFit describes, and -1 exactly when there is none. *)
LoopsAgree ==
  \A size \in Sizes :
    /\ LoopBottomUp(size) = { b \in 0 .. NocDmaLimit : FirstFit(FALSE, size, b) }
    /\ LoopTopDown(size) = { b \in 0 .. NocDmaLimit : FirstFit(TRUE, size, b) }

(* Whenever IatuLock is free and the device present, only claimed regions are
   enabled, so that no aperture is left programmed for a buffer or a pin that
   is gone, chip resets or not; and every claimed region is enabled over the
   claimed addresses unless the chip was reset since it was claimed.  (Then
   its NOC address is dead until it is torn down: nothing programs it again.) *)
HardwareMatchesTable ==
  work = NoWork /\ ~detached =>
    \A r \in Region :
      /\ hw[r].en => r \in used
      /\ r \in used \ lost => hw[r].en /\ hw[r].base = base[r] /\ hw[r].limit = limit[r]

(* The regions whose registers claim an address.                           *)
Claimants(a) == { r \in Region : hw[r].en /\ hw[r].base <= a /\ a <= hw[r].limit }

(* Programming a region never captures another client's traffic: while one is
   set up (or none is touched), every address of every other region that works
   is claimed in hardware by that region alone, among the regions no chip
   reset has hit.  (A set-up that a chip reset crosses is enabled with the base
   it had already written lost, and may cover others.)                      *)
SetupNeverCaptures ==
  ~detached /\ (work = NoWork \/ work.regs.en) =>
    \A r \in used \ lost : (work = NoWork \/ work.region # r) =>
      \A a \in base[r] .. limit[r] : Claimants(a) \ lost = { r }
=============================================================================
