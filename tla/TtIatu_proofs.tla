--------------------------- MODULE TtIatu_proofs ---------------------------
(***************************************************************************)
(* The outbound iATU for any number of regions, any window and any sizes:  *)
(* claimed regions stay disjoint and inside the window, the registers      *)
(* agree with the table whenever IatuLock is free, except for what a chip  *)
(* reset has cleared, and programming one region never captures traffic of *)
(* another.                                                                *)
(***************************************************************************)
EXTENDS TtIatu, Integers, FiniteSetTheorems, WellFoundedInduction, TLAPS

(* What is true of the configuration IatuLock is held for: a region being set
   up is disabled until its last write, and what is written is what the table
   says, unless a chip reset has cleared it since.                         *)
WorkInv ==
  work # NoWork =>
    /\ ~detached
    /\ work.region \in used
    /\ ~work.regs.en => work.regs = Zero
    /\ work.regs.en =>
         /\ ~hw[work.region].en
         /\ work.regs.base = base[work.region]
         /\ work.regs.limit = limit[work.region]
         /\ work.region \notin lost =>
              /\ work.next > 1 => hw[work.region].base = base[work.region]
              /\ work.next > 3 => hw[work.region].limit = limit[work.region]

(* The registers of every region that is not being configured.             *)
SettledInv ==
  ~detached =>
    \A r \in Region : (work = NoWork \/ work.region # r) =>
      /\ hw[r].en => r \in used
      /\ r \in used \ lost => hw[r].en /\ hw[r].base = base[r] /\ hw[r].limit = limit[r]

IatuInv == TypeOK /\ RegionsDisjoint /\ WorkInv /\ SettledInv

(* The tables start empty and well typed.                                  *)
LEMMA TypeInit == Init => TypeOK
<1> SUFFICES ASSUME Init PROVE TypeOK
  OBVIOUS
<1>1. hw \in [Region -> Registers]
  BY DEF Init, Zero, Registers
<1> QED
  BY <1>1 DEF Init, TypeOK

(* Every step keeps the types.                                             *)
LEMMA TypeStep == TypeOK /\ [Next]_vars => TypeOK'
<1> SUFFICES ASSUME TypeOK, [Next]_vars PROVE TypeOK'
  OBVIOUS
<1> USE IatuAssumption DEF TypeOK
<1>1. ASSUME NEW d \in BOOLEAN, NEW size \in Sizes, NEW a \in Targets, SetupNocDma(d, size, a)
      PROVE TypeOK'
  <2>1. PICK r \in Region, b \in 0 .. NocDmaLimit :
          /\ used' = used \cup { r }
          /\ base' = [base EXCEPT ![r] = b]
          /\ limit' = [limit EXCEPT ![r] = b + size - 1]
          /\ work' = [region |-> r, next |-> 1,
                regs |-> [base |-> b, limit |-> b + size - 1, target |-> a, en |-> TRUE]]
    BY <1>1 DEF SetupNocDma
  <2>2. b \in Nat /\ b + size - 1 \in Nat
    OBVIOUS
  <2>3. work' \in Work
    BY <2>1, <2>2 DEF Work, Registers
  <2> QED
    BY <1>1, <2>1, <2>2, <2>3 DEF SetupNocDma
<1>2. ASSUME NEW r \in Region, TeardownNocDma(r) PROVE TypeOK'
  <2>1. work' \in Work
    BY <1>2 DEF TeardownNocDma, Work, Registers, Zero
  <2> QED
    BY <1>2, <2>1 DEF TeardownNocDma, table
<1>3. ASSUME NEW r \in Region, TeardownDetached(r) PROVE TypeOK'
  BY <1>3 DEF TeardownDetached, ClearEntry
<1>4. CASE WriteRegister
  <2>1. work \in Work
    BY <1>4 DEF WriteRegister
  <2>2. work.region \in Region /\ work.regs \in Registers /\ work.next \in 1 .. 4
    BY <2>1 DEF Work
  <2>3. hw' \in [Region -> Registers]
    BY <1>4, <2>2 DEF WriteRegister, Written, Writes, Registers
  <2>4. work' \in Work \cup { NoWork }
    BY <1>4, <2>1, <2>2 DEF WriteRegister, Work
  <2>5. /\ used' \subseteq Region /\ lost' \subseteq used'
        /\ base' \in [Region -> Nat] /\ limit' \in [Region -> Nat]
    BY <1>4 DEF WriteRegister, ClearEntry, table
  <2> QED
    BY <1>4, <2>3, <2>4, <2>5 DEF WriteRegister
<1>5. CASE Detach
  BY <1>5 DEF Detach, table
<1>6. CASE UNCHANGED vars
  BY <1>6 DEF vars
<1>7. CASE ChipReset
  BY <1>7 DEF ChipReset, table, Zero, Registers
<1> QED
  BY <1>1, <1>2, <1>3, <1>4, <1>5, <1>6, <1>7 DEF Next

(* A claim that fits is disjoint from every other region.                  *)
LEMMA DisjointStep ==
  TypeOK /\ RegionsDisjoint /\ [Next]_vars => RegionsDisjoint'
<1> SUFFICES ASSUME TypeOK, RegionsDisjoint, [Next]_vars PROVE RegionsDisjoint'
  OBVIOUS
<1> USE IatuAssumption DEF TypeOK, RegionsDisjoint
<1>1. ASSUME NEW d \in BOOLEAN, NEW size \in Sizes, NEW a \in Targets, SetupNocDma(d, size, a)
      PROVE RegionsDisjoint'
  <2>1. PICK r \in Region, b \in 0 .. NocDmaLimit :
          /\ Fits(b, size)
          /\ r \notin used
          /\ used' = used \cup { r }
          /\ base' = [base EXCEPT ![r] = b]
          /\ limit' = [limit EXCEPT ![r] = b + size - 1]
    BY <1>1 DEF SetupNocDma, FirstFit, FreeSlot
  <2>2. base'[r] = b /\ limit'[r] = b + size - 1
    BY <2>1
  <2>3. \A q \in used : q \in Region /\ q # r /\ base'[q] = base[q] /\ limit'[q] = limit[q]
    BY <2>1
  <2>4. size \in Nat /\ size >= 2 /\ b \in Nat
    OBVIOUS
  <2>5. \A q \in used : limit'[r] < base[q] \/ limit[q] < base'[r]
    BY <2>1, <2>2, <2>3, <2>4 DEF Fits
  <2>6. base'[r] < limit'[r] /\ limit'[r] <= NocDmaLimit
    BY <2>1, <2>2, <2>4 DEF Fits
  <2> QED
    BY <2>1, <2>3, <2>5, <2>6
<1>2. ASSUME NEW r \in Region, ClearEntry(r) PROVE RegionsDisjoint'
  BY <1>2 DEF ClearEntry
<1>3. ASSUME UNCHANGED table PROVE RegionsDisjoint'
  BY <1>3 DEF table
<1>4. ASSUME NEW r \in Region, TeardownNocDma(r) PROVE RegionsDisjoint'
  BY <1>3, <1>4 DEF TeardownNocDma
<1>5. ASSUME NEW r \in Region, TeardownDetached(r) PROVE RegionsDisjoint'
  BY <1>2, <1>5 DEF TeardownDetached
<1>6. CASE WriteRegister
  <2>1. work.region \in Region
    BY <1>6 DEF WriteRegister, Work
  <2> QED
    BY <1>2, <1>3, <1>6, <2>1 DEF WriteRegister
<1>7. CASE Detach
  BY <1>3, <1>7 DEF Detach
<1>8. CASE UNCHANGED vars
  BY <1>3, <1>8 DEF vars, table
<1>9. CASE ChipReset
  BY <1>3, <1>9 DEF ChipReset
<1> QED
  BY <1>1, <1>4, <1>5, <1>6, <1>7, <1>8, <1>9 DEF Next

(* The registers follow the table through every configuration.             *)
LEMMA HardwareStep ==
  IatuInv /\ [Next]_vars => WorkInv' /\ SettledInv'
<1> SUFFICES ASSUME IatuInv, [Next]_vars PROVE WorkInv' /\ SettledInv'
  OBVIOUS
<1> USE IatuAssumption DEF IatuInv, TypeOK
<1>1. ASSUME NEW d \in BOOLEAN, NEW size \in Sizes, NEW a \in Targets, SetupNocDma(d, size, a)
      PROVE WorkInv' /\ SettledInv'
  <2>1. PICK r \in Region, b \in 0 .. NocDmaLimit :
          /\ r \notin used
          /\ used' = used \cup { r }
          /\ base' = [base EXCEPT ![r] = b]
          /\ limit' = [limit EXCEPT ![r] = b + size - 1]
          /\ work' = [region |-> r, next |-> 1,
                regs |-> [base |-> b, limit |-> b + size - 1, target |-> a, en |-> TRUE]]
    BY <1>1 DEF SetupNocDma, FreeSlot
  <2>2. hw' = hw /\ lost' = lost /\ ~detached /\ ~detached' /\ work = NoWork
    BY <1>1 DEF SetupNocDma
  <2>3. ~hw[r].en
    BY <2>1, <2>2 DEF SettledInv
  <2>4. WorkInv'
    BY <2>1, <2>2, <2>3 DEF WorkInv
  <2>5. work'.region = r /\ work' \in Work
    BY <2>1 DEF Work, Registers
  <2>6. ASSUME NEW q \in Region, q # r
        PROVE  /\ hw'[q] = hw[q] /\ base'[q] = base[q] /\ limit'[q] = limit[q]
               /\ q \in used' <=> q \in used
               /\ q \in lost' <=> q \in lost
    BY <2>1, <2>2, <2>6
  <2>7. SettledInv'
    <3>1. work' # NoWork
      BY <2>5
    <3> SUFFICES ASSUME NEW q \in Region, q # r
                 PROVE  /\ hw'[q].en => q \in used'
                        /\ q \in used' \ lost' =>
                             hw'[q].en /\ hw'[q].base = base'[q] /\ hw'[q].limit = limit'[q]
      BY <2>5, <3>1 DEF SettledInv
    <3>2. /\ hw[q].en => q \in used
          /\ q \in used \ lost => hw[q].en /\ hw[q].base = base[q] /\ hw[q].limit = limit[q]
      BY <2>2 DEF SettledInv
    <3> QED
      BY <2>6, <3>2
  <2> QED
    BY <2>4, <2>7
<1>2. ASSUME NEW r \in Region, TeardownNocDma(r) PROVE WorkInv' /\ SettledInv'
  BY <1>2 DEF TeardownNocDma, table, WorkInv, SettledInv, Zero
<1>3. ASSUME NEW r \in Region, TeardownDetached(r) PROVE WorkInv' /\ SettledInv'
  BY <1>3 DEF TeardownDetached, ClearEntry, WorkInv, SettledInv
<1>4. CASE WriteRegister
  <2> DEFINE r == work.region
  <2>1. work \in Work /\ work # NoWork
    BY <1>4 DEF WriteRegister
  <2>2. r \in Region /\ work.regs \in Registers /\ work.next \in 1 .. 4
    BY <2>1 DEF Work
  <2>3. \A q \in Region : q # r => hw'[q] = hw[q]
    BY <1>4, <2>2 DEF WriteRegister
  <2>4. ~detached /\ detached' = detached /\ r \in used
    BY <1>4, <2>1 DEF WriteRegister, WorkInv
  <2>5. CASE work.next < 4
    <3>1. UNCHANGED << table, lost >> /\ work' = [region |-> r, regs |-> work.regs, next |-> work.next + 1]
      BY <1>4, <2>5 DEF WriteRegister
    <3>2. work'.region = r /\ work'.regs = work.regs /\ work'.next = work.next + 1
      BY <2>1, <2>2, <3>1 DEF Work
    <3>3. hw'[r].en = hw[r].en
      BY <1>4, <2>2, <2>5 DEF WriteRegister, Written, Writes, Registers
    <3>4. /\ work.next = 1 => hw'[r].base = work.regs.base
          /\ work.next # 1 => hw'[r].base = hw[r].base
          /\ work.next = 3 => hw'[r].limit = work.regs.limit
          /\ work.next # 3 => hw'[r].limit = hw[r].limit
      BY <1>4, <2>2, <2>5 DEF WriteRegister, Written, Writes, Registers
    <3>5. WorkInv'
      BY <2>1, <2>2, <2>4, <3>1, <3>2, <3>3, <3>4 DEF WorkInv, table
    <3>6. used' = used /\ lost' = lost /\ base' = base /\ limit' = limit
      BY <3>1 DEF table
    <3>7. work' # NoWork
      BY <2>1, <2>2, <2>5, <3>1 DEF Work
    <3>8. SettledInv'
      BY <2>1, <2>3, <2>4, <3>2, <3>6, <3>7 DEF SettledInv
    <3> QED
      BY <3>5, <3>8
  <2>6. CASE work.next = 4
    <3>1. work' = NoWork
      BY <1>4, <2>6 DEF WriteRegister
    <3>2. /\ hw'[r].en = work.regs.en
          /\ hw'[r].base = hw[r].base /\ hw'[r].limit = hw[r].limit
      BY <1>4, <2>2, <2>6 DEF WriteRegister, Written, Writes, Registers
    <3>3. CASE work.regs.en
      <4>1. UNCHANGED << table, lost >>
        BY <1>4, <2>6, <3>3 DEF WriteRegister
      <4>2. r \notin lost => hw[r].base = base[r] /\ hw[r].limit = limit[r]
        BY <2>1, <2>6, <3>3 DEF WorkInv
      <4> QED
        BY <2>1, <2>3, <2>4, <3>1, <3>2, <3>3, <4>1, <4>2 DEF WorkInv, SettledInv, table
    <3>4. CASE ~work.regs.en
      <4>1. ClearEntry(r)
        BY <1>4, <2>6, <3>4 DEF WriteRegister
      <4> QED
        BY <2>1, <2>2, <2>3, <2>4, <3>1, <3>2, <3>4, <4>1
           DEF WorkInv, SettledInv, ClearEntry
    <3> QED
      BY <3>3, <3>4
  <2> QED
    BY <2>2, <2>5, <2>6
<1>5. CASE Detach
  BY <1>5 DEF Detach, table, WorkInv, SettledInv
<1>6. CASE UNCHANGED vars
  BY <1>6 DEF vars, WorkInv, SettledInv
<1>7. CASE ChipReset
  BY <1>7 DEF ChipReset, table, WorkInv, SettledInv, Zero
<1> QED
  BY <1>1, <1>2, <1>3, <1>4, <1>5, <1>6, <1>7 DEF Next

(* The invariant holds throughout.                                         *)
LEMMA IatuInvariant == Spec => []IatuInv
<1>1. Init => IatuInv
  <2> SUFFICES ASSUME Init PROVE IatuInv
    OBVIOUS
  <2>1. TypeOK
    BY TypeInit
  <2>2. RegionsDisjoint /\ WorkInv
    BY DEF Init, RegionsDisjoint, WorkInv
  <2>3. SettledInv
    BY DEF Init, SettledInv, Zero
  <2> QED
    BY <2>1, <2>2, <2>3 DEF IatuInv
<1>2. IatuInv /\ [Next]_vars => IatuInv'
  BY TypeStep, DisjointStep, HardwareStep DEF IatuInv
<1> QED
  BY <1>1, <1>2, PTL DEF Spec

(* Every reachable state is well typed.                                    *)
THEOREM IatuTypeCorrect == Spec => []TypeOK
BY IatuInvariant, PTL DEF IatuInv

(* The allocator of memory.c never hands out an address twice or one outside
   the NOC window, whatever mixture of bottom-up and top-down claims,
   failures and teardowns led to the table.                                *)
THEOREM ClaimsAreDisjoint == Spec => []RegionsDisjoint
BY IatuInvariant, PTL DEF IatuInv

(* When IatuLock is free, every enabled aperture is a claimed one, and every
   claimed one that no chip reset has cleared is enabled as the table says.  *)
THEOREM AperturesFollowTable == Spec => []HardwareMatchesTable
<1>1. IatuInv => HardwareMatchesTable
  BY DEF IatuInv, SettledInv, HardwareMatchesTable
<1> QED
  BY <1>1, IatuInvariant, PTL

(* Setting up an aperture never diverts an address of another one, although the
   chip observes the register writes one by one.                           *)
THEOREM SetupIsIsolated == Spec => []SetupNeverCaptures
<1>1. IatuInv => SetupNeverCaptures
  <2> SUFFICES ASSUME IatuInv, ~detached, work = NoWork \/ work.regs.en,
                      NEW r \in used \ lost, work = NoWork \/ work.region # r,
                      NEW a \in base[r] .. limit[r]
               PROVE Claimants(a) \ lost = { r }
    BY DEF SetupNeverCaptures
  <2> USE IatuAssumption DEF IatuInv, TypeOK
  <2>1. r \in Claimants(a)
    BY DEF Claimants, SettledInv, RegionsDisjoint
  <2>2. ASSUME NEW q \in Claimants(a) \ lost PROVE q = r
    <3>1. q \in Region /\ hw[q].en /\ hw[q].base <= a /\ a <= hw[q].limit
      BY <2>2 DEF Claimants
    <3>2. work = NoWork \/ work.region # q
      BY <3>1 DEF WorkInv
    <3>3. q \in used /\ hw[q].base = base[q] /\ hw[q].limit = limit[q]
      BY <3>1, <3>2 DEF SettledInv
    <3> QED
      BY <3>1, <3>3 DEF RegionsDisjoint
  <2> QED
    BY <2>1, <2>2
<1> QED
  BY <1>1, IatuInvariant, PTL

-----------------------------------------------------------------------------
(***************************************************************************)
(* First fit is complete.                                                  *)
(***************************************************************************)

(* The least-number principle for sets, from the well-foundedness of <.    *)
LEMMA LeastOf ==
  ASSUME NEW S \in SUBSET Nat, S # {}
  PROVE  \E m \in S : \A k \in S : m <= k
<1>1. PICK R : R = OpToRel(<, Nat)
  OBVIOUS
<1>2. IsWellFoundedOn(R, Nat)
  BY <1>1, NatLessThanWellFounded
<1>3. PICK m \in S : \A k \in S : ~(<<k, m>> \in R)
  BY <1>2, WFMin
<1>4. \A x, y \in Nat : x < y => <<x, y>> \in R
  BY <1>1 DEF OpToRel
<1>5. \A k \in S : k \in Nat /\ m \in Nat /\ ~(k < m)
  BY <1>3, <1>4
<1>6. \A k \in S : m <= k
  BY <1>5
<1> QED  BY <1>6

(* A bounded set of numbers has a greatest one.                            *)
LEMMA GreatestOf ==
  ASSUME NEW S \in SUBSET Nat, S # {}, NEW n \in Nat, \A k \in S : k <= n
  PROVE  \E m \in S : \A k \in S : k <= m
<1>1. PICK D : D = { n - k : k \in S }
  OBVIOUS
<1>2. D \in SUBSET Nat /\ D # {}
  <2>1. ASSUME NEW k \in S PROVE n - k \in Nat
    OBVIOUS
  <2>2. D \subseteq Nat
    BY <1>1, <2>1
  <2>3. PICK k : k \in S
    OBVIOUS
  <2>4. n - k \in D
    BY <1>1, <2>3
  <2> QED  BY <2>2, <2>4
<1>3. PICK d \in D : \A e \in D : d <= e
  BY <1>2, LeastOf
<1>4. PICK m \in S : d = n - m
  BY <1>1
<1>5. ASSUME NEW k \in S PROVE k <= m
  <2>1. d <= n - k
    BY <1>1, <1>3
  <2> QED  BY <1>4, <2>1
<1> QED  BY <1>5

(* Sliding a placement down to the end of the region below it, the lowest
   address that is tried has a gap: bottom-up finds one.                   *)
LEMMA BottomUpFinds ==
  ASSUME TypeOK, NEW size \in Sizes, NEW b \in 0 .. NocDmaLimit, Fits(b, size)
  PROVE  \E c \in 0 .. NocDmaLimit : FirstFit(FALSE, size, c)
<1>0. /\ NocDmaLimit \in Nat /\ size \in Nat /\ size >= 2
      /\ \A r \in used : base[r] \in Nat /\ limit[r] \in Nat
  BY IatuAssumption DEF TypeOK
<1>1. PICK G : G = GapStarts
  OBVIOUS
<1>2. 0 \in G /\ G \in SUBSET Nat /\ \A r \in used : limit[r] + 1 \in G
  BY <1>0, <1>1 DEF GapStarts
<1>3. PICK g \in { h \in G : h <= b } : \A h \in { i \in G : i <= b } : h <= g
  <2>1. PICK S : S = { h \in G : h <= b }
    OBVIOUS
  <2>2. S \in SUBSET Nat /\ S # {} /\ b \in Nat /\ \A h \in S : h <= b
    <3>1. b \in Nat /\ 0 <= b
      BY <1>0
    <3>2. 0 \in S
      BY <1>2, <2>1, <3>1
    <3> QED  BY <1>2, <2>1, <3>1, <3>2
  <2>3. \E m \in S : \A k \in S : k <= m
    BY <2>2, GreatestOf
  <2> QED  BY <2>1, <2>3
<1>4. g \in Nat /\ g <= b
  BY <1>2, <1>3
<1>5. ASSUME NEW r \in used PROVE g + size <= base[r] \/ limit[r] < g
  <2>1. CASE b + size <= base[r]
    BY <1>0, <1>4, <2>1
  <2>2. CASE limit[r] < b
    <3>1. limit[r] + 1 <= b
      BY <1>0, <2>2
    <3>2. limit[r] + 1 <= g
      BY <1>2, <1>3, <3>1
    <3> QED  BY <1>0, <1>4, <3>2
  <2> QED  BY <2>1, <2>2 DEF Fits
<1>6. Fits(g, size)
  <2>1. g + size <= NocDmaLimit + 1
    BY <1>0, <1>4 DEF Fits
  <2> QED  BY <1>5, <2>1 DEF Fits
<1>7. PICK F : F = { c \in G : Fits(c, size) }
  OBVIOUS
<1>8. F \in SUBSET Nat /\ F # {}
  BY <1>2, <1>3, <1>6, <1>7
<1>9. PICK m \in F : \A c \in F : m <= c
  BY <1>8, LeastOf
<1>10. m \in 0 .. NocDmaLimit
  BY <1>0, <1>7, <1>8 DEF Fits
<1>11. FirstFit(FALSE, size, m)
  BY <1>1, <1>7, <1>9 DEF FirstFit
<1> QED  BY <1>10, <1>11

(* Likewise sliding it up to the start of the region above it: top-down finds
   one.                                                                    *)
LEMMA TopDownFinds ==
  ASSUME TypeOK, RegionsDisjoint, NEW size \in Sizes, NEW b \in 0 .. NocDmaLimit,
         Fits(b, size)
  PROVE  \E c \in 0 .. NocDmaLimit : FirstFit(TRUE, size, c)
<1>0. /\ NocDmaLimit \in Nat /\ size \in Nat /\ size >= 2 /\ b \in Nat
      /\ \A r \in used : base[r] \in Nat /\ limit[r] \in Nat /\ base[r] <= NocDmaLimit
      /\ b + size <= NocDmaLimit + 1
  BY IatuAssumption DEF TypeOK, RegionsDisjoint, Fits
<1>1. PICK G : G = GapEnds
  OBVIOUS
<1>2. /\ NocDmaLimit \in G /\ G \in SUBSET Nat /\ \A e \in G : e <= NocDmaLimit
      /\ \A r \in used : base[r] > 0 => base[r] - 1 \in G
  BY <1>0, <1>1 DEF GapEnds
<1>3. PICK g \in G : /\ b + size - 1 <= g
                     /\ \A h \in G : b + size - 1 <= h => g <= h
  <2>1. PICK S : S = { h \in G : b + size - 1 <= h }
    OBVIOUS
  <2>2. S \in SUBSET Nat /\ S # {}
    <3>1. b + size - 1 <= NocDmaLimit
      BY <1>0
    <3>2. NocDmaLimit \in S
      BY <1>2, <2>1, <3>1
    <3> QED  BY <1>2, <2>1, <3>2
  <2>3. \E m \in S : \A k \in S : m <= k
    BY <2>2, LeastOf
  <2> QED  BY <2>1, <2>3
<1>4. /\ g \in Nat /\ g <= NocDmaLimit /\ g + 1 >= size
      /\ (g + 1) - size \in Nat /\ b <= (g + 1) - size
      /\ ((g + 1) - size) + size = g + 1
  BY <1>0, <1>2, <1>3
<1>5. ASSUME NEW r \in used
      PROVE  ((g + 1) - size) + size <= base[r] \/ limit[r] < (g + 1) - size
  <2>1. CASE b + size <= base[r]
    <3>1. base[r] > 0 /\ b + size - 1 <= base[r] - 1
      BY <1>0, <2>1
    <3>2. g <= base[r] - 1
      BY <1>2, <1>3, <3>1
    <3> QED  BY <1>0, <1>4, <3>2
  <2>2. CASE limit[r] < b
    BY <1>0, <1>4, <2>2
  <2> QED  BY <2>1, <2>2 DEF Fits
<1>6. Fits((g + 1) - size, size)
  <2>1. ((g + 1) - size) + size <= NocDmaLimit + 1
    BY <1>0, <1>4
  <2> QED  BY <1>5, <2>1 DEF Fits
<1>7. PICK F : F = { e \in G : e + 1 >= size /\ Fits((e + 1) - size, size) }
  OBVIOUS
<1>8. F \in SUBSET Nat /\ F # {} /\ \A e \in F : e <= NocDmaLimit
  BY <1>2, <1>3, <1>4, <1>6, <1>7
<1>9. PICK m \in F : \A e \in F : e <= m
  BY <1>0, <1>8, GreatestOf
<1>10. /\ (m + 1) - size \in 0 .. NocDmaLimit /\ m \in G /\ Fits((m + 1) - size, size)
       /\ (m + 1) - size + size - 1 = m
  BY <1>0, <1>7, <1>8
<1>11. \A e \in GapEnds : e + 1 >= size /\ Fits((e + 1) - size, size)
                            => e <= (m + 1) - size + size - 1
  BY <1>1, <1>7, <1>9, <1>10
<1>12. FirstFit(TRUE, size, (m + 1) - size)
  BY <1>1, <1>10, <1>11 DEF FirstFit
<1> QED  BY <1>10, <1>12

(* TtIatuFindAndClaim refuses a claim only when there is no place for it, in
   either direction, whatever claims and teardowns fragmented the window.  *)
THEOREM FirstFitIsComplete == Spec => []NoSpuriousRefusal
<1>1. IatuInv => NoSpuriousRefusal
  <2> SUFFICES ASSUME IatuInv, NEW size \in Sizes, NEW b \in 0 .. NocDmaLimit,
                      Fits(b, size), NEW topDown \in BOOLEAN
               PROVE  \E c \in 0 .. NocDmaLimit : FirstFit(topDown, size, c)
    BY DEF NoSpuriousRefusal
  <2>1. CASE topDown = FALSE
    BY <2>1, BottomUpFinds DEF IatuInv
  <2>2. CASE topDown = TRUE
    BY <2>2, TopDownFinds DEF IatuInv
  <2> QED  BY <2>1, <2>2
<1> QED  BY <1>1, IatuInvariant, PTL

-----------------------------------------------------------------------------
(***************************************************************************)
(* The loops of TtIatuFindAndClaim compute FirstFit.  First the order of   *)
(* the walk.                                                               *)
(***************************************************************************)
Enumerates(s, T) ==
  /\ s \in [1 .. Cardinality(T) -> T]
  /\ \A i, j \in 1 .. Cardinality(T) : i < j => base[s[i]] < base[s[j]]

(* Every set of used regions can be put in the order of their bases: those but
   the last can, in a smallest set that cannot.                            *)
LEMMA EnumerationExists ==
  ASSUME TypeOK, RegionsDisjoint, NEW T \in SUBSET used
  PROVE  \E s : Enumerates(s, T)
<1> SUFFICES ASSUME ~ \E s : Enumerates(s, T) PROVE FALSE
  OBVIOUS
<1>0. /\ NocDmaLimit \in Nat
      /\ \A r \in used : base[r] \in Nat /\ limit[r] \in Nat /\ base[r] <= NocDmaLimit
      /\ \A r, q \in used : r # q => base[r] # base[q]
  BY IatuAssumption DEF TypeOK, RegionsDisjoint
<1>1. ASSUME NEW U \in SUBSET used PROVE IsFiniteSet(U) /\ Cardinality(U) \in Nat
  <2>1. Regions - 1 \in Int /\ used \in SUBSET (0 .. Regions - 1)
    BY IatuAssumption DEF TypeOK, Region
  <2>2. IsFiniteSet(0 .. Regions - 1) /\ U \in SUBSET (0 .. Regions - 1)
    BY <2>1, FS_Interval
  <2>3. IsFiniteSet(U)
    BY <2>2, FS_Subset
  <2> QED  BY <2>3, FS_CardinalityType
<1>2. PICK B : B = { V \in SUBSET used : ~ \E s : Enumerates(s, V) }
  OBVIOUS
<1>3. PICK C : C = { Cardinality(V) : V \in B }
  OBVIOUS
<1>4. C \in SUBSET Nat /\ C # {}
  BY <1>1, <1>2, <1>3
<1>5. PICK c \in C : \A k \in C : c <= k
  BY <1>4, LeastOf
<1>6. PICK U \in B : c = Cardinality(U)
  BY <1>3, <1>5
<1>7. U \in SUBSET used /\ IsFiniteSet(U) /\ c \in Nat /\ ~ \E s : Enumerates(s, U)
  BY <1>1, <1>2, <1>4, <1>6
<1>8. U # {}
  <2> SUFFICES ASSUME U = {} PROVE FALSE
    OBVIOUS
  <2>1. Cardinality(U) = 0
    BY FS_EmptySet
  <2>2. [i \in 1 .. 0 |-> i] \in [1 .. 0 -> U]
    OBVIOUS
  <2>3. Enumerates([i \in 1 .. 0 |-> i], U)
    BY <2>1, <2>2 DEF Enumerates
  <2> QED  BY <1>7, <2>3
<1>9. PICK r \in U : \A q \in U : base[q] <= base[r]
  <2>1. PICK D : D = { base[q] : q \in U }
    OBVIOUS
  <2>2. D \in SUBSET Nat /\ D # {} /\ \A d \in D : d <= NocDmaLimit
    BY <1>0, <1>7, <1>8, <2>1
  <2>3. PICK d \in D : \A e \in D : e <= d
    BY <1>0, <2>2, GreatestOf
  <2> QED  BY <2>1, <2>3
<1>10. PICK V : V = U \ { r }
  OBVIOUS
<1>11. V \in SUBSET used /\ Cardinality(V) = c - 1 /\ Cardinality(V) \in Nat
  <2>1. Cardinality(V) = c - 1
    BY <1>6, <1>7, <1>9, <1>10, FS_RemoveElement
  <2> QED  BY <1>1, <1>7, <1>10, <2>1
<1>12. PICK s : Enumerates(s, V)
  <2>1. V \notin B
    BY <1>3, <1>5, <1>7, <1>11
  <2> QED  BY <1>2, <1>11, <2>1
<1>13. PICK t : t = [i \in 1 .. c |-> IF i < c THEN s[i] ELSE r]
  OBVIOUS
<1>14. /\ c \in Nat /\ c >= 1
       /\ \A i \in 1 .. c - 1 : s[i] \in V
       /\ \A i, j \in 1 .. c - 1 : i < j => base[s[i]] < base[s[j]]
  BY <1>7, <1>11, <1>12 DEF Enumerates
<1>15. ASSUME NEW i \in 1 .. c PROVE t[i] \in U /\ (i < c => t[i] = s[i] /\ base[t[i]] < base[r])
  <2>1. CASE i < c
    <3>1. t[i] = s[i] /\ s[i] \in V
      BY <1>13, <1>14, <2>1
    <3>2. s[i] \in U /\ s[i] # r /\ base[s[i]] \in Nat /\ base[r] \in Nat
      BY <1>0, <1>7, <1>10, <3>1
    <3> QED  BY <1>0, <1>7, <1>9, <3>1, <3>2
  <2>2. CASE i = c
    BY <1>13, <2>2
  <2> QED  BY <1>14, <2>1, <2>2
<1>16. ASSUME NEW i \in 1 .. c, NEW j \in 1 .. c, i < j PROVE base[t[i]] < base[t[j]]
  <2>1. CASE j < c
    BY <1>14, <1>15, <1>16, <2>1
  <2>2. CASE j = c
    BY <1>13, <1>14, <1>15, <1>16, <2>2
  <2> QED  BY <1>14, <2>1, <2>2
<1>17. t \in [1 .. c -> U]
  BY <1>13, <1>15
<1>18. Enumerates(t, U)
  BY <1>6, <1>16, <1>17 DEF Enumerates
<1> QED  BY <1>7, <1>18

(* The sorted bases and limits: b and l list the n used regions upwards.   *)
Table(n, b, l) ==
  /\ n = Cardinality(used) /\ n \in Nat
  /\ b \in [1 .. n -> Nat] /\ l \in [1 .. n -> Nat]
  /\ \A i \in 1 .. n : b[i] = base[Sorted[i]] /\ l[i] = limit[Sorted[i]]
  /\ \A i \in 1 .. n : b[i] < l[i] /\ l[i] <= NocDmaLimit
  /\ \A i, j \in 1 .. n : i < j => l[i] < b[j]
  /\ \A r \in used : \E i \in 1 .. n : b[i] = base[r] /\ l[i] = limit[r]
  /\ \A i \in 1 .. n : \E r \in used : b[i] = base[r] /\ l[i] = limit[r]

(* Sorting lists every used region, and disjoint regions one above the other. *)
LEMMA SortedTable ==
  ASSUME TypeOK, RegionsDisjoint
  PROVE  \E n, b, l : Table(n, b, l)
<1>1. PICK n, s : n = Cardinality(used) /\ s = Sorted
  OBVIOUS
<1>2. Enumerates(s, used)
  <2>1. \E t : Enumerates(t, used)
    BY EnumerationExists
  <2>2. \E t \in [1 .. Cardinality(used) -> used] :
          \A i, j \in 1 .. Cardinality(used) : i < j => base[t[i]] < base[t[j]]
    BY <2>1 DEF Enumerates
  <2> QED  BY <1>1, <2>2 DEF Enumerates, Sorted
<1>3. IsFiniteSet(used) /\ n \in Nat
  <2>1. Regions - 1 \in Int /\ used \in SUBSET (0 .. Regions - 1)
    BY IatuAssumption DEF TypeOK, Region
  <2>2. IsFiniteSet(0 .. Regions - 1)
    BY <2>1, FS_Interval
  <2>3. IsFiniteSet(used)
    BY <2>1, <2>2, FS_Subset
  <2> QED  BY <1>1, <2>3, FS_CardinalityType
<1>4. /\ s \in [1 .. n -> used]
      /\ \A i, j \in 1 .. n : i < j => base[s[i]] < base[s[j]]
  BY <1>1, <1>2 DEF Enumerates
<1>5. \A r \in used : base[r] \in Nat /\ limit[r] \in Nat
  BY DEF TypeOK
<1>6. s \in Injection(1 .. n, used)
  <2>1. ASSUME NEW i \in 1 .. n, NEW j \in 1 .. n, s[i] = s[j] PROVE i = j
    <3>1. s[i] \in used /\ base[s[i]] \in Nat
      BY <1>4, <1>5
    <3>2. ~(i < j) /\ ~(j < i)
      BY <1>4, <2>1, <3>1
    <3> QED  BY <1>3, <3>2
  <2> QED  BY <1>4, <2>1 DEF Injection, IsInjective
<1>7. Cardinality(1 .. n) = Cardinality(used)
  <2>1. 1 \in Int /\ n \in Int
    BY <1>3
  <2>2. Cardinality(1 .. n) = IF 1 > n THEN 0 ELSE n - 1 + 1
    BY <2>1, FS_Interval
  <2> QED  BY <1>1, <1>3, <2>2
<1>8. \A r \in used : \E i \in 1 .. n : s[i] = r
  <2>1. s \in Surjection(1 .. n, used)
    BY <1>3, <1>6, <1>7, FS_Injection
  <2> QED  BY <2>1 DEF Surjection
<1>9. PICK b, l : b = [i \in 1 .. n |-> base[s[i]]] /\ l = [i \in 1 .. n |-> limit[s[i]]]
  OBVIOUS
<1>10. ASSUME NEW i \in 1 .. n
       PROVE  /\ b[i] = base[s[i]] /\ l[i] = limit[s[i]] /\ s[i] \in used
              /\ b[i] \in Nat /\ l[i] \in Nat /\ b[i] < l[i] /\ l[i] <= NocDmaLimit
  BY <1>4, <1>5, <1>9 DEF RegionsDisjoint
<1>11. ASSUME NEW i \in 1 .. n, NEW j \in 1 .. n, i < j PROVE l[i] < b[j]
  <2>1. b[i] < b[j] /\ s[i] # s[j]
    BY <1>4, <1>10, <1>11
  <2>2. l[i] < b[j] \/ l[j] < b[i]
    BY <1>10, <2>1 DEF RegionsDisjoint
  <2>3. b[i] \in Nat /\ b[j] \in Nat /\ l[j] \in Nat /\ b[j] < l[j]
    BY <1>10
  <2> QED  BY <2>1, <2>2, <2>3
<1>12. b \in [1 .. n -> Nat] /\ l \in [1 .. n -> Nat]
  BY <1>9, <1>10
<1>13. \A i \in 1 .. n : b[i] = base[Sorted[i]] /\ l[i] = limit[Sorted[i]]
  BY <1>1, <1>10
<1>14. \A r \in used : \E i \in 1 .. n : b[i] = base[r] /\ l[i] = limit[r]
  BY <1>8, <1>10
<1>15. \A i \in 1 .. n : \E r \in used : b[i] = base[r] /\ l[i] = limit[r]
  BY <1>10
<1>16. \A i \in 1 .. n : b[i] < l[i] /\ l[i] <= NocDmaLimit
  BY <1>10
<1>17. \A i, j \in 1 .. n : i < j => l[i] < b[j]
  BY <1>11
<1>18. Table(n, b, l)
  BY <1>1, <1>3, <1>12, <1>13, <1>14, <1>15, <1>16, <1>17, Zenon DEF Table
<1> QED  BY <1>18

(***************************************************************************)
(* A loop over 1 .. n that stops at the first index of S, written as the   *)
(* recursive function f of its results, ends with the value at the least   *)
(* index of S.                                                             *)
(***************************************************************************)
WalksUp(f, n, S, G) == f = [i \in 1 .. n + 1 |-> IF i \in S THEN G[i] ELSE f[i + 1]]

(* The loop upwards returns what the least index of S gives.               *)
LEMMA WalkUp ==
  ASSUME NEW n \in Nat, NEW S \in SUBSET (1 .. n + 1), n + 1 \in S, NEW G
  PROVE  \E k \in S :
           /\ \A i \in S : k <= i
           /\ \E f : WalksUp(f, n, S, G)
           /\ \A f : WalksUp(f, n, S, G) => f[1] = G[k]
<1>1. S \in SUBSET Nat /\ S # {} /\ \A m \in S : m \in Nat /\ m <= n + 1
  OBVIOUS
<1>2. PICK k \in S : \A i \in S : k <= i
  BY <1>1, LeastOf
<1>3. \E f : WalksUp(f, n, S, G)
  <2>1. PICK nxt : nxt = [i \in 1 .. n + 1 |-> CHOOSE j : j \in S /\ i <= j /\ \A m \in S : i <= m => j <= m]
    OBVIOUS
  <2>2. ASSUME NEW i \in 1 .. n + 1
        PROVE  nxt[i] \in S /\ i <= nxt[i] /\ \A m \in S : i <= m => nxt[i] <= m
    <3>1. PICK U : U = { m \in S : i <= m }
      OBVIOUS
    <3>2. U \in SUBSET Nat /\ n + 1 \in U
      <4>1. i <= n + 1
        OBVIOUS
      <4> QED  BY <1>1, <3>1, <4>1
    <3>3. PICK j \in U : \A m \in U : j <= m
      BY <3>2, LeastOf
    <3>4. \E jj : jj \in S /\ i <= jj /\ \A m \in S : i <= m => jj <= m
      BY <3>1, <3>3
    <3>5. nxt[i] = CHOOSE jj : jj \in S /\ i <= jj /\ \A m \in S : i <= m => jj <= m
      BY <2>1
    <3> QED  BY <3>4, <3>5, Zenon
  <2>3. ASSUME NEW i \in 1 .. n + 1, i \in S PROVE nxt[i] = i
    <3>1. PICK a : a = nxt[i]
      OBVIOUS
    <3>2. a \in S /\ i <= a /\ \A m \in S : i <= m => a <= m
      BY <2>2, <3>1
    <3>3. a \in Nat /\ i \in Nat
      BY <1>1, <3>2
    <3>4. i <= i
      BY <3>3
    <3>5. a <= i
      BY <2>3, <3>2, <3>4
    <3> QED  BY <3>1, <3>2, <3>3, <3>5
  <2>4. ASSUME NEW i \in 1 .. n + 1, i \notin S PROVE i + 1 \in 1 .. n + 1 /\ nxt[i] = nxt[i + 1]
    <3>1. i + 1 \in 1 .. n + 1
      BY <2>4
    <3>2. PICK a, d, e : a = nxt[i] /\ e = i + 1 /\ d = nxt[e]
      OBVIOUS
    <3>3. a \in S /\ i <= a /\ \A m \in S : i <= m => a <= m
      BY <2>2, <3>2
    <3>4. e \in 1 .. n + 1
      BY <3>1, <3>2
    <3>5. d \in S /\ e <= d /\ \A m \in S : e <= m => d <= m
      BY <2>2, <3>2, <3>4
    <3>6. a \in Nat /\ d \in Nat /\ i \in Nat /\ e = i + 1 /\ a # i
      BY <1>1, <2>4, <3>2, <3>3, <3>5
    <3>7. e <= a /\ i <= d
      BY <3>3, <3>5, <3>6
    <3>8. a <= d /\ d <= a
      BY <3>3, <3>5, <3>7
    <3>9. a = d
      BY <3>6, <3>8
    <3> QED  BY <3>1, <3>2, <3>9
  <2>5. PICK f : f = [i \in 1 .. n + 1 |-> G[nxt[i]]]
    OBVIOUS
  <2>6. ASSUME NEW i \in 1 .. n + 1 PROVE f[i] = IF i \in S THEN G[i] ELSE f[i + 1]
    <3>1. CASE i \in S
      BY <2>3, <2>5, <3>1
    <3>2. CASE i \notin S
      BY <2>4, <2>5, <3>2
    <3> QED  BY <3>1, <3>2
  <2>7. WalksUp(f, n, S, G)
    BY <2>5, <2>6 DEF WalksUp
  <2> QED  BY <2>7
<1>4. ASSUME NEW f, WalksUp(f, n, S, G) PROVE f[1] = G[k]
  <2>1. \A i \in 1 .. n + 1 : f[i] = IF i \in S THEN G[i] ELSE f[i + 1]
    BY <1>4, Zenon DEF WalksUp
  <2>2. SUFFICES ASSUME f[1] # G[k] PROVE FALSE
    OBVIOUS
  <2>3. PICK U : U = { i \in 1 .. k : f[i] # G[k] }
    OBVIOUS
  <2>4. k \in 1 .. n + 1 /\ 1 \in 1 .. k /\ k \in Nat
    OBVIOUS
  <2>5. U \in SUBSET Nat /\ U # {} /\ \A i \in U : i <= k
    BY <2>2, <2>3, <2>4
  <2>6. PICK m \in U : \A i \in U : i <= m
    BY <2>4, <2>5, GreatestOf
  <2>7. m \in 1 .. k /\ f[m] # G[k] /\ m \in 1 .. n + 1
    BY <2>3, <2>4, <2>6
  <2>8. m # k
    BY <2>1, <2>4, <2>7
  <2>9. m \notin S /\ m + 1 \in 1 .. k /\ m + 1 \notin U
    BY <1>2, <2>6, <2>7, <2>8
  <2>10. f[m] = f[m + 1] /\ f[m + 1] = G[k]
    BY <2>1, <2>3, <2>7, <2>9
  <2> QED  BY <2>7, <2>10
<1> QED  BY <1>2, <1>3, <1>4

WalksDown(f, n, S, G) == f = [i \in 0 .. n |-> IF i \in S THEN G[i] ELSE f[i - 1]]

(* The loop downwards returns what the greatest index of S gives: it is the
   loop upwards over the mirrored indices.                                 *)
LEMMA WalkDown ==
  ASSUME NEW n \in Nat, NEW S \in SUBSET (0 .. n), 0 \in S, NEW G
  PROVE  \E k \in S :
           /\ \A i \in S : i <= k
           /\ \E f : WalksDown(f, n, S, G)
           /\ \A f : WalksDown(f, n, S, G) => f[n] = G[k]
<1>1. PICK T, H : T = { (n + 1) - i : i \in S } /\ H = [i \in 1 .. n + 1 |-> G[(n + 1) - i]]
  OBVIOUS
<1>2. /\ T \in SUBSET (1 .. n + 1) /\ n + 1 \in T
      /\ \A i \in 1 .. n + 1 : i \in T <=> (n + 1) - i \in S
  BY <1>1
<1>3. PICK j \in T : /\ \A i \in T : j <= i
                     /\ \E f : WalksUp(f, n, T, H)
                     /\ \A f : WalksUp(f, n, T, H) => f[1] = H[j]
  BY <1>2, WalkUp
<1>4. PICK k : k = (n + 1) - j
  OBVIOUS
<1>5. k \in S /\ j \in 1 .. n + 1 /\ H[j] = G[k]
  BY <1>1, <1>2, <1>3, <1>4
<1>6. ASSUME NEW i \in S PROVE i <= k
  <2>1. (n + 1) - i \in T /\ i \in 0 .. n
    BY <1>1
  <2>2. j <= (n + 1) - i
    BY <1>3, <2>1
  <2> QED  BY <1>4, <1>5, <2>1, <2>2
<1>7. \E f : WalksDown(f, n, S, G)
  <2>1. PICK g : WalksUp(g, n, T, H)
    BY <1>3
  <2>2. \A i \in 1 .. n + 1 : g[i] = IF i \in T THEN H[i] ELSE g[i + 1]
    BY <2>1, Zenon DEF WalksUp
  <2>3. PICK f : f = [i \in 0 .. n |-> g[(n + 1) - i]]
    OBVIOUS
  <2>4. ASSUME NEW i \in 0 .. n PROVE f[i] = IF i \in S THEN G[i] ELSE f[i - 1]
    <3>1. PICK m : m = (n + 1) - i
      OBVIOUS
    <3>2. m \in 1 .. n + 1 /\ (n + 1) - m = i /\ f[i] = g[m]
      BY <2>3, <3>1
    <3>3. CASE i \in S
      <4>1. m \in T /\ H[m] = G[i]
        BY <1>1, <1>2, <3>2, <3>3
      <4> QED  BY <2>2, <3>2, <3>3, <4>1
    <3>4. CASE i \notin S
      <4>1. m \notin T /\ i - 1 \in 0 .. n /\ m + 1 = (n + 1) - (i - 1)
        BY <1>2, <3>1, <3>2, <3>4
      <4>2. f[i - 1] = g[m + 1]
        BY <2>3, <4>1
      <4> QED  BY <2>2, <3>2, <3>4, <4>1, <4>2
    <3> QED  BY <3>3, <3>4
  <2>5. WalksDown(f, n, S, G)
    BY <2>3, <2>4 DEF WalksDown
  <2> QED  BY <2>5
<1>8. ASSUME NEW f, WalksDown(f, n, S, G) PROVE f[n] = G[k]
  <2>1. \A i \in 0 .. n : f[i] = IF i \in S THEN G[i] ELSE f[i - 1]
    BY <1>8, Zenon DEF WalksDown
  <2>2. PICK g : g = [i \in 1 .. n + 1 |-> f[(n + 1) - i]]
    OBVIOUS
  <2>3. ASSUME NEW i \in 1 .. n + 1 PROVE g[i] = IF i \in T THEN H[i] ELSE g[i + 1]
    <3>1. PICK m : m = (n + 1) - i
      OBVIOUS
    <3>2. m \in 0 .. n /\ g[i] = f[m] /\ (i \in T <=> m \in S)
      BY <1>2, <2>2, <3>1
    <3>3. CASE m \in S
      <4>1. H[i] = G[m]
        BY <1>1, <3>1
      <4> QED  BY <2>1, <3>2, <3>3, <4>1
    <3>4. CASE m \notin S
      <4>1. i + 1 \in 1 .. n + 1 /\ (n + 1) - (i + 1) = m - 1
        BY <3>1, <3>2, <3>4
      <4>2. g[i + 1] = f[m - 1]
        BY <2>2, <4>1
      <4> QED  BY <2>1, <3>2, <3>4, <4>2
    <3> QED  BY <3>3, <3>4
  <2>4. WalksUp(g, n, T, H)
    BY <2>2, <2>3 DEF WalksUp
  <2>5. g[1] = G[k]
    BY <1>3, <1>5, <2>4
  <2>6. 1 \in 1 .. n + 1 /\ (n + 1) - 1 = n
    OBVIOUS
  <2>7. g[1] = f[n]
    BY <2>2, <2>6
  <2> QED  BY <2>5, <2>7
<1> QED  BY <1>5, <1>6, <1>7, <1>8

(* What a table of sorted regions gives: they lie one above the other, and a
   placement fits when it fits around each of them.                        *)
LEMMA TableFacts ==
  ASSUME TypeOK, NEW n, NEW b, NEW l, Table(n, b, l)
  PROVE  /\ n \in Nat /\ NocDmaLimit \in Nat
         /\ \A i \in 1 .. n : b[i] \in Nat /\ l[i] \in Nat /\ b[i] < l[i] /\ l[i] <= NocDmaLimit
         /\ \A i, j \in 1 .. n : i < j => l[i] < b[j]
         /\ \A i, j \in 1 .. n : i <= j => b[i] <= b[j] /\ l[i] <= l[j]
         /\ \A c, z \in Nat : Fits(c, z) <=>
              c + z <= NocDmaLimit + 1 /\ \A i \in 1 .. n : c + z <= b[i] \/ l[i] < c
<1>1. n \in Nat /\ NocDmaLimit \in Nat
  BY IatuAssumption DEF Table
<1>2. \A i \in 1 .. n : b[i] \in Nat /\ l[i] \in Nat /\ b[i] < l[i] /\ l[i] <= NocDmaLimit
  BY DEF Table
<1>3. \A i, j \in 1 .. n : i < j => l[i] < b[j]
  BY DEF Table
<1>4. ASSUME NEW i \in 1 .. n, NEW j \in 1 .. n, i <= j PROVE b[i] <= b[j] /\ l[i] <= l[j]
  <2>1. CASE i = j
    BY <1>2, <2>1
  <2>2. CASE i # j
    BY <1>2, <1>3, <1>4, <2>2
  <2> QED  BY <2>1, <2>2
<1>5. ASSUME NEW c \in Nat, NEW z \in Nat
      PROVE  Fits(c, z) <=> c + z <= NocDmaLimit + 1 /\ \A i \in 1 .. n : c + z <= b[i] \/ l[i] < c
  <2>1. (\A r \in used : c + z <= base[r] \/ limit[r] < c) <=> \A i \in 1 .. n : c + z <= b[i] \/ l[i] < c
    <3>1. /\ \A r \in used : \E i \in 1 .. n : b[i] = base[r] /\ l[i] = limit[r]
          /\ \A i \in 1 .. n : \E r \in used : b[i] = base[r] /\ l[i] = limit[r]
      BY DEF Table
    <3>2. ASSUME \A r \in used : c + z <= base[r] \/ limit[r] < c, NEW i \in 1 .. n
          PROVE  c + z <= b[i] \/ l[i] < c
      BY <3>1, <3>2
    <3>3. ASSUME \A i \in 1 .. n : c + z <= b[i] \/ l[i] < c, NEW r \in used
          PROVE  c + z <= base[r] \/ limit[r] < c
      BY <3>1, <3>3
    <3> QED  BY <3>2, <3>3
  <2> QED  BY <2>1 DEF Fits
<1> QED  BY <1>1, <1>2, <1>3, <1>4, <1>5

(* The bottom-up loop returns the lowest placement that starts at 0 or just
   above a region, and nothing when there is none.                         *)
LEMMA BottomUpLoop ==
  ASSUME TypeOK, RegionsDisjoint, NEW size \in Sizes
  PROVE  LoopBottomUp(size) = { c \in 0 .. NocDmaLimit : FirstFit(FALSE, size, c) }
<1>1. PICK n, b, l : Table(n, b, l)
  BY SortedTable
<1>2. /\ n \in Nat /\ NocDmaLimit \in Nat
      /\ \A i \in 1 .. n : b[i] \in Nat /\ l[i] \in Nat /\ b[i] < l[i] /\ l[i] <= NocDmaLimit
      /\ \A i, j \in 1 .. n : i < j => l[i] < b[j]
      /\ \A i, j \in 1 .. n : i <= j => b[i] <= b[j] /\ l[i] <= l[j]
  BY <1>1, TableFacts
<1>3. \A c, z \in Nat : Fits(c, z) <=>
        c + z <= NocDmaLimit + 1 /\ \A i \in 1 .. n : c + z <= b[i] \/ l[i] < c
  BY <1>1, TableFacts
<1>4. size \in Nat /\ size >= 2
  BY IatuAssumption
<1>5. n = Cardinality(used) /\ \A i \in 1 .. n : b[i] = base[Sorted[i]] /\ l[i] = limit[Sorted[i]]
  BY <1>1 DEF Table
<1>6. PICK G : G = [i \in 1 .. n + 1 |-> IF i = 1 THEN 0 ELSE l[i - 1] + 1]
  OBVIOUS
<1>7. ASSUME NEW i \in 1 .. n + 1
      PROVE  /\ GapStart(i) = G[i] /\ G[i] \in Nat
             /\ i = 1 => G[i] = 0
             /\ i # 1 => i - 1 \in 1 .. n /\ G[i] = l[i - 1] + 1
             /\ i <= n => G[i] <= b[i]
  <2>1. CASE i = 1
    <3>1. GapStart(i) = 0 /\ G[i] = 0
      BY <1>6, <2>1 DEF GapStart
    <3> QED  BY <1>2, <2>1, <3>1
  <2>2. CASE i # 1
    <3>1. i - 1 \in 1 .. n
      BY <1>2, <2>2
    <3>2. G[i] = l[i - 1] + 1 /\ GapStart(i) = limit[Sorted[i - 1]] + 1
      BY <1>6, <2>2 DEF GapStart
    <3>3. GapStart(i) = G[i]
      BY <1>5, <3>1, <3>2
    <3>4. ASSUME i <= n PROVE G[i] <= b[i]
      <4>1. i \in 1 .. n /\ i - 1 < i
        BY <1>2, <3>4
      <4>2. l[i - 1] < b[i] /\ l[i - 1] \in Nat /\ b[i] \in Nat
        BY <1>2, <3>1, <4>1
      <4> QED  BY <3>2, <4>2
    <3>5. G[i] \in Nat
      BY <1>2, <3>1, <3>2
    <3> QED  BY <2>2, <3>1, <3>2, <3>3, <3>4, <3>5
  <2> QED  BY <2>1, <2>2
<1>8. PICK S : S = { i \in 1 .. n + 1 : i <= n => b[i] > G[i] /\ b[i] - G[i] >= size }
  OBVIOUS
<1>9. S \in SUBSET (1 .. n + 1) /\ n + 1 \in S
  BY <1>2, <1>8
<1>10. PICK k \in S : /\ \A i \in S : k <= i
                      /\ \E f : WalksUp(f, n, S, G)
                      /\ \A f : WalksUp(f, n, S, G) => f[1] = G[k]
  <2>1. n \in Nat
    BY <1>2
  <2> QED  BY <1>9, <2>1, WalkUp, Zenon
<1> DEFINE E(f) == f = [i \in 1 .. Cardinality(used) + 1 |->
             IF i <= Cardinality(used) /\ ~(base[Sorted[i]] > GapStart(i) /\ base[Sorted[i]] - GapStart(i) >= size)
             THEN f[i + 1] ELSE GapStart(i)]
<1>11. ASSUME NEW f PROVE E(f) <=> WalksUp(f, n, S, G)
  <2>1. ASSUME NEW i \in 1 .. n + 1
        PROVE  (IF i <= n /\ ~(base[Sorted[i]] > GapStart(i) /\ base[Sorted[i]] - GapStart(i) >= size)
                THEN f[i + 1] ELSE GapStart(i)) = IF i \in S THEN G[i] ELSE f[i + 1]
    <3>1. GapStart(i) = G[i] /\ (i <= n => b[i] = base[Sorted[i]])
      BY <1>2, <1>5, <1>7
    <3>2. i \in S <=> ~(i <= n /\ ~(base[Sorted[i]] > GapStart(i) /\ base[Sorted[i]] - GapStart(i) >= size))
      BY <1>8, <3>1
    <3> QED  BY <3>1, <3>2
  <2>2. [i \in 1 .. n + 1 |->
           IF i <= n /\ ~(base[Sorted[i]] > GapStart(i) /\ base[Sorted[i]] - GapStart(i) >= size)
           THEN f[i + 1] ELSE GapStart(i)] = [i \in 1 .. n + 1 |-> IF i \in S THEN G[i] ELSE f[i + 1]]
    BY <2>1
  <2> QED  BY <1>5, <2>2 DEF WalksUp
<1>12. PICK f : f = CHOOSE g : E(g)
  OBVIOUS
<1>13. E(f)
  <2>1. \E g : E(g)
    BY <1>10, <1>11
  <2> QED  BY <1>12, <2>1
<1>14. f[1] = G[k]
  BY <1>10, <1>11, <1>13
<1>15. LoopBottomUp(size) = IF (f[1] + size) - 1 > NocDmaLimit THEN {} ELSE { f[1] }
  BY <1>12 DEF LoopBottomUp
<1>16. k \in 1 .. n + 1 /\ G[k] \in Nat
  BY <1>7, <1>9, <1>10
<1>17. LoopBottomUp(size) = IF G[k] + size <= NocDmaLimit + 1 THEN { G[k] } ELSE {}
  BY <1>2, <1>4, <1>14, <1>15, <1>16
<1>18. ASSUME NEW j \in 1 .. n + 1, Fits(G[j], size)
       PROVE  j \in S /\ G[j] + size <= NocDmaLimit + 1
  <2>1. /\ G[j] + size <= NocDmaLimit + 1
        /\ \A i \in 1 .. n : G[j] + size <= b[i] \/ l[i] < G[j]
    BY <1>3, <1>4, <1>7, <1>18
  <2>2. ASSUME j <= n PROVE b[j] > G[j] /\ b[j] - G[j] >= size
    <3>1. j \in 1 .. n /\ G[j] \in Nat /\ G[j] <= b[j]
      BY <1>2, <1>7, <2>2
    <3>2. b[j] \in Nat /\ l[j] \in Nat /\ b[j] < l[j]
      BY <1>2, <3>1
    <3> QED  BY <1>4, <2>1, <3>1, <3>2
  <2> QED  BY <1>8, <2>1, <2>2
<1>19. ASSUME G[k] + size <= NocDmaLimit + 1 PROVE Fits(G[k], size)
  <2>1. ASSUME NEW i \in 1 .. n PROVE G[k] + size <= b[i] \/ l[i] < G[k]
    <3>1. CASE i < k
      <4>1. k # 1 /\ k - 1 \in 1 .. n /\ i <= k - 1
        BY <1>2, <1>16, <3>1
      <4>2. G[k] = l[k - 1] + 1
        BY <1>7, <1>16, <4>1
      <4>3. l[i] <= l[k - 1] /\ l[i] \in Nat /\ l[k - 1] \in Nat
        BY <1>2, <4>1
      <4> QED  BY <4>2, <4>3
    <3>2. CASE k <= i
      <4>1. k \in 1 .. n
        BY <1>2, <1>16, <3>2
      <4>2. b[k] - G[k] >= size
        BY <1>8, <1>10, <4>1
      <4>3. b[k] <= b[i] /\ b[k] \in Nat /\ b[i] \in Nat
        BY <1>2, <3>2, <4>1
      <4> QED  BY <1>4, <1>16, <4>2, <4>3
    <3> QED  BY <1>16, <3>1, <3>2
  <2> QED  BY <1>3, <1>4, <1>16, <1>19, <2>1
<1>20. ASSUME NEW j \in 1 .. n + 1, k <= j PROVE G[k] <= G[j]
  <2>1. CASE k = 1
    BY <1>7, <1>16, <2>1
  <2>2. CASE k # 1
    <3>1. j # 1 /\ k - 1 \in 1 .. n /\ j - 1 \in 1 .. n /\ k - 1 <= j - 1
      BY <1>2, <1>16, <1>20, <2>2
    <3>2. G[k] = l[k - 1] + 1 /\ G[j] = l[j - 1] + 1
      BY <1>7, <1>16, <2>2, <3>1
    <3>3. l[k - 1] <= l[j - 1] /\ l[k - 1] \in Nat /\ l[j - 1] \in Nat
      BY <1>2, <3>1
    <3> QED  BY <3>2, <3>3
  <2> QED  BY <2>1, <2>2
<1>21. \A c : c \in GapStarts <=> \E j \in 1 .. n + 1 : c = G[j]
  <2>1. ASSUME NEW c \in GapStarts PROVE \E j \in 1 .. n + 1 : c = G[j]
    <3>1. CASE c = 0
      <4>1. 1 \in 1 .. n + 1
        BY <1>2
      <4> QED  BY <1>7, <3>1, <4>1
    <3>2. CASE c # 0
      <4>1. PICK r \in used : c = limit[r] + 1
        BY <3>2 DEF GapStarts
      <4>2. PICK i \in 1 .. n : l[i] = limit[r]
        BY <1>1 DEF Table
      <4>3. i + 1 \in 1 .. n + 1 /\ i + 1 # 1 /\ (i + 1) - 1 = i
        BY <1>2
      <4>4. G[i + 1] = l[i] + 1
        BY <1>7, <4>3
      <4> QED  BY <4>1, <4>2, <4>3, <4>4
    <3> QED  BY <3>1, <3>2
  <2>2. ASSUME NEW j \in 1 .. n + 1 PROVE G[j] \in GapStarts
    <3>1. CASE j = 1
      BY <1>7, <3>1 DEF GapStarts
    <3>2. CASE j # 1
      <4>1. j - 1 \in 1 .. n /\ G[j] = l[j - 1] + 1
        BY <1>7, <3>2
      <4>2. PICK r \in used : l[j - 1] = limit[r]
        BY <1>1, <4>1 DEF Table
      <4> QED  BY <4>1, <4>2 DEF GapStarts
    <3> QED  BY <3>1, <3>2
  <2> QED  BY <2>1, <2>2
<1>22. ASSUME NEW c \in 0 .. NocDmaLimit, FirstFit(FALSE, size, c)
       PROVE  c = G[k] /\ G[k] + size <= NocDmaLimit + 1
  <2>1. Fits(c, size) /\ c \in GapStarts /\ \A d \in GapStarts : Fits(d, size) => c <= d
    BY <1>22 DEF FirstFit
  <2>2. PICK j \in 1 .. n + 1 : c = G[j]
    BY <1>21, <2>1
  <2>3. j \in S /\ c + size <= NocDmaLimit + 1
    BY <1>18, <2>1, <2>2
  <2>4. k <= j /\ G[k] <= c /\ c \in Nat
    BY <1>2, <1>10, <1>20, <2>2, <2>3
  <2>5. G[k] + size <= NocDmaLimit + 1
    BY <1>2, <1>4, <1>16, <2>3, <2>4
  <2>6. c <= G[k]
    BY <1>16, <1>19, <1>21, <2>1, <2>5
  <2> QED  BY <1>16, <2>4, <2>5, <2>6
<1>23. ASSUME G[k] + size <= NocDmaLimit + 1
       PROVE  G[k] \in 0 .. NocDmaLimit /\ FirstFit(FALSE, size, G[k])
  <2>1. G[k] \in 0 .. NocDmaLimit
    BY <1>2, <1>4, <1>16, <1>23
  <2>2. Fits(G[k], size) /\ G[k] \in GapStarts
    BY <1>16, <1>19, <1>21, <1>23
  <2>3. ASSUME NEW d \in GapStarts, Fits(d, size) PROVE G[k] <= d
    <3>1. PICK j \in 1 .. n + 1 : d = G[j]
      BY <1>21
    <3>2. k <= j
      BY <1>10, <1>18, <2>3, <3>1
    <3> QED  BY <1>20, <3>1, <3>2
  <2> QED  BY <2>1, <2>2, <2>3 DEF FirstFit
<1>24. CASE G[k] + size <= NocDmaLimit + 1
  BY <1>17, <1>22, <1>23, <1>24
<1>25. CASE ~(G[k] + size <= NocDmaLimit + 1)
  BY <1>17, <1>22, <1>25
<1> QED  BY <1>24, <1>25

(* The top-down loop returns the highest placement that ends at the limit of
   the window or just below a region, and nothing when there is none.      *)
LEMMA TopDownLoop ==
  ASSUME TypeOK, RegionsDisjoint, NEW size \in Sizes
  PROVE  LoopTopDown(size) = { c \in 0 .. NocDmaLimit : FirstFit(TRUE, size, c) }
<1>1. PICK n, b, l : Table(n, b, l)
  BY SortedTable
<1>2. /\ n \in Nat /\ NocDmaLimit \in Nat
      /\ \A i \in 1 .. n : b[i] \in Nat /\ l[i] \in Nat /\ b[i] < l[i] /\ l[i] <= NocDmaLimit
      /\ \A i, j \in 1 .. n : i < j => l[i] < b[j]
      /\ \A i, j \in 1 .. n : i <= j => b[i] <= b[j] /\ l[i] <= l[j]
  BY <1>1, TableFacts
<1>3. \A c, z \in Nat : Fits(c, z) <=>
        c + z <= NocDmaLimit + 1 /\ \A i \in 1 .. n : c + z <= b[i] \/ l[i] < c
  BY <1>1, TableFacts
<1>4. size \in Nat /\ size >= 2
  BY IatuAssumption
<1>5. n = Cardinality(used) /\ \A i \in 1 .. n : b[i] = base[Sorted[i]] /\ l[i] = limit[Sorted[i]]
  BY <1>1 DEF Table
<1>6. PICK H : H = [i \in 0 .. n |-> IF i = n THEN NocDmaLimit ELSE b[i + 1] - 1]
  OBVIOUS
<1>7. ASSUME NEW i \in 0 .. n
      PROVE  /\ GapEnd(i) = H[i] /\ H[i] \in Int /\ H[i] <= NocDmaLimit
             /\ i = n => H[i] = NocDmaLimit
             /\ i # n => i + 1 \in 1 .. n /\ H[i] = b[i + 1] - 1
             /\ i # 0 => i \in 1 .. n /\ l[i] <= H[i]
  <2>1. CASE i = n
    <3>1. GapEnd(i) = NocDmaLimit /\ H[i] = NocDmaLimit
      BY <1>5, <1>6, <2>1 DEF GapEnd
    <3> QED  BY <1>2, <2>1, <3>1
  <2>2. CASE i # n
    <3>1. i + 1 \in 1 .. n
      BY <1>2, <2>2
    <3>2. H[i] = b[i + 1] - 1 /\ GapEnd(i) = base[Sorted[i + 1]] - 1
      BY <1>5, <1>6, <2>2 DEF GapEnd
    <3>3. GapEnd(i) = H[i]
      BY <1>5, <3>1, <3>2
    <3>4. ASSUME i # 0 PROVE i \in 1 .. n /\ l[i] <= H[i]
      <4>1. i \in 1 .. n /\ i < i + 1
        BY <1>2, <3>4
      <4>2. l[i] < b[i + 1] /\ l[i] \in Nat /\ b[i + 1] \in Nat
        BY <1>2, <3>1, <4>1
      <4> QED  BY <3>2, <4>1, <4>2
    <3>5. b[i + 1] \in Nat /\ b[i + 1] < l[i + 1] /\ l[i + 1] <= NocDmaLimit /\ l[i + 1] \in Nat
      BY <1>2, <3>1
    <3>6. H[i] \in Int /\ H[i] <= NocDmaLimit
      BY <1>2, <3>2, <3>5
    <3> QED  BY <2>2, <3>1, <3>2, <3>3, <3>4, <3>6
  <2> QED  BY <2>1, <2>2
(* The gap that ends at H[i] is large enough. *)
<1>8. PICK Room : Room = [i \in 0 .. n |-> IF i = 0 THEN H[i] + 1 >= size ELSE H[i] - l[i] >= size]
  OBVIOUS
<1>9. PICK G : G = [i \in 0 .. n |-> IF Room[i] THEN { (H[i] + 1) - size } ELSE {}]
  OBVIOUS
<1>10. PICK S : S = { i \in 0 .. n : i = 0 \/ Room[i] \/ b[i] = 0 }
  OBVIOUS
<1>11. S \in SUBSET (0 .. n) /\ 0 \in S
  BY <1>2, <1>10
<1>12. PICK k \in S : /\ \A i \in S : i <= k
                      /\ \E f : WalksDown(f, n, S, G)
                      /\ \A f : WalksDown(f, n, S, G) => f[n] = G[k]
  <2>1. n \in Nat
    BY <1>2
  <2> QED  BY <1>11, <2>1, WalkDown, Zenon
<1> DEFINE Body(f, i) ==
             IF i = 0
             THEN IF GapEnd(0) + 1 < size THEN {} ELSE { (GapEnd(0) - size) + 1 }
             ELSE IF GapEnd(i) >= limit[Sorted[i]] /\ GapEnd(i) - limit[Sorted[i]] >= size
                  THEN { (GapEnd(i) - size) + 1 }
             ELSE IF base[Sorted[i]] = 0 THEN {} ELSE f[i - 1]
<1> DEFINE E(f) == f = [i \in 0 .. Cardinality(used) |-> Body(f, i)]
<1>13. ASSUME NEW f PROVE E(f) <=> WalksDown(f, n, S, G)
  <2>1. ASSUME NEW i \in 0 .. n PROVE Body(f, i) = IF i \in S THEN G[i] ELSE f[i - 1]
    <3>1. GapEnd(i) = H[i] /\ H[i] \in Int /\ (H[i] - size) + 1 = (H[i] + 1) - size
      BY <1>4, <1>7
    <3>2. CASE i = 0
      <4>1. i \in S /\ (Room[i] <=> H[0] + 1 >= size) /\ GapEnd(0) = H[0]
        BY <1>8, <1>11, <3>1, <3>2
      <4>2. G[i] = IF Room[i] THEN { (H[i] + 1) - size } ELSE {}
        BY <1>9
      <4>3. H[0] + 1 < size <=> ~ Room[i]
        BY <1>4, <3>1, <3>2, <4>1
      <4> QED  BY <3>1, <3>2, <4>1, <4>2, <4>3
    <3>3. CASE i # 0
      <4>1. i \in 1 .. n /\ l[i] <= H[i] /\ l[i] \in Nat
        BY <1>2, <1>7, <3>3
      <4>2. b[i] = base[Sorted[i]] /\ l[i] = limit[Sorted[i]]
        BY <1>5, <4>1
      <4>3. Room[i] <=> GapEnd(i) >= limit[Sorted[i]] /\ GapEnd(i) - limit[Sorted[i]] >= size
        BY <1>8, <3>1, <3>3, <4>1, <4>2
      <4>4. G[i] = IF Room[i] THEN { (H[i] + 1) - size } ELSE {}
        BY <1>9
      <4>5. i \in S <=> Room[i] \/ b[i] = 0
        BY <1>10, <3>3
      <4> QED  BY <3>1, <3>3, <4>2, <4>3, <4>4, <4>5
    <3> QED  BY <3>2, <3>3
  <2> HIDE DEF Body
  <2>2. [i \in 0 .. n |-> Body(f, i)] = [i \in 0 .. n |-> IF i \in S THEN G[i] ELSE f[i - 1]]
    BY <2>1
  <2> QED  BY <1>5, <2>2 DEF WalksDown
<1>14. PICK f : f = CHOOSE g : E(g)
  OBVIOUS
<1>15. E(f)
  <2>1. \E g : E(g)
    BY <1>12, <1>13
  <2> QED  BY <1>14, <2>1
<1>16. f[n] = G[k]
  BY <1>12, <1>13, <1>15
<1>17. LoopTopDown(size) = f[Cardinality(used)]
  BY <1>14 DEF LoopTopDown
<1>18. LoopTopDown(size) = IF Room[k] THEN { (H[k] + 1) - size } ELSE {}
  BY <1>5, <1>9, <1>11, <1>12, <1>16, <1>17
<1> HIDE DEF E, Body
<1>19. ASSUME NEW j \in 0 .. n
       PROVE  Room[j] <=> H[j] + 1 >= size /\ Fits((H[j] + 1) - size, size)
  <2>1. H[j] \in Int /\ H[j] <= NocDmaLimit
    BY <1>7
  <2>2. PICK c : c = (H[j] + 1) - size
    OBVIOUS
  <2>3. c \in Int /\ c + size = H[j] + 1 /\ (H[j] + 1 >= size <=> c >= 0)
    BY <1>4, <2>1, <2>2
  <2>4. ASSUME NEW i \in 1 .. n, j < i PROVE c + size <= b[i]
    <3>1. j # n /\ j + 1 <= i
      BY <1>2, <2>4
    <3>2. j + 1 \in 1 .. n /\ H[j] = b[j + 1] - 1
      BY <1>7, <3>1
    <3>3. b[j + 1] <= b[i] /\ b[j + 1] \in Nat /\ b[i] \in Nat
      BY <1>2, <3>1, <3>2
    <3> QED  BY <2>3, <3>2, <3>3
  <2>5. ASSUME NEW i \in 1 .. n, i <= j
        PROVE  l[i] <= l[j] /\ l[i] \in Nat /\ l[j] \in Nat /\ ~(c + size <= b[i]) /\ j # 0
    <3>1. j # 0
      BY <1>2, <2>5
    <3>2. j \in 1 .. n /\ l[j] <= H[j]
      BY <1>7, <3>1
    <3>3. l[i] <= l[j] /\ l[i] \in Nat /\ l[j] \in Nat /\ b[i] \in Nat /\ b[i] < l[i]
      BY <1>2, <2>5, <3>2
    <3> QED  BY <2>1, <2>3, <3>1, <3>2, <3>3
  <2>6. c >= 0 => (Fits(c, size) <=> c + size <= NocDmaLimit + 1 /\ \A i \in 1 .. n : c + size <= b[i] \/ l[i] < c)
    BY <1>3, <1>4, <2>3
  <2>7. CASE j = 0
    <3>1. Room[j] <=> c >= 0
      BY <1>8, <2>3, <2>7
    <3>2. \A i \in 1 .. n : c + size <= b[i]
      BY <1>2, <2>4, <2>7
    <3>3. c + size <= NocDmaLimit + 1
      BY <1>2, <2>1, <2>3
    <3> QED  BY <2>2, <2>3, <2>6, <3>1, <3>2, <3>3
  <2>8. CASE j # 0
    <3>1. j \in 1 .. n /\ l[j] \in Nat
      BY <1>2, <1>7, <2>8
    <3>2. Room[j] <=> l[j] < c
      <4>1. Room[j] <=> H[j] - l[j] >= size
        BY <1>8, <2>8
      <4> QED  BY <1>4, <2>1, <2>2, <3>1, <4>1
    <3>3. ASSUME l[j] < c PROVE c >= 0 /\ Fits(c, size)
      <4>1. c >= 0
        BY <2>3, <3>1, <3>3
      <4>2. ASSUME NEW i \in 1 .. n PROVE c + size <= b[i] \/ l[i] < c
        <5>1. CASE j < i
          BY <2>4, <5>1
        <5>2. CASE i <= j
          BY <2>3, <2>5, <3>3, <5>2
        <5> QED  BY <1>2, <5>1, <5>2
      <4>3. c + size <= NocDmaLimit + 1
        BY <1>2, <2>1, <2>3
      <4> QED  BY <2>6, <4>1, <4>2, <4>3
    <3>4. ASSUME c >= 0, Fits(c, size) PROVE l[j] < c
      <4>1. c + size <= b[j] \/ l[j] < c
        BY <2>6, <3>1, <3>4
      <4>2. ~(c + size <= b[j])
        BY <2>5, <3>1
      <4> QED  BY <4>1, <4>2
    <3> QED  BY <2>2, <2>3, <3>2, <3>3, <3>4
  <2> QED  BY <2>7, <2>8
<1>20. k \in 0 .. n /\ H[k] \in Int /\ H[k] <= NocDmaLimit
  BY <1>7, <1>11, <1>12
<1>21. ASSUME NEW j \in 0 .. n, Room[j] PROVE j <= k /\ Room[k]
  <2>1. j <= k
    BY <1>10, <1>12, <1>21
  <2>2. SUFFICES ASSUME ~ Room[k] PROVE FALSE
    BY <2>1
  <2>3. j # k /\ j < k /\ k # 0
    BY <1>20, <1>21, <2>1, <2>2
  <2>4. b[k] = 0 /\ k \in 1 .. n
    BY <1>10, <1>12, <1>20, <2>2, <2>3
  <2>5. j = 0 /\ k = 1
    <3>1. ~ \E i \in 1 .. n : i < k
      <4> SUFFICES ASSUME NEW i \in 1 .. n, i < k PROVE FALSE
        OBVIOUS
      <4>1. l[i] < b[k] /\ l[i] \in Nat
        BY <1>2, <2>4
      <4> QED  BY <2>4, <4>1
    <3> QED  BY <1>2, <2>3, <2>4, <3>1
  <2>6. 0 # n /\ H[0] = b[0 + 1] - 1
    BY <1>2, <1>7, <2>4, <2>5
  <2>7. H[0] = 0 - 1
    BY <2>4, <2>5, <2>6
  <2>8. H[0] + 1 >= size
    BY <1>19, <1>21, <2>5
  <2> QED  BY <1>4, <2>7, <2>8
<1>22. ASSUME NEW j \in 0 .. n, j <= k PROVE H[j] <= H[k]
  <2>1. CASE j = k
    BY <1>20, <2>1
  <2>2. CASE j # k
    <3>1. j # n /\ j < k /\ j + 1 \in 1 .. n /\ k # 0 /\ j + 1 <= k
      BY <1>2, <1>20, <1>22, <2>2
    <3>2. H[j] = b[j + 1] - 1 /\ k \in 1 .. n /\ l[k] <= H[k]
      BY <1>7, <1>20, <3>1
    <3>3. b[j + 1] <= b[k] /\ b[k] < l[k] /\ b[j + 1] \in Nat /\ b[k] \in Nat /\ l[k] \in Nat
      BY <1>2, <3>1, <3>2
    <3> QED  BY <1>20, <3>2, <3>3
  <2> QED  BY <2>1, <2>2
<1>23. ASSUME NEW e \in GapEnds PROVE \E j \in 0 .. n : e = H[j]
  <2>1. CASE e = NocDmaLimit
    <3>1. n \in 0 .. n
      BY <1>2
    <3> QED  BY <1>7, <2>1, <3>1
  <2>2. CASE e # NocDmaLimit
    <3>1. PICK r \in used : e = base[r] - 1
      BY <2>2 DEF GapEnds
    <3>2. PICK i \in 1 .. n : b[i] = base[r]
      BY <1>1 DEF Table
    <3>3. i - 1 \in 0 .. n /\ i - 1 # n /\ (i - 1) + 1 = i
      BY <1>2
    <3>4. H[i - 1] = b[i] - 1
      BY <1>7, <3>3
    <3> QED  BY <3>1, <3>2, <3>3, <3>4
  <2> QED  BY <2>1, <2>2
<1>24. ASSUME NEW j \in 0 .. n, H[j] >= 0 PROVE H[j] \in GapEnds
  <2>1. CASE j = n
    BY <1>7, <2>1 DEF GapEnds
  <2>2. CASE j # n
    <3>1. j + 1 \in 1 .. n /\ H[j] = b[j + 1] - 1
      BY <1>7, <2>2
    <3>2. PICK r \in used : b[j + 1] = base[r]
      BY <1>1, <3>1 DEF Table
    <3>3. base[r] > 0 /\ H[j] = base[r] - 1
      BY <1>2, <1>24, <3>1, <3>2
    <3> QED  BY <3>3 DEF GapEnds
  <2> QED  BY <2>1, <2>2
<1>25. ASSUME NEW c \in 0 .. NocDmaLimit, FirstFit(TRUE, size, c)
       PROVE  Room[k] /\ c = (H[k] + 1) - size
  <2>1. PICK e : e = c + size - 1
    OBVIOUS
  <2>2. /\ Fits(c, size) /\ e \in GapEnds
        /\ \A d \in GapEnds : d + 1 >= size /\ Fits((d + 1) - size, size) => d <= e
    BY <1>25, <2>1 DEF FirstFit
  <2>3. PICK j \in 0 .. n : e = H[j]
    BY <1>23, <2>2
  <2>4. c \in Nat /\ (H[j] + 1) - size = c /\ H[j] + 1 >= size
    BY <1>2, <1>4, <2>1, <2>3
  <2>5. Room[j]
    BY <1>19, <2>2, <2>4
  <2>6. j <= k /\ Room[k]
    BY <1>21, <2>5
  <2>7. H[j] <= H[k]
    BY <1>22, <2>6
  <2>8. H[k] + 1 >= size /\ Fits((H[k] + 1) - size, size)
    BY <1>19, <1>20, <2>6
  <2>9. H[k] \in GapEnds
    BY <1>4, <1>20, <1>24, <2>8
  <2>10. H[k] <= H[j]
    BY <2>2, <2>3, <2>8, <2>9
  <2>11. H[k] = H[j]
    BY <1>7, <1>20, <2>7, <2>10
  <2> QED  BY <2>4, <2>6, <2>11
<1>26. ASSUME Room[k], NEW c, c = (H[k] + 1) - size PROVE c \in 0 .. NocDmaLimit /\ FirstFit(TRUE, size, c)
  <2>1. H[k] + 1 >= size /\ Fits(c, size)
    BY <1>19, <1>20, <1>26
  <2>2. c \in 0 .. NocDmaLimit /\ c + size - 1 = H[k] /\ H[k] >= 0
    BY <1>2, <1>4, <1>20, <1>26, <2>1
  <2>3. c + size - 1 \in GapEnds
    BY <1>20, <1>24, <2>2
  <2>4. ASSUME NEW e \in GapEnds, e + 1 >= size, Fits((e + 1) - size, size) PROVE e <= c + size - 1
    <3>1. PICK j \in 0 .. n : e = H[j]
      BY <1>23
    <3>2. j <= k
      BY <1>19, <1>21, <2>4, <3>1
    <3> QED  BY <1>22, <2>2, <3>1, <3>2
  <2> QED  BY <2>1, <2>2, <2>3, <2>4 DEF FirstFit
<1>27. CASE Room[k]
  BY <1>18, <1>25, <1>26, <1>27
<1>28. CASE ~ Room[k]
  BY <1>18, <1>25, <1>28
<1> QED  BY <1>27, <1>28

(* The loops of TtIatuFindAndClaim are first fit: in every reachable state, for
   tables of every length, they return the address FirstFit describes.     *)
THEOREM LoopsComputeFirstFit == Spec => []LoopsAgree
<1>1. IatuInv => LoopsAgree
  BY BottomUpLoop, TopDownLoop DEF IatuInv, LoopsAgree
<1> QED  BY <1>1, IatuInvariant, PTL
=============================================================================
