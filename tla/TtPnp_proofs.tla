---------------------------- MODULE TtPnp_proofs ----------------------------
(***************************************************************************)
(* Proofs about TtPnp for any handles, BAR layouts and token layouts.      *)
(* Register accesses behind the fence find the BARs mapped when the system *)
(* does not stop the device under open handles; the tokens given out map   *)
(* to what they were given out for; and the numbers of the window regions  *)
(* reach windows of the handle only.                                       *)
(***************************************************************************)
EXTENDS TtPnp, Integers, TLAPS

(* Stages entered after a test of Detached under the reset resource.       *)
Admitted == { "request", "pin", "unpin", "exit", "noc", "teardown" }

(* What a proof of FencedMmioIsMapped needs of the types.                  *)
FileTypes ==
  /\ handle \in [File -> { "none", "open", "closing", "closed" }]
  /\ stage \in [File -> Stage]
  /\ detached \in BOOLEAN

(* A started device is mapped, and a device with a handle in use is started
   unless it was surprise-removed.                                         *)
InUse(f) == handle[f] \in { "open", "closing" } \/ stage[f] = "aggregate"
StartedInv ==
  /\ pnp = "started" => mapped
  /\ \A f \in File : InUse(f) /\ ~detached => pnp = "started"

(* A stage belongs to a handle in use, and the test of Detached that admitted
   a request or a register access still stands.                            *)
StageInv ==
  \A f \in File :
    /\ stage[f] # "idle" => InUse(f)
    /\ stage[f] \in Admitted => ~detached

PnpInv == FileTypes /\ StartedInv /\ StageInv

(* The invariant holds at the start: no handle exists yet.                 *)
LEMMA PnpInit == Init => PnpInv
  BY DEF Init, PnpInv, FileTypes, StartedInv, StageInv, InUse, Stage, Admitted

(* Every step of the device or of a handle keeps the invariant.            *)
LEMMA PnpStep ==
  ASSUME ~StopsWhileOpen, PnpInv, [Next]_vars
  PROVE  PnpInv'
<1> USE DEF PnpInv, FileTypes, StartedInv, StageInv, InUse, Admitted
<1>1. ASSUME NEW layout \in BarLayout, PrepareHardware(layout) PROVE PnpInv'
  BY <1>1 DEF PrepareHardware, fileVars, ownVars
<1>2. ASSUME NEW layout \in BarLayout, PrepareHardwareFails(layout) PROVE PnpInv'
  BY <1>2 DEF PrepareHardwareFails, fileVars, ownVars, tlbVars
<1>3. CASE PowerDown
  BY <1>3 DEF PowerDown, fileVars, ownVars, tlbVars
<1>4. CASE ReleaseHardware
  BY <1>4 DEF ReleaseHardware, fileVars, ownVars, tlbVars
<1>5. CASE SurpriseRemoval
  BY <1>5 DEF SurpriseRemoval, Fenced, Stage, fileVars, ownVars, tlbVars
<1>6. ASSUME NEW f \in File, FileCreate(f) PROVE PnpInv'
  BY <1>6 DEF FileCreate, GoTo, Stage, pnpVars
<1>7. ASSUME NEW f \in File, SendAggregate(f) PROVE PnpInv'
  BY <1>7 DEF SendAggregate, GoTo, Stage, pnpVars
<1>8. ASSUME NEW f \in File, FileCleanup(f) PROVE PnpInv'
  BY <1>8 DEF FileCleanup, GoTo, Stage, pnpVars
<1>9. ASSUME NEW f \in File, NocWrite(f) PROVE PnpInv'
  BY <1>9 DEF NocWrite, GoTo, Stage, pnpVars
<1>10. ASSUME NEW f \in File, CleanupMemory(f) PROVE PnpInv'
  BY <1>10 DEF CleanupMemory, GoTo, Stage, pnpVars
<1>11. ASSUME NEW f \in File, CleanupTeardown(f) PROVE PnpInv'
  BY <1>11 DEF CleanupTeardown, GoTo, Stage, pnpVars
<1>12. ASSUME NEW f \in File, CleanupWindows(f) PROVE PnpInv'
  BY <1>12 DEF CleanupWindows, GoTo, Stage, pnpVars
<1>13. ASSUME NEW f \in File, NEW b \in BOOLEAN, SetNocCleanup(f, b) PROVE PnpInv'
  BY <1>13 DEF SetNocCleanup, pnpVars, fileVars
<1>14. ASSUME NEW f \in File, NEW first, NEW count, AllocateTlb(f, first, count)
       PROVE PnpInv'
  BY <1>14 DEF AllocateTlb, pnpVars, fileVars
<1>15. ASSUME NEW f \in File, NEW id, FreeTlb(f, id) PROVE PnpInv'
  BY <1>15 DEF FreeTlb, pnpVars, fileVars
<1>16. ASSUME NEW f \in File, CallerRequest(f) PROVE PnpInv'
  BY <1>16 DEF CallerRequest, GoTo, Stage, pnpVars
<1>17. ASSUME NEW f \in File, CallerHandler(f) PROVE PnpInv'
  <2>1. ASSUME f \notin aperture, GoTo(f, "pin") PROVE PnpInv'
    BY <1>17, <2>1 DEF CallerHandler, GoTo, Stage, pnpVars
  <2>2. ASSUME GoTo(f, IF detached THEN "idle" ELSE "unpin") PROVE PnpInv'
    BY <1>17, <2>2 DEF CallerHandler, GoTo, Stage, pnpVars
  <2>3. ASSUME GoTo(f, "idle") PROVE PnpInv'
    BY <1>17, <2>3 DEF CallerHandler, GoTo, Stage, pnpVars
  <2> QED BY <1>17, <2>1, <2>2, <2>3 DEF CallerHandler
<1>18. ASSUME NEW f \in File, ProcessNotify(f) PROVE PnpInv'
  BY <1>18 DEF ProcessNotify, GoTo, Stage, pnpVars
<1>19. ASSUME NEW f \in File, ConfigureOutboundAtu(f) PROVE PnpInv'
  BY <1>19 DEF ConfigureOutboundAtu, GoTo, Stage, pnpVars
<1>20. CASE UNCHANGED vars
  BY <1>20 DEF vars
<1> QED
  BY <1>1, <1>2, <1>3, <1>4, <1>5, <1>6, <1>7, <1>8, <1>9, <1>10, <1>11, <1>12, <1>13,
     <1>14, <1>15, <1>16, <1>17, <1>18, <1>19, <1>20 DEF Next

(***************************************************************************)
(* Whatever the number of handles and the layouts, if the device is not    *)
(* stopped under open handles, no register access under the reset resource *)
(* runs after ReleaseHardware has unmapped the BARs.                       *)
(***************************************************************************)
THEOREM FenceHolds ==
  ASSUME ~StopsWhileOpen
  PROVE  Spec => []FencedMmioIsMapped
<1>1. PnpInv => FencedMmioIsMapped
  BY DEF PnpInv, FileTypes, StartedInv, StageInv, Admitted, FencedMmioIsMapped
<1>2. PnpInv /\ [Next]_vars => PnpInv'
  BY PnpStep
<1> QED BY PnpInit, <1>1, <1>2, PTL DEF Spec

-----------------------------------------------------------------------------
(***************************************************************************)
(* The window table of a started device: owned windows lie inside the      *)
(* BARs, and the kernel's window is never a client's.                      *)
(***************************************************************************)
TableTypes ==
  /\ barLength \in [Bars -> Nat]
  /\ tlb4gCount \in 0 .. Tlb4gMax
  /\ tlbOwner \in [0 .. TlbTotal - 1 -> File \cup { NoFile, Kernel }]
TableInv ==
  /\ TableTypes
  /\ tlbOwner[KernelTlbIndex] \notin File
  /\ pnp = "started" =>
       /\ tlbOwner[KernelTlbIndex] = Kernel
       /\ LayoutExpected(barLength)
       /\ tlb4gCount * Tlb4gLen <= barLength[4]
       /\ \A id \in 0 .. TlbTotal - 1 : tlbOwner[id] \in File => id < Tlb2mCount + tlb4gCount

(* What the assumptions say of the constants, one by one.                  *)
LEMMA Layout ==
  /\ ResourceSize \in Nat \ {0} /\ TlbLen \in Nat \ {0} /\ Tlb2mCount \in Nat \ {0}
  /\ Tlb4gLen \in Nat \ {0} /\ Tlb4gMax \in Nat \ {0} /\ Rebase \in Nat \ {0}
  /\ DmaBase \in Nat \ {0} /\ DmaStride \in Nat \ {0} /\ MaxDmaBufs \in Nat \ {0}
  /\ PageSize \in Nat \ {0} /\ MaxLength \in Nat \ {0} /\ Tlb2mCount * TlbLen <= Rebase
  /\ Rebase + Tlb4gMax * Tlb4gLen <= ResourceSize /\ 8 * ResourceSize <= DmaBase
  /\ KernelTlbIndex \in 0 .. TlbTotal - 1 /\ TlbTotal \in Nat
  /\ KernelTlbIndex < Tlb2mCount
BY TokenLayout DEF KernelTlbIndex, TlbTotal

(* Products are monotonic.                                                 *)
LEMMA TimesMonotonic ==
  ASSUME NEW a \in Nat, NEW b \in Nat, NEW c \in Nat, a <= b
  PROVE  a * c <= b * c /\ a * c \in Nat /\ b * c \in Nat
OBVIOUS

(* Quotient and remainder are unique.                                      *)
LEMMA DivMod ==
  ASSUME NEW b \in Nat \ {0}, NEW q \in Nat, NEW r \in Nat, r < b
  PROVE  (q * b + r) \div b = q /\ (q * b + r) % b = r
OBVIOUS

(* A number is its quotient and remainder.                                 *)
LEMMA DivModSum ==
  ASSUME NEW b \in Nat \ {0}, NEW a \in Nat
  PROVE  /\ a \div b \in Nat /\ a % b \in Nat /\ a % b < b
         /\ a = (a \div b) * b + (a % b)
OBVIOUS

(* A sum of whole pages is whole pages ...                                 *)
LEMMA PagedSum ==
  ASSUME NEW a \in Nat, NEW b \in Nat, a % PageSize = 0, b % PageSize = 0
  PROVE  (a + b) % PageSize = 0
<1>1. PICK p \in Nat \ {0} : p = PageSize
  BY Layout
<1>2. PICK m \in Nat : a = m * p
  <2>1. a \div p \in Nat /\ a = (a \div p) * p
    BY <1>1, DivModSum
  <2> QED  BY <2>1
<1>3. PICK n \in Nat : b = n * p
  <2>1. b \div p \in Nat /\ b = (b \div p) * p
    BY <1>1, DivModSum
  <2> QED  BY <2>1
<1>4. a + b = (m + n) * p + 0
  BY <1>2, <1>3
<1>5. ((m + n) * p + 0) % p = 0
  BY DivMod
<1> QED  BY <1>1, <1>4, <1>5

(* ... and so is a multiple.                                               *)
LEMMA PagedTimes ==
  ASSUME NEW n \in Nat, NEW a \in Nat, a % PageSize = 0
  PROVE  (n * a) % PageSize = 0
<1>1. PICK p \in Nat \ {0} : p = PageSize
  BY Layout
<1>2. PICK m \in Nat : a = m * p
  <2>1. a \div p \in Nat /\ a = (a \div p) * p
    BY <1>1, DivModSum
  <2> QED  BY <2>1
<1>3. n * m \in Nat
  OBVIOUS
<1>4. n * a = (n * m) * p + 0
  BY <1>2
<1>5. ((n * m) * p + 0) % p = 0
  BY <1>3, DivMod
<1> QED  BY <1>1, <1>4, <1>5

(* The table starts empty.                                                 *)
LEMMA TableInit == Init => TableInv
<1> SUFFICES ASSUME Init PROVE TableInv
  OBVIOUS
<1>1. TableTypes
  BY Layout DEF Init, TableTypes, NoBars
<1>2. tlbOwner[KernelTlbIndex] = NoFile
  BY Layout DEF Init
<1> QED  BY <1>1, <1>2, PnpAssumption DEF Init, TableInv

(* Steps that touch neither the table nor the lengths of the BARs.         *)
LEMMA TableFrame ==
  ASSUME TableInv, UNCHANGED << barLength, tlbVars >>, pnp' = "started" => pnp = "started"
  PROVE  TableInv'
BY DEF TableInv, TableTypes, tlbVars, LayoutExpected

(* Every step keeps the table.                                             *)
LEMMA TableStep == TableInv /\ [Next]_vars => TableInv'
<1> SUFFICES ASSUME TableInv, [Next]_vars PROVE TableInv'
  OBVIOUS
<1>1. ASSUME NEW layout \in BarLayout, PrepareHardware(layout) PROVE TableInv'
  <2>1. /\ LayoutExpected(layout) /\ barLength' = layout /\ tlbOwner' = InitialTlbTable
        /\ layout \in [Bars -> Nat]
        /\ tlb4gCount' = IF layout[4] \div Tlb4gLen < Tlb4gMax
                         THEN layout[4] \div Tlb4gLen ELSE Tlb4gMax
    BY <1>1, PnpAssumption DEF PrepareHardware
  <2>2. layout[4] \in Nat
    BY <2>1 DEF Bars
  <2>3. PICK n \in Nat, q \in Nat : n = layout[4] /\ q = n \div Tlb4gLen /\ q * Tlb4gLen <= n
    <3>1. PICK n \in Nat : n = layout[4]
      BY <2>2
    <3>2. n \div Tlb4gLen \in Nat /\ n % Tlb4gLen \in Nat
          /\ n = (n \div Tlb4gLen) * Tlb4gLen + (n % Tlb4gLen)
      BY Layout, DivModSum
    <3>3. PICK q \in Nat : q = n \div Tlb4gLen
      BY <3>2
    <3>4. q * Tlb4gLen \in Nat
      BY Layout
    <3>5. q * Tlb4gLen <= n
      BY <3>2, <3>3, <3>4
    <3> QED  BY <3>1, <3>3, <3>5
  <2>4. tlb4gCount' \in 0 .. Tlb4gMax /\ tlb4gCount' <= q
    BY <2>1, <2>3, Layout
  <2>5. tlb4gCount' * Tlb4gLen <= barLength'[4]
    <3>1. PICK c \in Nat : c = tlb4gCount'
      BY <2>4, Layout
    <3>2. c * Tlb4gLen <= q * Tlb4gLen /\ c * Tlb4gLen \in Nat /\ q * Tlb4gLen \in Nat
      BY <2>4, <3>1, Layout, TimesMonotonic
    <3> QED  BY <2>1, <2>3, <3>1, <3>2
  <2>6. /\ tlbOwner' \in [0 .. TlbTotal - 1 -> File \cup { NoFile, Kernel }]
        /\ tlbOwner'[KernelTlbIndex] = Kernel
        /\ \A id \in 0 .. TlbTotal - 1 : tlbOwner'[id] \notin File
    BY <2>1, Layout, PnpAssumption DEF InitialTlbTable
  <2> QED  BY <2>1, <2>4, <2>5, <2>6, PnpAssumption DEF TableInv, TableTypes
<1>2. ASSUME NEW layout \in BarLayout, PrepareHardwareFails(layout) PROVE TableInv'
  BY <1>2, PnpAssumption DEF PrepareHardwareFails, tlbVars, TableInv, TableTypes
<1>3. CASE PowerDown \/ SurpriseRemoval
  BY <1>3, TableFrame DEF PowerDown, SurpriseRemoval
<1>4. CASE ReleaseHardware
  BY <1>4 DEF ReleaseHardware, tlbVars, TableInv, TableTypes, NoBars
<1>5. ASSUME NEW f \in File,
             \/ FileCreate(f) \/ SendAggregate(f) \/ FileCleanup(f) \/ NocWrite(f)
             \/ CleanupMemory(f) \/ CleanupTeardown(f)
             \/ (\E b \in BOOLEAN : SetNocCleanup(f, b))
             \/ CallerRequest(f) \/ CallerHandler(f) \/ ProcessNotify(f)
             \/ ConfigureOutboundAtu(f)
      PROVE  TableInv'
  <2>1. UNCHANGED << pnpVars, tlbVars >>
    BY <1>5 DEF FileCreate, SendAggregate, FileCleanup, NocWrite, CleanupMemory,
                CleanupTeardown, SetNocCleanup, CallerRequest, CallerHandler, ProcessNotify,
                ConfigureOutboundAtu
  <2> QED  BY <2>1, TableFrame DEF pnpVars
<1>6. ASSUME NEW f \in File, CleanupWindows(f) PROVE TableInv'
  <2>1. /\ UNCHANGED << pnp, barLength, tlb4gCount >>
        /\ tlbOwner' = [id \in 0 .. TlbTotal - 1 |->
                          IF tlbOwner[id] = f THEN NoFile ELSE tlbOwner[id]]
    BY <1>6 DEF CleanupWindows, pnpVars
  <2>2. \A id \in 0 .. TlbTotal - 1 : tlbOwner'[id] \in { tlbOwner[id], NoFile }
    BY <2>1
  <2>3. tlbOwner[KernelTlbIndex] \notin File => tlbOwner'[KernelTlbIndex] = tlbOwner[KernelTlbIndex]
    BY <2>1, Layout
  <2>4. TableTypes'
    BY <2>1 DEF TableInv, TableTypes
  <2> QED  BY <2>1, <2>2, <2>3, <2>4, PnpAssumption DEF TableInv, LayoutExpected
<1>7. ASSUME NEW f \in File, NEW first \in Nat, NEW count \in Nat,
             first + count <= Tlb2mCount + tlb4gCount, AllocateTlb(f, first, count)
      PROVE  TableInv'
  <2>1. PICK id \in first .. first + count - 1 :
          tlbOwner[id] = NoFile /\ tlbOwner' = [tlbOwner EXCEPT ![id] = f]
    BY <1>7 DEF AllocateTlb
  <2>2. pnp = "started" /\ UNCHANGED << pnp, barLength, tlb4gCount >>
    BY <1>7 DEF AllocateTlb, Queued, pnpVars
  <2>3. tlb4gCount \in 0 .. Tlb4gMax
    BY DEF TableInv, TableTypes
  <2>4. id \in 0 .. TlbTotal - 1 /\ id < Tlb2mCount + tlb4gCount
    BY <1>7, <2>3, Layout DEF TlbTotal
  <2>5. id # KernelTlbIndex
    BY <2>1, <2>2, PnpAssumption DEF TableInv
  <2>6. TableTypes'
    BY <2>1, <2>2 DEF TableInv, TableTypes
  <2> QED  BY <2>1, <2>2, <2>4, <2>5, <2>6, Layout DEF TableInv, TableTypes, LayoutExpected
<1>8. ASSUME NEW f \in File, NEW id \in WindowPool, FreeTlb(f, id) PROVE TableInv'
  <2>1. /\ tlbOwner[id] = f /\ tlbOwner' = [tlbOwner EXCEPT ![id] = NoFile]
        /\ UNCHANGED << pnp, barLength, tlb4gCount >>
    BY <1>8 DEF FreeTlb, pnpVars
  <2>2. id # KernelTlbIndex
    BY <2>1 DEF TableInv
  <2>3. TableTypes'
    BY <2>1 DEF TableInv, TableTypes
  <2> QED  BY <2>1, <2>2, <2>3, Layout, PnpAssumption DEF TableInv, TableTypes, LayoutExpected
<1>9. CASE UNCHANGED vars
  BY <1>9, TableFrame DEF vars, tlbVars
<1>10. ASSUME NEW f \in File,
              AllocateTlb(f, 0, Tlb2mCount) \/ AllocateTlb(f, Tlb2mCount, tlb4gCount)
       PROVE  TableInv'
  <2>1. tlb4gCount \in Nat /\ Tlb2mCount \in Nat
    BY Layout DEF TableInv, TableTypes
  <2> QED  BY <1>7, <1>10, <2>1
<1> QED  BY <1>1, <1>2, <1>3, <1>4, <1>5, <1>6, <1>8, <1>9, <1>10 DEF Next

(* The table is right throughout.                                          *)
LEMMA TableInvariant == Spec => []TableInv
BY TableInit, TableStep, PTL DEF Spec

-----------------------------------------------------------------------------
(***************************************************************************)
(* Tokens: what TtResolveMapTarget makes of a number.                      *)
(***************************************************************************)

(* A token of a region lies below the DMA buffers and decodes to the region
   and the offset in it.                                                   *)
LEMMA TokenParts ==
  ASSUME NEW k \in 0 .. 7, NEW e \in Nat, e < ResourceSize
  PROVE  /\ k * ResourceSize + e \in Nat
         /\ (k * ResourceSize + e) \div ResourceSize = k
         /\ (k * ResourceSize + e) % ResourceSize = e
         /\ ~(k * ResourceSize + e >= DmaBase)
<1>1. k \in Nat /\ ResourceSize \in Nat \ {0}
  BY Layout
<1>2. (k * ResourceSize + e) \div ResourceSize = k /\ (k * ResourceSize + e) % ResourceSize = e
  BY <1>1, DivMod
<1>3. k * ResourceSize <= 7 * ResourceSize /\ k * ResourceSize \in Nat
  BY <1>1, TimesMonotonic
<1>4. k * ResourceSize + e < 8 * ResourceSize
  BY <1>1, <1>3
<1> QED  BY <1>1, <1>2, <1>3, <1>4, Layout

(* Where a window's encoding puts it: the windows of BAR4 above Rebase, the
   ones of BAR0 below, each at a multiple of its size.                     *)
LEMMA SmallWindow ==
  ASSUME NEW id \in 0 .. TlbTotal - 1, id < Tlb2mCount
  PROVE  /\ TlbDescribe(id) = [bar |-> 0, offset |-> id * TlbLen, size |-> TlbLen]
         /\ TlbEncoded(id) = id * TlbLen /\ id * TlbLen \in Nat
         /\ id * TlbLen + TlbLen <= Tlb2mCount * TlbLen
         /\ id * TlbLen < Rebase /\ id * TlbLen < ResourceSize
         /\ (id * TlbLen) \div TlbLen = id /\ (id * TlbLen) % TlbLen = 0
<1>1. id \in Nat /\ id + 1 \in Nat /\ id + 1 <= Tlb2mCount
  BY Layout
<1>2. TlbDescribe(id) = [bar |-> 0, offset |-> id * TlbLen, size |-> TlbLen]
  BY DEF TlbDescribe
<1>3. TlbEncoded(id) = id * TlbLen
  BY <1>2 DEF TlbEncoded
<1>4. (id + 1) * TlbLen <= Tlb2mCount * TlbLen
  BY <1>1, Layout, TimesMonotonic
<1>5. (id + 1) * TlbLen = id * TlbLen + TlbLen /\ id * TlbLen \in Nat
  BY <1>1, Layout
<1>6. id * TlbLen + TlbLen <= Tlb2mCount * TlbLen /\ Tlb2mCount * TlbLen \in Nat
  BY <1>4, <1>5, Layout
<1>7. id * TlbLen < Rebase
  BY <1>5, <1>6, Layout
<1>8. Rebase <= ResourceSize
  <2>1. Tlb4gMax * Tlb4gLen \in Nat
    BY Layout
  <2> QED  BY <2>1, Layout
<1>9. (id * TlbLen + 0) \div TlbLen = id /\ (id * TlbLen + 0) % TlbLen = 0
  BY <1>1, Layout, DivMod
<1>10. id * TlbLen + 0 = id * TlbLen
  BY <1>5
<1>11. id * TlbLen < ResourceSize
  BY <1>5, <1>7, <1>8, Layout
<1>12. (id * TlbLen) \div TlbLen = id /\ (id * TlbLen) % TlbLen = 0
  BY <1>9, <1>10
<1> QED  BY <1>2, <1>3, <1>5, <1>6, <1>7, <1>11, <1>12

(* The same for a window of BAR4, counted from the first of them.          *)
LEMMA LargeWindow ==
  ASSUME NEW n \in 0 .. Tlb4gMax - 1
  PROVE  /\ Tlb2mCount + n \in 0 .. TlbTotal - 1
         /\ TlbDescribe(Tlb2mCount + n) = [bar |-> 4, offset |-> n * Tlb4gLen, size |-> Tlb4gLen]
         /\ TlbEncoded(Tlb2mCount + n) = Rebase + n * Tlb4gLen /\ n * Tlb4gLen \in Nat
         /\ Rebase + n * Tlb4gLen < ResourceSize
         /\ (n * Tlb4gLen) \div Tlb4gLen = n /\ (n * Tlb4gLen) % Tlb4gLen = 0
<1>1. n \in Nat /\ n + 1 \in Nat /\ n + 1 <= Tlb4gMax
  BY Layout
<1>2. /\ Tlb2mCount + n \in 0 .. TlbTotal - 1 /\ ~(Tlb2mCount + n < Tlb2mCount)
      /\ (Tlb2mCount + n) - Tlb2mCount = n
  BY <1>1, Layout DEF TlbTotal
<1>3. TlbDescribe(Tlb2mCount + n) = [bar |-> 4, offset |-> n * Tlb4gLen, size |-> Tlb4gLen]
  BY <1>2 DEF TlbDescribe
<1>4. TlbEncoded(Tlb2mCount + n) = Rebase + n * Tlb4gLen
  BY <1>3 DEF TlbEncoded
<1>5. (n + 1) * Tlb4gLen <= Tlb4gMax * Tlb4gLen /\ Tlb4gMax * Tlb4gLen \in Nat
  BY <1>1, Layout, TimesMonotonic
<1>6. (n + 1) * Tlb4gLen = n * Tlb4gLen + Tlb4gLen /\ n * Tlb4gLen \in Nat
  BY <1>1, Layout
<1>7. Rebase + n * Tlb4gLen < ResourceSize
  BY <1>5, <1>6, Layout
<1>8. (n * Tlb4gLen + 0) \div Tlb4gLen = n /\ (n * Tlb4gLen + 0) % Tlb4gLen = 0
  BY <1>1, Layout, DivMod
<1>9. n * Tlb4gLen + 0 = n * Tlb4gLen
  BY <1>6
<1>10. (n * Tlb4gLen) \div Tlb4gLen = n /\ (n * Tlb4gLen) % Tlb4gLen = 0
  BY <1>8, <1>9
<1> QED  BY <1>2, <1>3, <1>4, <1>6, <1>7, <1>10

(* A token of region 6 or 7 is never one of a BAR, one of region 0 to 5 never
   one of a window.                                                        *)
LEMMA RegionsApart ==
  ASSUME NEW k \in 0 .. 7, NEW e \in Nat, e < ResourceSize, NEW length, NEW lengths,
         NEW owner, NEW bufs, NEW f
  PROVE  ResolveMapTarget(k * ResourceSize + e, length, lengths, owner, bufs, f) =
           IF k < 6 THEN ResolveBar(k * ResourceSize + e, length, lengths)
           ELSE ResolveTlb(k * ResourceSize + e, length, lengths, owner, f)
<1>1. PICK token \in Nat : token = k * ResourceSize + e
  BY TokenParts
<1>2. token \div ResourceSize = k /\ ~(token >= DmaBase)
  BY <1>1, TokenParts
<1>3. ResolveMapTarget(token, length, lengths, owner, bufs, f) =
        ResolveBar(token, length, lengths) \cup ResolveTlb(token, length, lengths, owner, f)
  BY <1>2 DEF ResolveMapTarget
<1>4. CASE k < 6
  <2>1. ResolveTlb(token, length, lengths, owner, f) = {}
    BY <1>2, <1>4 DEF ResolveTlb
  <2> QED  BY <1>1, <1>3, <1>4, <2>1
<1>5. CASE ~(k < 6)
  <2>1. ResolveBar(token, length, lengths) = {}
    BY <1>2, <1>5 DEF ResolveBar
  <2> QED  BY <1>1, <1>3, <1>5, <2>1
<1> QED  BY <1>4, <1>5

(* A token resolves to one target.                                         *)
ResolvesTo(token, length, lengths, owner, bufs, f, target) ==
  ResolveMapTarget(token, length, lengths, owner, bufs, f) = { target }

(* The token of a window the handle owns resolves to that window.          *)
LEMMA WindowRound ==
  ASSUME NEW id \in 0 .. TlbTotal - 1, NEW wc \in BOOLEAN, NEW lengths \in [Bars -> Nat],
         NEW owner, NEW bufs, NEW f, owner[id] = f,
         NEW w, w = TlbDescribe(id), w.offset + w.size <= lengths[w.bar],
         NEW length \in ViewLengths(w.size),
         NEW cache, cache = IF wc THEN WriteCombined ELSE Uncached
  PROVE  ResolvesTo(TlbToken(id, wc), length, lengths, owner, bufs, f,
                    Target("window", id, w.bar, w.offset, cache))
<1>1. PICK k \in 0 .. 7 : k = IF wc THEN 7 ELSE 6
  OBVIOUS
<1>2. CASE id < Tlb2mCount
  <2>1. PICK e \in Nat : e = id * TlbLen
    BY <1>2, SmallWindow
  <2>2. /\ TlbDescribe(id) = [bar |-> 0, offset |-> e, size |-> TlbLen]
        /\ TlbEncoded(id) = e /\ e < Rebase /\ e < ResourceSize
        /\ e \div TlbLen = id /\ e % TlbLen = 0
    BY <1>2, <2>1, SmallWindow
  <2>3. PICK token \in Nat : token = k * ResourceSize + e
    BY <2>2, TokenParts
  <2>4. TlbToken(id, wc) = token
    BY <1>1, <2>2, <2>3 DEF TlbToken
  <2>5. token \div ResourceSize = k /\ token % ResourceSize = e
    BY <2>2, <2>3, TokenParts
  <2>6. ResolveMapTarget(token, length, lengths, owner, bufs, f) =
          ResolveTlb(token, length, lengths, owner, f)
    BY <1>1, <2>2, <2>3, RegionsApart
  <2>7. /\ WindowAligned(e, length) /\ id < TlbTotal /\ e + length <= lengths[0]
        /\ k \in 6 .. 7
    <3>1. length \in Nat /\ length <= TlbLen /\ e + TlbLen <= lengths[0] /\ lengths[0] \in Nat
      BY <2>2, Layout DEF ViewLengths, Bars
    <3> QED  BY <1>1, <2>2, <3>1, Layout DEF WindowAligned
  <2>8. ResolveTlb(token, length, lengths, owner, f) =
          { Target("window", id, 0, e, IF k = 7 THEN WriteCombined ELSE Uncached) }
    BY <2>2, <2>5, <2>7 DEF ResolveTlb
  <2> QED  BY <1>1, <2>2, <2>4, <2>6, <2>8 DEF ResolvesTo
<1>3. CASE ~(id < Tlb2mCount)
  <2>1. PICK n \in 0 .. Tlb4gMax - 1 : id = Tlb2mCount + n
    <3>1. id - Tlb2mCount \in 0 .. Tlb4gMax - 1 /\ id = Tlb2mCount + (id - Tlb2mCount)
      BY <1>3, Layout DEF TlbTotal
    <3> QED  BY <3>1
  <2>2. PICK o \in Nat : o = n * Tlb4gLen
    BY LargeWindow
  <2>3. PICK e \in Nat : e = Rebase + o
    BY Layout
  <2>4. /\ TlbDescribe(id) = [bar |-> 4, offset |-> o, size |-> Tlb4gLen]
        /\ TlbEncoded(id) = e /\ e < ResourceSize
        /\ o \div Tlb4gLen = n /\ o % Tlb4gLen = 0
    BY <2>1, <2>2, <2>3, LargeWindow
  <2>5. ~(e < Rebase) /\ e - Rebase = o
    BY <2>3, Layout
  <2>6. PICK token \in Nat : token = k * ResourceSize + e
    BY <2>4, TokenParts
  <2>7. TlbToken(id, wc) = token
    BY <1>1, <2>4, <2>6 DEF TlbToken
  <2>8. token \div ResourceSize = k /\ token % ResourceSize = e
    BY <2>4, <2>6, TokenParts
  <2>9. ResolveMapTarget(token, length, lengths, owner, bufs, f) =
          ResolveTlb(token, length, lengths, owner, f)
    BY <1>1, <2>4, <2>6, RegionsApart
  <2>10. /\ WindowAligned(e, length) /\ id < TlbTotal /\ o + length <= lengths[4]
         /\ k \in 6 .. 7
    <3>1. length \in Nat /\ length <= Tlb4gLen /\ o + Tlb4gLen <= lengths[4] /\ lengths[4] \in Nat
      BY <2>4, Layout DEF ViewLengths, Bars
    <3> QED  BY <1>1, <2>4, <2>5, <3>1, Layout DEF WindowAligned
  <2>11. ResolveTlb(token, length, lengths, owner, f) =
           { Target("window", id, 4, o, IF k = 7 THEN WriteCombined ELSE Uncached) }
    BY <2>1, <2>4, <2>5, <2>8, <2>10 DEF ResolveTlb
  <2> QED  BY <1>1, <2>4, <2>7, <2>9, <2>11 DEF ResolvesTo
<1> QED  BY <1>2, <1>3

(* The token of a BAR that exists, plus an offset in it, resolves to that part
   of the BAR.                                                             *)
LEMMA BarRound ==
  ASSUME NEW bar \in Bars, NEW wc \in BOOLEAN, NEW lengths \in [Bars -> Nat],
         NEW at \in 0 .. ResourceSize - 1, at < lengths[bar],
         NEW length \in ViewLengths(lengths[bar] - at), NEW owner, NEW bufs, NEW f
  PROVE  ResolvesTo(BarToken(bar, wc) + at, length, lengths, owner, bufs, f,
                    Target("bar", 0, bar, at, CacheOf(wc)))
<1>1. PICK k \in 0 .. 7 : k = bar + (IF wc THEN 1 ELSE 0)
  BY DEF Bars
<1>2. /\ k < 6 /\ 2 * (k \div 2) = bar
      /\ (IF k % 2 = 1 THEN WriteCombined ELSE Uncached) = CacheOf(wc)
  BY <1>1 DEF Bars, CacheOf
<1>3. at \in Nat /\ at < ResourceSize
  BY Layout
<1>4. PICK token \in Nat : token = k * ResourceSize + at
  BY <1>3, TokenParts
<1>5. token = BarToken(bar, wc) + at
  BY <1>1, <1>4 DEF BarToken
<1>6. token \div ResourceSize = k /\ token % ResourceSize = at
  BY <1>3, <1>4, TokenParts
<1>7. ResolveMapTarget(token, length, lengths, owner, bufs, f) =
        ResolveBar(token, length, lengths)
  BY <1>2, <1>3, <1>4, RegionsApart
<1>8. length <= lengths[bar] - at
  <2>1. PICK n \in Nat : n = lengths[bar] - at
    BY <1>3
  <2> QED  BY <2>1 DEF ViewLengths
<1>9. ResolveBar(token, length, lengths) =
        { Target("bar", 0, bar, at, IF k % 2 = 1 THEN WriteCombined ELSE Uncached) }
  BY <1>2, <1>6, <1>8 DEF ResolveBar
<1> QED  BY <1>2, <1>5, <1>7, <1>9 DEF ResolvesTo

(* The token of a buffer resolves to it.                                   *)
LEMMA BufferRound ==
  ASSUME NEW slot \in Slots, NEW bufs \in [Slots -> Nat],
         NEW length \in ViewLengths(bufs[slot]), NEW lengths, NEW owner, NEW f
  PROVE  ResolvesTo(DmaToken(slot), length, lengths, owner, bufs, f,
                    Target("buffer", slot, 0, 0, Cached))
<1>1. slot \in Nat /\ slot * DmaStride \in Nat
  BY Layout DEF Slots
<1>2. PICK token \in Nat : token = DmaToken(slot) /\ token >= DmaBase
  BY <1>1, Layout DEF DmaToken
<1>3. bufs[slot] # 0 /\ length <= bufs[slot]
  BY DEF ViewLengths
<1>4. \A s \in Slots : token = DmaBase + s * DmaStride <=> s = slot
  <2> SUFFICES ASSUME NEW s \in Slots PROVE token = DmaBase + s * DmaStride <=> s = slot
    OBVIOUS
  <2>1. s \in Nat /\ s * DmaStride \in Nat
    BY Layout DEF Slots
  <2>2. (s * DmaStride + 0) \div DmaStride = s /\ (slot * DmaStride + 0) \div DmaStride = slot
    BY <1>1, <2>1, Layout, DivMod
  <2>3. s * DmaStride + 0 = s * DmaStride /\ slot * DmaStride + 0 = slot * DmaStride
    BY <1>1, <2>1
  <2>4. s * DmaStride = slot * DmaStride => s = slot
    BY <2>2, <2>3
  <2>5. token = DmaBase + slot * DmaStride
    BY <1>2 DEF DmaToken
  <2>6. token = DmaBase + s * DmaStride => s * DmaStride = slot * DmaStride
    BY <1>1, <2>1, <2>5, Layout
  <2> QED  BY <2>4, <2>5, <2>6
<1>5. { s \in Slots : token = DmaBase + s * DmaStride /\ bufs[s] # 0 /\ length <= bufs[s] }
        = { slot }
  BY <1>3, <1>4
<1>6. ResolveDmaBuf(token, length, bufs) = { Target("buffer", slot, 0, 0, Cached) }
  BY <1>5 DEF ResolveDmaBuf, Slots
<1>7. ResolveMapTarget(token, length, lengths, owner, bufs, f) = ResolveDmaBuf(token, length, bufs)
  BY <1>2 DEF ResolveMapTarget
<1> QED  BY <1>2, <1>6, <1>7 DEF ResolvesTo

(* The tokens given out start at pages.                                    *)
LEMMA TokensPaged ==
  /\ \A id \in 0 .. TlbTotal - 1, wc \in BOOLEAN : TlbToken(id, wc) % PageSize = 0
  /\ \A bar \in Bars, wc \in BOOLEAN, at \in Nat :
       at % PageSize = 0 => (BarToken(bar, wc) + at) % PageSize = 0
  /\ \A slot \in Slots : DmaToken(slot) % PageSize = 0
<1>0. /\ ResourceSize % PageSize = 0 /\ TlbLen % PageSize = 0 /\ Tlb4gLen % PageSize = 0
      /\ Rebase % PageSize = 0 /\ DmaBase % PageSize = 0 /\ DmaStride % PageSize = 0
  BY TokenLayout
<1>1. ASSUME NEW id \in 0 .. TlbTotal - 1, NEW wc \in BOOLEAN
      PROVE  TlbToken(id, wc) % PageSize = 0
  <2>1. PICK e \in Nat : e = TlbEncoded(id) /\ e % PageSize = 0
    <3>1. CASE id < Tlb2mCount
      <4>1. TlbEncoded(id) = id * TlbLen /\ id * TlbLen \in Nat /\ id \in Nat
        BY <3>1, SmallWindow, Layout
      <4>2. (id * TlbLen) % PageSize = 0
        BY <1>0, <4>1, PagedTimes, Layout
      <4> QED  BY <4>1, <4>2
    <3>2. CASE ~(id < Tlb2mCount)
      <4>1. PICK n \in 0 .. Tlb4gMax - 1 : id = Tlb2mCount + n
        <5>1. id - Tlb2mCount \in 0 .. Tlb4gMax - 1 /\ id = Tlb2mCount + (id - Tlb2mCount)
          BY <3>2, Layout DEF TlbTotal
        <5> QED  BY <5>1
      <4>2. TlbEncoded(id) = Rebase + n * Tlb4gLen /\ n * Tlb4gLen \in Nat
        BY <4>1, LargeWindow
      <4>3. n \in Nat /\ Tlb4gLen \in Nat /\ Rebase \in Nat
        BY Layout
      <4>4. (n * Tlb4gLen) % PageSize = 0
        BY <1>0, <4>3, PagedTimes
      <4>5. (Rebase + n * Tlb4gLen) % PageSize = 0
        BY <1>0, <4>2, <4>3, <4>4, PagedSum
      <4>6. Rebase + n * Tlb4gLen \in Nat
        BY <4>2, <4>3
      <4> QED  BY <4>2, <4>5, <4>6
    <3> QED  BY <3>1, <3>2
  <2>2. PICK k \in Nat : k = IF wc THEN 7 ELSE 6
    OBVIOUS
  <2>3. (k * ResourceSize) % PageSize = 0 /\ k * ResourceSize \in Nat
    <3>1. ResourceSize \in Nat
      BY Layout
    <3>2. (k * ResourceSize) % PageSize = 0
      BY <1>0, <3>1, PagedTimes
    <3> QED  BY <3>1, <3>2
  <2>4. (k * ResourceSize + e) % PageSize = 0
    BY <2>1, <2>3, PagedSum
  <2> QED  BY <2>1, <2>2, <2>4 DEF TlbToken
<1>2. ASSUME NEW bar \in Bars, NEW wc \in BOOLEAN, NEW at \in Nat, at % PageSize = 0
      PROVE  (BarToken(bar, wc) + at) % PageSize = 0
  <2>1. PICK k \in Nat : k = bar + (IF wc THEN 1 ELSE 0)
    BY DEF Bars
  <2>2. (k * ResourceSize) % PageSize = 0 /\ k * ResourceSize \in Nat
    <3>1. ResourceSize \in Nat
      BY Layout
    <3>2. (k * ResourceSize) % PageSize = 0
      BY <1>0, <3>1, PagedTimes
    <3> QED  BY <3>1, <3>2
  <2>3. (k * ResourceSize + at) % PageSize = 0
    BY <1>2, <2>2, PagedSum
  <2> QED  BY <2>1, <2>3 DEF BarToken
<1>3. ASSUME NEW slot \in Slots PROVE DmaToken(slot) % PageSize = 0
  <2>1. slot \in Nat /\ slot * DmaStride \in Nat
    BY Layout DEF Slots
  <2>2. (slot * DmaStride) % PageSize = 0
    BY <1>0, <2>1, PagedTimes, Layout
  <2>3. (DmaBase + slot * DmaStride) % PageSize = 0
    BY <1>0, <2>1, <2>2, PagedSum, Layout
  <2> QED  BY <2>3 DEF DmaToken
<1> QED  BY <1>1, <1>2, <1>3

(* What MAP's own checks leave of a token that resolves.                   *)
LEMMA MapsWhatResolves ==
  ASSUME NEW token, NEW n \in Nat, NEW length \in ViewLengths(n), NEW lengths, NEW owner,
         NEW bufs, NEW f, NEW target, token % PageSize = 0,
         ResolvesTo(token, length, lengths, owner, bufs, f, target)
  PROVE  MapTarget(token, length, lengths, owner, bufs, f) = { target }
<1>1. length # 0 /\ length % PageSize = 0 /\ length <= MaxLength
  BY DEF ViewLengths
<1> QED  BY <1>1 DEF MapTarget, ResolvesTo

(* The driver maps the tokens it gave out to the objects it gave them out for,
   windows, BARs and buffers, in every length MAP takes, for every layout of
   the BARs and the tokens.                                                *)
THEOREM TokensResolve == Spec => []TokenRoundTrip
<1>1. TableInv => TokenRoundTrip
  <2> SUFFICES ASSUME TableInv, NEW f \in File, NEW bufs \in [Slots -> BufSizes]
               PROVE  /\ WindowTokensResolve(f, bufs)
                      /\ BarTokensResolve(f, bufs)
                      /\ BufferTokensResolve(f, bufs)
    BY DEF TokenRoundTrip
  <2>0. /\ barLength \in [Bars -> Nat] /\ tlb4gCount \in 0 .. Tlb4gMax
        /\ bufs \in [Slots -> Nat]
    BY PnpAssumption DEF TableInv, TableTypes
  <2>1. ASSUME NEW id \in 0 .. TlbTotal - 1, NEW wc \in BOOLEAN,
               pnp = "started", tlbOwner[id] = f,
               NEW length \in ViewLengths(TlbDescribe(id).size)
        PROVE  MapOf(f, bufs, TlbToken(id, wc), length) =
                 { Target("window", id, TlbDescribe(id).bar, TlbDescribe(id).offset, CacheOf(wc)) }
    <3>1. TlbDescribe(id).offset + TlbDescribe(id).size <= barLength[TlbDescribe(id).bar]
      <4>1. CASE id < Tlb2mCount
        <5>1. /\ TlbDescribe(id) = [bar |-> 0, offset |-> id * TlbLen, size |-> TlbLen]
              /\ id * TlbLen + TlbLen <= Tlb2mCount * TlbLen /\ id * TlbLen \in Nat
          BY <4>1, SmallWindow
        <5>2. Tlb2mCount * TlbLen <= barLength[0] /\ barLength[0] \in Nat /\ Tlb2mCount * TlbLen \in Nat
          BY <2>0, <2>1, PnpAssumption, Layout DEF TableInv, LayoutExpected, Bars
        <5>3. id * TlbLen + TlbLen <= barLength[0]
          BY <5>1, <5>2, Layout
        <5> QED  BY <5>1, <5>3
      <4>2. CASE ~(id < Tlb2mCount)
        <5>1. PICK n \in 0 .. Tlb4gMax - 1 : id = Tlb2mCount + n
          <6>1. id - Tlb2mCount \in 0 .. Tlb4gMax - 1 /\ id = Tlb2mCount + (id - Tlb2mCount)
            BY <4>2, Layout DEF TlbTotal
          <6> QED  BY <6>1
        <5>2. id < Tlb2mCount + tlb4gCount
          BY <2>1 DEF TableInv
        <5>3. PICK c \in Nat : c = tlb4gCount /\ n + 1 <= c
          BY <2>0, <5>1, <5>2, Layout
        <5>4. (n + 1) * Tlb4gLen <= c * Tlb4gLen /\ c * Tlb4gLen \in Nat
          BY <5>3, Layout, TimesMonotonic
        <5>5. (n + 1) * Tlb4gLen = n * Tlb4gLen + Tlb4gLen /\ n * Tlb4gLen \in Nat
          BY Layout
        <5>6. c * Tlb4gLen <= barLength[4] /\ barLength[4] \in Nat
          BY <2>0, <2>1, <5>3 DEF TableInv, Bars
        <5>7. n * Tlb4gLen + Tlb4gLen <= barLength[4]
          BY <5>4, <5>5, <5>6, Layout
        <5>8. TlbDescribe(id) = [bar |-> 4, offset |-> n * Tlb4gLen, size |-> Tlb4gLen]
          BY <5>1, LargeWindow
        <5> QED  BY <5>7, <5>8
      <4> QED  BY <4>1, <4>2
    <3>2. PICK lengths, owner :
            lengths \in [Bars -> Nat] /\ lengths = barLength /\ owner = tlbOwner
      BY <2>0
    <3>3. PICK w, cache : w = TlbDescribe(id) /\ cache = IF wc THEN WriteCombined ELSE Uncached
      OBVIOUS
    <3>4. owner[id] = f /\ w.offset + w.size <= lengths[w.bar] /\ length \in ViewLengths(w.size)
      BY <2>1, <3>1, <3>2, <3>3
    <3>5. ResolvesTo(TlbToken(id, wc), length, lengths, owner, bufs, f,
                     Target("window", id, w.bar, w.offset, cache))
      BY <3>2, <3>3, <3>4, WindowRound
    <3>6. w.size \in Nat /\ TlbToken(id, wc) % PageSize = 0
      BY <3>3, TokensPaged, Layout DEF TlbDescribe
    <3>7. MapTarget(TlbToken(id, wc), length, lengths, owner, bufs, f) =
            { Target("window", id, w.bar, w.offset, cache) }
      BY <3>4, <3>5, <3>6, MapsWhatResolves
    <3> QED  BY <3>2, <3>3, <3>7 DEF MapOf, CacheOf
  <2>2. ASSUME NEW bar \in Bars, NEW wc \in BOOLEAN, NEW at \in 0 .. ResourceSize - 1,
               at % PageSize = 0, at < barLength[bar],
               NEW length \in ViewLengths(barLength[bar] - at)
        PROVE  MapOf(f, bufs, BarToken(bar, wc) + at, length) =
                 { Target("bar", 0, bar, at, CacheOf(wc)) }
    <3>1. PICK lengths, owner :
            lengths \in [Bars -> Nat] /\ lengths = barLength /\ owner = tlbOwner
      BY <2>0
    <3>2. /\ at < lengths[bar] /\ length \in ViewLengths(lengths[bar] - at)
          /\ at \in Nat /\ lengths[bar] - at \in Nat
      BY <2>2, <3>1, Layout
    <3>3. ResolvesTo(BarToken(bar, wc) + at, length, lengths, owner, bufs, f,
                     Target("bar", 0, bar, at, CacheOf(wc)))
      BY <3>1, <3>2, BarRound
    <3>4. (BarToken(bar, wc) + at) % PageSize = 0
      BY <2>2, <3>2, TokensPaged
    <3>5. MapTarget(BarToken(bar, wc) + at, length, lengths, owner, bufs, f) =
            { Target("bar", 0, bar, at, CacheOf(wc)) }
      BY <3>2, <3>3, <3>4, MapsWhatResolves
    <3> QED  BY <3>1, <3>5 DEF MapOf
  <2>3. ASSUME NEW slot \in Slots, NEW length \in ViewLengths(bufs[slot])
        PROVE  MapOf(f, bufs, DmaToken(slot), length) = { Target("buffer", slot, 0, 0, Cached) }
    <3>1. ResolvesTo(DmaToken(slot), length, barLength, tlbOwner, bufs, f,
                     Target("buffer", slot, 0, 0, Cached))
      BY <2>0, BufferRound
    <3>2. bufs[slot] \in Nat /\ DmaToken(slot) % PageSize = 0
      BY <2>0, TokensPaged
    <3> QED  BY <3>1, <3>2, MapsWhatResolves DEF MapOf
  <2> QED  BY <2>1, <2>2, <2>3 DEF WindowTokensResolve, BarTokensResolve, BufferTokensResolve
<1> QED  BY <1>1, TableInvariant, PTL

-----------------------------------------------------------------------------
(* Two aligned ranges of one size that overlap are the same range.         *)
LEMMA AlignedOverlap ==
  ASSUME NEW a \in Nat, NEW b \in Nat, NEW len \in Nat \ {0}, NEW n \in Nat, n <= len,
         a * len < b * len + len, b * len < a * len + n
  PROVE  a = b
<1>1. a * len \in Nat /\ b * len \in Nat
  OBVIOUS
<1>2. ~(a + 1 <= b)
  <2>1. SUFFICES ASSUME a + 1 <= b PROVE FALSE
    OBVIOUS
  <2>2. (a + 1) * len <= b * len
    BY <2>1, TimesMonotonic
  <2>3. (a + 1) * len = a * len + len
    OBVIOUS
  <2> QED  BY <1>1, <2>2, <2>3
<1>3. ~(b + 1 <= a)
  <2>1. SUFFICES ASSUME b + 1 <= a PROVE FALSE
    OBVIOUS
  <2>2. (b + 1) * len <= a * len
    BY <2>1, TimesMonotonic
  <2>3. (b + 1) * len = b * len + len
    OBVIOUS
  <2> QED  BY <1>1, <2>2, <2>3
<1> QED  BY <1>2, <1>3

(* A token of the window regions resolves to windows.                      *)
LEMMA WindowRegion ==
  ASSUME NEW token \in 6 * ResourceSize .. 8 * ResourceSize - 1, NEW length, NEW lengths,
         NEW owner, NEW bufs, NEW f,
         NEW t \in ResolveMapTarget(token, length, lengths, owner, bufs, f)
  PROVE  t \in ResolveTlb(token, length, lengths, owner, f)
<1>0. token \in Nat /\ ~(token >= DmaBase)
  BY Layout
<1>1. PICK k \in Nat, e \in Nat :
        k = token \div ResourceSize /\ token = k * ResourceSize + e /\ e < ResourceSize
  BY <1>0, Layout, DivModSum
<1>2. ~(k < 6)
  <2>1. SUFFICES ASSUME k + 1 <= 6 PROVE FALSE
    OBVIOUS
  <2>2. (k + 1) * ResourceSize <= 6 * ResourceSize
    BY <2>1, Layout, TimesMonotonic
  <2>3. (k + 1) * ResourceSize = k * ResourceSize + ResourceSize /\ k * ResourceSize \in Nat
    BY Layout
  <2> QED  BY <1>0, <1>1, <2>2, <2>3, Layout
<1>3. ResolveBar(token, length, lengths) = {}
  BY <1>1, <1>2 DEF ResolveBar
<1> QED  BY <1>0, <1>3 DEF ResolveMapTarget

(* Whatever token a window region holds, what it resolves to touches windows
   of the handle only.                                                     *)
LEMMA WindowOwned ==
  ASSUME NEW token \in 6 * ResourceSize .. 8 * ResourceSize - 1, NEW length \in Nat \ {0},
         NEW lengths \in [Bars -> Nat], NEW owner, NEW bufs, NEW f, owner[KernelTlbIndex] # f,
         NEW t \in ResolveMapTarget(token, length, lengths, owner, bufs, f),
         NEW id \in 0 .. TlbTotal - 1,
         TlbDescribe(id).bar = t.bar,
         t.offset < TlbDescribe(id).offset + TlbDescribe(id).size,
         TlbDescribe(id).offset < t.offset + length
  PROVE  owner[id] = f /\ id # KernelTlbIndex
<1>0. token \in Nat
  BY Layout
<1>1. PICK k \in Nat, e \in Nat :
        /\ k = token \div ResourceSize /\ e = token % ResourceSize
        /\ token = k * ResourceSize + e /\ e < ResourceSize
  BY <1>0, Layout, DivModSum
<1>2. t \in ResolveTlb(token, length, lengths, owner, f)
  BY WindowRegion
<1>3. CASE e < Rebase
  <2>1. PICK n \in Nat : n = e \div TlbLen /\ e = n * TlbLen + (e % TlbLen)
    BY Layout, DivModSum
  <2>2. /\ t = Target("window", n, 0, e, IF k = 7 THEN WriteCombined ELSE Uncached)
        /\ WindowAligned(e, length) /\ owner[n] = f
    BY <1>1, <1>2, <1>3, <2>1 DEF ResolveTlb
  <2>3. t.bar = 0 /\ t.offset = e /\ e % TlbLen = 0 /\ length <= TlbLen
    BY <1>3, <2>2 DEF Target, WindowAligned
  <2>4. e = n * TlbLen
    BY <2>1, <2>3, Layout
  <2>5. id < Tlb2mCount
    BY <2>3 DEF TlbDescribe
  <2>6. TlbDescribe(id) = [bar |-> 0, offset |-> id * TlbLen, size |-> TlbLen]
    BY <2>5 DEF TlbDescribe
  <2>7. n * TlbLen < id * TlbLen + TlbLen /\ id * TlbLen < n * TlbLen + length
    BY <2>3, <2>4, <2>6
  <2>8. id \in Nat /\ TlbLen \in Nat \ {0}
    BY Layout
  <2>9. n = id
    BY <2>3, <2>7, <2>8, AlignedOverlap
  <2> QED  BY <2>2, <2>9
<1>4. CASE ~(e < Rebase)
  <2>0. PICK o \in Nat : o = e - Rebase
    BY <1>4, Layout
  <2>1. PICK n \in Nat : n = o \div Tlb4gLen /\ o = n * Tlb4gLen + (o % Tlb4gLen)
    BY Layout, DivModSum
  <2>2. /\ t = Target("window", Tlb2mCount + n, 4, o,
                      IF k = 7 THEN WriteCombined ELSE Uncached)
        /\ WindowAligned(e, length) /\ owner[Tlb2mCount + n] = f
    BY <1>1, <1>2, <1>4, <2>0, <2>1 DEF ResolveTlb
  <2>3. t.bar = 4 /\ t.offset = o /\ o % Tlb4gLen = 0 /\ length <= Tlb4gLen
    BY <1>4, <2>0, <2>2 DEF Target, WindowAligned
  <2>4. o = n * Tlb4gLen
    BY <2>1, <2>3, Layout
  <2>5. ~(id < Tlb2mCount)
    BY <2>3 DEF TlbDescribe
  <2>6. PICK m \in Nat : id = Tlb2mCount + m /\ m = id - Tlb2mCount
    BY <2>5, Layout
  <2>7. TlbDescribe(id) = [bar |-> 4, offset |-> m * Tlb4gLen, size |-> Tlb4gLen]
    BY <2>5, <2>6 DEF TlbDescribe
  <2>8. n * Tlb4gLen < m * Tlb4gLen + Tlb4gLen /\ m * Tlb4gLen < n * Tlb4gLen + length
    BY <2>3, <2>4, <2>7
  <2>9. Tlb4gLen \in Nat \ {0}
    BY Layout
  <2>10. n = m
    BY <2>3, <2>8, <2>9, AlignedOverlap
  <2> QED  BY <2>2, <2>6, <2>10, Layout
<1> QED  BY <1>3, <1>4

(* It starts at the window of its number, or behind all windows of BAR0.   *)
LEMMA WindowPlace ==
  ASSUME NEW token \in 6 * ResourceSize .. 8 * ResourceSize - 1, NEW length \in Nat \ {0},
         NEW lengths \in [Bars -> Nat], NEW owner, NEW bufs, NEW f,
         NEW t \in ResolveMapTarget(token, length, lengths, owner, bufs, f)
  PROVE  \/ t.bar = TlbDescribe(t.id).bar /\ t.offset = TlbDescribe(t.id).offset
         \/ t.bar = 0 /\ t.offset >= Tlb2mCount * TlbLen
<1>0. token \in Nat
  BY Layout
<1>1. PICK k \in Nat, e \in Nat :
        /\ k = token \div ResourceSize /\ e = token % ResourceSize
        /\ token = k * ResourceSize + e /\ e < ResourceSize
  BY <1>0, Layout, DivModSum
<1>2. t \in ResolveTlb(token, length, lengths, owner, f)
  BY WindowRegion
<1>3. CASE e < Rebase
  <2>1. PICK n \in Nat : n = e \div TlbLen /\ e = n * TlbLen + (e % TlbLen)
    BY Layout, DivModSum
  <2>2. /\ t = Target("window", n, 0, e, IF k = 7 THEN WriteCombined ELSE Uncached)
        /\ WindowAligned(e, length)
    BY <1>1, <1>2, <1>3, <2>1 DEF ResolveTlb
  <2>3. t.bar = 0 /\ t.offset = e /\ t.id = n /\ e % TlbLen = 0
    BY <1>3, <2>2 DEF Target, WindowAligned
  <2>4. e = n * TlbLen
    BY <2>1, <2>3, Layout
  <2>5. CASE n < Tlb2mCount
    BY <2>3, <2>4, <2>5 DEF TlbDescribe
  <2>6. CASE ~(n < Tlb2mCount)
    <3>1. Tlb2mCount <= n
      BY <2>6, Layout
    <3>2. Tlb2mCount * TlbLen <= n * TlbLen
      BY <3>1, Layout, TimesMonotonic
    <3> QED  BY <2>3, <2>4, <3>2
  <2> QED  BY <2>5, <2>6
<1>4. CASE ~(e < Rebase)
  <2>0. PICK o \in Nat : o = e - Rebase
    BY <1>4, Layout
  <2>1. PICK n \in Nat : n = o \div Tlb4gLen /\ o = n * Tlb4gLen + (o % Tlb4gLen)
    BY Layout, DivModSum
  <2>2. /\ t = Target("window", Tlb2mCount + n, 4, o,
                      IF k = 7 THEN WriteCombined ELSE Uncached)
        /\ WindowAligned(e, length)
    BY <1>1, <1>2, <1>4, <2>0, <2>1 DEF ResolveTlb
  <2>3. t.bar = 4 /\ t.offset = o /\ t.id = Tlb2mCount + n /\ o % Tlb4gLen = 0
    BY <1>4, <2>0, <2>2 DEF Target, WindowAligned
  <2>4. o = n * Tlb4gLen
    BY <2>1, <2>3, Layout
  <2>5. ~(Tlb2mCount + n < Tlb2mCount) /\ (Tlb2mCount + n) - Tlb2mCount = n
    BY Layout
  <2>6. TlbDescribe(Tlb2mCount + n) = [bar |-> 4, offset |-> n * Tlb4gLen, size |-> Tlb4gLen]
    BY <2>5 DEF TlbDescribe
  <2> QED  BY <2>3, <2>4, <2>6
<1> QED  BY <1>3, <1>4

(* Whatever number of the window regions a client presents, its view touches
   windows of its own handle only, ends inside the BAR, and starts at the
   window of its number or behind all windows of BAR0.                     *)
THEOREM WindowViewsAreOwned == Spec => []WindowTokensStayOwned
<1>1. TableInv => WindowTokensStayOwned
  <2> SUFFICES ASSUME TableInv, NEW f \in File,
                      NEW token \in 6 * ResourceSize .. 8 * ResourceSize - 1,
                      NEW length \in 1 .. MaxLength + 1,
                      NEW t \in MapOf(f, [s \in Slots |-> 0], token, length)
               PROVE  /\ t.kind = "window" /\ t.offset + length <= barLength[t.bar]
                      /\ \/ t.bar = TlbDescribe(t.id).bar /\ t.offset = TlbDescribe(t.id).offset
                         \/ t.bar = 0 /\ t.offset >= Tlb2mCount * TlbLen
                      /\ \A id \in 0 .. TlbTotal - 1 :
                           TlbDescribe(id).bar = t.bar
                             /\ t.offset < TlbDescribe(id).offset + TlbDescribe(id).size
                             /\ TlbDescribe(id).offset < t.offset + length
                           => tlbOwner[id] = f /\ id # KernelTlbIndex
    BY DEF WindowTokensStayOwned
  <2>0. /\ barLength \in [Bars -> Nat] /\ tlbOwner[KernelTlbIndex] # f
        /\ length \in Nat \ {0} /\ token \in Nat
    BY Layout DEF TableInv, TableTypes
  <2>1. PICK lengths, owner, bufs :
          /\ lengths \in [Bars -> Nat] /\ lengths = barLength /\ owner = tlbOwner
          /\ bufs = [s \in Slots |-> 0]
    BY <2>0
  <2>2. t \in ResolveMapTarget(token, length, lengths, owner, bufs, f)
    BY <2>1 DEF MapOf, MapTarget
  <2>3. ASSUME NEW id \in 0 .. TlbTotal - 1,
               TlbDescribe(id).bar = t.bar,
               t.offset < TlbDescribe(id).offset + TlbDescribe(id).size,
               TlbDescribe(id).offset < t.offset + length
        PROVE  tlbOwner[id] = f /\ id # KernelTlbIndex
    <3>1. owner[id] = f /\ id # KernelTlbIndex
      <4>1. /\ owner[KernelTlbIndex] # f /\ length \in Nat \ {0}
            /\ lengths \in [Bars -> Nat]
        BY <2>0, <2>1
      <4> QED  BY <2>2, <2>3, <4>1, WindowOwned
    <3> QED  BY <2>1, <3>1
  <2>4. t.kind = "window" /\ t.offset + length <= lengths[t.bar]
    <3>1. t \in ResolveTlb(token, length, lengths, owner, f)
      BY <2>2, WindowRegion
    <3> QED  BY <3>1 DEF ResolveTlb, Target
  <2>5. \/ t.bar = TlbDescribe(t.id).bar /\ t.offset = TlbDescribe(t.id).offset
        \/ t.bar = 0 /\ t.offset >= Tlb2mCount * TlbLen
    <3>1. length \in Nat \ {0} /\ lengths \in [Bars -> Nat]
      BY <2>0, <2>1
    <3> QED  BY <2>2, <3>1, WindowPlace
  <2> QED  BY <2>1, <2>3, <2>4, <2>5
<1> QED  BY <1>1, TableInvariant, PTL
=============================================================================
