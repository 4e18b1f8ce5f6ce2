-------------------------- MODULE TtMemory_proofs --------------------------
(***************************************************************************)
(* Proofs about the memory of handles in TtMemory for any number of        *)
(* handles, processes, requests, windows, slots and addresses, and, at the *)
(* end, about the views of a handle as the user-mode shim of TtCompat      *)
(* presents them.                                                          *)
(***************************************************************************)
EXTENDS TtMemory, TtCompat, FiniteSetTheorems, WellFoundedInduction, TLAPS

(***************************************************************************)
(* Types.  That the byte account is a number follows from what it is the   *)
(* sum of, at the end of this module.                                      *)
(***************************************************************************)
DeviceType ==
  /\ handle \in [File -> { "none", "open", "delisted", "freed", "closed" }]
  /\ creator \in [File -> Process \cup { NoProcess }]
  /\ alive \subseteq Process
  /\ stale \subseteq File
  /\ detached \in BOOLEAN /\ needsHwInit \in BOOLEAN

MemoryType ==
  /\ tlbOwner \in [Window -> File \cup { NoFile }]
  /\ tlbConfig \in [Window -> File \cup { NoFile }]
  /\ dmaBufs \in [File -> [Slot -> Size \cup { 0 }]]
  /\ mappings \in [File -> SUBSET Mapping]
  /\ pinnings \in [File -> SUBSET Pinning]

(* The object a request may hold in its second step.                       *)
Found(op, obj) ==
  \/ op \in { "ALLOCATE_TLB", "CONFIGURE_TLB" } /\ obj \in Window
  \/ op = "ALLOCATE_DMA_BUF" /\ obj \in Reservation
  \/ op = "UNMAP" /\ obj \in Mapping
  \/ op = "UNPIN_PAGES" /\ obj \in Pinning

ThreadType ==
  /\ pc \in [Thread -> { "idle", "gated", "second" }]
  /\ req \in [Thread -> Request \cup { NoReq }]
  /\ \A t \in Thread : pc[t] # "idle" => req[t] \in Request
  /\ \A t \in Thread : pc[t] = "second" => Found(req[t].op, req[t].obj)

TypeInv == DeviceType /\ MemoryType /\ ThreadType

-----------------------------------------------------------------------------
(* The fields of a request in flight.                                      *)
LEMMA RequestFields ==
  ASSUME ThreadType, NEW t \in Thread, pc[t] # "idle"
  PROVE  /\ req[t].file \in File /\ req[t].op \in CallerOp \cup QueuedOp
         /\ req[t].obj \in Object
  BY DEF ThreadType, Request

(* What completing a request changes.                                      *)
LEMMA CompleteFacts ==
  ASSUME ThreadType, NEW t \in Thread, Complete(t)
  PROVE  /\ ThreadType'
         /\ pc'[t] = "idle"
         /\ \A u \in Thread : u # t => pc'[u] = pc[u] /\ req'[u] = req[u]
         /\ \A u \in Thread : pc'[u] # "idle" => u # t
  BY DEF ThreadType, Complete

(* What a request that goes on with an object changes.                     *)
LEMMA GoOnFacts ==
  ASSUME ThreadType, NEW t \in Thread, pc[t] = "gated", NEW obj,
         Found(req[t].op, obj), GoOn(t, obj)
  PROVE  /\ ThreadType'
         /\ pc'[t] = "second"
         /\ req'[t].file = req[t].file /\ req'[t].op = req[t].op /\ req'[t].obj = obj
         /\ \A u \in Thread : u # t => pc'[u] = pc[u] /\ req'[u] = req[u]
<1>1. obj \in Object
  BY DEF Found, Object
<1>2. req[t] \in Request
  BY DEF ThreadType
<1>3. [req[t] EXCEPT !.obj = obj] \in Request
  BY <1>1, <1>2 DEF Request
<1>4. req' = [req EXCEPT ![t] = [req[t] EXCEPT !.obj = obj]]
  BY DEF GoOn
<1>5. req'[t] = [req[t] EXCEPT !.obj = obj]
  BY <1>4 DEF ThreadType
<1>6. req'[t].file = req[t].file /\ req'[t].op = req[t].op /\ req'[t].obj = obj
  BY <1>2, <1>5 DEF Request
<1>7. \A u \in Thread : u # t => pc'[u] = pc[u] /\ req'[u] = req[u]
  BY <1>4 DEF ThreadType, GoOn
<1>8. pc' \in [Thread -> { "idle", "gated", "second" }] /\ pc'[t] = "second"
  BY DEF ThreadType, GoOn
<1>9. req' \in [Thread -> Request \cup { NoReq }]
  BY <1>3, <1>4 DEF ThreadType
<1>10. ThreadType'
  <2>1. ASSUME NEW u \in Thread, pc'[u] # "idle" PROVE req'[u] \in Request
    BY <2>1, <1>3, <1>5, <1>7 DEF ThreadType
  <2>2. ASSUME NEW u \in Thread, pc'[u] = "second" PROVE Found(req'[u].op, req'[u].obj)
    BY <2>2, <1>6, <1>7 DEF ThreadType
  <2> QED  BY <1>8, <1>9, <2>1, <2>2 DEF ThreadType, Found
<1> QED  BY <1>6, <1>7, <1>8, <1>10

(* Destroying buffers takes their slots away and leaves the others.        *)
LEMMA DestroyFacts ==
  ASSUME MemoryType, NEW f \in File, NEW slots \in SUBSET Slot, DmaBufDestroy(f, slots)
  PROVE  /\ dmaBufs' \in [File -> [Slot -> Size \cup { 0 }]]
         /\ \A g \in File : Bufs(g)' = IF g = f THEN Bufs(g) \ slots ELSE Bufs(g)
<1>1. dmaBufs' = [dmaBufs EXCEPT ![f] = [s \in Slot |-> IF s \in slots THEN 0 ELSE dmaBufs[f][s]]]
  BY DEF DmaBufDestroy, MemoryType
<1>2. dmaBufs' \in [File -> [Slot -> Size \cup { 0 }]]
  BY <1>1 DEF MemoryType
<1>3. \A g \in File, s \in Slot :
        dmaBufs'[g][s] = IF g = f /\ s \in slots THEN 0 ELSE dmaBufs[g][s]
  BY <1>1 DEF MemoryType
<1> QED  BY <1>2, <1>3 DEF Bufs

(* A published buffer occupies its slot.                                   *)
LEMMA PublishFacts ==
  ASSUME MemoryType, ThreadType, NEW t \in Thread, AllocateDmaBufPublishes(t)
  PROVE  /\ dmaBufs' \in [File -> [Slot -> Size \cup { 0 }]]
         /\ \A g \in File : Bufs(g) \subseteq Bufs(g)'
         /\ \A g \in File : g # req[t].file => Bufs(g)' = Bufs(g)
<1> DEFINE f == req[t].file
           r == req[t].obj
<1>1. f \in File /\ r \in Reservation
  BY RequestFields DEF AllocateDmaBufPublishes, Continues, ThreadType, Found
<1>2. r.slot \in Slot /\ r.size \in Size /\ r.size # 0
  BY <1>1, MemoryAssumption DEF Reservation
<1>3. dmaBufs' = [dmaBufs EXCEPT ![f][r.slot] = r.size]
  BY DEF AllocateDmaBufPublishes
<1> HIDE DEF f, r
<1>4. dmaBufs' \in [File -> [Slot -> Size \cup { 0 }]]
  BY <1>1, <1>2, <1>3 DEF MemoryType
<1>5. \A g \in File, s \in Slot :
        dmaBufs'[g][s] = IF g = f /\ s = r.slot THEN r.size ELSE dmaBufs[g][s]
  BY <1>1, <1>2, <1>3 DEF MemoryType
<1> QED  BY <1>2, <1>4, <1>5 DEF Bufs, f

-----------------------------------------------------------------------------
(* Initially everything has its type.                                      *)
LEMMA TypeInit == Init => TypeInv
<1> SUFFICES ASSUME Init PROVE TypeInv
  OBVIOUS
<1>1. DeviceType
  BY DEF Init, DeviceType
<1>2. MemoryType
  BY DEF Init, MemoryType
<1>3. ThreadType
  BY DEF Init, ThreadType
<1> QED  BY <1>1, <1>2, <1>3 DEF TypeInv

(* A dispatched request starts with no object.                             *)
LEMMA DispatchFacts ==
  ASSUME ThreadType, NEW t \in Thread, NEW f \in File,
         NEW op \in CallerOp \cup QueuedOp, Dispatch(t, f, op)
  PROVE  /\ ThreadType'
         /\ UNCHANGED << deviceVars, tlbVars, fileVars >>
         /\ pc'[t] = "gated" /\ req'[t].file = f /\ req'[t].op = op
         /\ ~detached /\ f \notin stale /\ handle[f] = "open"
         /\ \A u \in Thread : u # t => pc'[u] = pc[u] /\ req'[u] = req[u]
<1>1. [file |-> f, op |-> op, obj |-> NoObj] \in Request
  BY DEF Request, Object
<1>2. req'[t] = [file |-> f, op |-> op, obj |-> NoObj] /\ pc'[t] = "gated"
  BY DEF Dispatch, ThreadType
<1>3. \A u \in Thread : u # t => pc'[u] = pc[u] /\ req'[u] = req[u]
  BY DEF Dispatch, ThreadType
<1>4. /\ pc' \in [Thread -> { "idle", "gated", "second" }]
      /\ req' \in [Thread -> Request \cup { NoReq }]
  BY <1>1 DEF Dispatch, ThreadType
<1>5. ASSUME NEW u \in Thread PROVE /\ pc'[u] # "idle" => req'[u] \in Request
                                    /\ pc'[u] = "second" => Found(req'[u].op, req'[u].obj)
  BY <1>1, <1>2, <1>3 DEF ThreadType
<1>6. ThreadType'
  BY <1>4, <1>5 DEF ThreadType, Found
<1>7. ~detached /\ f \notin stale /\ handle[f] = "open"
  BY DEF Dispatch, TtCheckIoGates
<1> QED  BY <1>2, <1>3, <1>6, <1>7 DEF Dispatch

(* A step of a request under way.                                          *)
ThreadStep(t) == HandlerFails(t) \/ WindowStep(t) \/ BufferStep(t) \/ CallerStep(t)

(* How a request moves on: it completes, or goes on with what it found.    *)
Moves(t) ==
  /\ pc[t] # "idle"
  /\ ThreadType'
  /\ \A u \in Thread : u # t => pc'[u] = pc[u] /\ req'[u] = req[u]
  /\ \/ pc'[t] = "idle"
     \/ /\ pc[t] = "gated" /\ pc'[t] = "second"
        /\ req'[t].file = req[t].file /\ req'[t].op = req[t].op

(* Every step of a request moves it on, leaves the device alone and keeps the
   types of what the handle owns.                                          *)
LEMMA ThreadStepFacts ==
  ASSUME TypeInv, NEW t \in Thread, ThreadStep(t)
  PROVE  UNCHANGED deviceVars /\ Moves(t) /\ MemoryType'
<1>1. ThreadType /\ MemoryType
  BY DEF TypeInv
<1>2. ASSUME Complete(t), pc[t] # "idle" PROVE Moves(t)
  BY <1>1, <1>2, CompleteFacts DEF Moves
<1>3. ASSUME NEW obj, pc[t] = "gated", Found(req[t].op, obj), GoOn(t, obj) PROVE Moves(t)
  BY <1>1, <1>3, GoOnFacts DEF Moves
<1>4. pc[t] # "idle" => req[t].file \in File
  BY <1>1, RequestFields
<1>5. CASE HandlerFails(t)
  BY <1>1, <1>2, <1>5 DEF HandlerFails, deviceVars, tlbVars, fileVars, MemoryType
<1>6. ASSUME NEW w \in Window, AllocateTlb(t, w) PROVE UNCHANGED deviceVars /\ Moves(t) /\ MemoryType'
  <2>1. Found(req[t].op, w)
    BY <1>6 DEF AllocateTlb, Handles, Found
  <2> QED  BY <1>1, <1>3, <1>4, <1>6, <2>1 DEF AllocateTlb, Handles, deviceVars, fileVars, MemoryType
<1>7. ASSUME NEW w \in Window, FreeTlb(t, w) PROVE UNCHANGED deviceVars /\ Moves(t) /\ MemoryType'
  BY <1>1, <1>2, <1>7 DEF FreeTlb, LockAndHandle, Handles, deviceVars, fileVars, MemoryType
<1>8. ASSUME NEW w \in Window, ConfigureTlb(t, w) PROVE UNCHANGED deviceVars /\ Moves(t) /\ MemoryType'
  <2>1. Found(req[t].op, w)
    BY <1>8 DEF ConfigureTlb, Handles, Found
  <2> QED  BY <1>1, <1>3, <1>8, <2>1 DEF ConfigureTlb, Handles, deviceVars, tlbVars, fileVars, MemoryType
<1>9. CASE AllocateTlbReturns(t)
  BY <1>1, <1>2, <1>9 DEF AllocateTlbReturns, Continues, deviceVars, tlbVars, fileVars, MemoryType
<1>10. CASE AllocateTlbRollback(t)
  BY <1>1, <1>2, <1>10 DEF AllocateTlbRollback, Continues, deviceVars, fileVars, MemoryType
<1>11. CASE BhConfigureUserTlb(t)
  BY <1>1, <1>2, <1>4, <1>11 DEF BhConfigureUserTlb, Continues, deviceVars, fileVars, MemoryType
<1>12. ASSUME NEW s \in Slot, NEW n \in Size, AllocateDmaBuf(t, s, n)
       PROVE  UNCHANGED deviceVars /\ Moves(t) /\ MemoryType'
  <2> DEFINE r == [slot |-> s, size |-> n, refused |-> DmaAccountRefuses(n)]
  <2>1. DmaAccountRefuses(n) \in BOOLEAN
    BY DEF DmaAccountRefuses
  <2>2. r \in Reservation
    BY <2>1 DEF Reservation
  <2>3. Found(req[t].op, r) /\ GoOn(t, r)
    BY <1>12, <2>2 DEF AllocateDmaBuf, LockAndHandle, Handles, Found
  <2> HIDE DEF r
  <2>4. Moves(t)
    BY <1>3, <1>12, <2>3 DEF AllocateDmaBuf, LockAndHandle, Handles
  <2> QED  BY <1>1, <1>12, <2>4 DEF AllocateDmaBuf, deviceVars, tlbVars, MemoryType
<1>13. CASE AllocateDmaBufPublishes(t)
  <2>1. dmaBufs' \in [File -> [Slot -> Size \cup { 0 }]]
    BY <1>1, <1>13, PublishFacts
  <2> QED  BY <1>1, <1>2, <1>13, <2>1
            DEF AllocateDmaBufPublishes, Continues, deviceVars, tlbVars, MemoryType
<1>14. CASE AllocateDmaBufFails(t)
  BY <1>1, <1>2, <1>14 DEF AllocateDmaBufFails, Continues, deviceVars, tlbVars, MemoryType
<1>15. ASSUME NEW s \in Slot, FreeDmaBufEx(t, s) PROVE UNCHANGED deviceVars /\ Moves(t) /\ MemoryType'
  <2>1. DmaBufDestroy(req[t].file, { s }) /\ pc[t] # "idle"
    BY <1>15 DEF FreeDmaBufEx, LockAndHandle, Handles
  <2>2. dmaBufs' \in [File -> [Slot -> Size \cup { 0 }]]
    BY <1>1, <1>4, <2>1, DestroyFacts
  <2> QED  BY <1>1, <1>2, <1>15, <2>1, <2>2 DEF FreeDmaBufEx, deviceVars, tlbVars, MemoryType
<1>16. ASSUME NEW va \in Va, NEW target \in Window \cup Slot \cup { Bar }, Map(t, va, target)
       PROVE  UNCHANGED deviceVars /\ Moves(t) /\ MemoryType'
  <2>1. [va |-> va, target |-> target] \in Mapping
    BY DEF Mapping
  <2> QED  BY <1>1, <1>2, <1>4, <1>16, <2>1
            DEF Map, LockAndHandle, Handles, deviceVars, tlbVars, dmaVars, MemoryType
<1>17. ASSUME NEW m \in Mapping, Unmap(t, m) PROVE UNCHANGED deviceVars /\ Moves(t) /\ MemoryType'
  <2>1. Found(req[t].op, m)
    BY <1>17 DEF Unmap, LockAndHandle, Handles, Found
  <2> QED  BY <1>1, <1>3, <1>17, <2>1
            DEF Unmap, LockAndHandle, Handles, deviceVars, tlbVars, dmaVars, MemoryType
<1>18. ASSUME NEW r \in PinRange, NEW backing \in Slot \cup { NoObj }, PinPages(t, r, backing)
       PROVE  UNCHANGED deviceVars /\ Moves(t) /\ MemoryType'
  <2>1. [range |-> r, backing |-> backing] \in Pinning
    BY DEF Pinning
  <2> QED  BY <1>1, <1>2, <1>4, <1>18, <2>1
            DEF PinPages, LockAndHandle, Handles, deviceVars, tlbVars, dmaVars, MemoryType
<1>19. ASSUME NEW p \in Pinning, UnpinPages(t, p) PROVE UNCHANGED deviceVars /\ Moves(t) /\ MemoryType'
  <2>1. Found(req[t].op, p)
    BY <1>19 DEF UnpinPages, LockAndHandle, Handles, Found
  <2> QED  BY <1>1, <1>3, <1>19, <2>1
            DEF UnpinPages, LockAndHandle, Handles, deviceVars, tlbVars, dmaVars, MemoryType
<1>20. CASE DestroyUnlinked(t)
  BY <1>1, <1>2, <1>20 DEF DestroyUnlinked, Continues, deviceVars, tlbVars, fileVars, MemoryType
<1> QED  BY <1>5, <1>6, <1>7, <1>8, <1>9, <1>10, <1>11, <1>12, <1>13, <1>14, <1>15, <1>16,
            <1>17, <1>18, <1>19, <1>20 DEF ThreadStep, WindowStep, BufferStep, CallerStep

(* The steps outside requests keep the types.                              *)
LEMMA DeviceStepType ==
  ASSUME TypeInv, NEW f \in File
  PROVE  /\ \A p \in Process : FileCreate(f, p) => TypeInv'
         /\ CleanupDelist(f) \/ CleanupMemory(f) \/ CleanupWindows(f) => TypeInv'
         /\ \A hw \in BOOLEAN : ResetAndBump(f, hw) => TypeInv'
         /\ ResetPcieLink(f) \/ PostReset(f) => TypeInv'
<1>1. DeviceType /\ MemoryType /\ ThreadType
  BY DEF TypeInv
<1>2. UNCHANGED threadVars => ThreadType'
  BY <1>1 DEF threadVars, ThreadType, Found
<1>3. UNCHANGED << tlbVars, fileVars >> => MemoryType'
  BY <1>1 DEF tlbVars, fileVars, MemoryType
<1>4. UNCHANGED deviceVars => DeviceType'
  BY <1>1 DEF deviceVars, DeviceType
<1>5. ASSUME ResetZapMappings, UNCHANGED << tlbVars, dmaVars, pinnings >> PROVE MemoryType'
  BY <1>1, <1>5 DEF ResetZapMappings, tlbVars, dmaVars, MemoryType
<1>6. ASSUME NEW p \in Process, FileCreate(f, p) PROVE TypeInv'
  <2>1. DeviceType'
    BY <1>1, <1>6 DEF FileCreate, DeviceType
  <2> QED  BY <1>2, <1>3, <1>6, <2>1 DEF FileCreate, TypeInv
<1>7. ASSUME CleanupDelist(f) PROVE TypeInv'
  <2>1. DeviceType'
    BY <1>1, <1>7 DEF CleanupDelist, DeviceType
  <2> QED  BY <1>2, <1>3, <1>7, <2>1 DEF CleanupDelist, TypeInv
<1>8. ASSUME CleanupMemory(f) PROVE TypeInv'
  <2>1. DeviceType'
    BY <1>1, <1>8 DEF CleanupMemory, DeviceType
  <2>2. dmaBufs' \in [File -> [Slot -> Size \cup { 0 }]]
    BY <1>1, <1>8, DestroyFacts DEF CleanupMemory
  <2>3. MemoryType'
    BY <1>1, <1>8, <2>2 DEF CleanupMemory, tlbVars, MemoryType
  <2> QED  BY <1>2, <1>8, <2>1, <2>3 DEF CleanupMemory, TypeInv
<1>9. ASSUME CleanupWindows(f) PROVE TypeInv'
  <2>1. DeviceType'
    BY <1>1, <1>9 DEF CleanupWindows, DeviceType
  <2>2. MemoryType'
    BY <1>1, <1>9 DEF CleanupWindows, fileVars, MemoryType
  <2> QED  BY <1>2, <1>9, <2>1, <2>2 DEF CleanupWindows, TypeInv
<1>10. ASSUME NEW hw \in BOOLEAN, ResetAndBump(f, hw) PROVE TypeInv'
  <2>1. DeviceType'
    BY <1>1, <1>10 DEF ResetAndBump, DeviceType
  <2> QED  BY <1>2, <1>5, <1>10, <2>1 DEF ResetAndBump, TypeInv
<1>11. ASSUME ResetPcieLink(f) PROVE TypeInv'
  BY <1>2, <1>4, <1>5, <1>11 DEF ResetPcieLink, TypeInv
<1>12. ASSUME PostReset(f) PROVE TypeInv'
  <2>1. DeviceType'
    BY <1>1, <1>12 DEF PostReset, DeviceType
  <2> QED  BY <1>2, <1>3, <1>12, <2>1 DEF PostReset, TypeInv
<1> QED  BY <1>6, <1>7, <1>8, <1>9, <1>10, <1>11, <1>12

(* Process exit and surprise removal keep the types.                       *)
LEMMA ExitStepType ==
  ASSUME TypeInv
  PROVE  /\ \A p \in Process : ProcessExit(p) => TypeInv'
         /\ SurpriseRemoval => TypeInv'
<1>1. DeviceType /\ MemoryType /\ ThreadType
  BY DEF TypeInv
<1>2. UNCHANGED threadVars => ThreadType'
  BY <1>1 DEF threadVars, ThreadType, Found
<1>3. ASSUME NEW p \in Process, ProcessExit(p) PROVE TypeInv'
  <2>1. DeviceType'
    BY <1>1, <1>3 DEF ProcessExit, DeviceType
  <2>2. MemoryType'
    BY <1>1, <1>3 DEF ProcessExit, tlbVars, dmaVars, MemoryType
  <2> QED  BY <1>2, <1>3, <2>1, <2>2 DEF ProcessExit, TypeInv
<1>4. ASSUME SurpriseRemoval PROVE TypeInv'
  <2>1. DeviceType'
    BY <1>1, <1>4 DEF SurpriseRemoval, DeviceType
  <2>2. MemoryType'
    BY <1>1, <1>4 DEF SurpriseRemoval, ResetZapMappings, tlbVars, dmaVars, MemoryType
  <2> QED  BY <1>2, <1>4, <2>1, <2>2 DEF SurpriseRemoval, TypeInv
<1> QED  BY <1>3, <1>4

(* Every step keeps the types.                                             *)
LEMMA TypeStep == TypeInv /\ [Next]_vars => TypeInv'
<1> SUFFICES ASSUME TypeInv, [Next]_vars PROVE TypeInv'
  OBVIOUS
<1>1. ASSUME NEW t \in Thread, ThreadStep(t) PROVE TypeInv'
  BY <1>1, ThreadStepFacts DEF Moves, TypeInv, DeviceType, deviceVars
<1>2. ASSUME NEW t \in Thread, NEW f \in File, NEW op \in CallerOp \cup QueuedOp, Dispatch(t, f, op)
      PROVE  TypeInv'
  BY <1>2, DispatchFacts DEF TypeInv, DeviceType, MemoryType, deviceVars, tlbVars, fileVars
<1>3. ASSUME UNCHANGED vars PROVE TypeInv'
  BY <1>3 DEF vars, TypeInv, DeviceType, MemoryType, ThreadType, Found
<1> QED  BY <1>1, <1>2, <1>3, DeviceStepType, ExitStepType DEF Next, ThreadStep

-----------------------------------------------------------------------------
(***************************************************************************)
(* What holds however many requests of a handle overlap.                   *)
(***************************************************************************)

(* A request under way passed the gate, and nothing can have closed it since:
   invalidation and removal wait for the reset resource.                   *)
GateInv ==
  \A t \in Thread : pc[t] # "idle" =>
    ~detached /\ req[t].file \notin stale /\ handle[req[t].file] # "none"

(* A handle starts with empty lists.                                       *)
FreshInv == \A f \in File : handle[f] = "none" => mappings[f] = {} /\ pinnings[f] = {}

(* The listed views of an invalidated handle, or of a removed device, are of
   DMA buffers.                                                            *)
RevokedInv ==
  \A f \in File : handle[f] = "open" /\ (detached \/ f \in stale) =>
    \A m \in mappings[f] : m.target \in Slot

(* The listed views and pins of a handle refer to buffers it has.          *)
RefsHaveBuffer(f) ==
  /\ \A m \in mappings[f] : m.target \in Slot => m.target \in Bufs(f)
  /\ \A p \in pinnings[f] : p.backing \in Bufs(f) \cup { NoObj }

MemoryInv == TypeInv /\ GateInv /\ FreshInv /\ RevokedInv /\ ListedRefsHaveBuffer

(* A request only changes what its own handle has.                         *)
OwnOnly(t) ==
  \A g \in File : g # req[t].file =>
    mappings'[g] = mappings[g] /\ pinnings'[g] = pinnings[g] /\ Bufs(g)' = Bufs(g)

(* No step of a request leaves a listed view or pin without its buffer.    *)
LEMMA ListedStep ==
  ASSUME TypeInv, NEW t \in Thread, NEW f \in File, f = req[t].file, RefsHaveBuffer(f),
         ThreadStep(t)
  PROVE  OwnOnly(t) /\ RefsHaveBuffer(f)'
<1> DEFINE Goal == OwnOnly(t) /\ RefsHaveBuffer(f)'
<1>1. ThreadType /\ MemoryType /\ MemoryType' /\ pc[t] # "idle"
  BY ThreadStepFacts DEF TypeInv, Moves
<1>3. ASSUME UNCHANGED << dmaBufs, mappings, pinnings >> PROVE Goal
  BY <1>3 DEF OwnOnly, RefsHaveBuffer, Bufs
<1>4. ASSUME HandlerFails(t) \/ AllocateTlbReturns(t) \/ AllocateTlbRollback(t)
               \/ BhConfigureUserTlb(t) \/ AllocateDmaBufFails(t) \/ DestroyUnlinked(t) PROVE Goal
  BY <1>3, <1>4 DEF HandlerFails, AllocateTlbReturns, AllocateTlbRollback, BhConfigureUserTlb,
    AllocateDmaBufFails, DestroyUnlinked, fileVars
<1>5. ASSUME NEW w \in Window, AllocateTlb(t, w) \/ FreeTlb(t, w) \/ ConfigureTlb(t, w) PROVE Goal
  BY <1>3, <1>5 DEF AllocateTlb, FreeTlb, ConfigureTlb, fileVars
<1>6. ASSUME NEW s \in Slot, NEW n \in Size, AllocateDmaBuf(t, s, n) PROVE Goal
  BY <1>3, <1>6 DEF AllocateDmaBuf
<1>7. ASSUME AllocateDmaBufPublishes(t) PROVE Goal
  <2>1. /\ \A g \in File : Bufs(g) \subseteq Bufs(g)'
        /\ \A g \in File : g # req[t].file => Bufs(g)' = Bufs(g)
    BY <1>1, <1>7, PublishFacts
  <2>2. UNCHANGED << mappings, pinnings >>
    BY <1>7 DEF AllocateDmaBufPublishes
  <2> QED  BY <2>1, <2>2 DEF OwnOnly, RefsHaveBuffer
<1>8. ASSUME NEW s \in Slot, FreeDmaBufEx(t, s) PROVE Goal
  <2>1. /\ DmaBufDestroy(f, { s }) /\ UNCHANGED << mappings, pinnings >>
        /\ \A m \in mappings[f] : m.target # s
        /\ \A p \in pinnings[f] : p.backing # s
    BY <1>8 DEF FreeDmaBufEx
  <2>2. \A g \in File : Bufs(g)' = IF g = f THEN Bufs(g) \ { s } ELSE Bufs(g)
    BY <1>1, <2>1, DestroyFacts
  <2> QED  BY <2>1, <2>2 DEF OwnOnly, RefsHaveBuffer
<1>9. ASSUME NEW va \in Va, NEW target \in Window \cup Slot \cup { Bar }, Map(t, va, target) PROVE Goal
  <2>1. /\ target \in Slot => target \in Bufs(f)
        /\ mappings' = [mappings EXCEPT ![f] = @ \cup { [va |-> va, target |-> target] }]
        /\ UNCHANGED << dmaBufs, pinnings >>
    BY <1>9, MemoryAssumption DEF Map, ResolveMapTarget, dmaVars
  <2>2. /\ mappings'[f] = mappings[f] \cup { [va |-> va, target |-> target] }
        /\ \A g \in File : g # f => mappings'[g] = mappings[g]
    BY <1>1, <2>1 DEF MemoryType
  <2>3. \A g \in File : Bufs(g)' = Bufs(g)
    BY <2>1 DEF Bufs
  <2> QED  BY <2>1, <2>2, <2>3 DEF OwnOnly, RefsHaveBuffer
<1>10. ASSUME NEW m \in Mapping, Unmap(t, m) PROVE Goal
  <2>1. /\ mappings' = [mappings EXCEPT ![f] = @ \ { m }]
        /\ UNCHANGED << dmaBufs, pinnings >>
    BY <1>10 DEF Unmap, dmaVars
  <2>2. /\ mappings'[f] \subseteq mappings[f]
        /\ \A g \in File : g # f => mappings'[g] = mappings[g]
    BY <1>1, <2>1 DEF MemoryType
  <2>3. \A g \in File : Bufs(g)' = Bufs(g)
    BY <2>1 DEF Bufs
  <2> QED  BY <2>1, <2>2, <2>3 DEF OwnOnly, RefsHaveBuffer
<1>11. ASSUME NEW r \in PinRange, NEW backing \in Slot \cup { NoObj }, PinPages(t, r, backing) PROVE Goal
  <2>1. /\ backing \in FindDmaBufView(f) \cup { NoObj }
        /\ pinnings' = [pinnings EXCEPT ![f] = @ \cup { [range |-> r, backing |-> backing] }]
        /\ UNCHANGED << dmaBufs, mappings >>
    BY <1>11 DEF PinPages, dmaVars
  <2>2. /\ pinnings'[f] = pinnings[f] \cup { [range |-> r, backing |-> backing] }
        /\ \A g \in File : g # f => pinnings'[g] = pinnings[g]
    BY <1>1, <2>1 DEF MemoryType
  <2>3. \A g \in File : Bufs(g)' = Bufs(g)
    BY <2>1 DEF Bufs
  <2>4. backing \in Bufs(f) \cup { NoObj }
    BY <2>1 DEF FindDmaBufView, RefsHaveBuffer
  <2> QED  BY <2>1, <2>2, <2>3, <2>4 DEF OwnOnly, RefsHaveBuffer
<1>12. ASSUME NEW p \in Pinning, UnpinPages(t, p) PROVE Goal
  <2>1. /\ pinnings' = [pinnings EXCEPT ![f] = @ \ { p }]
        /\ UNCHANGED << dmaBufs, mappings >>
    BY <1>12 DEF UnpinPages, dmaVars
  <2>2. /\ pinnings'[f] \subseteq pinnings[f]
        /\ \A g \in File : g # f => pinnings'[g] = pinnings[g]
    BY <1>1, <2>1 DEF MemoryType
  <2>3. \A g \in File : Bufs(g)' = Bufs(g)
    BY <2>1 DEF Bufs
  <2> QED  BY <2>1, <2>2, <2>3 DEF OwnOnly, RefsHaveBuffer
<1> QED
  BY <1>4, <1>5, <1>6, <1>7, <1>8, <1>9, <1>10, <1>11, <1>12
    DEF ThreadStep, WindowStep, BufferStep, CallerStep

(* A step of a request keeps the invariant.                                *)
LEMMA MemoryThreadStep ==
  ASSUME MemoryInv, NEW t \in Thread, ThreadStep(t)
  PROVE  GateInv' /\ FreshInv' /\ RevokedInv' /\ ListedRefsHaveBuffer'
<1>1. TypeInv /\ UNCHANGED deviceVars /\ Moves(t)
  BY ThreadStepFacts DEF MemoryInv
<1>2. PICK f \in File : f = req[t].file
  BY <1>1, RequestFields DEF TypeInv, Moves
<1>3. RefsHaveBuffer(f)
  BY DEF MemoryInv, ListedRefsHaveBuffer, RefsHaveBuffer
<1>4. OwnOnly(t) /\ RefsHaveBuffer(f)'
  BY <1>1, <1>2, <1>3, ListedStep
<1>5. handle[f] # "none" /\ ~detached /\ f \notin stale
  BY <1>1, <1>2 DEF MemoryInv, GateInv, Moves
<1>6. GateInv'
  BY <1>1 DEF MemoryInv, GateInv, Moves, deviceVars
<1>7. FreshInv' /\ RevokedInv'
  BY <1>1, <1>2, <1>4, <1>5 DEF MemoryInv, FreshInv, RevokedInv, OwnOnly, deviceVars
<1>8. ListedRefsHaveBuffer'
  BY <1>2, <1>4 DEF MemoryInv, ListedRefsHaveBuffer, RefsHaveBuffer, OwnOnly
<1> QED  BY <1>6, <1>7, <1>8

(* Revoking keeps the views of buffers, of listed handles.                 *)
LEMMA ZapFacts ==
  ASSUME ResetZapMappings, MemoryType
  PROVE  \A f \in File :
           mappings'[f] = IF handle[f] = "open" THEN { m \in mappings[f] : m.target \in Slot }
                                               ELSE mappings[f]
BY DEF ResetZapMappings, MemoryType

(* The holders of the shared lock are gone before a reset or a removal.    *)
LEMMA ZapStep ==
  ASSUME MemoryInv, TypeInv', ResetZapMappings, NoSharedHolder,
         UNCHANGED << handle, dmaVars, pinnings, threadVars >>
  PROVE  GateInv' /\ FreshInv' /\ RevokedInv' /\ ListedRefsHaveBuffer'
<1>1. \A f \in File :
        mappings'[f] = IF handle[f] = "open" THEN { m \in mappings[f] : m.target \in Slot }
                                            ELSE mappings[f]
  BY ZapFacts DEF MemoryInv, TypeInv
<1>2. GateInv'
  BY DEF GateInv, NoSharedHolder, threadVars
<1>3. \A f \in File : Bufs(f)' = Bufs(f)
  BY DEF Bufs, dmaVars
<1>4. FreshInv' /\ RevokedInv'
  BY <1>1 DEF MemoryInv, FreshInv, RevokedInv
<1>5. ListedRefsHaveBuffer'
  BY <1>1, <1>3 DEF MemoryInv, ListedRefsHaveBuffer
<1> QED  BY <1>2, <1>4, <1>5

(* Every step keeps the invariant.                                         *)
LEMMA MemoryStep == MemoryInv /\ [Next]_vars => MemoryInv'
<1> SUFFICES ASSUME MemoryInv, [Next]_vars PROVE MemoryInv'
  OBVIOUS
<1> DEFINE Goal == GateInv' /\ FreshInv' /\ RevokedInv' /\ ListedRefsHaveBuffer'
<1>1. TypeInv /\ TypeInv' /\ DeviceType /\ MemoryType /\ ThreadType
  BY TypeStep DEF MemoryInv, TypeInv
<1>2. ASSUME NEW t \in Thread, ThreadStep(t) PROVE Goal
  BY <1>2, MemoryThreadStep
<1>3. ASSUME NEW t \in Thread, NEW f \in File, NEW op \in CallerOp \cup QueuedOp, Dispatch(t, f, op)
      PROVE  Goal
  <2>1. GateInv'
    BY <1>1, <1>3, DispatchFacts DEF MemoryInv, GateInv, deviceVars
  <2>2. UNCHANGED << deviceVars, tlbVars, fileVars >>
    BY <1>3 DEF Dispatch
  <2> QED  BY <2>1, <2>2
            DEF MemoryInv, FreshInv, RevokedInv, ListedRefsHaveBuffer, Bufs, deviceVars, fileVars
<1>4. ASSUME NEW f \in File, NEW p \in Process, FileCreate(f, p) PROVE Goal
  <2>1. handle[f] = "none" /\ mappings[f] = {}
    BY <1>4 DEF FileCreate, MemoryInv, FreshInv
  <2>2. \A g \in File : handle'[g] = IF g = f THEN "open" ELSE handle[g]
    BY <1>1, <1>4 DEF FileCreate, DeviceType
  <2>3. UNCHANGED << stale, detached, fileVars, threadVars >>
    BY <1>4 DEF FileCreate
  <2>4. \A t \in Thread : pc[t] # "idle" => req[t].file \in File
    BY <1>1, RequestFields
  <2>5. GateInv'
    BY <2>2, <2>3, <2>4 DEF MemoryInv, GateInv, threadVars
  <2> QED  BY <2>1, <2>2, <2>3, <2>5
            DEF MemoryInv, FreshInv, RevokedInv, ListedRefsHaveBuffer, Bufs, fileVars
<1>5. ASSUME NEW f \in File, CleanupDelist(f) \/ CleanupWindows(f) PROVE Goal
  <2>1. /\ handle[f] # "none" /\ handle'[f] \in { "delisted", "closed" }
        /\ \A g \in File : g # f => handle'[g] = handle[g]
    BY <1>1, <1>5 DEF CleanupDelist, CleanupWindows, DeviceType
  <2>2. UNCHANGED << stale, detached, fileVars, threadVars >>
    BY <1>5 DEF CleanupDelist, CleanupWindows
  <2>3. \A t \in Thread : pc[t] # "idle" => req[t].file \in File
    BY <1>1, RequestFields
  <2>4. GateInv'
    BY <2>1, <2>2, <2>3 DEF MemoryInv, GateInv, threadVars
  <2> QED  BY <2>1, <2>2, <2>4
            DEF MemoryInv, FreshInv, RevokedInv, ListedRefsHaveBuffer, Bufs, fileVars
<1>6. ASSUME NEW f \in File, CleanupMemory(f) PROVE Goal
  <2>1. /\ handle[f] # "none" /\ handle'[f] = "freed"
        /\ \A g \in File : g # f => handle'[g] = handle[g]
    BY <1>1, <1>6 DEF CleanupMemory, DeviceType
  <2>2. UNCHANGED << stale, detached, threadVars >>
    BY <1>6 DEF CleanupMemory
  <2>3. \A t \in Thread : pc[t] # "idle" => req[t].file \in File
    BY <1>1, RequestFields
  <2>4. GateInv'
    BY <2>1, <2>2, <2>3 DEF MemoryInv, GateInv, threadVars
  <2>5. \A g \in File : mappings'[g] = (IF g = f THEN {} ELSE mappings[g])
                       /\ pinnings'[g] = (IF g = f THEN {} ELSE pinnings[g])
    BY <1>1, <1>6 DEF CleanupMemory, MemoryType
  <2>6. \A g \in File : g # f => Bufs(g)' = Bufs(g)
    BY <1>1, <1>6, DestroyFacts DEF CleanupMemory
  <2> QED  BY <2>1, <2>2, <2>4, <2>5, <2>6
            DEF MemoryInv, FreshInv, RevokedInv, ListedRefsHaveBuffer
<1>7. ASSUME NEW p \in Process, ProcessExit(p) PROVE Goal
  <2>1. UNCHANGED << handle, stale, detached, dmaVars, threadVars >>
    BY <1>7 DEF ProcessExit
  <2>2. \A g \in File : mappings'[g] \subseteq mappings[g] /\ pinnings'[g] \subseteq pinnings[g]
    BY <1>7 DEF ProcessExit
  <2> QED  BY <2>1, <2>2
            DEF MemoryInv, GateInv, FreshInv, RevokedInv, ListedRefsHaveBuffer, Bufs, dmaVars, threadVars
<1>8. ASSUME NEW f \in File, NEW hw \in BOOLEAN, ResetAndBump(f, hw) PROVE Goal
  BY <1>1, <1>8, ZapStep DEF ResetAndBump, MayReset
<1>9. ASSUME NEW f \in File, ResetPcieLink(f) PROVE Goal
  BY <1>1, <1>9, ZapStep DEF ResetPcieLink, MayReset, deviceVars
<1>10. ASSUME NEW f \in File, PostReset(f) PROVE Goal
  BY <1>10 DEF PostReset, MemoryInv, GateInv, FreshInv, RevokedInv, ListedRefsHaveBuffer, Bufs,
    fileVars, threadVars
<1>11. ASSUME SurpriseRemoval PROVE Goal
  BY <1>1, <1>11, ZapStep DEF SurpriseRemoval
<1>12. ASSUME UNCHANGED vars PROVE Goal
  BY <1>12 DEF vars, MemoryInv, GateInv, FreshInv, RevokedInv, ListedRefsHaveBuffer, Bufs
<1>13. Goal
  BY <1>2, <1>3, <1>4, <1>5, <1>6, <1>7, <1>8, <1>9, <1>10, <1>11, <1>12 DEF Next, ThreadStep
<1> QED  BY <1>1, <1>13 DEF MemoryInv

(* Initially the invariant holds.                                          *)
LEMMA MemoryInit == Init => MemoryInv
<1> SUFFICES ASSUME Init PROVE MemoryInv
  OBVIOUS
<1>1. TypeInv
  BY TypeInit
<1>2. GateInv /\ FreshInv /\ RevokedInv /\ ListedRefsHaveBuffer
  BY DEF Init, GateInv, FreshInv, RevokedInv, ListedRefsHaveBuffer
<1> QED  BY <1>1, <1>2 DEF MemoryInv

(* The invariant of TtMemory without assumptions on how handles are used.  *)
LEMMA MemoryInvariant == Spec => []MemoryInv
BY MemoryInit, MemoryStep, PTL DEF Spec

(* However many requests of a handle overlap, with cleanup, exits and resets
   among them, no listed view or pin refers to a freed DMA buffer: both -EBUSY
   scans of FREE_DMA_BUF_EX and the order of cleanup are enough.           *)
THEOREM ListedRefsSafe == Spec => []ListedRefsHaveBuffer
<1>1. MemoryInv => ListedRefsHaveBuffer
  BY DEF MemoryInv
<1> QED  BY <1>1, MemoryInvariant, PTL

(* However many requests of a handle overlap, no view of a BAR or a window,
   listed or about to be unmapped, is left to an invalidated handle on FileList
   or of a removed device: TtResetZapMappings revokes what is listed, and an
   UNMAP under way holds the reset resource.                               *)
THEOREM ViewsAreRevoked == Spec => []ListedViewsRevoked
<1>1. MemoryInv => ListedViewsRevoked
  <2> SUFFICES ASSUME MemoryInv, NEW f \in File, handle[f] = "open",
                      NEW m \in Views(f), m.target \notin Slot
               PROVE  ~detached /\ f \notin stale
    BY DEF ListedViewsRevoked
  <2>1. CASE m \in mappings[f]
    BY <2>1 DEF MemoryInv, RevokedInv
  <2>2. CASE m \in Unlinked(f, "UNMAP")
    <3>1. PICK t \in Thread : pc[t] = "second" /\ req[t].file = f
      BY <2>2 DEF Unlinked
    <3> QED  BY <3>1 DEF MemoryInv, GateInv
  <2> QED  BY <2>1, <2>2 DEF Views
<1> QED  BY <1>1, MemoryInvariant, PTL

-----------------------------------------------------------------------------
(***************************************************************************)
(* What holds when every handle is opened for synchronous I/O, so that the *)
(* I/O manager lets one request of a handle run at a time and cleanup only *)
(* after it.                                                               *)
(***************************************************************************)

(* One request of a handle at a time, and none once cleanup has begun.     *)
SoleInv ==
  \A t, u \in Thread :
    pc[t] # "idle" /\ pc[u] # "idle" /\ req[t].file = req[u].file => t = u
OpenInv == \A t \in Thread : pc[t] # "idle" => handle[req[t].file] = "open"

(* What a request of handle f found in its first step is still so: the buffer
   or window of the object it unlinked, the window it claimed or may write. *)
StillHeld(f, op, obj) ==
  /\ op = "UNMAP" => /\ obj.target \in Slot => obj.target \in Bufs(f)
                     /\ obj.target \in Window => tlbOwner[obj.target] = f
  /\ op = "UNPIN_PAGES" => obj.backing \in Bufs(f) \cup { NoObj }
  /\ op \in { "ALLOCATE_TLB", "CONFIGURE_TLB" } => tlbOwner[obj] = f
  /\ op = "ALLOCATE_TLB" => \A m \in mappings[f] : m.target # obj
Kept(t, f) == pc[t] = "second" => StillHeld(f, req[t].op, req[t].obj)
FoundInv == \A t \in Thread : Kept(t, req[t].file)

(* The listed views of windows are of windows of the handle.               *)
OwnViews(f) == \A m \in mappings[f] : m.target \in Window => tlbOwner[m.target] = f
WindowInv == \A f \in File : OwnViews(f)

(* What cleanup took away stays away.                                      *)
CloseInv ==
  \A f \in File :
    /\ handle[f] \in { "freed", "closed" } =>
         mappings[f] = {} /\ pinnings[f] = {} /\ Bufs(f) = {}
    /\ handle[f] = "closed" => \A w \in Window : tlbOwner[w] # f

SyncInv == MemoryInv /\ SoleInv /\ OpenInv /\ FoundInv /\ WindowInv /\ CloseInv

(* A request of handle f only claims free windows and only releases its own. *)
OwnWindows(f) ==
  \A w \in Window : tlbOwner'[w] # tlbOwner[w] =>
    tlbOwner[w] \in { f, NoFile } /\ tlbOwner'[w] \in { f, NoFile }

(* What a step of a request does to the windows and to what it found.      *)
LEMMA WindowStepFacts ==
  ASSUME SyncInv, NEW t \in Thread, NEW f \in File, f = req[t].file, ThreadStep(t)
  PROVE  OwnWindows(f) /\ OwnViews(f)' /\ Kept(t, f)'
<1> DEFINE Goal == OwnWindows(f) /\ OwnViews(f)' /\ Kept(t, f)'
<1>1. ThreadType /\ MemoryType /\ MemoryType' /\ pc[t] # "idle"
  BY ThreadStepFacts DEF SyncInv, MemoryInv, TypeInv, Moves
<1>2. OwnViews(f) /\ Kept(t, f) /\ RefsHaveBuffer(f) /\ NoFile # f
  BY MemoryAssumption
    DEF SyncInv, WindowInv, FoundInv, MemoryInv, ListedRefsHaveBuffer, RefsHaveBuffer
<1>3. Complete(t) => Kept(t, f)'
  BY <1>1, CompleteFacts DEF Kept
<1>4. UNCHANGED tlbOwner => OwnWindows(f)
  BY DEF OwnWindows
<1>5. ASSUME UNCHANGED << tlbOwner, mappings >> PROVE OwnWindows(f) /\ OwnViews(f)'
  BY <1>2, <1>5 DEF OwnWindows, OwnViews
<1>6. ASSUME HandlerFails(t) \/ AllocateTlbReturns(t) \/ BhConfigureUserTlb(t)
               \/ AllocateDmaBufPublishes(t) \/ AllocateDmaBufFails(t) \/ DestroyUnlinked(t)
      PROVE  Goal
  BY <1>3, <1>5, <1>6 DEF HandlerFails, AllocateTlbReturns, BhConfigureUserTlb,
    AllocateDmaBufPublishes, AllocateDmaBufFails, DestroyUnlinked, tlbVars, fileVars
<1>7. ASSUME NEW s \in Slot, FreeDmaBufEx(t, s) PROVE Goal
  BY <1>3, <1>5, <1>7 DEF FreeDmaBufEx, tlbVars
<1>8. ASSUME NEW r \in PinRange, NEW backing \in Slot \cup { NoObj }, PinPages(t, r, backing) PROVE Goal
  BY <1>3, <1>5, <1>8 DEF PinPages, tlbVars
<1>9. ASSUME NEW s \in Slot, NEW n \in Size, AllocateDmaBuf(t, s, n) PROVE Goal
  <2>1. /\ UNCHANGED << tlbOwner, mappings >> /\ req[t].op = "ALLOCATE_DMA_BUF"
    BY <1>9 DEF AllocateDmaBuf, LockAndHandle, Handles, tlbVars
  <2>2. req'[t].op = "ALLOCATE_DMA_BUF"
    BY <1>1, <1>9, <2>1 DEF AllocateDmaBuf, GoOn, ThreadType, Request, LockAndHandle, Handles
  <2> QED  BY <1>5, <2>1, <2>2 DEF Kept, StillHeld
<1>10. ASSUME NEW w \in Window, AllocateTlb(t, w) PROVE Goal
  <2>1. /\ pc[t] = "gated" /\ req[t].op = "ALLOCATE_TLB" /\ GoOn(t, w)
        /\ tlbOwner[w] = NoFile /\ UNCHANGED mappings
        /\ tlbOwner' = [tlbOwner EXCEPT ![w] = f]
    BY <1>10 DEF AllocateTlb, Handles, fileVars
  <2>2. Found(req[t].op, w)
    BY <2>1 DEF Found
  <2>3. req'[t].op = "ALLOCATE_TLB" /\ req'[t].obj = w
    BY <1>1, <2>1, <2>2, GoOnFacts
  <2>4. \A v \in Window : tlbOwner'[v] = IF v = w THEN f ELSE tlbOwner[v]
    BY <1>1, <2>1 DEF MemoryType
  <2>5. \A m \in mappings[f] : m.target # w
    BY <1>2, <2>1 DEF OwnViews
  <2>6. OwnWindows(f) /\ OwnViews(f)'
    BY <1>2, <2>1, <2>4, <2>5 DEF OwnWindows, OwnViews
  <2>7. Kept(t, f)'
    BY <2>1, <2>3, <2>4, <2>5 DEF Kept, StillHeld
  <2> QED  BY <2>6, <2>7
<1>11. ASSUME AllocateTlbRollback(t) PROVE Goal
  <2> DEFINE w == req[t].obj
  <2>1. /\ pc[t] = "second" /\ req[t].op = "ALLOCATE_TLB" /\ Complete(t)
        /\ UNCHANGED mappings /\ tlbOwner' = [tlbOwner EXCEPT ![w] = NoFile]
    BY <1>11 DEF AllocateTlbRollback, Continues, fileVars
  <2>2. tlbOwner[w] = f /\ \A m \in mappings[f] : m.target # w
    BY <1>2, <2>1 DEF Kept, StillHeld
  <2>3. \A v \in Window : tlbOwner'[v] = IF v = w THEN NoFile ELSE tlbOwner[v]
    BY <1>1, <2>1 DEF MemoryType
  <2> HIDE DEF w
  <2>4. OwnWindows(f) /\ OwnViews(f)'
    BY <1>2, <2>1, <2>2, <2>3 DEF OwnWindows, OwnViews
  <2> QED  BY <1>3, <2>1, <2>4
<1>12. ASSUME NEW w \in Window, FreeTlb(t, w) PROVE Goal
  <2>1. /\ tlbOwner[w] = f /\ UNCHANGED mappings /\ Complete(t)
        /\ \A m \in mappings[f] : m.target # w
        /\ tlbOwner' = [tlbOwner EXCEPT ![w] = NoFile]
    BY <1>12 DEF FreeTlb, fileVars
  <2>2. \A v \in Window : tlbOwner'[v] = IF v = w THEN NoFile ELSE tlbOwner[v]
    BY <1>1, <2>1 DEF MemoryType
  <2>3. OwnWindows(f) /\ OwnViews(f)'
    BY <1>2, <2>1, <2>2 DEF OwnWindows, OwnViews
  <2> QED  BY <1>3, <2>1, <2>3
<1>13. ASSUME NEW w \in Window, ConfigureTlb(t, w) PROVE Goal
  <2>1. /\ pc[t] = "gated" /\ req[t].op = "CONFIGURE_TLB" /\ GoOn(t, w)
        /\ tlbOwner[w] = f /\ UNCHANGED << tlbOwner, mappings >>
    BY <1>13 DEF ConfigureTlb, Handles, tlbVars, fileVars
  <2>2. Found(req[t].op, w)
    BY <2>1 DEF Found
  <2>3. req'[t].op = "CONFIGURE_TLB" /\ req'[t].obj = w
    BY <1>1, <2>1, <2>2, GoOnFacts
  <2> QED  BY <1>5, <2>1, <2>3 DEF Kept, StillHeld
<1>14. ASSUME NEW va \in Va, NEW target \in Window \cup Slot \cup { Bar }, Map(t, va, target) PROVE Goal
  <2>1. /\ target \in Window => tlbOwner[target] = f
        /\ mappings' = [mappings EXCEPT ![f] = @ \cup { [va |-> va, target |-> target] }]
        /\ UNCHANGED tlbOwner /\ Complete(t)
    BY <1>14, MemoryAssumption DEF Map, ResolveMapTarget, Bufs, tlbVars
  <2>2. mappings'[f] = mappings[f] \cup { [va |-> va, target |-> target] }
    BY <1>1, <2>1 DEF MemoryType
  <2>3. OwnViews(f)'
    BY <1>2, <2>1, <2>2 DEF OwnViews
  <2> QED  BY <1>3, <1>4, <2>1, <2>3
<1>15. ASSUME NEW m \in Mapping, Unmap(t, m) PROVE Goal
  <2>1. /\ pc[t] = "gated" /\ req[t].op = "UNMAP" /\ GoOn(t, m) /\ m \in mappings[f]
        /\ mappings' = [mappings EXCEPT ![f] = @ \ { m }]
        /\ UNCHANGED << tlbOwner, dmaBufs >>
    BY <1>15 DEF Unmap, LockAndHandle, Handles, tlbVars, dmaVars
  <2>2. Found(req[t].op, m)
    BY <2>1 DEF Found
  <2>3. req'[t].op = "UNMAP" /\ req'[t].obj = m
    BY <1>1, <2>1, <2>2, GoOnFacts
  <2>4. mappings'[f] = mappings[f] \ { m }
    BY <1>1, <2>1 DEF MemoryType
  <2>5. OwnViews(f)'
    BY <1>2, <2>1, <2>4 DEF OwnViews
  <2>6. Bufs(f)' = Bufs(f)
    BY <2>1 DEF Bufs
  <2>7. Kept(t, f)'
    BY <1>2, <2>1, <2>3, <2>6 DEF Kept, StillHeld, OwnViews, RefsHaveBuffer
  <2> QED  BY <1>4, <2>1, <2>5, <2>7
<1>16. ASSUME NEW p \in Pinning, UnpinPages(t, p) PROVE Goal
  <2>1. /\ pc[t] = "gated" /\ req[t].op = "UNPIN_PAGES" /\ GoOn(t, p) /\ p \in pinnings[f]
        /\ UNCHANGED << tlbOwner, dmaBufs, mappings >>
    BY <1>16 DEF UnpinPages, LockAndHandle, Handles, tlbVars, dmaVars
  <2>2. Found(req[t].op, p)
    BY <2>1 DEF Found
  <2>3. req'[t].op = "UNPIN_PAGES" /\ req'[t].obj = p
    BY <1>1, <2>1, <2>2, GoOnFacts
  <2>4. Bufs(f)' = Bufs(f)
    BY <2>1 DEF Bufs
  <2>5. Kept(t, f)'
    BY <1>2, <2>1, <2>3, <2>4 DEF Kept, StillHeld, RefsHaveBuffer
  <2> QED  BY <1>5, <2>1, <2>5
<1> QED
  BY <1>6, <1>7, <1>8, <1>9, <1>10, <1>11, <1>12, <1>13, <1>14, <1>15, <1>16
    DEF ThreadStep, WindowStep, BufferStep, CallerStep

(* A step of a request keeps the invariant.                                *)
LEMMA SyncThreadStep ==
  ASSUME SyncInv, NEW t \in Thread, ThreadStep(t)
  PROVE  SoleInv' /\ OpenInv' /\ FoundInv' /\ WindowInv' /\ CloseInv'
<1>1. TypeInv /\ MemoryInv /\ UNCHANGED deviceVars /\ Moves(t)
  BY ThreadStepFacts DEF SyncInv, MemoryInv
<1>2. PICK f \in File : f = req[t].file
  BY <1>1, RequestFields DEF TypeInv, Moves
<1>3. RefsHaveBuffer(f)
  BY <1>1 DEF MemoryInv, ListedRefsHaveBuffer, RefsHaveBuffer
<1>4. OwnOnly(t) /\ OwnWindows(f) /\ OwnViews(f)' /\ Kept(t, f)' /\ handle[f] = "open"
  BY <1>1, <1>2, <1>3, ListedStep, WindowStepFacts DEF SyncInv, OpenInv, Moves
<1>5. /\ \A g \in File \ { f } : /\ mappings'[g] = mappings[g] /\ pinnings'[g] = pinnings[g]
                                 /\ Bufs(g)' = Bufs(g)
      /\ \A g \in File \ { f }, w \in Window : tlbOwner'[w] = g <=> tlbOwner[w] = g
  BY <1>2, <1>4, MemoryAssumption DEF OwnOnly, OwnWindows
<1>6. SoleInv' /\ OpenInv'
  BY <1>1, <1>2 DEF SyncInv, SoleInv, OpenInv, Moves, deviceVars
<1>7. WindowInv'
  <2> SUFFICES ASSUME NEW g \in File PROVE OwnViews(g)'
    BY DEF WindowInv
  <2>1. CASE g = f
    BY <1>4, <2>1
  <2>2. CASE g # f
    BY <1>5, <2>2 DEF SyncInv, WindowInv, OwnViews
  <2> QED  BY <2>1, <2>2
<1>8. CloseInv'
  BY <1>1, <1>4, <1>5 DEF SyncInv, CloseInv, deviceVars
<1>9. FoundInv'
  <2> SUFFICES ASSUME NEW u \in Thread, pc'[u] = "second"
               PROVE  StillHeld(req[u].file, req[u].op, req[u].obj)'
    BY DEF FoundInv, Kept
  <2>1. CASE u = t
    BY <1>1, <1>2, <1>4, <2>1 DEF Kept, Moves, StillHeld, Bufs
  <2>2. CASE u # t
    <3>1. pc[u] = "second" /\ req'[u] = req[u] /\ req[u].file \in File \ { f }
      BY <1>1, <1>2, <2>2, RequestFields DEF SyncInv, SoleInv, TypeInv, Moves
    <3>2. StillHeld(req[u].file, req[u].op, req[u].obj)
      BY <3>1 DEF SyncInv, FoundInv, Kept
    <3>3. pc[u] = "second" => Found(req[u].op, req[u].obj)
      BY <1>1 DEF TypeInv, ThreadType
    <3> QED  BY <1>5, <3>1, <3>2, <3>3 DEF StillHeld, Found
  <2> QED  BY <2>1, <2>2
<1> QED  BY <1>6, <1>7, <1>8, <1>9

(* A step outside requests that leaves the handle, the windows and the buffers
   alone, and can only shorten the lists.                                  *)
LEMMA SyncShorten ==
  ASSUME SyncInv, UNCHANGED << handle, tlbOwner, dmaBufs, threadVars >>,
         \A f \in File : mappings'[f] \subseteq mappings[f] /\ pinnings'[f] \subseteq pinnings[f]
  PROVE  SoleInv' /\ OpenInv' /\ FoundInv' /\ WindowInv' /\ CloseInv'
<1>1. \A f \in File : Bufs(f)' = Bufs(f)
  BY DEF Bufs
<1>2. SoleInv' /\ OpenInv'
  BY DEF SyncInv, SoleInv, OpenInv, threadVars
<1>3. WindowInv' /\ CloseInv'
  BY <1>1 DEF SyncInv, WindowInv, OwnViews, CloseInv
<1>4. FoundInv'
  <2> SUFFICES ASSUME NEW u \in Thread, pc'[u] = "second"
               PROVE  StillHeld(req[u].file, req[u].op, req[u].obj)'
    BY DEF FoundInv, Kept
  <2>1. pc[u] = "second" /\ req' = req /\ StillHeld(req[u].file, req[u].op, req[u].obj)
    BY DEF SyncInv, FoundInv, Kept, threadVars
  <2>2. req[u].file \in File
    BY <2>1, RequestFields DEF SyncInv, MemoryInv, TypeInv
  <2> QED  BY <1>1, <2>1, <2>2 DEF StillHeld
<1> QED  BY <1>2, <1>3, <1>4

(* A handle nobody uses can be opened or closed without touching the requests
   of the others.                                                          *)
LEMMA SyncHandleStep ==
  ASSUME SyncInv, NEW f \in File, ~Busy(f), UNCHANGED threadVars,
         \A g \in File \ { f } : /\ handle'[g] = handle[g] /\ mappings'[g] = mappings[g]
                                /\ Bufs(g)' = Bufs(g)
                                /\ \A w \in Window : tlbOwner[w] = g => tlbOwner'[w] = g
  PROVE  SoleInv' /\ OpenInv' /\ FoundInv'
<1>1. SoleInv'
  BY DEF SyncInv, SoleInv, threadVars
<1>2. \A t \in Thread : pc[t] # "idle" => req[t].file \in File \ { f }
  BY RequestFields DEF SyncInv, MemoryInv, TypeInv, Busy
<1>3. OpenInv'
  BY <1>2 DEF SyncInv, OpenInv, threadVars
<1>4. FoundInv'
  <2> SUFFICES ASSUME NEW u \in Thread, pc'[u] = "second"
               PROVE  StillHeld(req[u].file, req[u].op, req[u].obj)'
    BY DEF FoundInv, Kept
  <2>1. pc[u] = "second" /\ req' = req /\ StillHeld(req[u].file, req[u].op, req[u].obj)
    BY DEF SyncInv, FoundInv, Kept, threadVars
  <2>2. Found(req[u].op, req[u].obj)
    BY <2>1 DEF SyncInv, MemoryInv, TypeInv, ThreadType
  <2> QED  BY <1>2, <2>1, <2>2 DEF StillHeld, Found
<1> QED  BY <1>1, <1>3, <1>4

(* Every step keeps the invariant when all handles are synchronous.        *)
LEMMA SyncStep ==
  ASSUME SyncFile = File
  PROVE  SyncInv /\ [Next]_vars => SyncInv'
<1> SUFFICES ASSUME SyncInv, [Next]_vars PROVE SyncInv'
  OBVIOUS
<1> DEFINE Goal == SoleInv' /\ OpenInv' /\ FoundInv' /\ WindowInv' /\ CloseInv'
<1>1. MemoryInv /\ MemoryInv' /\ DeviceType /\ MemoryType /\ ThreadType
  BY MemoryStep DEF SyncInv, MemoryInv, TypeInv
<1>2. ASSUME NEW t \in Thread, ThreadStep(t) PROVE Goal
  BY <1>2, SyncThreadStep
<1>3. ASSUME NEW t \in Thread, NEW f \in File, NEW op \in CallerOp \cup QueuedOp, Dispatch(t, f, op)
      PROVE  Goal
  <2>1. ~Busy(f) /\ pc[t] = "idle"
    BY <1>3 DEF Dispatch
  <2>2. /\ UNCHANGED << deviceVars, tlbVars, fileVars >>
        /\ pc'[t] = "gated" /\ req'[t].file = f /\ handle[f] = "open"
        /\ \A u \in Thread : u # t => pc'[u] = pc[u] /\ req'[u] = req[u]
    BY <1>1, <1>3, DispatchFacts
  <2>3. SoleInv'
    BY <2>1, <2>2 DEF SyncInv, SoleInv, Busy
  <2>4. OpenInv'
    BY <2>2 DEF SyncInv, OpenInv, deviceVars
  <2>5. FoundInv'
    <3> SUFFICES ASSUME NEW u \in Thread, pc'[u] = "second"
                 PROVE  StillHeld(req[u].file, req[u].op, req[u].obj)'
      BY DEF FoundInv, Kept
    <3>1. pc[u] = "second" /\ req'[u] = req[u] /\ StillHeld(req[u].file, req[u].op, req[u].obj)
      BY <2>2 DEF SyncInv, FoundInv, Kept
    <3> QED  BY <2>2, <3>1 DEF StillHeld, Bufs, tlbVars, fileVars
  <2> QED  BY <2>2, <2>3, <2>4, <2>5
            DEF SyncInv, WindowInv, OwnViews, CloseInv, Bufs, deviceVars, tlbVars, fileVars
<1>4. ASSUME NEW f \in File, NEW p \in Process, FileCreate(f, p) PROVE Goal
  <2>1. /\ handle[f] = "none"
        /\ \A g \in File : handle'[g] = IF g = f THEN "open" ELSE handle[g]
        /\ UNCHANGED << tlbVars, fileVars, threadVars >>
    BY <1>1, <1>4 DEF FileCreate, DeviceType
  <2>2. ~Busy(f)
    BY <1>1, <2>1 DEF Busy, MemoryInv, GateInv
  <2>3. \A g \in File : Bufs(g)' = Bufs(g)
    BY <2>1 DEF Bufs, fileVars
  <2>4. SoleInv' /\ OpenInv' /\ FoundInv'
    BY <2>1, <2>2, <2>3, SyncHandleStep DEF tlbVars, fileVars
  <2> QED  BY <2>1, <2>3, <2>4 DEF SyncInv, WindowInv, OwnViews, CloseInv, tlbVars, fileVars
<1>5. ASSUME NEW f \in File, CleanupDelist(f) PROVE Goal
  <2>1. /\ ~Busy(f)
        /\ \A g \in File : handle'[g] = IF g = f THEN "delisted" ELSE handle[g]
        /\ UNCHANGED << tlbVars, fileVars, threadVars >>
    BY <1>1, <1>5 DEF CleanupDelist, DeviceType
  <2>2. \A g \in File : Bufs(g)' = Bufs(g)
    BY <2>1 DEF Bufs, fileVars
  <2>3. SoleInv' /\ OpenInv' /\ FoundInv'
    BY <2>1, <2>2, SyncHandleStep DEF tlbVars, fileVars
  <2> QED  BY <2>1, <2>2, <2>3 DEF SyncInv, WindowInv, OwnViews, CloseInv, tlbVars, fileVars
<1>6. ASSUME NEW f \in File, CleanupMemory(f) PROVE Goal
  <2>1. /\ handle[f] = "delisted"
        /\ \A g \in File : handle'[g] = IF g = f THEN "freed" ELSE handle[g]
        /\ UNCHANGED << tlbVars, threadVars >>
    BY <1>1, <1>6 DEF CleanupMemory, DeviceType
  <2>2. ~Busy(f)
    BY <2>1 DEF Busy, SyncInv, OpenInv
  <2>3. \A g \in File : mappings'[g] = (IF g = f THEN {} ELSE mappings[g])
                       /\ pinnings'[g] = (IF g = f THEN {} ELSE pinnings[g])
    BY <1>1, <1>6 DEF CleanupMemory, MemoryType
  <2>4. \A g \in File : Bufs(g)' = IF g = f THEN Bufs(g) \ Slot ELSE Bufs(g)
    BY <1>1, <1>6, DestroyFacts DEF CleanupMemory
  <2>5. Bufs(f)' = {}
    BY <2>4 DEF Bufs
  <2>6. SoleInv' /\ OpenInv' /\ FoundInv'
    BY <2>1, <2>2, <2>3, <2>4, SyncHandleStep DEF tlbVars
  <2> QED  BY <2>1, <2>3, <2>4, <2>5, <2>6 DEF SyncInv, WindowInv, OwnViews, CloseInv, tlbVars
<1>7. ASSUME NEW f \in File, CleanupWindows(f) PROVE Goal
  <2>1. /\ handle[f] = "freed"
        /\ \A g \in File : handle'[g] = IF g = f THEN "closed" ELSE handle[g]
        /\ UNCHANGED << fileVars, threadVars >>
    BY <1>1, <1>7 DEF CleanupWindows, DeviceType
  <2>2. ~Busy(f)
    BY <2>1 DEF Busy, SyncInv, OpenInv
  <2>3. \A w \in Window : tlbOwner'[w] = IF tlbOwner[w] = f THEN NoFile ELSE tlbOwner[w]
    BY <1>7 DEF CleanupWindows
  <2>4. \A g \in File : Bufs(g)' = Bufs(g)
    BY <2>1 DEF Bufs, fileVars
  <2>5. SoleInv' /\ OpenInv' /\ FoundInv'
    BY <2>1, <2>2, <2>3, <2>4, SyncHandleStep DEF fileVars
  <2>6. mappings[f] = {} /\ NoFile \notin File
    BY <2>1, MemoryAssumption DEF SyncInv, CloseInv
  <2>7. WindowInv'
    BY <2>1, <2>3, <2>6 DEF SyncInv, WindowInv, OwnViews, fileVars
  <2>8. CloseInv'
    BY <2>1, <2>3, <2>4, <2>6 DEF SyncInv, CloseInv, fileVars
  <2> QED  BY <2>5, <2>7, <2>8
<1>8. ASSUME NEW p \in Process, ProcessExit(p) PROVE Goal
  <2>1. UNCHANGED << handle, tlbOwner, dmaBufs, threadVars >>
    BY <1>8 DEF ProcessExit, tlbVars, dmaVars
  <2>2. \A g \in File : mappings'[g] \subseteq mappings[g] /\ pinnings'[g] \subseteq pinnings[g]
    BY <1>8 DEF ProcessExit
  <2> QED  BY <2>1, <2>2, SyncShorten
<1>9. ASSUME ResetZapMappings, UNCHANGED << handle, tlbVars, dmaVars, pinnings, threadVars >> PROVE Goal
  <2>1. \A g \in File : mappings'[g] \subseteq mappings[g] /\ pinnings'[g] \subseteq pinnings[g]
    BY <1>1, <1>9, ZapFacts
  <2> QED  BY <1>9, <2>1, SyncShorten DEF tlbVars, dmaVars
<1>10. ASSUME NEW f \in File, NEW hw \in BOOLEAN, ResetAndBump(f, hw) PROVE Goal
  BY <1>9, <1>10 DEF ResetAndBump
<1>11. ASSUME NEW f \in File, ResetPcieLink(f) PROVE Goal
  BY <1>9, <1>11 DEF ResetPcieLink, deviceVars
<1>12. ASSUME SurpriseRemoval PROVE Goal
  BY <1>9, <1>12 DEF SurpriseRemoval
<1>13. ASSUME UNCHANGED << handle, tlbVars, fileVars, threadVars >> PROVE Goal
  BY <1>13, SyncShorten DEF tlbVars, fileVars
<1>14. ASSUME NEW f \in File, PostReset(f) PROVE Goal
  BY <1>13, <1>14 DEF PostReset
<1>15. ASSUME UNCHANGED vars PROVE Goal
  BY <1>13, <1>15 DEF vars, tlbVars, fileVars, threadVars
<1>16. Goal
  BY <1>2, <1>3, <1>4, <1>5, <1>6, <1>7, <1>8, <1>10, <1>11, <1>12, <1>14, <1>15
    DEF Next, ThreadStep
<1> QED  BY <1>1, <1>16 DEF SyncInv

(* The invariant of TtMemory when all handles are synchronous.             *)
LEMMA SyncInvariant ==
  ASSUME SyncFile = File
  PROVE  Spec => []SyncInv
<1>1. Init => SyncInv
  <2> SUFFICES ASSUME Init PROVE SyncInv
    OBVIOUS
  <2>1. SoleInv /\ OpenInv /\ FoundInv /\ WindowInv /\ CloseInv
    BY DEF Init, SoleInv, OpenInv, FoundInv, Kept, WindowInv, OwnViews, CloseInv
  <2> QED  BY <2>1, MemoryInit DEF SyncInv
<1>2. SyncInv /\ [Next]_vars => SyncInv'
  BY SyncStep
<1> QED  BY <1>1, <1>2, PTL DEF Spec

(* With synchronous handles a DMA buffer outlives every view in a page table
   and every pin, also the ones an UNMAP or UNPIN_PAGES has unlinked and not
   yet destroyed.                                                          *)
THEOREM BufferOutlivesItsUsers ==
  ASSUME SyncFile = File
  PROVE  Spec => []NothingOutlivesItsBuffer
<1>1. SyncInv => NothingOutlivesItsBuffer
  <2> SUFFICES ASSUME SyncInv, NEW f \in File
               PROVE  /\ \A m \in Views(f) : m.target \in Slot => m.target \in Bufs(f)
                      /\ \A p \in Pins(f) : p.backing \in Bufs(f) \cup { NoObj }
    BY DEF NothingOutlivesItsBuffer
  <2>1. RefsHaveBuffer(f)
    BY DEF SyncInv, MemoryInv, ListedRefsHaveBuffer, RefsHaveBuffer
  <2>2. ASSUME NEW m \in Unlinked(f, "UNMAP"), m.target \in Slot PROVE m.target \in Bufs(f)
    BY <2>2 DEF SyncInv, FoundInv, Kept, StillHeld, Unlinked
  <2>3. ASSUME NEW p \in Unlinked(f, "UNPIN_PAGES") PROVE p.backing \in Bufs(f) \cup { NoObj }
    BY <2>3 DEF SyncInv, FoundInv, Kept, StillHeld, Unlinked
  <2> QED  BY <2>1, <2>2, <2>3 DEF RefsHaveBuffer, Views, Pins
<1> QED  BY <1>1, SyncInvariant, PTL

(* With synchronous handles nobody but the owner of a window has a view of it. *)
THEOREM OnlyOwnersSeeWindows ==
  ASSUME SyncFile = File
  PROVE  Spec => []WindowViewsAreOwners
<1>1. SyncInv => WindowViewsAreOwners
  <2> SUFFICES ASSUME SyncInv, NEW f \in File, NEW m \in Views(f), m.target \in Window
               PROVE  tlbOwner[m.target] = f
    BY DEF WindowViewsAreOwners
  <2>1. CASE m \in mappings[f]
    BY <2>1 DEF SyncInv, WindowInv, OwnViews
  <2>2. CASE m \in Unlinked(f, "UNMAP")
    BY <2>2 DEF SyncInv, FoundInv, Kept, StillHeld, Unlinked
  <2> QED  BY <2>1, <2>2 DEF Views
<1> QED  BY <1>1, SyncInvariant, PTL

(* With synchronous handles nothing is left to a handle after its cleanup. *)
THEOREM CleanupTakesEverything ==
  ASSUME SyncFile = File
  PROVE  Spec => []ClosedOwnsNothing
<1>1. SyncInv => ClosedOwnsNothing
  <2> SUFFICES ASSUME SyncInv, NEW f \in File, handle[f] = "closed"
               PROVE  /\ Views(f) = {} /\ Pins(f) = {} /\ Bufs(f) = {}
                      /\ \A w \in Window : tlbOwner[w] # f
    BY DEF ClosedOwnsNothing
  <2>1. Unlinked(f, "UNMAP") = {} /\ Unlinked(f, "UNPIN_PAGES") = {}
    BY DEF Unlinked, SyncInv, OpenInv
  <2> QED  BY <2>1 DEF SyncInv, CloseInv, Views, Pins
<1> QED  BY <1>1, SyncInvariant, PTL

(* With synchronous handles the registers of a window are only written for the
   handle that owns it, although CONFIGURE_TLB writes them after TlbLock.  *)
THEOREM OnlyOwnersConfigure ==
  ASSUME SyncFile = File
  PROVE  Spec => ConfiguredByOwner
<1> DEFINE A == \A w \in Window : tlbConfig'[w] # tlbConfig[w] => tlbOwner[w] = tlbConfig'[w]
<1>1. ASSUME SyncInv, [Next]_vars PROVE A \/ UNCHANGED vars
  <2>1. UNCHANGED tlbConfig => A
    OBVIOUS
  <2>2. ASSUME NEW t \in Thread, BhConfigureUserTlb(t) PROVE A
    <3> DEFINE v == req[t].obj
               f == req[t].file
    <3>1. pc[t] = "second" /\ req[t].op = "CONFIGURE_TLB"
      BY <2>2 DEF BhConfigureUserTlb, Continues
    <3>2. tlbOwner[v] = f
      BY <1>1, <3>1 DEF SyncInv, FoundInv, Kept, StillHeld
    <3>3. tlbConfig' = tlbConfig \/ tlbConfig' = [tlbConfig EXCEPT ![v] = f]
      BY <2>2 DEF BhConfigureUserTlb
    <3>4. tlbConfig \in [Window -> File \cup { NoFile }]
      BY <1>1 DEF SyncInv, MemoryInv, TypeInv, MemoryType
    <3> HIDE DEF v, f
    <3> QED  BY <3>2, <3>3, <3>4
  <2>3. ASSUME NEW t \in Thread, HandlerFails(t) \/ WindowStep(t) PROVE A
    BY <2>1, <2>2, <2>3 DEF HandlerFails, WindowStep, AllocateTlb, FreeTlb, ConfigureTlb,
      AllocateTlbReturns, AllocateTlbRollback, tlbVars
  <2>4. ASSUME NEW t \in Thread, BufferStep(t) PROVE A
    BY <2>1, <2>4 DEF BufferStep, AllocateDmaBuf, AllocateDmaBufPublishes, AllocateDmaBufFails,
      FreeDmaBufEx, tlbVars
  <2>5. ASSUME NEW t \in Thread, CallerStep(t) PROVE A
    BY <2>1, <2>5 DEF CallerStep, Map, Unmap, PinPages, UnpinPages, DestroyUnlinked, tlbVars
  <2>6. ASSUME NEW f \in File, CleanupDelist(f) \/ CleanupMemory(f) \/ CleanupWindows(f)
                                 \/ ResetPcieLink(f) \/ PostReset(f) PROVE A
    BY <2>1, <2>6 DEF CleanupDelist, CleanupMemory, CleanupWindows, ResetPcieLink, PostReset, tlbVars
  <2>7. ASSUME NEW f \in File, NEW p \in Process, FileCreate(f, p) PROVE A
    BY <2>1, <2>7 DEF FileCreate, tlbVars
  <2>8. ASSUME NEW t \in Thread, NEW f \in File, NEW op \in CallerOp \cup QueuedOp, Dispatch(t, f, op)
        PROVE  A
    BY <2>1, <2>8 DEF Dispatch, tlbVars
  <2>9. ASSUME NEW p \in Process, ProcessExit(p) PROVE A
    BY <2>1, <2>9 DEF ProcessExit, tlbVars
  <2>10. ASSUME NEW f \in File, NEW hw \in BOOLEAN, ResetAndBump(f, hw) PROVE A
    BY <2>1, <2>10 DEF ResetAndBump, tlbVars
  <2>11. ASSUME SurpriseRemoval PROVE A
    BY <2>1, <2>11 DEF SurpriseRemoval, tlbVars
  <2> HIDE DEF A
  <2> QED  BY <1>1, <2>3, <2>4, <2>5, <2>6, <2>7, <2>8, <2>9, <2>10, <2>11 DEF Next
<1>2. SyncInv /\ [Next]_vars => [A]_vars
  BY <1>1
<1> QED  BY <1>2, SyncInvariant, PTL DEF Spec, ConfiguredByOwner

-----------------------------------------------------------------------------
(***************************************************************************)
(* Process exit, with overlapped and duplicated handles.  The invariant    *)
(* DeadInv is not inductive alone: MAP and PIN_PAGES add to the lists, and *)
(* that they do so only in a live opener is AliveInv.                      *)
(***************************************************************************)

(* Requests served in the caller's context run in a live opener, and the lists
   of a listed handle whose opener is gone are empty.                      *)
AliveInv ==
  \A t \in Thread : pc[t] # "idle" /\ req[t].op \in CallerOp => creator[req[t].file] \in alive
DeadInv ==
  \A f \in File : handle[f] = "open" /\ creator[f] \in Process \ alive =>
    mappings[f] = {} /\ pinnings[f] = {}

(* Queued requests leave views and pins alone.                             *)
LEMMA QueuedKeeps ==
  ASSUME NEW t \in Thread, ThreadStep(t), req[t].op \notin CallerOp
  PROVE  UNCHANGED << mappings, pinnings >>
<1>1. CASE HandlerFails(t)
  BY <1>1 DEF HandlerFails, fileVars
<1>2. CASE WindowStep(t)
  BY <1>2 DEF WindowStep, AllocateTlb, FreeTlb, ConfigureTlb, AllocateTlbReturns,
    AllocateTlbRollback, BhConfigureUserTlb, fileVars
<1>3. CASE BufferStep(t)
  BY <1>3 DEF BufferStep, AllocateDmaBuf, AllocateDmaBufPublishes, AllocateDmaBufFails,
    FreeDmaBufEx
<1>4. CASE CallerStep(t)
  BY <1>4 DEF CallerStep, Map, Unmap, PinPages, UnpinPages, DestroyUnlinked, LockAndHandle,
    Handles, Continues, CallerOp
<1> QED  BY <1>1, <1>2, <1>3, <1>4 DEF ThreadStep

(* Every step keeps both.                                                  *)
LEMMA ExitStep ==
  MemoryInv /\ AliveInv /\ DeadInv /\ [Next]_vars => AliveInv' /\ DeadInv'
<1> SUFFICES ASSUME MemoryInv, AliveInv, DeadInv, [Next]_vars PROVE AliveInv' /\ DeadInv'
  OBVIOUS
<1> DEFINE Goal == AliveInv' /\ DeadInv'
<1>1. MemoryInv /\ TypeInv /\ DeviceType /\ MemoryType /\ ThreadType
  BY DEF MemoryInv, TypeInv
<1>2. ASSUME NEW t \in Thread, ThreadStep(t) PROVE Goal
  <2>1. UNCHANGED deviceVars /\ Moves(t)
    BY <1>1, <1>2, ThreadStepFacts
  <2>2. PICK f \in File : f = req[t].file
    BY <1>1, <2>1, RequestFields DEF Moves
  <2>3. RefsHaveBuffer(f)
    BY <1>1 DEF MemoryInv, ListedRefsHaveBuffer, RefsHaveBuffer
  <2>4. OwnOnly(t)
    BY <1>1, <1>2, <2>2, <2>3, ListedStep
  <2>5. AliveInv'
    BY <2>1 DEF AliveInv, Moves, deviceVars
  <2>6. CASE req[t].op \in CallerOp
    <3>1. creator[f] \in alive
      BY <2>1, <2>2, <2>6 DEF AliveInv, Moves
    <3> QED  BY <2>1, <2>2, <2>4, <2>5, <3>1 DEF DeadInv, OwnOnly, deviceVars
  <2>7. CASE req[t].op \notin CallerOp
    BY <1>2, <2>1, <2>5, <2>7, QueuedKeeps DEF DeadInv, deviceVars
  <2> QED  BY <2>6, <2>7
<1>3. ASSUME NEW t \in Thread, NEW f \in File, NEW op \in CallerOp \cup QueuedOp, Dispatch(t, f, op)
      PROVE  Goal
  <2>1. op \in CallerOp => creator[f] \in alive
    BY <1>3 DEF Dispatch, CallerOp, QueuedOp
  <2>2. AliveInv'
    BY <1>1, <1>3, <2>1, DispatchFacts DEF AliveInv, deviceVars
  <2> QED  BY <1>3, <2>2 DEF DeadInv, Dispatch, deviceVars, fileVars
<1>4. ASSUME NEW f \in File, NEW p \in Process, FileCreate(f, p) PROVE Goal
  <2>1. /\ p \in alive /\ UNCHANGED << alive, fileVars, threadVars >>
        /\ \A g \in File : creator'[g] = IF g = f THEN p ELSE creator[g]
        /\ \A g \in File \ { f } : handle'[g] = handle[g]
    BY <1>1, <1>4 DEF FileCreate, DeviceType
  <2>2. \A t \in Thread : pc[t] # "idle" => req[t].file \in File
    BY <1>1, RequestFields
  <2> QED  BY <2>1, <2>2 DEF AliveInv, DeadInv, fileVars, threadVars
<1>5. ASSUME UNCHANGED << creator, alive, threadVars >>,
             \A g \in File : handle'[g] = "open" => handle[g] = "open",
             \A g \in File : mappings'[g] \subseteq mappings[g] /\ pinnings'[g] \subseteq pinnings[g]
      PROVE  Goal
  BY <1>5 DEF AliveInv, DeadInv, threadVars
<1>6. ASSUME NEW f \in File, CleanupDelist(f) \/ CleanupWindows(f) \/ PostReset(f) PROVE Goal
  <2>1. \A g \in File : handle'[g] = "open" => handle[g] = "open"
    BY <1>1, <1>6 DEF CleanupDelist, CleanupWindows, PostReset, DeviceType
  <2> QED  BY <1>5, <1>6, <2>1 DEF CleanupDelist, CleanupWindows, PostReset, fileVars
<1>7. ASSUME NEW f \in File, CleanupMemory(f) PROVE Goal
  <2>1. \A g \in File : mappings'[g] \subseteq mappings[g] /\ pinnings'[g] \subseteq pinnings[g]
    BY <1>1, <1>7 DEF CleanupMemory, MemoryType
  <2>2. \A g \in File : handle'[g] = "open" => handle[g] = "open"
    BY <1>1, <1>7 DEF CleanupMemory, DeviceType
  <2> QED  BY <1>5, <1>7, <2>1, <2>2 DEF CleanupMemory
<1>8. ASSUME NEW p \in Process, ProcessExit(p) PROVE Goal
  <2>1. UNCHANGED << handle, creator, threadVars >> /\ alive' = alive \ { p }
    BY <1>8 DEF ProcessExit
  <2>2. \A t \in Thread : pc[t] # "idle" /\ req[t].op \in CallerOp => creator[req[t].file] # p
    BY <1>8 DEF ProcessExit, CallerOp, QueuedOp
  <2>3. \A g \in File : handle[g] = "open" /\ creator[g] = p => mappings'[g] = {} /\ pinnings'[g] = {}
    BY <1>8 DEF ProcessExit
  <2>4. \A g \in File : creator[g] # p => mappings'[g] = mappings[g] /\ pinnings'[g] = pinnings[g]
    BY <1>8 DEF ProcessExit
  <2>5. AliveInv'
    BY <2>1, <2>2 DEF AliveInv, threadVars
  <2>6. DeadInv'
    BY <2>1, <2>3, <2>4 DEF DeadInv
  <2> QED  BY <2>5, <2>6
<1>9. ASSUME ResetZapMappings, UNCHANGED << handle, creator, alive, pinnings, threadVars >> PROVE Goal
  <2>1. \A g \in File : mappings'[g] \subseteq mappings[g] /\ pinnings'[g] \subseteq pinnings[g]
    BY <1>1, <1>9, ZapFacts
  <2> QED  BY <1>5, <1>9, <2>1
<1>10. ASSUME NEW f \in File, NEW hw \in BOOLEAN, ResetAndBump(f, hw) PROVE Goal
  BY <1>9, <1>10 DEF ResetAndBump
<1>11. ASSUME NEW f \in File, ResetPcieLink(f) PROVE Goal
  BY <1>9, <1>11 DEF ResetPcieLink, deviceVars
<1>12. ASSUME SurpriseRemoval PROVE Goal
  BY <1>9, <1>12 DEF SurpriseRemoval
<1>13. ASSUME UNCHANGED vars PROVE Goal
  BY <1>5, <1>13 DEF vars, threadVars
<1> HIDE DEF Goal
<1>14. Goal
  BY <1>2, <1>3, <1>4, <1>6, <1>7, <1>8, <1>10, <1>11, <1>12, <1>13 DEF Next, ThreadStep
<1> QED  BY <1>14 DEF Goal

(* However requests overlap and whichever handles are duplicated, a process
   whose exit callback has run has no view and no locked page through a handle
   that is still listed: MAP and PIN_PAGES find the opener alive, the callback
   takes what they made, and no thread of the process is left in between.    *)
THEOREM ExitTakesEverything == Spec => []DeadProcessHasNothing
<1>1. Init => AliveInv /\ DeadInv
  BY DEF Init, AliveInv, DeadInv
<1>2. MemoryInv /\ AliveInv /\ DeadInv /\ [Next]_vars => AliveInv' /\ DeadInv'
  BY ExitStep
<1>3. AliveInv /\ DeadInv => DeadProcessHasNothing
  <2> SUFFICES ASSUME AliveInv, DeadInv, NEW f \in File, handle[f] = "open",
                      creator[f] \in Process \ alive
               PROVE  Views(f) = {} /\ Pins(f) = {}
    BY DEF DeadProcessHasNothing
  <2>1. Unlinked(f, "UNMAP") = {} /\ Unlinked(f, "UNPIN_PAGES") = {}
    BY DEF Unlinked, AliveInv, CallerOp
  <2> QED  BY <2>1 DEF DeadInv, Views, Pins
<1> QED  BY <1>1, <1>2, <1>3, MemoryInvariant, PTL DEF Spec
-----------------------------------------------------------------------------
(***************************************************************************)
(* Sums over finite sets.  MapThenSumSet is a fold that takes the elements *)
(* in the order of a CHOOSE; below are the facts about it that do not      *)
(* depend on that order.                                                   *)
(***************************************************************************)
Pick(s) == CHOOSE x \in s : TRUE

(* The recursion of the fold, over the subsets of S.                       *)
Iter(g, F, S) ==
  g = [s \in SUBSET S |-> IF s = {} THEN 0 ELSE F[Pick(s)] + g[s \ { Pick(s) }]]

Sum(F, S) == MapThenSumSet(LAMBDA x : F[x], S)

(* The element the fold takes next is one of the set.                      *)
LEMMA PickIn == ASSUME NEW s, s # {} PROVE Pick(s) \in s
BY DEF Pick

(* A family of subsets of a finite set has a minimal member.               *)
LEMMA MinimalSet ==
  ASSUME NEW S, IsFiniteSet(S), NEW B \in SUBSET (SUBSET S), B # {}
  PROVE  \E m \in B : \A x \in m : m \ { x } \notin B
<1>1. PICK R : R = OpToRel(<, Nat)
  OBVIOUS
<1>2. IsWellFoundedOn(R, Nat)
  BY <1>1, NatLessThanWellFounded
<1>3. PICK C : C = { Cardinality(s) : s \in B }
  OBVIOUS
<1>4. ASSUME NEW s \in B PROVE IsFiniteSet(s) /\ Cardinality(s) \in Nat
  <2>1. IsFiniteSet(s)
    BY FS_Subset
  <2> QED  BY <2>1, FS_CardinalityType
<1>5. C \in SUBSET Nat /\ C # {}
  BY <1>3, <1>4
<1>6. PICK c \in C : \A k \in C : ~(<<k, c>> \in R)
  BY <1>2, <1>5, WFMin
<1>7. PICK m \in B : c = Cardinality(m)
  BY <1>3, <1>6
<1>8. ASSUME NEW x \in m, m \ { x } \in B PROVE FALSE
  <2>1. Cardinality(m \ { x }) = Cardinality(m) - 1
    BY <1>4, FS_RemoveElement
  <2>2. Cardinality(m \ { x }) \in C /\ Cardinality(m \ { x }) < c
    BY <1>3, <1>4, <1>7, <1>8, <2>1
  <2>3. << Cardinality(m \ { x }), c >> \in R
    BY <1>1, <1>5, <2>2 DEF OpToRel
  <2> QED  BY <1>6, <2>2, <2>3
<1> QED  BY <1>8

(* What the recursion says of one set.                                     *)
LEMMA IterAt ==
  ASSUME NEW g, NEW F, NEW S, Iter(g, F, S), NEW s \in SUBSET S
  PROVE  g[s] = IF s = {} THEN 0 ELSE F[Pick(s)] + g[s \ { Pick(s) }]
BY Zenon DEF Iter

(* Two solutions agree where the summands do.                              *)
LEMMA IterAgree ==
  ASSUME NEW g, NEW F, NEW S, Iter(g, F, S), NEW h, NEW G, NEW T, Iter(h, G, T),
         NEW s \in SUBSET S, s \in SUBSET T, IsFiniteSet(s), \A x \in s : F[x] = G[x]
  PROVE  g[s] = h[s]
<1> SUFFICES ASSUME g[s] # h[s] PROVE FALSE
  OBVIOUS
<1>1. PICK B : B = { r \in SUBSET s : g[r] # h[r] }
  OBVIOUS
<1>2. s \in B /\ B \in SUBSET (SUBSET s)
  BY <1>1
<1>3. PICK m \in B : \A x \in m : m \ { x } \notin B
  BY <1>2, MinimalSet
<1>4. m \in SUBSET S /\ m \in SUBSET T /\ m \in SUBSET s /\ g[m] # h[m]
  BY <1>1, <1>3
<1>5. PICK c : c = Pick(m)
  OBVIOUS
<1>6. /\ g[m] = IF m = {} THEN 0 ELSE F[c] + g[m \ { c }]
      /\ h[m] = IF m = {} THEN 0 ELSE G[c] + h[m \ { c }]
  <2>1. g[m] = IF m = {} THEN 0 ELSE F[Pick(m)] + g[m \ { Pick(m) }]
    BY <1>4, Zenon DEF Iter
  <2>2. h[m] = IF m = {} THEN 0 ELSE G[Pick(m)] + h[m \ { Pick(m) }]
    BY <1>4, Zenon DEF Iter
  <2> QED  BY <1>5, <2>1, <2>2
<1>7. m # {}
  BY <1>4, <1>6
<1>8. c \in m
  BY <1>5, <1>7, PickIn
<1>9. m \ { c } \in SUBSET s /\ m \ { c } \notin B
  BY <1>3, <1>4, <1>8
<1>10. g[m \ { c }] = h[m \ { c }]
  BY <1>1, <1>9
<1> QED  BY <1>4, <1>6, <1>7, <1>8, <1>10

(* A solution over a set gives one over each of its subsets.               *)
LEMMA IterRestrict ==
  ASSUME NEW g, NEW F, NEW S, Iter(g, F, S), NEW T \in SUBSET S
  PROVE  Iter([s \in SUBSET T |-> g[s]], F, T)
<1>1. PICK h : h = [s \in SUBSET T |-> g[s]]
  OBVIOUS
<1>2. ASSUME NEW s \in SUBSET T
      PROVE  h[s] = IF s = {} THEN 0 ELSE F[Pick(s)] + h[s \ { Pick(s) }]
  <2>1. s \in SUBSET S /\ s \ { Pick(s) } \in SUBSET T
    OBVIOUS
  <2>2. g[s] = IF s = {} THEN 0 ELSE F[Pick(s)] + g[s \ { Pick(s) }]
    BY <2>1, IterAt
  <2>3. h[s] = g[s] /\ h[s \ { Pick(s) }] = g[s \ { Pick(s) }]
    BY <1>1, <2>1
  <2> QED  BY <2>2, <2>3
<1>3. h = [s \in SUBSET T |-> h[s]]
  BY <1>1
<1>4. Iter(h, F, T)
  BY <1>2, <1>3 DEF Iter
<1> QED  BY <1>1, <1>4

(* The value of a solution does not depend on the set it is a solution over. *)
IterValue(F, s) == (CHOOSE g : Iter(g, F, s))[s]

(* Every finite set has a solution.                                        *)
LEMMA IterExists ==
  ASSUME NEW F, NEW S, IsFiniteSet(S)
  PROVE  \E g : Iter(g, F, S)
<1> SUFFICES ASSUME ~ \E g : Iter(g, F, S) PROVE FALSE
  OBVIOUS
<1>1. PICK B : B = { T \in SUBSET S : ~ \E g : Iter(g, F, T) }
  OBVIOUS
<1>2. S \in B /\ B \in SUBSET (SUBSET S)
  BY <1>1
<1>3. PICK m \in B : \A x \in m : m \ { x } \notin B
  BY <1>2, MinimalSet
<1>4. m \in SUBSET S /\ ~ \E g : Iter(g, F, m)
  BY <1>1, <1>3
<1>5. ASSUME NEW s \in SUBSET m, s # m PROVE \E g : Iter(g, F, s)
  <2>1. PICK x \in m : x \notin s
    BY <1>5
  <2>2. m \ { x } \in SUBSET S /\ m \ { x } \notin B
    BY <1>3, <1>4
  <2>3. PICK g : Iter(g, F, m \ { x })
    BY <1>1, <2>2
  <2>4. s \in SUBSET (m \ { x })
    BY <2>1
  <2> QED  BY <2>3, <2>4, IterRestrict
<1>6. ASSUME NEW s \in SUBSET m, s # m
      PROVE  /\ s = {} => IterValue(F, s) = 0
             /\ s # {} => IterValue(F, s) = F[Pick(s)] + IterValue(F, s \ { Pick(s) })
  <2>1. PICK g : g = CHOOSE f : Iter(f, F, s)
    OBVIOUS
  <2>2. Iter(g, F, s) /\ IterValue(F, s) = g[s]
    BY <1>5, <1>6, <2>1 DEF IterValue
  <2>3. g[s] = IF s = {} THEN 0 ELSE F[Pick(s)] + g[s \ { Pick(s) }]
    BY <2>2, IterAt
  <2>4. ASSUME s # {} PROVE g[s \ { Pick(s) }] = IterValue(F, s \ { Pick(s) })
    <3>1. PICK r : r = s \ { Pick(s) }
      OBVIOUS
    <3>2. r \in SUBSET m /\ r # m /\ r \in SUBSET s
      BY <1>6, <3>1
    <3>3. PICK h : h = CHOOSE f : Iter(f, F, r)
      OBVIOUS
    <3>4. Iter(h, F, r) /\ IterValue(F, r) = h[r]
      BY <1>5, <3>2, <3>3 DEF IterValue
    <3>5. IsFiniteSet(r)
      BY <1>4, <3>2, FS_Subset
    <3>6. g[r] = h[r]
      BY <2>2, <3>2, <3>4, <3>5, IterAgree
    <3> QED  BY <3>1, <3>4, <3>6
  <2> QED  BY <2>2, <2>3, <2>4
<1>7. PICK c : c = Pick(m)
  OBVIOUS
<1>8. PICK g : g = [s \in SUBSET m |->
                      IF s = {} THEN 0
                      ELSE IF s = m THEN F[c] + IterValue(F, m \ { c }) ELSE IterValue(F, s)]
  OBVIOUS
<1>9. ASSUME NEW s \in SUBSET m
      PROVE  g[s] = IF s = {} THEN 0 ELSE F[Pick(s)] + g[s \ { Pick(s) }]
  <2>1. CASE s = {}
    BY <1>8, <2>1
  <2>2. CASE s # {}
    <3>1. Pick(s) \in s
      BY <2>2, PickIn
    <3>2. PICK r : r = s \ { Pick(s) }
      OBVIOUS
    <3>3. r \in SUBSET m /\ r # m
      BY <3>1, <3>2
    <3>4. g[r] = IterValue(F, r)
      BY <1>6, <1>8, <3>3
    <3>5. g[s] = F[Pick(s)] + IterValue(F, r)
      <4>1. CASE s = m
        BY <1>7, <1>8, <2>2, <3>2, <4>1
      <4>2. CASE s # m
        BY <1>6, <1>8, <2>2, <3>2, <4>2
      <4> QED  BY <4>1, <4>2
    <3> QED  BY <2>2, <3>2, <3>4, <3>5
  <2> QED  BY <2>1, <2>2
<1>10. g = [s \in SUBSET m |-> g[s]]
  BY <1>8
<1>11. Iter(g, F, m)
  BY <1>9, <1>10 DEF Iter
<1> QED  BY <1>4, <1>11

(* The sum is the value of a solution.                                     *)
LEMMA SumIter ==
  ASSUME NEW F, NEW S, IsFiniteSet(S)
  PROVE  \E g : Iter(g, F, S) /\ Sum(F, S) = g[S]
<1>1. PICK g : g = CHOOSE f : Iter(f, F, S)
  OBVIOUS
<1>2. Iter(g, F, S)
  BY <1>1, IterExists
<1>3. Sum(F, S) = g[S]
  BY <1>1 DEF Sum, MapThenSumSet, MapThenFoldSet, Iter, Pick
<1> QED  BY <1>2, <1>3

(* Summands that agree have the same sum.                                  *)
LEMMA SumAgree ==
  ASSUME NEW F, NEW G, NEW S, IsFiniteSet(S), \A x \in S : F[x] = G[x]
  PROVE  Sum(F, S) = Sum(G, S)
<1>1. PICK g : Iter(g, F, S) /\ Sum(F, S) = g[S]
  BY SumIter
<1>2. PICK h : Iter(h, G, S) /\ Sum(G, S) = h[S]
  BY SumIter
<1>3. g[S] = h[S]
  BY <1>1, <1>2, IterAgree
<1> QED  BY <1>1, <1>2, <1>3

(* A sum of integers is one, and any element may be taken out first.        *)
LEMMA SumType ==
  ASSUME NEW F, NEW S, IsFiniteSet(S), \A x \in S : F[x] \in Int
  PROVE  Sum(F, S) \in Int
<1> SUFFICES ASSUME Sum(F, S) \notin Int PROVE FALSE
  OBVIOUS
<1>1. PICK g : Iter(g, F, S) /\ Sum(F, S) = g[S]
  BY SumIter
<1>2. PICK B : B = { s \in SUBSET S : g[s] \notin Int }
  OBVIOUS
<1>3. S \in B /\ B \in SUBSET (SUBSET S)
  BY <1>1, <1>2
<1>4. PICK m \in B : \A x \in m : m \ { x } \notin B
  BY <1>3, MinimalSet
<1>5. m \in SUBSET S /\ g[m] \notin Int
  BY <1>2, <1>4
<1>6. g[m] = IF m = {} THEN 0 ELSE F[Pick(m)] + g[m \ { Pick(m) }]
  BY <1>1, <1>5, IterAt
<1>7. m # {} /\ Pick(m) \in m
  BY <1>5, <1>6, PickIn
<1>8. m \ { Pick(m) } \in SUBSET S /\ m \ { Pick(m) } \notin B
  BY <1>4, <1>5, <1>7
<1>9. g[m \ { Pick(m) }] \in Int /\ F[Pick(m)] \in Int
  BY <1>2, <1>5, <1>7, <1>8
<1> QED  BY <1>5, <1>6, <1>7, <1>9

(* One element may be taken out of a sum.                                  *)
LEMMA SumTake ==
  ASSUME NEW F, NEW S, IsFiniteSet(S), \A x \in S : F[x] \in Int, NEW y \in S
  PROVE  Sum(F, S) = F[y] + Sum(F, S \ { y })
<1>1. PICK g : Iter(g, F, S) /\ Sum(F, S) = g[S]
  BY SumIter
<1>a. \A s \in SUBSET S : g[s] = IF s = {} THEN 0 ELSE F[Pick(s)] + g[s \ { Pick(s) }]
  BY <1>1, Zenon DEF Iter
<1>2. ASSUME NEW s \in SUBSET S PROVE g[s] = Sum(F, s) /\ g[s] \in Int
  <2>1. IsFiniteSet(s)
    BY FS_Subset
  <2>2. PICK h : Iter(h, F, s) /\ Sum(F, s) = h[s]
    BY <2>1, SumIter
  <2>3. g[s] = h[s]
    BY <1>1, <2>1, <2>2, IterAgree
  <2>4. Sum(F, s) \in Int
    BY <2>1, SumType
  <2> QED  BY <2>2, <2>3, <2>4
<1>3. PICK B : B = { s \in SUBSET S : \E x \in s : g[s] # F[x] + g[s \ { x }] }
  OBVIOUS
<1>4. ASSUME B # {} PROVE FALSE
  <2>1. PICK m \in B : \A x \in m : m \ { x } \notin B
    BY <1>3, <1>4, MinimalSet
  <2>2. PICK x \in m : g[m] # F[x] + g[m \ { x }]
    BY <1>3, <2>1
  <2>3. m \in SUBSET S
    BY <1>3
  <2>4. PICK c : c = Pick(m)
    OBVIOUS
  <2>5. c \in m /\ g[m] = F[c] + g[m \ { c }]
    <3>1. g[m] = IF m = {} THEN 0 ELSE F[Pick(m)] + g[m \ { Pick(m) }]
      BY <1>a, <2>3
    <3> QED  BY <2>2, <2>4, <3>1, PickIn
  <2>6. c # x
    BY <2>2, <2>5
  <2>7. PICK r : r = m \ { c, x }
    OBVIOUS
  <2>8. /\ m \ { c } \in SUBSET S /\ x \in m \ { c } /\ (m \ { c }) \ { x } = r
        /\ m \ { x } \in SUBSET S /\ c \in m \ { x } /\ (m \ { x }) \ { c } = r
        /\ m \ { c } \notin B /\ m \ { x } \notin B
    BY <2>1, <2>3, <2>5, <2>6, <2>7
  <2>9. g[m \ { c }] = F[x] + g[(m \ { c }) \ { x }]
    BY <1>3, <2>8
  <2>10. g[m \ { x }] = F[c] + g[(m \ { x }) \ { c }]
    BY <1>3, <2>8
  <2>11. g[r] \in Int /\ F[c] \in Int /\ F[x] \in Int
    BY <1>2, <2>3, <2>5, <2>7
  <2>12. g[m \ { c }] = F[x] + g[r] /\ g[m \ { x }] = F[c] + g[r]
    BY <2>8, <2>9, <2>10
  <2> QED  BY <2>2, <2>5, <2>11, <2>12
<1>5. g[S] = F[y] + g[S \ { y }]
  BY <1>3, <1>4
<1> QED  BY <1>1, <1>2, <1>5

(* The empty sum, and one more summand.                                    *)
LEMMA SumEmpty == ASSUME NEW F PROVE Sum(F, {}) = 0
<1>1. IsFiniteSet({})
  BY FS_EmptySet
<1>2. PICK g : Iter(g, F, {}) /\ Sum(F, {}) = g[{}]
  BY <1>1, SumIter
<1> QED  BY <1>2, IterAt

(* A new element adds its term to a sum.                                   *)
LEMMA SumAdd ==
  ASSUME NEW F, NEW S, IsFiniteSet(S), NEW y, y \notin S,
         \A x \in S : F[x] \in Int, F[y] \in Int
  PROVE  Sum(F, S \cup { y }) = F[y] + Sum(F, S)
<1>1. PICK T : T = S \cup { y }
  OBVIOUS
<1>2. IsFiniteSet(T) /\ y \in T /\ T \ { y } = S /\ \A x \in T : F[x] \in Int
  BY <1>1, FS_AddElement
<1>3. Sum(F, T) = F[y] + Sum(F, T \ { y })
  BY <1>2, SumTake
<1> QED  BY <1>1, <1>2, <1>3

(* Changing one summand changes the sum by as much.                        *)
LEMMA SumChange ==
  ASSUME NEW F, NEW G, NEW S, IsFiniteSet(S), NEW y \in S,
         \A x \in S : F[x] \in Int, G[y] \in Int, \A x \in S \ { y } : G[x] = F[x]
  PROVE  Sum(G, S) = Sum(F, S) + (G[y] - F[y])
<1>1. IsFiniteSet(S \ { y })
  BY FS_RemoveElement
<1>2. \A x \in S : G[x] \in Int
  OBVIOUS
<1>3. Sum(F, S) = F[y] + Sum(F, S \ { y }) /\ Sum(G, S) = G[y] + Sum(G, S \ { y })
  BY <1>2, SumTake
<1>4. Sum(F, S \ { y }) = Sum(G, S \ { y })
  BY <1>1, SumAgree
<1>5. Sum(F, S \ { y }) \in Int
  BY <1>1, SumType
<1> QED  BY <1>3, <1>4, <1>5

(* With summands that are not negative, part of a sum is at most the whole. *)
LEMMA SumSubset ==
  ASSUME NEW F, NEW S, IsFiniteSet(S), \A x \in S : F[x] \in Nat, NEW T \in SUBSET S
  PROVE  Sum(F, T) <= Sum(F, S)
<1>1. PICK B : B = { s \in SUBSET S : ~(T \subseteq s => Sum(F, T) <= Sum(F, s)) }
  OBVIOUS
<1>2. ASSUME B # {} PROVE FALSE
  <2>0. B \in SUBSET (SUBSET S)
    BY <1>1
  <2>1. PICK m \in B : \A x \in m : m \ { x } \notin B
    BY <1>2, <2>0, MinimalSet
  <2>2. m \in SUBSET S /\ T \subseteq m /\ ~(Sum(F, T) <= Sum(F, m))
    BY <1>1, <2>1
  <2>3. IsFiniteSet(T) /\ IsFiniteSet(m)
    BY <2>2, FS_Subset
  <2>4. Sum(F, T) \in Int /\ Sum(F, m) \in Int
    <3>1. (\A x \in T : F[x] \in Int) /\ (\A x \in m : F[x] \in Int)
      BY <2>2
    <3> QED  BY <2>3, <3>1, SumType
  <2>5. PICK x \in m : x \notin T
    <3>1. T # m
      BY <2>2, <2>4
    <3> QED  BY <2>2, <3>1
  <2>6. m \ { x } \in SUBSET S /\ T \subseteq m \ { x } /\ m \ { x } \notin B
    BY <2>1, <2>2, <2>5
  <2>7. Sum(F, T) <= Sum(F, m \ { x })
    BY <1>1, <2>6
  <2>8. Sum(F, m) = F[x] + Sum(F, m \ { x }) /\ F[x] \in Nat
    BY <2>2, <2>3, SumTake
  <2>9. Sum(F, m \ { x }) \in Int
    <3>1. IsFiniteSet(m \ { x }) /\ \A y \in m \ { x } : F[y] \in Int
      BY <2>2, <2>3, FS_RemoveElement
    <3> QED  BY <3>1, SumType
  <2> QED  BY <2>2, <2>4, <2>7, <2>8, <2>9
<1> QED  BY <1>1, <1>2

(* Sums of natural numbers.                                                *)
LEMMA SumNat ==
  ASSUME NEW F, NEW S, IsFiniteSet(S), \A x \in S : F[x] \in Nat
  PROVE  Sum(F, S) \in Nat
<1>1. Sum(F, {}) <= Sum(F, S)
  BY SumSubset
<1>2. Sum(F, S) \in Int
  BY SumType
<1> QED  BY <1>1, <1>2, SumEmpty

(* Summands set to zero are taken out of the sum.                          *)
LEMMA SumClear ==
  ASSUME NEW F, NEW S, IsFiniteSet(S), \A x \in S : F[x] \in Int, NEW T \in SUBSET S
  PROVE  Sum([x \in S |-> IF x \in T THEN 0 ELSE F[x]], S) = Sum(F, S) - Sum(F, T)
<1> DEFINE G(t) == [x \in S |-> IF x \in t THEN 0 ELSE F[x]]
<1>1. PICK B : B = { t \in SUBSET S : Sum(G(t), S) # Sum(F, S) - Sum(F, t) }
  OBVIOUS
<1>2. ASSUME B # {} PROVE FALSE
  <2>0. B \in SUBSET (SUBSET S)
    BY <1>1
  <2>1. PICK m \in B : \A x \in m : m \ { x } \notin B
    BY <1>2, <2>0, MinimalSet
  <2>2. m \in SUBSET S /\ Sum(G(m), S) # Sum(F, S) - Sum(F, m)
    BY <1>1, <2>1
  <2>3. Sum(F, S) \in Int
    BY SumType
  <2>4. CASE m = {}
    <3>1. PICK H : H = G(m)
      OBVIOUS
    <3>2. \A x \in S : H[x] = F[x]
      BY <2>4, <3>1
    <3>3. Sum(H, S) = Sum(F, S)
      BY <3>2, SumAgree
    <3>4. Sum(F, m) = 0
      BY <2>4, SumEmpty
    <3> QED  BY <2>2, <2>3, <3>1, <3>3, <3>4
  <2>5. CASE m # {}
    <3>1. PICK y \in m : TRUE
      BY <2>5
    <3>2. y \in S /\ m \ { y } \in SUBSET S /\ m \ { y } \notin B
      BY <2>1, <2>2, <3>1
    <3>3. PICK r : r = m \ { y }
      OBVIOUS
    <3>4. Sum(G(r), S) = Sum(F, S) - Sum(F, r)
      BY <1>1, <3>2, <3>3
    <3>5. PICK H : H = G(r)
      OBVIOUS
    <3>6. PICK K : K = G(m)
      OBVIOUS
    <3>7. /\ \A x \in S : H[x] \in Int
          /\ H[y] = F[y] /\ K[y] = 0
          /\ \A x \in S \ { y } : K[x] = H[x]
      BY <3>1, <3>2, <3>3, <3>5, <3>6
    <3>8. Sum(K, S) = Sum(H, S) + (K[y] - H[y])
      BY <3>2, <3>7, SumChange
    <3>9. IsFiniteSet(m) /\ IsFiniteSet(r) /\ \A x \in m : F[x] \in Int
      BY <2>2, <3>3, FS_Subset
    <3>10. Sum(F, m) = F[y] + Sum(F, r)
      BY <3>1, <3>3, <3>9, SumTake
    <3>11. Sum(F, r) \in Int /\ F[y] \in Int
      BY <3>2, <3>3, <3>9, SumType
    <3> QED  BY <2>2, <2>3, <3>4, <3>5, <3>6, <3>7, <3>8, <3>10, <3>11
  <2> QED  BY <2>4, <2>5
<1>3. Sum(G(T), S) = Sum(F, S) - Sum(F, T)
  BY <1>1, <1>2
<1> QED  BY <1>3

-----------------------------------------------------------------------------
(***************************************************************************)
(* The byte account.                                                       *)
(***************************************************************************)
FileBytes == [f \in File |-> Sum(dmaBufs[f], Slot)]
Reserves == [t \in Thread |-> req[t].obj.size]
Reserving == { t \in Thread : pc[t] = "second" /\ req[t].op = "ALLOCATE_DMA_BUF" }
Granted == { t \in Reserving : ~req[t].obj.refused }

(* DmaAccountIsExact, in terms of Sum.                                     *)
AccountInv ==
  /\ dmaBufBytes = Sum(FileBytes, File) + Sum(Reserves, Reserving)
  /\ DmaBufLimitBytes # 0 =>
       Sum(FileBytes, File) + Sum(Reserves, Granted) <= DmaBufLimitBytes

(* A reservation is for an empty slot, and is its handle's only one: it keeps
   the file Lock.                                                          *)
SlotInv ==
  \A t \in Reserving :
    /\ dmaBufs[req[t].file][req[t].obj.slot] = 0
    /\ \A u \in Reserving : u # t => req[u].file # req[t].file

(* The sums of TtMemory are these.                                         *)
LEMMA BytesAreSum == \A f : BytesOf(f) = Sum(dmaBufs[f], Slot)
BY DEF BytesOf, Sum

(* What DmaAccountIsExact adds up for the live buffers is a Sum.           *)
LEMMA LiveIsSum == MapThenSumSet(BytesOf, File) = Sum(FileBytes, File)
<1> DEFINE E(g) == g = [s \in SUBSET File |->
                          IF s = {} THEN 0 ELSE BytesOf(Pick(s)) + g[s \ { Pick(s) }]]
<1>0. IsFiniteSet(File)
  BY MemoryAssumption
<1>1. ASSUME NEW s \in SUBSET File, s # {} PROVE BytesOf(Pick(s)) = FileBytes[Pick(s)]
  <2>1. Pick(s) \in File
    BY <1>1, PickIn
  <2> QED  BY <2>1, BytesAreSum DEF FileBytes
<1>2. ASSUME NEW g PROVE E(g) <=> Iter(g, FileBytes, File)
  BY <1>1 DEF Iter
<1>3. PICK h : h = CHOOSE g : E(g)
  OBVIOUS
<1>4. \E g : E(g)
  BY <1>0, <1>2, IterExists
<1>5. E(h)
  BY <1>3, <1>4
<1>6. MapThenSumSet(BytesOf, File) = h[File]
  BY <1>3 DEF MapThenSumSet, MapThenFoldSet, Pick
<1>7. Iter(h, FileBytes, File)
  BY <1>2, <1>5
<1>8. PICK k : Iter(k, FileBytes, File) /\ Sum(FileBytes, File) = k[File]
  BY <1>0, SumIter
<1>9. h[File] = k[File]
  BY <1>0, <1>7, <1>8, IterAgree
<1> QED  BY <1>6, <1>8, <1>9

(* What it adds up for the reservations of a set of threads is a Sum.      *)
LEMMA ReservedIsSum ==
  ASSUME NEW T \in SUBSET Thread
  PROVE  MapThenSumSet(LAMBDA t : req[t].obj.size, T) = Sum(Reserves, T)
<1> DEFINE E(g) == g = [s \in SUBSET T |->
                          IF s = {} THEN 0 ELSE req[Pick(s)].obj.size + g[s \ { Pick(s) }]]
<1>0. IsFiniteSet(T)
  BY MemoryAssumption, FS_Subset
<1>1. ASSUME NEW s \in SUBSET T, s # {} PROVE req[Pick(s)].obj.size = Reserves[Pick(s)]
  <2>1. Pick(s) \in Thread
    BY <1>1, PickIn
  <2> QED  BY <2>1 DEF Reserves
<1>2. ASSUME NEW g PROVE E(g) <=> Iter(g, Reserves, T)
  BY <1>1 DEF Iter
<1>3. PICK h : h = CHOOSE g : E(g)
  OBVIOUS
<1>4. \E g : E(g)
  BY <1>0, <1>2, IterExists
<1>5. E(h)
  BY <1>3, <1>4
<1>6. MapThenSumSet(LAMBDA t : req[t].obj.size, T) = h[T]
  BY <1>3 DEF MapThenSumSet, MapThenFoldSet, Pick
<1>7. Iter(h, Reserves, T)
  BY <1>2, <1>5
<1>8. PICK k : Iter(k, Reserves, T) /\ Sum(Reserves, T) = k[T]
  BY <1>0, SumIter
<1>9. h[T] = k[T]
  BY <1>0, <1>7, <1>8, IterAgree
<1> QED  BY <1>6, <1>8, <1>9

(* The invariant over sums is the property the run checks.                 *)
LEMMA AccountMeans == AccountInv => DmaAccountIsExact
<1> SUFFICES ASSUME AccountInv PROVE DmaAccountIsExact
  OBVIOUS
<1>1. Reserving \in SUBSET Thread /\ Granted \in SUBSET Thread
  BY DEF Reserving, Granted
<1>2. MapThenSumSet(BytesOf, File) = Sum(FileBytes, File)
  BY LiveIsSum
<1>3. MapThenSumSet(LAMBDA t : req[t].obj.size, Reserving) = Sum(Reserves, Reserving)
  BY <1>1, ReservedIsSum
<1>4. MapThenSumSet(LAMBDA t : req[t].obj.size, Granted) = Sum(Reserves, Granted)
  BY <1>1, ReservedIsSum
<1> QED  BY <1>2, <1>3, <1>4 DEF AccountInv, DmaAccountIsExact, Reserving, Granted

(* What a reservation and the buffers of a handle add up to are numbers.   *)
LEMMA AccountTypes ==
  ASSUME TypeInv
  PROVE  /\ IsFiniteSet(File) /\ IsFiniteSet(Slot)
         /\ IsFiniteSet(Reserving) /\ IsFiniteSet(Granted)
         /\ \A f \in File, s \in Slot : dmaBufs[f][s] \in Nat
         /\ \A f \in File : FileBytes[f] = Sum(dmaBufs[f], Slot) /\ FileBytes[f] \in Nat
         /\ \A t \in Reserving : Reserves[t] \in Nat
         /\ Sum(FileBytes, File) \in Nat /\ Sum(Reserves, Reserving) \in Nat
         /\ Sum(Reserves, Granted) \in Nat
         /\ Sum(Reserves, Granted) <= Sum(Reserves, Reserving)
<1>1. IsFiniteSet(File) /\ IsFiniteSet(Slot) /\ IsFiniteSet(Thread)
  BY MemoryAssumption
<1>2. Granted \in SUBSET Reserving /\ Reserving \in SUBSET Thread
  BY DEF Reserving, Granted
<1>3. IsFiniteSet(Reserving) /\ IsFiniteSet(Granted)
  BY <1>1, <1>2, FS_Subset
<1>4. ASSUME NEW f \in File, NEW s \in Slot PROVE dmaBufs[f][s] \in Nat
  <2>1. dmaBufs[f][s] \in Size \cup { 0 }
    BY DEF TypeInv, MemoryType
  <2>2. \A n \in Size \cup { 0 } : n \in Nat
    BY MemoryAssumption
  <2> QED  BY <2>1, <2>2, Zenon
<1>5. ASSUME NEW f \in File PROVE FileBytes[f] = Sum(dmaBufs[f], Slot) /\ FileBytes[f] \in Nat
  BY <1>1, <1>4, SumNat DEF FileBytes
<1>6. ASSUME NEW t \in Reserving PROVE Reserves[t] \in Nat
  <2>1. t \in Thread /\ req[t].obj \in Reservation
    BY DEF TypeInv, ThreadType, Found, Reserving
  <2>2. req[t].obj.size \in Nat
    BY <2>1, MemoryAssumption DEF Reservation
  <2> QED  BY <2>1, <2>2 DEF Reserves
<1>7. Sum(FileBytes, File) \in Nat
  BY <1>1, <1>5, SumNat
<1>8. Sum(Reserves, Reserving) \in Nat
  BY <1>3, <1>6, SumNat
<1>9. \A t \in Granted : Reserves[t] \in Nat
  BY <1>2, <1>6
<1>10. Sum(Reserves, Granted) \in Nat
  BY <1>3, <1>9, SumNat
<1>11. Sum(Reserves, Granted) <= Sum(Reserves, Reserving)
  BY <1>2, <1>3, <1>6, SumSubset
<1> QED  BY <1>1, <1>3, <1>4, <1>5, <1>6, <1>7, <1>8, <1>10, <1>11

(* A step that touches neither buffers nor reservations.                   *)
LEMMA AccountFrame ==
  ASSUME TypeInv, AccountInv, SlotInv, UNCHANGED dmaVars,
         Reserving' = Reserving, \A t \in Reserving : req'[t] = req[t]
  PROVE  AccountInv' /\ SlotInv'
<1>1. FileBytes' = FileBytes
  BY DEF FileBytes, dmaVars
<1>2. Granted' = Granted
  BY DEF Granted
<1>3. \A t \in Reserving : Reserves'[t] = Reserves[t]
  BY DEF Reserves, Reserving
<1>4. IsFiniteSet(Reserving) /\ IsFiniteSet(Granted) /\ Granted \subseteq Reserving
  BY AccountTypes DEF Granted
<1>5. Sum(Reserves', Reserving) = Sum(Reserves, Reserving)
      /\ Sum(Reserves', Granted) = Sum(Reserves, Granted)
  BY <1>3, <1>4, SumAgree
<1>6. AccountInv'
  BY <1>1, <1>2, <1>5 DEF AccountInv, dmaVars
<1>7. SlotInv'
  BY DEF SlotInv, dmaVars
<1> QED  BY <1>6, <1>7

(* A reservation ends: the sums lose it.                                   *)
LEMMA ReservationEnds ==
  ASSUME TypeInv, SlotInv, NEW t \in Reserving,
         pc'[t] = "idle", \A u \in Thread : u # t => pc'[u] = pc[u] /\ req'[u] = req[u]
  PROVE  /\ Reserving' = Reserving \ { t } /\ Granted' = Granted \ { t }
         /\ Sum(Reserves', Reserving') = Sum(Reserves, Reserving) - Reserves[t]
         /\ t \in Granted =>
              Sum(Reserves', Granted') = Sum(Reserves, Granted) - Reserves[t]
         /\ t \notin Granted => Sum(Reserves', Granted') = Sum(Reserves, Granted)
<1>1. Reserving' = Reserving \ { t }
  BY DEF Reserving
<1>2. Granted' = Granted \ { t }
  BY <1>1 DEF Granted, Reserving
<1>3. \A u \in Reserving \ { t } : Reserves'[u] = Reserves[u]
  BY DEF Reserves, Reserving
<1>4. /\ IsFiniteSet(Reserving) /\ IsFiniteSet(Granted) /\ Granted \subseteq Reserving
      /\ \A u \in Reserving : Reserves[u] \in Nat
  BY AccountTypes DEF Granted
<1>5. IsFiniteSet(Reserving \ { t }) /\ IsFiniteSet(Granted \ { t })
  BY <1>4, FS_Subset
<1>6. Sum(Reserves', Reserving \ { t }) = Sum(Reserves, Reserving \ { t })
  BY <1>3, <1>5, SumAgree
<1>7. Sum(Reserves', Granted \ { t }) = Sum(Reserves, Granted \ { t })
  BY <1>3, <1>4, <1>5, SumAgree
<1>8. \A u \in Reserving : Reserves[u] \in Int
  BY <1>4
<1>9. Sum(Reserves, Reserving) = Reserves[t] + Sum(Reserves, Reserving \ { t })
      /\ Sum(Reserves, Reserving \ { t }) \in Int
  BY <1>4, <1>5, <1>8, SumTake, SumType
<1>10. ASSUME t \in Granted
       PROVE  /\ Sum(Reserves, Granted) = Reserves[t] + Sum(Reserves, Granted \ { t })
              /\ Sum(Reserves, Granted \ { t }) \in Int
  <2>1. \A u \in Granted : Reserves[u] \in Int
    BY <1>4, <1>8
  <2> QED  BY <1>4, <1>5, <1>10, <2>1, SumTake, SumType
<1>11. Sum(Reserves', Reserving') = Sum(Reserves, Reserving) - Reserves[t]
  BY <1>1, <1>4, <1>6, <1>9
<1>12. t \in Granted => Sum(Reserves', Granted') = Sum(Reserves, Granted) - Reserves[t]
  BY <1>2, <1>4, <1>7, <1>10
<1>13. t \notin Granted => Granted \ { t } = Granted
  OBVIOUS
<1> QED  BY <1>1, <1>2, <1>7, <1>11, <1>12, <1>13

(* Destroying buffers of a handle whose Lock is free takes their bytes off. *)
LEMMA AccountDestroy ==
  ASSUME TypeInv, AccountInv, SlotInv, NEW f \in File, NEW slots \in SUBSET Slot,
         DmaBufDestroy(f, slots), LockFree(f),
         Reserving' = Reserving, \A t \in Reserving : req'[t] = req[t]
  PROVE  AccountInv' /\ SlotInv'
<1>1. PICK G : G = [s \in Slot |-> IF s \in slots THEN 0 ELSE dmaBufs[f][s]]
  OBVIOUS
<1>2. dmaBufs' = [dmaBufs EXCEPT ![f] = G]
  BY <1>1 DEF DmaBufDestroy, TypeInv, MemoryType
<1>3. dmaBufs'[f] = G /\ \A g \in File \ { f } : dmaBufs'[g] = dmaBufs[g]
  BY <1>2 DEF TypeInv, MemoryType
<1>4. PICK freed : freed = Sum(dmaBufs[f], slots)
  OBVIOUS
<1>5. dmaBufBytes' = dmaBufBytes - freed
  BY <1>4 DEF DmaBufDestroy, Sum
<1>6. /\ IsFiniteSet(File) /\ IsFiniteSet(Slot)
      /\ \A s \in Slot : dmaBufs[f][s] \in Nat
      /\ \A g \in File : FileBytes[g] = Sum(dmaBufs[g], Slot) /\ FileBytes[g] \in Nat
      /\ Sum(FileBytes, File) \in Nat /\ Sum(Reserves, Reserving) \in Nat
      /\ Sum(Reserves, Granted) \in Nat
  BY AccountTypes
<1>7. freed \in Nat
  <2>1. IsFiniteSet(slots)
    BY <1>6, FS_Subset
  <2> QED  BY <1>4, <1>6, <2>1, SumNat
<1>8. Sum(G, Slot) = FileBytes[f] - freed
  BY <1>1, <1>4, <1>6, SumClear
<1>9. FileBytes'[f] = FileBytes[f] - freed /\ \A g \in File \ { f } : FileBytes'[g] = FileBytes[g]
  BY <1>3, <1>8 DEF FileBytes
<1>10. Sum(FileBytes', File) = Sum(FileBytes, File) + (FileBytes'[f] - FileBytes[f])
  BY <1>6, <1>7, <1>9, SumChange
<1>11. Sum(FileBytes', File) = Sum(FileBytes, File) - freed
  BY <1>6, <1>7, <1>9, <1>10
<1>12. Granted' = Granted
  BY DEF Granted
<1>13. Sum(Reserves', Reserving) = Sum(Reserves, Reserving)
       /\ Sum(Reserves', Granted) = Sum(Reserves, Granted)
  <2>1. \A t \in Reserving : Reserves'[t] = Reserves[t]
    BY DEF Reserves, Reserving
  <2>2. IsFiniteSet(Reserving) /\ IsFiniteSet(Granted) /\ Granted \subseteq Reserving
    BY AccountTypes DEF Granted
  <2> QED  BY <2>1, <2>2, SumAgree
<1>14. AccountInv'
  <2>1. PICK a, b, c : a = Sum(FileBytes, File) /\ b = Sum(Reserves, Reserving)
                       /\ c = Sum(Reserves, Granted)
    OBVIOUS
  <2>2. dmaBufBytes = a + b /\ (DmaBufLimitBytes # 0 => a + c <= DmaBufLimitBytes)
    BY <2>1 DEF AccountInv
  <2>3. Sum(FileBytes', File) = a - freed /\ Sum(Reserves', Reserving') = b
        /\ Sum(Reserves', Granted') = c
    BY <1>11, <1>12, <1>13, <2>1
  <2>4. a \in Nat /\ b \in Nat /\ c \in Nat /\ DmaBufLimitBytes \in Nat
    BY <1>6, <2>1, MemoryAssumption
  <2>5. dmaBufBytes' = (a - freed) + b
        /\ (DmaBufLimitBytes # 0 => (a - freed) + c <= DmaBufLimitBytes)
    BY <1>5, <1>7, <2>2, <2>4
  <2> QED  BY <2>3, <2>5 DEF AccountInv
<1>15. SlotInv'
  <2>1. ASSUME NEW t \in Reserving PROVE req[t].file # f /\ req[t].file \in File
    BY RequestFields DEF LockFree, Reserving, TypeInv
  <2> QED  BY <1>3, <2>1 DEF SlotInv
<1> QED  BY <1>14, <1>15

(* ALLOCATE_DMA_BUF reserves: what it adds is counted, and granted only if the
   sum stays under the ceiling.                                            *)
LEMMA AccountReserve ==
  ASSUME TypeInv, AccountInv, SlotInv, NEW t \in Thread, NEW s \in Slot, NEW n \in Size,
         AllocateDmaBuf(t, s, n)
  PROVE  AccountInv' /\ SlotInv'
<1> DEFINE r == [slot |-> s, size |-> n, refused |-> DmaAccountRefuses(n)]
<1>1. PICK f \in File : f = req[t].file
  BY RequestFields DEF AllocateDmaBuf, LockAndHandle, Handles, TypeInv
<1>2. /\ pc[t] = "gated" /\ req[t].op = "ALLOCATE_DMA_BUF" /\ LockFree(f) /\ s \notin Bufs(f)
      /\ dmaBufBytes' = dmaBufBytes + n /\ dmaBufs' = dmaBufs /\ GoOn(t, r)
  BY <1>1 DEF AllocateDmaBuf, LockAndHandle, Handles
<1>3. Found(req[t].op, r)
  <2>1. DmaAccountRefuses(n) \in BOOLEAN
    BY DEF DmaAccountRefuses
  <2>2. r \in Reservation
    BY <2>1 DEF Reservation
  <2> QED  BY <1>2, <2>2 DEF Found
<1>4. r.slot = s /\ r.size = n /\ r.refused = DmaAccountRefuses(n)
  OBVIOUS
<1> HIDE DEF r
<1>5. /\ pc'[t] = "second" /\ req'[t].file = f /\ req'[t].op = "ALLOCATE_DMA_BUF"
      /\ req'[t].obj = r
      /\ \A u \in Thread : u # t => pc'[u] = pc[u] /\ req'[u] = req[u]
  BY <1>1, <1>2, <1>3, GoOnFacts DEF TypeInv
<1>6. t \notin Reserving /\ Reserving' = Reserving \cup { t }
  BY <1>2, <1>5 DEF Reserving
<1>7. Granted' = IF DmaAccountRefuses(n) THEN Granted ELSE Granted \cup { t }
  BY <1>4, <1>5, <1>6 DEF Granted, Reserving
<1>8. Reserves'[t] = n /\ \A u \in Reserving : Reserves'[u] = Reserves[u]
  BY <1>4, <1>5, <1>6 DEF Reserves, Reserving
<1>9. /\ IsFiniteSet(Reserving) /\ IsFiniteSet(Granted) /\ Granted \subseteq Reserving
      /\ \A u \in Reserving : Reserves[u] \in Nat
      /\ Sum(FileBytes, File) \in Nat /\ Sum(Reserves, Reserving) \in Nat
      /\ Sum(Reserves, Granted) \in Nat
      /\ Sum(Reserves, Granted) <= Sum(Reserves, Reserving)
  BY AccountTypes DEF Granted
<1>10. n \in Nat /\ DmaBufLimitBytes \in Nat
  BY MemoryAssumption
<1>11. FileBytes' = FileBytes
  BY <1>2 DEF FileBytes
<1>12. PICK a, b, c : a = Sum(FileBytes, File) /\ b = Sum(Reserves, Reserving)
                      /\ c = Sum(Reserves, Granted)
  OBVIOUS
<1>13. Sum(Reserves', Reserving) = b /\ Sum(Reserves', Granted) = c
  BY <1>8, <1>9, <1>12, SumAgree
<1>14. Sum(Reserves', Reserving') = n + b
  <2>1. \A u \in Reserving : Reserves'[u] \in Int
    BY <1>8, <1>9
  <2> QED  BY <1>6, <1>8, <1>9, <1>10, <1>13, <2>1, SumAdd
<1>15. Sum(Reserves', Granted') = IF DmaAccountRefuses(n) THEN c ELSE n + c
  <2>1. \A u \in Granted : Reserves'[u] \in Int
    BY <1>8, <1>9
  <2>2. t \notin Granted
    BY <1>6, <1>9
  <2>3. Sum(Reserves', Granted \cup { t }) = n + c
    BY <1>8, <1>9, <1>10, <1>13, <2>1, <2>2, SumAdd
  <2> QED  BY <1>7, <1>13, <2>3
<1>16. a \in Nat /\ b \in Nat /\ c \in Nat /\ c <= b /\ dmaBufBytes = a + b
       /\ (DmaBufLimitBytes # 0 => a + c <= DmaBufLimitBytes)
  BY <1>9, <1>12 DEF AccountInv
<1>17. ASSUME ~DmaAccountRefuses(n), DmaBufLimitBytes # 0 PROVE a + (n + c) <= DmaBufLimitBytes
  <2>1. (a + b) + n <= DmaBufLimitBytes
    BY <1>10, <1>16, <1>17 DEF DmaAccountRefuses
  <2> QED  BY <1>10, <1>16, <2>1
<1>18. AccountInv'
  <2>1. dmaBufBytes' = a + (n + b)
    BY <1>2, <1>10, <1>16
  <2> QED  BY <1>11, <1>12, <1>14, <1>15, <1>16, <1>17, <2>1 DEF AccountInv
<1>19. SlotInv'
  <2>1. dmaBufs[f][s] = 0
    BY <1>2 DEF Bufs
  <2>2. \A u \in Reserving : req[u].file # f /\ u # t
    BY <1>2, <1>6 DEF LockFree, Reserving
  <2>3. \A u \in Reserving : req'[u] = req[u]
    BY <1>5, <2>2 DEF Reserving
  <2>4. ASSUME NEW u \in Reserving'
        PROVE  /\ dmaBufs'[req'[u].file][req'[u].obj.slot] = 0
               /\ \A v \in Reserving' : v # u => req'[v].file # req'[u].file
    <3>1. CASE u = t
      BY <1>2, <1>4, <1>5, <1>6, <2>1, <2>2, <2>3, <3>1
    <3>2. CASE u \in Reserving
      BY <1>2, <1>5, <1>6, <2>2, <2>3, <3>2 DEF SlotInv
    <3> QED  BY <1>6, <3>1, <3>2
  <2> QED  BY <2>4 DEF SlotInv
<1> QED  BY <1>18, <1>19

(* Publishing turns a granted reservation into a buffer of the same size.   *)
LEMMA AccountPublish ==
  ASSUME TypeInv, AccountInv, SlotInv, NEW t \in Thread, AllocateDmaBufPublishes(t)
  PROVE  AccountInv' /\ SlotInv'
<1>1. t \in Reserving /\ t \in Granted
  BY DEF AllocateDmaBufPublishes, Continues, Reserving, Granted
<1>2. PICK f \in File : f = req[t].file
  BY <1>1, RequestFields DEF Reserving, TypeInv
<1>3. PICK s \in Slot : s = req[t].obj.slot
  BY <1>1 DEF Reserving, TypeInv, ThreadType, Found, Reservation
<1>4. PICK n \in Nat : n = req[t].obj.size /\ n = Reserves[t]
  BY <1>1, AccountTypes DEF Reserves, Reserving
<1>5. dmaBufs' = [dmaBufs EXCEPT ![f][s] = n] /\ dmaBufBytes' = dmaBufBytes /\ Complete(t)
  BY <1>2, <1>3, <1>4 DEF AllocateDmaBufPublishes
<1>6. /\ pc'[t] = "idle" /\ \A u \in Thread : u # t => pc'[u] = pc[u] /\ req'[u] = req[u]
  BY <1>5, CompleteFacts DEF TypeInv
<1>7. /\ Reserving' = Reserving \ { t } /\ Granted' = Granted \ { t }
      /\ Sum(Reserves', Reserving') = Sum(Reserves, Reserving) - n
      /\ Sum(Reserves', Granted') = Sum(Reserves, Granted) - n
  BY <1>1, <1>4, <1>6, ReservationEnds
<1>8. dmaBufs[f][s] = 0
  BY <1>1, <1>2, <1>3 DEF SlotInv
<1>9. dmaBufs'[f][s] = n /\ (\A q \in Slot \ { s } : dmaBufs'[f][q] = dmaBufs[f][q])
      /\ (\A g \in File \ { f } : dmaBufs'[g] = dmaBufs[g])
  BY <1>5 DEF TypeInv, MemoryType
<1>10. /\ IsFiniteSet(File) /\ IsFiniteSet(Slot)
       /\ \A q \in Slot : dmaBufs[f][q] \in Int
       /\ \A g \in File : FileBytes[g] = Sum(dmaBufs[g], Slot) /\ FileBytes[g] \in Nat
       /\ Sum(FileBytes, File) \in Nat /\ Sum(Reserves, Reserving) \in Nat
       /\ Sum(Reserves, Granted) \in Nat
  BY AccountTypes
<1>11. Sum(dmaBufs'[f], Slot) = Sum(dmaBufs[f], Slot) + (dmaBufs'[f][s] - dmaBufs[f][s])
  BY <1>9, <1>10, SumChange
<1>12. FileBytes'[f] = FileBytes[f] + n /\ \A g \in File \ { f } : FileBytes'[g] = FileBytes[g]
  <2>1. FileBytes'[f] = Sum(dmaBufs'[f], Slot)
    BY DEF FileBytes
  <2>2. FileBytes'[f] = FileBytes[f] + n
    BY <1>8, <1>9, <1>10, <1>11, <2>1
  <2>3. \A g \in File \ { f } : FileBytes'[g] = FileBytes[g]
    BY <1>9 DEF FileBytes
  <2> QED  BY <2>2, <2>3
<1>13. Sum(FileBytes', File) = Sum(FileBytes, File) + (FileBytes'[f] - FileBytes[f])
  BY <1>10, <1>12, SumChange
<1>14. Sum(FileBytes', File) = Sum(FileBytes, File) + n
  BY <1>10, <1>12, <1>13
<1>15. AccountInv'
  <2>1. PICK a, b, c : a = Sum(FileBytes, File) /\ b = Sum(Reserves, Reserving)
                       /\ c = Sum(Reserves, Granted)
    OBVIOUS
  <2>2. dmaBufBytes = a + b /\ (DmaBufLimitBytes # 0 => a + c <= DmaBufLimitBytes)
    BY <2>1 DEF AccountInv
  <2>3. a \in Nat /\ b \in Nat /\ c \in Nat
    BY <1>10, <2>1
  <2>4. dmaBufBytes' = (a + n) + (b - n)
        /\ (DmaBufLimitBytes # 0 => (a + n) + (c - n) <= DmaBufLimitBytes)
    BY <1>5, <2>2, <2>3
  <2> QED  BY <1>7, <1>14, <2>1, <2>4 DEF AccountInv
<1>16. SlotInv'
  <2>1. ASSUME NEW u \in Reserving' PROVE /\ u \in Reserving /\ req'[u] = req[u]
                                          /\ req[u].file # f /\ req[u].file \in File
    <3>1. u \in Reserving /\ u # t
      BY <1>7
    <3> QED  BY <1>1, <1>2, <1>6, <3>1, RequestFields DEF SlotInv, Reserving, TypeInv
  <2> QED  BY <1>9, <2>1 DEF SlotInv
<1> QED  BY <1>15, <1>16

(* A failed allocation takes its reservation back.                         *)
LEMMA AccountRollback ==
  ASSUME TypeInv, AccountInv, SlotInv, NEW t \in Thread, AllocateDmaBufFails(t)
  PROVE  AccountInv' /\ SlotInv'
<1>1. t \in Reserving
  BY DEF AllocateDmaBufFails, Continues, Reserving
<1>2. PICK n \in Nat : n = req[t].obj.size /\ n = Reserves[t]
  BY <1>1, AccountTypes DEF Reserves, Reserving
<1>3. dmaBufBytes' = dmaBufBytes - n /\ dmaBufs' = dmaBufs /\ Complete(t)
  BY <1>2 DEF AllocateDmaBufFails
<1>4. /\ pc'[t] = "idle" /\ \A u \in Thread : u # t => pc'[u] = pc[u] /\ req'[u] = req[u]
  BY <1>3, CompleteFacts DEF TypeInv
<1>5. /\ Reserving' = Reserving \ { t }
      /\ Sum(Reserves', Reserving') = Sum(Reserves, Reserving) - n
      /\ \/ Sum(Reserves', Granted') = Sum(Reserves, Granted) - n
         \/ Sum(Reserves', Granted') = Sum(Reserves, Granted)
  BY <1>1, <1>2, <1>4, ReservationEnds
<1>6. FileBytes' = FileBytes
  BY <1>3 DEF FileBytes
<1>7. AccountInv'
  <2>1. PICK a, b, c : a = Sum(FileBytes, File) /\ b = Sum(Reserves, Reserving)
                       /\ c = Sum(Reserves, Granted)
    OBVIOUS
  <2>2. dmaBufBytes = a + b /\ (DmaBufLimitBytes # 0 => a + c <= DmaBufLimitBytes)
    BY <2>1 DEF AccountInv
  <2>3. a \in Nat /\ b \in Nat /\ c \in Nat /\ DmaBufLimitBytes \in Nat
    BY <2>1, AccountTypes, MemoryAssumption
  <2>4. dmaBufBytes' = a + (b - n)
        /\ (DmaBufLimitBytes # 0 => a + (c - n) <= DmaBufLimitBytes)
    BY <1>3, <2>2, <2>3
  <2> QED  BY <1>5, <1>6, <2>1, <2>2, <2>4 DEF AccountInv
<1>8. SlotInv'
  <2>1. \A u \in Reserving' : u \in Reserving /\ u \in Thread /\ u # t
    BY <1>5 DEF Reserving
  <2> QED  BY <1>3, <1>4, <2>1 DEF SlotInv
<1> QED  BY <1>7, <1>8

(* Every step of a request keeps the account.                              *)
LEMMA AccountThreadStep ==
  ASSUME TypeInv, AccountInv, SlotInv, NEW t \in Thread, ThreadStep(t)
  PROVE  AccountInv' /\ SlotInv'
<1> DEFINE Goal == AccountInv' /\ SlotInv'
<1>1. Moves(t)
  BY ThreadStepFacts
<1>2. ASSUME t \notin Reserving, t \notin Reserving'
      PROVE  Reserving' = Reserving /\ \A u \in Reserving : req'[u] = req[u]
  BY <1>1, <1>2 DEF Moves, Reserving
<1>3. ASSUME UNCHANGED dmaVars, req[t].op # "ALLOCATE_DMA_BUF" \/ HandlerFails(t) PROVE Goal
  <2>1. t \notin Reserving
    BY <1>3 DEF HandlerFails, Reserving
  <2>2. t \notin Reserving'
    BY <1>1, <1>3 DEF HandlerFails, Complete, Moves, TypeInv, ThreadType, Reserving
  <2> QED  BY <1>2, <1>3, <2>1, <2>2, AccountFrame
<1>4. CASE HandlerFails(t)
  BY <1>3, <1>4 DEF HandlerFails, fileVars, dmaVars
<1>5. CASE WindowStep(t)
  BY <1>3, <1>5 DEF WindowStep, AllocateTlb, FreeTlb, ConfigureTlb, AllocateTlbReturns,
    AllocateTlbRollback, BhConfigureUserTlb, LockAndHandle, Handles, Continues, fileVars, dmaVars
<1>6. CASE CallerStep(t)
  BY <1>3, <1>6 DEF CallerStep, Map, Unmap, PinPages, UnpinPages, DestroyUnlinked,
    LockAndHandle, Handles, Continues, fileVars, dmaVars
<1>7. ASSUME NEW s \in Slot, FreeDmaBufEx(t, s) PROVE Goal
  <2>1. PICK f \in File : f = req[t].file
    BY <1>7, RequestFields DEF FreeDmaBufEx, LockAndHandle, Handles, TypeInv
  <2>2. DmaBufDestroy(f, { s }) /\ LockFree(f) /\ req[t].op = "FREE_DMA_BUF_EX" /\ Complete(t)
    BY <1>7, <2>1 DEF FreeDmaBufEx, LockAndHandle, Handles
  <2>3. t \notin Reserving /\ t \notin Reserving'
    BY <2>2, CompleteFacts DEF Reserving, TypeInv
  <2>4. { s } \in SUBSET Slot
    OBVIOUS
  <2> QED  BY <1>2, <2>2, <2>3, <2>4, AccountDestroy
<1>8. ASSUME NEW s \in Slot, NEW n \in Size, AllocateDmaBuf(t, s, n) PROVE Goal
  BY <1>8, AccountReserve
<1>9. CASE AllocateDmaBufPublishes(t)
  BY <1>9, AccountPublish
<1>10. CASE AllocateDmaBufFails(t)
  BY <1>10, AccountRollback
<1> QED  BY <1>4, <1>5, <1>6, <1>7, <1>8, <1>9, <1>10 DEF ThreadStep, BufferStep

(* Every step keeps the account.                                           *)
LEMMA AccountStep == TypeInv /\ AccountInv /\ SlotInv /\ [Next]_vars => AccountInv' /\ SlotInv'
<1> SUFFICES ASSUME TypeInv, AccountInv, SlotInv, [Next]_vars PROVE AccountInv' /\ SlotInv'
  OBVIOUS
<1> DEFINE Goal == AccountInv' /\ SlotInv'
<1>1. ASSUME NEW t \in Thread, ThreadStep(t) PROVE Goal
  BY <1>1, AccountThreadStep
<1>2. ASSUME NEW t \in Thread, NEW f \in File, NEW op \in CallerOp \cup QueuedOp, Dispatch(t, f, op)
      PROVE  Goal
  <2>1. UNCHANGED dmaVars /\ pc[t] = "idle"
    BY <1>2 DEF Dispatch, fileVars, dmaVars
  <2>2. pc'[t] = "gated" /\ \A u \in Thread : u # t => pc'[u] = pc[u] /\ req'[u] = req[u]
    BY <1>2, DispatchFacts DEF TypeInv
  <2>3. Reserving' = Reserving /\ \A u \in Reserving : req'[u] = req[u]
    BY <2>1, <2>2 DEF Reserving
  <2> QED  BY <2>1, <2>3, AccountFrame
<1>3. ASSUME UNCHANGED dmaVars, UNCHANGED threadVars PROVE Goal
  <2>1. Reserving' = Reserving /\ \A u \in Reserving : req'[u] = req[u]
    BY <1>3 DEF Reserving, threadVars
  <2> QED  BY <1>3, <2>1, AccountFrame
<1>4. ASSUME NEW f \in File, CleanupMemory(f) PROVE Goal
  <2>1. DmaBufDestroy(f, Slot) /\ LockFree(f) /\ UNCHANGED threadVars
    BY <1>4 DEF CleanupMemory
  <2>2. Reserving' = Reserving /\ \A u \in Reserving : req'[u] = req[u]
    BY <2>1 DEF Reserving, threadVars
  <2> QED  BY <2>1, <2>2, AccountDestroy
<1>5. ASSUME NEW f \in File, NEW p \in Process, FileCreate(f, p) PROVE Goal
  BY <1>3, <1>5 DEF FileCreate, fileVars, dmaVars
<1>6. ASSUME NEW f \in File, CleanupDelist(f) \/ CleanupWindows(f) PROVE Goal
  BY <1>3, <1>6 DEF CleanupDelist, CleanupWindows, fileVars, dmaVars
<1>7. ASSUME NEW p \in Process, ProcessExit(p) PROVE Goal
  BY <1>3, <1>7 DEF ProcessExit
<1>8. ASSUME NEW f \in File, NEW hw \in BOOLEAN, ResetAndBump(f, hw) PROVE Goal
  BY <1>3, <1>8 DEF ResetAndBump
<1>9. ASSUME NEW f \in File, ResetPcieLink(f) \/ PostReset(f) PROVE Goal
  BY <1>3, <1>9 DEF ResetPcieLink, PostReset, fileVars, dmaVars
<1>10. CASE SurpriseRemoval
  BY <1>3, <1>10 DEF SurpriseRemoval
<1>11. CASE UNCHANGED vars
  BY <1>3, <1>11 DEF vars, dmaVars, threadVars
<1> QED  BY <1>1, <1>2, <1>4, <1>5, <1>6, <1>7, <1>8, <1>9, <1>10, <1>11 DEF Next, ThreadStep

(* The account starts at zero, with no buffer.                             *)
LEMMA AccountInit == Init => AccountInv /\ SlotInv
<1> SUFFICES ASSUME Init PROVE AccountInv /\ SlotInv
  OBVIOUS
<1>1. Reserving = {} /\ Granted = {}
  BY DEF Init, Reserving, Granted
<1>2. IsFiniteSet(File) /\ IsFiniteSet(Slot) /\ DmaBufLimitBytes \in Nat
  BY MemoryAssumption
<1>3. ASSUME NEW F, NEW S, IsFiniteSet(S), \A x \in S : F[x] = 0 PROVE Sum(F, S) = 0
  <2>1. PICK G : G = [x \in S |-> IF x \in S THEN 0 ELSE F[x]]
    OBVIOUS
  <2>2. Sum(G, S) = Sum(F, S) - Sum(F, S)
    BY <1>3, <2>1, SumClear
  <2>3. Sum(F, S) = Sum(G, S)
    BY <1>3, <2>1, SumAgree
  <2>4. Sum(F, S) \in Int
    BY <1>3, SumType
  <2> QED  BY <2>2, <2>3, <2>4
<1>4. ASSUME NEW f \in File PROVE FileBytes[f] = 0
  <2>1. \A s \in Slot : dmaBufs[f][s] = 0
    BY DEF Init
  <2> QED  BY <1>2, <1>3, <2>1 DEF FileBytes
<1>5. Sum(FileBytes, File) = 0
  BY <1>2, <1>3, <1>4
<1>6. Sum(Reserves, {}) = 0
  BY SumEmpty
<1>7. dmaBufBytes = 0
  BY DEF Init
<1>8. AccountInv
  BY <1>1, <1>2, <1>5, <1>6, <1>7 DEF AccountInv
<1> QED  BY <1>1, <1>8 DEF SlotInv

(***************************************************************************)
(* However many handles allocate, free and close at once, without a lock   *)
(* that they share: the byte account is the sum of the live buffers and of *)
(* the reservations under way, and the buffers never exceed the ceiling    *)
(* (TtDmaAccountReserve, TtDmaBufDestroy).                                 *)
(***************************************************************************)
THEOREM AccountStaysExact == Spec => []DmaAccountIsExact
<1>1. Init => TypeInv /\ AccountInv /\ SlotInv
  BY TypeInit, AccountInit
<1>2. TypeInv /\ AccountInv /\ SlotInv /\ [Next]_vars => (TypeInv /\ AccountInv /\ SlotInv)'
  BY TypeStep, AccountStep
<1> QED  BY <1>1, <1>2, AccountMeans, PTL DEF Spec
-----------------------------------------------------------------------------
(***************************************************************************)
(* The views of a handle as the user-mode shim presents them (TtCompat).   *)
(***************************************************************************)
CompatType ==
  /\ dev \in [Handle -> { "none", "live", "freed" }]
  /\ closed \in SUBSET Handle
  /\ file \in SUBSET Handle
  /\ driverViews \in [Handle -> SUBSET View]
  /\ held \in [Handle -> SUBSET Addr]
  /\ revoked \in [Handle -> SUBSET Addr]
  /\ call \in Call \cup { NoCall }

(* s lists every element of S once.                                        *)
Lists(s, S) ==
  /\ s \in Seq(Addr)
  /\ \A i, j \in 1 .. Len(s) : s[i] = s[j] => i = j
  /\ S = { s[i] : i \in 1 .. Len(s) }

(* The tt_device's list holds what the client has still to unmap, once each. *)
ListInv ==
  /\ DOMAIN views = Handle
  /\ \A h \in Handle : Lists(views[h], held[h] \cup revoked[h])

(* An address the client may use is mapped, and was not revoked.           *)
HeldInv ==
  \A h \in Handle : \A va \in held[h] :
    va \notin revoked[h] /\ \E v \in driverViews[h] : v.va = va

(* The life of a tt_device: its driver handle is open while it exists, and
   outside of it there is nothing.                                         *)
LifeInv ==
  \A h \in Handle :
    /\ h \in file <=> dev[h] = "live"
    /\ dev[h] = "none" => h \notin closed
    /\ dev[h] # "live" => held[h] \cup revoked[h] = {} /\ driverViews[h] = {}

(* Behind the last view the handle is closed, but for the tt_munmap that is
   about to do it.                                                         *)
FreeInv ==
  \A h \in Handle :
    h \in closed /\ held[h] \cup revoked[h] = {} /\ ~(call # NoCall /\ call.fn = "munmap" /\ call.h = h)
      => dev[h] = "freed"

(* A call in progress is on a tt_device that exists, and its address is not
   one the client has.                                                     *)
CallInv ==
  call # NoCall =>
    /\ dev[call.h] = "live"
    /\ call.va \notin held[call.h]
    /\ call.fn = "mmap" => call.h \notin closed /\ call.va \notin revoked[call.h]

CompatInv == CompatType /\ ListInv /\ HeldInv /\ LifeInv /\ FreeInv /\ CallInv


(* A list is empty when there is nothing to unmap.                         *)
LEMMA ListEmpty ==
  ASSUME NEW s, NEW S, Lists(s, S)
  PROVE  s = << >> <=> S = {}
<1>1. s \in Seq(Addr) /\ Len(s) \in Nat /\ S = { s[i] : i \in 1 .. Len(s) }
  BY DEF Lists
<1>2. s = << >> <=> Len(s) = 0
  BY <1>1
<1>3. Len(s) = 0 => S = {}
  BY <1>1
<1>4. Len(s) # 0 => s[1] \in S
  BY <1>1
<1> QED  BY <1>2, <1>3, <1>4

(* tt_mmap puts its view in front.                                         *)
LEMMA ListPrepend ==
  ASSUME NEW s, NEW S, Lists(s, S), NEW x \in Addr, x \notin S
  PROVE  Lists(<< x >> \o s, S \cup { x })
<1>1. s \in Seq(Addr) /\ Len(s) \in Nat /\ S = { s[i] : i \in 1 .. Len(s) }
  BY DEF Lists
<1>2. PICK t, n : t = << x >> \o s /\ n = Len(s)
  OBVIOUS
<1>3. t \in Seq(Addr) /\ Len(t) = n + 1 /\ t[1] = x /\ n \in Nat
  BY <1>1, <1>2
<1>4. \A i \in 1 .. n : t[i + 1] = s[i] /\ s[i] \in S
  BY <1>1, <1>2
<1>5. ASSUME NEW i \in 1 .. n + 1, i # 1 PROVE i - 1 \in 1 .. n /\ t[i] = s[i - 1]
  <2>1. i - 1 \in 1 .. n /\ (i - 1) + 1 = i
    BY <1>3, <1>5
  <2> QED  BY <1>4, <2>1
<1>6. ASSUME NEW i \in 1 .. n + 1, NEW j \in 1 .. n + 1, t[i] = t[j] PROVE i = j
  <2>1. \A k, m \in 1 .. n : s[k] = s[m] => k = m
    BY <1>2 DEF Lists
  <2>2. CASE i = 1 /\ j = 1
    BY <2>2
  <2>3. CASE i = 1 /\ j # 1
    BY <1>3, <1>4, <1>5, <1>6, <2>3
  <2>4. CASE i # 1 /\ j = 1
    BY <1>3, <1>4, <1>5, <1>6, <2>4
  <2>5. CASE i # 1 /\ j # 1
    <3>1. i - 1 = j - 1
      BY <1>5, <1>6, <2>1, <2>5
    <3> QED  BY <1>3, <3>1
  <2> QED  BY <2>2, <2>3, <2>4, <2>5
<1>7. S \cup { x } = { t[i] : i \in 1 .. n + 1 }
  <2>1. ASSUME NEW y \in S PROVE \E i \in 1 .. n + 1 : y = t[i]
    <3>1. PICK i \in 1 .. n : y = s[i]
      BY <1>1, <1>2
    <3>2. i + 1 \in 1 .. n + 1 /\ t[i + 1] = y
      BY <1>3, <1>4, <3>1
    <3> QED  BY <3>2
  <2>2. \E i \in 1 .. n + 1 : x = t[i]
    <3>1. 1 \in 1 .. n + 1
      BY <1>3
    <3> QED  BY <1>3, <3>1
  <2>3. ASSUME NEW i \in 1 .. n + 1 PROVE t[i] \in S \cup { x }
    BY <1>3, <1>4, <1>5
  <2> QED  BY <2>1, <2>2, <2>3
<1>8. Lists(t, S \cup { x })
  BY <1>3, <1>6, <1>7 DEF Lists
<1> QED  BY <1>2, <1>8

(* The elements of a concatenation.                                        *)
LEMMA ConcatAt ==
  ASSUME NEW p \in Seq(Addr), NEW q \in Seq(Addr), NEW a, NEW d, a = Len(p), d = Len(q)
  PROVE  /\ p \o q \in Seq(Addr) /\ Len(p \o q) = a + d
         /\ \A i \in 1 .. a + d : (p \o q)[i] = IF i <= a THEN p[i] ELSE q[i - a]
OBVIOUS

(* The elements of a part of a sequence.                                   *)
LEMMA PartAt ==
  ASSUME NEW s \in Seq(Addr), NEW a \in Nat \ { 0 }, NEW c \in Nat, a <= c + 1, c <= Len(s)
  PROVE  /\ SubSeq(s, a, c) \in Seq(Addr) /\ Len(SubSeq(s, a, c)) = (c + 1) - a
         /\ \A i \in 1 .. (c + 1) - a : SubSeq(s, a, c)[i] = s[(a + i) - 1]
OBVIOUS

(* tt_munmap unlinks its view and no other.                                *)
LEMMA ListRemove ==
  ASSUME NEW s, NEW S, Lists(s, S), NEW x \in S
  PROVE  Lists(RemoveFirst(s, x), S \ { x })
<1>1. /\ s \in Seq(Addr) /\ S = { s[i] : i \in 1 .. Len(s) }
      /\ \A i, j \in 1 .. Len(s) : s[i] = s[j] => i = j
  BY DEF Lists
<1>2. PICK n : n = Len(s) /\ n \in Nat
  BY <1>1
<1>3. PICK k \in 1 .. n : s[k] = x
  BY <1>1, <1>2
<1>4. { i \in 1 .. Len(s) : s[i] = x } = { k }
  BY <1>1, <1>2, <1>3
<1>5. Min({ k }) = k
  <2>1. \E m \in { k } : \A y \in { k } : m <= y
    BY <1>3
  <2> QED  BY <2>1 DEF Min
<1>6. SelectInSeq(s, LAMBDA v : v = x) = k
  BY <1>4, <1>5, Zenon DEF SelectInSeq
<1>7. RemoveFirst(s, x) = SubSeq(s, 1, k - 1) \o SubSeq(s, k + 1, n)
  <2>1. \E i \in 1 .. Len(s) : s[i] = x
    BY <1>2, <1>3
  <2> QED  BY <1>2, <1>6, <2>1, Zenon DEF RemoveFirst, RemoveAt
<1>8. PICK p, q, t : p = SubSeq(s, 1, k - 1) /\ q = SubSeq(s, k + 1, n) /\ t = p \o q
  OBVIOUS
<1>9. /\ p \in Seq(Addr) /\ Len(p) = k - 1 /\ \A i \in 1 .. k - 1 : p[i] = s[i]
  BY <1>1, <1>2, <1>3, <1>8
<1>10. q \in Seq(Addr) /\ Len(q) = n - k /\ \A i \in 1 .. n - k : q[i] = s[k + i]
  <2>1. PICK a : a = k + 1
    OBVIOUS
  <2>2. a \in Nat \ { 0 } /\ a <= n + 1 /\ n <= Len(s) /\ (n + 1) - a = n - k
    BY <1>2, <1>3, <2>1
  <2>3. /\ SubSeq(s, a, n) \in Seq(Addr) /\ Len(SubSeq(s, a, n)) = (n + 1) - a
        /\ \A i \in 1 .. (n + 1) - a : SubSeq(s, a, n)[i] = s[(a + i) - 1]
    BY <1>1, <1>2, <2>2, PartAt
  <2>4. \A i \in 1 .. n - k : (a + i) - 1 = k + i
    BY <1>2, <1>3, <2>1
  <2>5. q = SubSeq(s, a, n)
    BY <1>8, <2>1
  <2>6. ASSUME NEW i \in 1 .. n - k PROVE q[i] = s[k + i]
    BY <2>2, <2>3, <2>4, <2>5
  <2> QED  BY <2>2, <2>3, <2>5, <2>6
<1>11. /\ t \in Seq(Addr) /\ Len(t) = n - 1
       /\ \A i \in 1 .. n - 1 : t[i] = IF i < k THEN s[i] ELSE s[i + 1]
  <2>0. PICK a, d : a = k - 1 /\ d = n - k
    OBVIOUS
  <2>1. /\ t \in Seq(Addr) /\ Len(t) = n - 1
        /\ \A i \in 1 .. n - 1 : t[i] = IF i <= a THEN p[i] ELSE q[i - a]
    <3>1. a + d = n - 1 /\ a = Len(p) /\ d = Len(q)
      BY <1>2, <1>3, <1>9, <1>10, <2>0
    <3>2. /\ p \o q \in Seq(Addr) /\ Len(p \o q) = a + d
          /\ \A i \in 1 .. a + d : (p \o q)[i] = IF i <= a THEN p[i] ELSE q[i - a]
      BY <1>9, <1>10, <3>1, ConcatAt
    <3> QED  BY <1>8, <3>1, <3>2
  <2>2. ASSUME NEW i \in 1 .. n - 1 PROVE t[i] = IF i < k THEN s[i] ELSE s[i + 1]
    <3>1. CASE i < k
      <4>1. i \in 1 .. k - 1
        BY <1>2, <1>3, <3>1
      <4>2. i <= a
        BY <1>2, <1>3, <2>0, <3>1
      <4>3. t[i] = p[i]
        BY <2>1, <4>2
      <4> QED  BY <1>9, <3>1, <4>1, <4>3
    <3>2. CASE ~(i < k)
      <4>1. PICK m : m = i - (k - 1)
        OBVIOUS
      <4>2. m \in 1 .. n - k /\ k + m = i + 1
        BY <1>2, <1>3, <3>2, <4>1
      <4>3. ~(i <= a) /\ i - a = m
        BY <1>2, <1>3, <2>0, <3>2, <4>1
      <4>4. t[i] = q[m]
        BY <2>1, <4>3
      <4> QED  BY <1>10, <3>2, <4>2, <4>4
    <3> QED  BY <3>1, <3>2
  <2> QED  BY <2>1, <2>2
<1>12. ASSUME NEW i \in 1 .. n - 1
       PROVE  \E m \in 1 .. n : t[i] = s[m] /\ m # k /\ m = IF i < k THEN i ELSE i + 1
  <2>1. CASE i < k
    BY <1>2, <1>3, <1>11, <2>1
  <2>2. CASE ~(i < k)
    BY <1>2, <1>3, <1>11, <2>2
  <2> QED  BY <2>1, <2>2
<1>13. ASSUME NEW i \in 1 .. n - 1, NEW j \in 1 .. n - 1, t[i] = t[j] PROVE i = j
  <2>1. PICK a \in 1 .. n : t[i] = s[a] /\ a = IF i < k THEN i ELSE i + 1
    BY <1>12
  <2>2. PICK d \in 1 .. n : t[j] = s[d] /\ d = IF j < k THEN j ELSE j + 1
    BY <1>12
  <2>3. a = d
    BY <1>1, <1>2, <1>13, <2>1, <2>2
  <2> QED  BY <1>2, <1>3, <2>1, <2>2, <2>3
<1>14. S \ { x } = { t[i] : i \in 1 .. n - 1 }
  <2>1. ASSUME NEW y \in S \ { x } PROVE \E i \in 1 .. n - 1 : y = t[i]
    <3>1. PICK m \in 1 .. n : y = s[m] /\ m # k
      BY <1>1, <1>2, <1>3
    <3>2. CASE m < k
      <4>1. m \in 1 .. n - 1
        BY <1>2, <1>3, <3>1, <3>2
      <4> QED  BY <1>11, <3>1, <3>2, <4>1
    <3>3. CASE ~(m < k)
      <4>1. m - 1 \in 1 .. n - 1 /\ ~(m - 1 < k) /\ (m - 1) + 1 = m
        BY <1>2, <1>3, <3>1, <3>3
      <4> QED  BY <1>11, <3>1, <4>1
    <3> QED  BY <3>2, <3>3
  <2>2. ASSUME NEW i \in 1 .. n - 1 PROVE t[i] \in S \ { x }
    <3>1. PICK m \in 1 .. n : t[i] = s[m] /\ m # k
      BY <1>12
    <3>2. s[m] \in S /\ s[m] # s[k]
      BY <1>1, <1>2, <3>1
    <3> QED  BY <1>3, <3>1, <3>2
  <2> QED  BY <2>1, <2>2
<1>15. Lists(t, S \ { x })
  BY <1>11, <1>13, <1>14 DEF Lists
<1> QED  BY <1>7, <1>8, <1>15


(* tt_open starts with no view.                                            *)
LEMMA ShimOpenInv ==
  ASSUME CompatInv, NEW h \in Handle, Open(h)
  PROVE  CompatInv'
<1>1. /\ call = NoCall /\ dev[h] = "none"
      /\ dev' = [dev EXCEPT ![h] = "live"] /\ file' = file \cup { h }
      /\ UNCHANGED << closed, views, driverViews, held, revoked, call >>
  BY DEF Open, clientVars
<1>2. CompatType'
  BY <1>1 DEF CompatInv, CompatType
<1>3. ListInv' /\ HeldInv'
  BY <1>1 DEF CompatInv, ListInv, HeldInv
<1>4. LifeInv'
  BY <1>1 DEF CompatInv, CompatType, LifeInv
<1>5. FreeInv'
  BY <1>1 DEF CompatInv, CompatType, LifeInv, FreeInv
<1>6. CallInv'
  BY <1>1 DEF CompatInv, CallInv
<1> QED  BY <1>2, <1>3, <1>4, <1>5, <1>6 DEF CompatInv

(* MAP adds a view the client does not know of yet, at an address that is free. *)
LEMMA MmapMapInv ==
  ASSUME CompatInv, ~ ReusesVa, NEW h \in Handle, NEW v \in View, MmapMap(h, v)
  PROVE  CompatInv'
<1>1. /\ call = NoCall /\ dev[h] = "live" /\ h \notin closed
      /\ v.va \notin InUse
      /\ driverViews' = [driverViews EXCEPT ![h] = @ \cup { v }]
      /\ call' = [fn |-> "mmap", h |-> h, va |-> v.va]
      /\ UNCHANGED << dev, closed, views, file, held, revoked >>
  BY DEF MmapMap, clientVars, shimVars
<1>2. v.va \in Addr /\ call' \in Call
  BY <1>1 DEF View, Call
<1>3. CompatType'
  BY <1>1, <1>2 DEF CompatInv, CompatType
<1>4. ListInv'
  BY <1>1 DEF CompatInv, ListInv
<1>5. \A g \in Handle : driverViews[g] \subseteq driverViews'[g]
  BY <1>1 DEF CompatInv, CompatType
<1>6. HeldInv'
  BY <1>1, <1>5 DEF CompatInv, HeldInv
<1>7. LifeInv'
  BY <1>1 DEF CompatInv, CompatType, LifeInv
<1>8. FreeInv'
  BY <1>1 DEF CompatInv, FreeInv
<1>9. v.va \notin held[h] /\ v.va \notin revoked[h]
  <2>1. ASSUME NEW w \in driverViews[h] PROVE w.va # v.va
    BY <1>1 DEF InUse
  <2>2. v.va \notin revoked[h]
    BY <1>1 DEF InUse
  <2> QED  BY <2>1, <2>2 DEF CompatInv, HeldInv
<1>10. call' # NoCall /\ call'.h = h /\ call'.va = v.va
  BY <1>1, <1>2, CompatAssumption
<1>11. CallInv'
  BY <1>1, <1>9, <1>10 DEF CallInv
<1> QED  BY <1>3, <1>4, <1>6, <1>7, <1>8, <1>11 DEF CompatInv

(* A call in progress is a record.                                         *)
LEMMA CallFields ==
  ASSUME CompatType, call # NoCall
  PROVE  call.h \in Handle /\ call.va \in Addr /\ call.fn \in { "mmap", "munmap" }
BY DEF CompatType, Call

(* tt_mmap returns: the client has its address, or a reset had it already.  *)
LEMMA MmapReturnsInv ==
  ASSUME CompatInv, MmapReturns
  PROVE  CompatInv'
<1>1. PICK h, va, mapped : /\ h = call.h /\ va = call.va
                           /\ mapped = (\E v \in driverViews[h] : v.va = va)
  OBVIOUS
<1>2. /\ call # NoCall /\ call.fn = "mmap"
      /\ views' = [views EXCEPT ![h] = << va >> \o @]
      /\ held' = [held EXCEPT ![h] = IF mapped THEN @ \cup { va } ELSE @]
      /\ revoked' = [revoked EXCEPT ![h] = IF mapped THEN @ ELSE @ \cup { va }]
      /\ call' = NoCall
      /\ UNCHANGED << dev, closed, file, driverViews >>
  BY <1>1 DEF MmapReturns
<1>3. h \in Handle /\ va \in Addr
  BY <1>1, <1>2, CallFields DEF CompatInv
<1>4. dev[h] = "live" /\ h \notin closed /\ va \notin held[h] \cup revoked[h]
  BY <1>1, <1>2 DEF CompatInv, CallInv
<1>5. CompatType'
  <2>1. held' \in [Handle -> SUBSET Addr] /\ revoked' \in [Handle -> SUBSET Addr]
    BY <1>2, <1>3 DEF CompatInv, CompatType
  <2> QED  BY <1>2, <2>1 DEF CompatInv, CompatType
<1>6. /\ held'[h] \cup revoked'[h] = (held[h] \cup revoked[h]) \cup { va }
      /\ \A g \in Handle \ { h } : held'[g] = held[g] /\ revoked'[g] = revoked[g] /\ views'[g] = views[g]
      /\ DOMAIN views' = Handle /\ views'[h] = << va >> \o views[h]
  BY <1>2, <1>3 DEF CompatInv, CompatType, ListInv
<1>7. ListInv'
  <2>1. ASSUME NEW g \in Handle PROVE Lists(views'[g], held'[g] \cup revoked'[g])
    <3>1. Lists(views[g], held[g] \cup revoked[g])
      BY DEF CompatInv, ListInv
    <3>2. CASE g = h
      <4>1. Lists(<< va >> \o views[h], (held[h] \cup revoked[h]) \cup { va })
        BY <1>3, <1>4, <3>1, <3>2, ListPrepend
      <4> QED  BY <1>6, <3>2, <4>1
    <3>3. CASE g # h
      BY <1>6, <3>1, <3>3
    <3> QED  BY <3>2, <3>3
  <2> QED  BY <1>6, <2>1 DEF ListInv, Lists
<1>8. HeldInv'
  <2>1. ASSUME NEW g \in Handle, NEW a \in held'[g]
        PROVE  a \notin revoked'[g] /\ \E v \in driverViews[g] : v.va = a
    <3>1. CASE g = h /\ mapped
      <4>1. held'[h] = held[h] \cup { va } /\ revoked'[h] = revoked[h]
        BY <1>2, <1>3, <3>1 DEF CompatInv, CompatType
      <4>2. \A d \in held[h] : d \notin revoked[h] /\ \E v \in driverViews[h] : v.va = d
        BY <1>3 DEF CompatInv, HeldInv
      <4> QED  BY <1>1, <1>4, <2>1, <3>1, <4>1, <4>2
    <3>2. CASE g = h /\ ~ mapped
      <4>1. held'[h] = held[h] /\ revoked'[h] = revoked[h] \cup { va }
        BY <1>2, <1>3, <3>2 DEF CompatInv, CompatType
      <4>2. \A d \in held[h] : d \notin revoked[h] /\ \E v \in driverViews[h] : v.va = d
        BY <1>3 DEF CompatInv, HeldInv
      <4> QED  BY <1>4, <2>1, <3>2, <4>1, <4>2
    <3>3. CASE g # h
      BY <1>6, <2>1, <3>3 DEF CompatInv, HeldInv
    <3> QED  BY <1>1, <3>1, <3>2, <3>3
  <2> QED  BY <1>2, <2>1 DEF HeldInv
<1>9. LifeInv'
  BY <1>2, <1>4, <1>6 DEF CompatInv, LifeInv
<1>10. FreeInv'
  BY <1>2, <1>4, <1>6 DEF CompatInv, FreeInv
<1>11. CallInv'
  BY <1>2 DEF CallInv
<1> QED  BY <1>5, <1>7, <1>8, <1>9, <1>10, <1>11 DEF CompatInv

(* UNMAP of an address the client does not have leaves those it has.       *)
LEMMA UnmappedKeeps ==
  ASSUME CompatInv, NEW h \in Handle, NEW va, va \notin held[h]
  PROVE  /\ Unmapped(h, va) \in SUBSET View /\ Unmapped(h, va) \subseteq driverViews[h]
         /\ \A a \in held[h] : \E v \in Unmapped(h, va) : v.va = a
<1>1. driverViews[h] \in SUBSET View
  BY DEF CompatInv, CompatType
<1>2. \A a \in held[h] : \E v \in driverViews[h] : v.va = a
  BY DEF CompatInv, HeldInv
<1>3. \A a \in held[h] : a # va
  OBVIOUS
<1> QED  BY <1>1, <1>2, <1>3 DEF Unmapped

(* The best-effort UNMAP takes nothing the client knows of.                *)
LEMMA MmapOomInv ==
  ASSUME CompatInv, MmapOom
  PROVE  CompatInv'
<1>1. PICK h, now : h = call.h /\ now = Unmapped(h, call.va)
  OBVIOUS
<1>2. /\ call # NoCall /\ call.fn = "mmap"
      /\ driverViews' = [driverViews EXCEPT ![h] = now]
      /\ call' = NoCall
      /\ UNCHANGED << dev, closed, views, file, held, revoked >>
  BY <1>1 DEF MmapOom, shimVars, clientVars
<1>3. h \in Handle /\ dev[h] = "live" /\ h \notin closed /\ call.va \notin held[h]
  BY <1>1, <1>2, CallFields DEF CompatInv, CallInv
<1>4. now \in SUBSET View /\ \A a \in held[h] : \E v \in now : v.va = a
  BY <1>1, <1>3, UnmappedKeeps
<1>5. CompatType'
  BY <1>2, <1>4 DEF CompatInv, CompatType
<1>6. ListInv'
  BY <1>2 DEF CompatInv, ListInv
<1>7. driverViews'[h] = now /\ \A g \in Handle \ { h } : driverViews'[g] = driverViews[g]
  BY <1>2, <1>3 DEF CompatInv, CompatType
<1>8. HeldInv'
  BY <1>2, <1>4, <1>7 DEF CompatInv, HeldInv
<1>9. LifeInv'
  BY <1>2, <1>3, <1>7 DEF CompatInv, LifeInv
<1>10. FreeInv'
  BY <1>2, <1>3 DEF CompatInv, FreeInv
<1>11. CallInv'
  BY <1>2 DEF CallInv
<1> QED  BY <1>5, <1>6, <1>8, <1>9, <1>10, <1>11 DEF CompatInv

(* tt_munmap takes its address from the list and from the client.          *)
LEMMA MunmapUnlinkInv ==
  ASSUME CompatInv, NEW h \in Handle, NEW va \in Addr, MunmapUnlink(h, va)
  PROVE  CompatInv'
<1>1. /\ call = NoCall /\ va \in held[h] \cup revoked[h]
      /\ views' = [views EXCEPT ![h] = RemoveFirst(@, va)]
      /\ call' = [fn |-> "munmap", h |-> h, va |-> va]
      /\ UNCHANGED << dev, closed, file, driverViews >>
      /\ \/ va \in held[h] /\ held' = [held EXCEPT ![h] = @ \ { va }] /\ revoked' = revoked
         \/ va \in revoked[h] /\ revoked' = [revoked EXCEPT ![h] = @ \ { va }] /\ held' = held
  BY DEF MunmapUnlink
<1>2. call' \in Call /\ call' # NoCall /\ call'.h = h /\ call'.va = va /\ call'.fn = "munmap"
  BY <1>1, CompatAssumption DEF Call
<1>3. \A a \in held[h] : a \notin revoked[h] /\ \E v \in driverViews[h] : v.va = a
  BY DEF CompatInv, HeldInv
<1>4. /\ held' \in [Handle -> SUBSET Addr] /\ revoked' \in [Handle -> SUBSET Addr]
      /\ held'[h] \subseteq held[h] /\ revoked'[h] \subseteq revoked[h]
      /\ held'[h] \cup revoked'[h] = (held[h] \cup revoked[h]) \ { va }
      /\ \A g \in Handle \ { h } : held'[g] = held[g] /\ revoked'[g] = revoked[g]
  <2>1. held \in [Handle -> SUBSET Addr] /\ revoked \in [Handle -> SUBSET Addr]
    BY DEF CompatInv, CompatType
  <2>2. CASE va \in held[h] /\ held' = [held EXCEPT ![h] = @ \ { va }] /\ revoked' = revoked
    BY <1>3, <2>1, <2>2
  <2>3. CASE va \in revoked[h] /\ revoked' = [revoked EXCEPT ![h] = @ \ { va }] /\ held' = held
    BY <1>3, <2>1, <2>3
  <2> QED  BY <1>1, <2>2, <2>3
<1>5. CompatType'
  BY <1>1, <1>2, <1>4 DEF CompatInv, CompatType
<1>6. /\ DOMAIN views' = Handle /\ views'[h] = RemoveFirst(views[h], va)
      /\ \A g \in Handle \ { h } : views'[g] = views[g]
  BY <1>1 DEF CompatInv, ListInv
<1>7. ListInv'
  <2>1. ASSUME NEW g \in Handle PROVE Lists(views'[g], held'[g] \cup revoked'[g])
    <3>1. Lists(views[g], held[g] \cup revoked[g])
      BY DEF CompatInv, ListInv
    <3>2. CASE g = h
      <4>1. Lists(RemoveFirst(views[h], va), (held[h] \cup revoked[h]) \ { va })
        BY <1>1, <3>1, <3>2, ListRemove
      <4> QED  BY <1>4, <1>6, <3>2, <4>1
    <3>3. CASE g # h
      BY <1>4, <1>6, <3>1, <3>3
    <3> QED  BY <3>2, <3>3
  <2> QED  BY <1>6, <2>1 DEF ListInv, Lists
<1>8. HeldInv'
  BY <1>1, <1>3, <1>4 DEF CompatInv, HeldInv
<1>9. dev[h] = "live"
  BY <1>1 DEF CompatInv, LifeInv
<1>10. LifeInv'
  BY <1>1, <1>4, <1>9 DEF CompatInv, LifeInv
<1>11. FreeInv'
  BY <1>1, <1>2, <1>4 DEF CompatInv, FreeInv
<1>12. CallInv'
  BY <1>1, <1>2, <1>4, <1>9 DEF CallInv
<1> QED  BY <1>5, <1>7, <1>8, <1>10, <1>11, <1>12 DEF CompatInv


(* The end of tt_munmap and of tt_close: the handle is closed and the tt_device
   freed exactly when it is closed and its list is empty.                  *)
LEMMA CloseAndFreeInv ==
  ASSUME CompatInv, NEW h \in Handle, NEW now \in SUBSET View,
         \A a \in held[h] : \E v \in now : v.va = a,
         dev[h] = "live",
         closed' = closed \/ closed' = closed \cup { h },
         call' = NoCall, call # NoCall => call.h = h,
         UNCHANGED << views, held, revoked >>,
         CloseAndFree(h, now, MaybeFree(h, closed', views[h]))
  PROVE  CompatInv'
<1>1. PICK frees : frees = MaybeFree(h, closed', views[h])
  OBVIOUS
<1>2. frees <=> h \in closed' /\ held[h] \cup revoked[h] = {}
  <2>1. Lists(views[h], held[h] \cup revoked[h])
    BY DEF CompatInv, ListInv
  <2>2. views[h] = << >> <=> held[h] \cup revoked[h] = {}
    BY <2>1, ListEmpty
  <2> QED  BY <1>1, <2>2 DEF MaybeFree
<1>3. /\ dev' = IF frees THEN [dev EXCEPT ![h] = "freed"] ELSE dev
      /\ file' = IF frees THEN file \ { h } ELSE file
      /\ driverViews' = [driverViews EXCEPT ![h] = IF frees THEN {} ELSE now]
  BY <1>1 DEF CloseAndFree
<1>4. /\ driverViews'[h] = IF frees THEN {} ELSE now
      /\ \A g \in Handle \ { h } : /\ driverViews'[g] = driverViews[g] /\ dev'[g] = dev[g]
                                   /\ g \in file' <=> g \in file
                                   /\ g \in closed' <=> g \in closed
      /\ frees => dev'[h] = "freed" /\ h \notin file'
      /\ ~ frees => dev'[h] = "live" /\ (h \in file' <=> h \in file)
  BY <1>3 DEF CompatInv, CompatType
<1>5. CompatType'
  <2>1. driverViews' \in [Handle -> SUBSET View]
    BY <1>3 DEF CompatInv, CompatType
  <2>2. dev' \in [Handle -> { "none", "live", "freed" }] /\ file' \in SUBSET Handle
    BY <1>3 DEF CompatInv, CompatType
  <2> QED  BY <2>1, <2>2 DEF CompatInv, CompatType
<1>6. ListInv'
  BY DEF CompatInv, ListInv
<1>7. HeldInv'
  <2>1. ASSUME NEW g \in Handle, NEW a \in held[g]
        PROVE  a \notin revoked[g] /\ \E v \in driverViews'[g] : v.va = a
    <3>1. a \notin revoked[g] /\ \E v \in driverViews[g] : v.va = a
      BY DEF CompatInv, HeldInv
    <3>2. CASE g = h
      BY <1>2, <1>4, <3>1, <3>2
    <3>3. CASE g # h
      BY <1>4, <3>1, <3>3
    <3> QED  BY <3>2, <3>3
  <2> QED  BY <2>1 DEF HeldInv
<1>8. LifeInv'
  <2>1. ASSUME NEW g \in Handle
        PROVE  /\ g \in file' <=> dev'[g] = "live"
               /\ dev'[g] = "none" => g \notin closed'
               /\ dev'[g] # "live" => held[g] \cup revoked[g] = {} /\ driverViews'[g] = {}
    <3>1. /\ g \in file <=> dev[g] = "live"
          /\ dev[g] = "none" => g \notin closed
          /\ dev[g] # "live" => held[g] \cup revoked[g] = {} /\ driverViews[g] = {}
      BY DEF CompatInv, LifeInv
    <3>2. CASE g = h
      BY <1>2, <1>4, <3>1, <3>2
    <3>3. CASE g # h
      BY <1>4, <3>1, <3>3
    <3> QED  BY <3>2, <3>3
  <2> QED  BY <2>1 DEF LifeInv
<1>9. FreeInv'
  <2>1. ASSUME NEW g \in Handle, g \in closed', held[g] \cup revoked[g] = {}
        PROVE  dev'[g] = "freed"
    <3>1. CASE g = h
      BY <1>2, <1>4, <2>1, <3>1
    <3>2. CASE g # h
      BY <1>4, <2>1, <3>2 DEF CompatInv, FreeInv
    <3> QED  BY <3>1, <3>2
  <2> QED  BY <2>1 DEF FreeInv
<1>10. CallInv'
  BY DEF CallInv
<1> QED  BY <1>5, <1>6, <1>7, <1>8, <1>9, <1>10 DEF CompatInv

(* tt_munmap looks after the handle whatever UNMAP answered.               *)
LEMMA MunmapUnmapInv ==
  ASSUME CompatInv, MunmapUnmap
  PROVE  CompatInv'
<1>1. PICK h : h = call.h
  OBVIOUS
<1>2. /\ call # NoCall
      /\ CloseAndFree(h, Unmapped(h, call.va), MaybeFree(h, closed, views[h]))
      /\ call' = NoCall
      /\ UNCHANGED << closed, views, held, revoked >>
  BY <1>1 DEF MunmapUnmap, clientVars
<1>3. h \in Handle /\ dev[h] = "live" /\ call.va \notin held[h]
  BY <1>1, <1>2, CallFields DEF CompatInv, CallInv
<1>4. PICK now : now = Unmapped(h, call.va)
  OBVIOUS
<1>5. now \in SUBSET View /\ \A a \in held[h] : \E v \in now : v.va = a
  BY <1>3, <1>4, UnmappedKeeps
<1>6. CloseAndFree(h, now, MaybeFree(h, closed', views[h]))
  BY <1>2, <1>4
<1> QED  BY <1>1, <1>2, <1>3, <1>5, <1>6, CloseAndFreeInv

(* tt_close.                                                               *)
LEMMA ShimCloseInv ==
  ASSUME CompatInv, NEW h \in Handle, Close(h)
  PROVE  CompatInv'
<1>1. /\ call = NoCall /\ dev[h] = "live"
      /\ closed' = closed \cup { h }
      /\ CloseAndFree(h, driverViews[h], MaybeFree(h, closed', views[h]))
      /\ UNCHANGED << views, held, revoked >> /\ call' = NoCall
  BY DEF Close, clientVars
<1>2. driverViews[h] \in SUBSET View /\ \A a \in held[h] : \E v \in driverViews[h] : v.va = a
  BY DEF CompatInv, CompatType, HeldInv
<1> QED  BY <1>1, <1>2, CloseAndFreeInv

(* A reset moves addresses from usable to revoked, and keeps what stays mapped. *)
LEMMA ZapInv ==
  ASSUME CompatInv, Zap, UNCHANGED << shimVars, file, call >>
  PROVE  CompatInv'
<1>1. PICK zapped : zapped = [h \in Handle |-> { v.va : v \in { w \in driverViews[h] : w.kind = "device" } }]
  OBVIOUS
<1>2. /\ driverViews' = [h \in Handle |-> { v \in driverViews[h] : v.kind = "buffer" }]
      /\ held' = [h \in Handle |-> held[h] \ zapped[h]]
      /\ revoked' = [h \in Handle |-> revoked[h] \cup (held[h] \cap zapped[h])]
      /\ UNCHANGED << dev, closed, views, file, call >>
  BY <1>1 DEF Zap, shimVars
<1>3. ASSUME NEW h \in Handle
      PROVE  /\ held'[h] \subseteq held[h]
             /\ held'[h] \cup revoked'[h] = held[h] \cup revoked[h]
             /\ held'[h] \cap revoked'[h] \subseteq held[h] \cap revoked[h]
             /\ driverViews'[h] \subseteq driverViews[h]
             /\ \A a \in held'[h] : \A v \in driverViews[h] : v.va = a => v \in driverViews'[h]
  <2>1. /\ held'[h] = held[h] \ zapped[h]
        /\ revoked'[h] = revoked[h] \cup (held[h] \cap zapped[h])
        /\ driverViews'[h] = { v \in driverViews[h] : v.kind = "buffer" }
    BY <1>2
  <2>2. ASSUME NEW v \in driverViews[h], v.va \notin zapped[h] PROVE v.kind = "buffer"
    <3>1. v.kind \in Kind
      BY DEF CompatInv, CompatType, View
    <3>2. v.kind # "device"
      BY <1>1, <2>2
    <3> QED  BY <3>1, <3>2, CompatAssumption
  <2> QED  BY <2>1, <2>2
<1>4. CompatType'
  <2>1. driverViews' \in [Handle -> SUBSET View]
    BY <1>2 DEF CompatInv, CompatType
  <2>2. held' \in [Handle -> SUBSET Addr] /\ revoked' \in [Handle -> SUBSET Addr]
    BY <1>2 DEF CompatInv, CompatType
  <2> QED  BY <1>2, <2>1, <2>2 DEF CompatInv, CompatType
<1>5. ListInv'
  BY <1>2, <1>3 DEF CompatInv, ListInv
<1>6. HeldInv'
  <2>1. ASSUME NEW h \in Handle, NEW a \in held'[h]
        PROVE  a \notin revoked'[h] /\ \E v \in driverViews'[h] : v.va = a
    <3>1. a \in held[h] /\ a \notin revoked[h] /\ \E v \in driverViews[h] : v.va = a
      BY <1>3, <2>1 DEF CompatInv, HeldInv
    <3> QED  BY <1>3, <2>1, <3>1
  <2> QED  BY <2>1 DEF HeldInv
<1>7. LifeInv'
  BY <1>2, <1>3 DEF CompatInv, LifeInv
<1>8. FreeInv'
  BY <1>2, <1>3 DEF CompatInv, FreeInv
<1>9. CallInv'
  <2>1. ASSUME call # NoCall PROVE call.h \in Handle
    BY <2>1, CallFields DEF CompatInv
  <2> QED  BY <1>2, <1>3, <2>1 DEF CompatInv, CallInv
<1> QED  BY <1>4, <1>5, <1>6, <1>7, <1>8, <1>9 DEF CompatInv

(* If the manager gives no revoked address out again while the client has it,
   the shim keeps its list, the driver's handle and the client in step.    *)
LEMMA CompatInvariant ==
  ASSUME ~ ReusesVa
  PROVE  CompatSpec => []CompatInv
<1>1. CompatInit => CompatInv
  <2> SUFFICES ASSUME CompatInit PROVE CompatInv
    OBVIOUS
  <2>1. CompatType /\ HeldInv /\ LifeInv /\ FreeInv /\ CallInv
    BY DEF CompatInit, CompatType, HeldInv, LifeInv, FreeInv, CallInv
  <2>2. Lists(<< >>, {})
    BY DEF Lists
  <2>3. ListInv
    BY <2>2 DEF CompatInit, ListInv
  <2> QED  BY <2>1, <2>3 DEF CompatInv
<1>2. CompatInv /\ [CompatNext]_compatVars => CompatInv'
  <2> SUFFICES ASSUME CompatInv, [CompatNext]_compatVars PROVE CompatInv'
    OBVIOUS
  <2>1. ASSUME NEW h \in Handle, Open(h) PROVE CompatInv'
    BY <2>1, ShimOpenInv
  <2>2. ASSUME NEW h \in Handle, Close(h) PROVE CompatInv'
    BY <2>2, ShimCloseInv
  <2>3. ASSUME NEW h \in Handle, NEW v \in View, MmapMap(h, v) PROVE CompatInv'
    BY <2>3, MmapMapInv
  <2>4. CASE MmapReturns
    BY <2>4, MmapReturnsInv
  <2>5. CASE MmapOom
    BY <2>5, MmapOomInv
  <2>6. ASSUME NEW h \in Handle, NEW va \in Addr, MunmapUnlink(h, va) PROVE CompatInv'
    BY <2>6, MunmapUnlinkInv
  <2>7. CASE MunmapUnmap
    BY <2>7, MunmapUnmapInv
  <2>8. ASSUME NEW survivors \in SUBSET Handle, Reset(survivors) PROVE CompatInv'
    BY <2>8, ZapInv DEF Reset
  <2>9. CASE LinkReset
    BY <2>9, ZapInv DEF LinkReset
  <2>10. CASE UNCHANGED compatVars
    BY <2>10 DEF compatVars, CompatInv, CompatType, ListInv, HeldInv, LifeInv, FreeInv, CallInv
  <2> QED  BY <2>1, <2>2, <2>3, <2>4, <2>5, <2>6, <2>7, <2>8, <2>9, <2>10 DEF CompatNext
<1> QED  BY <1>1, <1>2, PTL DEF CompatSpec

(* "mmap views survive tt_close": for any number of handles, views and resets,
   an address the client may use is mapped, and one it has still to unmap
   belongs to a tt_device that exists and whose driver handle is open.     *)
THEOREM ViewsOutliveClose ==
  ASSUME ~ ReusesVa
  PROVE  CompatSpec => []ViewSurvivesClose
<1>1. CompatInv => ViewSurvivesClose
  BY DEF CompatInv, HeldInv, LifeInv, ViewSurvivesClose
<1> QED  BY <1>1, CompatInvariant, PTL

(* The last tt_munmap, or tt_close, closes the driver handle and frees the
   tt_device, whatever the driver answered, and no earlier call does.      *)
THEOREM LastUnmapFrees ==
  ASSUME ~ ReusesVa
  PROVE  CompatSpec => []ClosedAndUnmappedIsFreed
<1>1. CompatInv => ClosedAndUnmappedIsFreed
  BY DEF CompatInv, LifeInv, FreeInv, ClosedAndUnmappedIsFreed
<1> QED  BY <1>1, CompatInvariant, PTL

-----------------------------------------------------------------------------
(***************************************************************************)
(* The driver TtCompat has below the shim is the service of ViewService.   *)
(***************************************************************************)

(* The parts of the service as the shim's state gives them.                *)
ServiceHome == [h \in Handle |-> IF dev[h] = "none" THEN "nobody" ELSE "client"]

(* An UNMAP is served, or refused and without effect.                      *)
LEMMA UnmapIsServed ==
  ASSUME CompatInv, NEW h \in Handle, NEW va \in Addr, dev[h] = "live",
         driverViews' = [driverViews EXCEPT ![h] = Unmapped(h, va)],
         UNCHANGED << dev, file, staleFiles >>
  PROVE  [UsedDriver!Next]_(UsedDriver!vars)
<1>1. ServiceState[h] = "open" /\ h \in file
  BY DEF ServiceState, CompatInv, LifeInv
<1>2. CASE h \in staleFiles
  <2>1. driverViews' = driverViews
    BY <1>2 DEF Unmapped, CompatInv, CompatType
  <2> QED  BY <2>1 DEF UsedDriver!vars, ServiceState
<1>3. CASE h \notin staleFiles
  <2>1. UsedDriver!Unmap(h, va)
    BY <1>1, <1>3 DEF UsedDriver!Unmap, UsedDriver!Opened, Unmapped, ServiceState
  <2> QED  BY <2>1 DEF UsedDriver!Next
<1> QED  BY <1>2, <1>3

(* CloseHandle is the service's close, and nothing else of tt_maybe_free is
   visible to it.                                                          *)
LEMMA CloseIsServed ==
  ASSUME CompatInv, NEW h \in Handle, NEW now, NEW frees \in BOOLEAN, dev[h] = "live",
         CloseAndFree(h, now, frees), UNCHANGED staleFiles, frees
  PROVE  UsedDriver!Next
<1>1. ServiceState[h] = "open" /\ h \in file
  BY DEF ServiceState, CompatInv, LifeInv
<1>2. /\ dev' = [dev EXCEPT ![h] = "freed"]
      /\ file' = file \ { h }
      /\ driverViews' = [driverViews EXCEPT ![h] = {}]
  BY DEF CloseAndFree
<1>3. dev \in [Handle -> { "none", "live", "freed" }]
  BY DEF CompatInv, CompatType
<1>4. ServiceState' = [ServiceState EXCEPT ![h] = "closed"]
  BY <1>2, <1>3 DEF ServiceState
<1>5. UNCHANGED ServiceHome
  BY <1>2, <1>3 DEF ServiceHome
<1>6. UsedDriver!Close(h)
  BY <1>1, <1>2, <1>4, <1>5 DEF UsedDriver!Close, UsedDriver!Opened, ServiceHome
<1> QED  BY <1>6 DEF UsedDriver!Next

(* A reset is the service's reset, with the handles it leaves valid.       *)
LEMMA ZapIsServed ==
  ASSUME CompatInv, Zap, UNCHANGED << shimVars, file >>, NEW survivors \in SUBSET Handle,
         survivors \subseteq file \ staleFiles, staleFiles' \cap file = file \ survivors
  PROVE  UsedDriver!Next
<1>1. UsedDriver!Opened = file
  BY DEF UsedDriver!Opened, ServiceState, CompatInv, CompatType, LifeInv
<1>2. driverViews' = [h \in Handle |-> IF h \in file THEN { v \in driverViews[h] : v.kind = "buffer" }
                                                     ELSE driverViews[h]]
  <2>1. \A h \in Handle : h \notin file => driverViews[h] = {}
    BY DEF CompatInv, LifeInv
  <2>2. driverViews' = [h \in Handle |-> { v \in driverViews[h] : v.kind = "buffer" }]
    BY DEF Zap
  <2> QED  BY <2>1, <2>2
<1>3. UsedDriver!Reset(survivors)
  BY <1>1, <1>2 DEF UsedDriver!Reset, ServiceState, shimVars
<1> QED  BY <1>3 DEF UsedDriver!Next

(* Every step of the shim and of its environment is a step of the service. *)
LEMMA ShimServiceStep ==
  ASSUME CompatInv, [CompatNext]_compatVars
  PROVE  [UsedDriver!Next]_(UsedDriver!vars)
<1> DEFINE Goal == [UsedDriver!Next]_(UsedDriver!vars)
<1>1. ASSUME UNCHANGED << dev, file, staleFiles, driverViews >> PROVE Goal
  BY <1>1 DEF UsedDriver!vars, ServiceState
<1>2. ASSUME NEW h \in Handle, Open(h) PROVE Goal
  <2>1. /\ dev[h] = "none" /\ dev' = [dev EXCEPT ![h] = "live"]
        /\ file' = file \cup { h } /\ UNCHANGED << staleFiles, driverViews >>
    BY <1>2 DEF Open
  <2>2. dev \in [Handle -> { "none", "live", "freed" }]
    BY DEF CompatInv, CompatType
  <2>3. ServiceState' = [ServiceState EXCEPT ![h] = "open"] /\ ServiceState[h] = "none"
    BY <2>1, <2>2 DEF ServiceState
  <2>4. ServiceHome' = [ServiceHome EXCEPT ![h] = "client"]
    BY <2>1, <2>2 DEF ServiceHome
  <2>5. UsedDriver!Open(h, "client")
    BY <2>1, <2>3, <2>4 DEF UsedDriver!Open, ServiceHome
  <2> QED  BY <2>5 DEF UsedDriver!Next
<1>3. ASSUME NEW h \in Handle, Close(h) PROVE Goal
  <2>1. PICK frees \in BOOLEAN : frees = MaybeFree(h, closed', views[h])
    BY DEF MaybeFree
  <2>2. /\ dev[h] = "live" /\ CloseAndFree(h, driverViews[h], frees)
        /\ UNCHANGED staleFiles
    BY <1>3, <2>1 DEF Close
  <2>3. CASE frees
    BY <2>2, <2>3, CloseIsServed
  <2>4. CASE ~ frees
    <3>1. UNCHANGED << dev, file, staleFiles, driverViews >>
      BY <2>2, <2>4 DEF CloseAndFree, CompatInv, CompatType
    <3> QED  BY <1>1, <3>1
  <2> QED  BY <2>3, <2>4
<1>4. ASSUME NEW h \in Handle, NEW v \in View, MmapMap(h, v) PROVE Goal
  <2>1. /\ dev[h] = "live" /\ h \notin staleFiles /\ v.va \notin InUse
        /\ driverViews' = [driverViews EXCEPT ![h] = @ \cup { v }]
        /\ UNCHANGED << dev, file, staleFiles >>
    BY <1>4 DEF MmapMap, shimVars
  <2>2. v \in UsedDriver!View
    BY CompatAssumption DEF View, UsedDriver!View
  <2>3. \A g \in Handle : \A w \in driverViews[g] : w.va # v.va
    BY <2>1 DEF InUse
  <2>4. UsedDriver!Map(h, v)
    BY <2>1, <2>3 DEF UsedDriver!Map, UsedDriver!Opened, ServiceState
  <2> QED  BY <2>2, <2>4 DEF UsedDriver!Next
<1>5. CASE MmapReturns
  BY <1>1, <1>5 DEF MmapReturns
<1>6. CASE MmapOom
  <2>1. call.h \in Handle /\ call.va \in Addr /\ dev[call.h] = "live"
    BY <1>6, CallFields DEF MmapOom, CompatInv, CallInv
  <2> QED  BY <1>6, <2>1, UnmapIsServed DEF MmapOom, shimVars
<1>7. ASSUME NEW h \in Handle, NEW va \in Addr, MunmapUnlink(h, va) PROVE Goal
  BY <1>1, <1>7 DEF MunmapUnlink
<1>8. CASE MunmapUnmap
  <2>1. call.h \in Handle /\ call.va \in Addr /\ dev[call.h] = "live"
    BY <1>8, CallFields DEF MunmapUnmap, CompatInv, CallInv
  <2>2. PICK frees \in BOOLEAN : frees = MaybeFree(call.h, closed, views[call.h])
    BY DEF MaybeFree
  <2>3. CloseAndFree(call.h, Unmapped(call.h, call.va), frees) /\ UNCHANGED staleFiles
    BY <1>8, <2>2 DEF MunmapUnmap
  <2>4. CASE frees
    BY <2>1, <2>3, <2>4, CloseIsServed
  <2>5. CASE ~ frees
    <3>1. /\ UNCHANGED << dev, file, staleFiles >>
          /\ driverViews' = [driverViews EXCEPT ![call.h] = Unmapped(call.h, call.va)]
      BY <2>3, <2>5 DEF CloseAndFree
    <3> QED  BY <2>1, <3>1, UnmapIsServed
  <2> QED  BY <2>4, <2>5
<1>9. ASSUME NEW survivors \in SUBSET Handle, Reset(survivors) PROVE Goal
  BY <1>9, ZapIsServed DEF Reset
<1>10. CASE LinkReset
  <2>1. file \ staleFiles \in SUBSET Handle
    BY DEF CompatInv, CompatType
  <2>2. Zap /\ UNCHANGED << shimVars, file >> /\ staleFiles' = staleFiles
    BY <1>10 DEF LinkReset
  <2>3. staleFiles' \cap file = file \ (file \ staleFiles)
    BY <2>2
  <2> QED  BY <2>1, <2>2, <2>3, ZapIsServed
<1>11. CASE UNCHANGED compatVars
  BY <1>1, <1>11 DEF compatVars
<1> QED  BY <1>2, <1>3, <1>4, <1>5, <1>6, <1>7, <1>8, <1>9, <1>10, <1>11 DEF CompatNext

(* The shim is proved against a driver that keeps to ViewService: views come
   and go only as MAP, UNMAP, CloseHandle and resets of that service take and
   give them.                                                              *)
THEOREM ShimUsesViewService ==
  ASSUME ~ ReusesVa
  PROVE  CompatSpec => ShimReliesOnViews
<1>1. CompatInit => UsedDriver!Init
  BY DEF CompatInit, UsedDriver!Init, ServiceState
<1>2. CompatInv /\ [CompatNext]_compatVars => [UsedDriver!Next]_(UsedDriver!vars)
  BY ShimServiceStep
<1> QED  BY <1>1, <1>2, CompatInvariant, PTL DEF CompatSpec, ShimReliesOnViews, UsedDriver!Spec

-----------------------------------------------------------------------------
(***************************************************************************)
(* TtMemory provides the service of ViewService.  A view is in the page    *)
(* tables until TtDestroyUserMapping, so an UNMAP serves the client in its *)
(* second step; the views of a handle must then be told apart by address,  *)
(* and the one unlinked must not be on the list again.                     *)
(***************************************************************************)

(* Views of one handle are at different addresses.                         *)
Apart(f) == \A m, n \in Views(f) : m.va = n.va => m = n
ApartInv == \A f \in File : Apart(f)

(* What an UNMAP has unlinked is off the list.                             *)
OffList(t) ==
  pc[t] = "second" /\ req[t].op = "UNMAP" => req[t].obj \notin mappings[req[t].file]
OffListInv == \A t \in Thread : OffList(t)

ViewInv == SyncInv /\ ApartInv /\ OffListInv

(* The one request of a handle is the one that can have unlinked a view.   *)
LEMMA UnlinkedHere ==
  ASSUME SoleInv, NEW t \in Thread, pc[t] # "idle"
  PROVE  /\ pc[t] = "second" /\ req[t].op = "UNMAP" =>
              Unlinked(req[t].file, "UNMAP") = { req[t].obj }
         /\ ~ (pc[t] = "second" /\ req[t].op = "UNMAP") =>
              Unlinked(req[t].file, "UNMAP") = {}
  BY DEF SoleInv, Unlinked

(* Without a request under way a handle has nothing unlinked.              *)
LEMMA UnlinkedIdle ==
  ASSUME NEW f, \A t \in Thread : pc[t] # "idle" /\ req[t].op = "UNMAP" => req[t].file # f
  PROVE  Unlinked(f, "UNMAP") = {}
  BY DEF Unlinked

(* How a step of a request changes what handles have unlinked.             *)
LEMMA UnlinkedMoves ==
  ASSUME SoleInv, NEW t \in Thread, NEW f \in File, f = req[t].file, Moves(t)
  PROVE  /\ \A g \in File : g # f => Unlinked(g, "UNMAP")' = Unlinked(g, "UNMAP")
         /\ ~ (pc'[t] = "second" /\ req'[t].op = "UNMAP") => Unlinked(f, "UNMAP")' = {}
         /\ pc'[t] = "second" /\ req'[t].op = "UNMAP" => Unlinked(f, "UNMAP")' = { req'[t].obj }
<1>1. pc[t] # "idle" /\ \A u \in Thread : u # t => pc'[u] = pc[u] /\ req'[u] = req[u]
  BY DEF Moves
<1>2. pc'[t] = "second" => req'[t].file = f
  BY DEF Moves
<1>3. \A u \in Thread : u # t /\ pc[u] = "second" => req[u].file # f
  BY <1>1 DEF SoleInv
<1>4. ASSUME NEW g \in File, g # f PROVE Unlinked(g, "UNMAP")' = Unlinked(g, "UNMAP")
  <2>1. \A u \in Thread :
          pc'[u] = "second" /\ req'[u].op = "UNMAP" /\ req'[u].file = g
            <=> pc[u] = "second" /\ req[u].op = "UNMAP" /\ req[u].file = g
    BY <1>1, <1>2, <1>4
  <2>2. \A u \in Thread : pc[u] = "second" /\ req[u].file = g => req'[u] = req[u]
    BY <1>1, <1>4
  <2>3. { u \in Thread : pc'[u] = "second" /\ req'[u].op = "UNMAP" /\ req'[u].file = g }
          = { u \in Thread : pc[u] = "second" /\ req[u].op = "UNMAP" /\ req[u].file = g }
    BY <2>1
  <2> QED  BY <2>2, <2>3 DEF Unlinked
<1>5. \A u \in Thread : pc'[u] = "second" /\ req'[u].file = f => u = t
  BY <1>1, <1>3
<1>6. ~ (pc'[t] = "second" /\ req'[t].op = "UNMAP") => Unlinked(f, "UNMAP")' = {}
  BY <1>5 DEF Unlinked
<1>7. pc'[t] = "second" /\ req'[t].op = "UNMAP" => Unlinked(f, "UNMAP")' = { req'[t].obj }
  BY <1>2, <1>5 DEF Unlinked
<1> QED  BY <1>4, <1>6, <1>7

(* The three things a step of a request can do to the views of handles.    *)
Keeps == \A g \in File : Views(g)' = Views(g)
Adds(f, m) ==
  /\ \A g \in File : creator[g] = creator[f] => \A n \in Views(g) : n.va # m.va
  /\ \A g \in File : Views(g)' = IF g = f THEN Views(g) \cup { m } ELSE Views(g)
Takes(f, m) ==
  /\ m \in Views(f)
  /\ \A g \in File : Views(g)' = IF g = f THEN Views(g) \ { m } ELSE Views(g)

(* MAP adds a view at an unused address, the second step of UNMAP takes one
   away, and no other step of a request changes what processes can reach.  *)
LEMMA ViewChange ==
  ASSUME ViewInv, NEW t \in Thread, NEW f \in File, f = req[t].file, ThreadStep(t)
  PROVE  /\ Keeps \/ (\E m \in Mapping : Adds(f, m)) \/ (\E m \in Mapping : Takes(f, m))
         /\ OffList(t)'
<1> DEFINE Goal == /\ Keeps \/ (\E m \in Mapping : Adds(f, m)) \/ (\E m \in Mapping : Takes(f, m))
                   /\ OffList(t)'
<1>1. /\ TypeInv /\ ThreadType /\ MemoryType /\ SoleInv /\ OffList(t)
      /\ Moves(t) /\ pc[t] # "idle"
  BY ThreadStepFacts DEF ViewInv, SyncInv, MemoryInv, TypeInv, OffListInv, Moves
<1>2. \A g \in File : g # f => Unlinked(g, "UNMAP")' = Unlinked(g, "UNMAP")
  BY <1>1, UnlinkedMoves
<1>3. Complete(t) => pc'[t] = "idle"
  BY <1>1, CompleteFacts
<1>4. ASSUME UNCHANGED mappings, ~ (pc[t] = "second" /\ req[t].op = "UNMAP"),
             ~ (pc'[t] = "second" /\ req'[t].op = "UNMAP")
      PROVE  Goal
  <2>1. Unlinked(f, "UNMAP") = {} /\ Unlinked(f, "UNMAP")' = {}
    BY <1>1, <1>4, UnlinkedHere, UnlinkedMoves
  <2>2. Keeps
    BY <1>2, <1>4, <2>1 DEF Keeps, Views
  <2> QED  BY <1>4, <2>2 DEF OffList
<1>5. ASSUME HandlerFails(t) \/ AllocateTlbReturns(t) \/ AllocateTlbRollback(t)
               \/ BhConfigureUserTlb(t) \/ AllocateDmaBufPublishes(t) \/ AllocateDmaBufFails(t)
      PROVE  Goal
  <2>1. /\ UNCHANGED mappings /\ Complete(t)
        /\ ~ (pc[t] = "second" /\ req[t].op = "UNMAP")
    BY <1>5 DEF HandlerFails, AllocateTlbReturns, AllocateTlbRollback, BhConfigureUserTlb,
      AllocateDmaBufPublishes, AllocateDmaBufFails, Continues, fileVars
  <2> QED  BY <1>3, <1>4, <2>1
<1>6. ASSUME NEW w \in Window, AllocateTlb(t, w) \/ ConfigureTlb(t, w) PROVE Goal
  <2>1. /\ UNCHANGED mappings /\ pc[t] = "gated" /\ GoOn(t, w)
        /\ req[t].op \in { "ALLOCATE_TLB", "CONFIGURE_TLB" }
    BY <1>6 DEF AllocateTlb, ConfigureTlb, Handles, fileVars
  <2>2. Found(req[t].op, w)
    BY <2>1 DEF Found
  <2>3. req'[t].op = req[t].op
    BY <1>1, <2>1, <2>2, GoOnFacts
  <2> QED  BY <1>4, <2>1, <2>3
<1>7. ASSUME NEW w \in Window, FreeTlb(t, w) PROVE Goal
  <2>1. UNCHANGED mappings /\ Complete(t) /\ pc[t] = "gated"
    BY <1>7 DEF FreeTlb, LockAndHandle, Handles, fileVars
  <2> QED  BY <1>3, <1>4, <2>1
<1>8. ASSUME NEW s \in Slot, NEW n \in Size, AllocateDmaBuf(t, s, n) PROVE Goal
  <2>1. PICK r : r = [slot |-> s, size |-> n, refused |-> DmaAccountRefuses(n)]
    OBVIOUS
  <2>2. DmaAccountRefuses(n) \in BOOLEAN
    BY DEF DmaAccountRefuses
  <2>3. r \in Reservation
    BY <2>1, <2>2 DEF Reservation
  <2>4. /\ UNCHANGED mappings /\ pc[t] = "gated" /\ GoOn(t, r)
        /\ req[t].op = "ALLOCATE_DMA_BUF"
    BY <1>8, <2>1 DEF AllocateDmaBuf, LockAndHandle, Handles
  <2>5. Found(req[t].op, r)
    BY <2>3, <2>4 DEF Found
  <2>6. req'[t].op = req[t].op
    BY <1>1, <2>4, <2>5, GoOnFacts
  <2> QED  BY <1>4, <2>4, <2>6
<1>9. ASSUME NEW s \in Slot, FreeDmaBufEx(t, s) PROVE Goal
  <2>1. UNCHANGED mappings /\ Complete(t) /\ pc[t] = "gated"
    BY <1>9 DEF FreeDmaBufEx, LockAndHandle, Handles
  <2> QED  BY <1>3, <1>4, <2>1
<1>10. ASSUME NEW va \in Va, NEW target \in Window \cup Slot \cup { Bar }, Map(t, va, target) PROVE Goal
  <2>1. PICK m : m = [va |-> va, target |-> target]
    OBVIOUS
  <2>2. m \in Mapping /\ m.va = va
    BY <2>1 DEF Mapping
  <2>3. /\ mappings' = [mappings EXCEPT ![f] = @ \cup { m }] /\ Complete(t) /\ pc[t] = "gated"
        /\ \A g \in File : creator[g] = creator[f] => \A n \in Views(g) : n.va # va
    BY <1>10, <2>1 DEF Map, LockAndHandle, Handles
  <2>4. Unlinked(f, "UNMAP") = {} /\ Unlinked(f, "UNMAP")' = {}
    BY <1>1, <1>3, <2>3, UnlinkedHere, UnlinkedMoves
  <2>5. \A g \in File : mappings'[g] = IF g = f THEN mappings[g] \cup { m } ELSE mappings[g]
    BY <1>1, <2>3 DEF MemoryType
  <2>6. Adds(f, m)
    BY <1>2, <2>2, <2>3, <2>4, <2>5 DEF Adds, Views
  <2> QED  BY <1>3, <2>2, <2>3, <2>6 DEF OffList
<1>11. ASSUME NEW m \in Mapping, Unmap(t, m) PROVE Goal
  <2>1. /\ mappings' = [mappings EXCEPT ![f] = @ \ { m }] /\ GoOn(t, m) /\ pc[t] = "gated"
        /\ m \in mappings[f] /\ req[t].op = "UNMAP"
    BY <1>11 DEF Unmap, LockAndHandle, Handles
  <2>2. Found(req[t].op, m)
    BY <2>1 DEF Found
  <2>3. /\ pc'[t] = "second" /\ req'[t].file = f /\ req'[t].op = "UNMAP" /\ req'[t].obj = m
    BY <1>1, <2>1, <2>2, GoOnFacts
  <2>4. Unlinked(f, "UNMAP") = {} /\ Unlinked(f, "UNMAP")' = { m }
    BY <1>1, <2>1, <2>3, UnlinkedHere, UnlinkedMoves
  <2>5. \A g \in File : mappings'[g] = IF g = f THEN mappings[g] \ { m } ELSE mappings[g]
    BY <1>1, <2>1 DEF MemoryType
  <2>6. Keeps
    BY <1>2, <2>1, <2>4, <2>5 DEF Keeps, Views
  <2> QED  BY <2>3, <2>5, <2>6 DEF OffList
<1>12. ASSUME NEW r \in PinRange, NEW backing \in Slot \cup { NoObj }, PinPages(t, r, backing) PROVE Goal
  <2>1. UNCHANGED mappings /\ Complete(t) /\ pc[t] = "gated"
    BY <1>12 DEF PinPages, LockAndHandle, Handles
  <2> QED  BY <1>3, <1>4, <2>1
<1>13. ASSUME NEW p \in Pinning, UnpinPages(t, p) PROVE Goal
  <2>1. UNCHANGED mappings /\ GoOn(t, p) /\ pc[t] = "gated" /\ req[t].op = "UNPIN_PAGES"
    BY <1>13 DEF UnpinPages, LockAndHandle, Handles
  <2>2. Found(req[t].op, p)
    BY <2>1 DEF Found
  <2>3. req'[t].op = req[t].op
    BY <1>1, <2>1, <2>2, GoOnFacts
  <2> QED  BY <1>4, <2>1, <2>3
<1>14. ASSUME DestroyUnlinked(t) PROVE Goal
  <2>1. UNCHANGED mappings /\ Complete(t) /\ pc[t] = "second"
    BY <1>14 DEF DestroyUnlinked, Continues, fileVars
  <2>2. CASE req[t].op = "UNMAP"
    <3>1. req[t].obj \in Mapping /\ req[t].obj \notin mappings[f]
      BY <1>1, <2>1, <2>2 DEF ThreadType, Found, OffList
    <3>2. Unlinked(f, "UNMAP") = { req[t].obj } /\ Unlinked(f, "UNMAP")' = {}
      BY <1>1, <1>3, <2>1, <2>2, UnlinkedHere, UnlinkedMoves
    <3>3. Takes(f, req[t].obj)
      BY <1>2, <2>1, <3>1, <3>2 DEF Takes, Views
    <3> QED  BY <1>3, <2>1, <3>1, <3>3 DEF OffList
  <2>3. CASE req[t].op # "UNMAP"
    BY <1>3, <1>4, <2>1, <2>3
  <2> QED  BY <2>2, <2>3
<1> HIDE DEF Goal
<1>15. Goal
  BY <1>5, <1>6, <1>7, <1>8, <1>9, <1>10, <1>11, <1>12, <1>13, <1>14
    DEF ThreadStep, WindowStep, BufferStep, CallerStep
<1> QED  BY <1>15 DEF Goal

(* A step outside requests that shortens the lists, or leaves them.        *)
LEMMA ViewShorten ==
  ASSUME ViewInv, UNCHANGED threadVars, \A f \in File : mappings'[f] \subseteq mappings[f]
  PROVE  ApartInv' /\ OffListInv'
<1>1. \A f \in File : Unlinked(f, "UNMAP")' = Unlinked(f, "UNMAP")
  BY DEF Unlinked, threadVars
<1>2. ApartInv'
  BY <1>1 DEF ViewInv, ApartInv, Apart, Views
<1>3. OffListInv'
  <2> SUFFICES ASSUME NEW t \in Thread, pc'[t] = "second", req'[t].op = "UNMAP"
               PROVE  req'[t].obj \notin mappings'[req'[t].file]
    BY DEF OffListInv, OffList
  <2>1. pc[t] = "second" /\ req' = req /\ req[t].op = "UNMAP"
    BY DEF threadVars
  <2>2. req[t].file \in File
    BY <2>1, RequestFields DEF ViewInv, SyncInv, MemoryInv, TypeInv
  <2> QED  BY <2>1, <2>2 DEF ViewInv, OffListInv, OffList
<1> QED  BY <1>2, <1>3

(* A dispatched request has unlinked nothing yet.                          *)
LEMMA DispatchUnlinks ==
  ASSUME ThreadType, NEW t \in Thread, NEW f \in File, NEW op \in CallerOp \cup QueuedOp,
         Dispatch(t, f, op)
  PROVE  \A g \in File : Unlinked(g, "UNMAP")' = Unlinked(g, "UNMAP")
<1>1. pc[t] = "idle"
  BY DEF Dispatch
<1>2. pc'[t] = "gated" /\ \A u \in Thread : u # t => pc'[u] = pc[u] /\ req'[u] = req[u]
  BY DispatchFacts
<1>3. ASSUME NEW g \in File PROVE Unlinked(g, "UNMAP")' = Unlinked(g, "UNMAP")
  <2>1. { u \in Thread : pc'[u] = "second" /\ req'[u].op = "UNMAP" /\ req'[u].file = g }
          = { u \in Thread : pc[u] = "second" /\ req[u].op = "UNMAP" /\ req[u].file = g }
    BY <1>1, <1>2
  <2>2. \A u \in Thread : pc[u] = "second" => req'[u] = req[u]
    BY <1>1, <1>2
  <2> QED  BY <2>1, <2>2 DEF Unlinked
<1> QED  BY <1>3

(* Every step keeps the views of a handle apart.                           *)
LEMMA ViewStep ==
  ASSUME ViewInv, [Next]_vars
  PROVE  ApartInv' /\ OffListInv'
<1> DEFINE Goal == ApartInv' /\ OffListInv'
<1>1. SyncInv /\ MemoryInv /\ TypeInv /\ DeviceType /\ MemoryType /\ ThreadType
  BY DEF ViewInv, SyncInv, MemoryInv, TypeInv
<1>2. ASSUME NEW t \in Thread, ThreadStep(t) PROVE Goal
  <2>1. UNCHANGED deviceVars /\ Moves(t)
    BY <1>1, <1>2, ThreadStepFacts
  <2>2. PICK f \in File : f = req[t].file
    BY <1>1, <2>1, RequestFields DEF Moves
  <2>3. RefsHaveBuffer(f)
    BY <1>1 DEF MemoryInv, ListedRefsHaveBuffer, RefsHaveBuffer
  <2>4. OwnOnly(t)
    BY <1>1, <1>2, <2>2, <2>3, ListedStep
  <2>5. /\ Keeps \/ (\E m \in Mapping : Adds(f, m)) \/ (\E m \in Mapping : Takes(f, m))
        /\ OffList(t)'
    BY <1>2, <2>2, ViewChange
  <2>6. ApartInv'
    <3>1. CASE Keeps
      BY <3>1 DEF Keeps, ViewInv, ApartInv, Apart
    <3>2. ASSUME NEW m \in Mapping, Adds(f, m) PROVE ApartInv'
      BY <3>2 DEF Adds, ViewInv, ApartInv, Apart
    <3>3. ASSUME NEW m \in Mapping, Takes(f, m) PROVE ApartInv'
      BY <3>3 DEF Takes, ViewInv, ApartInv, Apart
    <3> QED  BY <2>5, <3>1, <3>2, <3>3
  <2>7. OffListInv'
    <3> SUFFICES ASSUME NEW u \in Thread PROVE OffList(u)'
      BY DEF OffListInv
    <3>1. CASE u = t
      BY <2>5, <3>1
    <3>2. CASE u # t
      <4>1. pc'[u] = pc[u] /\ req'[u] = req[u] /\ OffList(u)
        BY <2>1, <3>2 DEF Moves, ViewInv, OffListInv
      <4>2. pc[u] = "second" => req[u].file \in File /\ req[u].file # f
        BY <1>1, <2>1, <2>2, <3>2, RequestFields DEF SyncInv, SoleInv, Moves
      <4>3. pc[u] = "second" => mappings'[req[u].file] = mappings[req[u].file]
        BY <2>2, <2>4, <4>2 DEF OwnOnly
      <4> QED  BY <4>1, <4>3 DEF OffList
    <3> QED  BY <3>1, <3>2
  <2> QED  BY <2>6, <2>7
<1>3. ASSUME NEW t \in Thread, NEW f \in File, NEW op \in CallerOp \cup QueuedOp, Dispatch(t, f, op)
      PROVE  Goal
  <2>1. \A g \in File : Unlinked(g, "UNMAP")' = Unlinked(g, "UNMAP")
    BY <1>1, <1>3, DispatchUnlinks
  <2>2. /\ UNCHANGED mappings /\ pc'[t] = "gated"
        /\ \A u \in Thread : u # t => pc'[u] = pc[u] /\ req'[u] = req[u]
    BY <1>1, <1>3, DispatchFacts DEF fileVars
  <2>3. ApartInv'
    BY <2>1, <2>2 DEF ViewInv, ApartInv, Apart, Views
  <2>4. OffListInv'
    <3> SUFFICES ASSUME NEW u \in Thread PROVE OffList(u)'
      BY DEF OffListInv
    <3>1. u # t => OffList(u) /\ pc'[u] = pc[u] /\ req'[u] = req[u]
      BY <2>2 DEF ViewInv, OffListInv
    <3> QED  BY <2>2, <3>1 DEF OffList
  <2> QED  BY <2>3, <2>4
<1>4. ASSUME NEW f \in File, NEW p \in Process, FileCreate(f, p) PROVE Goal
  <2>1. UNCHANGED threadVars /\ mappings' = mappings
    BY <1>4 DEF FileCreate, fileVars
  <2> QED  BY <2>1, ViewShorten
<1>5. ASSUME NEW f \in File, CleanupDelist(f) \/ CleanupWindows(f) \/ PostReset(f) PROVE Goal
  <2>1. UNCHANGED threadVars /\ mappings' = mappings
    BY <1>5 DEF CleanupDelist, CleanupWindows, PostReset, fileVars
  <2> QED  BY <2>1, ViewShorten
<1>6. ASSUME NEW f \in File, CleanupMemory(f) PROVE Goal
  <2>1. \A g \in File : mappings'[g] \subseteq mappings[g]
    BY <1>1, <1>6 DEF CleanupMemory, MemoryType
  <2> QED  BY <1>6, <2>1, ViewShorten DEF CleanupMemory
<1>7. ASSUME NEW p \in Process, ProcessExit(p) PROVE Goal
  <2>1. \A g \in File : mappings'[g] \subseteq mappings[g]
    BY <1>7 DEF ProcessExit
  <2> QED  BY <1>7, <2>1, ViewShorten DEF ProcessExit
<1>8. ASSUME ResetZapMappings, UNCHANGED threadVars PROVE Goal
  <2>1. \A g \in File : mappings'[g] \subseteq mappings[g]
    BY <1>1, <1>8, ZapFacts
  <2> QED  BY <1>8, <2>1, ViewShorten
<1>9. ASSUME NEW f \in File, NEW hw \in BOOLEAN, ResetAndBump(f, hw) PROVE Goal
  BY <1>8, <1>9 DEF ResetAndBump
<1>10. ASSUME NEW f \in File, ResetPcieLink(f) PROVE Goal
  BY <1>8, <1>10 DEF ResetPcieLink
<1>11. ASSUME SurpriseRemoval PROVE Goal
  BY <1>8, <1>11 DEF SurpriseRemoval
<1>12. ASSUME UNCHANGED vars PROVE Goal
  <2>1. UNCHANGED threadVars /\ mappings' = mappings
    BY <1>12 DEF vars, threadVars
  <2> QED  BY <2>1, ViewShorten
<1> HIDE DEF Goal
<1>13. Goal
  BY <1>2, <1>3, <1>4, <1>5, <1>6, <1>7, <1>9, <1>10, <1>11, <1>12 DEF Next, ThreadStep
<1> QED  BY <1>13 DEF Goal

(* Views that do not change are seen unchanged.                            *)
LEMMA SeenUnchanged ==
  ASSUME Keeps
  PROVE  UNCHANGED ViewsSeen
<1>1. \A f \in File : { Seen(m) : m \in Views(f)' } = { Seen(m) : m \in Views(f) }
  BY DEF Keeps
<1>2. \A m : Seen(m)' = Seen(m)
  BY DEF Seen
<1> QED  BY <1>1, <1>2 DEF ViewsSeen

(* What the service shows of a handle changes with its state, its creator and
   the two flags only.                                                     *)
LEMMA HandlesUnchanged ==
  ASSUME UNCHANGED << handle, detached, stale >>
  PROVE  UNCHANGED << ViewState, RefusedHandles >>
  BY DEF ViewState, RefusedHandles

(* A request only runs on a handle that the service has open and serves.   *)
LEMMA ServedHandle ==
  ASSUME ViewInv, NEW t \in Thread, pc[t] # "idle"
  PROVE  req[t].file \in Driver!Opened \ RefusedHandles
<1>1. req[t].file \in File
  BY RequestFields DEF ViewInv, SyncInv, MemoryInv, TypeInv
<1>2. handle[req[t].file] = "open" /\ ~detached /\ req[t].file \notin stale
  BY DEF ViewInv, SyncInv, OpenInv, MemoryInv, GateInv
<1>3. ViewState[req[t].file] = "open"
  BY <1>1, <1>2 DEF ViewState
<1> QED  BY <1>1, <1>2, <1>3 DEF Driver!Opened, RefusedHandles

(* A step of a request is a map, an unmap or a stutter of the service.     *)
LEMMA RequestIsServed ==
  ASSUME ViewInv, NEW t \in Thread, ThreadStep(t)
  PROVE  [Driver!Next]_(Driver!vars)
<1>1. TypeInv /\ ThreadType /\ MemoryType
  BY DEF ViewInv, SyncInv, MemoryInv, TypeInv
<1>2. UNCHANGED deviceVars /\ Moves(t) /\ pc[t] # "idle"
  BY <1>1, ThreadStepFacts DEF Moves
<1>3. PICK f \in File : f = req[t].file
  BY <1>1, <1>2, RequestFields
<1>4. f \in Driver!Opened \ RefusedHandles
  BY <1>2, <1>3, ServedHandle
<1>5. UNCHANGED << ViewState, creator, RefusedHandles >>
  BY <1>2, HandlesUnchanged DEF deviceVars
<1>6. /\ ViewsSeen = [g \in File |-> { Seen(m) : m \in Views(g) }]
      /\ ViewsSeen' = [g \in File |-> { Seen(m) : m \in Views(g)' }]
  BY DEF ViewsSeen, Seen
<1>7. CASE Keeps
  BY <1>5, <1>7, SeenUnchanged DEF Driver!vars
<1>8. ASSUME NEW m \in Mapping, Adds(f, m) PROVE [Driver!Next]_(Driver!vars)
  <2>1. Seen(m) \in Driver!View /\ Seen(m).va = m.va
    BY DEF Seen, Driver!View, Mapping
  <2>2. ViewsSeen' = [ViewsSeen EXCEPT ![f] = @ \cup { Seen(m) }]
    BY <1>6, <1>8 DEF Adds
  <2>3. ASSUME NEW g \in File, creator[g] = creator[f], NEW w \in ViewsSeen[g] PROVE w.va # m.va
    <3>1. PICK n \in Views(g) : w = Seen(n)
      BY <1>6
    <3> QED  BY <1>8, <2>3, <3>1 DEF Adds, Seen
  <2>4. Driver!Map(f, Seen(m))
    BY <1>4, <1>5, <2>1, <2>2, <2>3 DEF Driver!Map
  <2> QED  BY <2>1, <2>4 DEF Driver!Next
<1>9. ASSUME NEW m \in Mapping, Takes(f, m) PROVE [Driver!Next]_(Driver!vars)
  <2>1. m.va \in Va
    BY DEF Mapping
  <2>2. { Seen(n) : n \in Views(f) \ { m } } = { v \in { Seen(n) : n \in Views(f) } : v.va # m.va }
    <3>1. \A n \in Views(f) : Seen(n).va = n.va
      BY DEF Seen
    <3>2. \A n \in Views(f) : n # m <=> n.va # m.va
      BY <1>9 DEF Takes, ViewInv, ApartInv, Apart
    <3> QED  BY <3>1, <3>2
  <2>3. ViewsSeen' = [ViewsSeen EXCEPT ![f] = { v \in @ : v.va # m.va }]
    BY <1>6, <1>9, <2>2 DEF Takes
  <2>4. Driver!Unmap(f, m.va)
    BY <1>4, <1>5, <2>3 DEF Driver!Unmap
  <2> QED  BY <2>1, <2>4 DEF Driver!Next
<1> QED  BY <1>3, <1>7, <1>8, <1>9, ViewChange

(* A reset or a removal takes the device views of every open handle, and the
   service goes on for the survivors.                                      *)
LEMMA ZapIsReset ==
  ASSUME ViewInv, NoSharedHolder, ResetZapMappings, NEW survivors \in SUBSET File,
         UNCHANGED << handle, creator, threadVars >>,
         survivors \subseteq Driver!Opened \ RefusedHandles,
         RefusedHandles' = Driver!Opened \ survivors
  PROVE  Driver!Next
<1>1. MemoryType /\ DeviceType
  BY DEF ViewInv, SyncInv, MemoryInv, TypeInv
<1>2. \A f \in File : Views(f) = mappings[f] /\ Views(f)' = mappings'[f]
  BY DEF Views, Unlinked, NoSharedHolder, threadVars
<1>3. \A f \in File : f \in Driver!Opened <=> handle[f] = "open"
  BY <1>1 DEF Driver!Opened, ViewState, NoSharedHolder, Cleaning, DeviceType
<1>4. ASSUME NEW f \in File
      PROVE  ViewsSeen'[f] = IF f \in Driver!Opened
                             THEN { v \in ViewsSeen[f] : v.kind = "buffer" } ELSE ViewsSeen[f]
  <2>1. mappings'[f] = IF handle[f] = "open" THEN { m \in mappings[f] : m.target \in Slot }
                                            ELSE mappings[f]
    BY <1>1, ZapFacts
  <2>2. ViewsSeen[f] = { Seen(m) : m \in mappings[f] } /\ ViewsSeen'[f] = { Seen(m) : m \in mappings'[f] }
    BY <1>2 DEF ViewsSeen, Seen
  <2>3. \A m : Seen(m).kind = "buffer" <=> m.target \in Slot
    BY DEF Seen
  <2>4. { Seen(m) : m \in { n \in mappings[f] : n.target \in Slot } }
          = { v \in { Seen(m) : m \in mappings[f] } : v.kind = "buffer" }
    BY <2>3
  <2> QED  BY <1>3, <2>1, <2>2, <2>4
<1>5. ViewsSeen' = [f \in File |-> IF f \in Driver!Opened
                                  THEN { v \in ViewsSeen[f] : v.kind = "buffer" } ELSE ViewsSeen[f]]
  BY <1>4 DEF ViewsSeen
<1>6. UNCHANGED ViewState
  BY DEF ViewState
<1>7. Driver!Reset(survivors)
  BY <1>5, <1>6 DEF Driver!Reset
<1> QED  BY <1>7 DEF Driver!Next

(* Every step of the driver is a step of the service or a stutter.         *)
LEMMA DriverServiceStep ==
  ASSUME SyncFile = File, ViewInv, [Next]_vars
  PROVE  [Driver!Next]_(Driver!vars)
<1> DEFINE Goal == [Driver!Next]_(Driver!vars)
<1>1. SyncInv /\ TypeInv /\ DeviceType /\ MemoryType /\ ThreadType
  BY DEF ViewInv, SyncInv, MemoryInv, TypeInv
<1>2. ASSUME NEW t \in Thread, ThreadStep(t) PROVE Goal
  BY <1>2, RequestIsServed
<1>3. ASSUME UNCHANGED << ViewState, RefusedHandles, creator >>, Keeps PROVE Goal
  BY <1>3, SeenUnchanged DEF Driver!vars
<1>4. ASSUME UNCHANGED << mappings, threadVars >> PROVE Keeps
  BY <1>4 DEF Keeps, Views, Unlinked, threadVars
<1>5. ASSUME NEW t \in Thread, NEW f \in File, NEW op \in CallerOp \cup QueuedOp, Dispatch(t, f, op)
      PROVE  Goal
  <2>1. UNCHANGED << handle, detached, stale, creator, mappings >>
    BY <1>5 DEF Dispatch, deviceVars, fileVars
  <2>2. Keeps
    BY <1>1, <1>5, <2>1, DispatchUnlinks DEF Keeps, Views
  <2> QED  BY <1>3, <2>1, <2>2, HandlesUnchanged
<1>6. ASSUME NEW f \in File, NEW p \in Process, FileCreate(f, p) PROVE Goal
  <2>1. /\ handle[f] = "none" /\ handle' = [handle EXCEPT ![f] = "open"]
        /\ creator' = [creator EXCEPT ![f] = p]
        /\ UNCHANGED << detached, stale, mappings, threadVars >>
    BY <1>6 DEF FileCreate, fileVars
  <2>2. ViewState[f] = "none" /\ ViewState' = [ViewState EXCEPT ![f] = "open"]
    BY <1>1, <2>1 DEF ViewState, DeviceType
  <2>3. RefusedHandles' \in { RefusedHandles, RefusedHandles \cup { f } }
    <3>1. \A g \in File : ViewState'[g] = IF g = f THEN "open" ELSE ViewState[g]
      BY <2>2 DEF ViewState
    <3>2. CASE detached \/ f \in stale
      BY <2>1, <2>2, <3>1, <3>2 DEF RefusedHandles
    <3>3. CASE ~ (detached \/ f \in stale)
      BY <2>1, <2>2, <3>1, <3>3 DEF RefusedHandles
    <3> QED  BY <3>2, <3>3
  <2>4. UNCHANGED ViewsSeen
    BY <1>4, <2>1, SeenUnchanged
  <2>5. Driver!Open(f, p)
    BY <2>1, <2>2, <2>3, <2>4 DEF Driver!Open
  <2> QED  BY <2>5 DEF Driver!Next
<1>7. ASSUME NEW f \in File, CleanupDelist(f) PROVE Goal
  <2>1. /\ handle[f] = "open" /\ handle' = [handle EXCEPT ![f] = "delisted"]
        /\ UNCHANGED << detached, stale, creator, mappings, threadVars >>
    BY <1>7 DEF CleanupDelist, fileVars
  <2>2. UNCHANGED ViewState
    BY <1>1, <2>1 DEF ViewState, DeviceType
  <2> QED  BY <1>3, <1>4, <2>1, <2>2 DEF RefusedHandles
<1>8. ASSUME NEW f \in File, CleanupMemory(f) PROVE Goal
  <2>1. /\ handle[f] = "delisted" /\ handle' = [handle EXCEPT ![f] = "freed"]
        /\ mappings' = [mappings EXCEPT ![f] = {}]
        /\ UNCHANGED << detached, stale, creator, threadVars >>
    BY <1>8 DEF CleanupMemory
  <2>2. ViewState[f] = "open" /\ ViewState' = [ViewState EXCEPT ![f] = "closed"]
    BY <1>1, <2>1 DEF ViewState, DeviceType
  <2>3. RefusedHandles' = RefusedHandles \ { f }
    <3>1. \A g \in File : ViewState'[g] = IF g = f THEN "closed" ELSE ViewState[g]
      BY <2>2 DEF ViewState
    <3> QED  BY <2>1, <3>1 DEF RefusedHandles
  <2>4. Unlinked(f, "UNMAP") = {} /\ \A g \in File : Unlinked(g, "UNMAP")' = Unlinked(g, "UNMAP")
    BY <1>1, <2>1 DEF Unlinked, threadVars, SyncInv, OpenInv
  <2>5. \A g \in File : Views(g)' = IF g = f THEN {} ELSE Views(g)
    BY <1>1, <2>1, <2>4 DEF Views, MemoryType
  <2>6. ViewsSeen' = [ViewsSeen EXCEPT ![f] = {}]
    <3>1. ViewsSeen' = [g \in File |-> { Seen(m) : m \in Views(g)' }]
      BY DEF ViewsSeen, Seen
    <3> QED  BY <2>5, <3>1 DEF ViewsSeen
  <2>7. Driver!Close(f)
    BY <2>1, <2>2, <2>3, <2>6 DEF Driver!Close, Driver!Opened
  <2> QED  BY <2>7 DEF Driver!Next
<1>9. ASSUME NEW f \in File, CleanupWindows(f) PROVE Goal
  <2>1. /\ handle[f] = "freed" /\ handle' = [handle EXCEPT ![f] = "closed"]
        /\ UNCHANGED << detached, stale, creator, mappings, threadVars >>
    BY <1>9 DEF CleanupWindows, fileVars
  <2>2. UNCHANGED ViewState
    BY <1>1, <2>1 DEF ViewState, DeviceType
  <2> QED  BY <1>3, <1>4, <2>1, <2>2 DEF RefusedHandles
<1>10. ASSUME NEW p \in Process, ProcessExit(p) PROVE Goal
  <2>1. PICK mine : mine = { f \in File : handle[f] = "open" /\ creator[f] = p }
    OBVIOUS
  <2>2. /\ mappings' = [f \in File |-> IF f \in mine THEN {} ELSE mappings[f]]
        /\ \A t \in Thread : pc[t] # "idle" /\ creator[req[t].file] = p => req[t].op \in QueuedOp
        /\ UNCHANGED << handle, detached, stale, creator, threadVars >>
    BY <1>10, <2>1 DEF ProcessExit
  <2>3. \A g \in File : Unlinked(g, "UNMAP")' = Unlinked(g, "UNMAP")
    BY <2>2 DEF Unlinked, threadVars
  <2>4. \A f \in mine : Unlinked(f, "UNMAP") = {}
    BY <2>1, <2>2 DEF Unlinked, QueuedOp
  <2>5. \A f \in File : Views(f)' = IF f \in mine THEN {} ELSE Views(f)
    BY <2>2, <2>3, <2>4 DEF Views
  <2>6. ViewsSeen' = [f \in File |-> IF f \in mine THEN {} ELSE ViewsSeen[f]]
    <3>1. ViewsSeen' = [g \in File |-> { Seen(m) : m \in Views(g)' }]
      BY DEF ViewsSeen, Seen
    <3> QED  BY <2>5, <3>1 DEF ViewsSeen
  <2>7. mine \subseteq { f \in Driver!Opened : creator[f] = p } /\ mine \in SUBSET File
    BY <2>1 DEF Driver!Opened, ViewState
  <2>8. Driver!Exit(p, mine)
    BY <2>2, <2>6, <2>7, HandlesUnchanged DEF Driver!Exit
  <2> QED  BY <2>7, <2>8 DEF Driver!Next
<1>11. ASSUME NEW f \in File, MayReset(f) PROVE f \in Driver!Opened \ RefusedHandles /\ ~detached
  BY <1>11 DEF MayReset, TtCheckIoGates, Driver!Opened, ViewState, RefusedHandles
<1>12. ASSUME NEW f \in File, NEW hw \in BOOLEAN, ResetAndBump(f, hw) PROVE Goal
  <2>1. /\ MayReset(f) /\ NoSharedHolder /\ ResetZapMappings
        /\ stale' = { g \in File : handle[g] # "none" } \ { f }
        /\ UNCHANGED << handle, creator, detached, threadVars >>
    BY <1>12 DEF ResetAndBump, MayReset
  <2>2. UNCHANGED ViewState
    BY <2>1 DEF ViewState
  <2>3. RefusedHandles' = Driver!Opened \ { f }
    BY <1>11, <2>1, <2>2 DEF RefusedHandles, Driver!Opened, ViewState
  <2>4. { f } \in SUBSET File /\ { f } \subseteq Driver!Opened \ RefusedHandles
    BY <1>11, <2>1
  <2> QED  BY <2>1, <2>3, <2>4, ZapIsReset
<1>13. ASSUME NEW f \in File, ResetPcieLink(f) PROVE Goal
  <2>1. /\ NoSharedHolder /\ ResetZapMappings
        /\ UNCHANGED << handle, creator, detached, stale, threadVars >>
    BY <1>13 DEF ResetPcieLink, MayReset, deviceVars
  <2>2. UNCHANGED RefusedHandles
    BY <2>1, HandlesUnchanged
  <2>3. RefusedHandles \subseteq Driver!Opened /\ Driver!Opened \in SUBSET File
    BY DEF RefusedHandles, Driver!Opened
  <2>4. RefusedHandles' = Driver!Opened \ (Driver!Opened \ RefusedHandles)
    BY <2>2, <2>3
  <2>5. Driver!Opened \ RefusedHandles \in SUBSET File
    BY <2>3
  <2> QED  BY <2>1, <2>4, <2>5, ZapIsReset
<1>14. ASSUME NEW f \in File, PostReset(f) PROVE Goal
  <2>1. UNCHANGED << handle, detached, stale, creator, mappings, threadVars >>
    BY <1>14 DEF PostReset, fileVars
  <2> QED  BY <1>3, <1>4, <2>1, HandlesUnchanged
<1>15. ASSUME SurpriseRemoval PROVE Goal
  <2>1. /\ NoSharedHolder /\ ResetZapMappings /\ detached' = TRUE
        /\ UNCHANGED << handle, creator, threadVars >>
    BY <1>15 DEF SurpriseRemoval
  <2>2. RefusedHandles' = Driver!Opened \ {}
    BY <2>1 DEF RefusedHandles, Driver!Opened, ViewState
  <2>3. {} \in SUBSET File /\ {} \subseteq Driver!Opened \ RefusedHandles
    OBVIOUS
  <2> QED  BY <2>1, <2>2, <2>3, ZapIsReset
<1>16. ASSUME UNCHANGED vars PROVE Goal
  <2>1. UNCHANGED << handle, detached, stale, creator, mappings, threadVars >>
    BY <1>16 DEF vars, threadVars
  <2> QED  BY <1>3, <1>4, <2>1, HandlesUnchanged
<1> HIDE DEF Goal
<1>17. Goal
  BY <1>2, <1>5, <1>6, <1>7, <1>8, <1>9, <1>10, <1>12, <1>13, <1>14, <1>15, <1>16
    DEF Next, ThreadStep
<1> QED  BY <1>17 DEF Goal

(* With synchronous handles, as the shim opens them, the driver serves views as
   ViewService promises, for any number of handles, processes and requests:
   however requests, cleanup, exits, resets and a removal interleave, a view is
   mapped and unmapped only for an open handle that is not refused, never at an
   address in use, and a reset takes device views and no buffer view.      *)
THEOREM DriverIsViewService ==
  ASSUME SyncFile = File
  PROVE  Spec => DriverServesViews
<1>1. Init => Driver!Init
  <2> SUFFICES ASSUME Init PROVE Driver!Init
    OBVIOUS
  <2>1. ViewState = [f \in File |-> "none"]
    BY DEF Init, ViewState
  <2>2. RefusedHandles = {}
    BY DEF Init, ViewState, RefusedHandles
  <2>3. ViewsSeen = [f \in File |-> {}]
    <3>1. \A f \in File : Views(f) = {}
      BY DEF Init, Views, Unlinked
    <3> QED  BY <3>1 DEF ViewsSeen
  <2> QED  BY <2>1, <2>2, <2>3 DEF Init, Driver!Init
<1>2. Init => ApartInv /\ OffListInv
  <2> SUFFICES ASSUME Init PROVE ApartInv /\ OffListInv
    OBVIOUS
  <2>1. \A f \in File : Views(f) = {}
    BY DEF Init, Views, Unlinked
  <2> QED  BY <2>1 DEF Init, ApartInv, Apart, OffListInv, OffList
<1>3. SyncInv /\ ApartInv /\ OffListInv /\ [Next]_vars => ApartInv' /\ OffListInv'
  BY ViewStep DEF ViewInv
<1>4. SyncInv /\ ApartInv /\ OffListInv /\ [Next]_vars => [Driver!Next]_(Driver!vars)
  BY DriverServiceStep DEF ViewInv
<1> QED  BY <1>1, <1>2, <1>3, <1>4, SyncInvariant, PTL DEF Spec, DriverServesViews, Driver!Spec
============================================================================
