------------------------- MODULE TtArcQueue_proofs -------------------------
(***************************************************************************)
(* Proofs about the ARC message queue of TtArcQueue for any number of      *)
(* senders and messages and any ring size for which the wrap of the UINT32 *)
(* arithmetic is harmless (WidthDivides).                                  *)
(***************************************************************************)
EXTENDS TtArcQueue, Integers, TLAPS

(***************************************************************************)
(* The arithmetic of the queue pointers.                                   *)
(***************************************************************************)

(* Quotient and remainder are unique.                                      *)
LEMMA ModUnique ==
  ASSUME NEW b \in Nat \ {0}, NEW q \in Int, NEW r \in Int, 0 <= r, r < b
  PROVE  (b * q + r) % b = r
OBVIOUS

(* Remainders of numbers up to three times the divisor.                    *)
LEMMA ModSmall ==
  ASSUME NEW b \in Nat \ {0}, NEW a \in Nat, a < 3 * b
  PROVE  a % b = IF a < b THEN a ELSE IF a < 2 * b THEN a - b ELSE a - 2 * b
OBVIOUS

(* The UINT32 arithmetic of the occupancy is the distance around the ring. *)
LEMMA OccupancyIs ==
  ASSUME WidthDivides, NEW w \in Pointer, NEW r \in Pointer
  PROVE  Occupancy(w, r) = IF r <= w THEN w - r ELSE w - r + 2 * NumEntries
<1> DEFINE M == 2 * NumEntries
<1>1. /\ M \in Nat \ {0} /\ Word \in Nat \ {0} /\ M < Word /\ Word % M = 0
      /\ w \in Nat /\ r \in Nat /\ w < M /\ r < M
  BY QueueAssumption DEF Pointer, WidthDivides
<1>m. M = 2 * NumEntries
  OBVIOUS
<1> HIDE DEF M
<1>2. Occupancy(w, r) = ((w + Word - r) % Word) % M
  BY <1>m DEF Occupancy
<1>3. CASE r <= w
  <2>1. PICK d \in Nat : d = w + Word - r
    BY <1>1, <1>3
  <2>2. PICK e \in Nat : e = w - r
    BY <1>1, <1>3
  <2>3. d % Word = e
    <3>1. Word <= d /\ d < 2 * Word /\ d - Word = e
      BY <1>1, <1>3, <2>1, <2>2
    <3> QED  BY <1>1, <3>1
  <2>4. e % M = e
    <3>1. e < M
      BY <1>1, <2>2
    <3> QED  BY <1>1, <3>1
  <2> QED  BY <1>2, <1>3, <1>m, <2>1, <2>2, <2>3, <2>4
<1>4. CASE w < r
  <2>1. PICK d \in Nat : d = w + Word - r
    BY <1>1, <1>4
  <2>2. d % Word = d
    <3>1. d < Word
      BY <1>1, <1>4, <2>1
    <3> QED  BY <1>1, <3>1
  <2>3. PICK k \in Int : Word = M * k
    BY <1>1
  <2>4. PICK q \in Int : q = k - 1
    OBVIOUS
  <2>5. PICK e \in Nat : e = w - r + M
    BY <1>1, <1>4
  <2>6. M * q = M * k - M
    BY <1>1, <2>4
  <2>7. d = M * q + e
    BY <1>1, <2>1, <2>3, <2>5, <2>6
  <2>8. 0 <= e /\ e < M
    BY <1>1, <1>4, <2>5
  <2>9. d % M = e
    BY <1>1, <2>7, <2>8, ModUnique
  <2> QED  BY <1>1, <1>2, <1>4, <1>m, <2>1, <2>2, <2>5, <2>9
<1> QED  BY <1>1, <1>3, <1>4

(* Advancing a pointer.                                                    *)
LEMMA AdvanceIs ==
  ASSUME NEW p \in Pointer
  PROVE  /\ Advance(p) = IF p + 1 = 2 * NumEntries THEN 0 ELSE p + 1
         /\ Advance(p) \in Pointer
<1>1. NumEntries \in Nat \ {0} /\ p \in Nat /\ p < 2 * NumEntries
  BY QueueAssumption DEF Pointer
<1>2. PICK d \in Nat : d = p + 1
  BY <1>1
<1>3. PICK M \in Nat \ {0} : M = 2 * NumEntries
  BY <1>1
<1>4. d % M = IF d = M THEN 0 ELSE d
  <2>1. d <= M
    BY <1>1, <1>2, <1>3
  <2> QED  BY <2>1
<1> QED  BY <1>1, <1>2, <1>3, <1>4 DEF Advance, Pointer

(* What the occupancy does when a pointer advances.                        *)
LEMMA OccupancyFacts ==
  ASSUME WidthDivides, NEW w \in Pointer, NEW r \in Pointer
  PROVE  /\ Occupancy(w, r) \in 0 .. 2 * NumEntries - 1
         /\ Occupancy(w, r) = 0 <=> w = r
         /\ Occupancy(w, r) < NumEntries => Occupancy(Advance(w), r) = Occupancy(w, r) + 1
         /\ Occupancy(w, r) > 0 => Occupancy(w, Advance(r)) = Occupancy(w, r) - 1
<1>1. NumEntries \in Nat \ {0} /\ w \in Nat /\ w < 2 * NumEntries /\ r \in Nat /\ r < 2 * NumEntries
  BY QueueAssumption DEF Pointer
<1>2. Occupancy(w, r) = IF r <= w THEN w - r ELSE w - r + 2 * NumEntries
  BY OccupancyIs
<1>3. /\ Advance(w) = IF w + 1 = 2 * NumEntries THEN 0 ELSE w + 1
      /\ Advance(r) = IF r + 1 = 2 * NumEntries THEN 0 ELSE r + 1
      /\ Advance(w) \in Pointer /\ Advance(r) \in Pointer
  BY AdvanceIs
<1>4. Occupancy(Advance(w), r) = IF r <= Advance(w) THEN Advance(w) - r
                                 ELSE Advance(w) - r + 2 * NumEntries
  BY <1>3, OccupancyIs
<1>5. Occupancy(w, Advance(r)) = IF Advance(r) <= w THEN w - Advance(r)
                                 ELSE w - Advance(r) + 2 * NumEntries
  BY <1>3, OccupancyIs
<1>6. Occupancy(w, r) \in 0 .. 2 * NumEntries - 1 /\ (Occupancy(w, r) = 0 <=> w = r)
  BY <1>1, <1>2
<1>7. Occupancy(w, r) < NumEntries => Occupancy(Advance(w), r) = Occupancy(w, r) + 1
  BY <1>1, <1>2, <1>3, <1>4
<1>8. Occupancy(w, r) > 0 => Occupancy(w, Advance(r)) = Occupancy(w, r) - 1
  BY <1>1, <1>2, <1>3, <1>5
<1> QED  BY <1>6, <1>7, <1>8

(* Where the entries of a ring are: i entries after the read pointer.      *)
LEMMA SlotFacts ==
  ASSUME WidthDivides, NEW w \in Pointer, NEW r \in Pointer
  PROVE  /\ w % NumEntries \in Slot
         /\ \A i \in 0 .. NumEntries : (r + i) % NumEntries \in Slot
         /\ Occupancy(w, r) <= NumEntries =>
              (r + Occupancy(w, r)) % NumEntries = w % NumEntries
         /\ \A i, j \in 0 .. NumEntries - 1 :
              i # j => (r + i) % NumEntries # (r + j) % NumEntries
         /\ \A i \in 0 .. NumEntries - 1 :
              (Advance(r) + i) % NumEntries = (r + (i + 1)) % NumEntries
<1>1. NumEntries \in Nat \ {0} /\ w \in Nat /\ w < 2 * NumEntries /\ r \in Nat /\ r < 2 * NumEntries
  BY QueueAssumption DEF Pointer
<1>2. Occupancy(w, r) = IF r <= w THEN w - r ELSE w - r + 2 * NumEntries
  BY OccupancyIs
<1>3. Advance(r) = IF r + 1 = 2 * NumEntries THEN 0 ELSE r + 1
  BY AdvanceIs
<1> DEFINE Rem(a) == IF a < NumEntries THEN a
                     ELSE IF a < 2 * NumEntries THEN a - NumEntries ELSE a - 2 * NumEntries
<1>4. \A a \in Nat : a < 3 * NumEntries => a % NumEntries = Rem(a)
  BY <1>1, ModSmall
<1>5. w % NumEntries \in Slot
  BY <1>1, <1>4 DEF Slot
<1>6. \A i \in 0 .. NumEntries : r + i \in Nat /\ r + i < 3 * NumEntries
  BY <1>1
<1>7. \A i \in 0 .. NumEntries : (r + i) % NumEntries = Rem(r + i)
  BY <1>4, <1>6
<1>8. \A i \in 0 .. NumEntries : (r + i) % NumEntries \in Slot
  BY <1>1, <1>7 DEF Slot
<1>9. ASSUME Occupancy(w, r) <= NumEntries
      PROVE  (r + Occupancy(w, r)) % NumEntries = w % NumEntries
  <2>1. Occupancy(w, r) \in 0 .. NumEntries /\ (r + Occupancy(w, r) = w \/ r + Occupancy(w, r) = w + 2 * NumEntries)
    BY <1>1, <1>2, <1>9
  <2>2. Rem(r + Occupancy(w, r)) = Rem(w)
    BY <1>1, <2>1
  <2> QED  BY <1>1, <1>4, <1>7, <2>1, <2>2
<1>10. ASSUME NEW i \in 0 .. NumEntries - 1, NEW j \in 0 .. NumEntries - 1, i # j
       PROVE  (r + i) % NumEntries # (r + j) % NumEntries
  <2>1. Rem(r + i) # Rem(r + j)
    BY <1>1, <1>10
  <2> QED  BY <1>1, <1>7, <2>1
<1>11. ASSUME NEW i \in 0 .. NumEntries - 1
       PROVE  (Advance(r) + i) % NumEntries = (r + (i + 1)) % NumEntries
  <2>1. Advance(r) + i \in Nat /\ Advance(r) + i < 3 * NumEntries /\ i + 1 \in 0 .. NumEntries
    BY <1>1, <1>3
  <2>2. Rem(Advance(r) + i) = Rem(r + (i + 1))
    BY <1>1, <1>3
  <2> QED  BY <1>4, <1>7, <2>1, <2>2
<1> QED  BY <1>5, <1>8, <1>9, <1>10, <1>11

-----------------------------------------------------------------------------
(***************************************************************************)
(* The invariant.                                                          *)
(***************************************************************************)
SenderType ==
  /\ lock \in Sender \cup {NONE}
  /\ pc \in [Sender -> {"idle", "ready", "push", "publish", "doorbell", "pop",
                        "popped"}]
  /\ ptr \in [Sender -> Pointer]
  /\ mine \in [Sender -> Nat]
  /\ got \in [Sender -> Nat]
  /\ abandoned \in BOOLEAN
QueueType ==
  /\ reqW \in Pointer /\ reqR \in Pointer /\ resW \in Pointer /\ resR \in Pointer
  /\ req \in [Slot -> Nat]
  /\ res \in [Slot -> Nat]
  /\ pushed \in Nat
  /\ answered \in Nat
TypeInv == SenderType /\ QueueType

(* ArcMsgLock: a transaction has the queue to itself among the senders.    *)
LockInv == \A s \in Sender : pc[s] # "idle" => lock = s

(* The pointer a sender has read is still the one in the queue, and what it
   found there still holds: firmware only makes space and adds responses.  *)
ReadInv ==
  \A s \in Sender :
    /\ pc[s] \in {"push", "publish"} => ptr[s] = reqW
    /\ pc[s] \in {"pop", "popped"} => ptr[s] = resR
    /\ pc[s] = "publish" => /\ Occupancy(reqW, reqR) < NumEntries
                            /\ req[reqW % NumEntries] = pushed + 1
    /\ pc[s] = "popped" => Occupancy(resW, resR) > 0

RingInv == TypeInv /\ LockInv /\ ReadInv /\ RequestRing /\ ResponseRing

(* Responses that no sender has taken yet.                                 *)
Unread == Occupancy(resW, resR)

-----------------------------------------------------------------------------
(* Initially the invariant holds.                                          *)
LEMMA RingInit ==
  ASSUME WidthDivides
  PROVE  Init => RingInv
<1> SUFFICES ASSUME Init PROVE RingInv
  OBVIOUS
<1>0. NumEntries \in Nat \ {0} /\ 0 \in Pointer
  BY QueueAssumption DEF Pointer
<1>1. SenderType
  BY <1>0 DEF Init, SenderType
<1>2. QueueType
  BY DEF Init, QueueType
<1>3. LockInv /\ ReadInv
  BY DEF Init, LockInv, ReadInv
<1>4. Occupancy(reqW, reqR) = 0 /\ Occupancy(resW, resR) = 0
  BY <1>2, OccupancyFacts DEF Init, QueueType
<1>5. RequestRing /\ ResponseRing
  BY <1>0, <1>4 DEF Init, RequestRing, ResponseRing
<1> QED  BY <1>1, <1>2, <1>3, <1>5 DEF RingInv, TypeInv

(* Writing the slot behind the last entry of a ring that is not full leaves
   its entries alone.                                                      *)
LEMMA WriteBehind ==
  ASSUME WidthDivides, NEW w \in Pointer, NEW r \in Pointer, Occupancy(w, r) < NumEntries,
         NEW ring \in [Slot -> Nat], NEW x \in Nat
  PROVE  \A i \in 0 .. Occupancy(w, r) - 1 :
           [ring EXCEPT ![w % NumEntries] = x][(r + i) % NumEntries]
             = ring[(r + i) % NumEntries]
<1> SUFFICES ASSUME NEW i \in 0 .. Occupancy(w, r) - 1
             PROVE  [ring EXCEPT ![w % NumEntries] = x][(r + i) % NumEntries]
                      = ring[(r + i) % NumEntries]
  OBVIOUS
<1>1. NumEntries \in Nat \ {0} /\ Occupancy(w, r) \in Nat
  BY QueueAssumption, OccupancyFacts
<1>2. PICK k \in 0 .. NumEntries - 1 : k = Occupancy(w, r)
  BY <1>1
<1>3. i \in 0 .. NumEntries - 1 /\ i # k
  BY <1>1, <1>2
<1>4. (r + k) % NumEntries = w % NumEntries
  BY <1>1, <1>2, SlotFacts
<1>5. (r + i) % NumEntries # (r + k) % NumEntries
  BY <1>2, <1>3, SlotFacts
<1>6. (r + i) % NumEntries \in Slot
  BY <1>1, <1>3, SlotFacts
<1> QED  BY <1>4, <1>5, <1>6

(* The entry a ring gains when the writer advances.                        *)
LEMMA GainEntry ==
  ASSUME WidthDivides, NEW w \in Pointer, NEW r \in Pointer, Occupancy(w, r) < NumEntries,
         NEW ring, NEW base \in Int,
         \A i \in 0 .. Occupancy(w, r) - 1 : ring[(r + i) % NumEntries] = base + i,
         ring[w % NumEntries] = base + Occupancy(w, r)
  PROVE  /\ Occupancy(Advance(w), r) = Occupancy(w, r) + 1
         /\ \A i \in 0 .. Occupancy(Advance(w), r) - 1 : ring[(r + i) % NumEntries] = base + i
<1>1. NumEntries \in Nat \ {0} /\ Occupancy(w, r) \in Nat
  BY QueueAssumption, OccupancyFacts
<1>2. Occupancy(Advance(w), r) = Occupancy(w, r) + 1
  BY OccupancyFacts
<1>3. (r + Occupancy(w, r)) % NumEntries = w % NumEntries
  BY <1>1, SlotFacts
<1>4. ASSUME NEW i \in 0 .. Occupancy(Advance(w), r) - 1
      PROVE  ring[(r + i) % NumEntries] = base + i
  <2>1. i \in 0 .. Occupancy(w, r) - 1 \/ i = Occupancy(w, r)
    BY <1>1, <1>2
  <2> QED  BY <1>3, <2>1
<1> QED  BY <1>2, <1>4

(* A ring with these pointers holds consecutive messages from base on.     *)
Holds(ring, w, r, base) ==
  \A i \in 0 .. Occupancy(w, r) - 1 : ring[(r + i) % NumEntries] = base + i

(* The entry a ring loses when the reader advances is the oldest.          *)
LEMMA LoseEntry ==
  ASSUME WidthDivides, NEW w \in Pointer, NEW r \in Pointer,
         NEW next \in Pointer, next = Advance(r),
         Occupancy(w, r) > 0, Occupancy(w, r) <= NumEntries,
         NEW ring \in [Slot -> Nat], NEW base \in Int,
         Holds(ring, w, r, base)
  PROVE  /\ Occupancy(w, next) = Occupancy(w, r) - 1
         /\ ring[r % NumEntries] = base
         /\ Holds(ring, w, next, base + 1)
<1>1. NumEntries \in Nat \ {0} /\ Occupancy(w, r) \in Nat /\ r \in Int
  BY QueueAssumption, OccupancyFacts DEF Pointer
<1>2. Occupancy(w, next) = Occupancy(w, r) - 1
  BY OccupancyFacts
<1>3. ring[r % NumEntries] = base
  <2>1. ring[(r + 0) % NumEntries] = base + 0
    BY <1>1 DEF Holds
  <2> QED  BY <1>1, <2>1
<1>4. ASSUME NEW i \in 0 .. Occupancy(w, next) - 1
      PROVE  ring[(next + i) % NumEntries] = base + 1 + i
  <2>1. i \in 0 .. NumEntries - 1 /\ i + 1 \in 0 .. Occupancy(w, r) - 1
    BY <1>1, <1>2
  <2>2. (next + i) % NumEntries = (r + (i + 1)) % NumEntries
    BY <2>1, SlotFacts
  <2>3. ring[(r + (i + 1)) % NumEntries] = base + (i + 1)
    BY <2>1 DEF Holds
  <2> QED  BY <2>1, <2>2, <2>3
<1> QED  BY <1>2, <1>3, <1>4 DEF Holds

-----------------------------------------------------------------------------
(* A sender inside a transaction is alone in it.                           *)
LEMMA OthersIdle ==
  ASSUME TypeInv, LockInv, NEW s \in Sender
  PROVE  /\ pc[s] # "idle" => \A u \in Sender : u # s => pc[u] = "idle"
         /\ lock = NONE => \A u \in Sender : pc[u] = "idle"
BY QueueAssumption DEF LockInv, TypeInv, SenderType

(* A sender's step keeps the types of the sender's state, the lock and the
   facts about the other senders.                                          *)
LEMMA SenderKeeps ==
  ASSUME WidthDivides, RingInv, NEW s \in Sender, Acquire(s) \/ Send(s) \/ GiveUp(s)
  PROVE  SenderType' /\ LockInv' /\ \A u \in Sender : u # s => pc'[u] = "idle"
<1>0. /\ SenderType /\ QueueType /\ LockInv
      /\ lock \in Sender \cup {NONE}
      /\ pc \in [Sender -> {"idle", "ready", "push", "publish", "doorbell",
                            "pop", "popped"}]
  BY DEF RingInv, TypeInv, SenderType
<1>1. pc[s] # "idle" \/ lock = NONE
  BY DEF Acquire, Send, GiveUp, Ready, PushEntry, PublishWptr, Doorbell, PopEntry, Finish
<1>2. \A u \in Sender : u # s => pc[u] = "idle"
  BY <1>1, OthersIdle DEF RingInv
<1>3. CASE Acquire(s)
  BY <1>0, <1>2, <1>3 DEF Acquire, SenderType, LockInv
<1>4. CASE Ready(s)
  BY <1>0, <1>2, <1>4 DEF Ready, SenderType, QueueType, LockInv
<1>5. CASE PushEntry(s)
  BY <1>0, <1>2, <1>5 DEF PushEntry, SenderType, LockInv
<1>6. CASE PublishWptr(s)
  BY <1>0, <1>2, <1>6 DEF PublishWptr, SenderType, QueueType, LockInv
<1>7. CASE Doorbell(s)
  BY <1>0, <1>2, <1>7 DEF Doorbell, SenderType, QueueType, LockInv
<1>8. CASE PopEntry(s)
  <2>1. ptr[s] \in Pointer
    BY <1>0 DEF SenderType
  <2>2. res[ptr[s] % NumEntries] \in Nat
    BY <1>0, <2>1, SlotFacts DEF QueueType
  <2> QED  BY <1>0, <1>2, <1>8, <2>2 DEF PopEntry, SenderType, LockInv
<1>9. CASE Finish(s)
  BY <1>0, <1>2, <1>9 DEF Finish, SenderType, LockInv
<1>10. CASE GiveUp(s)
  BY <1>0, <1>2, <1>10 DEF GiveUp, SenderType, LockInv
<1> QED  BY <1>3, <1>4, <1>5, <1>6, <1>7, <1>8, <1>9, <1>10 DEF Send

(* A step that leaves both rings alone keeps what they hold.               *)
LEMMA RingsAlone ==
  ASSUME WidthDivides, RingInv,
         UNCHANGED <<reqW, reqR, resW, resR, req, res, pushed, answered>>
  PROVE  QueueType' /\ RequestRing' /\ ResponseRing'
<1>1. QueueType /\ RequestRing /\ ResponseRing
  BY DEF RingInv, TypeInv
<1>2. QueueType'
  BY <1>1 DEF QueueType
<1>3. RequestRing'
  BY <1>1 DEF RequestRing, Occupancy
<1>4. ResponseRing'
  BY <1>1 DEF ResponseRing, Occupancy
<1> QED  BY <1>2, <1>3, <1>4

(* What a sender knows of the queue, for the one sender that is not idle.  *)
LEMMA ReadStep ==
  ASSUME WidthDivides, RingInv, NEW s \in Sender, Acquire(s) \/ Send(s) \/ GiveUp(s),
         SenderType', \A u \in Sender : u # s => pc'[u] = "idle"
  PROVE  ReadInv'
<1>0. /\ SenderType /\ QueueType /\ ReadInv
      /\ pc \in [Sender -> {"idle", "ready", "push", "publish", "doorbell",
                            "pop", "popped"}]
      /\ ptr \in [Sender -> Pointer]
  BY DEF RingInv, TypeInv, SenderType
<1> DEFINE Reads(u) ==
      /\ pc[u] \in {"push", "publish"} => ptr[u] = reqW
      /\ pc[u] \in {"pop", "popped"} => ptr[u] = resR
      /\ pc[u] = "publish" => /\ Occupancy(reqW, reqR) < NumEntries
                              /\ req[reqW % NumEntries] = pushed + 1
      /\ pc[u] = "popped" => Occupancy(resW, resR) > 0
<1>1. Reads(s)
  BY <1>0 DEF ReadInv
<1> SUFFICES Reads(s)'
  BY DEF ReadInv
<1>2. CASE Acquire(s) \/ Finish(s) \/ GiveUp(s)
  BY <1>0, <1>2 DEF Acquire, Finish, GiveUp
<1>3. CASE Ready(s)
  BY <1>0, <1>3 DEF Ready
<1>4. CASE PushEntry(s)
  <2>1. /\ pc'[s] = "publish" /\ ptr'[s] = reqW /\ ptr[s] = reqW
        /\ UNCHANGED <<reqW, reqR, pushed>>
        /\ Occupancy(reqW, reqR) < NumEntries
        /\ req' = [req EXCEPT ![reqW % NumEntries] = pushed + 1]
    BY <1>0, <1>1, <1>4 DEF PushEntry
  <2>2. reqW % NumEntries \in Slot
    BY <1>0, SlotFacts DEF QueueType
  <2>3. req'[reqW % NumEntries] = pushed + 1
    BY <1>0, <2>1, <2>2 DEF QueueType
  <2>4. Occupancy(reqW, reqR)' < NumEntries
    BY <2>1 DEF Occupancy
  <2> QED  BY <2>1, <2>3, <2>4
<1>5. CASE PublishWptr(s)
  BY <1>0, <1>5 DEF PublishWptr
<1>6. CASE Doorbell(s)
  BY <1>0, <1>6 DEF Doorbell
<1>7. CASE PopEntry(s)
  <2>1. /\ pc'[s] = "popped" /\ ptr'[s] = resR' /\ ptr[s] = resR
        /\ UNCHANGED <<resW, resR>>
        /\ Occupancy(resW, resR) > 0
    BY <1>0, <1>1, <1>7 DEF PopEntry
  <2>2. Occupancy(resW, resR)' > 0
    BY <2>1 DEF Occupancy
  <2> QED  BY <2>1, <2>2
<1> QED  BY <1>2, <1>3, <1>4, <1>5, <1>6, <1>7 DEF Send

(* The rings through a sender's step.                                      *)
LEMMA SenderRings ==
  ASSUME WidthDivides, RingInv, NEW s \in Sender, Acquire(s) \/ Send(s) \/ GiveUp(s)
  PROVE  QueueType' /\ RequestRing' /\ ResponseRing'
<1>0. /\ SenderType /\ QueueType /\ ReadInv /\ RequestRing /\ ResponseRing
      /\ ptr \in [Sender -> Pointer] /\ NumEntries \in Nat \ {0}
      /\ reqW \in Pointer /\ reqR \in Pointer /\ resW \in Pointer /\ resR \in Pointer
      /\ pushed \in Nat /\ answered \in Nat /\ req \in [Slot -> Nat]
      /\ res \in [Slot -> Nat]
  BY QueueAssumption DEF RingInv, TypeInv, SenderType, QueueType
<1>r. PICK w \in Pointer, r \in Pointer, wait \in Nat :
        w = reqW /\ r = reqR /\ wait = Occupancy(w, r)
  BY <1>0, OccupancyFacts
<1>q. PICK x \in Pointer, y \in Pointer, unread \in Nat :
        x = resW /\ y = resR /\ unread = Occupancy(x, y)
  BY <1>0, OccupancyFacts
<1>a. /\ wait = pushed - answered /\ wait <= NumEntries
      /\ \A i \in 0 .. wait - 1 : req[(r + i) % NumEntries] = answered + 1 + i
  BY <1>0, <1>r DEF RequestRing
<1>b. /\ unread <= NumEntries
      /\ \A i \in 0 .. unread - 1 : res[(y + i) % NumEntries] = answered - unread + 1 + i
  BY <1>0, <1>q DEF ResponseRing
<1>1. CASE Acquire(s) \/ Ready(s) \/ Doorbell(s) \/ PopEntry(s) \/ GiveUp(s)
  <2>1. UNCHANGED <<reqW, reqR, resW, resR, req, res, pushed, answered>>
    BY <1>1 DEF Acquire, Ready, Doorbell, PopEntry, GiveUp
  <2> QED  BY <2>1, RingsAlone
<1>2. CASE PushEntry(s)
  <2>1. /\ ptr[s] = w /\ wait < NumEntries
        /\ UNCHANGED <<reqW, reqR, resW, resR, res, pushed, answered>>
        /\ req' = [req EXCEPT ![w % NumEntries] = pushed + 1]
    BY <1>0, <1>2, <1>r DEF PushEntry, ReadInv
  <2>2. PICK ring \in [Slot -> Nat], n \in Nat : ring = req /\ n = pushed + 1
    BY <1>0
  <2>3. \A i \in 0 .. wait - 1 :
          [ring EXCEPT ![w % NumEntries] = n][(r + i) % NumEntries]
            = ring[(r + i) % NumEntries]
    <3>1. Occupancy(w, r) < NumEntries
      BY <1>r, <2>1
    <3>2. \A i \in 0 .. Occupancy(w, r) - 1 :
            [ring EXCEPT ![w % NumEntries] = n][(r + i) % NumEntries]
              = ring[(r + i) % NumEntries]
      BY <3>1, WriteBehind
    <3> QED  BY <1>r, <3>2
  <2>4. RequestRing'
    <3>1. Occupancy(reqW, reqR)' = wait
      BY <1>r, <2>1 DEF Occupancy
    <3>2. \A i \in 0 .. wait - 1 : req'[(r + i) % NumEntries] = answered + 1 + i
      BY <1>a, <2>1, <2>2, <2>3
    <3> QED  BY <1>a, <1>r, <2>1, <3>1, <3>2 DEF RequestRing
  <2>5. ResponseRing'
    <3>1. Occupancy(resW, resR)' = unread
      BY <1>q, <2>1 DEF Occupancy
    <3> QED  BY <1>b, <1>q, <2>1, <3>1 DEF ResponseRing
  <2>6. QueueType'
    <3>1. req' = [ring EXCEPT ![w % NumEntries] = n]
      BY <2>1, <2>2
    <3>2. [ring EXCEPT ![w % NumEntries] = n] \in [Slot -> Nat]
      OBVIOUS
    <3> QED  BY <1>0, <2>1, <3>1, <3>2 DEF QueueType
  <2> QED  BY <2>4, <2>5, <2>6
<1>3. CASE PublishWptr(s)
  <2>1. /\ ptr[s] = w /\ wait < NumEntries /\ reqW' = Advance(w)
        /\ UNCHANGED <<reqR, resW, resR, req, res, answered>>
        /\ pushed' = pushed + 1 /\ req[w % NumEntries] = pushed + 1
    BY <1>0, <1>3, <1>r DEF PublishWptr, ReadInv
  <2>2. PICK ring \in [Slot -> Nat], base \in Int : ring = req /\ base = answered + 1
    BY <1>0
  <2>3. /\ \A i \in 0 .. wait - 1 : ring[(r + i) % NumEntries] = base + i
        /\ ring[w % NumEntries] = base + wait
    BY <1>0, <1>a, <2>1, <2>2
  <2>4. /\ Occupancy(Advance(w), r) = wait + 1
        /\ \A i \in 0 .. Occupancy(Advance(w), r) - 1 : ring[(r + i) % NumEntries] = base + i
    BY <1>r, <2>1, <2>3, GainEntry
  <2>5. RequestRing'
    <3>1. Occupancy(reqW, reqR)' = wait + 1
      BY <1>r, <2>1, <2>4 DEF Occupancy
    <3>2. \A i \in 0 .. wait : req[(r + i) % NumEntries] = answered + 1 + i
      BY <2>2, <2>4
    <3> QED  BY <1>0, <1>a, <1>r, <2>1, <3>1, <3>2 DEF RequestRing
  <2>6. ResponseRing'
    <3>1. Occupancy(resW, resR)' = unread
      BY <1>q, <2>1 DEF Occupancy
    <3> QED  BY <1>b, <1>q, <2>1, <3>1 DEF ResponseRing
  <2>7. QueueType'
    <3>1. Advance(w) \in Pointer
      BY AdvanceIs
    <3> QED  BY <1>0, <2>1, <3>1 DEF QueueType
  <2> QED  BY <2>5, <2>6, <2>7
<1>4. CASE Finish(s)
  <2>1. /\ ptr[s] = y /\ unread > 0 /\ resR' = Advance(y)
        /\ UNCHANGED <<reqW, reqR, resW, req, res, pushed, answered>>
    BY <1>0, <1>4, <1>q DEF Finish, ReadInv
  <2>2. PICK ring \in [Slot -> Nat], base \in Int : ring = res /\ base = answered - unread + 1
    BY <1>0
  <2>3. \A i \in 0 .. unread - 1 : ring[(y + i) % NumEntries] = base + i
    BY <1>b, <2>2
  <2>z. PICK z \in Pointer : z = Advance(y)
    BY AdvanceIs
  <2>4. /\ Occupancy(x, z) = unread - 1
        /\ \A i \in 0 .. Occupancy(x, z) - 1 : ring[(z + i) % NumEntries] = base + 1 + i
    <3>1. Occupancy(x, y) > 0 /\ Occupancy(x, y) <= NumEntries
      BY <1>b, <1>q, <2>1
    <3>2. Holds(ring, x, y, base)
      BY <1>q, <2>3 DEF Holds
    <3>3. Occupancy(x, z) = Occupancy(x, y) - 1
      BY <2>z, <3>1, OccupancyFacts
    <3>4. Holds(ring, x, z, base + 1)
      BY <2>z, <3>1, <3>2, LoseEntry
    <3> QED  BY <1>q, <3>3, <3>4 DEF Holds
  <2>5. ResponseRing'
    <3>1. Occupancy(resW, resR)' = unread - 1
      BY <1>q, <2>1, <2>z, <2>4 DEF Occupancy
    <3>2. \A i \in 0 .. (unread - 1) - 1 :
            res[(z + i) % NumEntries] = answered - (unread - 1) + 1 + i
      BY <1>0, <2>2, <2>4
    <3> QED  BY <1>0, <1>b, <2>1, <2>z, <3>1, <3>2 DEF ResponseRing
  <2>6. RequestRing'
    <3>1. Occupancy(reqW, reqR)' = wait
      BY <1>r, <2>1 DEF Occupancy
    <3> QED  BY <1>a, <1>r, <2>1, <3>1 DEF RequestRing
  <2>7. QueueType'
    <3>1. Advance(y) \in Pointer
      BY AdvanceIs
    <3> QED  BY <1>0, <2>1, <3>1 DEF QueueType
  <2> QED  BY <2>5, <2>6, <2>7
<1> QED  BY <1>1, <1>2, <1>3, <1>4 DEF Send

(* The rings through a step of firmware: one entry leaves the request ring
   and its answer joins the response ring.                                 *)
LEMMA FirmwareStep ==
  ASSUME WidthDivides, RingInv, FirmwareAnswers
  PROVE  RingInv'
<1>0. /\ SenderType /\ QueueType /\ LockInv /\ ReadInv /\ RequestRing /\ ResponseRing
      /\ NumEntries \in Nat \ {0}
      /\ reqW \in Pointer /\ reqR \in Pointer /\ resW \in Pointer /\ resR \in Pointer
      /\ pushed \in Nat /\ answered \in Nat /\ req \in [Slot -> Nat]
      /\ res \in [Slot -> Nat]
  BY QueueAssumption DEF RingInv, TypeInv, QueueType
<1>r. PICK w \in Pointer, r \in Pointer, wait \in Nat :
        w = reqW /\ r = reqR /\ wait = Occupancy(w, r)
  BY <1>0, OccupancyFacts
<1>q. PICK x \in Pointer, y \in Pointer, unread \in Nat :
        x = resW /\ y = resR /\ unread = Occupancy(x, y)
  BY <1>0, OccupancyFacts
<1>a. /\ wait = pushed - answered /\ wait <= NumEntries
      /\ \A i \in 0 .. wait - 1 : req[(r + i) % NumEntries] = answered + 1 + i
  BY <1>0, <1>r DEF RequestRing
<1>b. /\ unread <= NumEntries
      /\ \A i \in 0 .. unread - 1 : res[(y + i) % NumEntries] = answered - unread + 1 + i
  BY <1>0, <1>q DEF ResponseRing
<1>1. /\ w # r /\ unread < NumEntries
      /\ res' = [res EXCEPT ![x % NumEntries] = req[r % NumEntries]]
      /\ resW' = Advance(x) /\ reqR' = Advance(r) /\ answered' = answered + 1
      /\ UNCHANGED <<lock, pc, ptr, mine, got, reqW, resR, req, pushed, abandoned>>
  BY <1>r, <1>q DEF FirmwareAnswers, local
<1>2. wait > 0
  BY <1>r, <1>1, OccupancyFacts
<1>3. PICK first \in Int : first = answered + 1
  BY <1>0
<1>4. PICK from \in [Slot -> Nat] : from = req
  BY <1>0
<1>n. PICK r2 \in Pointer, x2 \in Pointer : r2 = Advance(r) /\ x2 = Advance(x)
  BY AdvanceIs
<1>5. /\ Occupancy(w, r2) = wait - 1
      /\ from[r % NumEntries] = first
      /\ \A i \in 0 .. Occupancy(w, r2) - 1 : from[(r2 + i) % NumEntries] = first + 1 + i
  <2>1. Occupancy(w, r) > 0 /\ Occupancy(w, r) <= NumEntries
    BY <1>a, <1>r, <1>2
  <2>2. Holds(from, w, r, first)
    BY <1>r, <1>a, <1>3, <1>4 DEF Holds
  <2>3. Occupancy(w, r2) = Occupancy(w, r) - 1
    BY <1>n, <2>1, OccupancyFacts
  <2>4. from[r % NumEntries] = first
    BY <1>n, <2>1, <2>2, LoseEntry
  <2>5. Holds(from, w, r2, first + 1)
    BY <1>n, <2>1, <2>2, LoseEntry
  <2> QED  BY <1>r, <2>3, <2>4, <2>5 DEF Holds
<1>6. PICK ring \in [Slot -> Nat], n \in Nat, base \in Int :
        ring = res /\ n = answered + 1 /\ base = answered - unread + 1
  BY <1>0
<1>7. PICK after \in [Slot -> Nat] : after = [ring EXCEPT ![x % NumEntries] = n]
  OBVIOUS
<1>8. res' = after
  BY <1>1, <1>3, <1>4, <1>5, <1>6, <1>7
<1>9. Occupancy(x, y) < NumEntries
  BY <1>q, <1>1
<1>10. \A i \in 0 .. Occupancy(x, y) - 1 : after[(y + i) % NumEntries] = base + i
  <2>1. \A i \in 0 .. Occupancy(x, y) - 1 :
          [ring EXCEPT ![x % NumEntries] = n][(y + i) % NumEntries]
            = ring[(y + i) % NumEntries]
    BY <1>9, WriteBehind
  <2> QED  BY <1>b, <1>q, <1>6, <1>7, <2>1
<1>11. after[x % NumEntries] = base + Occupancy(x, y)
  <2>1. x % NumEntries \in Slot
    BY SlotFacts
  <2>2. after[x % NumEntries] = n
    BY <1>7, <2>1
  <2>3. n = base + unread
    BY <1>0, <1>6
  <2> QED  BY <1>q, <2>2, <2>3
<1>12. /\ Occupancy(Advance(x), y) = unread + 1
       /\ \A i \in 0 .. Occupancy(Advance(x), y) - 1 : after[(y + i) % NumEntries] = base + i
  <2>1. Occupancy(Advance(x), y) = Occupancy(x, y) + 1
    BY <1>9, OccupancyFacts
  <2>2. \A i \in 0 .. Occupancy(Advance(x), y) - 1 : after[(y + i) % NumEntries] = base + i
    BY <1>9, <1>10, <1>11, GainEntry
  <2> QED  BY <1>q, <2>1, <2>2
<1>14. Occupancy(reqW, reqR)' = wait - 1 /\ Occupancy(resW, resR)' = unread + 1
  BY <1>r, <1>q, <1>1, <1>n, <1>5, <1>12 DEF Occupancy
<1>15. RequestRing'
  <2>1. \A i \in 0 .. (wait - 1) - 1 : req[(r2 + i) % NumEntries] = (answered + 1) + 1 + i
    BY <1>3, <1>4, <1>5
  <2>2. wait - 1 = pushed - (answered + 1) /\ wait - 1 <= NumEntries
    BY <1>0, <1>a
  <2> QED  BY <1>1, <1>n, <1>14, <2>1, <2>2 DEF RequestRing
<1>16. ResponseRing'
  <2>1. \A i \in 0 .. (unread + 1) - 1 : after[(y + i) % NumEntries] = base + i
    BY <1>12
  <2>2. base = (answered + 1) - (unread + 1) + 1 /\ unread + 1 <= NumEntries
    BY <1>0, <1>1, <1>6
  <2>3. \A i \in 0 .. (unread + 1) - 1 :
          after[(y + i) % NumEntries] = (answered + 1) - (unread + 1) + 1 + i
    BY <2>1, <2>2
  <2> QED  BY <1>q, <1>1, <1>8, <1>14, <2>2, <2>3 DEF ResponseRing
<1>17. SenderType' /\ LockInv'
  BY <1>0, <1>1 DEF SenderType, LockInv
<1>18. QueueType'
  <2>1. /\ reqW' \in Pointer /\ reqR' \in Pointer /\ resW' \in Pointer /\ resR' \in Pointer
    BY <1>0, <1>1, <1>n
  <2>2. req' \in [Slot -> Nat] /\ res' \in [Slot -> Nat]
    BY <1>0, <1>1, <1>8
  <2>3. pushed' \in Nat /\ answered' \in Nat
    BY <1>0, <1>1
  <2> QED  BY <2>1, <2>2, <2>3 DEF QueueType
<1>19. ReadInv'
  <2> SUFFICES ASSUME NEW u \in Sender
               PROVE  ( /\ pc[u] \in {"push", "publish"} => ptr[u] = reqW
                        /\ pc[u] \in {"pop", "popped"} => ptr[u] = resR
                        /\ pc[u] = "publish" => /\ Occupancy(reqW, reqR) < NumEntries
                                                /\ req[reqW % NumEntries] = pushed + 1
                        /\ pc[u] = "popped" => Occupancy(resW, resR) > 0 )'
    BY DEF ReadInv
  <2>1. wait - 1 < NumEntries /\ unread + 1 > 0
    BY <1>0, <1>a
  <2> QED  BY <1>0, <1>1, <1>14, <2>1 DEF ReadInv
<1> QED  BY <1>15, <1>16, <1>17, <1>18, <1>19 DEF RingInv, TypeInv

(* Every step keeps the rings.                                             *)
LEMMA RingStep ==
  ASSUME WidthDivides
  PROVE  RingInv /\ [Next]_vars => RingInv'
<1> SUFFICES ASSUME RingInv, [Next]_vars PROVE RingInv'
  OBVIOUS
<1>1. ASSUME NEW s \in Sender, Acquire(s) \/ Send(s) \/ GiveUp(s)
      PROVE  RingInv'
  BY <1>1, SenderKeeps, ReadStep, SenderRings DEF RingInv, TypeInv
<1>2. CASE FirmwareAnswers
  BY <1>2, FirmwareStep
<1>3. CASE FirmwareSleeps \/ UNCHANGED vars
  <2>1. /\ UNCHANGED <<reqW, reqR, resW, resR, req, res, pushed, answered>>
        /\ UNCHANGED <<lock, pc, ptr, mine, got, abandoned>>
    BY <1>3 DEF FirmwareSleeps, vars, local
  <2>2. QueueType' /\ RequestRing' /\ ResponseRing'
    BY <2>1, RingsAlone
  <2>3. SenderType' /\ LockInv'
    BY <2>1 DEF RingInv, TypeInv, SenderType, LockInv
  <2>4. ReadInv'
    BY <2>1 DEF RingInv, ReadInv, Occupancy
  <2> QED  BY <2>2, <2>3, <2>4 DEF RingInv, TypeInv
<1> QED  BY <1>1, <1>2, <1>3 DEF Next

(* The invariant holds throughout.                                         *)
LEMMA RingInvariant ==
  ASSUME WidthDivides
  PROVE  Spec => []RingInv
BY RingInit, RingStep, PTL DEF Spec

(* With a ring size the wrap of a UINT32 is harmless for, the request ring
   holds exactly the published, unanswered messages (TtBhArcMsgPush).      *)
THEOREM RequestsAreWhole ==
  ASSUME WidthDivides
  PROVE  Spec => []RequestRing
<1>1. RingInv => RequestRing
  BY DEF RingInv
<1> QED  BY <1>1, RingInvariant, PTL

(* With such a ring size no response is overwritten before it is read
   (TtBhArcMsgPop).                                                        *)
THEOREM ResponsesAreWhole ==
  ASSUME WidthDivides
  PROVE  Spec => []ResponseRing
<1>1. RingInv => ResponseRing
  BY DEF RingInv
<1> QED  BY <1>1, RingInvariant, PTL

-----------------------------------------------------------------------------
(***************************************************************************)
(* Every sender gets the answer to its own message.  The protocol has no   *)
(* tag to match them by: what it has is that, between transactions that    *)
(* were not abandoned, both rings are empty.                               *)
(***************************************************************************)
InFlight == {"doorbell", "pop", "popped"}

EmptyBetween ==
  (\A s \in Sender : pc[s] \notin InFlight) => pushed = answered /\ Unread = 0
OneInFlight ==
  \A s \in Sender :
    /\ pc[s] \in InFlight => mine[s] = pushed /\ (pushed - answered) + Unread = 1
    /\ pc[s] = "popped" => got[s] = pushed /\ Unread = 1
OwnInv == ~abandoned => EmptyBetween /\ OneInFlight

(* Initially both rings are empty.                                         *)
LEMMA OwnInit ==
  ASSUME WidthDivides
  PROVE  Init => OwnInv
<1> SUFFICES ASSUME Init PROVE OwnInv
  OBVIOUS
<1>1. Unread = 0
  BY RingInit, OccupancyFacts DEF Init, RingInv, TypeInv, QueueType, Unread
<1> QED  BY <1>1 DEF Init, OwnInv, EmptyBetween, OneInFlight, InFlight

(* Every step keeps the rings empty between transactions.                  *)
LEMMA OwnStep ==
  ASSUME WidthDivides
  PROVE  RingInv /\ OwnInv /\ [Next]_vars => OwnInv'
<1> SUFFICES ASSUME RingInv, OwnInv, [Next]_vars, ~abandoned' PROVE (EmptyBetween /\ OneInFlight)'
  BY DEF OwnInv
<1>0. /\ SenderType /\ QueueType /\ ReadInv /\ RequestRing /\ ResponseRing
      /\ resW \in Pointer /\ resR \in Pointer /\ NumEntries \in Nat \ {0}
      /\ pushed \in Nat /\ answered \in Nat /\ Unread \in Nat
      /\ pc \in [Sender -> {"idle", "ready", "push", "publish", "doorbell",
                            "pop", "popped"}]
      /\ mine \in [Sender -> Nat] /\ got \in [Sender -> Nat] /\ ptr \in [Sender -> Pointer]
  BY QueueAssumption, OccupancyFacts DEF RingInv, TypeInv, SenderType, QueueType, Unread
<1>a. ~abandoned
  BY <1>0 DEF SenderType, Next, Send, Acquire, Ready, PushEntry, PublishWptr, Doorbell, PopEntry,
              Finish, GiveUp, FirmwareAnswers, FirmwareSleeps, vars
<1>e. EmptyBetween /\ OneInFlight
  BY <1>a DEF OwnInv
<1>1. ASSUME NEW s \in Sender, Acquire(s) \/ Send(s) \/ GiveUp(s)
      PROVE  (EmptyBetween /\ OneInFlight)'
  <2>1. \A u \in Sender : u # s => pc[u] = "idle" /\ pc'[u] = "idle"
    <3>1. pc[s] # "idle" \/ lock = NONE
      BY <1>1 DEF Acquire, Send, GiveUp, Ready, PushEntry, PublishWptr, Doorbell, PopEntry, Finish
    <3> QED  BY <1>1, <3>1, OthersIdle, SenderKeeps DEF RingInv
  <2>2. /\ pc[s] \notin InFlight => pushed = answered /\ Unread = 0
        /\ pc[s] \in InFlight => mine[s] = pushed /\ (pushed - answered) + Unread = 1
        /\ pc[s] = "popped" => got[s] = pushed /\ Unread = 1
    BY <1>e, <2>1 DEF EmptyBetween, OneInFlight, InFlight
  <2> SUFFICES ( /\ pc[s] \notin InFlight => pushed = answered /\ Unread = 0
                 /\ pc[s] \in InFlight => mine[s] = pushed /\ (pushed - answered) + Unread = 1
                 /\ pc[s] = "popped" => got[s] = pushed /\ Unread = 1 )'
    BY <2>1 DEF EmptyBetween, OneInFlight, InFlight
  <2>3. CASE Acquire(s) \/ Ready(s) \/ PushEntry(s)
    <3>1. /\ UNCHANGED <<pushed, answered, resW, resR>>
          /\ pc[s] \notin InFlight /\ pc'[s] \notin InFlight /\ pc'[s] # "popped"
      BY <1>0, <2>3 DEF Acquire, Ready, PushEntry, InFlight
    <3>2. Unread' = Unread
      BY <3>1 DEF Unread, Occupancy
    <3> QED  BY <2>2, <3>1, <3>2
  <2>4. CASE PublishWptr(s)
    <3>1. /\ UNCHANGED <<answered, resW, resR>> /\ pushed' = pushed + 1
          /\ mine'[s] = pushed + 1 /\ pc[s] \notin InFlight /\ pc'[s] = "doorbell"
      BY <1>0, <2>4 DEF PublishWptr, InFlight
    <3>2. Unread' = Unread
      BY <3>1 DEF Unread, Occupancy
    <3> QED  BY <1>0, <2>2, <3>1, <3>2 DEF InFlight
  <2>5. CASE Doorbell(s)
    <3>1. /\ UNCHANGED <<answered, pushed, resW, resR, mine>>
          /\ pc[s] \in InFlight /\ pc'[s] = "pop"
      BY <1>0, <2>5 DEF Doorbell, InFlight
    <3>2. Unread' = Unread
      BY <3>1 DEF Unread, Occupancy
    <3> QED  BY <2>2, <3>1, <3>2 DEF InFlight
  <2>6. CASE PopEntry(s)
    <3>1. /\ UNCHANGED <<answered, pushed, resW, resR, mine>>
          /\ pc[s] \in InFlight /\ pc'[s] = "popped" /\ Unread > 0
          /\ got'[s] = res[resR % NumEntries]
      BY <1>0, <2>6 DEF PopEntry, InFlight, ReadInv, Unread
    <3>2. Unread' = Unread
      BY <3>1 DEF Unread, Occupancy
    <3>3. pushed - answered \in Nat
      BY <1>0, OccupancyFacts DEF RequestRing, QueueType
    <3>4. Unread = 1 /\ pushed = answered
      BY <1>0, <2>2, <3>1, <3>3
    <3>5. res[(resR + 0) % NumEntries] = answered - 1 + 1 + 0
      BY <1>0, <3>4 DEF ResponseRing, Unread
    <3>6. resR + 0 = resR
      BY <1>0 DEF Pointer
    <3>7. got'[s] = pushed
      BY <1>0, <3>1, <3>4, <3>5, <3>6
    <3> QED  BY <2>2, <3>1, <3>2, <3>4, <3>7 DEF InFlight
  <2>7. CASE Finish(s)
    <3>1. /\ UNCHANGED <<answered, pushed, resW>> /\ resR' = Advance(resR)
          /\ pc[s] = "popped" /\ pc'[s] = "idle"
      BY <1>0, <2>7 DEF Finish, ReadInv
    <3>2. Unread = 1 /\ pushed = answered
      BY <1>0, <2>2, <3>1 DEF InFlight
    <3>3. Occupancy(resW, Advance(resR)) = 0
      BY <1>0, <3>2, OccupancyFacts DEF Unread
    <3>4. Unread' = 0
      BY <3>1, <3>3 DEF Unread, Occupancy
    <3> QED  BY <3>1, <3>2, <3>4 DEF InFlight
  <2>8. CASE GiveUp(s)
    <3>1. /\ UNCHANGED <<pushed, answered, resW, resR>>
          /\ pc[s] \notin InFlight /\ pc'[s] = "idle"
      BY <1>0, <2>8 DEF GiveUp, InFlight
    <3>2. Unread' = Unread
      BY <3>1 DEF Unread, Occupancy
    <3> QED  BY <2>2, <3>1, <3>2 DEF InFlight
  <2> QED  BY <1>1, <2>3, <2>4, <2>5, <2>6, <2>7, <2>8 DEF Send
<1>2. CASE FirmwareAnswers
  <2>1. /\ UNCHANGED <<pc, mine, got, pushed, resR>> /\ answered' = answered + 1
        /\ resW' = Advance(resW) /\ reqR # reqW /\ Unread < NumEntries
    BY <1>2 DEF FirmwareAnswers, local, Unread
  <2>2. Occupancy(Advance(resW), resR) = Unread + 1
    BY <1>0, <2>1, OccupancyFacts DEF Unread
  <2>3. Unread' = Unread + 1
    BY <2>1, <2>2 DEF Unread, Occupancy
  <2>4. Occupancy(reqW, reqR) # 0 /\ Occupancy(reqW, reqR) \in Nat
    BY <1>0, <2>1, OccupancyFacts DEF QueueType
  <2>5. pushed - answered > 0
    BY <1>0, <2>4 DEF RequestRing
  <2>6. ~ \A s \in Sender : pc[s] \notin InFlight
    BY <1>0, <1>e, <2>5 DEF EmptyBetween
  <2>7. \A s \in Sender : pc[s] # "popped"
    BY <1>0, <1>e, <2>5 DEF OneInFlight, InFlight
  <2>8. EmptyBetween'
    BY <2>1, <2>6 DEF EmptyBetween
  <2>9. OneInFlight'
    <3>1. (pushed - (answered + 1)) + (Unread + 1) = (pushed - answered) + Unread
      BY <1>0
    <3> QED  BY <1>e, <2>1, <2>3, <2>7, <3>1 DEF OneInFlight
  <2> QED  BY <2>8, <2>9
<1>3. CASE FirmwareSleeps \/ UNCHANGED vars
  <2>1. UNCHANGED <<pc, mine, got, pushed, answered, resW, resR>>
    BY <1>3 DEF FirmwareSleeps, vars, local
  <2>2. Unread' = Unread
    BY <2>1 DEF Unread, Occupancy
  <2> QED  BY <1>e, <2>1, <2>2 DEF EmptyBetween, OneInFlight
<1> QED  BY <1>1, <1>2, <1>3 DEF Next

(* With such a ring size, and unless a sender has given up after it pushed, the
   response a sender takes is the response to its own message
   (TtBhSendArcMessage).                                                   *)
THEOREM EveryoneGetsTheirOwn ==
  ASSUME WidthDivides
  PROVE  Spec => []OwnResponse
<1>1. Spec => []OwnInv
  BY RingInvariant, OwnInit, OwnStep, PTL DEF Spec
<1>2. OwnInv => OwnResponse
  BY DEF OwnInv, OneInFlight, OwnResponse, InFlight
<1> QED  BY <1>1, <1>2, PTL
=============================================================================
