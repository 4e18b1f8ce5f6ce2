------------------------- MODULE TtLockOrder_proofs -------------------------
(***************************************************************************)
(* Proof that the driver's locks are taken in one order, for any number of *)
(* threads and open handles: no set of threads deadlocks, and a NOC access *)
(* finds the kernel's window as it programmed it.                          *)
(***************************************************************************)
EXTENDS TtLockOrder, Integers, WellFoundedInduction, TLAPS

AnyLock == WaitLock \cup { "ResetResource" }
StepSet ==
  [kind : { "acquire", "release" }, lock : WaitLock]
    \cup [kind : { "shared", "exclusive", "leave" }, lock : { "ResetResource" }]
    \cup [kind : { "program", "access" }, lock : { "window" }]

(* The order: DeviceListLock, the reset resource, PowerLock, FileListLock, the
   locks of handles, and then locks nothing but KernelTlbLock is taken under. *)
Rank(l) ==
  IF l = "DeviceListLock" THEN 1
  ELSE IF l = "ResetResource" THEN 2
  ELSE IF l = "PowerLock" THEN 3
  ELSE IF l = "FileListLock" THEN 4
  ELSE IF l \in File THEN 5
  ELSE IF l = "KernelTlbLock" THEN 7
  ELSE 6

-----------------------------------------------------------------------------
(***************************************************************************)
(* The discipline of an operation's steps, as the sets of locks held       *)
(* between them.                                                           *)
(***************************************************************************)
(* Step x leads from holding H to holding K: a lock is taken above all that are
   held, one that is released is held, and the window is used under its lock. *)
Obeys(x, H, K) ==
  \/ /\ x.kind \in { "acquire", "shared", "exclusive" }
     /\ \A m \in H : Rank(m) < Rank(x.lock)
     /\ K = H \cup { x.lock }
  \/ /\ x.kind \in { "release", "leave" }
     /\ x.lock \in H
     /\ K = H \ { x.lock }
  \/ /\ x.kind \in { "program", "access" }
     /\ "KernelTlbLock" \in H
     /\ K = H

(* h[k] is held before step k of s, only locks above rank n, and nothing after. *)
Trace(n, h, s) ==
  /\ s \in Seq(StepSet)
  /\ h \in [1 .. Len(s) + 1 -> SUBSET AnyLock]
  /\ \A k \in 1 .. Len(s) : Obeys(s[k], h[k], h[k + 1])
  /\ \A k \in 1 .. Len(s) + 1 : \A l \in h[k] : n < Rank(l)
  /\ h[Len(s) + 1] = {}

(* The window is programmed right before it is used.                       *)
Adjacent(s) ==
  \A k \in 1 .. Len(s) - 1 : s[k + 1].kind = "access" => s[k].kind = "program"

(* A thread that holds H can run s to the end.                             *)
Runs(H, s) == Adjacent(s) /\ \E h : Trace(0, h, s) /\ h[1] = H

(* A whole operation, or a part of one that runs under locks up to rank n. *)
Good(n, s) ==
  /\ Adjacent(s)
  /\ s # << >> => s[1].kind # "access"
  /\ \E h : Trace(n, h, s) /\ h[1] = {}

-----------------------------------------------------------------------------
(* Facts about the ranks.                                                  *)
LEMMA Ranks ==
  /\ \A l : Rank(l) \in 1 .. 7
  /\ Rank("DeviceListLock") = 1 /\ Rank("ResetResource") = 2 /\ Rank("PowerLock") = 3
  /\ Rank("FileListLock") = 4 /\ Rank("KernelTlbLock") = 7
  /\ Rank("TlbLock") = 6 /\ Rank("IatuLock") = 6 /\ Rank("ArcMsgLock") = 6
  /\ Rank("LockLock") = 6
  /\ \A f \in File : Rank(f) = 5
  /\ "ResetResource" \notin WaitLock
BY LockOrderAssumption DEF Rank, DeviceLock, WaitLock

(* A step of a run is allowed with the locks it holds, and leaves a run of the
   rest with the locks it holds then.                                      *)
LEMMA RunStep ==
  ASSUME NEW H, NEW s, Runs(H, s), s # << >>
  PROVE  /\ s \in Seq(StepSet) /\ Head(s) = s[1] /\ s[1] \in StepSet /\ H \subseteq AnyLock
         /\ \E K : Obeys(s[1], H, K) /\ Runs(K, Tail(s))
         /\ Tail(s) # << >> /\ Tail(s)[1].kind = "access" => s[1].kind = "program"
<1>1. PICK h : Trace(0, h, s) /\ h[1] = H
  BY DEF Runs
<1>2. s \in Seq(StepSet)
  BY <1>1 DEF Trace
<1>3. PICK n \in Nat : Len(s) = n + 1
  <2>1. Len(s) \in Nat /\ Len(s) > 0
    BY <1>2
  <2> QED  BY <2>1
<1>4. PICK r : r = Tail(s)
  OBVIOUS
<1>5. r \in Seq(StepSet) /\ Len(r) = n /\ \A i \in 1 .. n : r[i] = s[i + 1]
  BY <1>2, <1>3, <1>4
<1>6. Head(s) = s[1] /\ s[1] \in StepSet
  BY <1>2, <1>3
<1>7. h \in [1 .. n + 2 -> SUBSET AnyLock]
  BY <1>1, <1>3 DEF Trace
<1>8. Obeys(s[1], H, h[2])
  BY <1>1, <1>3 DEF Trace
<1>9. Adjacent(r)
  <2> SUFFICES ASSUME NEW k \in 1 .. n - 1, r[k + 1].kind = "access"
               PROVE  r[k].kind = "program"
    BY <1>5 DEF Adjacent
  <2>1. k + 1 \in 1 .. Len(s) - 1 /\ r[k + 1] = s[(k + 1) + 1] /\ r[k] = s[k + 1]
    BY <1>3, <1>5
  <2> QED  BY <2>1 DEF Runs, Adjacent
<1>10. PICK g : g = [k \in 1 .. n + 1 |-> h[k + 1]]
  OBVIOUS
<1>11. Trace(0, g, r)
  <2>1. g \in [1 .. Len(r) + 1 -> SUBSET AnyLock]
    BY <1>5, <1>7, <1>10
  <2>2. ASSUME NEW k \in 1 .. n PROVE Obeys(r[k], g[k], g[k + 1])
    <3>1. k + 1 \in 1 .. Len(s) /\ r[k] = s[k + 1] /\ g[k] = h[k + 1] /\ g[k + 1] = h[(k + 1) + 1]
      BY <1>3, <1>5, <1>10
    <3> QED  BY <1>1, <3>1 DEF Trace
  <2>3. ASSUME NEW k \in 1 .. n + 1 PROVE \A l \in g[k] : 0 < Rank(l)
    BY Ranks
  <2>4. g[n + 1] = {}
    <3>1. g[n + 1] = h[(n + 1) + 1]
      BY <1>10
    <3> QED  BY <1>1, <1>3, <3>1 DEF Trace
  <2> QED  BY <1>5, <2>1, <2>2, <2>3, <2>4 DEF Trace
<1>12. Runs(h[2], r)
  BY <1>9, <1>10, <1>11 DEF Runs
<1>13. r # << >> /\ r[1].kind = "access" => s[1].kind = "program"
  <2> SUFFICES ASSUME r # << >>, r[1].kind = "access" PROVE s[1].kind = "program"
    OBVIOUS
  <2>1. n > 0 /\ r[1] = s[2]
    BY <1>5
  <2>2. 1 \in 1 .. Len(s) - 1
    BY <1>3, <2>1
  <2> QED  BY <2>1, <2>2 DEF Runs, Adjacent
<1> QED  BY <1>1, <1>2, <1>4, <1>6, <1>7, <1>8, <1>12, <1>13

-----------------------------------------------------------------------------
(* How operations are put together.                                        *)
LEMMA GoodEmpty == ASSUME NEW n PROVE Good(n, << >>)
<1>1. PICK h : h = [k \in 1 .. 1 |-> {}]
  OBVIOUS
<1>2. Trace(n, h, << >>) /\ h[1] = {}
  BY <1>1 DEF Trace
<1> QED  BY <1>2 DEF Good, Adjacent

(* What runs under many locks runs under fewer.                            *)
LEMMA GoodUnder ==
  ASSUME NEW m \in Int, NEW n \in Int, n <= m, NEW s, Good(m, s)
  PROVE  Good(n, s)
<1>1. PICK h : Trace(m, h, s) /\ h[1] = {}
  BY DEF Good
<1>2. ASSUME NEW k \in 1 .. Len(s) + 1, NEW l \in h[k] PROVE n < Rank(l)
  <2>1. m < Rank(l) /\ Rank(l) \in Int
    BY <1>1, Ranks DEF Trace
  <2> QED  BY <2>1
<1>3. Trace(n, h, s)
  BY <1>1, <1>2 DEF Trace
<1> QED  BY <1>1, <1>3 DEF Good

(* One part after another.                                                 *)
LEMMA GoodConcat ==
  ASSUME NEW n, NEW s, NEW t, Good(n, s), Good(n, t)
  PROVE  Good(n, s \o t)
<1>1. PICK hs : Trace(n, hs, s) /\ hs[1] = {}
  BY DEF Good
<1>2. PICK ht : Trace(n, ht, t) /\ ht[1] = {}
  BY DEF Good
<1>3. s \in Seq(StepSet) /\ t \in Seq(StepSet)
  BY <1>1, <1>2 DEF Trace
<1>4. PICK a \in Nat : a = Len(s)
  BY <1>3
<1>5. PICK b \in Nat : b = Len(t)
  BY <1>3
<1>6. PICK r : r = s \o t
  OBVIOUS
<1>7. /\ r \in Seq(StepSet) /\ Len(r) = a + b
      /\ \A i \in 1 .. a : r[i] = s[i]
      /\ \A i \in 1 .. b : r[a + i] = t[i]
  BY <1>3, <1>4, <1>5, <1>6
<1>8. PICK h : h = [k \in 1 .. a + b + 1 |-> IF k <= a THEN hs[k] ELSE ht[k - a]]
  OBVIOUS
<1>9. hs \in [1 .. a + 1 -> SUBSET AnyLock] /\ ht \in [1 .. b + 1 -> SUBSET AnyLock]
  BY <1>1, <1>2, <1>4, <1>5 DEF Trace
<1>10. /\ h \in [1 .. (a + b) + 1 -> SUBSET AnyLock]
       /\ \A i \in 1 .. a + 1 : h[i] = hs[i]
       /\ \A i \in 1 .. b + 1 : h[a + i] = ht[i]
  <2>1. h \in [1 .. (a + b) + 1 -> SUBSET AnyLock]
    BY <1>8, <1>9
  <2>2. ASSUME NEW i \in 1 .. a PROVE h[i] = hs[i]
    BY <1>8
  <2>3. ASSUME NEW i \in 1 .. b + 1 PROVE h[a + i] = ht[i]
    <3>1. a + i \in 1 .. a + b + 1 /\ ~(a + i <= a) /\ (a + i) - a = i
      OBVIOUS
    <3> QED  BY <1>8, <3>1
  <2>4. h[a + 1] = {} /\ hs[a + 1] = {}
    BY <1>1, <1>2, <1>4, <2>3 DEF Trace
  <2>5. \A i \in 1 .. a + 1 : i = a + 1 \/ i \in 1 .. a
    OBVIOUS
  <2> QED  BY <2>1, <2>2, <2>3, <2>4, <2>5
<1>11. ASSUME NEW k \in 1 .. a + b PROVE Obeys(r[k], h[k], h[k + 1])
  <2>1. CASE k \in 1 .. a
    <3>1. r[k] = s[k] /\ h[k] = hs[k] /\ h[k + 1] = hs[k + 1]
      BY <1>7, <1>10, <2>1
    <3> QED  BY <1>1, <1>4, <2>1, <3>1 DEF Trace
  <2>2. CASE k \notin 1 .. a
    <3>1. PICK i \in 1 .. b : k = a + i
      <4>1. k - a \in 1 .. b /\ k = a + (k - a)
        BY <2>2
      <4> QED  BY <4>1
    <3>2. i + 1 \in 1 .. b + 1 /\ i \in 1 .. b + 1 /\ k + 1 = a + (i + 1)
      BY <3>1
    <3>3. r[k] = t[i] /\ h[k] = ht[i] /\ h[k + 1] = ht[i + 1]
      BY <1>7, <1>10, <3>1, <3>2
    <3> QED  BY <1>2, <1>5, <3>3 DEF Trace
  <2> QED  BY <2>1, <2>2
<1>12. ASSUME NEW k \in 1 .. (a + b) + 1, NEW l \in h[k] PROVE n < Rank(l)
  <2>1. CASE k \in 1 .. a
    <3>1. h[k] = hs[k] /\ k \in 1 .. Len(s) + 1
      BY <1>4, <1>10, <2>1
    <3> QED  BY <1>1, <3>1 DEF Trace
  <2>2. CASE k \notin 1 .. a
    <3>1. PICK i \in 1 .. b + 1 : k = a + i
      <4>1. k - a \in 1 .. b + 1 /\ k = a + (k - a)
        BY <2>2
      <4> QED  BY <4>1
    <3>2. h[k] = ht[i]
      BY <1>10, <3>1
    <3> QED  BY <1>2, <1>5, <3>2 DEF Trace
  <2> QED  BY <2>1, <2>2
<1>13. h[(a + b) + 1] = {}
  <2>1. h[a + (b + 1)] = ht[b + 1]
    BY <1>10
  <2> QED  BY <1>2, <1>5, <2>1 DEF Trace
<1>14. h[1] = {}
  BY <1>1, <1>10
<1>15. Trace(n, h, r)
  BY <1>7, <1>10, <1>11, <1>12, <1>13 DEF Trace
<1>16. Adjacent(r)
  <2> SUFFICES ASSUME NEW k \in 1 .. (a + b) - 1, r[k + 1].kind = "access"
               PROVE  r[k].kind = "program"
    BY <1>7 DEF Adjacent
  <2>1. CASE k \in 1 .. a - 1
    <3>1. r[k] = s[k] /\ r[k + 1] = s[k + 1]
      BY <1>7, <2>1
    <3> QED  BY <1>4, <2>1, <3>1 DEF Good, Adjacent
  <2>2. CASE k = a
    <3>1. b > 0 /\ 1 \in 1 .. b
      BY <2>2
    <3>2. r[k + 1] = t[1] /\ t # << >>
      BY <1>3, <1>5, <1>7, <2>2, <3>1
    <3> QED  BY <3>2 DEF Good
  <2>3. CASE k > a
    <3>1. PICK i \in 1 .. b - 1 : k = a + i
      <4>1. k - a \in 1 .. b - 1 /\ k = a + (k - a)
        BY <2>3
      <4> QED  BY <4>1
    <3>2. i \in 1 .. b /\ i + 1 \in 1 .. b /\ k + 1 = a + (i + 1)
      BY <3>1
    <3>3. r[k] = t[i] /\ r[k + 1] = t[i + 1]
      BY <1>7, <3>1, <3>2
    <3> QED  BY <1>5, <3>3 DEF Good, Adjacent
  <2> QED  BY <2>1, <2>2, <2>3
<1>17. r # << >> => r[1].kind # "access"
  <2>1. CASE a > 0
    <3>1. s # << >> /\ r[1] = s[1]
      BY <1>3, <1>4, <1>7, <2>1
    <3> QED  BY <3>1 DEF Good
  <2>2. CASE a = 0 /\ b > 0
    <3>1. t # << >> /\ r[a + 1] = t[1]
      BY <1>3, <1>5, <1>7, <2>2
    <3> QED  BY <2>2, <3>1 DEF Good
  <2>3. CASE a = 0 /\ b = 0
    BY <1>7, <2>3
  <2> QED  BY <2>1, <2>2, <2>3
<1> QED  BY <1>6, <1>14, <1>15, <1>16, <1>17 DEF Good

(* The steps of a bracketed part.                                          *)
LEMMA BracketSteps ==
  ASSUME NEW x \in StepSet, NEW y \in StepSet, NEW s \in Seq(StepSet), NEW a \in Nat,
         a = Len(s), NEW r, r = << x >> \o s \o << y >>
  PROVE  /\ r \in Seq(StepSet) /\ Len(r) = a + 2
         /\ r[1] = x /\ r[a + 2] = y /\ \A i \in 1 .. a : r[i + 1] = s[i]
<1>1. PICK q : q = << x >> \o s
  OBVIOUS
<1>2. q \in Seq(StepSet) /\ Len(q) = a + 1 /\ q[1] = x /\ \A i \in 1 .. a : q[i + 1] = s[i]
  BY <1>1
<1>3. r = q \o << y >>
  BY <1>1
<1>4. r \in Seq(StepSet) /\ Len(r) = a + 2 /\ r[a + 2] = y /\ \A i \in 1 .. a + 1 : r[i] = q[i]
  BY <1>2, <1>3
<1> QED  BY <1>2, <1>4

(* A lock taken and released around a part that takes only locks above it. *)
LEMMA GoodBracket ==
  ASSUME NEW n \in Int, NEW x \in StepSet, NEW y \in StepSet, NEW s,
         x.kind \in { "acquire", "shared", "exclusive" }, y.kind \in { "release", "leave" },
         x.lock = y.lock, x.lock \in AnyLock, n < Rank(x.lock), Good(Rank(x.lock), s)
  PROVE  Good(n, << x >> \o s \o << y >>)
<1>1. PICK l \in AnyLock : x.lock = l
  OBVIOUS
<1>2. PICK g : Trace(Rank(l), g, s) /\ g[1] = {}
  BY <1>1 DEF Good
<1>3. s \in Seq(StepSet)
  BY <1>2 DEF Trace
<1>4. PICK a \in Nat : a = Len(s)
  BY <1>3
<1>5. PICK r : r = << x >> \o s \o << y >>
  OBVIOUS
<1>6. /\ r \in Seq(StepSet) /\ Len(r) = a + 2
      /\ r[1] = x /\ r[a + 2] = y /\ \A i \in 1 .. a : r[i + 1] = s[i]
  BY <1>3, <1>4, <1>5, BracketSteps
<1>7. PICK h : h = [k \in 1 .. a + 3 |->
                      IF k = 1 \/ k = a + 3 THEN {} ELSE { l } \cup g[k - 1]]
  OBVIOUS
<1>8. g \in [1 .. a + 1 -> SUBSET AnyLock]
  BY <1>2, <1>4 DEF Trace
<1>9. /\ h \in [1 .. (a + 2) + 1 -> SUBSET AnyLock]
      /\ h[1] = {} /\ h[a + 3] = {}
      /\ \A i \in 1 .. a + 1 : h[i + 1] = { l } \cup g[i]
  <2>1. h \in [1 .. (a + 2) + 1 -> SUBSET AnyLock]
    BY <1>1, <1>7, <1>8
  <2>2. ASSUME NEW i \in 1 .. a + 1 PROVE h[i + 1] = { l } \cup g[i]
    <3>1. i + 1 \in 1 .. a + 3 /\ i + 1 # 1 /\ i + 1 # a + 3 /\ (i + 1) - 1 = i
      OBVIOUS
    <3> QED  BY <1>7, <3>1
  <2> QED  BY <1>7, <2>1, <2>2
<1>10. g[1] = {} /\ g[a + 1] = {}
  BY <1>2, <1>4 DEF Trace
<1>11. \A k \in 1 .. a + 1 : \A m \in g[k] : Rank(l) < Rank(m)
  BY <1>2, <1>4 DEF Trace
<1>12. Rank(l) \in Int /\ \A m : Rank(m) \in Int
  BY Ranks
<1>13. ASSUME NEW k \in 1 .. a + 2 PROVE Obeys(r[k], h[k], h[k + 1])
  <2>1. CASE k = 1
    <3>1. h[1 + 1] = { l } \cup g[1]
      BY <1>9
    <3>2. h[1] = {} /\ h[k + 1] = { l }
      BY <1>9, <1>10, <2>1, <3>1
    <3> QED  BY <1>1, <1>6, <2>1, <3>2 DEF Obeys
  <2>2. CASE k = a + 2
    <3>1. h[(a + 1) + 1] = { l } \cup g[a + 1]
      BY <1>9
    <3>2. h[k] = { l } /\ h[k + 1] = {}
      BY <1>9, <1>10, <2>2, <3>1
    <3> QED  BY <1>1, <1>6, <2>2, <3>2 DEF Obeys
  <2>3. CASE k \in 2 .. a + 1
    <3>1. PICK i \in 1 .. a : k = i + 1
      <4>1. k - 1 \in 1 .. a /\ k = (k - 1) + 1
        BY <2>3
      <4> QED  BY <4>1
    <3>2. i \in 1 .. a + 1 /\ i + 1 \in 1 .. a + 1
      OBVIOUS
    <3>3. r[k] = s[i] /\ h[k] = { l } \cup g[i] /\ h[k + 1] = { l } \cup g[i + 1]
      BY <1>6, <1>9, <3>1, <3>2
    <3>4. Obeys(s[i], g[i], g[i + 1])
      BY <1>2, <1>4 DEF Trace
    <3>5. ASSUME s[i].kind \in { "acquire", "shared", "exclusive" },
                 \A m \in g[i] : Rank(m) < Rank(s[i].lock), g[i + 1] = g[i] \cup { s[i].lock }
          PROVE  Obeys(s[i], { l } \cup g[i], { l } \cup g[i + 1])
      <4>1. s[i].lock \in g[i + 1]
        BY <3>5
      <4>2. Rank(l) < Rank(s[i].lock)
        BY <1>11, <3>2, <4>1
      <4> QED  BY <3>5, <4>2 DEF Obeys
    <3>6. ASSUME s[i].kind \in { "release", "leave" }, s[i].lock \in g[i],
                 g[i + 1] = g[i] \ { s[i].lock }
          PROVE  Obeys(s[i], { l } \cup g[i], { l } \cup g[i + 1])
      <4>1. Rank(l) < Rank(s[i].lock)
        BY <1>11, <3>2, <3>6
      <4>2. l # s[i].lock
        BY <1>12, <4>1
      <4> QED  BY <3>6, <4>2 DEF Obeys
    <3>7. ASSUME s[i].kind \in { "program", "access" }, "KernelTlbLock" \in g[i],
                 g[i + 1] = g[i]
          PROVE  Obeys(s[i], { l } \cup g[i], { l } \cup g[i + 1])
      BY <3>7 DEF Obeys
    <3> QED  BY <3>3, <3>4, <3>5, <3>6, <3>7 DEF Obeys
  <2> QED  BY <2>1, <2>2, <2>3
<1>14. ASSUME NEW k \in 1 .. (a + 2) + 1, NEW m \in h[k] PROVE n < Rank(m)
  <2>1. k # 1 /\ k # a + 3
    BY <1>9
  <2>2. PICK i \in 1 .. a + 1 : k = i + 1
    <3>1. k - 1 \in 1 .. a + 1 /\ k = (k - 1) + 1
      BY <2>1
    <3> QED  BY <3>1
  <2>3. m = l \/ m \in g[i]
    BY <1>9, <2>2
  <2>4. Rank(l) <= Rank(m)
    BY <1>11, <1>12, <2>3
  <2> QED  BY <1>1, <1>12, <2>4
<1>15. Trace(n, h, r)
  <2>1. h[(a + 2) + 1] = {}
    BY <1>9
  <2> QED  BY <1>6, <1>9, <1>13, <1>14, <2>1 DEF Trace
<1>16. Adjacent(r)
  <2> SUFFICES ASSUME NEW k \in 1 .. (a + 2) - 1, r[k + 1].kind = "access"
               PROVE  r[k].kind = "program"
    BY <1>6 DEF Adjacent
  <2>1. k # a + 1
    BY <1>6
  <2>2. r[k + 1] = s[k] /\ k \in 1 .. a
    BY <1>6, <2>1
  <2>3. s # << >>
    BY <1>3, <1>4, <2>2
  <2>4. k # 1
    BY <2>2, <2>3 DEF Good
  <2>5. PICK i \in 1 .. a - 1 : k = i + 1
    <3>1. k - 1 \in 1 .. a - 1 /\ k = (k - 1) + 1
      BY <2>2, <2>4
    <3> QED  BY <3>1
  <2>6. i \in 1 .. Len(s) - 1 /\ r[k] = s[i] /\ s[i + 1].kind = "access"
    BY <1>4, <1>6, <2>2, <2>5
  <2> QED  BY <2>6 DEF Good, Adjacent
<1>17. r[1].kind # "access"
  BY <1>6
<1> QED  BY <1>5, <1>9, <1>15, <1>16, <1>17 DEF Good

(* The same for a wait lock.                                               *)
LEMMA GoodWith ==
  ASSUME NEW n \in Int, NEW l \in WaitLock, NEW s, n < Rank(l), Good(Rank(l), s)
  PROVE  Good(n, With(l, s))
<1>1. PICK x, y : x = Step("acquire", l) /\ y = Step("release", l)
  OBVIOUS
<1>2. x \in StepSet /\ y \in StepSet /\ x.kind = "acquire" /\ y.kind = "release"
      /\ x.lock = l /\ y.lock = l /\ l \in AnyLock
  BY <1>1 DEF StepSet, Step, AnyLock
<1>3. Good(n, << x >> \o s \o << y >>)
  BY <1>2, GoodBracket
<1> QED  BY <1>1, <1>3 DEF With

(* The same for the reset resource, shared and exclusive.                   *)
LEMMA GoodShared ==
  ASSUME NEW n \in Int, NEW s, n < 2, Good(2, s)
  PROVE  Good(n, Shared(s)) /\ Good(n, Exclusive(s))
<1>1. PICK x, y, z : /\ x = Step("shared", "ResetResource") /\ y = Step("leave", "ResetResource")
                     /\ z = Step("exclusive", "ResetResource")
  OBVIOUS
<1>2. /\ x \in StepSet /\ y \in StepSet /\ z \in StepSet
      /\ x.kind = "shared" /\ y.kind = "leave" /\ z.kind = "exclusive"
      /\ x.lock = "ResetResource" /\ y.lock = "ResetResource" /\ z.lock = "ResetResource"
      /\ "ResetResource" \in AnyLock
  BY <1>1 DEF StepSet, Step, AnyLock
<1>3. Good(n, << x >> \o s \o << y >>)
  BY <1>2, Ranks, GoodBracket
<1>4. Good(n, << z >> \o s \o << y >>)
  BY <1>2, Ranks, GoodBracket
<1> QED  BY <1>1, <1>3, <1>4 DEF Shared, Exclusive

(* A NOC access takes KernelTlbLock around both its halves.                *)
LEMMA GoodNocAccess == Good(6, NocAccess)
<1>1. PICK a, b, c, d :
        /\ a = Step("acquire", "KernelTlbLock") /\ b = Step("program", "window")
        /\ c = Step("access", "window") /\ d = Step("release", "KernelTlbLock")
  OBVIOUS
<1>2. PICK s : s = NocAccess
  OBVIOUS
<1>3. /\ s \in Seq(StepSet) /\ Len(s) = 4
      /\ s[1].kind = "acquire" /\ s[1].lock = "KernelTlbLock"
      /\ s[2].kind = "program" /\ s[3].kind = "access"
      /\ s[4].kind = "release" /\ s[4].lock = "KernelTlbLock"
  <2>1. "KernelTlbLock" \in WaitLock
    BY DEF WaitLock, DeviceLock
  <2>2. a \in StepSet /\ b \in StepSet /\ c \in StepSet /\ d \in StepSet
    BY <1>1, <2>1 DEF StepSet, Step
  <2>3. PICK p : p = << b, c >>
    OBVIOUS
  <2>4. p \in Seq(StepSet) /\ Len(p) = 2 /\ p[1] = b /\ p[2] = c
    BY <2>2, <2>3
  <2>5. s = << a >> \o p \o << d >>
    BY <1>1, <1>2, <2>3 DEF NocAccess, With
  <2>6. PICK n \in Nat : n = 2
    OBVIOUS
  <2>7. n = Len(p) /\ p \in Seq(StepSet)
    BY <2>4, <2>6
  <2>8. /\ s \in Seq(StepSet) /\ Len(s) = n + 2
        /\ s[1] = a /\ s[n + 2] = d /\ \A i \in 1 .. n : s[i + 1] = p[i]
    BY <2>2, <2>5, <2>7, BracketSteps
  <2>9. s[1 + 1] = p[1] /\ s[2 + 1] = p[2]
    BY <2>6, <2>8
  <2>10. /\ s \in Seq(StepSet) /\ Len(s) = 4
         /\ s[1] = a /\ s[2] = b /\ s[3] = c /\ s[4] = d
    BY <2>4, <2>6, <2>8, <2>9
  <2> QED  BY <1>1, <2>10 DEF Step
<1>4. PICK h : h = [k \in 1 .. 5 |-> IF k = 1 \/ k = 5 THEN {} ELSE { "KernelTlbLock" }]
  OBVIOUS
<1>5. h[1] = {} /\ h[5] = {} /\ \A k \in 2 .. 4 : h[k] = { "KernelTlbLock" }
  BY <1>4
<1>6. h \in [1 .. 4 + 1 -> SUBSET AnyLock]
  BY <1>4 DEF AnyLock, WaitLock, DeviceLock
<1>7. Obeys(s[1], h[1], h[2]) /\ Obeys(s[2], h[2], h[3])
      /\ Obeys(s[3], h[3], h[4]) /\ Obeys(s[4], h[4], h[5])
  <2>1. PICK H : H = { "KernelTlbLock" }
    OBVIOUS
  <2>2. h[1] = {} /\ h[2] = H /\ h[3] = H /\ h[4] = H /\ h[5] = {}
    BY <1>5, <2>1
  <2>3. Obeys(s[1], {}, H)
    BY <1>3, <2>1 DEF Obeys
  <2>4. Obeys(s[2], H, H) /\ Obeys(s[3], H, H)
    BY <1>3, <2>1 DEF Obeys
  <2>5. Obeys(s[4], H, {})
    BY <1>3, <2>1 DEF Obeys
  <2> QED  BY <2>2, <2>3, <2>4, <2>5
<1>8. ASSUME NEW k \in 1 .. 4 PROVE Obeys(s[k], h[k], h[k + 1])
  <2>1. k = 1 \/ k = 2 \/ k = 3 \/ k = 4
    OBVIOUS
  <2> QED  BY <1>7, <2>1
<1>9. \A k \in 1 .. 4 + 1 : \A l \in h[k] : 6 < Rank(l)
  BY <1>4, Ranks
<1>10. Trace(6, h, s)
  BY <1>3, <1>5, <1>6, <1>8, <1>9 DEF Trace
<1>11. Adjacent(s)
  <2> SUFFICES ASSUME NEW k \in 1 .. 3, s[k + 1].kind = "access" PROVE s[k].kind = "program"
    BY <1>3 DEF Adjacent
  <2>1. k = 1 \/ k = 2 \/ k = 3
    OBVIOUS
  <2> QED  BY <1>3, <2>1
<1> QED  BY <1>2, <1>3, <1>5, <1>10, <1>11 DEF Good

(* A set of numbers has a least one.                                       *)
LEMMA LeastOf ==
  ASSUME NEW S \in SUBSET Nat, S # {}
  PROVE  \E m \in S : \A k \in S : m <= k
<1>1. PICK R : R = OpToRel(<, Nat)
  OBVIOUS
<1>2. IsWellFoundedOn(R, Nat)
  BY <1>1, NatLessThanWellFounded
<1>3. PICK m \in S : \A k \in S : ~(<<k, m>> \in R)
  BY <1>2, WFMin
<1>4. \A x, y \in Nat : x < y => <<x, y>> \in R
  BY <1>1 DEF OpToRel
<1>5. \A k \in S : k \in Nat /\ m \in Nat /\ ~(k < m)
  BY <1>3, <1>4
<1>6. \A k \in S : m <= k
  BY <1>5
<1> QED  BY <1>6

(* The recursion of FlattenSeq, on the first m of the parts.                *)
Joins(f, seqs, m) ==
  f = [i \in 1 .. m |-> IF i = 1 THEN seqs[i] ELSE f[i - 1] \o seqs[i]]

(* It has a solution, which is the recursively defined function.            *)
LEMMA JoinsExists ==
  ASSUME NEW seqs, NEW n \in Nat, n > 0
  PROVE  \E f : Joins(f, seqs, n)
<1> SUFFICES ASSUME ~ \E f : Joins(f, seqs, n) PROVE FALSE
  OBVIOUS
<1>1. PICK B : B = { m \in 1 .. n : ~ \E f : Joins(f, seqs, m) }
  OBVIOUS
<1>2. n \in B /\ B \in SUBSET Nat
  BY <1>1
<1>3. PICK m \in B : \A k \in B : m <= k
  BY <1>2, LeastOf
<1>4. CASE m = 1
  <2>1. PICK f : f = [i \in 1 .. 1 |-> seqs[i]]
    OBVIOUS
  <2>2. f = [i \in 1 .. 1 |-> IF i = 1 THEN seqs[i] ELSE f[i - 1] \o seqs[i]]
    BY <2>1
  <2>3. Joins(f, seqs, m)
    BY <1>4, <2>2 DEF Joins
  <2> QED  BY <1>1, <1>3, <2>3
<1>5. CASE m # 1
  <2>1. m \in Nat /\ m > 1 /\ m - 1 \in 1 .. n /\ m - 1 \notin B
    BY <1>1, <1>3, <1>5
  <2>2. PICK g : Joins(g, seqs, m - 1)
    BY <1>1, <2>1
  <2>3. \A i \in 1 .. m - 1 : g[i] = IF i = 1 THEN seqs[i] ELSE g[i - 1] \o seqs[i]
    BY <2>2, Zenon DEF Joins
  <2>4. PICK f : f = [i \in 1 .. m |-> IF i = m THEN g[m - 1] \o seqs[m] ELSE g[i]]
    OBVIOUS
  <2>5. ASSUME NEW i \in 1 .. m
        PROVE  f[i] = IF i = 1 THEN seqs[i] ELSE f[i - 1] \o seqs[i]
    <3>1. CASE i = m
      <4>1. f[i] = g[i - 1] \o seqs[i] /\ f[i - 1] = g[i - 1] /\ i # 1
        <5>1. m \in 1 .. m /\ m - 1 \in 1 .. m /\ m - 1 # m /\ m # 1
          BY <2>1
        <5>2. f[m] = g[m - 1] \o seqs[m] /\ f[m - 1] = g[m - 1]
          BY <2>4, <5>1
        <5> QED  BY <3>1, <5>1, <5>2
      <4> QED  BY <4>1
    <3>2. CASE i # m
      <4>1. i \in 1 .. m - 1 /\ f[i] = g[i]
        BY <2>1, <2>4, <3>2
      <4>2. CASE i = 1
        BY <2>3, <4>1, <4>2
      <4>3. CASE i # 1
        <5>1. i - 1 \in 1 .. m /\ i - 1 # m
          BY <2>1, <4>1, <4>3
        <5>2. f[i - 1] = g[i - 1]
          BY <2>4, <5>1
        <5>3. g[i] = g[i - 1] \o seqs[i]
          BY <2>3, <4>1, <4>3
        <5> QED  BY <4>1, <4>3, <5>2, <5>3
      <4> QED  BY <4>2, <4>3
    <3> QED  BY <3>1, <3>2
  <2>6. f = [i \in 1 .. m |-> f[i]]
    BY <2>4
  <2>7. Joins(f, seqs, m)
    BY <2>5, <2>6 DEF Joins
  <2> QED  BY <1>1, <1>3, <2>7
<1> QED  BY <1>4, <1>5

(* Parts put together in the order of the list.                            *)
LEMMA GoodFlatten ==
  ASSUME NEW n, NEW seqs, NEW N \in Nat, seqs \in Seq(Seq(StepSet)), Len(seqs) = N,
         \A i \in 1 .. N : Good(n, seqs[i])
  PROVE  Good(n, FlattenSeq(seqs))
<1>1. CASE N = 0
  <2>1. seqs = << >> /\ FlattenSeq(seqs) = seqs
    BY <1>1 DEF FlattenSeq
  <2> QED  BY <2>1, GoodEmpty
<1>2. CASE N > 0
  <2>1. PICK f : Joins(f, seqs, N) /\ FlattenSeq(seqs) = f[N]
    <3>1. PICK g : g = CHOOSE f : Joins(f, seqs, N)
      OBVIOUS
    <3>2. Joins(g, seqs, N)
      BY <1>2, <3>1, JoinsExists
    <3>3. FlattenSeq(seqs) = g[N]
      BY <1>2, <3>1 DEF FlattenSeq, Joins
    <3> QED  BY <3>2, <3>3
  <2>2. \A i \in 1 .. N : f[i] = IF i = 1 THEN seqs[i] ELSE f[i - 1] \o seqs[i]
    BY <2>1, Zenon DEF Joins
  <2>3. PICK B : B = { m \in 1 .. N : ~ Good(n, f[m]) }
    OBVIOUS
  <2>4. ASSUME B # {} PROVE FALSE
    <3>1. B \in SUBSET Nat
      BY <2>3
    <3>2. PICK m \in B : \A k \in B : m <= k
      BY <2>4, <3>1, LeastOf
    <3>3. m \in 1 .. N /\ ~Good(n, f[m])
      BY <2>3
    <3>4. m # 1
      BY <2>2, <3>3
    <3>5. m - 1 \in 1 .. N /\ m - 1 \notin B
      BY <3>2, <3>3, <3>4
    <3>6. Good(n, f[m - 1]) /\ Good(n, seqs[m])
      BY <2>3, <3>3, <3>5
    <3>7. Good(n, f[m - 1] \o seqs[m])
      BY <3>6, GoodConcat
    <3> QED  BY <2>2, <3>3, <3>4, <3>7
  <2> QED  BY <1>2, <2>1, <2>3, <2>4
<1> QED  BY <1>1, <1>2

-----------------------------------------------------------------------------
(* The locks by name.                                                      *)
LEMMA LockNames ==
  /\ "DeviceListLock" \in WaitLock /\ "PowerLock" \in WaitLock /\ "FileListLock" \in WaitLock
  /\ "TlbLock" \in WaitLock /\ "IatuLock" \in WaitLock /\ "ArcMsgLock" \in WaitLock
  /\ "LockLock" \in WaitLock /\ File \subseteq WaitLock
BY DEF WaitLock, DeviceLock

(* The parts operations are made of, under the locks they are used under.   *)
LEMMA GoodParts ==
  /\ \A n \in Int : n < 6 =>
       /\ Good(n, NocAccess) /\ Good(n, SendArcMessage)
       /\ Good(n, SetupNocDma) /\ Good(n, WakeWaiters) /\ Good(n, With("TlbLock", << >>))
  /\ \A n \in Int : n < 4 => Good(n, With("FileListLock", << >>))
  /\ \A n \in Int : n < 3 => Good(n, PowerAggregate)
  /\ \A f \in File : Good(4, ReleasePins(f)) /\ Good(4, With(f, << >>)) /\ Good(2, With(f, << >>))
  /\ \A f \in File : Good(2, With(f, With("TlbLock", << >>)))
<1>1. ASSUME NEW n \in Int, n < 6
      PROVE  /\ Good(n, NocAccess) /\ Good(n, SendArcMessage)
             /\ Good(n, SetupNocDma) /\ Good(n, WakeWaiters) /\ Good(n, With("TlbLock", << >>))
  <2>1. Good(n, NocAccess)
    BY <1>1, GoodNocAccess, GoodUnder
  <2>2. Good(n, SendArcMessage)
    BY <1>1, GoodNocAccess, GoodWith, LockNames, Ranks DEF SendArcMessage
  <2>3. Good(6, << >>)
    BY GoodEmpty
  <2>4. Good(n, SetupNocDma) /\ Good(n, WakeWaiters) /\ Good(n, With("TlbLock", << >>))
    BY <1>1, <2>3, GoodWith, LockNames, Ranks DEF SetupNocDma, WakeWaiters
  <2> QED  BY <2>1, <2>2, <2>4
<1>2. ASSUME NEW n \in Int, n < 4 PROVE Good(n, With("FileListLock", << >>))
  BY <1>2, GoodEmpty, GoodWith, LockNames, Ranks
<1>3. ASSUME NEW n \in Int, n < 3 PROVE Good(n, PowerAggregate)
  <2>1. Good(3, With("FileListLock", << >>)) /\ Good(n, SendArcMessage)
    BY <1>1, <1>2, <1>3
  <2>2. Good(n, With("PowerLock", With("FileListLock", << >>)))
    BY <1>3, <2>1, GoodWith, LockNames, Ranks
  <2> QED  BY <2>1, <2>2, GoodConcat DEF PowerAggregate
<1>4. ASSUME NEW f \in File
      PROVE  /\ Good(4, ReleasePins(f)) /\ Good(4, With(f, << >>)) /\ Good(2, With(f, << >>))
             /\ Good(2, With(f, With("TlbLock", << >>)))
  <2>1. f \in WaitLock /\ Rank(f) = 5
    BY LockNames, Ranks
  <2>2. Good(5, << >>) /\ Good(5, SetupNocDma) /\ Good(5, With("TlbLock", << >>))
    BY <1>1, GoodEmpty
  <2> QED  BY <2>1, <2>2, GoodWith DEF ReleasePins
<1> QED  BY <1>1, <1>2, <1>3, <1>4

(* The walks over the list of handles.                                     *)
LEMMA GoodWalks == Good(4, ReleaseAllPins) /\ Good(2, ZapMappings)
<1>1. PICK n \in Nat : Len(FileList) = n /\ DOMAIN FileList = 1 .. n
  BY LockOrderAssumption
<1>2. \A i \in 1 .. n : FileList[i] \in File
  BY <1>1, LockOrderAssumption
<1>3. PICK p : p = [i \in 1 .. n |-> ReleasePins(FileList[i])]
  OBVIOUS
<1>4. PICK q : q = [i \in 1 .. n |-> With(FileList[i], << >>)]
  OBVIOUS
<1>5. \A i \in 1 .. n : Good(4, p[i]) /\ Good(4, q[i])
  BY <1>2, <1>3, <1>4, GoodParts
<1>6. \A s : Good(4, s) => s \in Seq(StepSet)
  BY DEF Good, Trace
<1>7. p \in Seq(Seq(StepSet)) /\ Len(p) = n
  BY <1>3, <1>5, <1>6
<1>8. q \in Seq(Seq(StepSet)) /\ Len(q) = n
  BY <1>4, <1>5, <1>6
<1>9. Good(4, FlattenSeq(p))
  BY <1>5, <1>7, GoodFlatten
<1>10. Good(4, FlattenSeq(q))
  BY <1>5, <1>8, GoodFlatten
<1>11. Good(2, With("FileListLock", FlattenSeq(q)))
  BY <1>10, GoodWith, LockNames, Ranks
<1> QED  BY <1>1, <1>3, <1>4, <1>9, <1>11 DEF ReleaseAllPins, ZapMappings

(* Every operation takes its locks in order and gives them all back.        *)
LEMMA GoodOperations == \A op \in Operations : Good(0, op)
<1>0. /\ Good(2, NocAccess) /\ Good(2, SendArcMessage) /\ Good(2, SetupNocDma)
      /\ Good(2, WakeWaiters) /\ Good(2, With("TlbLock", << >>))
      /\ Good(0, NocAccess) /\ Good(0, SendArcMessage) /\ Good(0, WakeWaiters)
      /\ Good(2, With("FileListLock", << >>)) /\ Good(0, With("FileListLock", << >>))
      /\ Good(2, PowerAggregate) /\ Good(0, PowerAggregate)
  BY GoodParts
<1>1. Good(0, ConfigureTlb) /\ Good(0, LockCtl) /\ Good(0, QueryTelemetry)
  BY <1>0, GoodShared DEF ConfigureTlb, LockCtl, QueryTelemetry
<1>2. Good(0, PostReset)
  BY <1>0, GoodShared, GoodConcat DEF PostReset
<1>3. Good(0, FileCreate) /\ Good(0, PrepareHardware)
  BY <1>0, GoodConcat DEF FileCreate, PrepareHardware
<1>4. Good(0, DeviceListUpdate)
  BY GoodEmpty, GoodWith, LockNames, Ranks DEF DeviceListUpdate
<1>5. Good(0, ResetAndBump)
  BY <1>0, GoodWalks, GoodShared, GoodConcat DEF ResetAndBump
<1>6. Good(0, SurpriseRemoval)
  <2>1. Good(0, Exclusive(ZapMappings))
    BY GoodWalks, GoodShared
  <2> QED  BY <1>0, <2>1, GoodConcat DEF SurpriseRemoval
<1>7. Good(0, ProcessNotify)
  <2>1. Good(2, With("FileListLock", ReleaseAllPins))
    BY GoodWalks, GoodWith, LockNames, Ranks
  <2>2. Good(1, Shared(With("FileListLock", ReleaseAllPins)))
    BY <2>1, GoodShared
  <2> QED  BY <2>2, GoodWith, LockNames, Ranks DEF ProcessNotify
<1>8. ASSUME NEW f \in File
      PROVE  /\ Good(0, FreeTlb(f)) /\ Good(0, PinPages(f)) /\ Good(0, UnpinPages(f))
             /\ Good(0, SetPowerState(f)) /\ Good(0, FileCleanup(f))
  <2>1. /\ Good(2, With(f, << >>)) /\ Good(2, With(f, With("TlbLock", << >>)))
        /\ Good(2, ReleasePins(f))
    <3>1. Good(4, ReleasePins(f))
      BY GoodParts
    <3>2. Good(2, ReleasePins(f))
      BY <3>1, GoodUnder
    <3> QED  BY <3>2, GoodParts
  <2>2. Good(0, FreeTlb(f))
    BY <2>1, GoodShared DEF FreeTlb
  <2>3. Good(0, PinPages(f))
    BY <2>1, GoodShared DEF PinPages, ReleasePins
  <2>4. Good(0, UnpinPages(f))
    BY <1>0, <2>1, GoodShared, GoodConcat DEF UnpinPages
  <2>5. Good(0, SetPowerState(f))
    BY <1>0, <2>1, GoodShared, GoodConcat DEF SetPowerState
  <2>6. Good(2, NocAccess \o WakeWaiters \o With("FileListLock", << >>)
                  \o ReleasePins(f) \o With("TlbLock", << >>))
    BY <1>0, <2>1, GoodConcat
  <2>7. Good(0, FileCleanup(f))
    <3>1. Good(0, Shared(NocAccess \o WakeWaiters \o With("FileListLock", << >>)
                           \o ReleasePins(f) \o With("TlbLock", << >>)))
      BY <2>6, GoodShared
    <3> QED  BY <1>0, <3>1, GoodConcat DEF FileCleanup
  <2> QED  BY <2>2, <2>3, <2>4, <2>5, <2>7
<1> QED
  BY <1>0, <1>1, <1>2, <1>3, <1>4, <1>5, <1>6, <1>7, <1>8 DEF Operations

(* So an idle thread, which holds nothing, can run any of them to the end.  *)
LEMMA OperationRuns == \A op \in Operations : Runs({}, op) /\ (op # << >> => op[1].kind # "access")
BY GoodOperations DEF Good, Runs

-----------------------------------------------------------------------------
(* The locks a thread holds.                                               *)
Holding(t) ==
  { l \in WaitLock : owner[l] = t }
    \cup { l \in { "ResetResource" } : t \in readers \/ writer = t }

TypeInv ==
  /\ todo \in [Thread -> Seq(StepSet)]
  /\ owner \in [WaitLock -> Thread \cup { NoThread }]
  /\ readers \in SUBSET Thread /\ queued \in SUBSET Thread
  /\ writer \in Thread \cup { NoThread }

(* Every thread can run the rest of its operation with the locks it holds.  *)
RunInv == \A t \in Thread : Runs(Holding(t), todo[t])

(* The queue for exclusive access holds threads that are about to get it.   *)
QueueInv == \A t \in queued : At(t, "exclusive")

LockInv == TypeInv /\ RunInv /\ QueueInv /\ AccessReachesItsTarget

(* The invariant holds with every thread idle.                             *)
LEMMA LockInit == Init => LockInv
<1> SUFFICES ASSUME Init PROVE LockInv
  OBVIOUS
<1>1. TypeInv
  BY DEF Init, TypeInv
<1>2. ASSUME NEW t \in Thread PROVE Runs(Holding(t), todo[t])
  <2>1. Holding(t) = {} /\ todo[t] = << >>
    BY LockOrderAssumption DEF Init, Holding
  <2>2. Runs({}, << >>)
    <3>1. Good(0, << >>)
      BY GoodEmpty
    <3> QED  BY <3>1 DEF Good, Runs
  <2> QED  BY <2>1, <2>2
<1>3. QueueInv /\ AccessReachesItsTarget
  BY DEF Init, QueueInv, AccessReachesItsTarget, At
<1> QED  BY <1>1, <1>2, <1>3 DEF LockInv, RunInv

(* What the invariant says of a thread's next step.                        *)
LEMMA NextStep ==
  ASSUME LockInv, NEW t \in Thread, todo[t] # << >>
  PROVE  /\ Holding(t) \subseteq AnyLock
         /\ At(t, "acquire") =>
              /\ Lock(t) \in WaitLock /\ \A m \in Holding(t) : Rank(m) < Rank(Lock(t))
              /\ Runs(Holding(t) \cup { Lock(t) }, Tail(todo[t]))
         /\ At(t, "shared") \/ At(t, "exclusive") =>
              /\ Lock(t) = "ResetResource" /\ \A m \in Holding(t) : Rank(m) < Rank(Lock(t))
              /\ Runs(Holding(t) \cup { Lock(t) }, Tail(todo[t]))
         /\ At(t, "release") =>
              /\ Lock(t) \in WaitLock /\ Lock(t) \in Holding(t)
              /\ Runs(Holding(t) \ { Lock(t) }, Tail(todo[t]))
         /\ At(t, "leave") =>
              /\ Lock(t) = "ResetResource" /\ Lock(t) \in Holding(t)
              /\ Runs(Holding(t) \ { Lock(t) }, Tail(todo[t]))
         /\ At(t, "program") \/ At(t, "access") =>
              "KernelTlbLock" \in Holding(t) /\ Runs(Holding(t), Tail(todo[t]))
         /\ Tail(todo[t]) # << >> /\ Head(Tail(todo[t])).kind = "access" => At(t, "program")
<1>1. PICK s, H : s = todo[t] /\ H = Holding(t)
  OBVIOUS
<1>2. Runs(H, s) /\ s # << >>
  BY <1>1 DEF LockInv, RunInv
<1>3. /\ s \in Seq(StepSet) /\ Head(s) = s[1] /\ s[1] \in StepSet /\ H \subseteq AnyLock
      /\ \E K : Obeys(s[1], H, K) /\ Runs(K, Tail(s))
      /\ Tail(s) # << >> /\ Tail(s)[1].kind = "access" => s[1].kind = "program"
  BY <1>2, RunStep
<1>4. PICK x \in StepSet : x = s[1]
  BY <1>3
<1>5. PICK K : Obeys(x, H, K) /\ Runs(K, Tail(s))
  BY <1>3, <1>4
<1>6. Lock(t) = x.lock /\ \A kind : At(t, kind) <=> x.kind = kind
  BY <1>1, <1>2, <1>3, <1>4 DEF At, Lock
<1>7. /\ x.kind \in { "acquire", "release" } => x.lock \in WaitLock
      /\ x.kind \in { "shared", "exclusive", "leave" } => x.lock = "ResetResource"
  BY DEF StepSet
<1>8. x.kind \in { "acquire", "shared", "exclusive" } =>
        (\A m \in H : Rank(m) < Rank(x.lock)) /\ K = H \cup { x.lock }
  BY <1>5 DEF Obeys
<1>9. x.kind \in { "release", "leave" } => x.lock \in H /\ K = H \ { x.lock }
  BY <1>5 DEF Obeys
<1>10. x.kind \in { "program", "access" } => "KernelTlbLock" \in H /\ K = H
  BY <1>5 DEF Obeys
<1>11. Tail(s) # << >> => Head(Tail(s)) = Tail(s)[1]
  OBVIOUS
<1> QED  BY <1>1, <1>3, <1>4, <1>5, <1>6, <1>7, <1>8, <1>9, <1>10, <1>11

(* A step of t that leaves what the others hold and await alone.            *)
LEMMA FrameStep ==
  ASSUME LockInv, NEW t \in Thread, todo[t] # << >>, Done(t),
         owner' \in [WaitLock -> Thread \cup { NoThread }],
         readers' \in SUBSET Thread, writer' \in Thread \cup { NoThread },
         queued' \subseteq queued \ { t },
         Runs(Holding(t)', Tail(todo[t])),
         \A u \in Thread \ { t } : Holding(u)' = Holding(u),
         At(t, "program") => window' = t,
         \A u \in Thread \ { t } : At(u, "access") => window' = u
  PROVE  LockInv'
<1>1. todo' = [todo EXCEPT ![t] = Tail(@)]
  BY DEF Done
<1>2. todo \in [Thread -> Seq(StepSet)]
  BY DEF LockInv, TypeInv
<1>3. todo'[t] = Tail(todo[t]) /\ \A u \in Thread \ { t } : todo'[u] = todo[u]
  BY <1>1, <1>2
<1>4. TypeInv'
  <2>1. Tail(todo[t]) \in Seq(StepSet)
    BY <1>2
  <2>2. todo' \in [Thread -> Seq(StepSet)]
    BY <1>1, <1>2, <2>1
  <2> QED  BY <2>2 DEF LockInv, TypeInv
<1>5. ASSUME NEW u \in Thread PROVE Runs(Holding(u)', todo'[u])
  BY <1>3 DEF LockInv, RunInv
<1>6. ASSUME NEW u \in queued' PROVE At(u, "exclusive")'
  <2>1. u \in queued /\ u \in Thread /\ u # t
    BY DEF LockInv, TypeInv
  <2> QED  BY <1>3, <2>1 DEF LockInv, QueueInv, At
<1>7. ASSUME NEW u \in Thread, At(u, "access")' PROVE window' = u
  <2>1. CASE u = t
    BY <1>3, <1>7, <2>1, NextStep DEF At
  <2>2. CASE u # t
    BY <1>3, <1>7, <2>2 DEF At
  <2> QED  BY <2>1, <2>2
<1> QED  BY <1>4, <1>5, <1>6, <1>7 DEF LockInv, RunInv, QueueInv, AccessReachesItsTarget

(* Every step keeps the invariant.                                         *)
LEMMA LockStep == LockInv /\ [Next]_vars => LockInv'
<1> SUFFICES ASSUME LockInv, [Next]_vars PROVE LockInv'
  OBVIOUS
<1>0. TypeInv /\ NoThread \notin Thread /\ "ResetResource" \notin WaitLock
  BY LockOrderAssumption, Ranks DEF LockInv
<1>a. ASSUME NEW t \in Thread, NEW kind, At(t, kind), kind # "exclusive" PROVE t \notin queued
  BY <1>a DEF LockInv, QueueInv, At
<1>b. ASSUME NEW u \in Thread, At(u, "access") PROVE window = u
  BY <1>b DEF LockInv, AccessReachesItsTarget
<1>1. ASSUME NEW t \in Thread, Begin(t) PROVE LockInv'
  <2>1. PICK op \in Operations : todo' = [todo EXCEPT ![t] = op]
    BY <1>1 DEF Begin
  <2>2. UNCHANGED << owner, readers, writer, queued, window >> /\ todo[t] = << >>
    BY <1>1 DEF Begin
  <2>3. Runs({}, op) /\ (op # << >> => op[1].kind # "access") /\ op \in Seq(StepSet)
    BY OperationRuns DEF Runs, Trace
  <2>4. todo'[t] = op /\ \A u \in Thread \ { t } : todo'[u] = todo[u]
    BY <1>0, <2>1 DEF TypeInv
  <2>5. TypeInv'
    BY <1>0, <2>1, <2>2, <2>3 DEF TypeInv
  <2>6. Holding(t) = {}
    <3>1. PICK h : Trace(0, h, << >>) /\ h[1] = Holding(t)
      BY <2>2 DEF LockInv, RunInv, Runs
    <3> QED  BY <3>1 DEF Trace
  <2>7. \A u \in Thread : Holding(u)' = Holding(u)
    BY <2>2 DEF Holding
  <2>8. ASSUME NEW u \in Thread PROVE Runs(Holding(u)', todo'[u])
    BY <2>3, <2>4, <2>6, <2>7 DEF LockInv, RunInv
  <2>9. ASSUME NEW u \in queued' PROVE At(u, "exclusive")'
    <3>1. u \in Thread /\ At(u, "exclusive") /\ u # t
      BY <1>0, <2>2 DEF LockInv, QueueInv, TypeInv, At
    <3> QED  BY <2>4, <3>1 DEF At
  <2>10. ASSUME NEW u \in Thread, At(u, "access")' PROVE window' = u
    <3>1. op # << >> => Head(op) = op[1]
      BY <2>3
    <3>2. u # t
      BY <2>3, <2>4, <2>10, <3>1 DEF At
    <3> QED  BY <1>b, <2>2, <2>4, <2>10, <3>2 DEF At
  <2> QED  BY <2>5, <2>8, <2>9, <2>10 DEF LockInv, RunInv, QueueInv, AccessReachesItsTarget
<1>2. ASSUME NEW t \in Thread, Acquire(t) PROVE LockInv'
  <2>1. /\ At(t, "acquire") /\ owner[Lock(t)] = NoThread /\ Done(t)
        /\ owner' = [owner EXCEPT ![Lock(t)] = t]
        /\ UNCHANGED << readers, writer, queued, window >> /\ todo[t] # << >>
    BY <1>2 DEF Acquire, At
  <2>2. PICK l \in WaitLock : l = Lock(t)
    BY <2>1, NextStep
  <2>3. owner' \in [WaitLock -> Thread \cup { NoThread }]
        /\ \A m \in WaitLock : owner'[m] = IF m = l THEN t ELSE owner[m]
    BY <1>0, <2>1, <2>2 DEF TypeInv
  <2>4. Holding(t)' = Holding(t) \cup { Lock(t) }
    BY <2>1, <2>2, <2>3 DEF Holding
  <2>5. ASSUME NEW u \in Thread \ { t } PROVE Holding(u)' = Holding(u)
    BY <1>0, <2>1, <2>2, <2>3 DEF Holding
  <2>6. Runs(Holding(t)', Tail(todo[t]))
    BY <2>1, <2>4, NextStep
  <2>7. t \notin queued /\ ~At(t, "program")
    BY <1>a, <2>1 DEF At
  <2> QED  BY <1>0, <1>b, <2>1, <2>3, <2>5, <2>6, <2>7, FrameStep DEF TypeInv
<1>3. ASSUME NEW t \in Thread, Release(t) PROVE LockInv'
  <2>1. /\ At(t, "release") /\ Done(t)
        /\ owner' = [owner EXCEPT ![Lock(t)] = NoThread]
        /\ UNCHANGED << readers, writer, queued, window >> /\ todo[t] # << >>
    BY <1>3 DEF Release, At
  <2>2. PICK l \in WaitLock : l = Lock(t) /\ l \in Holding(t)
    BY <2>1, NextStep
  <2>3. owner' \in [WaitLock -> Thread \cup { NoThread }]
        /\ \A m \in WaitLock : owner'[m] = IF m = l THEN NoThread ELSE owner[m]
    BY <1>0, <2>1, <2>2 DEF TypeInv
  <2>4. owner[l] = t
    BY <1>0, <2>2 DEF Holding
  <2>5. Holding(t)' = Holding(t) \ { Lock(t) }
    BY <1>0, <2>1, <2>2, <2>3 DEF Holding
  <2>6. ASSUME NEW u \in Thread \ { t } PROVE Holding(u)' = Holding(u)
    BY <1>0, <2>1, <2>2, <2>3, <2>4 DEF Holding
  <2>7. Runs(Holding(t)', Tail(todo[t]))
    BY <2>1, <2>5, NextStep
  <2>8. t \notin queued /\ ~At(t, "program")
    BY <1>a, <2>1 DEF At
  <2> QED  BY <1>0, <1>b, <2>1, <2>3, <2>6, <2>7, <2>8, FrameStep DEF TypeInv
<1>4. ASSUME NEW t \in Thread, AcquireShared(t) PROVE LockInv'
  <2>1. /\ At(t, "shared") /\ Done(t) /\ readers' = readers \cup { t }
        /\ UNCHANGED << owner, writer, queued, window >> /\ todo[t] # << >>
    BY <1>4 DEF AcquireShared, At
  <2>2. Lock(t) = "ResetResource"
    BY <2>1, NextStep
  <2>3. Holding(t)' = Holding(t) \cup { Lock(t) }
    BY <2>1, <2>2 DEF Holding
  <2>4. ASSUME NEW u \in Thread \ { t } PROVE Holding(u)' = Holding(u)
    BY <2>1 DEF Holding
  <2>5. Runs(Holding(t)', Tail(todo[t]))
    BY <2>1, <2>3, NextStep
  <2>6. t \notin queued /\ ~At(t, "program")
    BY <1>a, <2>1 DEF At
  <2> QED  BY <1>0, <1>b, <2>1, <2>4, <2>5, <2>6, FrameStep DEF TypeInv
<1>5. ASSUME NEW t \in Thread, AcquireExclusive(t) PROVE LockInv'
  <2>1. /\ At(t, "exclusive") /\ Done(t) /\ writer = NoThread /\ writer' = t
        /\ queued' = queued \ { t }
        /\ UNCHANGED << owner, readers, window >> /\ todo[t] # << >>
    BY <1>5 DEF AcquireExclusive, At
  <2>2. Lock(t) = "ResetResource"
    BY <2>1, NextStep
  <2>3. Holding(t)' = Holding(t) \cup { Lock(t) }
    BY <2>1, <2>2 DEF Holding
  <2>4. ASSUME NEW u \in Thread \ { t } PROVE Holding(u)' = Holding(u)
    BY <1>0, <2>1 DEF Holding
  <2>5. Runs(Holding(t)', Tail(todo[t]))
    BY <2>1, <2>3, NextStep
  <2>6. ~At(t, "program")
    BY <2>1 DEF At
  <2> QED  BY <1>0, <1>b, <2>1, <2>4, <2>5, <2>6, FrameStep DEF TypeInv
<1>6. ASSUME NEW t \in Thread, QueueExclusive(t) PROVE LockInv'
  <2>1. /\ At(t, "exclusive") /\ queued' = queued \cup { t }
        /\ UNCHANGED << todo, owner, readers, writer, window >>
    BY <1>6 DEF QueueExclusive
  <2>2. TypeInv' /\ QueueInv' /\ AccessReachesItsTarget'
    BY <1>0, <2>1 DEF LockInv, TypeInv, QueueInv, AccessReachesItsTarget, At
  <2>3. ASSUME NEW u \in Thread PROVE Runs(Holding(u)', todo'[u])
    <3>1. Holding(u)' = Holding(u)
      BY <2>1 DEF Holding
    <3> QED  BY <2>1, <3>1 DEF LockInv, RunInv
  <2> QED  BY <2>2, <2>3 DEF LockInv, RunInv
<1>7. ASSUME NEW t \in Thread, Leave(t) PROVE LockInv'
  <2>1. /\ At(t, "leave") /\ Done(t) /\ readers' = readers \ { t }
        /\ writer' = IF writer = t THEN NoThread ELSE writer
        /\ UNCHANGED << owner, queued, window >> /\ todo[t] # << >>
    BY <1>7 DEF Leave, At
  <2>2. Lock(t) = "ResetResource"
    BY <2>1, NextStep
  <2>3. Holding(t)' = Holding(t) \ { Lock(t) }
    BY <1>0, <2>1, <2>2 DEF Holding
  <2>4. ASSUME NEW u \in Thread \ { t } PROVE Holding(u)' = Holding(u)
    <3>1. u \in readers' <=> u \in readers
      BY <2>1
    <3>2. writer' = u <=> writer = u
      BY <1>0, <2>1
    <3> QED  BY <2>1, <3>1, <3>2 DEF Holding
  <2>5. Runs(Holding(t)', Tail(todo[t]))
    BY <2>1, <2>3, NextStep
  <2>6. t \notin queued /\ ~At(t, "program")
    BY <1>a, <2>1 DEF At
  <2> QED  BY <1>0, <1>b, <2>1, <2>4, <2>5, <2>6, FrameStep DEF TypeInv
<1>8. ASSUME NEW t \in Thread, ConfigureKernelTlb(t) PROVE LockInv'
  <2>1. /\ At(t, "program") /\ Done(t) /\ window' = t
        /\ UNCHANGED << owner, readers, writer, queued >> /\ todo[t] # << >>
    BY <1>8 DEF ConfigureKernelTlb, At
  <2>2. \A u \in Thread : Holding(u)' = Holding(u)
    BY <2>1 DEF Holding
  <2>3. Runs(Holding(t)', Tail(todo[t]))
    BY <2>1, <2>2, NextStep
  <2>4. ASSUME NEW u \in Thread \ { t }, At(u, "access") PROVE FALSE
    <3>1. todo[u] # << >>
      BY <2>4 DEF At
    <3>2. "KernelTlbLock" \in Holding(t) /\ "KernelTlbLock" \in Holding(u)
      BY <2>1, <2>4, <3>1, NextStep
    <3> QED  BY <3>2 DEF Holding
  <2>5. t \notin queued
    BY <1>a, <2>1
  <2> QED  BY <1>0, <2>1, <2>2, <2>3, <2>4, <2>5, FrameStep DEF TypeInv
<1>9. ASSUME NEW t \in Thread, AccessWindow(t) PROVE LockInv'
  <2>1. /\ At(t, "access") /\ Done(t)
        /\ UNCHANGED << owner, readers, writer, queued, window >> /\ todo[t] # << >>
    BY <1>9 DEF AccessWindow, At
  <2>2. \A u \in Thread : Holding(u)' = Holding(u)
    BY <2>1 DEF Holding
  <2>3. Runs(Holding(t)', Tail(todo[t]))
    BY <2>1, <2>2, NextStep
  <2>4. t \notin queued /\ ~At(t, "program")
    BY <1>a, <2>1 DEF At
  <2> QED  BY <1>0, <1>b, <2>1, <2>2, <2>3, <2>4, FrameStep DEF TypeInv
<1>10. ASSUME UNCHANGED vars PROVE LockInv'
  <2>1. UNCHANGED << todo, owner, readers, writer, queued, window >>
    BY <1>10 DEF vars
  <2> QED
    BY <2>1 DEF LockInv, TypeInv, RunInv, QueueInv, AccessReachesItsTarget, Holding, At
<1> QED
  BY <1>1, <1>2, <1>3, <1>4, <1>5, <1>6, <1>7, <1>8, <1>9, <1>10 DEF Next

(* The invariant holds in every state of every behaviour.                  *)
LEMMA LockInvariant == Spec => []LockInv
BY LockInit, LockStep, PTL DEF Spec

-----------------------------------------------------------------------------
(* A thread waits for one that holds what it awaits, or that is queued before
   it for the reset resource.                                              *)
LEMMA Waits ==
  ASSUME LockInv, NEW t \in Thread, NEW u \in Thread, u \in Blockers(t)
  PROVE  /\ todo[t] # << >> /\ Rank(Lock(t)) \in 1 .. 7
         /\ \A m \in Holding(t) : Rank(m) < Rank(Lock(t))
         /\ \/ Lock(t) \in Holding(u)
            \/ /\ Lock(t) = "ResetResource" /\ At(u, "exclusive")
               /\ \A v \in Blockers(u) : "ResetResource" \in Holding(v)
<1>1. todo[t] # << >>
  BY DEF Blockers, At
<1>2. Rank(Lock(t)) \in 1 .. 7
  BY Ranks
<1>3. CASE At(t, "acquire") /\ owner[Lock(t)] = u
  BY <1>1, <1>2, <1>3, NextStep DEF Holding
<1>4. CASE (At(t, "shared") \/ At(t, "exclusive")) /\ (writer = u \/ u \in readers)
  BY <1>1, <1>2, <1>4, NextStep DEF Holding
<1>5. CASE At(t, "shared") /\ u \in queued
  <2>1. At(u, "exclusive")
    BY <1>5 DEF LockInv, QueueInv
  <2>2. ASSUME NEW v \in Blockers(u) PROVE "ResetResource" \in Holding(v)
    BY <2>1, <2>2 DEF Blockers, At, Holding
  <2> QED  BY <1>1, <1>2, <1>5, <2>1, <2>2, NextStep
<1> QED  BY <1>3, <1>4, <1>5 DEF Blockers

(* A set of threads that wait for one another would have a highest awaited
   lock; whoever holds that awaits a higher one.                           *)
LEMMA OrderPreventsDeadlock == LockInv => NoDeadlockedSet
<1> SUFFICES ASSUME LockInv, NEW S \in SUBSET Thread, S # {},
                    \A t \in S : Blockers(t) \cap S # {}
             PROVE  FALSE
  BY DEF NoDeadlockedSet
<1>1. ASSUME NEW t \in S PROVE \E u \in S : u \in Blockers(t)
  OBVIOUS
<1>2. ASSUME NEW t \in S
      PROVE  /\ Rank(Lock(t)) \in 1 .. 7
             /\ \A m \in Holding(t) : Rank(m) < Rank(Lock(t))
  BY <1>1, Waits
<1>3. PICK D : D = { 7 - Rank(Lock(t)) : t \in S }
  OBVIOUS
<1>4. D \in SUBSET Nat /\ D # {}
  BY <1>2, <1>3
<1>5. PICK d \in D : \A e \in D : d <= e
  BY <1>4, LeastOf
<1>6. PICK t \in S : d = 7 - Rank(Lock(t))
  BY <1>3, <1>5
<1>7. ASSUME NEW u \in S PROVE Rank(Lock(u)) <= Rank(Lock(t))
  <2>1. d <= 7 - Rank(Lock(u))
    BY <1>3, <1>5
  <2> QED  BY <1>2, <1>6, <2>1
<1>8. ASSUME NEW u \in S, Lock(t) \in Holding(u) PROVE FALSE
  <2>1. Rank(Lock(t)) < Rank(Lock(u))
    BY <1>2, <1>8
  <2> QED  BY <1>2, <1>7, <2>1
<1>9. PICK u \in S : u \in Blockers(t)
  BY <1>1
<1>10. CASE Lock(t) \in Holding(u)
  BY <1>8, <1>10
<1>11. CASE Lock(t) = "ResetResource" /\ \A v \in Blockers(u) : "ResetResource" \in Holding(v)
  <2>1. PICK v \in S : v \in Blockers(u)
    BY <1>1
  <2> QED  BY <1>8, <1>11, <2>1
<1> QED  BY <1>9, <1>10, <1>11, Waits

(***************************************************************************)
(* Whatever the number of threads and of open handles: no set of threads   *)
(* in the driver waits for itself, because every path takes its locks in   *)
(* one order (DeviceListLock, the reset resource, PowerLock, FileListLock, *)
(* handle locks, the rest, KernelTlbLock) and a reset queued for the       *)
(* resource is itself held up only by threads that are past it.            *)
(***************************************************************************)
THEOREM NoDeadlock == Spec => []NoDeadlockedSet
BY LockInvariant, OrderPreventsDeadlock, PTL

(***************************************************************************)
(* A NOC access through the kernel's one window reaches the target it was  *)
(* programmed for: both halves run under KernelTlbLock, on every path.     *)
(***************************************************************************)
THEOREM WindowIsNotShared == Spec => []AccessReachesItsTarget
<1>1. LockInv => AccessReachesItsTarget
  BY DEF LockInv
<1> QED  BY <1>1, LockInvariant, PTL
=============================================================================
