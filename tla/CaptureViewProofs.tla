-------------------------- MODULE CaptureViewProofs --------------------------
(***************************************************************************)
(* Proofs about CaptureView, for any number of request threads and ids,    *)
(* any sizes of the documents and any bound of the cache.                  *)
(***************************************************************************)
EXTENDS CaptureView, SequenceTheorems, WellFoundedInduction, TLAPS

-----------------------------------------------------------------------------
(* Single flight.                                                          *)

\* A thread leads a lookup exactly when the in-flight map names it for its id.
FlightInv ==
    /\ \A th \in Thread : pc[th] \in Leading => inflight[id[th]] = th
    /\ \A x \in Id : inflight[x] # NoThread => pc[inflight[x]] \in Leading /\ id[inflight[x]] = x

Inv == FlightType /\ FlightInv /\ WaiterHasLeader

LEMMA InitInv == Init => Inv
BY ViewAssumption DEF Init, Inv, FlightType, FlightInv, WaiterHasLeader, Leading

\* Steps that neither lead, follow, release nor wake.
LEMMA LocalInv ==
    ASSUME Inv, NEW th \in Thread,
           \/ Hit(th) \/ BuildDocument(th) \/ BuildRaises(th) \/ Store(th) \/ WaitTimesOut(th)
           \/ \E x \in Id : Arrive(th, x)
    PROVE  Inv'
<1> USE ViewAssumption
<1>1. FlightType'
  BY DEF Inv, FlightType, Hit, BuildDocument, BuildRaises, Store, WaitTimesOut, Arrive, Goto
<1>2. FlightInv'
  BY DEF Inv, FlightType, FlightInv, Leading, Hit, BuildDocument, BuildRaises, Store, WaitTimesOut,
     Arrive, Goto
<1>3. WaiterHasLeader'
  BY DEF Inv, FlightType, WaiterHasLeader, Leading, Hit, BuildDocument, BuildRaises, Store,
     WaitTimesOut, Arrive, Goto
<1>4. QED BY <1>1, <1>2, <1>3 DEF Inv

LEMMA LeadInv ==
    ASSUME Inv, NEW th \in Thread, Lead(th) PROVE Inv'
<1> USE ViewAssumption DEF Lead, Goto
<1>1. FlightType'
  BY DEF Inv, FlightType
<1>2. FlightInv'
  BY DEF Inv, FlightType, FlightInv, Leading
<1>3. WaiterHasLeader'
  BY DEF Inv, FlightType, WaiterHasLeader, Leading
<1>4. QED BY <1>1, <1>2, <1>3 DEF Inv

\* The thread followed is leading, so it has still to set its Event.
LEMMA FollowInv ==
    ASSUME Inv, NEW th \in Thread, Follow(th) PROVE Inv'
<1> USE ViewAssumption DEF Follow, Goto
<1>1. FlightType'
  BY DEF Inv, FlightType
<1>2. FlightInv'
  BY DEF Inv, FlightType, FlightInv, Leading
<1>3. inflight[id[th]] \in Thread /\ pc[inflight[id[th]]] \in Leading
  BY DEF Inv, FlightType, FlightInv
<1>4. WaiterHasLeader'
  BY <1>3 DEF Inv, FlightType, WaiterHasLeader, Leading
<1>5. QED BY <1>1, <1>2, <1>4 DEF Inv

LEMMA ReleaseInv ==
    ASSUME Inv, NEW th \in Thread, Release(th) PROVE Inv'
<1> USE ViewAssumption DEF Release, Goto
<1>1. FlightType'
  BY DEF Inv, FlightType
<1>2. FlightInv'
  BY DEF Inv, FlightType, FlightInv, Leading
<1>3. WaiterHasLeader'
  BY DEF Inv, FlightType, WaiterHasLeader, Leading
<1>4. QED BY <1>1, <1>2, <1>3 DEF Inv

\* Every waiter of the finished flight is woken with it.
LEMMA WakeInv ==
    ASSUME Inv, NEW th \in Thread, Wake(th) PROVE Inv'
<1> USE ViewAssumption DEF Wake
<1>1. FlightType'
  BY DEF Inv, FlightType
<1>2. FlightInv'
  BY DEF Inv, FlightType, FlightInv, Leading
<1>3. WaiterHasLeader'
  BY DEF Inv, FlightType, WaiterHasLeader, Leading
<1>4. QED BY <1>1, <1>2, <1>3 DEF Inv

LEMMA StepInv == Inv /\ [Next]_vars => Inv'
<1> SUFFICES ASSUME Inv, [Next]_vars PROVE Inv'
  OBVIOUS
<1>1. CASE UNCHANGED vars
  BY <1>1 DEF vars, Inv, FlightType, FlightInv, WaiterHasLeader
<1>2. ASSUME NEW x \in Id, Expire(x) PROVE Inv'
  BY <1>2 DEF Expire, Inv, FlightType, FlightInv, WaiterHasLeader
<1>3. ASSUME NEW th \in Thread, Answering(th) \/ WaitTimesOut(th) \/ \E x \in Id : Arrive(th, x)
      PROVE Inv'
  BY <1>3, LocalInv, LeadInv, FollowInv, ReleaseInv, WakeInv DEF Answering
<1>4. QED BY <1>1, <1>2, <1>3 DEF Next

\* At most one thread at a time looks a capture id up in Tempo.
THEOREM OneLookupPerCapture == Spec => []SingleFlight
<1>1. Inv => SingleFlight
  BY DEF Inv, FlightInv, SingleFlight
<1>2. QED BY InitInv, StepInv, <1>1, PTL DEF Spec

\* A waiting request always has a leader that has still to wake it.
THEOREM NoLostWakeUp == Spec => []WaiterHasLeader
<1>1. Inv => WaiterHasLeader
  BY DEF Inv
<1>2. QED BY InitInv, StepInv, <1>1, PTL DEF Spec

-----------------------------------------------------------------------------
(* Sizes.                                                                  *)

\* The least of some numbers.
LEMMA LeastOne ==
    ASSUME NEW S \in SUBSET Nat, S # {}
    PROVE  \E a \in S : \A b \in S : a <= b
<1> DEFINE R == OpToRel(<, Nat)
<1>1. PICK a \in S : \A b \in S : ~(<<b, a>> \in R)
  BY NatLessThanWellFounded, WFMin
<1>2. \A b \in S : a <= b
  <2> SUFFICES ASSUME NEW b \in S PROVE a <= b
    OBVIOUS
  <2>1. <<b, a>> \notin R
    BY <1>1
  <2> QED
    BY <2>1 DEF OpToRel
<1> QED
  BY <1>2

\* The sizes of a sequence of ids, added up from its first element.
Adds(s, f) ==
    /\ f \in [0 .. Len(s) -> Nat] /\ f[0] = 0
    /\ \A k \in 1 .. Len(s) : f[k] = f[k - 1] + SizeOf[s[k]]

LEMMA Adding ==
    ASSUME ViewAssumption, NEW s \in Seq(Id)
    PROVE  \E f : Adds(s, f)
<1> DEFINE Upto(n, f) == /\ f \in [0 .. n -> Nat] /\ f[0] = 0
                         /\ \A k \in 1 .. n : f[k] = f[k - 1] + SizeOf[s[k]]
           Bad == {n \in 0 .. Len(s) : ~ \E f : Upto(n, f)}
<1>1. Bad = {}
  <2> SUFFICES ASSUME Bad # {} PROVE FALSE
    OBVIOUS
  <2>1. Bad \subseteq Nat
    OBVIOUS
  <2>2. PICK n \in Bad : \A m \in Bad : n <= m
    BY <2>1, LeastOne
  <2>3. CASE n = 0
    <3>1. Upto(0, [k \in 0 .. 0 |-> 0])
      OBVIOUS
    <3> QED
      BY <2>3, <3>1
  <2>4. CASE n # 0
    <3>1. n - 1 \in 0 .. Len(s) /\ n \in 1 .. Len(s) /\ n - 1 \notin Bad
      <4>1. n \in 0 .. Len(s) /\ Len(s) \in Nat
        BY <2>2
      <4> HIDE DEF Bad
      <4>2. n - 1 \in Bad => n <= n - 1
        BY <2>2
      <4> QED
        BY <2>4, <4>1, <4>2
    <3>2. PICK f : Upto(n - 1, f)
      BY <3>1
    <3> DEFINE g == [k \in 0 .. n |-> IF k = n THEN f[n - 1] + SizeOf[s[n]] ELSE f[k]]
    <3>3. SizeOf[s[n]] \in Nat
      BY <3>1 DEF ViewAssumption
    <3>4. \A k \in 0 .. n - 1 : f[k] \in Nat
      BY <3>2
    <3>5. g \in [0 .. n -> Nat] /\ g[0] = 0 /\ g[n] = f[n - 1] + SizeOf[s[n]]
          /\ \A k \in 0 .. n - 1 : g[k] = f[k]
      BY <3>1, <3>2, <3>3, <3>4
    <3>6. \A k \in 1 .. n : g[k] = g[k - 1] + SizeOf[s[k]]
      <4> SUFFICES ASSUME NEW k \in 1 .. n PROVE g[k] = g[k - 1] + SizeOf[s[k]]
        OBVIOUS
      <4> HIDE DEF g
      <4>1. CASE k = n
        BY <3>1, <3>5, <4>1
      <4>2. CASE k # n
        BY <3>1, <3>2, <3>5, <4>2
      <4> QED
        BY <4>1, <4>2
    <3> HIDE DEF g
    <3> QED
      BY <3>5, <3>6
  <2> QED
    BY <2>3, <2>4
<1>2. PICK f : Upto(Len(s), f)
  <2>1. Len(s) \in 0 .. Len(s)
    OBVIOUS
  <2> HIDE DEF Upto
  <2> QED
    BY <1>1, <2>1
<1> QED
  BY <1>2 DEF Adds

LEMMA TotalIs ==
    ASSUME ViewAssumption, NEW s \in Seq(Id), NEW f, Adds(s, f)
    PROVE  Total(s) = f[Len(s)] /\ Total(s) \in Nat
<1> DEFINE size == CHOOSE g : g = [k \in 0 .. Len(s) |-> IF k = 0 THEN 0 ELSE g[k - 1] + SizeOf[s[k]]]
<1>1. f = [k \in 0 .. Len(s) |-> IF k = 0 THEN 0 ELSE f[k - 1] + SizeOf[s[k]]]
  BY DEF Adds
<1>2. size = [k \in 0 .. Len(s) |-> IF k = 0 THEN 0 ELSE size[k - 1] + SizeOf[s[k]]]
  BY <1>1
<1>3. Total(s) = size[Len(s)]
  BY DEF Total
<1> HIDE DEF size
<1>4. \A n \in 0 .. Len(s) : size[n] = f[n]
  <2> DEFINE Bad == {n \in 0 .. Len(s) : size[n] # f[n]}
  <2> SUFFICES ASSUME Bad # {} PROVE FALSE
    OBVIOUS
  <2>1. Bad \subseteq Nat
    OBVIOUS
  <2>2. PICK n \in Bad : \A m \in Bad : n <= m
    BY <2>1, LeastOne
  <2>3. n # 0
    BY <1>2 DEF Adds
  <2>4. n - 1 \in 0 .. Len(s) /\ n \in 1 .. Len(s) /\ n - 1 \notin Bad
    BY <2>2, <2>3
  <2>5. f[n] = f[n - 1] + SizeOf[s[n]] /\ size[n] = size[n - 1] + SizeOf[s[n]]
    BY <1>2, <2>4 DEF Adds
  <2> QED
    BY <2>4, <2>5
<1> QED
  BY <1>3, <1>4 DEF Adds

\* Appending an id, or removing one, changes the total by its size.
LEMMA TotalAppend ==
    ASSUME ViewAssumption, NEW s \in Seq(Id), NEW x \in Id
    PROVE  Total(Append(s, x)) = Total(s) + SizeOf[x]
<1>1. PICK f : Adds(s, f)
  BY Adding
<1> DEFINE n == Len(s)
           t == Append(s, x)
           g == [k \in 0 .. n + 1 |-> IF k = n + 1 THEN f[n] + SizeOf[x] ELSE f[k]]
<1>2. n \in Nat /\ SizeOf[x] \in Nat /\ t \in Seq(Id) /\ Len(t) = n + 1 /\ t[n + 1] = x
      /\ \A k \in 1 .. n : t[k] = s[k]
  BY DEF ViewAssumption
<1>3. \A k \in 0 .. n : f[k] \in Nat
  BY <1>1 DEF Adds
<1>4. g \in [0 .. n + 1 -> Nat] /\ g[0] = 0 /\ g[n + 1] = f[n] + SizeOf[x]
      /\ \A k \in 0 .. n : g[k] = f[k]
  BY <1>1, <1>2, <1>3 DEF Adds
<1> HIDE DEF t, g, n
<1>5. Adds(t, g)
  <2>1. \A k \in 1 .. n : f[k] = f[k - 1] + SizeOf[s[k]]
    BY <1>1 DEF Adds, n
  <2>2. \A k \in 1 .. n + 1 : g[k] = g[k - 1] + SizeOf[t[k]]
    <3> SUFFICES ASSUME NEW k \in 1 .. n + 1 PROVE g[k] = g[k - 1] + SizeOf[t[k]]
      OBVIOUS
    <3>1. CASE k = n + 1
      <4>1. k - 1 = n /\ n \in 0 .. n
        BY <1>2, <3>1
      <4> QED
        BY <1>2, <1>4, <3>1, <4>1
    <3>2. CASE k # n + 1
      <4>1. k \in 1 .. n /\ k \in 0 .. n /\ k - 1 \in 0 .. n
        BY <1>2, <3>2
      <4> QED
        BY <1>2, <1>4, <2>1, <4>1
    <3> QED
      BY <3>1, <3>2
  <2> QED
    BY <1>2, <1>4, <2>2 DEF Adds, n
<1>6. Total(s) = f[n] /\ Total(t) = g[n + 1]
  BY <1>1, <1>2, <1>5, TotalIs DEF n
<1> QED
  BY <1>4, <1>6 DEF t

LEMMA Removing ==
    ASSUME NEW S, NEW s \in Seq(S), NEW i \in 1 .. Len(s)
    PROVE  /\ RemoveAt(s, i) \in Seq(S) /\ Len(RemoveAt(s, i)) = Len(s) - 1
           /\ \A k \in 1 .. Len(s) - 1 : RemoveAt(s, i)[k] = IF k < i THEN s[k] ELSE s[k + 1]
<1> DEFINE a == SubSeq(s, 1, i - 1)
           b == SubSeq(s, i + 1, Len(s))
<1>1. a \in Seq(S) /\ Len(a) = i - 1 /\ \A k \in 1 .. i - 1 : a[k] = s[k]
  OBVIOUS
<1>2. b \in Seq(S) /\ Len(b) = Len(s) - i /\ \A k \in 1 .. Len(s) - i : b[k] = s[i + k]
  OBVIOUS
<1> HIDE DEF a, b
<1>3. RemoveAt(s, i) = a \o b
  BY DEF RemoveAt, a, b
<1>4. (a \o b) \in Seq(S) /\ Len(a \o b) = Len(s) - 1
  <2>1. Len(a \o b) = Len(a) + Len(b) /\ (a \o b) \in Seq(S)
    BY <1>1, <1>2, ConcatProperties
  <2> QED
    BY <1>1, <1>2, <2>1
<1>5. \A k \in 1 .. Len(s) - 1 : (a \o b)[k] = IF k < i THEN s[k] ELSE s[k + 1]
  <2> SUFFICES ASSUME NEW k \in 1 .. Len(s) - 1
               PROVE  (a \o b)[k] = IF k < i THEN s[k] ELSE s[k + 1]
    OBVIOUS
  <2>1. CASE k < i
    BY <1>1, <1>2, <2>1
  <2>2. CASE ~(k < i)
    <3>1. (a \o b)[k] = b[k - (i - 1)] /\ k - (i - 1) \in 1 .. Len(s) - i
      BY <1>1, <1>2, <2>2
    <3> QED
      BY <1>2, <2>2, <3>1
  <2> QED
    BY <2>1, <2>2
<1> QED
  BY <1>3, <1>4, <1>5

LEMMA TotalRemove ==
    ASSUME ViewAssumption, NEW s \in Seq(Id), NEW i \in 1 .. Len(s)
    PROVE  Total(RemoveAt(s, i)) = Total(s) - SizeOf[s[i]]
<1>1. PICK f : Adds(s, f)
  BY Adding
<1> DEFINE n == Len(s)
           t == RemoveAt(s, i)
           g == [k \in 0 .. n - 1 |-> IF k < i THEN f[k] ELSE f[k + 1] - SizeOf[s[i]]]
<1>2. n \in Nat /\ t \in Seq(Id) /\ Len(t) = n - 1
      /\ \A k \in 1 .. n - 1 : t[k] = IF k < i THEN s[k] ELSE s[k + 1]
  BY Removing
<1>3. (\A k \in 0 .. n : f[k] \in Nat) /\ (\A k \in 1 .. n : f[k] = f[k - 1] + SizeOf[s[k]]) /\ f[0] = 0
  BY <1>1 DEF Adds
<1>4. \A k \in 1 .. n : SizeOf[s[k]] \in Nat
  BY DEF ViewAssumption
<1>5. \A k \in i .. n : f[k] - SizeOf[s[i]] \in Nat
  <2> DEFINE Bad == {k \in i .. n : ~(f[k] >= SizeOf[s[i]])}
  <2>1. Bad = {}
    <3> SUFFICES ASSUME Bad # {} PROVE FALSE
      OBVIOUS
    <3>1. Bad \subseteq Nat
      OBVIOUS
    <3>2. PICK k \in Bad : \A m \in Bad : k <= m
      BY <3>1, LeastOne
    <3>3. k \in 1 .. n /\ k - 1 \in 0 .. n /\ i \in 1 .. n
      BY <1>2
    <3>4. f[k] = f[k - 1] + SizeOf[s[k]] /\ f[k - 1] \in Nat /\ SizeOf[s[k]] \in Nat /\ SizeOf[s[i]] \in Nat
      BY <1>3, <1>4, <3>3
    <3>5. CASE k = i
      BY <3>4, <3>5
    <3>6. CASE k # i
      <4>1. k - 1 \in i .. n
        BY <3>3, <3>6
      <4>2. k - 1 \notin Bad
        BY <3>2, <3>3
      <4> QED
        BY <3>4, <4>1, <4>2
    <3> QED
      BY <3>5, <3>6
  <2> SUFFICES ASSUME NEW k \in i .. n PROVE f[k] - SizeOf[s[i]] \in Nat
    OBVIOUS
  <2>2. f[k] \in Nat /\ SizeOf[s[i]] \in Nat
    BY <1>2, <1>3, <1>4
  <2>3. f[k] >= SizeOf[s[i]]
    BY <2>1
  <2> QED
    BY <2>2, <2>3
<1> HIDE DEF n, t
<1>6. g \in [0 .. n - 1 -> Nat]
  <2> SUFFICES ASSUME NEW k \in 0 .. n - 1 PROVE g[k] \in Nat
    OBVIOUS
  <2>1. CASE k < i
    BY <1>2, <1>3, <2>1
  <2>2. CASE ~(k < i)
    BY <1>2, <1>5, <2>2 DEF n
  <2> QED
    BY <2>1, <2>2
<1>7. \A k \in 0 .. n - 1 : g[k] = IF k < i THEN f[k] ELSE f[k + 1] - SizeOf[s[i]]
  OBVIOUS
<1>8. i \in 1 .. n
  BY DEF n
<1> HIDE DEF g
<1>9. \A k \in 1 .. n - 1 : g[k] = g[k - 1] + SizeOf[t[k]]
  <2> SUFFICES ASSUME NEW k \in 1 .. n - 1 PROVE g[k] = g[k - 1] + SizeOf[t[k]]
    OBVIOUS
  <2>1. k \in 1 .. n /\ k + 1 \in 1 .. n /\ k - 1 \in 0 .. n - 1 /\ k \in 0 .. n - 1
    BY <1>2
  <2>2. f[k] = f[k - 1] + SizeOf[s[k]] /\ f[k + 1] = f[k] + SizeOf[s[k + 1]]
    BY <1>3, <2>1
  <2>3. /\ f[k] \in Nat /\ f[k - 1] \in Nat /\ f[k + 1] \in Nat /\ SizeOf[s[k]] \in Nat
        /\ SizeOf[s[k + 1]] \in Nat /\ SizeOf[s[i]] \in Nat
    <3>1. k - 1 \in 0 .. n /\ k \in 0 .. n /\ k + 1 \in 0 .. n
      BY <1>2, <2>1
    <3> QED
      BY <1>3, <1>4, <1>8, <2>1, <3>1
  <2>4. CASE k < i
    <3>1. t[k] = s[k] /\ g[k] = f[k] /\ k - 1 < i
      BY <1>2, <1>7, <1>8, <2>1, <2>4
    <3>2. g[k - 1] = f[k - 1]
      BY <1>7, <2>1, <3>1
    <3> QED
      BY <2>2, <3>1, <3>2
  <2>5. CASE k = i
    <3>1. t[k] = s[k + 1] /\ g[k] = f[k + 1] - SizeOf[s[i]] /\ k - 1 < i
      BY <1>2, <1>7, <1>8, <2>1, <2>5
    <3>2. g[k - 1] = f[k - 1]
      BY <1>7, <2>1, <3>1
    <3>3. f[k] = f[k - 1] + SizeOf[s[i]]
      BY <2>2, <2>5
    <3> DEFINE p == f[k - 1]
               q == f[k + 1]
               u == SizeOf[s[k + 1]]
               v == SizeOf[s[i]]
    <3>4. p \in Nat /\ q \in Nat /\ u \in Nat /\ v \in Nat /\ q = (p + v) + u
      BY <2>2, <2>3, <3>3
    <3>5. g[k] = q - v /\ g[k - 1] = p /\ SizeOf[t[k]] = u
      BY <3>1, <3>2
    <3> HIDE DEF p, q, u, v
    <3> QED
      BY <3>4, <3>5
  <2>6. CASE k > i
    <3>1. t[k] = s[k + 1] /\ g[k] = f[k + 1] - SizeOf[s[i]]
      BY <1>2, <1>7, <1>8, <2>1, <2>6
    <3>2. g[k - 1] = f[k] - SizeOf[s[i]]
      BY <1>7, <1>8, <2>1, <2>6
    <3> DEFINE p == f[k]
               q == f[k + 1]
               u == SizeOf[s[k + 1]]
               v == SizeOf[s[i]]
    <3>3. p \in Nat /\ q \in Nat /\ u \in Nat /\ v \in Nat /\ q = p + u
      BY <2>2, <2>3
    <3>4. g[k] = q - v /\ g[k - 1] = p - v /\ SizeOf[t[k]] = u
      BY <3>1, <3>2
    <3> HIDE DEF p, q, u, v
    <3> QED
      BY <3>3, <3>4
  <2> QED
    BY <1>8, <2>1, <2>4, <2>5, <2>6
<1>10. Adds(t, g)
  BY <1>2, <1>3, <1>6, <1>7, <1>8, <1>9 DEF Adds
<1>11. Total(s) = f[n] /\ Total(t) = g[n - 1]
  BY <1>1, <1>2, <1>10, TotalIs DEF n
<1>12. g[n - 1] = f[n] - SizeOf[s[i]]
  <2>1. n - 1 \in 0 .. n - 1 /\ n \in 1 .. n
    BY <1>2, <1>8
  <2>2. f[n] = f[n - 1] + SizeOf[s[n]] /\ f[n - 1] \in Nat /\ SizeOf[s[n]] \in Nat
    BY <1>2, <1>3, <1>4, <2>1
  <2>3. CASE i = n
    BY <1>2, <1>7, <2>1, <2>2, <2>3
  <2>4. CASE i # n
    <3>1. ~(n - 1 < i) /\ (n - 1) + 1 = n
      BY <1>2, <1>8, <2>4
    <3> QED
      BY <1>7, <2>1, <3>1
  <2> QED
    BY <2>3, <2>4
<1> QED
  BY <1>11, <1>12 DEF t

-----------------------------------------------------------------------------
(* The cache.                                                              *)

\* Removing an id from a cache that holds it once.
LEMMA WithoutIt ==
    ASSUME ViewAssumption, NEW s \in Seq(Id), NEW x \in Id,
           \A i, j \in 1 .. Len(s) : s[i] = s[j] => i = j
    PROVE  /\ Without(s, x) \in Seq(Id)
           /\ \A i, j \in 1 .. Len(Without(s, x)) : Without(s, x)[i] = Without(s, x)[j] => i = j
           /\ Entries(Without(s, x)) = Entries(s) \ {x}
           /\ x \notin Entries(s) => Without(s, x) = s
           /\ x \in Entries(s) => Len(Without(s, x)) = Len(s) - 1
                               /\ Total(Without(s, x)) = Total(s) - SizeOf[x]
<1>1. CASE x \notin Entries(s)
  BY <1>1 DEF Without, Entries
<1>2. CASE x \in Entries(s)
  <2> DEFINE i == CHOOSE k \in 1 .. Len(s) : s[k] = x
             t == RemoveAt(s, i)
             n == Len(s)
  <2>1. i \in 1 .. n /\ s[i] = x
    BY <1>2 DEF Entries
  <2>2. Without(s, x) = t
    BY <1>2 DEF Without
  <2> HIDE DEF i
  <2>3. /\ t \in Seq(Id) /\ Len(t) = n - 1 /\ n \in Nat
        /\ \A k \in 1 .. n - 1 : t[k] = IF k < i THEN s[k] ELSE s[k + 1]
    <3>1. s \in Seq(Id) /\ i \in 1 .. Len(s) /\ Len(s) \in Nat
      BY <2>1
    <3>2. /\ RemoveAt(s, i) \in Seq(Id) /\ Len(RemoveAt(s, i)) = Len(s) - 1
          /\ \A k \in 1 .. Len(s) - 1 : RemoveAt(s, i)[k] = IF k < i THEN s[k] ELSE s[k + 1]
      BY <3>1, Removing
    <3> QED
      BY <3>1, <3>2
  <2>4. Total(t) = Total(s) - SizeOf[x]
    BY <2>1, TotalRemove
  <2> HIDE DEF t
  <2>5. \A j, k \in 1 .. Len(t) : t[j] = t[k] => j = k
    <3> SUFFICES ASSUME NEW j \in 1 .. n - 1, NEW k \in 1 .. n - 1, j < k PROVE t[j] # t[k]
      BY <2>3
    <3>1. j \in 1 .. n /\ k \in 1 .. n /\ j + 1 \in 1 .. n /\ k + 1 \in 1 .. n
      BY <2>3
    <3> DEFINE at(l) == IF l < i THEN l ELSE l + 1
    <3>2. t[j] = s[at(j)] /\ t[k] = s[at(k)]
      BY <2>3
    <3>3. at(j) \in 1 .. n /\ at(k) \in 1 .. n /\ at(j) # at(k)
      BY <2>1, <3>1
    <3> HIDE DEF at
    <3> QED
      BY <3>2, <3>3
  <2>6. Entries(t) = Entries(s) \ {x}
    <3>1. ASSUME NEW k \in 1 .. n - 1 PROVE t[k] \in Entries(s) \ {x}
      <4>1. k \in 1 .. n /\ k + 1 \in 1 .. n
        BY <2>3
      <4>2. PICK l \in {k, k + 1} : t[k] = s[l] /\ l # i
        BY <2>1, <2>3
      <4>3. s[l] # x
        BY <2>1, <4>1, <4>2
      <4> QED
        BY <4>1, <4>2, <4>3 DEF Entries
    <3>2. ASSUME NEW k \in 1 .. n, s[k] # x PROVE s[k] \in Entries(t)
      <4>1. CASE k < i
        <5>1. k \in 1 .. n - 1 /\ t[k] = s[k]
          BY <2>1, <2>3, <4>1
        <5> QED
          BY <2>3, <5>1 DEF Entries
      <4>2. CASE k > i
        <5>1. k - 1 \in 1 .. n - 1 /\ t[k - 1] = s[k]
          BY <2>1, <2>3, <4>2
        <5> QED
          BY <2>3, <5>1 DEF Entries
      <4> QED
        BY <2>1, <2>3, <3>2, <4>1, <4>2
    <3> QED
      <4>1. Entries(t) = {t[k] : k \in 1 .. n - 1}
        BY <2>3 DEF Entries
      <4>2. Entries(s) = {s[k] : k \in 1 .. n}
        BY DEF Entries
      <4> HIDE DEF n
      <4>3. Entries(t) \subseteq Entries(s) \ {x}
        BY <3>1, <4>1
      <4>4. Entries(s) \ {x} \subseteq Entries(t)
        BY <3>2, <4>2
      <4> HIDE DEF t
      <4> QED
        BY <4>3, <4>4
  <2> QED
    BY <1>2, <2>2, <2>3, <2>4, <2>5, <2>6
<1> QED
  BY <1>1, <1>2

\* Appending one that it does not hold.
LEMMA AppendIt ==
    ASSUME ViewAssumption, NEW s \in Seq(Id), NEW x \in Id, x \notin Entries(s),
           \A i, j \in 1 .. Len(s) : s[i] = s[j] => i = j
    PROVE  /\ Append(s, x) \in Seq(Id) /\ Len(Append(s, x)) = Len(s) + 1
           /\ \A i, j \in 1 .. Len(Append(s, x)) : Append(s, x)[i] = Append(s, x)[j] => i = j
           /\ Entries(Append(s, x)) = Entries(s) \cup {x}
<1> DEFINE n == Len(s)
           t == Append(s, x)
<1>1. n \in Nat /\ t \in Seq(Id) /\ Len(t) = n + 1 /\ t[n + 1] = x /\ \A k \in 1 .. n : t[k] = s[k]
  OBVIOUS
<1>2. \A k \in 1 .. n : s[k] # x
  BY DEF Entries
<1> HIDE DEF t
<1>3. \A i, j \in 1 .. n + 1 : t[i] = t[j] => i = j
  <2> SUFFICES ASSUME NEW i \in 1 .. n + 1, NEW j \in 1 .. n + 1, i < j PROVE t[i] # t[j]
    <3>1. \A i, j \in 1 .. n + 1 : i \in Int /\ j \in Int
      BY <1>1
    <3> HIDE DEF n
    <3> QED
      BY <3>1
  <2>1. i \in 1 .. n
    BY <1>1
  <2>2. CASE j = n + 1
    BY <1>1, <1>2, <2>1, <2>2
  <2>3. CASE j # n + 1
    <3>1. j \in 1 .. n
      BY <1>1, <2>3
    <3> QED
      BY <1>1, <2>1, <3>1
  <2> QED
    BY <2>2, <2>3
<1>4. Entries(t) = Entries(s) \cup {x}
  <2>1. \A k \in 1 .. n + 1 : k \in 1 .. n \/ k = n + 1
    BY <1>1
  <2>2. n + 1 \in 1 .. n + 1 /\ \A k \in 1 .. n : k \in 1 .. n + 1
    BY <1>1
  <2>3. Entries(t) = {t[k] : k \in 1 .. n + 1}
    BY <1>1 DEF Entries
  <2>4. Entries(s) = {t[k] : k \in 1 .. n}
    <3>1. Entries(s) = {s[k] : k \in 1 .. n}
      BY DEF Entries
    <3>2. \A k \in 1 .. n : t[k] = s[k]
      BY <1>1
    <3> HIDE DEF n
    <3> QED
      BY <3>1, <3>2
  <2> HIDE DEF n
  <2> QED
    BY <1>1, <2>1, <2>2, <2>3, <2>4
<1> QED
  BY <1>1, <1>3, <1>4 DEF t

\* Evicting ends within the bound or with the last entry.
LEMMA Evicting ==
    ASSUME ViewAssumption, NEW s \in Seq(Id), s # <<>>,
           \A i, j \in 1 .. Len(s) : s[i] = s[j] => i = j
    PROVE  /\ Evict(s) \in Seq(Id)
           /\ Total(Evict(s)) <= MaxBytes \/ Len(Evict(s)) = 1
           /\ \A i, j \in 1 .. Len(Evict(s)) : Evict(s)[i] = Evict(s)[j] => i = j
<1> DEFINE n == Len(s)
           Fits(k) == Total(SubSeq(s, k, n)) <= MaxBytes \/ k = n
           K == {k \in 1 .. n : Fits(k)}
           m == Min(K)
<1>1. n \in Nat /\ n \in K
  OBVIOUS
<1>2. m \in K
  <2>1. K \subseteq Nat /\ K # {}
    BY <1>1
  <2>2. \E k \in K : \A j \in K : k <= j
    BY <2>1, LeastOne
  <2> HIDE DEF K
  <2> QED
    BY <2>2 DEF Min
<1>3. Evict(s) = SubSeq(s, m, n)
  BY DEF Evict
<1> HIDE DEF m
<1> DEFINE t == SubSeq(s, m, n)
<1>4. m \in 1 .. n /\ (Total(t) <= MaxBytes \/ m = n)
  BY <1>2
<1>5. t \in Seq(Id) /\ Len(t) = (n - m) + 1 /\ \A k \in 1 .. (n - m) + 1 : t[k] = s[(m + k) - 1]
  BY <1>4
<1> HIDE DEF t, n, K
<1>6. m = n => Len(t) = 1
  BY <1>1, <1>5
<1>7. \A i, j \in 1 .. Len(t) : t[i] = t[j] => i = j
  <2> SUFFICES ASSUME NEW i \in 1 .. (n - m) + 1, NEW j \in 1 .. (n - m) + 1, t[i] = t[j] PROVE i = j
    BY <1>5
  <2>1. (m + i) - 1 \in 1 .. n /\ (m + j) - 1 \in 1 .. n
    BY <1>1, <1>4
  <2>2. (m + i) - 1 = (m + j) - 1
    BY <1>5, <2>1 DEF n
  <2> QED
    BY <1>1, <1>4, <2>2
<1> QED
  BY <1>3, <1>4, <1>5, <1>6, <1>7 DEF t

\* The sequence of entries; CacheBounded is inductive with it and the types.
CacheInv == cache \in Seq(Id) /\ CacheBounded

LEMMA InitCache == ViewAssumption /\ Init => CacheInv
<1> SUFFICES ASSUME ViewAssumption, Init PROVE CacheInv
  OBVIOUS
<1>1. Total(<<>>) = 0
  <2> DEFINE f == [k \in 0 .. 0 |-> 0]
  <2>1. Adds(<<>>, f)
    BY DEF Adds
  <2>2. <<>> \in Seq(Id) /\ Len(<<>>) = 0 /\ f[0] = 0
    OBVIOUS
  <2> HIDE DEF f
  <2>3. Total(<<>>) = f[Len(<<>>)]
    BY <2>1, <2>2, TotalIs
  <2> QED
    BY <2>2, <2>3
<1> QED
  BY <1>1 DEF Init, CacheInv, CacheBounded, Entries, ViewAssumption

\* A hit moves its entry to the end.
LEMMA HitCache ==
    ASSUME ViewAssumption, FlightType, CacheInv, NEW th \in Thread, Hit(th) PROVE CacheInv'
<1> DEFINE x == id[th]
           w == Without(cache, x)
<1>1. x \in Id /\ x \in Entries(cache) /\ cache' = Append(w, x) /\ fresh' = fresh
  BY DEF FlightType, CacheInv, CacheBounded, Hit
<1> HIDE DEF x
<1>2. /\ w \in Seq(Id) /\ \A i, j \in 1 .. Len(w) : w[i] = w[j] => i = j
      /\ Entries(w) = Entries(cache) \ {x} /\ Len(w) = Len(cache) - 1
      /\ Total(w) = Total(cache) - SizeOf[x]
  BY <1>1, WithoutIt DEF CacheInv, CacheBounded
<1> HIDE DEF w
<1>3. /\ cache' \in Seq(Id) /\ Len(cache') = Len(w) + 1
      /\ \A i, j \in 1 .. Len(cache') : cache'[i] = cache'[j] => i = j
      /\ Entries(cache') = Entries(w) \cup {x}
  BY <1>1, <1>2, AppendIt
<1>4. Total(cache') = Total(w) + SizeOf[x]
  BY <1>1, <1>2, TotalAppend
<1>5. Total(cache) \in Nat /\ SizeOf[x] \in Nat /\ Len(cache) \in Nat
  <2>1. PICK f : Adds(cache, f)
    BY Adding DEF CacheInv
  <2> QED
    BY <1>1, <2>1, TotalIs DEF CacheInv, ViewAssumption
<1>6. Total(cache') = Total(cache) /\ Len(cache') = Len(cache)
  BY <1>2, <1>3, <1>4, <1>5
<1>7. Entries(cache') = Entries(cache)
  BY <1>1, <1>2, <1>3
<1> QED
  BY <1>1, <1>3, <1>6, <1>7 DEF CacheInv, CacheBounded

\* A miss drops the expired entry.
LEMMA MissCache ==
    ASSUME ViewAssumption, FlightType, CacheInv, NEW th \in Thread, Lead(th) \/ Follow(th)
    PROVE  CacheInv'
<1> DEFINE x == id[th]
           w == Without(cache, x)
<1>1. x \in Id /\ x \notin fresh /\ cache' = w /\ fresh' = fresh
  BY DEF FlightType, Lead, Follow
<1> HIDE DEF x
<1>2. /\ w \in Seq(Id) /\ \A i, j \in 1 .. Len(w) : w[i] = w[j] => i = j
      /\ Entries(w) = Entries(cache) \ {x} /\ (x \notin Entries(cache) => w = cache)
      /\ x \in Entries(cache) => Len(w) = Len(cache) - 1 /\ Total(w) = Total(cache) - SizeOf[x]
  BY <1>1, WithoutIt DEF CacheInv, CacheBounded
<1> HIDE DEF w
<1>3. Total(w) <= MaxBytes \/ Len(w) = 1
  <2>1. CASE x \notin Entries(cache)
    BY <1>2, <2>1 DEF CacheInv, CacheBounded
  <2>2. CASE x \in Entries(cache)
    <3>1. PICK f : Adds(cache, f)
      BY Adding DEF CacheInv
    <3>2. PICK g : Adds(w, g)
      BY <1>2, Adding
    <3>3. /\ Total(cache) \in Nat /\ Total(w) \in Nat /\ Total(w) = g[Len(w)] /\ g[0] = 0
          /\ SizeOf[x] \in Nat /\ MaxBytes \in Nat /\ Len(w) = Len(cache) - 1
          /\ Total(w) = Total(cache) - SizeOf[x]
      BY <1>1, <1>2, <2>2, <3>1, <3>2, TotalIs DEF CacheInv, ViewAssumption, Adds
    <3>4. CASE Total(cache) <= MaxBytes
      BY <3>3, <3>4
    <3>5. CASE Len(cache) = 1
      BY <3>3, <3>5
    <3> QED
      BY <3>4, <3>5 DEF CacheInv, CacheBounded
  <2> QED
    BY <2>1, <2>2
<1> QED
  BY <1>1, <1>2, <1>3 DEF CacheInv, CacheBounded

\* A document is stored at the end, and what does not fit is evicted.
LEMMA StoreCache ==
    ASSUME ViewAssumption, FlightType, CacheInv, NEW th \in Thread, Store(th) PROVE CacheInv'
<1> DEFINE x == id[th]
           w == Without(cache, x)
           a == Append(w, x)
<1>1. x \in Id /\ cache' = Evict(a) /\ fresh' \subseteq Entries(cache')
  BY DEF FlightType, Store
<1> HIDE DEF x
<1>2. /\ w \in Seq(Id) /\ \A i, j \in 1 .. Len(w) : w[i] = w[j] => i = j
      /\ Entries(w) = Entries(cache) \ {x}
  BY <1>1, WithoutIt DEF CacheInv, CacheBounded
<1> HIDE DEF w
<1>3. a \in Seq(Id) /\ Len(a) = Len(w) + 1 /\ \A i, j \in 1 .. Len(a) : a[i] = a[j] => i = j
  BY <1>1, <1>2, AppendIt
<1>4. a # <<>>
  BY <1>2
<1> HIDE DEF a
<1>5. /\ cache' \in Seq(Id)
      /\ Total(cache') <= MaxBytes \/ Len(cache') = 1
      /\ \A i, j \in 1 .. Len(cache') : cache'[i] = cache'[j] => i = j
  BY <1>1, <1>3, <1>4, Evicting
<1> QED
  BY <1>1, <1>5 DEF CacheInv, CacheBounded

LEMMA StepCache == ViewAssumption /\ FlightType /\ CacheInv /\ [Next]_vars => CacheInv'
<1> SUFFICES ASSUME ViewAssumption, FlightType, CacheInv, [Next]_vars PROVE CacheInv'
  OBVIOUS
<1>1. ASSUME cache' = cache, fresh' \subseteq fresh PROVE CacheInv'
  BY <1>1 DEF CacheInv, CacheBounded, Entries
<1>2. ASSUME NEW th \in Thread, Answering(th) PROVE CacheInv'
  BY <1>1, <1>2, HitCache, MissCache, StoreCache DEF Answering, BuildDocument, BuildRaises, Release, Wake
<1> QED
  BY <1>1, <1>2 DEF Next, WaitTimesOut, Arrive, Expire, vars

\* The cache holds no more than CACHE_MAX_BYTES or a single document, no id
\* twice, and everything fresh (_cached_document, _store).
THEOREM CacheStaysBounded == Spec => []CacheBounded
<1>1. Init => Inv /\ CacheInv
  BY ViewAssumption, InitInv, InitCache
<1>2. Inv /\ CacheInv /\ [Next]_vars => (Inv /\ CacheInv)'
  BY ViewAssumption, StepInv, StepCache DEF Inv
<1>3. Inv /\ CacheInv => CacheBounded
  BY DEF CacheInv
<1>4. QED BY <1>1, <1>2, <1>3, PTL DEF Spec
====
