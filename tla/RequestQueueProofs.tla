-------------------------- MODULE RequestQueueProofs --------------------------
(***************************************************************************)
(* Proofs about RequestQueue, for any requests, io_contexts, durations and *)
(* clock: the request that expires first is timed, the list and the        *)
(* multimap agree, and the queue implements WaitQueue, which is what the   *)
(* asynchronous pool relies on.                                            *)
(***************************************************************************)
EXTENDS RequestQueue, FiniteSetTheorems, TLAPS

-----------------------------------------------------------------------------
(* Induction over the natural numbers, for a set of them.                  *)
LEMMA InductionOver ==
  ASSUME NEW S, 0 \in S, \A n \in Nat : n \in S => n + 1 \in S
  PROVE  Nat \subseteq S
<1> DEFINE T == Nat \ S
           R == OpToRel(<, Nat)
<1> SUFFICES ASSUME T # {} PROVE FALSE
  OBVIOUS
<1>1. IsWellFoundedOn(R, Nat)
  BY NatLessThanWellFounded, Zenon
<1>2. \A x, y \in Nat : x < y => <<x, y>> \in R
  BY DEF OpToRel
<1> HIDE DEF R
<1>3. T \subseteq Nat
  OBVIOUS
<1> HIDE DEF T
<1>4. PICK x \in T : \A y \in T : <<y, x>> \notin R
  BY <1>1, <1>3, WFMin, Zenon
<1> USE DEF T
<1>5. x \in Nat /\ x # 0
  BY <1>4
<1>6. x - 1 \in Nat /\ x - 1 < x /\ (x - 1) + 1 = x
  BY <1>5
<1>7. x - 1 \in S
  BY <1>2, <1>4, <1>5, <1>6, Zenon
<1> QED
  BY <1>4, <1>6, <1>7

(* Which pairs are in order in a list (Before).                            *)
LEMMA BeforeIs ==
  ASSUME NEW s \in Seq(Requests)
  PROVE  \A a, b : <<a, b>> \in Before(s) <=> \E i, j \in DOMAIN s : i < j /\ s[i] = a /\ s[j] = b
<1> TAKE a, b
<1>1. ASSUME <<a, b>> \in Before(s)
      PROVE  \E i, j \in DOMAIN s : i < j /\ s[i] = a /\ s[j] = b
  <2>1. PICK p \in (DOMAIN s) \X (DOMAIN s) : p[1] < p[2] /\ <<a, b>> = <<s[p[1]], s[p[2]]>>
    BY <1>1 DEF Before
  <2>2. p[1] \in DOMAIN s /\ p[2] \in DOMAIN s
    BY <2>1
  <2>3. a = s[p[1]] /\ b = s[p[2]]
    BY <2>1
  <2> QED
    BY <2>1, <2>2, <2>3, Zenon
<1>2. ASSUME NEW i \in DOMAIN s, NEW j \in DOMAIN s, i < j
      PROVE  <<s[i], s[j]>> \in Before(s)
  <2> DEFINE p == <<i, j>>
  <2>1. p \in {q \in (DOMAIN s) \X (DOMAIN s) : q[1] < q[2]} /\ p[1] = i /\ p[2] = j
    BY <1>2
  <2> HIDE DEF p
  <2> QED
    BY <2>1 DEF Before
<1> QED
  BY <1>1, <1>2, Zenon

(* Pairs are all there is in Before.                                       *)
LEMMA BeforePairs ==
  ASSUME NEW s \in Seq(Requests)
  PROVE  \A p \in Before(s) : p = <<p[1], p[2]>>
BY DEF Before

(* What Without computes for the first n elements of the list.             *)
KeepsFrom(t, s, gone, n) ==
  /\ t \in Seq(Requests)
  /\ \A x : (\E i \in DOMAIN t : t[i] = x) <=> (x \notin gone /\ \E i \in 1..n : s[i] = x)
  /\ \A x, y : (\E i, j \in DOMAIN t : i < j /\ t[i] = x /\ t[j] = y)
                 <=> (x \notin gone /\ y \notin gone /\ \E i, j \in 1..n : i < j /\ s[i] = x /\ s[j] = y)

(* An element that stays is put behind those that stayed before it.        *)
LEMMA KeepsMore ==
  ASSUME NEW s \in Seq(Requests), NEW gone, NEW n \in Nat, n + 1 <= Len(s),
         NEW t, KeepsFrom(t, s, gone, n)
  PROVE  KeepsFrom(IF s[n + 1] \in gone THEN t ELSE Append(t, s[n + 1]), s, gone, n + 1)
<1> DEFINE m == n + 1
<1>1. 1..m = 1..n \cup {m} /\ m \in DOMAIN s /\ s[m] \in Requests
  OBVIOUS
<1>2. \A i \in 1..n : i < m /\ i # m /\ ~(m < i)
  OBVIOUS
<1>m. ~(m < m)
  OBVIOUS
<1> HIDE DEF m
<1>3. CASE s[m] \in gone
  <2>1. \A x : (x \notin gone /\ \E i \in 1..m : s[i] = x) <=> (x \notin gone /\ \E i \in 1..n : s[i] = x)
    BY <1>1, <1>3, Zenon
  <2>2. \A x, y : (x \notin gone /\ y \notin gone /\ \E i, j \in 1..m : i < j /\ s[i] = x /\ s[j] = y)
             <=> (x \notin gone /\ y \notin gone /\ \E i, j \in 1..n : i < j /\ s[i] = x /\ s[j] = y)
    BY <1>1, <1>3, Zenon
  <2>3. \A x : (\E i \in DOMAIN t : t[i] = x) <=> (x \notin gone /\ \E i \in 1..m : s[i] = x)
    BY <2>1, Zenon DEF KeepsFrom
  <2>4. \A x, y : (\E i, j \in DOMAIN t : i < j /\ t[i] = x /\ t[j] = y)
             <=> (x \notin gone /\ y \notin gone /\ \E i, j \in 1..m : i < j /\ s[i] = x /\ s[j] = y)
    <3> TAKE x, y
    <3> DEFINE twoT == \E i, j \in DOMAIN t : i < j /\ t[i] = x /\ t[j] = y
               twoN == \E i, j \in 1..n : i < j /\ s[i] = x /\ s[j] = y
               twoM == \E i, j \in 1..m : i < j /\ s[i] = x /\ s[j] = y
    <3>1. twoT <=> (x \notin gone /\ y \notin gone /\ twoN)
      BY Zenon DEF KeepsFrom
    <3>2. (x \notin gone /\ y \notin gone /\ twoM) <=> (x \notin gone /\ y \notin gone /\ twoN)
      BY <2>2, Zenon
    <3> HIDE DEF twoT, twoN, twoM
    <3>3. twoT <=> (x \notin gone /\ y \notin gone /\ twoM)
      BY <3>1, <3>2, Zenon
    <3> QED
      BY <3>3, Zenon DEF twoT, twoM
  <2>5. KeepsFrom(t, s, gone, m)
    BY <2>3, <2>4, Zenon DEF KeepsFrom
  <2> QED
    BY <1>3, <2>5, Zenon DEF m
<1>4. CASE s[m] \notin gone
  <2> DEFINE u == Append(t, s[m])
             k == Len(t) + 1
  <2>1. t \in Seq(Requests)
    BY DEF KeepsFrom
  <2>2. u \in Seq(Requests) /\ DOMAIN u = DOMAIN t \cup {k} /\ u[k] = s[m]
    BY <1>1, <2>1
  <2>3. \A i \in DOMAIN t : u[i] = t[i] /\ i < k /\ ~(k < i)
    BY <1>1, <2>1
  <2>4. ~(k < k)
    BY <2>1
  <2> HIDE DEF u, k
  <2>5. \A x : (\E i \in DOMAIN u : u[i] = x) <=> ((\E i \in DOMAIN t : t[i] = x) \/ x = s[m])
    BY <2>2, <2>3, Zenon
  <2>6. \A x, y : (\E i, j \in DOMAIN u : i < j /\ u[i] = x /\ u[j] = y)
                    <=> \/ \E i, j \in DOMAIN t : i < j /\ t[i] = x /\ t[j] = y
                        \/ (\E i \in DOMAIN t : t[i] = x) /\ y = s[m]
    BY <2>2, <2>3, <2>4, Zenon
  <2>7. \A x : (x \notin gone /\ \E i \in 1..m : s[i] = x)
                 <=> ((x \notin gone /\ \E i \in 1..n : s[i] = x) \/ x = s[m])
    BY <1>1, <1>4, Zenon
  <2>8. \A x, y : (\E i, j \in 1..m : i < j /\ s[i] = x /\ s[j] = y)
                    <=> \/ \E i, j \in 1..n : i < j /\ s[i] = x /\ s[j] = y
                        \/ (\E i \in 1..n : s[i] = x) /\ y = s[m]
    BY <1>1, <1>2, <1>m, Zenon
  <2>9. \A x : (\E i \in DOMAIN u : u[i] = x) <=> (x \notin gone /\ \E i \in 1..m : s[i] = x)
    BY <2>5, <2>7, Zenon DEF KeepsFrom
  <2>10. ASSUME NEW x, NEW y
         PROVE  (\E i, j \in DOMAIN u : i < j /\ u[i] = x /\ u[j] = y)
             <=> (x \notin gone /\ y \notin gone /\ \E i, j \in 1..m : i < j /\ s[i] = x /\ s[j] = y)
    <3> DEFINE inT == \E i \in DOMAIN t : t[i] = x
               inS == \E i \in 1..n : s[i] = x
               twoT == \E i, j \in DOMAIN t : i < j /\ t[i] = x /\ t[j] = y
               twoS == \E i, j \in 1..n : i < j /\ s[i] = x /\ s[j] = y
    <3>1. inT <=> (x \notin gone /\ inS)
      BY Zenon DEF KeepsFrom
    <3>2. twoT <=> (x \notin gone /\ y \notin gone /\ twoS)
      BY Zenon DEF KeepsFrom
    <3>3. (\E i, j \in DOMAIN u : i < j /\ u[i] = x /\ u[j] = y) <=> (twoT \/ (inT /\ y = s[m]))
      BY <2>6, Zenon
    <3>4. (\E i, j \in 1..m : i < j /\ s[i] = x /\ s[j] = y) <=> (twoS \/ (inS /\ y = s[m]))
      BY <2>8, Zenon
    <3> HIDE DEF inT, inS, twoT, twoS
    <3> QED
      BY <1>4, <3>1, <3>2, <3>3, <3>4, Zenon
  <2>11. KeepsFrom(u, s, gone, m)
    BY <2>2, <2>9, <2>10, Zenon DEF KeepsFrom
  <2> QED
    BY <1>4, <2>11, Zenon DEF u, m
<1> QED
  BY <1>3, <1>4

(* What is left of a list when the elements in gone are spliced out: the   *)
(* others, in the order in which they were (Without).                      *)
LEMMA WithoutIs ==
  ASSUME NEW s \in Seq(Requests), NEW gone
  PROVE  KeepsFrom(Without(s, gone), s, gone, Len(s))
<1> DEFINE Body(g, n) == IF n = 0 THEN <<>>
                         ELSE IF s[n] \in gone THEN g[n - 1] ELSE Append(g[n - 1], s[n])
           Good(n) == \E g : g = [i \in 0..n |-> Body(g, i)]
           K == CHOOSE g : g = [i \in 0..Len(s) |-> Body(g, i)]
<1>1. Good(0)
  <2> DEFINE g == [i \in 0..0 |-> <<>>]
  <2>1. g = [i \in 0..0 |-> Body(g, i)]
    OBVIOUS
  <2> QED
    BY <2>1, Zenon
<1>2. ASSUME NEW n \in Nat, Good(n)
      PROVE  Good(n + 1)
  <2>1. PICK g : g = [i \in 0..n |-> Body(g, i)]
    BY <1>2, Zenon
  <2> DEFINE h == [i \in 0..(n + 1) |-> IF i = n + 1 THEN Body(g, i) ELSE g[i]]
  <2>2. ASSUME NEW i \in 0..(n + 1)
        PROVE  h[i] = Body(h, i)
    <3>1. CASE i = 0
      BY <2>1, <3>1
    <3>2. CASE i # 0
      <4>1. i - 1 \in 0..n /\ i - 1 # n + 1
        BY <3>2
      <4>2. h[i - 1] = g[i - 1]
        BY <4>1
      <4>3. CASE i = n + 1
        BY <4>2, <4>3
      <4>4. CASE i \in 0..n
        <5>1. g[i] = Body(g, i)
          BY <2>1, <4>4, Zenon
        <5>2. h[i] = g[i]
          BY <4>4
        <5> QED
          BY <4>2, <5>1, <5>2
      <4> QED
        BY <4>3, <4>4
    <3> QED
      BY <3>1, <3>2
  <2>3. h = [i \in 0..(n + 1) |-> h[i]]
    OBVIOUS
  <2>4. h = [i \in 0..(n + 1) |-> Body(h, i)]
    BY <2>2, <2>3, Zenon
  <2> QED
    BY <2>4, Zenon
<1>3. Good(Len(s))
  <2> HIDE DEF Good
  <2> DEFINE S == {n \in Nat : Good(n)}
  <2>1. 0 \in S /\ \A n \in Nat : n \in S => n + 1 \in S
    BY <1>1, <1>2
  <2> HIDE DEF S
  <2>2. Nat \subseteq S
    BY <2>1, InductionOver, Zenon
  <2>3. Len(s) \in Nat
    OBVIOUS
  <2> QED
    BY <2>2, <2>3 DEF S
<1>4. K = [i \in 0..Len(s) |-> Body(K, i)]
  BY <1>3, Zenon
<1>5. Without(s, gone) = K[Len(s)]
  BY DEF Without
<1> HIDE DEF K, Good
<1>6. K[0] = <<>>
  BY <1>4
<1>7. ASSUME NEW n \in Nat, n + 1 <= Len(s)
      PROVE  K[n + 1] = IF s[n + 1] \in gone THEN K[n] ELSE Append(K[n], s[n + 1])
  <2>1. n + 1 \in 0..Len(s) /\ n + 1 # 0 /\ (n + 1) - 1 = n
    BY <1>7
  <2>2. K[n + 1] = Body(K, n + 1)
    BY <1>4, <2>1, Zenon
  <2> QED
    BY <2>1, <2>2
<1> DEFINE S == {n \in Nat : n <= Len(s) => KeepsFrom(K[n], s, gone, n)}
<1>8. 0 \in S
  <2>1. KeepsFrom(<<>>, s, gone, 0)
    BY DEF KeepsFrom
  <2> QED
    BY <1>6, <2>1
<1>9. ASSUME NEW n \in Nat, n \in S
      PROVE  n + 1 \in S
  <2> SUFFICES ASSUME n + 1 <= Len(s) PROVE KeepsFrom(K[n + 1], s, gone, n + 1)
    OBVIOUS
  <2>1. KeepsFrom(K[n], s, gone, n)
    BY <1>9
  <2>2. KeepsFrom(IF s[n + 1] \in gone THEN K[n] ELSE Append(K[n], s[n + 1]), s, gone, n + 1)
    BY <2>1, KeepsMore, Zenon
  <2> QED
    BY <1>7, <2>2, Zenon
<1>10. \A n \in Nat : n \in S
  <2> HIDE DEF S
  <2> QED
    BY <1>8, <1>9, InductionOver, Zenon
<1>11. Len(s) \in Nat /\ Len(s) <= Len(s)
  OBVIOUS
<1>12. KeepsFrom(K[Len(s)], s, gone, Len(s))
  BY <1>10, <1>11
<1> QED
  BY <1>5, <1>12, Zenon

(* The entries of a sorted multimap that expire by t are a first part of   *)
(* it, and UpperBound is that part's length.                               *)
Sorted(m) == \A i, j \in DOMAIN m : i <= j => m[i].at <= m[j].at

LEMMA UpperBoundIs ==
  ASSUME NEW m \in Seq(Slots), Sorted(m), NEW t \in Time
  PROVE  /\ UpperBound(m, t) \in 0..Len(m)
         /\ \A i \in DOMAIN m : (i <= UpperBound(m, t)) <=> (m[i].at <= t)
<1> DEFINE Reach(n) == n <= Len(m) /\ \A i \in DOMAIN m : i <= n => m[i].at <= t
           S == {n \in Nat : Reach(n)}
           Bound(n) == \A i \in DOMAIN m : (i <= n) <=> (m[i].at <= t)
<1>1. SUFFICES \E n \in 0..Len(m) : Bound(n)
  BY Zenon DEF UpperBound
<1>2. Time \subseteq Nat /\ \A i \in DOMAIN m : m[i].at \in Nat
  <2>1. \A i \in DOMAIN m : m[i] \in Slots
    OBVIOUS
  <2> QED
    BY <2>1, RequestQueueAssumption DEF Time, Slots
<1>3. 0 \in S
  OBVIOUS
<1>4. Len(m) + 1 \in Nat /\ Len(m) + 1 \notin S
  OBVIOUS
<1>5. PICK n \in Nat : n \in S /\ n + 1 \notin S
  <2> HIDE DEF S
  <2> QED
    BY <1>3, <1>4, InductionOver, Zenon
<1>6. n \in 0..Len(m)
  BY <1>5
<1>7. ASSUME NEW i \in DOMAIN m, n < i, m[i].at <= t
      PROVE  FALSE
  <2>1. n + 1 <= i /\ n + 1 \in DOMAIN m
    BY <1>6, <1>7
  <2>2. m[n + 1].at <= m[i].at
    BY <2>1, <1>7 DEF Sorted
  <2>3. m[n + 1].at <= t
    BY <1>2, <1>7, <2>1, <2>2
  <2>4. \A k \in DOMAIN m : k <= n + 1 => k <= n \/ k = n + 1
    OBVIOUS
  <2>5. Reach(n + 1)
    BY <1>5, <2>1, <2>3, <2>4
  <2> QED
    BY <1>5, <2>5
<1>8. \A i \in DOMAIN m : i <= n \/ n < i
  OBVIOUS
<1>9. Bound(n)
  BY <1>5, <1>7, <1>8
<1> QED
  BY <1>6, <1>9
(* No request has two entries in the multimap.                             *)
Once(m) == \A i, j \in DOMAIN m : m[i].req = m[j].req => i = j

(* The entries of u are entries of m, in the same order.                   *)
Thins(u, m) ==
  \E f \in [DOMAIN u -> DOMAIN m] :
    /\ \A i, j \in DOMAIN u : i < j => f[i] < f[j]
    /\ \A i \in DOMAIN u : u[i] = m[f[i]]

(* Entries that leave the multimap disturb neither its order nor that a    *)
(* request has one entry at most.                                          *)
LEMMA ThinnedIsSorted ==
  ASSUME NEW m \in Seq(Slots), NEW u \in Seq(Slots), Sorted(m), Once(m), Thins(u, m)
  PROVE  Sorted(u) /\ Once(u)
<1>1. PICK f \in [DOMAIN u -> DOMAIN m] :
         /\ \A i, j \in DOMAIN u : i < j => f[i] < f[j]
         /\ \A i \in DOMAIN u : u[i] = m[f[i]]
  BY Zenon DEF Thins
<1>2. \A i \in DOMAIN u : f[i] \in DOMAIN m
  BY <1>1, Zenon
<1>3. \A i, j \in DOMAIN u : i < j \/ j < i \/ i = j
  OBVIOUS
<1>4. \A i \in DOMAIN m : \A j \in DOMAIN m : (i < j => i <= j) /\ i <= i /\ (i < j => i # j)
  OBVIOUS
<1>5. \A i, j \in DOMAIN u : i <= j => i < j \/ i = j
  OBVIOUS
<1>6. Sorted(u)
  <2> SUFFICES ASSUME NEW i \in DOMAIN u, NEW j \in DOMAIN u, i <= j PROVE u[i].at <= u[j].at
    BY Zenon DEF Sorted
  <2>1. f[i] <= f[j]
    BY <1>1, <1>2, <1>4, <1>5, Zenon
  <2> QED
    BY <1>1, <1>2, <2>1, Zenon DEF Sorted
<1>7. Once(u)
  <2> SUFFICES ASSUME NEW i \in DOMAIN u, NEW j \in DOMAIN u, u[i].req = u[j].req PROVE i = j
    BY Zenon DEF Once
  <2>1. f[i] = f[j] /\ f[i] \in DOMAIN m
    <3>1. u[i] = m[f[i]] /\ u[j] = m[f[j]] /\ f[i] \in DOMAIN m /\ f[j] \in DOMAIN m
      BY <1>1, <1>2, Zenon
    <3>2. m[f[i]].req = m[f[j]].req
      BY <3>1, Zenon
    <3> QED
      BY <3>1, <3>2, Zenon DEF Once
  <2>2. ~(f[i] < f[j]) /\ ~(f[j] < f[i])
    BY <1>4, <2>1, Zenon
  <2> QED
    BY <1>1, <1>3, <2>2, Zenon
<1> QED
  BY <1>6, <1>7

(* What is where in two lists that are joined.                             *)
LEMMA JoinedIs ==
  ASSUME NEW a \in Seq(Slots), NEW b \in Seq(Slots)
  PROVE  /\ a \o b \in Seq(Slots) /\ Len(a \o b) = Len(a) + Len(b)
         /\ \A i \in 1..Len(a) : (a \o b)[i] = a[i]
         /\ \A i \in 1..Len(b) : (a \o b)[Len(a) + i] = b[i]
<1>1. a \o b \in Seq(Slots) /\ Len(a \o b) = Len(a) + Len(b)
  OBVIOUS
<1>2. \A i \in 1..Len(a) : (a \o b)[i] = a[i]
  OBVIOUS
<1>3. \A i \in 1..Len(b) : (a \o b)[Len(a) + i] = b[i]
  OBVIOUS
<1> QED
  BY <1>1, <1>2, <1>3, Zenon

(* An entry that is put in behind those that expire no later leaves the    *)
(* multimap sorted (queue::push).                                          *)
LEMMA InsertIs ==
  ASSUME NEW m \in Seq(Slots), Sorted(m), Once(m), NEW s \in Slots,
         \A i \in DOMAIN m : m[i].req # s.req
  PROVE  /\ Insert(m, s) \in Seq(Slots)
         /\ Insert(m, s) # <<>>
         /\ Sorted(Insert(m, s))
         /\ Once(Insert(m, s))
         /\ Elements(Insert(m, s)) = Elements(m) \cup {s}
<1> DEFINE n == UpperBound(m, s.at)
           u == SubSeq(m, 1, n) \o <<s>> \o SubSeq(m, n + 1, Len(m))
           k == n + 1
<1>1. s.at \in Time /\ Time \subseteq Nat /\ s.at \in Nat
  BY RequestQueueAssumption DEF Slots, Time
<1>2. n \in 0..Len(m) /\ \A i \in DOMAIN m : (i <= n) <=> (m[i].at <= s.at)
  BY <1>1, UpperBoundIs, Zenon
<1>3. Insert(m, s) = u
  BY Zenon DEF Insert
<1> HIDE DEF n
<1>4. /\ u \in Seq(Slots) /\ Len(u) = Len(m) + 1
      /\ \A i \in 1..n : u[i] = m[i]
      /\ u[k] = s
      /\ \A i \in k..Len(m) : u[i + 1] = m[i]
  <2> DEFINE a == SubSeq(m, 1, n)
             b == SubSeq(m, n + 1, Len(m))
             c == a \o <<s>>
  <2>1. a \in Seq(Slots) /\ Len(a) = n /\ \A i \in 1..n : a[i] = m[i]
    BY <1>2
  <2>2. b \in Seq(Slots) /\ Len(b) = Len(m) - n /\ \A i \in 1..(Len(m) - n) : b[i] = m[i + n]
    BY <1>2
  <2>4. u = c \o b
    OBVIOUS
  <2> HIDE DEF a, b
  <2>3. /\ c \in Seq(Slots) /\ Len(c) = n + 1 /\ c[n + 1] = s
        /\ \A i \in 1..n : c[i] = m[i]
    BY <2>1
  <2> HIDE DEF c
  <2>5. /\ c \o b \in Seq(Slots) /\ Len(c \o b) = Len(c) + Len(b)
        /\ \A i \in 1..Len(c) : (c \o b)[i] = c[i]
        /\ \A i \in 1..Len(b) : (c \o b)[Len(c) + i] = b[i]
    BY <2>2, <2>3, JoinedIs, Zenon
  <2> HIDE DEF u
  <2>6. ASSUME NEW i \in k..Len(m)
        PROVE  u[i + 1] = m[i]
    <3>1. i - n \in 1..Len(b) /\ Len(c) + (i - n) = i + 1 /\ (i - n) + n = i
      BY <1>2, <2>2, <2>3
    <3> QED
      BY <2>2, <2>4, <2>5, <3>1
  <2>7. n \in Nat /\ Len(m) \in Nat /\ (n + 1) + (Len(m) - n) = Len(m) + 1
    BY <1>2
  <2>8. \A i \in 1..n : i \in 1..Len(c)
    BY <2>3, <2>7
  <2>9. n + 1 \in 1..Len(c)
    BY <2>3, <2>7
  <2> QED
    BY <2>2, <2>3, <2>4, <2>5, <2>6, <2>7, <2>8, <2>9, Zenon
<1> HIDE DEF u
<1>8. k \in DOMAIN u /\ DOMAIN u = 1..(Len(m) + 1) /\ DOMAIN m = 1..Len(m)
  BY <1>2, <1>4
<1> DEFINE old(i) == IF i < k THEN i ELSE i - 1
<1>9. \A i \in DOMAIN u : i # k => old(i) \in DOMAIN m /\ u[i] = m[old(i)] /\ (old(i) < k <=> i < k)
  <2> SUFFICES ASSUME NEW i \in DOMAIN u, i # k
               PROVE  old(i) \in DOMAIN m /\ u[i] = m[old(i)] /\ (old(i) < k <=> i < k)
    OBVIOUS
  <2>1. CASE i < k
    <3>1. i \in 1..n /\ i \in 1..Len(m) /\ old(i) = i
      BY <1>2, <1>8, <2>1
    <3> QED
      BY <1>4, <1>8, <2>1, <3>1
  <2>2. CASE ~(i < k)
    <3>1. i - 1 \in k..Len(m) /\ i - 1 \in 1..Len(m) /\ old(i) = i - 1 /\ (i - 1) + 1 = i /\ ~(i - 1 < k)
      BY <1>2, <1>8, <2>2
    <3> QED
      BY <1>4, <1>8, <2>2, <3>1
  <2> QED
    BY <2>1, <2>2
<1>10. \A i, j \in DOMAIN u : i # k /\ j # k => (i <= j => old(i) <= old(j)) /\ (old(i) = old(j) => i = j)
  BY <1>2, <1>8
<1>11. \A i \in DOMAIN m : m[i].at \in Nat
  <2>1. \A i \in DOMAIN m : m[i] \in Slots
    OBVIOUS
  <2> QED
    BY <1>1, <2>1, Zenon DEF Slots
<1>12. \A i \in DOMAIN m : (i < k => m[i].at <= s.at) /\ (~(i < k) => s.at <= m[i].at)
  <2>1. \A i \in DOMAIN m : i < k <=> i <= n
    BY <1>2, <1>8
  <2>2. \A x, y \in Nat : ~(x <= y) => y <= x
    OBVIOUS
  <2>3. s.at \in Nat
    BY <1>1
  <2> QED
    BY <1>2, <1>11, <2>1, <2>2, <2>3, Zenon
<1>13. \A i, j \in DOMAIN u : (i = k /\ i <= j /\ j # k => ~(j < k)) /\ (j = k /\ i <= j /\ i # k => i < k)
  BY <1>2, <1>8
<1>14. s.at <= s.at
  BY <1>1
<1>15. \A i \in DOMAIN m : i \in DOMAIN u /\ i + 1 \in DOMAIN u /\ i \in 1..n \cup k..Len(m)
  BY <1>2, <1>8
<1> HIDE DEF k, old
<1>16. Sorted(u)
  <2> SUFFICES ASSUME NEW i \in DOMAIN u, NEW j \in DOMAIN u, i <= j PROVE u[i].at <= u[j].at
    BY Zenon DEF Sorted
  <2>1. CASE i # k /\ j # k
    BY <1>9, <1>10, <2>1, Zenon DEF Sorted
  <2>2. CASE i = k /\ j # k
    BY <1>4, <1>9, <1>12, <1>13, <2>2, Zenon
  <2>3. CASE i # k /\ j = k
    <3>1. i < k
      BY <1>13, <2>3, Zenon
    <3>2. old(i) \in DOMAIN m /\ u[i] = m[old(i)] /\ old(i) < k
      BY <1>9, <2>3, <3>1, Zenon
    <3>3. m[old(i)].at <= s.at
      BY <1>12, <3>2, Zenon
    <3> QED
      BY <1>4, <2>3, <3>2, <3>3, Zenon
  <2>4. CASE i = k /\ j = k
    BY <1>4, <1>14, <2>4, Zenon
  <2> QED
    BY <2>1, <2>2, <2>3, <2>4, Zenon
<1>17. Once(u)
  <2> SUFFICES ASSUME NEW i \in DOMAIN u, NEW j \in DOMAIN u, u[i].req = u[j].req PROVE i = j
    BY Zenon DEF Once
  <2>1. \A x \in DOMAIN u : x # k => u[x].req # s.req
    BY <1>9, Zenon
  <2>2. CASE i = k \/ j = k
    BY <1>4, <2>1, <2>2, Zenon
  <2>3. CASE i # k /\ j # k
    <3>1. old(i) \in DOMAIN m /\ old(j) \in DOMAIN m /\ u[i] = m[old(i)] /\ u[j] = m[old(j)]
      BY <1>9, <2>3, Zenon
    <3>2. m[old(i)].req = m[old(j)].req
      BY <3>1, Zenon
    <3>3. old(i) = old(j)
      BY <3>1, <3>2, Zenon DEF Once
    <3> QED
      BY <1>10, <2>3, <3>3, Zenon
  <2> QED
    BY <2>2, <2>3, Zenon
<1>18. Elements(u) = Elements(m) \cup {s}
  <2>1. \A i \in DOMAIN u : u[i] \in Elements(m) \cup {s}
    BY <1>4, <1>9, Zenon DEF Elements
  <2>2. \A i \in DOMAIN m : \E j \in DOMAIN u : u[j] = m[i]
    BY <1>4, <1>15, Zenon
  <2>3. Elements(u) \subseteq Elements(m) \cup {s}
    BY <2>1, Zenon DEF Elements
  <2>4. Elements(m) \subseteq Elements(u)
    BY <2>2, Zenon DEF Elements
  <2>5. s \in Elements(u)
    BY <1>4, <1>8, Zenon DEF Elements
  <2> QED
    BY <2>3, <2>4, <2>5, Zenon
<1>19. u # <<>>
  BY <1>4
<1> QED
  BY <1>3, <1>4, <1>16, <1>17, <1>18, <1>19, Zenon
(* Erasing the entry of one request leaves those of the others (pop()).    *)
LEMMA EraseIs ==
  ASSUME NEW m \in Seq(Slots), Sorted(m), Once(m), NEW k \in DOMAIN m
  PROVE  /\ Erase(m, m[k].req) \in Seq(Slots)
         /\ Sorted(Erase(m, m[k].req))
         /\ Once(Erase(m, m[k].req))
         /\ Elements(Erase(m, m[k].req)) = Elements(m) \ {m[k]}
<1> DEFINE a == SubSeq(m, 1, k - 1)
           b == SubSeq(m, k + 1, Len(m))
           u == a \o b
           f == [i \in DOMAIN u |-> IF i < k THEN i ELSE i + 1]
<1>1. (CHOOSE j \in DOMAIN m : m[j].req = m[k].req) = k
  BY Zenon DEF Once
<1>2. Erase(m, m[k].req) = u
  BY <1>1, Zenon DEF Erase
<1>3. a \in Seq(Slots) /\ Len(a) = k - 1 /\ \A i \in 1..(k - 1) : a[i] = m[i]
  OBVIOUS
<1>4. b \in Seq(Slots) /\ Len(b) = Len(m) - k /\ \A i \in 1..(Len(m) - k) : b[i] = m[i + k]
  OBVIOUS
<1> HIDE DEF a, b
<1>5. /\ u \in Seq(Slots) /\ Len(u) = Len(a) + Len(b)
      /\ \A i \in 1..Len(a) : u[i] = a[i]
      /\ \A i \in 1..Len(b) : u[Len(a) + i] = b[i]
  BY <1>3, <1>4, JoinedIs, Zenon
<1> HIDE DEF u
<1>6. DOMAIN m = 1..Len(m) /\ k \in 1..Len(m) /\ Len(m) \in Nat
  OBVIOUS
<1>7. DOMAIN u = 1..(Len(m) - 1)
  BY <1>3, <1>4, <1>5, <1>6
<1>8. ASSUME NEW i \in DOMAIN u
      PROVE  f[i] \in DOMAIN m /\ u[i] = m[f[i]] /\ f[i] # k
  <2>1. CASE i < k
    <3>1. i \in 1..(k - 1) /\ i \in 1..Len(a) /\ f[i] = i /\ i \in 1..Len(m) /\ i # k
      BY <1>3, <1>6, <1>7, <2>1
    <3> QED
      BY <1>3, <1>5, <1>6, <3>1
  <2>2. CASE ~(i < k)
    <3> DEFINE j == i - (k - 1)
    <3>1. /\ j \in 1..Len(b) /\ j \in 1..(Len(m) - k) /\ Len(a) + j = i /\ j + k = i + 1
          /\ f[i] = i + 1 /\ i + 1 \in 1..Len(m) /\ i + 1 # k
      BY <1>3, <1>4, <1>6, <1>7, <2>2
    <3> HIDE DEF j
    <3>2. u[i] = b[j] /\ b[j] = m[j + k]
      BY <1>4, <1>5, <3>1, Zenon
    <3> QED
      BY <1>6, <3>1, <3>2
  <2> QED
    BY <2>1, <2>2
<1>9. \A i, j \in DOMAIN u : i < j => f[i] < f[j]
  BY <1>6, <1>7
<1>10. ASSUME NEW i \in DOMAIN m, i # k
       PROVE  \E j \in DOMAIN u : f[j] = i
  <2> DEFINE j == IF i < k THEN i ELSE i - 1
  <2>1. j \in DOMAIN u /\ f[j] = i
    BY <1>6, <1>7, <1>10
  <2> QED
    BY <2>1, Zenon
<1>11. f \in [DOMAIN u -> DOMAIN m]
  <2>1. f = [i \in DOMAIN u |-> f[i]]
    OBVIOUS
  <2> HIDE DEF f
  <2> QED
    BY <1>8, <2>1
<1> HIDE DEF f
<1>12. Thins(u, m)
  BY <1>8, <1>9, <1>11, Zenon DEF Thins
<1>13. Sorted(u) /\ Once(u)
  BY <1>5, <1>12, ThinnedIsSorted, Zenon
<1>14. Elements(u) \subseteq Elements(m) \ {m[k]}
  <2>1. \A i \in DOMAIN u : u[i] \in Elements(m)
    BY <1>8, Zenon DEF Elements
  <2>2. ASSUME NEW i \in DOMAIN u, u[i] = m[k]
        PROVE  FALSE
    <3>1. m[f[i]].req = m[k].req /\ f[i] \in DOMAIN m /\ f[i] # k
      BY <1>8, <2>2, Zenon
    <3> QED
      BY <3>1, Zenon DEF Once
  <2> QED
    BY <2>1, <2>2, Zenon DEF Elements
<1>15. Elements(m) \ {m[k]} \subseteq Elements(u)
  <2> SUFFICES ASSUME NEW i \in DOMAIN m, m[i] # m[k] PROVE \E j \in DOMAIN u : u[j] = m[i]
    BY Zenon DEF Elements
  <2>1. PICK j \in DOMAIN u : f[j] = i
    BY <1>10, Zenon
  <2> QED
    BY <1>8, <2>1, Zenon
<1> QED
  BY <1>2, <1>5, <1>13, <1>14, <1>15, Zenon

(* Erasing the first n entries leaves the others (cancel()).               *)
LEMMA DropIs ==
  ASSUME NEW m \in Seq(Slots), Sorted(m), Once(m), NEW n \in 0..Len(m)
  PROVE  /\ SubSeq(m, n + 1, Len(m)) \in Seq(Slots)
         /\ Sorted(SubSeq(m, n + 1, Len(m)))
         /\ Once(SubSeq(m, n + 1, Len(m)))
         /\ Elements(SubSeq(m, n + 1, Len(m))) = {m[i] : i \in (n + 1)..Len(m)}
<1> DEFINE u == SubSeq(m, n + 1, Len(m))
           f == [i \in DOMAIN u |-> i + n]
<1>1. u \in Seq(Slots) /\ Len(u) = Len(m) - n /\ \A i \in 1..(Len(m) - n) : u[i] = m[i + n]
  OBVIOUS
<1> HIDE DEF u
<1>2. DOMAIN m = 1..Len(m) /\ n \in Nat /\ Len(m) \in Nat
  OBVIOUS
<1>3. DOMAIN u = 1..(Len(m) - n)
  BY <1>1, <1>2
<1>4. \A i \in DOMAIN u : f[i] \in DOMAIN m /\ f[i] \in (n + 1)..Len(m) /\ u[i] = m[f[i]]
  BY <1>1, <1>2, <1>3
<1>5. \A i, j \in DOMAIN u : i < j => f[i] < f[j]
  BY <1>2, <1>3
<1>6. f \in [DOMAIN u -> DOMAIN m]
  <2>1. f = [i \in DOMAIN u |-> f[i]]
    OBVIOUS
  <2> HIDE DEF f
  <2> QED
    BY <1>4, <2>1
<1>7. \A i \in (n + 1)..Len(m) : i - n \in DOMAIN u /\ f[i - n] = i
  BY <1>2, <1>3
<1> HIDE DEF f
<1>8. Thins(u, m)
  BY <1>4, <1>5, <1>6, Zenon DEF Thins
<1>9. Sorted(u) /\ Once(u)
  BY <1>1, <1>8, ThinnedIsSorted, Zenon
<1>10. Elements(u) \subseteq {m[i] : i \in (n + 1)..Len(m)}
  <2> SUFFICES ASSUME NEW i \in DOMAIN u PROVE u[i] \in {m[j] : j \in (n + 1)..Len(m)}
    BY Zenon DEF Elements
  <2>1. u[i] = m[f[i]] /\ f[i] \in (n + 1)..Len(m)
    BY <1>4, Zenon
  <2> QED
    BY <2>1, Zenon
<1>11. \A i \in (n + 1)..Len(m) : u[i - n] = m[i] /\ i - n \in DOMAIN u
  BY <1>4, <1>7, Zenon
<1>12. {m[i] : i \in (n + 1)..Len(m)} \subseteq Elements(u)
  BY <1>11, Zenon DEF Elements
<1> QED
  BY <1>1, <1>9, <1>10, <1>12, Zenon DEF u
-----------------------------------------------------------------------------
(* The inductive invariant: the list and the multimap agree, the multimap  *)
(* is sorted, its first entry is timed, and a timer's handler is not on    *)
(* its way before the time the timer was set to.                           *)
QueueInv ==
  /\ TypeOK
  /\ SameRequests
  /\ Sorted(expires)
  /\ EarliestIsTimed
  /\ \A c \in Contexts : \A i \in DOMAIN ready[c] : ready[c][i] <= now

(* The multimap's part of SameRequests.                                    *)
LEMMA OnceSame ==
  SameRequests => Once(expires)
BY Zenon DEF SameRequests, Once

(* A sorted multimap's first entry expires first.                          *)
LEMMA HeadFirst ==
  ASSUME NEW m \in Seq(Slots), m # <<>>, Sorted(m)
  PROVE  /\ 1 \in DOMAIN m /\ Head(m) = m[1] /\ Head(m) \in Slots
         /\ \A s \in Elements(m) : Head(m).at <= s.at
<1>1. 1 \in DOMAIN m /\ Head(m) = m[1] /\ Head(m) \in Slots
  OBVIOUS
<1>2. \A i \in DOMAIN m : 1 <= i
  OBVIOUS
<1> QED
  BY <1>1, <1>2, Zenon DEF Sorted, Elements

(* After update_timer() the first entry is timed.                          *)
LEMMA TimedNow ==
  ASSUME timers \in [Contexts -> Time \cup {Off}],
         expires' \in Seq(Slots), Sorted(expires'), UpdateTimer(expires')
  PROVE  timers' \in [Contexts -> Time \cup {Off}] /\ EarliestIsTimed'
<1>1. CASE expires' = <<>>
  <2>1. timers' = [c \in Contexts |-> Off]
    BY <1>1, Zenon DEF UpdateTimer
  <2> QED
    BY <1>1, <2>1, Zenon DEF EarliestIsTimed
<1>2. CASE expires' # <<>>
  <2> DEFINE first == Head(expires')
             c == ContextOf[first.req]
  <2>1. first \in Slots /\ \A s \in Elements(expires') : first.at <= s.at
    BY <1>2, HeadFirst, Zenon
  <2>2. timers' = [timers EXCEPT ![c] = first.at]
    BY <1>2, Zenon DEF UpdateTimer
  <2> HIDE DEF first
  <2>3. first.at \in Time /\ first.req \in Requests
    BY <2>1 DEF Slots
  <2>4. c \in Contexts
    BY <2>3, RequestQueueAssumption
  <2> HIDE DEF c
  <2>5. timers' \in [Contexts -> Time \cup {Off}] /\ timers'[c] = first.at
    BY <2>2, <2>3, <2>4
  <2>6. Elements(expires)' = Elements(expires')
    BY Zenon DEF Elements
  <2> QED
    BY <2>1, <2>5, <2>6, Zenon DEF EarliestIsTimed, first, c
<1> QED
  BY <1>1, <1>2

(* push() keeps the invariant.                                             *)
LEMMA PushStep ==
  ASSUME QueueInv, NEW r \in Requests, NEW w \in Waits, Push(r, w)
  PROVE  QueueInv'
<1> DEFINE s == [at |-> Add(now, w), req |-> r]
<1>1. TypeOK /\ SameRequests /\ Sorted(expires) /\ Once(expires)
  BY OnceSame, Zenon DEF QueueInv
<1>2. Add(now, w) \in Time
  BY <1>1, RequestQueueAssumption DEF TypeOK, Add, Time
<1>3. s \in Slots /\ s.req = r
  BY <1>2 DEF Slots
<1> HIDE DEF s
<1>4. expires \in Seq(Slots) /\ order \in Seq(Requests)
  BY <1>1, Zenon DEF TypeOK
<1>5. \A i \in DOMAIN order : order[i] # r
  BY Zenon DEF Push
<1>6. \A i \in DOMAIN expires : expires[i].req # s.req
  <2>1. \A i \in DOMAIN expires : expires[i].req \in Elements(order)
    BY <1>1, Zenon DEF SameRequests, Elements
  <2> QED
    BY <1>3, <1>5, <2>1, Zenon DEF Elements
<1>7. expires' = Insert(expires, s)
  BY Zenon DEF Push, s
<1>8. /\ expires' \in Seq(Slots) /\ Sorted(expires') /\ Once(expires')
      /\ Elements(expires') = Elements(expires) \cup {s}
  BY <1>1, <1>3, <1>4, <1>6, <1>7, InsertIs, Zenon
<1>9. timers' \in [Contexts -> Time \cup {Off}] /\ EarliestIsTimed'
  <2>1. UpdateTimer(expires') /\ timers \in [Contexts -> Time \cup {Off}]
    BY <1>1, Zenon DEF Push, TypeOK
  <2> QED
    BY <1>8, <2>1, TimedNow, Zenon
<1>10. order' = Append(order, r) /\ ready' = ready /\ failed' = failed /\ now' = now
  BY Zenon DEF Push
<1>11. TypeOK'
  <2>1. order' \in Seq(Requests)
    BY <1>4, <1>10
  <2> QED
    BY <1>1, <1>8, <1>9, <1>10, <2>1, Zenon DEF TypeOK
<1>12. /\ DOMAIN order' = DOMAIN order \cup {Len(order) + 1} /\ order'[Len(order) + 1] = r
       /\ Len(order) + 1 \notin DOMAIN order
       /\ \A i \in DOMAIN order : order'[i] = order[i]
  BY <1>4, <1>10
<1>13. SameRequests'
  <2>1. Elements(order') = Elements(order) \cup {r}
    <3>1. Elements(order') = {order'[i] : i \in DOMAIN order \cup {Len(order) + 1}}
      BY <1>12, Zenon DEF Elements
    <3>2. Elements(order) = {order'[i] : i \in DOMAIN order}
      BY <1>12, Zenon DEF Elements
    <3>3. r = order'[Len(order) + 1]
      BY <1>12, Zenon
    <3> QED
      BY <3>1, <3>2, <3>3
  <2>2. {t.req : t \in Elements(expires')} = {t.req : t \in Elements(expires)} \cup {r}
    BY <1>3, <1>8, Zenon
  <2>3. \A i, j \in DOMAIN order' : order'[i] = order'[j] => i = j
    BY <1>1, <1>5, <1>12, Zenon DEF SameRequests
  <2>4. Elements(order)' = Elements(order') /\ Elements(expires)' = Elements(expires')
    BY Zenon DEF Elements
  <2>5. Elements(order') = {t.req : t \in Elements(expires')}
    BY <1>1, <2>1, <2>2, Zenon DEF SameRequests
  <2>6. \A i, j \in DOMAIN expires' : expires'[i].req = expires'[j].req => i = j
    BY <1>8, Zenon DEF Once
  <2> QED
    BY <2>3, <2>4, <2>5, <2>6, Zenon DEF SameRequests
<1>14. Sorted(expires)' /\ \A c \in Contexts : \A i \in DOMAIN ready'[c] : ready'[c][i] <= now'
  BY <1>8, <1>10, Zenon DEF Sorted, QueueInv
<1> QED
  BY <1>9, <1>11, <1>13, <1>14, Zenon DEF QueueInv
(* The list and the multimap still agree when a set of requests leaves     *)
(* both of them.                                                           *)
LEMMA LeaveTogether ==
  ASSUME TypeOK, SameRequests, NEW gone,
         KeepsFrom(order', order, gone, Len(order)),
         Once(expires'),
         \A s : s \in Elements(expires') <=> s \in Elements(expires) /\ s.req \notin gone
  PROVE  SameRequests'
<1>1. order \in Seq(Requests) /\ order' \in Seq(Requests)
  BY Zenon DEF TypeOK, KeepsFrom
<1>2. DOMAIN order = 1..Len(order)
  BY <1>1
<1>3. \A x : x \in Elements(order') <=> x \in Elements(order) /\ x \notin gone
  <2> TAKE x
  <2>1. x \in Elements(order') <=> \E i \in DOMAIN order' : order'[i] = x
    BY Zenon DEF Elements
  <2>2. x \in Elements(order) <=> \E i \in 1..Len(order) : order[i] = x
    BY <1>2, Zenon DEF Elements
  <2> QED
    BY <2>1, <2>2, Zenon DEF KeepsFrom
<1>4. Elements(order') = {s.req : s \in Elements(expires')}
  <2>1. Elements(order) = {s.req : s \in Elements(expires)}
    BY Zenon DEF SameRequests
  <2>2. ASSUME NEW x \in Elements(order')
        PROVE  x \in {s.req : s \in Elements(expires')}
    <3>1. x \in Elements(order) /\ x \notin gone
      BY <1>3, Zenon
    <3>2. PICK s \in Elements(expires) : s.req = x
      BY <2>1, <3>1, Zenon
    <3>3. s \in Elements(expires')
      BY <3>1, <3>2, Zenon
    <3> QED
      BY <3>2, <3>3, Zenon
  <2>3. ASSUME NEW s \in Elements(expires')
        PROVE  s.req \in Elements(order')
    <3>1. s \in Elements(expires) /\ s.req \notin gone
      BY Zenon
    <3> QED
      BY <1>3, <2>1, <3>1, Zenon
  <2> QED
    BY <2>2, <2>3, Zenon
<1>5. \A i, j \in DOMAIN order' : order'[i] = order'[j] => i = j
  <2> SUFFICES ASSUME NEW i \in DOMAIN order', NEW j \in DOMAIN order', order'[i] = order'[j], i < j
               PROVE  FALSE
    <3>1. \A i, j \in DOMAIN order' : i < j \/ j < i \/ i = j
      BY <1>1
    <3> QED
      BY <3>1, Zenon
  <2> DEFINE x == order'[i]
  <2>1. \E k, l \in DOMAIN order' : k < l /\ order'[k] = x /\ order'[l] = x
    BY Zenon
  <2> HIDE DEF x
  <2>2. PICK k, l \in 1..Len(order) : k < l /\ order[k] = x /\ order[l] = x
    BY <2>1, Zenon DEF KeepsFrom
  <2>3. k # l
    BY <1>1, <2>2
  <2> QED
    BY <1>2, <2>2, <2>3, Zenon DEF SameRequests
<1>6. \A i, j \in DOMAIN expires' : expires'[i].req = expires'[j].req => i = j
  BY Zenon DEF Once
<1>7. Elements(order)' = Elements(order') /\ Elements(expires)' = Elements(expires')
  BY Zenon DEF Elements
<1> QED
  BY <1>4, <1>5, <1>6, <1>7, Zenon DEF SameRequests

(* Taking the first element is leaving out what it holds (pop()).          *)
LEMMA TailIs ==
  ASSUME NEW s \in Seq(Requests), s # <<>>, \A i, j \in DOMAIN s : s[i] = s[j] => i = j
  PROVE  KeepsFrom(Tail(s), s, {Head(s)}, Len(s))
<1> DEFINE t == Tail(s)
<1>1. Head(s) = s[1] /\ t \in Seq(Requests) /\ DOMAIN t = 1..(Len(s) - 1) /\ \A i \in DOMAIN t : t[i] = s[i + 1]
  OBVIOUS
<1> HIDE DEF t
<1>2. Len(s) \in Nat /\ DOMAIN s = 1..Len(s) /\ 1 \in DOMAIN s
  OBVIOUS
<1>3. \A i \in DOMAIN t : i + 1 \in 1..Len(s) /\ i + 1 # 1
  BY <1>1, <1>2
<1>4. \A i \in 1..Len(s) : s[i] # s[1] => i - 1 \in DOMAIN t /\ t[i - 1] = s[i]
  BY <1>1, <1>2
<1>5. \A i, j \in DOMAIN t : i < j => i + 1 < j + 1
  BY <1>1
<1>6. \A i, j \in 1..Len(s) : i < j => i - 1 < j - 1
  OBVIOUS
<1>7. \A i \in DOMAIN t : s[i + 1] # s[1]
  BY <1>2, <1>3, Zenon
<1>8. \A x : (\E i \in DOMAIN t : t[i] = x) <=> (x \notin {Head(s)} /\ \E i \in 1..Len(s) : s[i] = x)
  <2> TAKE x
  <2>1. ASSUME NEW i \in DOMAIN t, t[i] = x
        PROVE  x \notin {Head(s)} /\ \E k \in 1..Len(s) : s[k] = x
    BY <1>1, <1>3, <1>7, <2>1, Zenon
  <2>2. ASSUME x \notin {Head(s)}, NEW i \in 1..Len(s), s[i] = x
        PROVE  \E k \in DOMAIN t : t[k] = x
    BY <1>1, <1>4, <2>2, Zenon
  <2> QED
    BY <2>1, <2>2, Zenon
<1>9. \A x, y : (\E i, j \in DOMAIN t : i < j /\ t[i] = x /\ t[j] = y)
         <=> (x \notin {Head(s)} /\ y \notin {Head(s)} /\ \E i, j \in 1..Len(s) : i < j /\ s[i] = x /\ s[j] = y)
  <2> TAKE x, y
  <2>1. ASSUME NEW i \in DOMAIN t, NEW j \in DOMAIN t, i < j, t[i] = x, t[j] = y
        PROVE  x \notin {Head(s)} /\ y \notin {Head(s)} /\ \E k, l \in 1..Len(s) : k < l /\ s[k] = x /\ s[l] = y
    BY <1>1, <1>3, <1>5, <1>7, <2>1, Zenon
  <2>2. ASSUME x \notin {Head(s)}, y \notin {Head(s)}, NEW i \in 1..Len(s), NEW j \in 1..Len(s),
               i < j, s[i] = x, s[j] = y
        PROVE  \E k, l \in DOMAIN t : k < l /\ t[k] = x /\ t[l] = y
    BY <1>1, <1>4, <1>6, <2>2, Zenon
  <2> QED
    BY <2>1, <2>2, Zenon
<1> QED
  BY <1>1, <1>8, <1>9, Zenon DEF KeepsFrom, t
(* The requests in gone leave the list and the multimap, and nothing else  *)
(* changes there.                                                          *)
Leaves(gone) ==
  /\ KeepsFrom(order', order, gone, Len(order))
  /\ expires' \in Seq(Slots)
  /\ Sorted(expires')
  /\ Once(expires')
  /\ \A s : s \in Elements(expires') <=> s \in Elements(expires) /\ s.req \notin gone

(* With pop() the request at the front of the list leaves.                 *)
LEMMA PopLeaves ==
  ASSUME QueueInv, Pop
  PROVE  /\ Leaves({Head(order)})
         /\ order # <<>> /\ Head(order) = order[1] /\ 1 \in DOMAIN order
<1>1. TypeOK /\ SameRequests /\ Sorted(expires) /\ Once(expires)
  BY OnceSame, Zenon DEF QueueInv
<1>2. expires \in Seq(Slots) /\ order \in Seq(Requests)
  BY <1>1, Zenon DEF TypeOK
<1>3. order # <<>> /\ order' = Tail(order) /\ expires' = Erase(expires, Head(order))
  BY Zenon DEF Pop
<1>4. 1 \in DOMAIN order /\ Head(order) = order[1]
  BY <1>2, <1>3
<1>5. KeepsFrom(order', order, {Head(order)}, Len(order))
  <2>1. \A i, j \in DOMAIN order : order[i] = order[j] => i = j
    BY <1>1, Zenon DEF SameRequests
  <2> QED
    BY <1>2, <1>3, <2>1, TailIs, Zenon
<1>6. PICK k \in DOMAIN expires : expires[k].req = Head(order)
  <2>1. Head(order) \in {s.req : s \in Elements(expires)}
    BY <1>1, <1>4, Zenon DEF SameRequests, Elements
  <2> QED
    BY <2>1, Zenon DEF Elements
<1>7. /\ expires' \in Seq(Slots) /\ Sorted(expires') /\ Once(expires')
      /\ Elements(expires') = Elements(expires) \ {expires[k]}
  BY <1>1, <1>2, <1>3, <1>6, EraseIs, Zenon
<1>8. \A s : s \in Elements(expires') <=> s \in Elements(expires) /\ s.req \notin {Head(order)}
  <2>1. ASSUME NEW i \in DOMAIN expires
        PROVE  expires[i] = expires[k] <=> expires[i].req = Head(order)
    BY <1>1, <1>6, Zenon DEF Once
  <2>2. \A s \in Elements(expires) : s = expires[k] <=> s.req = Head(order)
    BY <2>1, Zenon DEF Elements
  <2> QED
    BY <1>7, <2>2, Zenon
<1> QED
  BY <1>3, <1>4, <1>5, <1>7, <1>8, Zenon DEF Leaves

(* With cancel() those leave that expire by the time the timer was set to. *)
LEMMA CancelLeaves ==
  ASSUME QueueInv, NEW c \in Contexts, Cancel(c)
  PROVE  \E n \in 0..Len(expires) :
           /\ \A i \in DOMAIN expires : (i <= n) <=> (expires[i].at <= Head(ready[c]))
           /\ failed' = failed \cup Late(n)
           /\ Leaves(Late(n))
<1> DEFINE t == Head(ready[c])
           n == UpperBound(expires, t)
<1>1. TypeOK /\ SameRequests /\ Sorted(expires) /\ Once(expires)
  BY OnceSame, Zenon DEF QueueInv
<1>2. expires \in Seq(Slots) /\ order \in Seq(Requests) /\ ready[c] \in Seq(Time)
  BY <1>1, Zenon DEF TypeOK
<1>3. ready[c] # <<>>
  BY Zenon DEF Cancel
<1>4. t \in Time
  BY <1>2, <1>3
<1>5. failed' = failed \cup Late(n) /\ order' = Without(order, Late(n)) /\ expires' = SubSeq(expires, n + 1, Len(expires))
  BY Zenon DEF Cancel
<1>6. n \in 0..Len(expires) /\ \A i \in DOMAIN expires : (i <= n) <=> (expires[i].at <= t)
  BY <1>1, <1>2, <1>4, UpperBoundIs, Zenon
<1> HIDE DEF n, t
<1>7. KeepsFrom(order', order, Late(n), Len(order))
  BY <1>2, <1>5, WithoutIs, Zenon
<1>8. /\ expires' \in Seq(Slots) /\ Sorted(expires') /\ Once(expires')
      /\ Elements(expires') = {expires[i] : i \in (n + 1)..Len(expires)}
  BY <1>1, <1>2, <1>5, <1>6, DropIs, Zenon
<1>9. \A i \in DOMAIN expires : i \in (n + 1)..Len(expires) <=> ~(i \in 1..n)
  BY <1>2, <1>6
<1>10. /\ \A i \in 1..n : i \in DOMAIN expires
       /\ \A i \in (n + 1)..Len(expires) : i \in DOMAIN expires
  BY <1>2, <1>6
<1>11. \A i \in DOMAIN expires : expires[i].req \in Late(n) <=> i \in 1..n
  BY <1>1, <1>10, Zenon DEF Once, Late
<1>12. \A s : s \in Elements(expires') <=> s \in Elements(expires) /\ s.req \notin Late(n)
  <2> TAKE s
  <2>1. ASSUME s \in Elements(expires')
        PROVE  s \in Elements(expires) /\ s.req \notin Late(n)
    <3>1. PICK i \in (n + 1)..Len(expires) : s = expires[i]
      BY <1>8, <2>1, Zenon
    <3>2. i \in DOMAIN expires
      BY <1>10, Zenon
    <3>3. expires[i].req \notin Late(n)
      BY <1>9, <1>11, <3>2, Zenon
    <3> QED
      BY <3>1, <3>2, <3>3, Zenon DEF Elements
  <2>2. ASSUME s \in Elements(expires), s.req \notin Late(n)
        PROVE  s \in Elements(expires')
    <3>1. PICK i \in DOMAIN expires : s = expires[i]
      BY <2>2, Zenon DEF Elements
    <3>2. i \in (n + 1)..Len(expires)
      BY <1>9, <1>11, <2>2, <3>1, Zenon
    <3> QED
      BY <1>8, <3>1, <3>2, Zenon
  <2> QED
    BY <2>1, <2>2, Zenon
<1>13. Leaves(Late(n))
  BY <1>7, <1>8, <1>12, Zenon DEF Leaves
<1> QED
  BY <1>5, <1>6, <1>13, Zenon DEF t

(* Requests that leave the queue, with the timer set for those that stay,  *)
(* keep the invariant.                                                     *)
LEMMA LeavesKeeps ==
  ASSUME QueueInv, NEW gone, Leaves(gone), UpdateTimer(expires'),
         ready' \in [Contexts -> Seq(Time)], failed' \subseteq Requests, now' = now,
         \A c \in Contexts : \A i \in DOMAIN ready'[c] : ready'[c][i] <= now
  PROVE  QueueInv'
<1>1. TypeOK /\ SameRequests
  BY Zenon DEF QueueInv
<1>2. SameRequests'
  BY <1>1, LeaveTogether, Zenon DEF Leaves
<1>3. timers' \in [Contexts -> Time \cup {Off}] /\ EarliestIsTimed'
  <2>1. timers \in [Contexts -> Time \cup {Off}] /\ expires' \in Seq(Slots) /\ Sorted(expires')
    BY <1>1, Zenon DEF TypeOK, Leaves
  <2> QED
    BY <2>1, TimedNow, Zenon
<1>4. order' \in Seq(Requests)
  BY Zenon DEF Leaves, KeepsFrom
<1>5. TypeOK'
  BY <1>1, <1>3, <1>4, Zenon DEF TypeOK, Leaves
<1>6. Sorted(expires)'
  BY Zenon DEF Leaves, Sorted
<1>7. \A c \in Contexts : \A i \in DOMAIN ready'[c] : ready'[c][i] <= now'
  BY Zenon
<1> QED
  BY <1>2, <1>3, <1>5, <1>6, <1>7, Zenon DEF QueueInv
(* pop() keeps the invariant.                                              *)
LEMMA PopStep ==
  ASSUME QueueInv, Pop
  PROVE  QueueInv'
<1>1. Leaves({Head(order)})
  BY PopLeaves, Zenon
<1>2. UpdateTimer(expires') /\ ready' = ready /\ failed' = failed /\ now' = now
  BY Zenon DEF Pop
<1>3. ready' \in [Contexts -> Seq(Time)] /\ failed' \subseteq Requests
  BY <1>2, Zenon DEF QueueInv, TypeOK
<1>4. \A c \in Contexts : \A i \in DOMAIN ready'[c] : ready'[c][i] <= now
  BY <1>2, Zenon DEF QueueInv
<1> QED
  BY <1>1, <1>2, <1>3, <1>4, LeavesKeeps, Zenon

(* cancel() keeps the invariant.                                           *)
LEMMA CancelStep ==
  ASSUME QueueInv, NEW c \in Contexts, Cancel(c)
  PROVE  QueueInv'
<1>1. PICK n \in 0..Len(expires) : failed' = failed \cup Late(n) /\ Leaves(Late(n))
  BY CancelLeaves, Zenon
<1>2. UpdateTimer(expires') /\ now' = now /\ ready[c] # <<>> /\ ready' = [ready EXCEPT ![c] = Tail(ready[c])]
  BY Zenon DEF Cancel
<1>3. ready \in [Contexts -> Seq(Time)] /\ expires \in Seq(Slots) /\ failed \subseteq Requests
  BY Zenon DEF QueueInv, TypeOK
<1>4. Late(n) \subseteq Requests
  <2>1. \A i \in 1..n : i \in DOMAIN expires /\ expires[i] \in Slots
    BY <1>3
  <2>2. \A i \in 1..n : expires[i].req \in Requests
    BY <2>1 DEF Slots
  <2> QED
    BY <2>2, Zenon DEF Late
<1>5. ready[c] \in Seq(Time)
  BY <1>3, Zenon
<1>6. /\ Tail(ready[c]) \in Seq(Time)
      /\ \A i \in DOMAIN Tail(ready[c]) : i + 1 \in DOMAIN ready[c] /\ Tail(ready[c])[i] = ready[c][i + 1]
  BY <1>2, <1>5
<1>7. \A i \in DOMAIN Tail(ready[c]) : Tail(ready[c])[i] <= now
  BY <1>6, Zenon DEF QueueInv
<1>8. \A d \in Contexts : ready'[d] = IF d = c THEN Tail(ready[c]) ELSE ready[d]
  BY <1>2, <1>3
<1>9. ready' \in [Contexts -> Seq(Time)]
  BY <1>2, <1>3, <1>6
<1>10. \A d \in Contexts : \A i \in DOMAIN ready'[d] : ready'[d][i] <= now
  <2> TAKE d \in Contexts
  <2>1. CASE d = c
    BY <1>7, <1>8, <2>1, Zenon
  <2>2. CASE d # c
    BY <1>8, <2>2, Zenon DEF QueueInv
  <2> QED
    BY <2>1, <2>2, Zenon
<1>11. failed' \subseteq Requests
  BY <1>1, <1>3, <1>4, Zenon
<1> QED
  BY <1>1, <1>2, <1>9, <1>10, <1>11, LeavesKeeps, Zenon

(* A step that leaves both structures alone.                               *)
LEMMA SameQueue ==
  ASSUME QueueInv, order' = order, expires' = expires
  PROVE  SameRequests' /\ Sorted(expires)'
<1>1. Elements(order)' = Elements(order) /\ Elements(expires)' = Elements(expires)
  BY Zenon DEF Elements
<1>2. SameRequests
  BY Zenon DEF QueueInv
<1>3. SameRequests'
  <2>1. Elements(order)' = {s.req : s \in Elements(expires)'}
    BY <1>1, <1>2, Zenon DEF SameRequests
  <2>2. \A i, j \in DOMAIN order' : order'[i] = order'[j] => i = j
    BY <1>2, Zenon DEF SameRequests
  <2>3. \A i, j \in DOMAIN expires' : expires'[i].req = expires'[j].req => i = j
    BY <1>2, Zenon DEF SameRequests
  <2> QED
    BY <2>1, <2>2, <2>3, Zenon DEF SameRequests
<1>4. Sorted(expires)'
  BY ZenonT(40) DEF Sorted, QueueInv
<1> QED
  BY <1>3, <1>4

(* A step that leaves the multimap and the timers alone.                   *)
LEMMA SameTimed ==
  ASSUME QueueInv, expires' = expires, timers' = timers, ready' = ready
  PROVE  EarliestIsTimed'
<1>1. EarliestIsTimed
  BY Zenon DEF QueueInv
<1> QED
  BY <1>1, Zenon DEF EarliestIsTimed, Elements

(* A timer that expires keeps the invariant: its handler is on its way     *)
(* with the time the timer waited for.                                     *)
LEMMA TimerStep ==
  ASSUME QueueInv, NEW c \in Contexts, TimerExpires(c)
  PROVE  QueueInv'
<1>1. /\ timers[c] # Off /\ timers[c] <= now
      /\ ready' = [ready EXCEPT ![c] = Append(ready[c], timers[c])]
      /\ timers' = [timers EXCEPT ![c] = Off]
      /\ order' = order /\ expires' = expires /\ failed' = failed /\ now' = now
  BY Zenon DEF TimerExpires
<1>2. ready \in [Contexts -> Seq(Time)] /\ timers \in [Contexts -> Time \cup {Off}]
  BY Zenon DEF QueueInv, TypeOK
<1> DEFINE q == Append(ready[c], timers[c])
           last == Len(ready[c]) + 1
<1>3. ready[c] \in Seq(Time) /\ timers[c] \in Time
  BY <1>1, <1>2
<1>4. /\ q \in Seq(Time) /\ DOMAIN q = DOMAIN ready[c] \cup {last} /\ q[last] = timers[c]
      /\ \A i \in DOMAIN ready[c] : q[i] = ready[c][i]
  BY <1>3
<1>5. /\ ready' \in [Contexts -> Seq(Time)] /\ ready'[c] = q
      /\ \A d \in Contexts : d # c => ready'[d] = ready[d]
  BY <1>1, <1>2, <1>4, Zenon
<1>6. timers' \in [Contexts -> Time \cup {Off}] /\ \A d \in Contexts : d # c => timers'[d] = timers[d]
  BY <1>1, <1>2
<1> HIDE DEF q, last
<1>7. TypeOK'
  BY <1>1, <1>5, <1>6, Zenon DEF QueueInv, TypeOK
<1>8. SameRequests' /\ Sorted(expires)'
  BY <1>1, SameQueue, Zenon
<1>9. ASSUME NEW d \in Contexts, NEW i \in DOMAIN ready'[d]
      PROVE  ready'[d][i] <= now'
  <2>1. CASE d = c
    BY <1>1, <1>4, <1>5, <1>9, <2>1, Zenon DEF QueueInv
  <2>2. CASE d # c
    BY <1>1, <1>5, <1>9, <2>2, Zenon DEF QueueInv
  <2> QED
    BY <2>1, <2>2, Zenon
<1>10. EarliestIsTimed'
  <2> SUFFICES ASSUME expires # <<>>
               PROVE  LET first == Head(expires)
                          d == ContextOf[first.req]
                      IN  /\ \A s \in Elements(expires) : first.at <= s.at
                          /\ timers'[d] = first.at \/ first.at \in Elements(ready'[d])
    BY <1>1, Zenon DEF EarliestIsTimed, Elements
  <2> DEFINE first == Head(expires)
             d == ContextOf[first.req]
  <2>1. /\ \A s \in Elements(expires) : first.at <= s.at
        /\ timers[d] = first.at \/ first.at \in Elements(ready[d])
    BY Zenon DEF QueueInv, EarliestIsTimed
  <2>2. first \in Slots
    BY DEF QueueInv, TypeOK
  <2>3. first.req \in Requests
    BY <2>2 DEF Slots
  <2>4. d \in Contexts
    BY <2>3, RequestQueueAssumption
  <2> HIDE DEF first, d
  <2>5. CASE d = c
    <3>1. timers[c] \in Elements(ready'[c]) /\ Elements(ready[c]) \subseteq Elements(ready'[c])
      BY <1>4, <1>5, Zenon DEF Elements
    <3>2. first.at \in Elements(ready'[d])
      BY <2>1, <2>5, <3>1, Zenon
    <3> QED
      BY <2>1, <3>2, Zenon DEF first, d
  <2>6. CASE d # c
    BY <1>5, <1>6, <2>1, <2>4, <2>6, Zenon DEF first, d
  <2> QED
    BY <2>5, <2>6, Zenon
<1> QED
  BY <1>7, <1>8, <1>9, <1>10, Zenon DEF QueueInv

(* Every step of the queue keeps the invariant.                            *)
LEMMA QueueInductive ==
  ASSUME QueueInv, [Next]_vars
  PROVE  QueueInv'
<1>1. ASSUME NEW r \in Requests, Retry(r)
      PROVE  QueueInv'
  <2>1. /\ failed' \subseteq failed
        /\ order' = order /\ expires' = expires /\ timers' = timers /\ ready' = ready /\ now' = now
    BY <1>1, Zenon DEF Retry
  <2> QED
    <3>1. TypeOK'
      BY <2>1, Zenon DEF QueueInv, TypeOK
    <3>2. SameRequests' /\ Sorted(expires)' /\ EarliestIsTimed'
      BY <2>1, SameQueue, SameTimed, Zenon
    <3>3. \A c \in Contexts : \A i \in DOMAIN ready'[c] : ready'[c][i] <= now'
      BY <2>1, Zenon DEF QueueInv
    <3> QED
      BY <3>1, <3>2, <3>3, Zenon DEF QueueInv
<1>2. ASSUME NEW r \in Requests, NEW w \in Waits, Push(r, w)
      PROVE  QueueInv'
  BY <1>2, PushStep, Zenon
<1>3. CASE Pop
  BY <1>3, PopStep, Zenon
<1>4. ASSUME NEW c \in Contexts, TimerExpires(c)
      PROVE  QueueInv'
  BY <1>4, TimerStep, Zenon
<1>5. ASSUME NEW c \in Contexts, Cancel(c)
      PROVE  QueueInv'
  BY <1>5, CancelStep, Zenon
<1>6. CASE Tick
  <2>1. /\ order' = order /\ expires' = expires /\ timers' = timers /\ ready' = ready /\ failed' = failed
    BY <1>6, Zenon DEF Tick
  <2>2. now \in Time /\ now' \in Time /\ \A t \in Time : t <= now => t <= now'
    BY <1>6, RequestQueueAssumption DEF Tick, QueueInv, TypeOK, Time
  <2>3. ASSUME NEW c \in Contexts, NEW i \in DOMAIN ready[c]
        PROVE  ready[c][i] \in Time
    <3>1. ready[c] \in Seq(Time)
      BY Zenon DEF QueueInv, TypeOK
    <3> QED
      BY <2>3, <3>1
  <2>4. \A c \in Contexts : \A i \in DOMAIN ready[c] : ready[c][i] <= now'
    BY <2>2, <2>3, Zenon DEF QueueInv
  <2>5. TypeOK'
    BY <2>1, <2>2, Zenon DEF QueueInv, TypeOK
  <2>6. SameRequests' /\ Sorted(expires)' /\ EarliestIsTimed'
    BY <2>1, SameQueue, SameTimed, Zenon
  <2> QED
    BY <2>1, <2>4, <2>5, <2>6, Zenon DEF QueueInv
<1>7. CASE UNCHANGED vars
  <2>1. /\ order' = order /\ expires' = expires /\ timers' = timers /\ ready' = ready /\ failed' = failed
        /\ now' = now
    BY <1>7, Zenon DEF vars
  <2> QED
    <3>1. TypeOK'
      BY <2>1, Zenon DEF QueueInv, TypeOK
    <3>2. SameRequests' /\ Sorted(expires)' /\ EarliestIsTimed'
      BY <2>1, SameQueue, SameTimed, Zenon
    <3>3. \A c \in Contexts : \A i \in DOMAIN ready'[c] : ready'[c][i] <= now'
      BY <2>1, Zenon DEF QueueInv
    <3> QED
      BY <3>1, <3>2, <3>3, Zenon DEF QueueInv
<1> QED
  BY <1>1, <1>2, <1>3, <1>4, <1>5, <1>6, <1>7, Zenon DEF Next

(* A queue nothing was pushed to satisfies the invariant.                  *)
LEMMA QueueInitial ==
  Init => QueueInv
<1> SUFFICES ASSUME Init PROVE QueueInv
  OBVIOUS
<1>1. TypeOK
  BY RequestQueueAssumption DEF Init, TypeOK, Time
<1>2. DOMAIN order = {} /\ DOMAIN expires = {} /\ \A c \in Contexts : DOMAIN ready[c] = {}
  BY DEF Init
<1>3. SameRequests
  BY <1>2, Zenon DEF SameRequests, Elements
<1>4. EarliestIsTimed
  BY Zenon DEF Init, EarliestIsTimed
<1> QED
  BY <1>1, <1>2, <1>3, <1>4, Zenon DEF QueueInv, Sorted

(* In every reachable state the invariant holds.                           *)
LEMMA QueueAlways ==
  Spec => []QueueInv
<1>1. QueueInv /\ [Next]_vars => QueueInv'
  BY QueueInductive, Zenon
<1> QED
  BY <1>1, QueueInitial, PTL DEF Spec

(* However push(), pop() and the timers of several io_contexts interleave, *)
(* the request that expires first is timed (update_timer()).               *)
THEOREM EarliestAlwaysTimed ==
  Spec => []EarliestIsTimed
<1>1. QueueInv => EarliestIsTimed
  BY Zenon DEF QueueInv
<1> QED
  BY <1>1, QueueAlways, PTL

(* The list of requests and the multimap of their expiries never disagree: *)
(* no iterator that pop() or cancel() follows into the other is dangling.  *)
THEOREM QueueStructuresAgree ==
  Spec => [](TypeOK /\ SameRequests)
<1>1. QueueInv => TypeOK /\ SameRequests
  BY Zenon DEF QueueInv
<1> QED
  BY <1>1, QueueAlways, PTL
-----------------------------------------------------------------------------
(* What the multimap holds, as WaitQueue has it.                           *)
LEMMA WaitingIs ==
  ASSUME NEW m \in Seq(Slots)
  PROVE  /\ \A s \in Elements(m) : s \in Slots
         /\ \A e : e \in Waiting(m) <=> \E s \in Elements(m) : e = [req |-> s.req, expires |-> s.at]
         /\ \A s \in Slots : /\ [req |-> s.req, expires |-> s.at].req = s.req
                             /\ [req |-> s.req, expires |-> s.at].expires = s.at
<1>1. \A i \in DOMAIN m : m[i] \in Slots
  OBVIOUS
<1>2. \A s \in Elements(m) : s \in Slots
  BY <1>1, Zenon DEF Elements
<1>3. \A e : e \in Waiting(m) <=> \E s \in Elements(m) : e = [req |-> s.req, expires |-> s.at]
  BY Zenon DEF Waiting
<1>4. \A s \in Slots : /\ [req |-> s.req, expires |-> s.at].req = s.req
                       /\ [req |-> s.req, expires |-> s.at].expires = s.at
  OBVIOUS
<1> QED
  BY <1>2, <1>3, <1>4, Zenon

(* The multimap holds at least as many entries as WaitQueue has requests,  *)
(* so that push() checks the capacity WaitQueue asks for.                  *)
LEMMA WaitingBound ==
  ASSUME NEW m \in Seq(Slots)
  PROVE  Cardinality(Waiting(m)) \in Nat /\ Cardinality(Waiting(m)) <= Len(m)
<1> DEFINE f == [i \in 1..Len(m) |-> [req |-> m[i].req, expires |-> m[i].at]]
           W == Waiting(m)
<1>1. DOMAIN m = 1..Len(m) /\ Len(m) \in Nat
  OBVIOUS
<1>2. \A i \in 1..Len(m) : f[i] \in W
  BY <1>1, Zenon DEF Waiting, Elements
<1>3. f \in [1..Len(m) -> W]
  <2>1. f = [i \in 1..Len(m) |-> f[i]]
    OBVIOUS
  <2> HIDE DEF f, W
  <2> QED
    BY <1>2, <2>1
<1>4. \A e \in W : \E i \in 1..Len(m) : f[i] = e
  <2> SUFFICES ASSUME NEW e \in W PROVE \E i \in 1..Len(m) : f[i] = e
    OBVIOUS
  <2>1. PICK s \in Elements(m) : e = [req |-> s.req, expires |-> s.at]
    BY Zenon DEF Waiting
  <2>2. PICK i \in 1..Len(m) : s = m[i]
    BY <1>1, Zenon DEF Elements
  <2>3. f[i] = e
    BY <2>1, <2>2
  <2> QED
    BY <2>3, Zenon
<1> HIDE DEF f, W
<1>5. f \in Surjection(1..Len(m), W)
  BY <1>3, <1>4, Zenon DEF Surjection
<1>6. IsFiniteSet(1..Len(m)) /\ Cardinality(1..Len(m)) = Len(m)
  <2>1. 1 \in Int /\ Len(m) \in Int
    BY <1>1
  <2>2. /\ IsFiniteSet(1..Len(m))
        /\ Cardinality(1..Len(m)) = IF 1 > Len(m) THEN 0 ELSE Len(m) - 1 + 1
    BY <2>1, FS_Interval, Zenon
  <2> QED
    BY <1>1, <2>2
<1>7. IsFiniteSet(W) /\ Cardinality(W) <= Cardinality(1..Len(m))
  BY <1>5, <1>6, FS_Surjection, Zenon
<1>8. Cardinality(W) \in Nat
  BY <1>7, FS_CardinalityType, Zenon
<1> QED
  BY <1>6, <1>7, <1>8, Zenon DEF W

(* Requests that leave the list and the multimap leave WaitQueue.          *)
LEMMA LeavesMapped ==
  ASSUME QueueInv, NEW gone, Leaves(gone)
  PROVE  Queue!Leave({e \in Waiting(expires) : e.req \in gone})
<1> DEFINE G == {e \in Waiting(expires) : e.req \in gone}
<1>1. expires \in Seq(Slots) /\ expires' \in Seq(Slots) /\ order \in Seq(Requests) /\ order' \in Seq(Requests)
  BY Zenon DEF QueueInv, TypeOK, Leaves, KeepsFrom
<1>2. \A s : s \in Elements(expires') <=> s \in Elements(expires) /\ s.req \notin gone
  BY Zenon DEF Leaves
<1>3. Waiting(expires') = Waiting(expires) \ G
  <2>1. ASSUME NEW e \in Waiting(expires')
        PROVE  e \in Waiting(expires) /\ e.req \notin gone
    <3>1. PICK s \in Elements(expires') : e = [req |-> s.req, expires |-> s.at]
      BY <1>1, WaitingIs, Zenon
    <3>2. s \in Elements(expires) /\ s.req \notin gone
      BY <1>2, <3>1, Zenon
    <3>3. e.req = s.req
      BY <1>1, <3>1, WaitingIs, Zenon
    <3> QED
      BY <1>1, <3>1, <3>2, <3>3, WaitingIs, Zenon
  <2>2. ASSUME NEW e \in Waiting(expires), e.req \notin gone
        PROVE  e \in Waiting(expires')
    <3>1. PICK s \in Elements(expires) : e = [req |-> s.req, expires |-> s.at]
      BY <1>1, WaitingIs, Zenon
    <3>2. e.req = s.req
      BY <1>1, <3>1, WaitingIs, Zenon
    <3>3. s \in Elements(expires')
      BY <1>2, <2>2, <3>1, <3>2, Zenon
    <3> QED
      BY <1>1, <3>1, <3>3, WaitingIs, Zenon
  <2> QED
    BY <2>1, <2>2, Zenon
<1>4. \A x, y : <<x, y>> \in Before(order') <=> <<x, y>> \in Before(order) /\ x \notin gone /\ y \notin gone
  <2>1. DOMAIN order = 1..Len(order)
    BY <1>1
  <2>2. \A x, y : <<x, y>> \in Before(order')
                    <=> \E i, j \in DOMAIN order' : i < j /\ order'[i] = x /\ order'[j] = y
    BY <1>1, BeforeIs, Zenon
  <2>3. \A x, y : <<x, y>> \in Before(order)
                    <=> \E i, j \in 1..Len(order) : i < j /\ order[i] = x /\ order[j] = y
    <3>1. \A x, y : <<x, y>> \in Before(order)
                      <=> \E i, j \in DOMAIN order : i < j /\ order[i] = x /\ order[j] = y
      BY <1>1, BeforeIs, Zenon
    <3>2. \A i : i \in DOMAIN order <=> i \in 1..Len(order)
      BY <2>1, Zenon
    <3> TAKE x, y
    <3>3. ASSUME NEW i \in DOMAIN order, NEW j \in DOMAIN order, i < j, order[i] = x, order[j] = y
          PROVE  \E k, l \in 1..Len(order) : k < l /\ order[k] = x /\ order[l] = y
      BY <3>2, <3>3, Zenon
    <3>4. ASSUME NEW i \in 1..Len(order), NEW j \in 1..Len(order), i < j, order[i] = x, order[j] = y
          PROVE  \E k, l \in DOMAIN order : k < l /\ order[k] = x /\ order[l] = y
      BY <3>2, <3>4, Zenon
    <3>5. (\E i, j \in DOMAIN order : i < j /\ order[i] = x /\ order[j] = y)
            <=> \E i, j \in 1..Len(order) : i < j /\ order[i] = x /\ order[j] = y
      BY <3>3, <3>4, Zenon
    <3> QED
      BY <3>1, <3>5
  <2>4. \A x, y : (\E i, j \in DOMAIN order' : i < j /\ order'[i] = x /\ order'[j] = y)
                    <=> (x \notin gone /\ y \notin gone
                           /\ \E i, j \in 1..Len(order) : i < j /\ order[i] = x /\ order[j] = y)
    BY Zenon DEF Leaves, KeepsFrom
  <2> TAKE x, y
  <2> DEFINE twoO == \E i, j \in 1..Len(order) : i < j /\ order[i] = x /\ order[j] = y
             twoP == \E i, j \in DOMAIN order' : i < j /\ order'[i] = x /\ order'[j] = y
  <2>5. <<x, y>> \in Before(order') <=> twoP
    BY <2>2
  <2>6. <<x, y>> \in Before(order) <=> twoO
    BY <2>3
  <2>7. twoP <=> (x \notin gone /\ y \notin gone /\ twoO)
    BY <2>4, Zenon
  <2> HIDE DEF twoO, twoP
  <2> QED
    BY <2>5, <2>6, <2>7, Zenon
<1>5. ASSUME NEW x \in Elements(order)
      PROVE  x \in gone <=> \E e \in G : e.req = x
  <2>1. PICK s \in Elements(expires) : s.req = x
    BY Zenon DEF QueueInv, SameRequests
  <2> DEFINE e == [req |-> s.req, expires |-> s.at]
  <2>2. e \in Waiting(expires) /\ e.req = x
    BY <1>1, <2>1, WaitingIs, Zenon
  <2> HIDE DEF e
  <2> QED
    BY <2>2, Zenon
<1>6. \A x, y : <<x, y>> \in Before(order) => x \in Elements(order) /\ y \in Elements(order)
  <2>1. \A x, y : <<x, y>> \in Before(order)
                    <=> \E i, j \in DOMAIN order : i < j /\ order[i] = x /\ order[j] = y
    BY <1>1, BeforeIs, Zenon
  <2> QED
    BY <2>1, Zenon DEF Elements
<1>7. Before(order') = {p \in Before(order) : \A e \in G : e.req \notin {p[1], p[2]}}
  <2>1. ASSUME NEW x, NEW y, <<x, y>> \in Before(order)
        PROVE  <<x, y>> \in Before(order') <=> \A e \in G : e.req \notin {x, y}
    BY <1>4, <1>5, <1>6, <2>1, Zenon
  <2>2. ASSUME NEW p \in Before(order)
        PROVE  p \in Before(order') <=> \A e \in G : e.req \notin {p[1], p[2]}
    <3>1. p = <<p[1], p[2]>>
      BY <1>1, BeforePairs, Zenon
    <3> DEFINE x == p[1]
               y == p[2]
    <3>2. <<x, y>> \in Before(order)
      BY <3>1
    <3> HIDE DEF x, y
    <3>3. <<x, y>> \in Before(order') <=> \A e \in G : e.req \notin {x, y}
      BY <2>1, <3>2, Zenon
    <3>4. p = <<x, y>>
      BY <3>1, Zenon DEF x, y
    <3>5. p \in Before(order') <=> \A e \in G : e.req \notin {x, y}
      BY <3>3, <3>4, Zenon
    <3> QED
      BY <3>5, Zenon DEF x, y
  <2>3. ASSUME NEW p \in Before(order')
        PROVE  p \in Before(order)
    <3>1. p = <<p[1], p[2]>>
      BY <1>1, BeforePairs, Zenon
    <3> QED
      BY <1>4, <3>1, Zenon
  <2> HIDE DEF G
  <2> QED
    BY <2>2, <2>3, Zenon
<1>8. Waiting(expires)' = Waiting(expires') /\ Before(order)' = Before(order')
  BY Zenon DEF Waiting, Before, Elements
<1> HIDE DEF G
<1>9. Queue!Leave(G)
  BY <1>3, <1>7, <1>8, Zenon DEF Queue!Leave
<1> QED
  BY <1>9, Zenon DEF G
(* WaitQueue counts as this module does.                                   *)
LEMMA SameCount ==
  ASSUME NEW S
  PROVE  Queue!Cardinality(S) = Cardinality(S)
BY DEF Cardinality, Queue!Cardinality

(* push() is a request that joins WaitQueue behind those that wait.        *)
LEMMA PushMapped ==
  ASSUME QueueInv, NEW r \in Requests, NEW w \in Waits, Push(r, w)
  PROVE  Queue!QueueNext
<1> DEFINE t == Add(now, w)
           s == [at |-> t, req |-> r]
           e == [req |-> r, expires |-> t]
<1>1. /\ expires \in Seq(Slots) /\ order \in Seq(Requests) /\ now \in Time /\ Sorted(expires) /\ Once(expires)
      /\ Elements(order) = {u.req : u \in Elements(expires)}
  BY OnceSame, Zenon DEF QueueInv, TypeOK, SameRequests
<1>2. t \in Time /\ now <= t
  BY <1>1, RequestQueueAssumption DEF Add, Time
<1>3. /\ \A i \in DOMAIN order : order[i] # r
      /\ Len(expires) < Capacity
      /\ order' = Append(order, r)
      /\ expires' = Insert(expires, s)
      /\ now' = now
  BY Zenon DEF Push
<1> HIDE DEF t
<1>4. s \in Slots /\ s.req = r /\ s.at = t /\ e.req = r /\ e.expires = t /\ e = [req |-> s.req, expires |-> s.at]
  BY <1>2 DEF Slots
<1> HIDE DEF s, e
<1>5. \A u \in Elements(expires) : u.req # r
  BY <1>1, <1>3, Zenon DEF Elements
<1>6. expires' \in Seq(Slots) /\ Elements(expires') = Elements(expires) \cup {s}
  <2>1. \A i \in DOMAIN expires : expires[i].req # s.req
    BY <1>4, <1>5, Zenon DEF Elements
  <2> QED
    BY <1>1, <1>3, <1>4, <2>1, InsertIs, Zenon
<1>7. Waiting(expires') = Waiting(expires) \cup {e}
  BY <1>4, <1>6, Zenon DEF Waiting
<1>8. ASSUME NEW f \in Waiting(expires)
      PROVE  f.req # r /\ f.req \in Elements(order)
  <2>1. PICK u \in Elements(expires) : f = [req |-> u.req, expires |-> u.at]
    BY <1>1, WaitingIs, Zenon
  <2>2. f.req = u.req
    BY <1>1, <2>1, WaitingIs, Zenon
  <2> QED
    BY <1>1, <1>5, <2>1, <2>2, Zenon
<1>9. ASSUME NEW x \in Elements(order)
      PROVE  \E f \in Waiting(expires) : f.req = x
  <2>1. PICK u \in Elements(expires) : u.req = x
    BY <1>1, Zenon
  <2> DEFINE f == [req |-> u.req, expires |-> u.at]
  <2>2. f \in Waiting(expires) /\ f.req = x
    BY <1>1, <2>1, WaitingIs, Zenon
  <2> QED
    BY <2>2, Zenon
<1>10. Cardinality(Waiting(expires)) < Capacity
  <2>1. Cardinality(Waiting(expires)) \in Nat /\ Cardinality(Waiting(expires)) <= Len(expires)
    BY <1>1, WaitingBound, Zenon
  <2>2. Len(expires) \in Nat /\ Capacity \in Nat
    BY <1>1, RequestQueueAssumption
  <2>3. \A a, b, c \in Nat : a <= b /\ b < c => a < c
    OBVIOUS
  <2> QED
    BY <1>3, <2>1, <2>2, <2>3, Zenon
<1> DEFINE k == Len(order) + 1
<1>11. /\ order' \in Seq(Requests) /\ DOMAIN order' = DOMAIN order \cup {k} /\ order'[k] = r
       /\ \A i \in DOMAIN order : order'[i] = order[i] /\ i < k /\ ~(k < i)
       /\ ~(k < k)
  BY <1>1, <1>3
<1> HIDE DEF k
<1>12. Before(order') = Before(order) \cup {<<x, r>> : x \in Elements(order)}
  <2>1. \A x, y : <<x, y>> \in Before(order')
                    <=> \E i, j \in DOMAIN order' : i < j /\ order'[i] = x /\ order'[j] = y
    BY <1>11, BeforeIs, Zenon
  <2>2. \A x, y : <<x, y>> \in Before(order)
                    <=> \E i, j \in DOMAIN order : i < j /\ order[i] = x /\ order[j] = y
    BY <1>1, BeforeIs, Zenon
  <2>3. ASSUME NEW i \in DOMAIN order', NEW j \in DOMAIN order', i < j
        PROVE  <<order'[i], order'[j]>> \in Before(order) \cup {<<x, r>> : x \in Elements(order)}
    <3>1. i \in DOMAIN order
      BY <1>11, <2>3, Zenon
    <3>2. CASE j = k
      BY <1>11, <3>1, <3>2, Zenon DEF Elements
    <3>3. CASE j \in DOMAIN order
      <4>1. <<order[i], order[j]>> \in Before(order)
        BY <2>2, <2>3, <3>1, <3>3, Zenon
      <4> QED
        BY <1>11, <3>1, <3>3, <4>1, Zenon
    <3> QED
      BY <1>11, <3>2, <3>3, Zenon
  <2>4. ASSUME NEW x \in Elements(order)
        PROVE  <<x, r>> \in Before(order')
    <3>1. PICK i \in DOMAIN order : order[i] = x
      BY Zenon DEF Elements
    <3>2. i \in DOMAIN order' /\ k \in DOMAIN order' /\ i < k /\ order'[i] = x /\ order'[k] = r
      BY <1>11, <3>1, Zenon
    <3> QED
      BY <2>1, <3>2
  <2>5. ASSUME NEW i \in DOMAIN order, NEW j \in DOMAIN order, i < j
        PROVE  <<order[i], order[j]>> \in Before(order')
    <3>1. i \in DOMAIN order' /\ j \in DOMAIN order' /\ order'[i] = order[i] /\ order'[j] = order[j]
      BY <1>11, Zenon
    <3> QED
      BY <2>1, <2>5, <3>1, Zenon
  <2>6. ASSUME NEW p \in Before(order')
        PROVE  \E i, j \in DOMAIN order' : i < j /\ p = <<order'[i], order'[j]>>
    <3>1. p = <<p[1], p[2]>>
      BY <1>11, BeforePairs, Zenon
    <3>2. PICK i \in DOMAIN order', j \in DOMAIN order' : i < j /\ order'[i] = p[1] /\ order'[j] = p[2]
      BY <2>1, <3>1
    <3> QED
      BY <3>1, <3>2, Zenon
  <2>7. ASSUME NEW p \in Before(order)
        PROVE  \E i, j \in DOMAIN order : i < j /\ p = <<order[i], order[j]>>
    <3>1. p = <<p[1], p[2]>>
      BY <1>1, BeforePairs, Zenon
    <3>2. PICK i \in DOMAIN order, j \in DOMAIN order : i < j /\ order[i] = p[1] /\ order[j] = p[2]
      BY <2>2, <3>1
    <3> QED
      BY <3>1, <3>2, Zenon
  <2>8. Before(order') \subseteq Before(order) \cup {<<x, r>> : x \in Elements(order)}
    <3> SUFFICES ASSUME NEW p \in Before(order')
                 PROVE  p \in Before(order) \cup {<<x, r>> : x \in Elements(order)}
      BY Zenon
    <3>1. PICK i \in DOMAIN order', j \in DOMAIN order' : i < j /\ p = <<order'[i], order'[j]>>
      BY <2>6, Zenon
    <3> QED
      BY <2>3, <3>1
  <2>9. Before(order) \subseteq Before(order')
    BY <2>5, <2>7, Zenon
  <2>10. {<<x, r>> : x \in Elements(order)} \subseteq Before(order')
    BY <2>4, Zenon
  <2> QED
    BY <2>8, <2>9, <2>10, Zenon
<1>13. {<<x, r>> : x \in Elements(order)} = {<<f.req, r>> : f \in Waiting(expires)}
  BY <1>8, <1>9, Zenon
<1>14. Waiting(expires)' = Waiting(expires') /\ Before(order)' = Before(order')
  BY Zenon DEF Waiting, Before, Elements
<1>15. Queue!Join(r, t)
  <2>1. Waiting(expires)' = Waiting(expires) \cup {[req |-> r, expires |-> t]}
    BY <1>7, <1>14, Zenon DEF e
  <2>2. Before(order)' = Before(order) \cup {<<f.req, r>> : f \in Waiting(expires)}
    BY <1>12, <1>13, <1>14, Zenon
  <2>3. \A f \in Waiting(expires) : f.req # r
    BY <1>8, Zenon
  <2>4. Queue!Cardinality(Waiting(expires)) < Capacity
    BY <1>10, SameCount, Zenon
  <2> QED
    BY <1>2, <2>1, <2>2, <2>3, <2>4, Zenon DEF Queue!Join
<1>16. e \in Waiting(expires)' /\ e.req = r /\ Queue!Join(r, e.expires)
  BY <1>4, <1>7, <1>14, <1>15, Zenon
<1> QED
  BY <1>3, <1>16, Zenon DEF Queue!QueueNext
(* pop() takes the request that has waited longest.                        *)
LEMMA PopMapped ==
  ASSUME QueueInv, Pop
  PROVE  Queue!QueueNext
<1> DEFINE r == Head(order)
<1>1. /\ expires \in Seq(Slots) /\ order \in Seq(Requests) /\ Once(expires)
      /\ Elements(order) = {u.req : u \in Elements(expires)}
      /\ \A i, j \in DOMAIN order : order[i] = order[j] => i = j
  BY OnceSame, Zenon DEF QueueInv, TypeOK, SameRequests
<1>2. Leaves({r}) /\ r = order[1] /\ 1 \in DOMAIN order
  BY PopLeaves, Zenon
<1>3. now' = now
  BY Zenon DEF Pop
<1> HIDE DEF r
<1>4. PICK s \in Elements(expires) : s.req = r
  <2>1. r \in Elements(order)
    BY <1>2, Zenon DEF Elements
  <2> QED
    BY <1>1, <2>1, Zenon
<1> DEFINE e == [req |-> s.req, expires |-> s.at]
<1>5. e \in Waiting(expires) /\ e.req = r
  BY <1>1, <1>4, WaitingIs, Zenon
<1>6. ASSUME NEW f \in Waiting(expires), f.req = r
      PROVE  f = e
  <2>1. PICK u \in Elements(expires) : f = [req |-> u.req, expires |-> u.at]
    BY <1>1, WaitingIs, ZenonT(40)
  <2>2. u.req = r
    BY <1>1, <1>6, <2>1, WaitingIs, Zenon
  <2>3. u = s
    BY <1>1, <1>4, <2>2, Zenon DEF Elements, Once
  <2> QED
    BY <2>1, <2>3, Zenon
<1> HIDE DEF e
<1>7. {f \in Waiting(expires) : f.req \in {r}} = {e}
  BY <1>5, <1>6, Zenon
<1>8. Queue!Leave({e})
  <2>1. Queue!Leave({f \in Waiting(expires) : f.req \in {r}})
    BY <1>2, LeavesMapped, Zenon
  <2> QED
    BY <1>7, <2>1, Zenon
<1>9. ASSUME NEW x, <<x, r>> \in Before(order)
      PROVE  FALSE
  <2>1. \A a, b : <<a, b>> \in Before(order)
                    <=> \E i, j \in DOMAIN order : i < j /\ order[i] = a /\ order[j] = b
    BY <1>1, BeforeIs, Zenon
  <2>2. PICK i \in DOMAIN order, j \in DOMAIN order : i < j /\ order[j] = r
    BY <1>9, <2>1
  <2>3. j = 1
    BY <1>1, <1>2, <2>2, Zenon
  <2> QED
    BY <1>1, <2>2, <2>3
<1>10. Queue!TakeFront(e)
  BY <1>5, <1>8, <1>9, Zenon DEF Queue!TakeFront
<1> QED
  BY <1>3, <1>5, <1>10, Zenon DEF Queue!QueueNext

(* cancel() is what expires by a time that has come, or nothing when the   *)
(* handler is out of date.                                                 *)
LEMMA CancelMapped ==
  ASSUME QueueInv, NEW c \in Contexts, Cancel(c)
  PROVE  [Queue!QueueNext]_(Queue!queueVars)
<1> DEFINE t == Head(ready[c])
<1>1. PICK n \in 0..Len(expires) :
        /\ \A i \in DOMAIN expires : (i <= n) <=> (expires[i].at <= t)
        /\ Leaves(Late(n))
  BY CancelLeaves, Zenon
<1>2. /\ expires \in Seq(Slots) /\ Sorted(expires) /\ Once(expires) /\ now \in Time
      /\ ready[c] \in Seq(Time) /\ ready[c] # <<>> /\ now' = now
  BY OnceSame, Zenon DEF QueueInv, TypeOK, Cancel
<1>3. t \in Time /\ t <= now
  <2>1. t = ready[c][1] /\ 1 \in DOMAIN ready[c] /\ t \in Time
    BY <1>2
  <2> QED
    BY <2>1, Zenon DEF QueueInv
<1> HIDE DEF t
<1> DEFINE G == {e \in Waiting(expires) : e.req \in Late(n)}
<1>4. Queue!Leave(G)
  BY <1>1, LeavesMapped, Zenon
<1>5. CASE n = 0
  <2>1. Late(n) = {}
    BY <1>5 DEF Late
  <2>2. G = {}
    BY <2>1, Zenon
  <2> HIDE DEF G
  <2>3. Waiting(expires)' = Waiting(expires) /\ Before(order)' = Before(order)
    BY <1>4, <2>2, Zenon DEF Queue!Leave
  <2> QED
    BY <1>2, <2>3, Zenon DEF Queue!queueVars
<1>6. CASE n # 0
  <2>1. n \in DOMAIN expires /\ n <= n /\ \A i \in DOMAIN expires : i \in 1..n <=> i <= n
    BY <1>1, <1>2, <1>6
  <2>2. \A i \in 1..n : i \in DOMAIN expires
    BY <1>1, <1>2
  <2>3. \A i \in DOMAIN expires : expires[i].at \in Nat
    <3>1. \A i \in DOMAIN expires : expires[i] \in Slots
      BY <1>2
    <3> QED
      BY <3>1, RequestQueueAssumption DEF Slots, Time
  <2>4. t \in Nat /\ now \in Nat
    BY <1>2, <1>3, RequestQueueAssumption DEF Time
  <2> DEFINE s == expires[n]
             e == [req |-> s.req, expires |-> s.at]
  <2>5. s.at \in Nat /\ s.at <= t
    BY <1>1, <2>1, <2>3, Zenon
  <2> HIDE DEF s
  <2>6. \A a, b, d \in Nat : a <= b /\ b <= d => a <= d
    OBVIOUS
  <2>7. s.at <= now
    BY <1>3, <2>4, <2>5, <2>6, Zenon
  <2>8. s \in Elements(expires)
    BY <2>1, Zenon DEF Elements, s
  <2>9. e \in Waiting(expires) /\ e.expires = s.at
    BY <1>2, <2>8, WaitingIs, Zenon
  <2>10. ASSUME NEW i \in DOMAIN expires
         PROVE  expires[i].req \in Late(n) <=> expires[i].at <= s.at
    <3>1. expires[i].req \in Late(n) <=> i \in 1..n
      BY <1>2, <2>2, Zenon DEF Once, Late
    <3>2. i <= n => expires[i].at <= s.at
      BY <1>2, <2>1, Zenon DEF Sorted, s
    <3>3. expires[i].at <= s.at => expires[i].at <= t
      BY <2>3, <2>4, <2>5, <2>6, Zenon
    <3>4. expires[i].at <= t => i <= n
      BY <1>1, Zenon
    <3> QED
      BY <2>1, <3>1, <3>2, <3>3, <3>4, Zenon
  <2>11. ASSUME NEW f \in Waiting(expires)
         PROVE  f.req \in Late(n) <=> f.expires <= e.expires
    <3>1. PICK u \in Elements(expires) : f = [req |-> u.req, expires |-> u.at]
      BY <1>2, WaitingIs, Zenon
    <3>2. f.req = u.req /\ f.expires = u.at
      BY <1>2, <3>1, WaitingIs, Zenon
    <3>3. u.req \in Late(n) <=> u.at <= s.at
      BY <2>10, <3>1, Zenon DEF Elements
    <3> QED
      BY <2>9, <3>2, <3>3, Zenon
  <2> HIDE DEF e
  <2>12. G = {f \in Waiting(expires) : f.expires <= e.expires}
    BY <2>11, Zenon
  <2> HIDE DEF G
  <2>13. Queue!Expire(e.expires)
    BY <1>4, <2>7, <2>9, <2>12, Zenon DEF Queue!Expire
  <2> QED
    BY <1>2, <2>9, <2>13, Zenon DEF Queue!QueueNext
<1> QED
  BY <1>5, <1>6, Zenon

(* The queue does what the asynchronous pool's model has of it: first come *)
(* first served, capacity kept, and whoever is told about a timeout had    *)
(* expired, with everybody else who had by then (push, pop, cancel).       *)
THEOREM QueueRefines ==
  Spec => ImplementsWaitQueue
<1>1. Init => Queue!QueueInit
  <2> SUFFICES ASSUME Init PROVE Queue!QueueInit
    OBVIOUS
  <2>1. DOMAIN order = {} /\ DOMAIN expires = {} /\ now = 0
    BY DEF Init
  <2>2. Waiting(expires) = {}
    BY <2>1, Zenon DEF Waiting, Elements
  <2>3. Before(order) = {}
    BY <2>1 DEF Before
  <2> QED
    BY <2>1, <2>2, <2>3, Zenon DEF Queue!QueueInit
<1>2. QueueInv /\ [Next]_vars => [Queue!QueueNext]_(Queue!queueVars)
  <2> SUFFICES ASSUME QueueInv, [Next]_vars PROVE [Queue!QueueNext]_(Queue!queueVars)
    OBVIOUS
  <2>1. ASSUME order' = order, expires' = expires, now' = now
        PROVE  [Queue!QueueNext]_(Queue!queueVars)
    <3>1. Waiting(expires)' = Waiting(expires) /\ Before(order)' = Before(order)
      BY <2>1, Zenon DEF Waiting, Before, Elements
    <3> QED
      BY <2>1, <3>1, Zenon DEF Queue!queueVars
  <2>2. ASSUME NEW r \in Requests, Retry(r)
        PROVE  [Queue!QueueNext]_(Queue!queueVars)
    BY <2>1, <2>2, Zenon DEF Retry
  <2>3. ASSUME NEW r \in Requests, NEW w \in Waits, Push(r, w)
        PROVE  [Queue!QueueNext]_(Queue!queueVars)
    BY <2>3, PushMapped, Zenon
  <2>4. CASE Pop
    BY <2>4, PopMapped, Zenon
  <2>5. ASSUME NEW c \in Contexts, TimerExpires(c)
        PROVE  [Queue!QueueNext]_(Queue!queueVars)
    BY <2>1, <2>5, Zenon DEF TimerExpires
  <2>6. ASSUME NEW c \in Contexts, Cancel(c)
        PROVE  [Queue!QueueNext]_(Queue!queueVars)
    BY <2>6, CancelMapped, Zenon
  <2>7. CASE Tick
    <3>1. order' = order /\ expires' = expires
      BY <2>7, Zenon DEF Tick
    <3>2. now' > now
      BY <2>7, RequestQueueAssumption DEF Tick, QueueInv, TypeOK, Time
    <3>3. Waiting(expires)' = Waiting(expires) /\ Before(order)' = Before(order)
      BY <3>1, Zenon DEF Waiting, Before, Elements
    <3> QED
      BY <3>2, <3>3, Zenon DEF Queue!QueueNext
  <2>8. CASE UNCHANGED vars
    BY <2>1, <2>8, Zenon DEF vars
  <2> QED
    BY <2>2, <2>3, <2>4, <2>5, <2>6, <2>7, <2>8, Zenon DEF Next
<1> QED
  BY <1>1, <1>2, QueueAlways, PTL DEF Spec, ImplementsWaitQueue, Queue!QueueSpec
=============================================================================
