--------------------------- MODULE EvidenceProofs ---------------------------
(***************************************************************************)
(* Proofs about Evidence, for any objectives, records, caps and windows:   *)
(* evidence is counted once, and the availability, cost, budget and        *)
(* recovery accounts say no more and no less than what was given to them.  *)
(***************************************************************************)
EXTENDS Evidence, SequenceTheorems, FiniteSetTheorems, WellFoundedInduction, TLAPS

-----------------------------------------------------------------------------
(* Duplicates *)

\* A memory of ids holds the last ones of a history, all of them or as many as
\* fit.
Remembers(ids, all, cap) ==
    /\ Len(ids) <= cap /\ Len(ids) <= Len(all)
    /\ Len(ids) < cap => Len(ids) = Len(all)
    /\ \A i \in 1..Len(ids) : ids[i] = all[Len(all) - Len(ids) + i]

\* What remember returns, by index.
LEMMA RememberIs ==
    ASSUME NEW S, NEW ids \in Seq(S), NEW id \in S, NEW cap \in Nat \ {0}
    PROVE  LET r == remember(ids, id, cap)
               off == IF Len(ids) >= cap THEN 1 ELSE 0
           IN  /\ r \in Seq(S) /\ Len(r) = Len(ids) - off + 1
               /\ \A i \in 1..(Len(ids) - off) : r[i] = ids[off + i]
               /\ r[Len(ids) - off + 1] = id
<1> DEFINE off == IF Len(ids) >= cap THEN 1 ELSE 0
           t == IF Len(ids) >= cap THEN Tail(ids) ELSE ids
<1>1. Len(ids) \in Nat
    BY LenProperties
<1>2. /\ t \in Seq(S) /\ Len(t) = Len(ids) - off
      /\ \A i \in 1..(Len(ids) - off) : t[i] = ids[off + i]
    <2>1. CASE Len(ids) >= cap
        <3>1. ids # <<>>
            BY <1>1, <2>1, EmptySeq
        <3>2. /\ Tail(ids) \in Seq(S) /\ Len(Tail(ids)) = Len(ids) - 1
              /\ \A i \in 1..Len(Tail(ids)) : Tail(ids)[i] = ids[i + 1]
            BY <3>1, HeadTailProperties
        <3> QED BY <1>1, <2>1, <3>2
    <2>2. CASE ~ (Len(ids) >= cap)
        BY <1>1, <2>2
    <2> QED BY <2>1, <2>2
<1>3. remember(ids, id, cap) = Append(t, id)
    BY DEF remember
<1>4. off \in {0, 1}
    OBVIOUS
<1> HIDE DEF off, t
<1>5. /\ Append(t, id) \in Seq(S) /\ Len(Append(t, id)) = Len(t) + 1
      /\ \A i \in 1..Len(t) : Append(t, id)[i] = t[i]
      /\ Append(t, id)[Len(t) + 1] = id
    BY <1>2, AppendProperties
<1> DEFINE r == Append(t, id)
<1> HIDE DEF r
<1>6. /\ r \in Seq(S) /\ Len(r) = Len(ids) - off + 1
      /\ \A i \in 1..(Len(ids) - off) : r[i] = ids[off + i]
      /\ r[Len(ids) - off + 1] = id
    BY <1>2, <1>5 DEF r
<1> QED BY <1>3, <1>6 DEF r, off

\* An id that is not held is remembered: the memory goes on holding the last
\* ids, and no id occurs twice within cap.
LEMMA Remembered ==
    ASSUME NEW S, NEW ids \in Seq(S), NEW all \in Seq(S), NEW id \in S,
           NEW cap \in Nat \ {0}, id \notin Elements(ids),
           Remembers(ids, all, cap), Apart(all, cap)
    PROVE  /\ remember(ids, id, cap) \in Seq(S) /\ Append(all, id) \in Seq(S)
           /\ Remembers(remember(ids, id, cap), Append(all, id), cap)
           /\ Apart(Append(all, id), cap)
<1> DEFINE n == Len(ids)
           m == Len(all)
           off == IF n >= cap THEN 1 ELSE 0
           r == remember(ids, id, cap)
           a == Append(all, id)
           p == n - off + 1
           q == m + 1
<1>1. n \in Nat /\ m \in Nat
    BY LenProperties
<1>2. /\ n <= cap /\ n <= m /\ (n < cap => n = m)
      /\ \A i \in 1..n : ids[i] = all[m - n + i]
    BY DEF Remembers
<1>3. /\ r \in Seq(S) /\ Len(r) = p
      /\ \A i \in 1..(n - off) : r[i] = ids[off + i]
      /\ r[p] = id
    BY RememberIs
<1>4. /\ a \in Seq(S) /\ Len(a) = q
      /\ \A i \in 1..m : a[i] = all[i]
      /\ a[q] = id
    BY AppendProperties
<1>5. \A i \in 1..n : ids[i] # id
    BY DEF Elements
<1>6. \A j, k \in 1..m : j < k /\ all[j] = all[k] => k - j > cap
    BY DEF Apart
<1>7. off = (IF n >= cap THEN 1 ELSE 0) /\ p = n - off + 1 /\ q = m + 1
    OBVIOUS
<1> HIDE DEF n, m, off, r, a, p, q
<1>8. /\ p \in Nat /\ q \in Nat /\ p <= cap /\ p <= q /\ (p < cap => p = q)
      /\ \A i \in 1..p : i # p => /\ i \in 1..(n - off) /\ off + i \in 1..n
                                  /\ m - n + (off + i) \in 1..m
                                  /\ m - n + (off + i) = q - p + i
      /\ q - p + p = q
    <2>1. n <= cap /\ n <= m /\ (n < cap => n = m)
        BY <1>2
    <2>2. n \in Nat /\ m \in Nat
        BY <1>1
    <2> QED BY <1>7, <2>1, <2>2
<1>9. \A i \in 1..p : r[i] = a[q - p + i]
    <2> SUFFICES ASSUME NEW i \in 1..p PROVE r[i] = a[q - p + i]
        OBVIOUS
    <2>1. CASE i # p
        <3>1. r[i] = all[m - n + (off + i)]
            BY <1>2, <1>3, <1>8, <2>1
        <3> QED BY <1>4, <1>8, <2>1, <3>1
    <2>2. CASE i = p
        BY <1>3, <1>4, <1>8, <2>2
    <2> QED BY <2>1, <2>2
<1>10. Remembers(r, a, cap)
    <2>1. /\ Len(r) = p /\ Len(a) = q
          /\ p <= cap /\ p <= q /\ (p < cap => p = q)
          /\ \A i \in 1..p : r[i] = a[q - p + i]
        BY <1>3, <1>4, <1>8, <1>9, Zenon
    <2> QED BY <2>1, Zenon DEF Remembers
<1>11. ASSUME NEW j \in 1..q, NEW k \in 1..q, j < k, a[j] = a[k]
       PROVE  k - j > cap
    <2>1. j \in 1..m /\ (k \in 1..m \/ k = q)
        BY <1>1, <1>7, <1>11
    <2>2. CASE k \in 1..m
        BY <1>4, <1>6, <1>11, <2>1, <2>2
    <2>3. CASE k = q
        <3>1. all[j] = id
            BY <1>4, <1>11, <2>1, <2>3
        <3>2. j <= m - n
            <4> SUFFICES ASSUME ~ (j <= m - n) PROVE FALSE
                OBVIOUS
            <4> DEFINE i == j - (m - n)
            <4>1. i \in 1..n /\ m - n + i = j
                BY <1>1, <1>2, <2>1
            <4> HIDE DEF i
            <4>2. ids[i] = all[j]
                BY <1>2, <4>1
            <4> QED BY <1>5, <3>1, <4>1, <4>2
        <3>3. n = cap
            BY <1>1, <1>2, <2>1, <3>2
        <3> QED BY <1>1, <1>7, <2>1, <2>3, <3>2, <3>3
    <2> QED BY <2>1, <2>2, <2>3
<1>12. Apart(a, cap)
    BY <1>4, <1>11 DEF Apart
<1> QED BY <1>3, <1>4, <1>10, <1>12 DEF r, a

-----------------------------------------------------------------------------
(* Availability *)

LEMMA WholeUnits ==
    ASSUME NEW x \in Nat
    PROVE  x \div 10000 \in Nat /\ 10000 * (x \div 10000) <= x
OBVIOUS

LEMMA SomeUnits ==
    ASSUME NEW x \in Nat, x > 0, x % 10000 = 0
    PROVE  x \div 10000 > 0
OBVIOUS

LEMMA Product ==
    ASSUME NEW v \in Nat, NEW w \in Nat
    PROVE  v * w \in Nat /\ (100 * v) * w \in Nat /\ v * w <= (100 * v) * w
OBVIOUS

\* A share is rounded down to whole units, and is at least none.
LEMMA UnitsOfShare ==
    ASSUME NEW v \in Nat, NEW w \in Nat
    PROVE  whole_units(v, w) \in Nat /\ 10000 * whole_units(v, w) <= v * w
<1> DEFINE x == v * w
           d == x \div 10000
           s == <<v, w>> \in Short
<1>1. x \in Nat
    BY Product
<1>2. d \in Nat /\ 10000 * d <= x
    <2> HIDE DEF x
    <2> QED BY <1>1, WholeUnits
<1>3. s => x > 0 /\ x % 10000 = 0
    <2>1. \A r \in Short : r[1] * r[2] > 0 /\ (r[1] * r[2]) % 10000 = 0
        BY ShortAssumption
    <2> DEFINE r == <<v, w>>
    <2>2. r[1] = v /\ r[2] = w
        OBVIOUS
    <2>3. s => r[1] * r[2] > 0 /\ (r[1] * r[2]) % 10000 = 0
        BY <2>1
    <2> QED BY <2>2, <2>3
<1>4. s => d > 0
    <2> HIDE DEF x, s
    <2> QED BY <1>1, <1>3, SomeUnits
<1>5. whole_units(v, w) = d - (IF s THEN 1 ELSE 0)
    BY DEF whole_units
<1> HIDE DEF x, d, s
<1>6. (s /\ whole_units(v, w) = d - 1) \/ whole_units(v, w) = d
    BY <1>2, <1>5
<1>7. whole_units(v, w) \in Nat /\ 10000 * whole_units(v, w) <= x
    BY <1>1, <1>2, <1>4, <1>6
<1> QED BY <1>7 DEF x

\* What a record adds to the units reported.
Reported(e) == IF e.value > 0 THEN stated(e) * weight(e) ELSE 0

\* A record claims no larger a share of its units than it states, whatever its
\* number and its unit.
LEMMA UnitsClaimed ==
    ASSUME NEW e \in Records
    PROVE  /\ weight(e) \in Nat /\ serving_units(e) \in Int /\ Reported(e) \in Nat
           /\ 10000 * serving_units(e) <= Reported(e)
<1> DEFINE v == e.value
           w == weight(e)
           u == serving_units(e)
           t == Reported(e)
<1>1. v \in Int /\ e.sample_count \in Int
    BY InputAssumption DEF EvidenceRecord
<1>2. w \in Nat
    BY <1>1 DEF weight
<1>3. u = IF v >= 0 THEN whole_units(v, w) ELSE - whole_units(- v, w)
    BY DEF serving_units
<1>4. t = (IF v > 0 THEN (100 * v) * w ELSE 0) \/ t = (IF v > 0 THEN v * w ELSE 0)
    BY DEF Reported, stated
<1> HIDE DEF v, w, u, t
<1>5. CASE v > 0
    <2>1. v \in Nat /\ u = whole_units(v, w)
        BY <1>1, <1>3, <1>5
    <2>2. u \in Nat /\ 10000 * u <= v * w
        BY <1>2, <2>1, UnitsOfShare
    <2>3. v * w \in Nat /\ (100 * v) * w \in Nat /\ v * w <= (100 * v) * w
        BY <1>2, <2>1, Product
    <2>4. t = (100 * v) * w \/ t = v * w
        BY <1>4, <1>5
    <2> DEFINE x == v * w
               y == (100 * v) * w
    <2> HIDE DEF x, y
    <2>5. /\ u \in Nat /\ 10000 * u <= x /\ x \in Nat /\ y \in Nat /\ x <= y
          /\ t = y \/ t = x
        BY <2>2, <2>3, <2>4 DEF x, y
    <2>6. u \in Int /\ t \in Nat /\ 10000 * u <= t
        BY <2>5
    <2> QED BY <1>2, <2>6 DEF w, u, t
<1>6. CASE v = 0
    <2>1. v \in Nat /\ u = whole_units(v, w) /\ v * w = 0 /\ t = 0
        BY <1>2, <1>3, <1>4, <1>6
    <2>2. whole_units(v, w) \in Nat /\ 10000 * whole_units(v, w) <= v * w
        <3>1. v \in Nat
            BY <2>1
        <3> QED BY <1>2, <3>1, UnitsOfShare
    <2>3. u \in Int /\ t \in Nat /\ 10000 * u <= t
        BY <2>1, <2>2
    <2> QED BY <1>2, <2>3 DEF w, u, t
<1>7. CASE v < 0
    <2> DEFINE x == - v
               n == whole_units(x, w)
    <2>1. x \in Nat /\ t = 0
        BY <1>1, <1>4, <1>7
    <2>2. u = - n
        BY <1>1, <1>3, <1>7
    <2> HIDE DEF x
    <2>3. n \in Nat
        BY <1>2, <2>1, UnitsOfShare
    <2> HIDE DEF n
    <2>4. u \in Int /\ t \in Nat /\ 10000 * u <= t
        BY <2>1, <2>2, <2>3
    <2> QED BY <1>2, <2>4 DEF w, u, t
<1> QED BY <1>1, <1>5, <1>6, <1>7

-----------------------------------------------------------------------------
(* Cost *)

\* A non-empty set of numbers has a least element.
LEMMA Least ==
    ASSUME NEW T, T \subseteq Nat, T # {}
    PROVE  \E x \in T : \A y \in T : x <= y
<1> DEFINE R == OpToRel(<, Nat)
<1>1. IsWellFoundedOn(R, Nat)
    BY NatLessThanWellFounded
<1>2. R = {ss \in Nat \X Nat : ss[1] < ss[2]}
    BY DEF OpToRel
<1> HIDE DEF R
<1>3. PICK x \in T : \A y \in T : ~ (<<y, x>> \in R)
    BY <1>1, WFMin
<1>4. ASSUME NEW y \in T
      PROVE  x <= y
    <2>1. x \in Nat /\ y \in Nat /\ <<y, x>> \notin R
        BY <1>3
    <2>2. y < x => <<y, x>> \in R
        BY <1>2, <2>1
    <2> QED BY <2>1, <2>2
<1> QED BY <1>4

\* evict drops charges from the front: the expired ones, and what is too many.
LEMMA EvictIs ==
    ASSUME NEW items \in Seq(Charge), NEW time
    PROVE  \E n \in 0..Len(items) :
              /\ evict(items, time) = SubSeq(items, n + 1, Len(items))
              /\ \A k \in 1..n : expired(items[k], time) \/ Len(items) - k >= CostCap
<1> DEFINE l == Len(items)
           Stop(n) == /\ \A k \in 1..n : expired(items[k], time)
                      /\ n < l => ~ expired(items[n + 1], time)
           old == CHOOSE n \in 0..l : Stop(n)
           T == {k \in 1..l : ~ expired(items[k], time)}
           n == IF l - old > CostCap THEN l - CostCap ELSE old
<1>1. l \in Nat /\ CostCap \in Nat
    BY LenProperties, BoundsAssumption
<1>2. \E i \in 0..l : Stop(i)
    <2>1. CASE T = {}
        <3>1. l \in 0..l /\ Stop(l)
            BY <1>1, <2>1
        <3> QED BY <3>1
    <2>2. CASE T # {}
        <3>1. T \subseteq Nat
            BY <1>1
        <3> HIDE DEF T
        <3>2. PICK x \in T : \A y \in T : x <= y
            BY <2>2, <3>1, Least
        <3>3. x \in 1..l /\ ~ expired(items[x], time)
            BY <3>2 DEF T
        <3>4. x - 1 \in 0..l /\ (x - 1) + 1 = x
            BY <1>1, <3>3
        <3>5. ASSUME NEW k \in 1..(x - 1)
              PROVE  expired(items[k], time)
            <4>1. k \in 1..l /\ ~ (x <= k)
                BY <1>1, <3>3
            <4>2. k \notin T
                BY <3>2, <4>1
            <4> QED BY <4>1, <4>2 DEF T
        <3>6. Stop(x - 1)
            BY <3>3, <3>4, <3>5
        <3> HIDE DEF Stop
        <3> QED BY <3>4, <3>6
    <2> QED BY <2>1, <2>2
<1>3. old \in 0..l /\ Stop(old)
    <2> HIDE DEF Stop
    <2> QED BY <1>2
<1>4. evict(items, time) = SubSeq(items, n + 1, l)
    BY DEF evict
<1>5. n = (IF l - old > CostCap THEN l - CostCap ELSE old) /\ \A k \in 1..old : expired(items[k], time)
    BY <1>3
<1> HIDE DEF l, old, n
<1>6. n \in 0..l /\ \A k \in 1..n : expired(items[k], time) \/ l - k >= CostCap
    <2>1. CASE l - old > CostCap
        <3>1. n = l - CostCap
            BY <1>5, <2>1
        <3> QED BY <1>1, <1>3, <2>1, <3>1
    <2>2. CASE ~ (l - old > CostCap)
        BY <1>3, <1>5, <2>2
    <2> QED BY <2>1, <2>2
<1> QED BY <1>4, <1>6 DEF l

\* Charge k of n is too far back, or older than the window at another's time.
Gone(charged, n, k) ==
    \/ n - k >= CostCap
    \/ /\ CostDuration > 0
       /\ \E j \in 1..n : charged[j].time - charged[k].time > CostDuration

\* The charges held are the last ones charged, and only such were dropped.
Kept(cost, charged) ==
    LET dropped == Len(charged) - Len(cost)
    IN  /\ dropped >= 0
        /\ \A k \in 1..Len(cost) : cost[k] = charged[dropped + k]
        /\ \A k \in 1..dropped : Gone(charged, Len(charged), k)

LEMMA CostStep ==
    ASSUME NEW cost \in Seq(Charge), NEW charged \in Seq(Charge), NEW c \in Charge,
           Kept(cost, charged)
    PROVE  /\ evict(Append(cost, c), c.time) \in Seq(Charge)
           /\ Append(charged, c) \in Seq(Charge)
           /\ Kept(evict(Append(cost, c), c.time), Append(charged, c))
<1> DEFINE items == Append(cost, c)
           after == Append(charged, c)
           m == Len(cost)
           l == Len(charged)
           d == l - m
<1>1. m \in Nat /\ l \in Nat /\ CostCap \in Nat
    BY LenProperties, BoundsAssumption
<1>2. /\ d >= 0
      /\ \A k \in 1..m : cost[k] = charged[d + k]
      /\ \A k \in 1..d : Gone(charged, l, k)
    BY DEF Kept
<1>3. /\ items \in Seq(Charge) /\ Len(items) = m + 1
      /\ \A k \in 1..m : items[k] = cost[k]
      /\ items[m + 1] = c
    BY AppendProperties
<1>4. /\ after \in Seq(Charge) /\ Len(after) = l + 1
      /\ \A k \in 1..l : after[k] = charged[k]
      /\ after[l + 1] = c
    BY AppendProperties
<1> HIDE DEF items, after
<1>5. PICK n \in 0..Len(items) :
         /\ evict(items, c.time) = SubSeq(items, n + 1, Len(items))
         /\ \A k \in 1..n : expired(items[k], c.time) \/ Len(items) - k >= CostCap
    BY <1>3, EvictIs
<1> DEFINE r == evict(items, c.time)
<1>6. /\ r \in Seq(Charge) /\ Len(r) = (m + 1) - n
      /\ \A i \in 1..((m + 1) - n) : r[i] = items[n + i]
    <2>1. /\ n \in Int /\ n + 1 \in Int /\ m + 1 \in Int /\ n \in Nat /\ n <= m + 1
          /\ (IF n + 1 <= m + 1 THEN (m + 1) - (n + 1) + 1 ELSE 0) = (m + 1) - n
        BY <1>1, <1>3
    <2>2. \A i \in (n + 1)..(m + 1) : items[i] \in Charge
        <3>1. \A i \in (n + 1)..(m + 1) : i \in 1..Len(items)
            BY <1>1, <1>3, <2>1
        <3> QED BY <1>3, <3>1, ElementOfSeq
    <2> DEFINE t == SubSeq(items, n + 1, m + 1)
    <2>3. /\ t \in Seq(Charge)
          /\ Len(t) = IF n + 1 <= m + 1 THEN (m + 1) - (n + 1) + 1 ELSE 0
          /\ \A i \in 1..((m + 1) - (n + 1) + 1) : t[i] = items[n + 1 + i - 1]
        BY <2>1, <2>2, SubSeqProperties
    <2>4. r = t
        BY <1>3, <1>5
    <2>5. (m + 1) - (n + 1) + 1 = (m + 1) - n /\ \A i \in 1..((m + 1) - n) : n + 1 + i - 1 = n + i
        BY <1>1, <2>1
    <2> HIDE DEF t, r
    <2> QED BY <2>1, <2>3, <2>4, <2>5
<1>7. /\ n \in Nat /\ n <= m + 1
      /\ \A k \in 1..n : expired(items[k], c.time) \/ (m + 1) - k >= CostCap
    BY <1>1, <1>3, <1>5
<1> HIDE DEF r, m, l
<1>8. (l + 1) - ((m + 1) - n) = d + n /\ d \in Nat /\ l = d + m
    BY <1>1, <1>2, <1>7
<1> HIDE DEF d
<1>9. \A k \in 1..(m + 1) : items[k] = after[d + k]
    <2> SUFFICES ASSUME NEW k \in 1..(m + 1) PROVE items[k] = after[d + k]
        OBVIOUS
    <2>1. CASE k \in 1..m
        <3>1. d + k \in 1..l
            BY <1>1, <1>8, <2>1
        <3> QED BY <1>2, <1>3, <1>4, <2>1, <3>1
    <2>2. CASE k \notin 1..m
        <3>1. k = m + 1 /\ d + k = l + 1
            BY <1>1, <1>8, <2>2
        <3> QED BY <1>3, <1>4, <3>1
    <2> QED BY <2>1, <2>2
<1>10. ASSUME NEW k \in 1..((m + 1) - n)
       PROVE  r[k] = after[d + n + k]
    <2>1. n + k \in 1..(m + 1) /\ d + (n + k) = d + n + k
        BY <1>1, <1>7, <1>8
    <2> QED BY <1>6, <1>9, <2>1
<1>11. ASSUME NEW k \in 1..(d + n)
       PROVE  Gone(after, l + 1, k)
    <2>1. CASE k \in 1..d
        <3>1. k \in 1..l /\ \A j \in 1..l : j \in 1..(l + 1)
            BY <1>1, <1>8, <2>1
        <3>2. l - k >= CostCap => (l + 1) - k >= CostCap
            BY <1>1, <3>1
        <3>3. CASE l - k >= CostCap
            <4>1. (l + 1) - k >= CostCap
                BY <3>2, <3>3
            <4> QED BY <4>1, Zenon DEF Gone
        <3>4. CASE ~ (l - k >= CostCap)
            <4>1. Gone(charged, l, k)
                BY <1>2, <2>1
            <4>2. PICK j \in 1..l : CostDuration > 0 /\ charged[j].time - charged[k].time > CostDuration
                BY <3>4, <4>1 DEF Gone
            <4>3. after[j].time - after[k].time > CostDuration
                BY <1>4, <3>1, <4>2
            <4> QED BY <3>1, <4>2, <4>3 DEF Gone
        <3> QED BY <3>3, <3>4
    <2>2. CASE k \notin 1..d
        <3> DEFINE i == k - d
        <3>1. i \in 1..n /\ i \in 1..(m + 1) /\ k = d + i /\ (m + 1) - i = (l + 1) - k
            BY <1>1, <1>7, <1>8, <2>2
        <3> HIDE DEF i
        <3>2. items[i] = after[k]
            BY <1>9, <3>1
        <3>3. l + 1 \in 1..(l + 1)
            BY <1>1
        <3>4. CASE expired(items[i], c.time)
            BY <1>4, <3>2, <3>3, <3>4 DEF expired, Gone
        <3>5. CASE (m + 1) - i >= CostCap
            <4>1. (l + 1) - k >= CostCap
                BY <3>1, <3>5
            <4> QED BY <4>1, Zenon DEF Gone
        <3> QED BY <1>7, <3>1, <3>4, <3>5
    <2> QED BY <2>1, <2>2
<1>12. Kept(r, after)
    <2> DEFINE p == (m + 1) - n
               q == l + 1
               g == d + n
    <2>1. Len(r) = p /\ Len(after) = q /\ q - p = g /\ g >= 0
        BY <1>4, <1>6, <1>7, <1>8
    <2>2. \A k \in 1..p : r[k] = after[g + k]
        BY <1>10
    <2>3. \A k \in 1..g : Gone(after, q, k)
        BY <1>11
    <2> HIDE DEF p, q, g
    <2> QED BY <2>1, <2>2, <2>3, Zenon DEF Kept
<1> QED BY <1>4, <1>6, <1>12 DEF r, items, after

-----------------------------------------------------------------------------
(* Budgets *)

\* The violation events delivered since t.
Delivered(d, t) == Cardinality({k \in 1..Len(d) : d[k] >= t})

Within(b, d, time) ==
    b # None => b.window_start <= time /\ b.consumed <= Delivered(d, b.window_start)

\* Another delivery is counted once, by the windows that have begun.
LEMMA DeliveredMore ==
    ASSUME NEW d \in Seq(Nat), NEW t \in Nat, NEW x \in Nat
    PROVE  /\ Delivered(d, t) \in Nat /\ Delivered(Append(d, x), t) \in Nat
           /\ Delivered(d, t) <= Delivered(Append(d, x), t)
           /\ x >= t => Delivered(Append(d, x), t) = Delivered(d, t) + 1
<1> DEFINE a == Append(d, x)
           n == Len(d)
           D == {k \in 1..n : d[k] >= t}
           A == {k \in 1..Len(a) : a[k] >= t}
<1>1. n \in Nat
    BY LenProperties
<1>2. Len(a) = n + 1 /\ (\A k \in 1..n : a[k] = d[k]) /\ a[n + 1] = x
    BY AppendProperties
<1> HIDE DEF a
<1>3. IsFiniteSet(1..n)
    BY <1>1, FS_Interval
<1>4. IsFiniteSet(D) /\ Cardinality(D) \in Nat
    <2>1. D \in SUBSET (1..n)
        OBVIOUS
    <2> HIDE DEF D
    <2> QED BY <1>3, <2>1, FS_Subset, FS_CardinalityType
<1>5. A = IF x >= t THEN D \cup {n + 1} ELSE D
    <2>1. \A k : k \in 1..(n + 1) <=> k \in 1..n \/ k = n + 1
        BY <1>1
    <2> QED BY <1>2, <2>1
<1>6. n + 1 \notin D
    BY <1>1
<1>7. Delivered(d, t) = Cardinality(D) /\ Delivered(a, t) = Cardinality(A)
    BY DEF Delivered
<1> HIDE DEF D, A, n
<1>8. CASE x >= t
    <2>1. Cardinality(A) = Cardinality(D) + 1
        BY <1>4, <1>5, <1>6, <1>8, FS_AddElement
    <2> QED BY <1>4, <1>7, <2>1 DEF a
<1>9. CASE ~ (x >= t)
    BY <1>4, <1>5, <1>7, <1>9 DEF a
<1> QED BY <1>8, <1>9

\* What is within its deliveries stays so as time passes and more are delivered.
LEMMA WithinKept ==
    ASSUME NEW b \in Option(ErrorBudget), NEW d \in Seq(Nat), NEW t \in Nat, NEW t2 \in Nat,
           t <= t2, NEW x \in Nat, Within(b, d, t)
    PROVE  Within(b, d, t2) /\ Within(b, Append(d, x), t2)
<1> SUFFICES ASSUME b # None
             PROVE  /\ b.window_start <= t2 /\ b.consumed <= Delivered(d, b.window_start)
                    /\ b.consumed <= Delivered(Append(d, x), b.window_start)
    BY DEF Within
<1>1. b \in ErrorBudget
    BY DEF Option
<1>2. b.window_start \in Nat /\ b.consumed \in Nat
    BY <1>1 DEF ErrorBudget
<1>3. b.window_start <= t /\ b.consumed <= Delivered(d, b.window_start)
    BY DEF Within
<1>4. /\ Delivered(d, b.window_start) \in Nat /\ Delivered(Append(d, x), b.window_start) \in Nat
      /\ Delivered(d, b.window_start) <= Delivered(Append(d, x), b.window_start)
    BY <1>2, DeliveredMore
<1> QED BY <1>2, <1>3, <1>4

\* A budget that has consumed nothing is within any deliveries.
LEMMA NothingConsumed ==
    ASSUME NEW b \in ErrorBudget, NEW d \in Seq(Nat), NEW t \in Nat,
           b.consumed = 0, b.window_start <= t
    PROVE  Within(b, d, t)
<1>1. b.window_start \in Nat /\ 0 \in Nat
    BY DEF ErrorBudget
<1>2. Delivered(d, b.window_start) \in Nat
    BY <1>1, DeliveredMore
<1> QED BY <1>2 DEF Within

\* A violation event consumes one, and is delivered.
LEMMA OneConsumed ==
    ASSUME NEW b \in ErrorBudget, NEW d \in Seq(Nat), NEW t \in Nat, Within(b, d, t)
    PROVE  /\ [b EXCEPT !.consumed = @ + 1] \in ErrorBudget
           /\ Within([b EXCEPT !.consumed = @ + 1], Append(d, t), t)
<1> DEFINE c == [b EXCEPT !.consumed = @ + 1]
<1>1. b.window_start \in Nat /\ b.consumed \in Nat /\ b # None
    BY NoneAssumption DEF ErrorBudget
<1>2. c \in ErrorBudget /\ c.window_start = b.window_start /\ c.consumed = b.consumed + 1
    BY <1>1 DEF ErrorBudget
<1>3. b.window_start <= t /\ b.consumed <= Delivered(d, b.window_start)
    BY <1>1 DEF Within
<1>4. /\ Delivered(d, b.window_start) \in Nat
      /\ Delivered(Append(d, t), b.window_start) = Delivered(d, b.window_start) + 1
    BY <1>1, <1>3, DeliveredMore
<1> HIDE DEF c
<1>5. c.window_start <= t /\ c.consumed <= Delivered(Append(d, t), c.window_start)
    BY <1>1, <1>2, <1>3, <1>4
<1> QED BY <1>2, <1>5 DEF Within, c

-----------------------------------------------------------------------------
(* Accounts *)

\* What holds of every accumulator of objective o.
Account(a, o) ==
    /\ a \in Accumulator
    /\ Remembers(a.recent, a.taken, DedupCap)
    /\ Apart(a.taken, DedupCap)
    /\ 10000 * a.successful <= a.reported
    /\ Kept(a.cost, a.charged)

\* A new accumulator has nothing to account for.
LEMMA NewAccount ==
    ASSUME NEW o, NEW g \in Nat, NEW b \in Option(ErrorBudget)
    PROVE  /\ Account(NewAccumulator(g, b), o)
           /\ NewAccumulator(g, b).gen = g /\ NewAccumulator(g, b).budget = b
<1> DEFINE a == NewAccumulator(g, b)
<1>1. /\ << >> \in Seq(EvidenceId) /\ << >> \in Seq(Charge) /\ Len(<< >>) = 0
    BY EmptySeq
<1>2. a \in Accumulator
    BY <1>1 DEF NewAccumulator, Accumulator, Option
<1>3. /\ a.recent = << >> /\ a.taken = << >> /\ a.cost = << >> /\ a.charged = << >>
      /\ a.successful = 0 /\ a.eligible = 0 /\ a.reported = 0
      /\ a.gen = g /\ a.budget = b
    BY DEF NewAccumulator
<1> HIDE DEF a
<1>4. Remembers(<< >>, << >>, DedupCap)
    <2>1. DedupCap \in Nat
        BY BoundsAssumption
    <2> QED BY <1>1, <2>1 DEF Remembers
<1>5. Apart(<< >>, DedupCap)
    BY <1>1 DEF Apart
<1>6. Kept(<< >>, << >>)
    BY <1>1 DEF Kept
<1>7. 10000 * 0 <= 0
    OBVIOUS
<1> QED BY <1>2, <1>3, <1>4, <1>5, <1>6, <1>7 DEF Account, a

\* Two accumulators that differ in their budget or their recovery only.
LEMMA SameAccount ==
    ASSUME NEW o, NEW a, Account(a, o), NEW b \in Accumulator,
           b.recent = a.recent, b.taken = a.taken, b.cost = a.cost, b.charged = a.charged,
           b.successful = a.successful, b.eligible = a.eligible, b.reported = a.reported
    PROVE  Account(b, o)
<1>1. Remembers(b.recent, b.taken, DedupCap) /\ Apart(b.taken, DedupCap)
    BY DEF Account
<1>2. Kept(b.cost, b.charged)
    BY DEF Account
<1>3. 10000 * b.successful <= b.reported
    BY DEF Account
<1> QED BY <1>1, <1>2, <1>3 DEF Account

\* b has a's generation, recovery and budget.
Continues(b, a) ==
    /\ b.gen = a.gen /\ b.budget = a.budget
    /\ b.authoritative_at = a.authoritative_at /\ b.verified_at = a.verified_at

\* The availability account.
LEMMA AvailabilityAdded ==
    ASSUME NEW o, NEW a, Account(a, o), NEW e \in Records
    PROVE  Account(add_availability(a, e), o) /\ Continues(add_availability(a, e), a)
<1> DEFINE b == add_availability(a, e)
           w == weight(e)
           u == serving_units(e)
           t == Reported(e)
<1>1. w \in Nat /\ u \in Int /\ t \in Nat
    BY UnitsClaimed
<1>2. 10000 * u <= t
    BY UnitsClaimed
<1>3. b = [a EXCEPT !.eligible = @ + w, !.successful = @ + u, !.reported = @ + t]
    BY DEF add_availability, Reported
<1>4. a \in Accumulator
    BY DEF Account
<1> HIDE DEF b, w, u, t
<1>5. a.eligible \in Nat /\ a.successful \in Int /\ a.reported \in Nat
    BY <1>4 DEF Accumulator
<1>6. b \in Accumulator
    <2> DEFINE p == a.eligible + w
               q == a.successful + u
               r == a.reported + t
    <2>1. p \in Nat /\ q \in Int /\ r \in Nat
        BY <1>1, <1>5
    <2>2. b = [a EXCEPT !.eligible = p, !.successful = q, !.reported = r]
        BY <1>3
    <2> HIDE DEF p, q, r
    <2> QED BY <1>4, <2>1, <2>2 DEF Accumulator
<1>7. /\ b.eligible = a.eligible + w /\ b.successful = a.successful + u
      /\ b.reported = a.reported + t
    BY <1>3, <1>4 DEF Accumulator
<1>8. /\ b.recent = a.recent /\ b.taken = a.taken /\ b.cost = a.cost /\ b.charged = a.charged
      /\ Continues(b, a)
    BY <1>3, <1>4 DEF Accumulator, Continues
<1>9. 10000 * b.successful <= b.reported
    <2>1. 10000 * a.successful <= a.reported
        BY DEF Account
    <2> QED BY <1>1, <1>2, <1>5, <1>7, <2>1
<1>10. Remembers(b.recent, b.taken, DedupCap) /\ Apart(b.taken, DedupCap)
    BY <1>8 DEF Account
<1>11. Kept(b.cost, b.charged)
    BY <1>8 DEF Account
<1>12. Account(b, o)
    BY <1>6, <1>9, <1>10, <1>11 DEF Account
<1> QED BY <1>8, <1>12 DEF b

\* The cost account.
LEMMA CostAdded ==
    ASSUME NEW o, NEW a, Account(a, o), NEW e \in Records
    PROVE  Account(add_cost(a, e), o) /\ Continues(add_cost(a, e), a)
<1> DEFINE b == add_cost(a, e)
           c == [time |-> e.time, amount |-> e.value]
           x == evict(Append(a.cost, c), c.time)
           y == Append(a.charged, c)
<1>1. c \in Charge
    BY InputAssumption DEF EvidenceRecord, Charge
<1>2. b = [a EXCEPT !.cost = x, !.charged = y]
    BY DEF add_cost
<1>3. a \in Accumulator /\ Kept(a.cost, a.charged)
    BY DEF Account
<1>4. a.cost \in Seq(Charge) /\ a.charged \in Seq(Charge)
    BY <1>3 DEF Accumulator
<1> HIDE DEF c
<1>5. x \in Seq(Charge) /\ y \in Seq(Charge) /\ Kept(x, y)
    BY <1>1, <1>3, <1>4, CostStep
<1> HIDE DEF b, x, y
<1>6. b \in Accumulator
    BY <1>2, <1>3, <1>5 DEF Accumulator
<1>7. b.cost = x /\ b.charged = y
    BY <1>2, <1>3 DEF Accumulator
<1>8. /\ b.recent = a.recent /\ b.taken = a.taken
      /\ b.successful = a.successful /\ b.eligible = a.eligible /\ b.reported = a.reported
      /\ Continues(b, a)
    BY <1>2, <1>3 DEF Accumulator, Continues
<1>9. Remembers(b.recent, b.taken, DedupCap) /\ Apart(b.taken, DedupCap)
    BY <1>8 DEF Account
<1>10. 10000 * b.successful <= b.reported
    BY <1>8 DEF Account
<1>11. Kept(b.cost, b.charged)
    BY <1>5, <1>7
<1>12. Account(b, o)
    BY <1>6, <1>9, <1>10, <1>11 DEF Account
<1> QED BY <1>8, <1>12 DEF b

\* An id that the objective does not remember is remembered.
LEMMA Noted ==
    ASSUME NEW o, NEW a, Account(a, o), NEW e \in Records, e.id \notin Elements(a.recent)
    PROVE  LET b == [a EXCEPT !.recent = remember(@, e.id, DedupCap),
                              !.taken = Append(@, e.id)]
           IN  Account(b, o) /\ Continues(b, a)
<1> DEFINE x == remember(a.recent, e.id, DedupCap)
           y == Append(a.taken, e.id)
           b == [a EXCEPT !.recent = x, !.taken = y]
<1>1. /\ a \in Accumulator /\ Remembers(a.recent, a.taken, DedupCap)
      /\ Apart(a.taken, DedupCap)
    BY DEF Account
<1>2. a.recent \in Seq(EvidenceId) /\ a.taken \in Seq(EvidenceId)
    BY <1>1 DEF Accumulator
<1>3. e.id \in EvidenceId /\ DedupCap \in Nat \ {0}
    BY InputAssumption, BoundsAssumption DEF EvidenceRecord
<1>4. /\ x \in Seq(EvidenceId) /\ y \in Seq(EvidenceId)
      /\ Remembers(x, y, DedupCap) /\ Apart(y, DedupCap)
    BY <1>1, <1>2, <1>3, Remembered
<1> HIDE DEF x, y
<1>5. b \in Accumulator
    BY <1>1, <1>4 DEF Accumulator
<1>6. b.recent = x /\ b.taken = y
    BY <1>1 DEF Accumulator
<1>7. /\ b.cost = a.cost /\ b.charged = a.charged
      /\ b.successful = a.successful /\ b.eligible = a.eligible /\ b.reported = a.reported
      /\ Continues(b, a)
    BY <1>1 DEF Accumulator, Continues
<1> HIDE DEF b
<1>8. Kept(b.cost, b.charged)
    BY <1>7 DEF Account
<1>9. 10000 * b.successful <= b.reported
    BY <1>7 DEF Account
<1>10. Account(b, o)
    BY <1>4, <1>5, <1>6, <1>8, <1>9 DEF Account
<1> QED BY <1>7, <1>10 DEF b, x, y

\* Evidence is taken in whatever its dimension and unit.
LEMMA TakenIn ==
    ASSUME NEW o, NEW a, Account(a, o), NEW e \in Records
    PROVE  Account(take_in(a, o, e), o) /\ Continues(take_in(a, o, e), a)
<1>1. Continues(a, a)
    BY DEF Continues
<1>2. CASE ~ unit_compatible(o, e)
    BY <1>1, <1>2 DEF take_in
<1>3. CASE unit_compatible(o, e) /\ e.dimension = "Availability"
    <2>1. take_in(a, o, e) = add_availability(a, e)
        BY <1>3 DEF take_in
    <2> QED BY <2>1, AvailabilityAdded
<1>4. CASE unit_compatible(o, e) /\ e.dimension = "Cost" /\ Dimension[o] = "Cost"
    <2>1. take_in(a, o, e) = add_cost(a, e)
        BY <1>4 DEF take_in
    <2> QED BY <2>1, CostAdded
<1>5. CASE /\ unit_compatible(o, e) /\ e.dimension # "Availability"
           /\ ~ (e.dimension = "Cost" /\ Dimension[o] = "Cost")
    <2>1. take_in(a, o, e) = a
        BY <1>5 DEF take_in
    <2> QED BY <1>1, <2>1
<1> QED BY <1>2, <1>3, <1>4, <1>5

-----------------------------------------------------------------------------
(* The invariant *)

\* The process remembers the last ids it noted.
MemoryHolds == Remembers(ring, noted, RingCap) /\ Apart(noted, RingCap)

AccountsHold == \A o \in ObjectiveId : Account(accumulators[o], o)

\* The budgets in memory and in the file are within what was delivered.
BudgetsWithin ==
    \A o \in ObjectiveId :
        /\ Within(accumulators[o].budget, deliveries[o], now)
        /\ file # None => Within(file.states[o].budget, deliveries[o], now)

EvidenceInv == TypeOK /\ MemoryHolds /\ AccountsHold /\ BudgetsWithin

LEMMA InitInv == Init => EvidenceInv
<1> SUFFICES ASSUME Init PROVE EvidenceInv
    OBVIOUS
<1>1. /\ now = 0 /\ epoch = 1 /\ gen = Undefined /\ accumulators = NoAccumulators
      /\ ring = << >> /\ file = None /\ noted = << >> /\ restarts = 0
      /\ deliveries = [o \in ObjectiveId |-> << >>]
    BY DEF Init
<1>2. << >> \in Seq(EvidenceId) /\ << >> \in Seq(Nat) /\ Len(<< >>) = 0
    BY EmptySeq
<1>3. 0 \in Nat /\ None \in Option(ErrorBudget) /\ MaxTime \in Nat /\ MaxRestarts \in Nat
      /\ RingCap \in Nat
    BY BoundsAssumption DEF Option
<1>4. \A o \in ObjectiveId : /\ accumulators[o] = NewAccumulator(0, None)
                             /\ Account(accumulators[o], o)
                             /\ accumulators[o].budget = None
    BY <1>1, <1>3, NewAccount DEF NoAccumulators
<1>5. accumulators \in [ObjectiveId -> Accumulator]
    <2>1. NewAccumulator(0, None) \in Accumulator
        BY <1>3, NewAccount DEF Account
    <2> QED BY <1>1, <2>1 DEF NoAccumulators
<1>6. TypeOK
    <2>1. now \in 0..MaxTime /\ epoch \in Nat /\ restarts \in 0..MaxRestarts
        BY <1>1, <1>3
    <2>2. gen \in [ObjectiveId -> Nat] /\ deliveries \in [ObjectiveId -> Seq(Nat)]
        BY <1>1, <1>2, <1>3 DEF Undefined
    <2>3. ring \in Seq(EvidenceId) /\ noted \in Seq(EvidenceId)
        BY <1>1, <1>2
    <2> QED BY <1>1, <1>5, <2>1, <2>2, <2>3 DEF TypeOK
<1>7. MemoryHolds
    BY <1>1, <1>2, <1>3 DEF MemoryHolds, Remembers, Apart
<1>8. AccountsHold
    BY <1>4 DEF AccountsHold
<1>9. BudgetsWithin
    BY <1>1, <1>4 DEF BudgetsWithin, Within
<1> QED BY <1>6, <1>7, <1>8, <1>9 DEF EvidenceInv

\* get_accumulator returns an account of the current generation, with the
\* budget of the objective.
LEMMA GetAccount ==
    ASSUME TypeOK, AccountsHold, NEW o \in ObjectiveId
    PROVE  /\ Account(get_accumulator(o), o)
           /\ get_accumulator(o).gen = gen[o]
           /\ get_accumulator(o).budget = accumulators[o].budget
           /\ accumulators[o].gen = gen[o] => get_accumulator(o) = accumulators[o]
           /\ accumulators[o].budget \in Option(ErrorBudget)
<1>1. Account(accumulators[o], o)
    BY DEF AccountsHold
<1>2. accumulators[o].budget \in Option(ErrorBudget) /\ gen[o] \in Nat
    BY <1>1 DEF Account, Accumulator, TypeOK
<1>3. CASE accumulators[o].gen = gen[o]
    BY <1>1, <1>2, <1>3 DEF get_accumulator
<1>4. CASE accumulators[o].gen # gen[o]
    <2> DEFINE b == accumulators[o].budget
               g == gen[o]
    <2>1. get_accumulator(o) = NewAccumulator(g, b)
        BY <1>4 DEF get_accumulator
    <2> HIDE DEF b, g
    <2>2. g \in Nat /\ b \in Option(ErrorBudget)
        BY <1>2 DEF b, g
    <2>3. Account(NewAccumulator(g, b), o)
           /\ NewAccumulator(g, b).gen = g /\ NewAccumulator(g, b).budget = b
        BY <2>2, NewAccount
    <2> QED BY <1>2, <1>4, <2>1, <2>3 DEF b, g
<1> QED BY <1>3, <1>4

\* An account that replaces an objective's leaves the others alone.
LEMMA Updated ==
    ASSUME TypeOK, AccountsHold, NEW p \in ObjectiveId, NEW x, Account(x, p), update(p, x)
    PROVE  /\ accumulators' \in [ObjectiveId -> Accumulator]
           /\ AccountsHold'
           /\ \A o \in ObjectiveId : accumulators'[o] = IF o = p THEN x ELSE accumulators[o]
<1>1. accumulators \in [ObjectiveId -> Accumulator] /\ x \in Accumulator
    BY DEF TypeOK, Account
<1>2. accumulators' = [accumulators EXCEPT ![p] = x]
    BY DEF update
<1>3. /\ accumulators' \in [ObjectiveId -> Accumulator]
      /\ \A o \in ObjectiveId : accumulators'[o] = IF o = p THEN x ELSE accumulators[o]
    BY <1>1, <1>2
<1>4. ASSUME NEW o \in ObjectiveId
      PROVE  Account(accumulators'[o], o)
    <2>1. CASE o = p
        BY <1>3, <2>1
    <2>2. CASE o # p
        BY <1>3, <2>2 DEF AccountsHold
    <2> QED BY <2>1, <2>2
<1> QED BY <1>3, <1>4 DEF AccountsHold

\* ... and is all that changes, but for the deliveries, which only grow.
LEMMA UpdatedInv ==
    ASSUME EvidenceInv, NEW p \in ObjectiveId, NEW x, Account(x, p), update(p, x),
           accumulatorsOnly, deliveries' \in [ObjectiveId -> Seq(Nat)],
           \A o \in ObjectiveId : o # p => deliveries'[o] = deliveries[o],
           deliveries'[p] \in {deliveries[p], Append(deliveries[p], now)},
           Within(x.budget, deliveries'[p], now)
    PROVE  EvidenceInv'
<1>1. TypeOK /\ AccountsHold /\ MemoryHolds /\ BudgetsWithin
    BY DEF EvidenceInv
<1>2. /\ accumulators' \in [ObjectiveId -> Accumulator]
      /\ AccountsHold'
      /\ \A o \in ObjectiveId : accumulators'[o] = IF o = p THEN x ELSE accumulators[o]
    BY <1>1, Updated
<1>3. /\ now' = now /\ epoch' = epoch /\ gen' = gen /\ ring' = ring /\ file' = file
      /\ noted' = noted /\ restarts' = restarts
    BY DEF accumulatorsOnly
<1>4. TypeOK'
    BY <1>1, <1>2, <1>3 DEF TypeOK
<1>5. MemoryHolds'
    BY <1>1, <1>3 DEF MemoryHolds
<1>6. now \in Nat /\ deliveries[p] \in Seq(Nat)
    BY <1>1, BoundsAssumption DEF TypeOK
<1>7. ASSUME NEW o \in ObjectiveId, file # None
      PROVE  Within(file.states[o].budget, deliveries'[o], now)
    <2>1. Within(file.states[o].budget, deliveries[o], now)
        BY <1>1, <1>7 DEF BudgetsWithin
    <2>2. file.states[o].budget \in Option(ErrorBudget)
        BY <1>1, <1>7 DEF TypeOK
    <2>3. CASE deliveries'[o] = deliveries[o]
        BY <2>1, <2>3
    <2>4. CASE deliveries'[o] # deliveries[o]
        <3>1. o = p /\ deliveries'[o] = Append(deliveries[p], now)
            BY <2>4
        <3> DEFINE b == file.states[o].budget
                   d == deliveries[p]
        <3>2. b \in Option(ErrorBudget) /\ d \in Seq(Nat) /\ Within(b, d, now)
            BY <1>6, <2>1, <2>2, <3>1
        <3> HIDE DEF b, d
        <3>3. now <= now
            BY <1>6
        <3>4. Within(b, Append(d, now), now)
            BY <1>6, <3>2, <3>3, WithinKept
        <3> QED BY <3>1, <3>4 DEF b, d
    <2> QED BY <2>3, <2>4
<1>8. ASSUME NEW o \in ObjectiveId
      PROVE  Within(accumulators'[o].budget, deliveries'[o], now)
    <2>1. CASE o = p
        BY <1>2, <2>1
    <2>2. CASE o # p
        BY <1>1, <1>2, <2>2 DEF BudgetsWithin
    <2> QED BY <2>1, <2>2
<1>9. BudgetsWithin'
    BY <1>3, <1>7, <1>8 DEF BudgetsWithin
<1> QED BY <1>2, <1>4, <1>5, <1>9 DEF EvidenceInv

\* The budget of an account may be replaced.
LEMMA BudgetReplaced ==
    ASSUME NEW o, NEW a, Account(a, o), NEW b \in Option(ErrorBudget)
    PROVE  LET x == [a EXCEPT !.budget = b]
           IN  /\ Account(x, o) /\ x.budget = b /\ x.gen = a.gen
               /\ x.authoritative_at = a.authoritative_at /\ x.verified_at = a.verified_at
<1> DEFINE x == [a EXCEPT !.budget = b]
<1>1. a \in Accumulator
    BY DEF Account
<1>2. /\ x \in Accumulator /\ x.budget = b
      /\ x.recent = a.recent /\ x.taken = a.taken /\ x.cost = a.cost /\ x.charged = a.charged
      /\ x.successful = a.successful /\ x.eligible = a.eligible /\ x.reported = a.reported
      /\ x.gen = a.gen
      /\ x.authoritative_at = a.authoritative_at /\ x.verified_at = a.verified_at
    BY <1>1 DEF Accumulator
<1> HIDE DEF x
<1>3. Account(x, o)
    BY <1>2, SameAccount
<1> QED BY <1>2, <1>3 DEF x

\* What an evaluation does to an account.
LEMMA RolledAccount ==
    ASSUME NEW o, NEW a, Account(a, o), NEW d \in Seq(Nat), now \in Nat,
           Within(a.budget, d, now)
    PROVE  /\ Account(rolled(a), o) /\ Within(rolled(a).budget, d, now)
           /\ rolled(a).gen = a.gen
           /\ rolled(a).authoritative_at = a.authoritative_at
           /\ rolled(a).verified_at = a.verified_at
<1>1. CASE a.budget # None /\ window_rolled(a.budget)
    <2> DEFINE b == reset_window(a.budget)
    <2>1. rolled(a) = [a EXCEPT !.budget = b]
        BY <1>1 DEF rolled
    <2>2. a.budget \in ErrorBudget
        BY <1>1 DEF Account, Accumulator, Option
    <2>3. b \in ErrorBudget /\ b.consumed = 0 /\ b.window_start <= now
        <3> DEFINE c == a.budget
        <3>1. c \in ErrorBudget /\ b = [c EXCEPT !.consumed = 0, !.window_start = now]
            BY <2>2 DEF reset_window
        <3> HIDE DEF b, c
        <3>2. b \in ErrorBudget /\ b.consumed = 0 /\ b.window_start = now
            BY <3>1 DEF ErrorBudget
        <3>3. now <= now
            OBVIOUS
        <3> QED BY <3>2, <3>3
    <2> HIDE DEF b
    <2>4. Within(b, d, now)
        BY <2>3, NothingConsumed
    <2>5. b \in Option(ErrorBudget)
        BY <2>3 DEF Option
    <2> QED BY <2>1, <2>4, <2>5, BudgetReplaced
<1>2. CASE ~ (a.budget # None /\ window_rolled(a.budget))
    BY <1>2 DEF rolled
<1> QED BY <1>1, <1>2

\* A recovery event marks a time.
LEMMA EventMarked ==
    ASSUME NEW o, NEW a, Account(a, o), now \in Nat, NEW phase
    PROVE  LET x == CASE phase = "Authoritative" -> [a EXCEPT !.authoritative_at = now]
                      [] phase = "Restored" -> [a EXCEPT !.restored_at = now]
                      [] phase = "Verified" -> [a EXCEPT !.verified_at = now]
                      [] OTHER -> a
           IN  Account(x, o) /\ x.budget = a.budget
<1> DEFINE x == CASE phase = "Authoritative" -> [a EXCEPT !.authoritative_at = now]
                  [] phase = "Restored" -> [a EXCEPT !.restored_at = now]
                  [] phase = "Verified" -> [a EXCEPT !.verified_at = now]
                  [] OTHER -> a
<1>1. a \in Accumulator
    BY DEF Account
<1>2. x \in {[a EXCEPT !.authoritative_at = now], [a EXCEPT !.restored_at = now],
             [a EXCEPT !.verified_at = now], a}
    OBVIOUS
<1> HIDE DEF x
<1>3. /\ x \in Accumulator /\ x.budget = a.budget
      /\ x.recent = a.recent /\ x.taken = a.taken /\ x.cost = a.cost /\ x.charged = a.charged
      /\ x.successful = a.successful /\ x.eligible = a.eligible /\ x.reported = a.reported
    BY <1>1, <1>2, ZenonT(60) DEF Accumulator, Option
<1>4. Account(x, o)
    BY <1>3, SameAccount
<1> QED BY <1>3, <1>4 DEF x

\* What is restored is an account with the budget of the file, or without one.
LEMMA RestoredAccount ==
    ASSUME TypeOK, file # None, NEW o \in ObjectiveId
    PROVE  /\ Account(restored(file, o), o)
           /\ restored(file, o).budget \in {None, file.states[o].budget}
<1> DEFINE st == file.states[o]
           b == IF st.budget # None /\ st.budget.total # 0 THEN st.budget ELSE None
<1>1. st.gen \in Nat /\ st.budget \in Option(ErrorBudget) /\ 0 \in Nat /\ None \in Option(ErrorBudget)
    BY DEF TypeOK, Option
<1>2. b \in Option(ErrorBudget) /\ b \in {None, st.budget}
    BY <1>1
<1>3. restored(file, o) = IF st.gen = 0 \/ st.gen # file.gen[o] THEN NewAccumulator(0, None)
                          ELSE NewAccumulator(st.gen, b)
    BY DEF restored
<1> HIDE DEF st, b
<1>4. Account(NewAccumulator(0, None), o) /\ NewAccumulator(0, None).budget = None
    BY <1>1, NewAccount
<1>5. Account(NewAccumulator(st.gen, b), o) /\ NewAccumulator(st.gen, b).budget = b
    <2> DEFINE g == st.gen
    <2>1. g \in Nat
        BY <1>1
    <2> HIDE DEF g
    <2>2. Account(NewAccumulator(g, b), o) /\ NewAccumulator(g, b).budget = b
        BY <1>2, <2>1, NewAccount
    <2> QED BY <2>2 DEF g
<1>6. CASE st.gen = 0 \/ st.gen # file.gen[o]
    BY <1>3, <1>4, <1>6 DEF st
<1>7. CASE ~ (st.gen = 0 \/ st.gen # file.gen[o])
    BY <1>2, <1>3, <1>5, <1>7 DEF st
<1> QED BY <1>6, <1>7

LEMMA TimePasses ==
    ASSUME EvidenceInv, tick
    PROVE  EvidenceInv'
<1>1. TypeOK /\ MemoryHolds /\ AccountsHold /\ BudgetsWithin
    BY DEF EvidenceInv
<1>2. /\ now < MaxTime /\ now' = now + 1
      /\ epoch' = epoch /\ gen' = gen /\ accumulators' = accumulators /\ ring' = ring
      /\ file' = file /\ noted' = noted /\ deliveries' = deliveries /\ restarts' = restarts
    BY DEF tick
<1>3. now \in Nat /\ now' \in Nat /\ now <= now' /\ now' \in 0..MaxTime
    BY <1>1, <1>2, BoundsAssumption DEF TypeOK
<1>4. TypeOK'
    BY <1>1, <1>2, <1>3 DEF TypeOK
<1>5. MemoryHolds'
    BY <1>1, <1>2 DEF MemoryHolds
<1>6. AccountsHold'
    BY <1>1, <1>2 DEF AccountsHold
<1>7. ASSUME NEW o \in ObjectiveId, NEW b \in Option(ErrorBudget),
             Within(b, deliveries[o], now)
      PROVE  Within(b, deliveries[o], now')
    <2> DEFINE d == deliveries[o]
               t == now'
    <2>1. d \in Seq(Nat) /\ t \in Nat /\ now <= t /\ Within(b, d, now)
        BY <1>1, <1>3, <1>7 DEF TypeOK
    <2> HIDE DEF d, t
    <2>2. Within(b, d, t)
        BY <1>3, <2>1, WithinKept
    <2> QED BY <2>2 DEF d, t
<1>8. ASSUME NEW o \in ObjectiveId
      PROVE  /\ Within(accumulators[o].budget, deliveries[o], now')
             /\ file # None => Within(file.states[o].budget, deliveries[o], now')
    <2>1. accumulators[o].budget \in Option(ErrorBudget)
        BY <1>1 DEF TypeOK, Accumulator
    <2>2. file # None => file.states[o].budget \in Option(ErrorBudget)
        BY <1>1 DEF TypeOK
    <2> QED BY <1>1, <1>7, <2>1, <2>2 DEF BudgetsWithin
<1>9. BudgetsWithin'
    BY <1>2, <1>8 DEF BudgetsWithin
<1> QED BY <1>4, <1>5, <1>6, <1>9 DEF EvidenceInv

LEMMA Defined ==
    ASSUME EvidenceInv, NEW o \in ObjectiveId, NEW g \in 0..MaxGen, define(o, g)
    PROVE  EvidenceInv'
<1>1. TypeOK /\ MemoryHolds /\ AccountsHold /\ BudgetsWithin
    BY DEF EvidenceInv
<1>2. /\ gen' = [gen EXCEPT ![o] = g] /\ now' = now
      /\ epoch' = epoch /\ accumulators' = accumulators /\ ring' = ring
      /\ file' = file /\ noted' = noted /\ deliveries' = deliveries /\ restarts' = restarts
    BY DEF define
<1>3. gen' \in [ObjectiveId -> Nat]
    BY <1>1, <1>2, BoundsAssumption DEF TypeOK
<1>4. TypeOK'
    BY <1>1, <1>2, <1>3 DEF TypeOK
<1> QED BY <1>1, <1>2, <1>4 DEF EvidenceInv, MemoryHolds, AccountsHold, BudgetsWithin

LEMMA EventRecorded ==
    ASSUME EvidenceInv, NEW o \in ObjectiveId, NEW phase \in Phases,
           record_recovery_event(o, phase)
    PROVE  EvidenceInv'
<1>1. TypeOK /\ AccountsHold /\ BudgetsWithin
    BY DEF EvidenceInv
<1> DEFINE a == get_accumulator(o)
           x == CASE phase = "Authoritative" -> [a EXCEPT !.authoritative_at = now]
                  [] phase = "Restored" -> [a EXCEPT !.restored_at = now]
                  [] phase = "Verified" -> [a EXCEPT !.verified_at = now]
                  [] OTHER -> a
<1>2. update(o, x) /\ deliveries' = deliveries /\ accumulatorsOnly
    BY DEF record_recovery_event
<1>3. Account(a, o) /\ a.budget = accumulators[o].budget
    BY <1>1, GetAccount
<1>4. now \in Nat /\ deliveries \in [ObjectiveId -> Seq(Nat)]
    BY <1>1, BoundsAssumption DEF TypeOK
<1>5. Account(x, o) /\ x.budget = a.budget
    <2> HIDE DEF a
    <2> QED BY <1>3, <1>4, EventMarked
<1> HIDE DEF a, x
<1>6. Within(x.budget, deliveries[o], now)
    BY <1>1, <1>3, <1>5 DEF BudgetsWithin
<1> QED BY <1>2, <1>4, <1>5, <1>6, UpdatedInv

LEMMA BudgetSet ==
    ASSUME EvidenceInv, NEW o \in ObjectiveId, NEW total \in Totals,
           set_objective_budget(o, total)
    PROVE  EvidenceInv'
<1>1. TypeOK /\ AccountsHold
    BY DEF EvidenceInv
<1> DEFINE a == get_accumulator(o)
           b == [total |-> total, consumed |-> 0, window_start |-> 0]
           x == [a EXCEPT !.budget = b]
<1>2. update(o, x) /\ deliveries' = deliveries /\ accumulatorsOnly
    BY DEF set_objective_budget
<1>3. Account(a, o)
    BY <1>1, GetAccount
<1>4. now \in Nat /\ deliveries \in [ObjectiveId -> Seq(Nat)] /\ 0 <= now
    BY <1>1, BoundsAssumption DEF TypeOK
<1>5. b \in ErrorBudget /\ b.consumed = 0 /\ b.window_start <= now
    BY <1>4, InputAssumption DEF ErrorBudget
<1> HIDE DEF a, b
<1>6. Within(b, deliveries[o], now)
    BY <1>4, <1>5, NothingConsumed
<1>7. b \in Option(ErrorBudget)
    BY <1>5 DEF Option
<1>8. Account(x, o) /\ x.budget = b
    BY <1>3, <1>7, BudgetReplaced
<1> HIDE DEF x
<1> QED BY <1>2, <1>4, <1>6, <1>8, UpdatedInv

LEMMA ViolationIngested ==
    ASSUME EvidenceInv, NEW o \in ObjectiveId, ingest_violation_event(o)
    PROVE  EvidenceInv'
<1>1. TypeOK /\ AccountsHold /\ BudgetsWithin
    BY DEF EvidenceInv
<1> DEFINE a == get_accumulator(o)
           b == a.budget
           c == [b EXCEPT !.consumed = @ + 1]
           x == [a EXCEPT !.budget = c]
           d == deliveries[o]
<1>2. Account(a, o) /\ b = accumulators[o].budget /\ b \in Option(ErrorBudget)
    BY <1>1, GetAccount
<1>3. now \in Nat /\ deliveries \in [ObjectiveId -> Seq(Nat)] /\ d \in Seq(Nat)
    BY <1>1, BoundsAssumption DEF TypeOK
<1>4. Within(b, d, now)
    BY <1>1, <1>2 DEF BudgetsWithin
<1>5. accumulatorsOnly
    BY DEF ingest_violation_event
<1>6. CASE b = None /\ update(o, a) /\ deliveries' = deliveries
    BY <1>2, <1>3, <1>4, <1>5, <1>6, UpdatedInv
<1>7. CASE /\ b # None /\ update(o, [a EXCEPT !.budget.consumed = @ + 1])
           /\ deliveries' = [deliveries EXCEPT ![o] = Append(@, now)]
    <2>1. a \in Accumulator
        BY <1>2 DEF Account
    <2>2. [a EXCEPT !.budget.consumed = @ + 1] = x
        BY <2>1 DEF Accumulator
    <2>3. update(o, x)
        BY <1>7, <2>2
    <2>4. b \in ErrorBudget
        BY <1>2, <1>7 DEF Option
    <2> HIDE DEF a, b, d
    <2>5. c \in ErrorBudget /\ Within(c, Append(d, now), now)
        BY <1>3, <1>4, <2>4, OneConsumed
    <2> HIDE DEF c
    <2>6. c \in Option(ErrorBudget)
        BY <2>5 DEF Option
    <2>7. Account(x, o) /\ x.budget = c
        BY <1>2, <2>6, BudgetReplaced
    <2> HIDE DEF x
    <2>8. Append(d, now) \in Seq(Nat)
        BY <1>3, AppendProperties
    <2>9. /\ deliveries' \in [ObjectiveId -> Seq(Nat)] /\ deliveries'[o] = Append(d, now)
          /\ \A p \in ObjectiveId : p # o => deliveries'[p] = deliveries[p]
        BY <1>3, <1>7, <2>8 DEF d
    <2>10. Within(x.budget, deliveries'[o], now)
        BY <2>5, <2>7, <2>9
    <2>11. deliveries'[o] \in {deliveries[o], Append(deliveries[o], now)}
        BY <2>9 DEF d
    <2> QED BY <1>5, <2>3, <2>7, <2>9, <2>10, <2>11, UpdatedInv
<1> QED BY <1>6, <1>7 DEF ingest_violation_event

\* Evidence leaves the budget and the recovery of every objective alone; only
\* an accumulator of another generation is replaced.
IngestUpdates(o, x) == Account(x, o) /\ Continues(x, get_accumulator(o)) /\ update(o, x)

LEMMA IngestIs ==
    ASSUME TypeOK, AccountsHold, NEW e \in Records, ingest(e)
    PROVE  /\ e.objective_id \in ObjectiveId
           /\ \/ accumulators' = accumulators
              \/ \E x : IngestUpdates(e.objective_id, x)
<1> DEFINE o == e.objective_id
           a == get_accumulator(o)
           b == [a EXCEPT !.recent = remember(@, e.id, DedupCap), !.taken = Append(@, e.id)]
           x == take_in(b, o, e)
<1>1. o \in ObjectiveId
    BY InputAssumption DEF EvidenceRecord
<1>2. Account(a, o)
    BY <1>1, GetAccount
<1>3. \/ accumulators' = accumulators
      \/ update(o, a)
      \/ e.id \notin Elements(a.recent) /\ update(o, x)
    BY DEF ingest
<1>4. CASE update(o, a)
    <2>1. IngestUpdates(o, a)
        BY <1>2, <1>4 DEF IngestUpdates, Continues
    <2> QED BY <1>1, <2>1
<1>5. CASE e.id \notin Elements(a.recent) /\ update(o, x)
    <2> HIDE DEF o, a
    <2>1. Account(b, o) /\ Continues(b, a)
        BY <1>2, <1>5, Noted
    <2> HIDE DEF b
    <2>2. Account(x, o) /\ Continues(x, b)
        BY <2>1, TakenIn
    <2> HIDE DEF x
    <2>3. Continues(x, a)
        BY <2>1, <2>2 DEF Continues
    <2>4. IngestUpdates(o, x)
        BY <1>5, <2>2, <2>3 DEF IngestUpdates, a
    <2> QED BY <1>1, <2>4 DEF o
<1> QED BY <1>1, <1>3, <1>4, <1>5

LEMMA Ingested ==
    ASSUME EvidenceInv, NEW e \in Records, ingest(e)
    PROVE  EvidenceInv'
<1>1. TypeOK /\ MemoryHolds /\ AccountsHold /\ BudgetsWithin
    BY DEF EvidenceInv
<1> DEFINE o == e.objective_id
<1>2. /\ e.id \notin Elements(ring)
      /\ ring' = remember(ring, e.id, RingCap) /\ noted' = Append(noted, e.id)
      /\ now' = now /\ epoch' = epoch /\ gen' = gen /\ file' = file
      /\ deliveries' = deliveries /\ restarts' = restarts
    BY DEF ingest
<1>3. e.id \in EvidenceId /\ RingCap \in Nat \ {0} /\ ring \in Seq(EvidenceId)
      /\ noted \in Seq(EvidenceId)
    BY <1>1, InputAssumption, BoundsAssumption DEF EvidenceRecord, TypeOK
<1>4. ring' \in Seq(EvidenceId) /\ noted' \in Seq(EvidenceId) /\ MemoryHolds'
    <2> DEFINE r == remember(ring, e.id, RingCap)
               n == Append(noted, e.id)
    <2>1. r \in Seq(EvidenceId) /\ n \in Seq(EvidenceId)
          /\ Remembers(r, n, RingCap) /\ Apart(n, RingCap)
        BY <1>1, <1>2, <1>3, Remembered DEF MemoryHolds
    <2>2. ring' = r /\ noted' = n
        BY <1>2
    <2> HIDE DEF r, n
    <2> QED BY <2>1, <2>2 DEF MemoryHolds
<1>5. /\ accumulators' \in [ObjectiveId -> Accumulator] /\ AccountsHold'
      /\ \A p \in ObjectiveId : accumulators'[p].budget = accumulators[p].budget
    <2>1. o \in ObjectiveId /\ (accumulators' = accumulators \/ \E x : IngestUpdates(o, x))
        BY <1>1, IngestIs
    <2>2. CASE accumulators' = accumulators
        BY <1>1, <2>2 DEF TypeOK, AccountsHold
    <2>3. CASE \E x : IngestUpdates(o, x)
        <3> HIDE DEF o
        <3>1. PICK x : IngestUpdates(o, x)
            BY <2>3
        <3>2. Account(x, o) /\ update(o, x) /\ x.budget = get_accumulator(o).budget
            BY <3>1 DEF IngestUpdates, Continues
        <3>3. x.budget = accumulators[o].budget
            BY <1>1, <2>1, <3>2, GetAccount
        <3>4. /\ accumulators' \in [ObjectiveId -> Accumulator] /\ AccountsHold'
              /\ \A p \in ObjectiveId : accumulators'[p] = IF p = o THEN x ELSE accumulators[p]
            BY <1>1, <2>1, <3>2, Updated
        <3> QED BY <3>3, <3>4
    <2> QED BY <2>1, <2>2, <2>3
<1>6. TypeOK'
    BY <1>1, <1>2, <1>4, <1>5 DEF TypeOK
<1>7. BudgetsWithin'
    BY <1>1, <1>2, <1>5 DEF BudgetsWithin
<1> QED BY <1>4, <1>5, <1>6, <1>7 DEF EvidenceInv

LEMMA Evaluated ==
    ASSUME EvidenceInv, evaluate
    PROVE  /\ EvidenceInv'
           /\ \A o \in ObjectiveId :
                 \/ accumulators'[o] = accumulators[o]
                 \/ /\ accumulators'[o].gen = get_accumulator(o).gen
                    /\ accumulators'[o].authoritative_at = get_accumulator(o).authoritative_at
                    /\ accumulators'[o].verified_at = get_accumulator(o).verified_at
<1>1. TypeOK /\ MemoryHolds /\ AccountsHold /\ BudgetsWithin
    BY DEF EvidenceInv
<1>2. /\ now' = now /\ epoch' = epoch /\ gen' = gen /\ ring' = ring /\ file' = file
      /\ noted' = noted /\ restarts' = restarts /\ deliveries' = deliveries
      /\ accumulators' = [o \in ObjectiveId |->
            IF gen[o] = 0 THEN accumulators[o] ELSE rolled(get_accumulator(o))]
    BY DEF evaluate, accumulatorsOnly
<1>3. now \in Nat /\ deliveries \in [ObjectiveId -> Seq(Nat)]
    BY <1>1, BoundsAssumption DEF TypeOK
<1>4. ASSUME NEW o \in ObjectiveId
      PROVE  /\ Account(accumulators'[o], o)
             /\ Within(accumulators'[o].budget, deliveries[o], now)
             /\ \/ accumulators'[o] = accumulators[o]
                \/ /\ accumulators'[o].gen = get_accumulator(o).gen
                   /\ accumulators'[o].authoritative_at = get_accumulator(o).authoritative_at
                   /\ accumulators'[o].verified_at = get_accumulator(o).verified_at
    <2>1. Account(accumulators[o], o) /\ Within(accumulators[o].budget, deliveries[o], now)
        BY <1>1 DEF AccountsHold, BudgetsWithin
    <2>2. CASE gen[o] = 0
        BY <1>2, <2>1, <2>2
    <2>3. CASE gen[o] # 0
        <3> DEFINE a == get_accumulator(o)
                   d == deliveries[o]
        <3>1. accumulators'[o] = rolled(a)
            BY <1>2, <2>3
        <3>2. Account(a, o) /\ Within(a.budget, d, now) /\ d \in Seq(Nat)
            BY <1>1, <1>3, <2>1, GetAccount
        <3> HIDE DEF a, d
        <3>3. /\ Account(rolled(a), o) /\ Within(rolled(a).budget, d, now)
              /\ rolled(a).gen = a.gen
              /\ rolled(a).authoritative_at = a.authoritative_at
              /\ rolled(a).verified_at = a.verified_at
            BY <1>3, <3>2, RolledAccount
        <3> QED BY <3>1, <3>3 DEF a, d
    <2> QED BY <2>2, <2>3
<1>5. accumulators' \in [ObjectiveId -> Accumulator]
    <2> DEFINE F(o) == IF gen[o] = 0 THEN accumulators[o] ELSE rolled(get_accumulator(o))
    <2>1. accumulators' = [o \in ObjectiveId |-> F(o)]
        BY <1>2
    <2>2. \A o \in ObjectiveId : accumulators'[o] = F(o) /\ accumulators'[o] \in Accumulator
        BY <1>4, <2>1 DEF Account
    <2> HIDE DEF F
    <2> QED BY <2>1, <2>2
<1>6. AccountsHold'
    BY <1>4 DEF AccountsHold
<1>7. BudgetsWithin'
    BY <1>1, <1>2, <1>4 DEF BudgetsWithin
<1>8. TypeOK'
    BY <1>1, <1>2, <1>5 DEF TypeOK
<1>9. MemoryHolds'
    BY <1>1, <1>2 DEF MemoryHolds
<1> QED BY <1>4, <1>6, <1>7, <1>8, <1>9 DEF EvidenceInv

LEMMA Saved ==
    ASSUME EvidenceInv, save
    PROVE  EvidenceInv'
<1>1. TypeOK /\ MemoryHolds /\ AccountsHold /\ BudgetsWithin
    BY DEF EvidenceInv
<1> DEFINE st == [o \in ObjectiveId |->
                    [gen |-> accumulators[o].gen, budget |-> accumulators[o].budget]]
<1>2. /\ file' = [epoch |-> epoch, gen |-> gen, states |-> st]
      /\ now' = now /\ epoch' = epoch /\ gen' = gen /\ accumulators' = accumulators
      /\ ring' = ring /\ noted' = noted /\ deliveries' = deliveries /\ restarts' = restarts
    BY DEF save
<1>3. /\ st \in [ObjectiveId -> [gen : Nat, budget : Option(ErrorBudget)]]
      /\ \A o \in ObjectiveId : st[o].budget = accumulators[o].budget
    BY <1>1 DEF TypeOK, Accumulator
<1> HIDE DEF st
<1>4. file'.epoch = epoch /\ file'.gen = gen /\ file'.states = st
    BY <1>2
<1>5. TypeOK'
    BY <1>1, <1>2, <1>3, <1>4 DEF TypeOK
<1>6. BudgetsWithin'
    BY <1>1, <1>2, <1>3, <1>4 DEF BudgetsWithin
<1> QED BY <1>1, <1>2, <1>5, <1>6 DEF EvidenceInv, MemoryHolds, AccountsHold

LEMMA Loaded ==
    ASSUME EvidenceInv, load
    PROVE  EvidenceInv' /\ restarts' # restarts
<1>1. TypeOK /\ MemoryHolds /\ AccountsHold /\ BudgetsWithin
    BY DEF EvidenceInv
<1>2. /\ file # None /\ restarts < MaxRestarts /\ restarts' = restarts + 1
      /\ epoch' = file.epoch + 1 /\ gen' = file.gen
      /\ accumulators' = [o \in ObjectiveId |-> restored(file, o)]
      /\ now' = now /\ ring' = ring /\ file' = file /\ noted' = noted
      /\ deliveries' = deliveries
    BY DEF load
<1>3. restarts' \in 0..MaxRestarts /\ restarts' # restarts
    <2>1. restarts \in 0..MaxRestarts /\ MaxRestarts \in Nat
        BY <1>1, BoundsAssumption DEF TypeOK
    <2>2. restarts < MaxRestarts /\ restarts' = restarts + 1
        BY <1>2
    <2> QED BY <2>1, <2>2
<1>4. ASSUME NEW o \in ObjectiveId
      PROVE  /\ Account(accumulators'[o], o)
             /\ Within(accumulators'[o].budget, deliveries[o], now)
             /\ accumulators'[o] = restored(file, o)
    <2>1. accumulators'[o] = restored(file, o)
        BY <1>2
    <2>2. Account(restored(file, o), o)
           /\ restored(file, o).budget \in {None, file.states[o].budget}
        BY <1>1, <1>2, RestoredAccount
    <2>3. Within(None, deliveries[o], now) /\ Within(file.states[o].budget, deliveries[o], now)
        BY <1>1, <1>2 DEF BudgetsWithin, Within
    <2> QED BY <2>1, <2>2, <2>3
<1>5. accumulators' \in [ObjectiveId -> Accumulator]
    <2>1. \A o \in ObjectiveId : restored(file, o) \in Accumulator
        BY <1>4 DEF Account
    <2> QED BY <1>2, <2>1
<1>6. /\ file.epoch + 1 \in Nat /\ file.gen \in [ObjectiveId -> Nat]
    BY <1>1, <1>2 DEF TypeOK
<1>7. TypeOK'
    BY <1>1, <1>2, <1>3, <1>5, <1>6 DEF TypeOK
<1>8. AccountsHold'
    BY <1>4 DEF AccountsHold
<1>9. BudgetsWithin'
    BY <1>1, <1>2, <1>4 DEF BudgetsWithin
<1>10. MemoryHolds'
    BY <1>1, <1>2 DEF MemoryHolds
<1> QED BY <1>3, <1>7, <1>8, <1>9, <1>10 DEF EvidenceInv

LEMMA Crashed ==
    ASSUME EvidenceInv, crash
    PROVE  EvidenceInv' /\ restarts' # restarts
<1>1. TypeOK /\ BudgetsWithin
    BY DEF EvidenceInv
<1>2. /\ restarts < MaxRestarts /\ restarts' = restarts + 1
      /\ epoch' = 1 /\ gen' = Undefined /\ accumulators' = NoAccumulators
      /\ ring' = << >> /\ noted' = << >>
      /\ now' = now /\ file' = file /\ deliveries' = deliveries
    BY DEF crash
<1>3. restarts' \in 0..MaxRestarts /\ restarts' # restarts
    BY <1>1, <1>2, BoundsAssumption DEF TypeOK
<1>4. 0 \in Nat /\ None \in Option(ErrorBudget)
    BY DEF Option
<1>5. \A o \in ObjectiveId : /\ Account(accumulators'[o], o)
                             /\ accumulators'[o].budget = None
    BY <1>2, <1>4, NewAccount DEF NoAccumulators
<1>6. accumulators' \in [ObjectiveId -> Accumulator]
    <2>1. NewAccumulator(0, None) \in Accumulator
        BY <1>4, NewAccount DEF Account
    <2> QED BY <1>2, <2>1 DEF NoAccumulators
<1>7. << >> \in Seq(EvidenceId) /\ Len(<< >>) = 0 /\ RingCap \in Nat
    BY EmptySeq, BoundsAssumption
<1>8. gen' \in [ObjectiveId -> Nat]
    BY <1>2 DEF Undefined
<1>9. TypeOK'
    BY <1>1, <1>2, <1>3, <1>6, <1>7, <1>8 DEF TypeOK
<1>10. MemoryHolds'
    BY <1>2, <1>7 DEF MemoryHolds, Remembers, Apart
<1>11. AccountsHold'
    BY <1>5 DEF AccountsHold
<1>12. BudgetsWithin'
    BY <1>1, <1>2, <1>5 DEF BudgetsWithin, Within
<1> QED BY <1>3, <1>9, <1>10, <1>11, <1>12 DEF EvidenceInv

LEMMA StepInv == EvidenceInv /\ [Next]_vars => EvidenceInv'
<1> SUFFICES ASSUME EvidenceInv, [Next]_vars PROVE EvidenceInv'
    OBVIOUS
<1>1. CASE tick
    BY <1>1, TimePasses
<1>2. ASSUME NEW o \in ObjectiveId, NEW g \in 0..MaxGen, define(o, g)
      PROVE  EvidenceInv'
    BY <1>2, Defined
<1>3. ASSUME NEW o \in ObjectiveId, NEW phase \in Phases, record_recovery_event(o, phase)
      PROVE  EvidenceInv'
    BY <1>3, EventRecorded
<1>4. ASSUME NEW o \in ObjectiveId, NEW total \in Totals, set_objective_budget(o, total)
      PROVE  EvidenceInv'
    BY <1>4, BudgetSet
<1>5. ASSUME NEW o \in ObjectiveId, ingest_violation_event(o)
      PROVE  EvidenceInv'
    BY <1>5, ViolationIngested
<1>6. ASSUME NEW e \in Records, ingest(e)
      PROVE  EvidenceInv'
    BY <1>6, Ingested
<1>7. CASE evaluate
    BY <1>7, Evaluated
<1>8. CASE save
    BY <1>8, Saved
<1>9. CASE load
    BY <1>9, Loaded
<1>10. CASE crash
    BY <1>10, Crashed
<1>11. CASE UNCHANGED vars
    BY <1>11 DEF vars, EvidenceInv, TypeOK, MemoryHolds, AccountsHold, BudgetsWithin
<1> QED BY <1>1, <1>2, <1>3, <1>4, <1>5, <1>6, <1>7, <1>8, <1>9, <1>10, <1>11 DEF Next

-----------------------------------------------------------------------------
(* Theorems *)

LEMMA Invariance == Spec => []EvidenceInv
<1>1. Init => EvidenceInv
    BY InitInv
<1>2. EvidenceInv /\ [Next]_vars => EvidenceInv'
    BY StepInv
<1> QED BY <1>1, <1>2, PTL DEF Spec

(***************************************************************************)
(* Every variable keeps its type: an account is of a generation, its sums  *)
(* are naturals, and what the file holds can be loaded.                    *)
(***************************************************************************)
THEOREM EvidenceTypes == Spec => []TypeOK
<1>1. EvidenceInv => TypeOK
    BY DEF EvidenceInv
<1> QED BY <1>1, Invariance, PTL

(***************************************************************************)
(* note_evidence and remember, for any capacities: an id is taken in again *)
(* only after both memories have forgotten it, through rejected evidence,  *)
(* redefinitions, loads and crashes.                                       *)
(***************************************************************************)
THEOREM CountedOnce == Spec => []EvidenceCountedOnce
<1>1. EvidenceInv => EvidenceCountedOnce
    BY DEF EvidenceInv, MemoryHolds, AccountsHold, Account, EvidenceCountedOnce
<1> QED BY <1>1, Invariance, PTL

(***************************************************************************)
(* serving_units rounds towards zero: the account claims no larger a share *)
(* of its eligible units than the evidence stated, whatever the values and *)
(* sample counts, those that are no valid share or count included.         *)
(***************************************************************************)
THEOREM NeverOverstated == Spec => []AvailabilityNeverOverstated
<1>1. EvidenceInv => AvailabilityNeverOverstated
    BY DEF EvidenceInv, AccountsHold, Account, AvailabilityNeverOverstated
<1> QED BY <1>1, Invariance, PTL

(***************************************************************************)
(* CostWindow::evict: a charge that was dropped is older than the window   *)
(* or has CostCap charges after it, in whatever order charges arrive.      *)
(***************************************************************************)
THEOREM NoCostHidden == Spec => []CostNotHidden
<1>1. EvidenceInv => CostNotHidden
    <2> SUFFICES ASSUME EvidenceInv, NEW o \in ObjectiveId
                 PROVE  LET a == accumulators[o]
                            dropped == Len(a.charged) - Len(a.cost)
                        IN  /\ dropped >= 0
                            /\ \A k \in 1..Len(a.cost) : a.cost[k] = a.charged[dropped + k]
                            /\ \A k \in 1..dropped : Gone(a.charged, Len(a.charged), k)
        BY DEF CostNotHidden, Gone
    <2>1. Kept(accumulators[o].cost, accumulators[o].charged)
        BY DEF EvidenceInv, AccountsHold, Account
    <2> QED BY <2>1, Zenon DEF Kept
<1> QED BY <1>1, Invariance, PTL

(***************************************************************************)
(* A budget has consumed no more than was delivered since its window began *)
(* through rollovers, generations, crashes and loads of any older file.    *)
(***************************************************************************)
THEOREM NeverOvercounts == Spec => []BudgetNeverOvercounts
<1>1. EvidenceInv => BudgetNeverOvercounts
    BY DEF EvidenceInv, BudgetsWithin, Within, Delivered, BudgetNeverOvercounts
<1> QED BY <1>1, Invariance, PTL

\* A verified recovery of the same generation is left as it was.
Stays(o) ==
    accumulators[o].verified_at # None /\ accumulators'[o].gen = accumulators[o].gen =>
        /\ accumulators'[o].verified_at = accumulators[o].verified_at
        /\ accumulators'[o].authoritative_at = accumulators[o].authoritative_at

\* What has the recovery of get_accumulator leaves a verified one alone.
LEMMA UpdateStays ==
    ASSUME TypeOK, AccountsHold, NEW p \in ObjectiveId, NEW o \in ObjectiveId, NEW x,
           Account(x, p), update(p, x), x.gen = get_accumulator(p).gen,
           x.authoritative_at = get_accumulator(p).authoritative_at,
           x.verified_at = get_accumulator(p).verified_at
    PROVE  Stays(o)
<1>1. accumulators'[o] = IF o = p THEN x ELSE accumulators[o]
    BY Updated
<1>2. CASE o # p
    BY <1>1, <1>2 DEF Stays
<1>3. CASE o = p
    <2>1. /\ get_accumulator(p).gen = gen[p]
          /\ accumulators[p].gen = gen[p] => get_accumulator(p) = accumulators[p]
        BY GetAccount
    <2> QED BY <1>1, <1>3, <2>1 DEF Stays
<1> QED BY <1>2, <1>3

LEMMA RecoveryStays ==
    ASSUME EvidenceInv, [Next]_vars, NEW o \in ObjectiveId, restarts' = restarts,
           \A phase \in Phases : ~ record_recovery_event(o, phase)
    PROVE  Stays(o)
<1>1. TypeOK /\ AccountsHold
    BY DEF EvidenceInv
<1>2. CASE accumulators' = accumulators
    BY <1>2 DEF Stays
<1>3. ASSUME NEW p \in ObjectiveId, NEW phase \in Phases, record_recovery_event(p, phase)
      PROVE  Stays(o)
    <2>1. o # p
        BY <1>3
    <2>2. PICK x : accumulators' = [accumulators EXCEPT ![p] = x]
        BY <1>3 DEF record_recovery_event, update
    <2>3. accumulators'[o] = accumulators[o]
        BY <1>1, <2>1, <2>2 DEF TypeOK
    <2> QED BY <2>3 DEF Stays
<1>4. ASSUME NEW p \in ObjectiveId, NEW b \in Option(ErrorBudget),
             update(p, [get_accumulator(p) EXCEPT !.budget = b])
      PROVE  Stays(o)
    <2> DEFINE a == get_accumulator(p)
               x == [a EXCEPT !.budget = b]
    <2>1. Account(a, p)
        BY <1>1, GetAccount
    <2> HIDE DEF a
    <2>2. /\ Account(x, p) /\ x.gen = a.gen
          /\ x.authoritative_at = a.authoritative_at /\ x.verified_at = a.verified_at
        BY <2>1, BudgetReplaced
    <2>3. update(p, x)
        BY <1>4 DEF a
    <2> HIDE DEF x
    <2> QED BY <1>1, <2>2, <2>3, UpdateStays DEF a
<1>5. ASSUME NEW p \in ObjectiveId, update(p, get_accumulator(p))
      PROVE  Stays(o)
    BY <1>1, <1>5, GetAccount, UpdateStays
<1>6. ASSUME NEW p \in ObjectiveId, NEW total \in Totals, set_objective_budget(p, total)
      PROVE  Stays(o)
    <2> DEFINE b == [total |-> total, consumed |-> 0, window_start |-> 0]
    <2>1. b \in Option(ErrorBudget)
        BY InputAssumption DEF ErrorBudget, Option
    <2>2. update(p, [get_accumulator(p) EXCEPT !.budget = b])
        BY <1>6 DEF set_objective_budget
    <2> HIDE DEF b
    <2> QED BY <1>4, <2>1, <2>2
<1>7. ASSUME NEW p \in ObjectiveId, ingest_violation_event(p)
      PROVE  Stays(o)
    <2> DEFINE a == get_accumulator(p)
               c == [a.budget EXCEPT !.consumed = @ + 1]
    <2>1. CASE update(p, a)
        BY <1>5, <2>1
    <2>2. CASE a.budget # None /\ update(p, [a EXCEPT !.budget.consumed = @ + 1])
        <3>1. a \in Accumulator
            BY <1>1, GetAccount DEF Account
        <3>2. a.budget \in ErrorBudget
            BY <2>2, <3>1 DEF Accumulator, Option
        <3>3. c \in Option(ErrorBudget)
            BY <3>2 DEF ErrorBudget, Option
        <3>4. [a EXCEPT !.budget.consumed = @ + 1] = [a EXCEPT !.budget = c]
            BY <3>1 DEF Accumulator
        <3> HIDE DEF c
        <3> QED BY <1>4, <2>2, <3>3, <3>4
    <2> QED BY <1>7, <2>1, <2>2 DEF ingest_violation_event
<1>8. ASSUME NEW e \in Records, ingest(e)
      PROVE  Stays(o)
    <2> DEFINE p == e.objective_id
    <2>1. p \in ObjectiveId /\ (accumulators' = accumulators \/ \E x : IngestUpdates(p, x))
        BY <1>1, <1>8, IngestIs
    <2> HIDE DEF p
    <2>2. ASSUME NEW x, IngestUpdates(p, x)
          PROVE  Stays(o)
        <3>1. /\ Account(x, p) /\ update(p, x) /\ x.gen = get_accumulator(p).gen
              /\ x.authoritative_at = get_accumulator(p).authoritative_at
              /\ x.verified_at = get_accumulator(p).verified_at
            BY <2>2 DEF IngestUpdates, Continues
        <3> QED BY <1>1, <2>1, <3>1, UpdateStays
    <2> QED BY <1>2, <2>1, <2>2
<1>9. CASE evaluate
    <2>1. \/ accumulators'[o] = accumulators[o]
          \/ /\ accumulators'[o].gen = get_accumulator(o).gen
             /\ accumulators'[o].authoritative_at = get_accumulator(o).authoritative_at
             /\ accumulators'[o].verified_at = get_accumulator(o).verified_at
        BY <1>9, Evaluated
    <2>2. /\ get_accumulator(o).gen = gen[o]
          /\ accumulators[o].gen = gen[o] => get_accumulator(o) = accumulators[o]
        BY <1>1, GetAccount
    <2> QED BY <2>1, <2>2 DEF Stays
<1>10. ~ load /\ ~ crash
    BY Loaded, Crashed
<1>11. CASE tick \/ save \/ UNCHANGED vars
    BY <1>2, <1>11 DEF tick, save, vars
<1>12. ASSUME NEW p \in ObjectiveId, NEW g \in 0..MaxGen, define(p, g)
       PROVE  Stays(o)
    BY <1>2, <1>12 DEF define
<1> QED BY <1>3, <1>6, <1>7, <1>8, <1>9, <1>10, <1>11, <1>12 DEF Next

(***************************************************************************)
(* record_recovery_event and current_recovery_duration: the duration of a  *)
(* verified recovery no longer changes with the clock, evidence, budgets,  *)
(* evaluations or saves, nor with another objective's events.              *)
(***************************************************************************)
THEOREM RecoveryStaysSettled == Spec => RecoverySettles
<1>1. EvidenceInv /\ [Next]_vars =>
        [\A o \in ObjectiveId :
            LET a == accumulators[o]
            IN  /\ a.verified_at # None
                /\ accumulators'[o].gen = a.gen
                /\ restarts' = restarts
                /\ \A phase \in Phases : ~ record_recovery_event(o, phase)
                => current_recovery_duration(a)' = current_recovery_duration(a)]_vars
    <2> SUFFICES ASSUME EvidenceInv, [Next]_vars, NEW o \in ObjectiveId,
                        accumulators[o].verified_at # None,
                        accumulators'[o].gen = accumulators[o].gen, restarts' = restarts,
                        \A phase \in Phases : ~ record_recovery_event(o, phase)
                 PROVE  current_recovery_duration(accumulators[o])'
                          = current_recovery_duration(accumulators[o])
        OBVIOUS
    <2>1. Stays(o)
        BY RecoveryStays
    <2>2. /\ accumulators'[o].verified_at = accumulators[o].verified_at
          /\ accumulators'[o].authoritative_at = accumulators[o].authoritative_at
        BY <2>1 DEF Stays
    <2> QED BY <2>2 DEF current_recovery_duration
<1> QED BY <1>1, Invariance, PTL DEF Spec, RecoverySettles
=============================================================================
