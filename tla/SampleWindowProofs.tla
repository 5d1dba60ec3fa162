------------------------- MODULE SampleWindowProofs -------------------------
(***************************************************************************)
(* Proofs about SampleWindow, for every window type, interval, capacity    *)
(* and bound.                                                              *)
(***************************************************************************)
EXTENDS SampleWindow, SequenceTheorems, FiniteSetTheorems, WellFoundedInduction, TLAPS

USE WindowAssumption

-----------------------------------------------------------------------------
(* Sequences *)

\* Drop removes the first n elements and shifts the others.
LEMMA DropProperties ==
    ASSUME NEW S, NEW s \in Seq(S), NEW n \in 0..Len(s)
    PROVE  /\ Drop(s, n) \in Seq(S)
           /\ Len(Drop(s, n)) = Len(s) - n
           /\ \A k \in 1..(Len(s) - n) : Drop(s, n)[k] = s[n + k]
<1>1. n + 1 \in Int /\ Len(s) \in Nat /\ n \in Nat
    BY LenProperties
<1>2. \A k \in (n + 1)..Len(s) : s[k] \in S
    BY <1>1, ElementOfSeq
<1>3. /\ SubSeq(s, n + 1, Len(s)) \in Seq(S)
      /\ Len(SubSeq(s, n + 1, Len(s))) =
            IF n + 1 <= Len(s) THEN Len(s) - (n + 1) + 1 ELSE 0
      /\ \A i \in 1..(Len(s) - (n + 1) + 1) :
            SubSeq(s, n + 1, Len(s))[i] = s[n + 1 + i - 1]
    BY <1>1, <1>2, SubSeqProperties
<1> DEFINE t == SubSeq(s, n + 1, Len(s))
<1>4. t = Drop(s, n)
    BY DEF Drop
<1> HIDE DEF t
<1>5. Len(t) = Len(s) - n
    BY <1>1, <1>3 DEF t
<1>6. \A k \in 1..(Len(s) - n) : t[k] = s[n + k]
    <2> SUFFICES ASSUME NEW k \in 1..(Len(s) - n) PROVE t[k] = s[n + k]
        OBVIOUS
    <2>1. /\ k \in 1..(Len(s) - (n + 1) + 1)
          /\ n + 1 + k - 1 = n + k
        BY <1>1
    <2> QED BY <1>3, <2>1 DEF t
<1>7. t \in Seq(S)
    BY <1>3 DEF t
<1> QED BY <1>4, <1>5, <1>6, <1>7

\* Appending commutes with dropping.
LEMMA DropAppend ==
    ASSUME NEW S, NEW s \in Seq(S), NEW x \in S, NEW n \in 0..Len(s)
    PROVE  Append(Drop(s, n), x) = Drop(Append(s, x), n)
<1> DEFINE a == Append(s, x)
           d == Drop(s, n)
           l == Append(d, x)
           r == Drop(a, n)
<1>1. Len(s) \in Nat /\ n \in Nat /\ n <= Len(s)
    BY LenProperties
<1>2. /\ d \in Seq(S) /\ Len(d) = Len(s) - n
      /\ \A k \in 1..(Len(s) - n) : d[k] = s[n + k]
    BY DropProperties
<1>3. /\ a \in Seq(S) /\ Len(a) = Len(s) + 1
      /\ \A k \in 1..Len(s) : a[k] = s[k]
      /\ a[Len(s) + 1] = x
    BY AppendProperties
<1> HIDE DEF a, d
<1>4. /\ l \in Seq(S) /\ Len(l) = Len(d) + 1
      /\ \A k \in 1..Len(d) : l[k] = d[k]
      /\ l[Len(d) + 1] = x
    BY <1>2, AppendProperties
<1>5. n \in 0..Len(a)
    BY <1>1, <1>3
<1>6. /\ r \in Seq(S) /\ Len(r) = Len(a) - n
      /\ \A k \in 1..(Len(a) - n) : r[k] = a[n + k]
    BY <1>3, <1>5, DropProperties, ZenonT(60)
<1> HIDE DEF l, r
<1>7. Len(l) = Len(r)
    BY <1>1, <1>2, <1>3, <1>4, <1>6
<1>8. \A k \in 1..Len(l) : l[k] = r[k]
    <2> SUFFICES ASSUME NEW k \in 1..Len(l) PROVE l[k] = r[k]
        OBVIOUS
    <2>1. k \in 1..(Len(s) - n + 1) /\ r[k] = a[n + k]
        BY <1>1, <1>2, <1>3, <1>4, <1>6
    <2>2. CASE k = Len(s) - n + 1
        <3>1. n + k = Len(s) + 1 /\ k = Len(d) + 1
            BY <1>1, <1>2, <2>2
        <3> QED BY <1>3, <1>4, <2>1, <3>1
    <2>3. CASE k # Len(s) - n + 1
        <3>1. k \in 1..(Len(s) - n)
            BY <1>1, <2>1, <2>3
        <3>2. n + k \in 1..Len(s)
            BY <1>1, <3>1
        <3>3. k \in 1..Len(d)
            BY <1>2, <3>1
        <3> QED BY <1>2, <1>3, <1>4, <2>1, <3>1, <3>2, <3>3
    <2> QED BY <2>2, <2>3
<1>9. l = r
    BY <1>4, <1>6, <1>7, <1>8, SeqEqual
<1> QED BY <1>9 DEF l, r, a, d

\* Dropping twice drops the sum.
LEMMA DropDrop ==
    ASSUME NEW S, NEW s \in Seq(S), NEW n \in 0..Len(s), NEW m \in 0..(Len(s) - n)
    PROVE  Drop(Drop(s, n), m) = Drop(s, n + m)
<1> DEFINE d == Drop(s, n)
           l == Drop(d, m)
           r == Drop(s, n + m)
<1>1. /\ Len(s) \in Nat /\ n \in Nat /\ m \in Nat
      /\ n + m \in 0..Len(s)
    BY LenProperties
<1>2. /\ d \in Seq(S) /\ Len(d) = Len(s) - n
      /\ \A k \in 1..(Len(s) - n) : d[k] = s[n + k]
    BY DropProperties
<1>3. /\ r \in Seq(S) /\ Len(r) = Len(s) - (n + m)
      /\ \A k \in 1..(Len(s) - (n + m)) : r[k] = s[n + m + k]
    BY <1>1, DropProperties
<1> HIDE DEF d, r
<1>4. /\ l \in Seq(S) /\ Len(l) = Len(d) - m
      /\ \A k \in 1..(Len(d) - m) : l[k] = d[m + k]
    <2>1. m \in 0..Len(d)
        BY <1>1, <1>2
    <2> QED BY <1>2, <2>1, DropProperties, SMTT(30)
<1> HIDE DEF l
<1>5. Len(l) = Len(r)
    BY <1>1, <1>2, <1>3, <1>4
<1>6. \A k \in 1..Len(l) : l[k] = r[k]
    <2> SUFFICES ASSUME NEW k \in 1..Len(l) PROVE l[k] = r[k]
        OBVIOUS
    <2>1. /\ k \in 1..(Len(d) - m) /\ m + k \in 1..(Len(s) - n)
          /\ k \in 1..(Len(s) - (n + m)) /\ n + (m + k) = n + m + k
        BY <1>1, <1>2, <1>4, SMTT(30)
    <2> QED BY <1>2, <1>3, <1>4, <2>1
<1>7. l = r
    BY <1>3, <1>4, <1>5, <1>6, SeqEqual
<1> QED BY <1>7 DEF l, r, d

\* A window that is started anew holds the last sample only.
LEMMA DropAll ==
    ASSUME NEW S, NEW s \in Seq(S), NEW x \in S
    PROVE  <<x>> = Drop(Append(s, x), Len(s))
<1> DEFINE d == Drop(s, Len(s))
<1>1. Len(s) \in Nat /\ Len(s) \in 0..Len(s)
    BY LenProperties
<1>2. d \in Seq(S) /\ Len(d) = Len(s) - Len(s)
    BY <1>1, DropProperties
<1> HIDE DEF d
<1>3. d = << >>
    BY <1>1, <1>2, EmptySeq
<1>4. Append(d, x) = Drop(Append(s, x), Len(s))
    BY <1>1, DropAppend DEF d
<1>5. Append(<< >>, x) = <<x>>
    OBVIOUS
<1> QED BY <1>3, <1>4, <1>5

\* A non-empty set of numbers has a least element.
LEMMA Least ==
    ASSUME NEW T, T \subseteq Nat, T # {}
    PROVE  \E x \in T : \A y \in T : x <= y
<1> DEFINE R == OpToRel(<, Nat)
<1>1. IsWellFoundedOn(R, Nat)
    BY NatLessThanWellFounded
<1>2. R = {ss \in Nat \X Nat : ss[1] < ss[2]}
    BY DEF OpToRel
<1> HIDE DEF R
<1>3. PICK x \in T : \A y \in T : ~ (<<y, x>> \in R)
    BY <1>1, WFMin
<1>4. ASSUME NEW y \in T
      PROVE  x <= y
    <2>1. x \in Nat /\ y \in Nat /\ <<y, x>> \notin R
        BY <1>3
    <2>2. y < x => <<y, x>> \in R
        BY <1>2, <2>1
    <2> QED BY <2>1, <2>2
<1> QED BY <1>4

-----------------------------------------------------------------------------
(* Eviction *)

\* A sample too old for a window read at time now.
Old(w, now) == interval > 0 /\ now - w.time >= interval

\* evict_by_age drops the leading old samples: as many as there are.
LEMMA EvictByAge ==
    ASSUME NEW S, NEW s \in Seq(S), NEW now
    PROVE  \E m \in 0..Len(s) :
              /\ evict_by_age(s, now) = Drop(s, m)
              /\ \A k \in 1..m : Old(s[k], now)
              /\ m < Len(s) => ~ Old(s[m + 1], now)
<1> DEFINE Stop(n) == /\ \A k \in 1..n : Old(s[k], now)
                      /\ n < Len(s) => ~ Old(s[n + 1], now)
           m == CHOOSE n \in 0..Len(s) : Stop(n)
           T == {k \in 1..Len(s) : ~ Old(s[k], now)}
<1>1. Len(s) \in Nat
    BY LenProperties
<1>2. \E n \in 0..Len(s) : Stop(n)
    <2>1. CASE T = {}
        <3>1. Len(s) \in 0..Len(s) /\ Stop(Len(s))
            BY <1>1, <2>1
        <3> QED BY <3>1
    <2>2. CASE T # {}
        <3>1. T \subseteq Nat
            BY <1>1
        <3> HIDE DEF T
        <3>2. PICK x \in T : \A y \in T : x <= y
            BY <2>2, <3>1, Least
        <3>3. x \in 1..Len(s) /\ ~ Old(s[x], now)
            BY <3>2 DEF T
        <3>4. x - 1 \in 0..Len(s) /\ (x - 1) + 1 = x
            BY <1>1, <3>3
        <3>5. ASSUME NEW k \in 1..(x - 1)
              PROVE  Old(s[k], now)
            <4>1. k \in 1..Len(s) /\ ~ (x <= k)
                BY <1>1, <3>3
            <4>2. k \notin T
                BY <3>2, <4>1
            <4> QED BY <4>1, <4>2 DEF T
        <3>6. Stop(x - 1)
            BY <3>3, <3>4, <3>5
        <3> HIDE DEF Stop
        <3> QED BY <3>4, <3>6
    <2> QED BY <2>1, <2>2
<1>3. m \in 0..Len(s) /\ Stop(m)
    <2> HIDE DEF Stop
    <2> QED BY <1>2
<1>4. evict_by_age(s, now) = Drop(s, m)
    BY DEF evict_by_age, Old
<1> HIDE DEF m
<1> QED BY <1>3, <1>4

\* Eviction to the capacity drops the excess.
LEMMA EvictToCapacity ==
    ASSUME NEW S, NEW s \in Seq(S)
    PROVE  \E m \in 0..Len(s) :
              /\ evict_to_capacity(s) = Drop(s, m)
              /\ m = IF Len(s) > Capacity THEN Len(s) - Capacity ELSE 0
<1>1. Len(s) \in Nat
    BY LenProperties
<1>2. CASE Len(s) > Capacity
    BY <1>1, <1>2 DEF evict_to_capacity
<1>3. CASE ~ (Len(s) > Capacity)
    <2> DEFINE d == Drop(s, 0)
    <2>1. d \in Seq(S) /\ Len(d) = Len(s) - 0 /\ \A k \in 1..(Len(s) - 0) : d[k] = s[0 + k]
        BY <1>1, DropProperties
    <2> HIDE DEF d
    <2>2. d = s
        BY <1>1, <2>1, SeqEqual
    <2> QED BY <1>1, <1>3, <2>2 DEF evict_to_capacity, d
<1> QED BY <1>2, <1>3

-----------------------------------------------------------------------------
(* The invariant *)

\* The window holds the log without its first n samples, which are those
\* that do not belong to it.
Exact(n) ==
    /\ samples = Drop(log, n)
    /\ \A k \in 1..Len(log) : Belongs(k) <=> k > n

(***************************************************************************)
(* The inductive invariant.  ArrivalOrder needs last_time and last_seq to  *)
(* bound the log, also after a rejection that moved them; WindowExact      *)
(* needs the current bucket to be that of the newest sample.               *)
(***************************************************************************)
WindowInv ==
    /\ TypeOK
    /\ ArrivalOrder
    /\ WindowExact
    /\ ~ has_bucket => log = << >> /\ samples = << >>
    /\ has_bucket => /\ log # << >>
                     /\ log[Len(log)].time <= last_time
                     /\ log[Len(log)].seq <= last_seq
    /\ has_bucket /\ type \in Bucketed /\ interval > 0 =>
          bucket(bucket_start) = bucket(log[Len(log)].time)

\* What accepting a sample does to the log.
LEMMA LogGrows ==
    ASSUME TypeOK, NEW w \in WindowSample, log' = Append(log, w)
    PROVE  /\ Len(log) \in Nat
           /\ log' \in Seq(WindowSample)
           /\ Len(log') = Len(log) + 1
           /\ log'[Len(log')] = w
           /\ \A k \in 1..Len(log) : log'[k] = log[k]
           /\ \A k \in 1..Len(log') : k # Len(log') => k \in 1..Len(log)
<1>1. log \in Seq(WindowSample) /\ Len(log) \in Nat
    BY LenProperties DEF TypeOK
<1>2. /\ log' \in Seq(WindowSample) /\ Len(log') = Len(log) + 1
      /\ \A k \in 1..Len(log) : log'[k] = log[k]
      /\ log'[Len(log) + 1] = w
    BY <1>1, AppendProperties
<1> QED BY <1>1, <1>2

\* The samples of the log have a time and a sequence number.
LEMMA LogNumbers ==
    ASSUME TypeOK, NEW k \in 1..Len(log)
    PROVE  log[k].time \in Nat /\ log[k].seq \in Nat
<1>1. log[k] \in WindowSample
    BY ElementOfSeq DEF TypeOK
<1> QED BY <1>1 DEF WindowSample

\* A sample no older than the newest, under a larger number, keeps the order.
LEMMA OrderKept ==
    ASSUME WindowInv, NEW w \in WindowSample, log' = Append(log, w),
           has_bucket => w.time >= last_time,
           w.seq > last_seq
    PROVE  ArrivalOrder'
<1>1. TypeOK /\ w.time \in Nat /\ w.seq \in Nat /\ last_time \in Nat /\ last_seq \in Nat
    BY DEF WindowInv, TypeOK, WindowSample
<1>2. ASSUME NEW j \in 1..Len(log)
      PROVE  log[j].time <= w.time /\ log[j].seq < w.seq
    <2>1. has_bucket
        BY <1>1, LogGrows DEF WindowInv
    <2>2. Len(log) \in 1..Len(log) /\ Len(log) \in Nat /\ j <= Len(log)
        BY <1>1, LogGrows
    <2>3. /\ log[j].time \in Nat /\ log[j].seq \in Nat
          /\ log[Len(log)].time \in Nat /\ log[Len(log)].seq \in Nat
        BY <1>1, <2>2, LogNumbers
    <2>4. /\ log[j].time <= log[Len(log)].time
          /\ log[j].seq <= log[Len(log)].seq
        BY <2>2, <2>3 DEF WindowInv, ArrivalOrder
    <2>5. log[Len(log)].time <= last_time /\ log[Len(log)].seq <= last_seq
          /\ last_time <= w.time /\ last_seq < w.seq
        BY <2>1, <1>1 DEF WindowInv
    <2> QED BY <1>1, <2>3, <2>4, <2>5, SMTT(30)
<1> SUFFICES ASSUME NEW j \in 1..Len(log'), NEW k \in 1..Len(log'), j < k
             PROVE  log'[j].time <= log'[k].time /\ log'[j].seq < log'[k].seq
    BY DEF ArrivalOrder
<1>3. j \in 1..Len(log) /\ log'[j] = log[j]
    BY <1>1, LogGrows
<1>4. CASE k = Len(log')
    BY <1>1, <1>2, <1>3, <1>4, LogGrows
<1>5. CASE k # Len(log')
    <2>1. k \in 1..Len(log) /\ log'[k] = log[k]
        BY <1>1, <1>5, LogGrows
    <2> QED BY <1>3, <2>1 DEF WindowInv, ArrivalOrder
<1> QED BY <1>4, <1>5

\* The first sample of a window.
LEMMA ExactFirst ==
    ASSUME WindowInv, NEW w \in WindowSample, ~ has_bucket, first(w)
    PROVE  WindowExact'
<1>1. log = << >> /\ samples = << >>
    BY DEF WindowInv
<1>2. log' = <<w>> /\ samples' = <<w>> /\ Len(log') = 1 /\ UNCHANGED <<type, interval>>
    BY <1>1 DEF first, accepted
<1>3. samples' = Drop(log', 0)
    <2>1. << >> \in Seq(WindowSample) /\ Len(<< >>) = 0 /\ Append(<< >>, w) = <<w>>
        BY EmptySeq
    <2>2. <<w>> = Drop(<<w>>, 0)
        BY <2>1, DropAll
    <2> QED BY <1>2, <2>2
<1>4. \A k \in 1..Len(log') : Belongs(k)' <=> k > 0
    <2>1. type \in Types /\ w.time \in Nat /\ interval \in Nat
        BY DEF WindowInv, TypeOK, WindowSample
    <2>2. log'[1] = w
        BY <1>2
    <2>3. Belongs(1)'
        <3>1. log'[Len(log')] = w /\ Len(log') - 1 < Capacity /\ 1 = Len(log')
            BY <1>2, <2>2
        <3>2. interval > 0 => w.time - w.time < interval
            BY <2>1
        <3> QED BY <1>2, <2>1, <2>2, <3>1, <3>2 DEF Belongs, Types, Bucketed
    <2>4. \A k \in 1..Len(log') : k = 1
        BY <1>2
    <2> QED BY <2>3, <2>4
<1>5. Exact(0)'
    BY <1>3, <1>4 DEF Exact
<1> QED BY <1>2, <1>5 DEF WindowExact, Exact

\* What is old at one time is old later.
LEMMA Older ==
    ASSUME NEW x \in Nat, NEW y \in Nat, NEW z \in Nat, NEW i \in Nat,
           ~ (y - x < i), y <= z
    PROVE  z - x >= i
OBVIOUS

\* A sample that is not too old makes every later one not too old.
LEMMA Younger ==
    ASSUME NEW x \in Nat, NEW y \in Nat, NEW z \in Nat, NEW i \in Nat,
           ~ (i > 0 /\ z - x >= i), x <= y
    PROVE  ~ (i > 0 /\ z - y >= i)
OBVIOUS

\* Membership of a sliding window, in terms of Old.
LEMMA SlidingBelongs ==
    ASSUME type = "Sliding", UNCHANGED <<type, interval>>, NEW w \in WindowSample,
           log' \in Seq(WindowSample), log'[Len(log')] = w, NEW k \in 1..Len(log'),
           interval \in Nat
    PROVE  Belongs(k)' <=> Len(log') - k < Capacity /\ ~ Old(log'[k], w.time)
<1>1. log'[k] \in WindowSample
    BY ElementOfSeq
<1>2. log'[k].time \in Nat /\ w.time \in Nat
    BY <1>1 DEF WindowSample
<1>3. (interval > 0 => w.time - log'[k].time < interval) <=> ~ Old(log'[k], w.time)
    BY <1>2 DEF Old
<1>4. type' = "Sliding" /\ interval' = interval
    OBVIOUS
<1>5. Belongs(k)' <=> /\ Len(log') - k < Capacity
                      /\ interval > 0 => log'[Len(log')].time - log'[k].time < interval
    BY <1>4 DEF Belongs, Bucketed
<1> QED BY <1>3, <1>5

\* Accepting a sample in a window without buckets.
LEMMA ExactUnbucketed ==
    ASSUME WindowInv, ArrivalOrder', NEW w \in WindowSample, has_bucket,
           w.time >= last_time, type \notin Bucketed, unbucketed(w)
    PROVE  WindowExact'
<1> DEFINE L == Len(log)
           a == Append(samples, w)
<1>1. TypeOK /\ log' = Append(log, w) /\ UNCHANGED <<type, interval>>
    BY DEF WindowInv, unbucketed, accepted
<1>2. /\ L \in Nat /\ log' \in Seq(WindowSample) /\ Len(log') = L + 1
      /\ log'[L + 1] = w
      /\ \A k \in 1..L : log'[k] = log[k]
    BY <1>1, LogGrows
<1>3. PICK n \in 0..L : Exact(n)
    BY DEF WindowInv, WindowExact, Exact
<1>4. a = Drop(log', n)
    BY <1>1, <1>3, DropAppend DEF Exact, TypeOK
<1>5. a \in Seq(WindowSample) /\ Len(a) = L + 1 - n
      /\ \A k \in 1..(L + 1 - n) : a[k] = log'[n + k]
    <2>1. n \in 0..Len(log')
        BY <1>2
    <2>2. /\ Drop(log', n) \in Seq(WindowSample)
          /\ Len(Drop(log', n)) = Len(log') - n
          /\ \A k \in 1..(Len(log') - n) : Drop(log', n)[k] = log'[n + k]
        BY <1>2, <2>1, DropProperties, ZenonT(60)
    <2> QED BY <1>2, <1>4, <2>2
<1>6. \A m \in 0..(L + 1 - n) : Drop(a, m) = Drop(log', n + m)
    <2> SUFFICES ASSUME NEW m \in 0..(L + 1 - n)
                 PROVE  Drop(a, m) = Drop(log', n + m)
        OBVIOUS
    <2>1. n \in 0..Len(log') /\ m \in 0..(Len(log') - n)
        BY <1>2
    <2> QED BY <1>2, <1>4, <2>1, DropDrop
<1>7. \A k \in 1..L : Belongs(k) <=> k > n
    BY <1>3 DEF Exact
<1> HIDE DEF a
<1>8. ASSUME NEW x \in 0..(L + 1), samples' = Drop(log', x),
             \A k \in 1..(L + 1) : Belongs(k)' <=> k > x
      PROVE  WindowExact'
    <2>1. x \in 0..Len(log') /\ Exact(x)'
        BY <1>2, <1>8 DEF Exact
    <2> QED BY <2>1 DEF WindowExact, Exact
<1>9. CASE type = "Instantaneous"
    <2>1. samples' = <<w>>
        BY <1>9 DEF unbucketed, accepted
    <2>2. <<w>> = Drop(log', L)
        BY <1>1, DropAll DEF TypeOK
    <2>3. \A k \in 1..(L + 1) : Belongs(k)' <=> k > L
        BY <1>1, <1>2, <1>9 DEF Belongs
    <2> QED BY <1>2, <1>8, <2>1, <2>2, <2>3
<1>10. CASE type = "RollingCount"
    <2>1. samples' = evict_to_capacity(a)
        BY <1>10 DEF unbucketed, accepted, a
    <2>2. PICK m \in 0..Len(a) :
            /\ evict_to_capacity(a) = Drop(a, m)
            /\ m = IF Len(a) > Capacity THEN Len(a) - Capacity ELSE 0
        BY <1>5, EvictToCapacity
    <2>3. samples' = Drop(log', n + m) /\ n + m \in 0..(L + 1)
        BY <1>2, <1>5, <1>6, <2>1, <2>2
    <2>4. \A k \in 1..L : L - k < Capacity <=> k > n
        BY <1>7, <1>10 DEF Belongs
    <2>5. \A k \in 1..(L + 1) : Belongs(k)' <=> (L + 1) - k < Capacity
        BY <1>1, <1>2, <1>10 DEF Belongs
    <2>6. \A k \in 1..(L + 1) : (L + 1) - k < Capacity <=> k > n + m
        <3>1. CASE n = 0
            BY <1>2, <1>5, <2>2, <3>1
        <3>2. CASE n > 0
            <4>1. n \in 1..L /\ ~ (L - n < Capacity)
                BY <1>2, <2>4, <3>2
            <4>2. CASE n < L
                <5>1. n + 1 \in 1..L /\ n + 1 > n
                    BY <1>2, <4>2
                <5>2. L - (n + 1) < Capacity
                    BY <2>4, <5>1
                <5> QED BY <1>2, <1>5, <2>2, <4>1, <5>2
            <4>3. CASE n = L
                BY <1>2, <1>5, <2>2, <4>1, <4>3
            <4> QED BY <1>2, <4>2, <4>3
        <3> QED BY <1>2, <3>1, <3>2
    <2> QED BY <1>8, <2>3, <2>5, <2>6
<1>11. CASE type = "Sliding"
    <2> DEFINE now == w.time
               s == evict_by_age(a, now)
    <2>1. samples' = evict_to_capacity(s)
        BY <1>11 DEF unbucketed, accepted, a
    <2>2. PICK m \in 0..Len(a) : /\ s = Drop(a, m)
                                 /\ \A k \in 1..m : Old(a[k], now)
                                 /\ m < Len(a) => ~ Old(a[m + 1], now)
        BY <1>5, EvictByAge
    <2> HIDE DEF s
    <2>3. s = Drop(log', n + m) /\ n + m \in 0..(L + 1)
        BY <1>2, <1>5, <1>6, <2>2
    <2>4. s \in Seq(WindowSample) /\ Len(s) = L + 1 - (n + m)
        BY <1>2, <2>3, DropProperties
    <2>5. PICK c \in 0..Len(s) :
            /\ evict_to_capacity(s) = Drop(s, c)
            /\ c = IF Len(s) > Capacity THEN Len(s) - Capacity ELSE 0
        BY <2>4, EvictToCapacity
    <2>6. samples' = Drop(log', n + m + c) /\ n + m + c \in 0..(L + 1)
        <3>1. n + m \in 0..Len(log') /\ c \in 0..(Len(log') - (n + m))
            BY <1>2, <2>3, <2>4, <2>5
        <3>2. Drop(s, c) = Drop(log', n + m + c)
            BY <1>2, <2>3, <3>1, DropDrop
        <3>3. n + m + c \in 0..(L + 1)
            BY <1>2, <3>1
        <3> QED BY <2>1, <2>5, <3>2, <3>3
    <2>7. \A k \in 1..(L + 1) :
            Belongs(k)' <=> (L + 1) - k < Capacity /\ ~ Old(log'[k], now)
        <3>1. interval \in Nat /\ Len(log') = L + 1 /\ log'[Len(log')] = w
            BY <1>1, <1>2 DEF TypeOK
        <3> QED BY <1>1, <1>2, <1>11, <3>1, SlidingBelongs
    <2>8. ASSUME NEW k \in 1..(L + 1), k <= n
          PROVE  ~ ((L + 1) - k < Capacity /\ ~ Old(log'[k], now))
        <3>1. k \in 1..L /\ ~ (k > n) /\ log'[k] = log[k]
            BY <1>2, <2>8
        <3>2. ~ (L - k < Capacity /\ (interval > 0 => log[L].time - log[k].time < interval))
            BY <1>7, <1>11, <3>1 DEF Belongs
        <3>3. L \in 1..L
            BY <1>2, <3>1
        <3>4. /\ log[L].time \in Nat /\ log[k].time \in Nat
              /\ log[L].time <= last_time /\ last_time \in Nat /\ w.time \in Nat
              /\ interval \in Nat
            BY <1>1, <3>1, <3>3, LogNumbers DEF WindowInv, TypeOK, WindowSample
        <3>5. CASE ~ (L - k < Capacity)
            BY <1>2, <3>1, <3>5
        <3>6. CASE interval > 0 /\ ~ (log[L].time - log[k].time < interval)
            <4>1. log[L].time <= w.time
                BY <3>4
            <4>2. w.time - log[k].time >= interval
                BY <3>4, <3>6, <4>1, Older
            <4> QED BY <3>1, <3>6, <4>2 DEF Old
        <3> QED BY <3>2, <3>5, <3>6
    <2>9. ASSUME NEW k \in 1..(L + 1), k > n, k <= n + m
          PROVE  Old(log'[k], now)
        <3>1. k - n \in 1..m /\ k - n \in 1..(L + 1 - n) /\ n + (k - n) = k
            BY <1>2, <1>5, <2>9
        <3> QED BY <1>5, <2>2, <3>1, ZenonT(60)
    <2>10. ASSUME NEW k \in 1..(L + 1), k > n + m
           PROVE  ~ Old(log'[k], now)
        <3>1. m + 1 \in 1..(L + 1 - n) /\ m < Len(a) /\ n + (m + 1) = n + m + 1
            BY <1>2, <1>5, <2>10
        <3>2. ~ Old(log'[n + m + 1], now)
            BY <1>5, <2>2, <3>1
        <3>3. n + m + 1 \in 1..Len(log') /\ k \in 1..Len(log') /\ n + m + 1 <= k
            BY <1>2, <2>3, <2>10
        <3>4. /\ log'[n + m + 1].time <= log'[k].time
              /\ log'[n + m + 1].time \in Nat /\ log'[k].time \in Nat
            <4>1. log'[n + m + 1] \in WindowSample /\ log'[k] \in WindowSample
                BY <1>2, <3>3, ElementOfSeq
            <4>2. log'[n + m + 1].time \in Nat /\ log'[k].time \in Nat
                BY <4>1 DEF WindowSample
            <4> DEFINE e == n + m + 1
            <4>3. e \in 1..Len(log') /\ e <= k /\ log'[e].time \in Nat
                BY <3>3, <4>2
            <4> HIDE DEF e
            <4>4. log'[e].time <= log'[k].time
                <5>1. CASE e = k
                    BY <4>3, <5>1
                <5>2. CASE e < k
                    BY <3>3, <4>3, <5>2 DEF ArrivalOrder
                <5> QED BY <1>2, <3>3, <4>3, <5>1, <5>2
            <4> QED BY <4>2, <4>4 DEF e
        <3>5. w.time \in Nat /\ interval \in Nat
            BY <1>1 DEF TypeOK, WindowSample
        <3>6. ~ (interval > 0 /\ w.time - log'[n + m + 1].time >= interval)
            BY <3>2 DEF Old
        <3>7. ~ (interval > 0 /\ w.time - log'[k].time >= interval)
            BY <3>4, <3>5, <3>6, Younger
        <3> QED BY <3>7 DEF Old
    <2>11. \A k \in 1..(L + 1) : k > n + m =>
            ((L + 1) - k < Capacity <=> k > n + m + c)
        <3>1. n + m \in Nat /\ n \in Nat /\ m \in Nat /\ c \in Nat
            BY <1>2, <1>5, <2>3, <2>4
        <3>2. CASE Len(s) > Capacity
            <4>1. c = Len(s) - Capacity
                BY <2>5, <3>2
            <4>2. n + m + c = L + 1 - Capacity
                BY <1>2, <2>4, <3>1, <4>1
            <4> QED BY <1>2, <3>1, <4>2
        <3>3. CASE ~ (Len(s) > Capacity)
            <4>1. c = 0 /\ L + 1 - (n + m) <= Capacity
                BY <1>2, <2>4, <2>5, <3>1, <3>3
            <4> QED BY <1>2, <3>1, <4>1
        <3> QED BY <3>2, <3>3
    <2>12. \A k \in 1..(L + 1) : Belongs(k)' <=> k > n + m + c
        <3> SUFFICES ASSUME NEW k \in 1..(L + 1)
                     PROVE  Belongs(k)' <=> k > n + m + c
            OBVIOUS
        <3>1. /\ k \in Nat /\ n \in Nat /\ m \in Nat /\ c \in Nat
            BY <1>2, <2>4, <1>5
        <3>2. CASE k <= n
            BY <2>7, <2>8, <3>1, <3>2
        <3>3. CASE k > n /\ k <= n + m
            BY <2>7, <2>9, <3>1, <3>3
        <3>4. CASE k > n + m
            BY <2>7, <2>10, <2>11, <3>4
        <3> QED BY <3>1, <3>2, <3>3, <3>4
    <2> QED BY <1>8, <2>6, <2>12
<1>12. type \in Types
    BY <1>1 DEF TypeOK
<1> QED BY <1>9, <1>10, <1>11, <1>12 DEF Types

\* Facts of division by the interval.
LEMMA Division ==
    ASSUME NEW x \in Nat, NEW y \in Nat, x <= y, NEW d \in Nat, d > 0
    PROVE  /\ x \div d \in Nat
           /\ x \div d <= y \div d
           /\ (x \div d) * d \in Nat
           /\ ((x \div d) * d) \div d = x \div d
<1>1. x \div d \in Nat
    OBVIOUS
<1>2. x \div d <= y \div d
    OBVIOUS
<1>3. ASSUME NEW q \in Nat
      PROVE  q * d \in Nat /\ (q * d) \div d = q
    OBVIOUS
<1> QED BY <1>1, <1>2, <1>3

\* Accepting a sample in a bucketed window: it is never late, and the bucket
\* afterwards is that of the new sample.
LEMMA ExactBucketed ==
    ASSUME WindowInv, NEW w \in WindowSample, has_bucket, w.time >= last_time,
           type \in Bucketed, interval > 0, bucketed(w)
    PROVE  /\ accepted(w, samples')
           /\ bucket_start' \in Nat
           /\ samples' \in Seq(WindowSample)
           /\ bucket(bucket_start') = bucket(w.time)
           /\ WindowExact'
<1> DEFINE L == Len(log)
           b == bucket(w.time)
           start == bucket(bucket_start)
<1>1. /\ TypeOK /\ log \in Seq(WindowSample) /\ samples \in Seq(WindowSample)
      /\ interval \in Nat /\ w.time \in Nat /\ bucket_start \in Nat
    BY DEF WindowInv, TypeOK, WindowSample
<1>2. L \in Nat /\ L \in 1..L
    BY <1>1, LenProperties, EmptySeq DEF WindowInv
<1>3. \A k \in 1..L : /\ log[k].time \in Nat
                       /\ log[k].time <= log[L].time
    BY <1>1, <1>2, LogNumbers DEF WindowInv, ArrivalOrder
<1>4. log[L].time <= w.time /\ start = bucket(log[L].time)
    <2>1. log[L].time <= last_time /\ last_time \in Nat /\ start = bucket(log[L].time)
        BY DEF WindowInv, TypeOK
    <2> QED BY <1>1, <1>2, <1>3, <2>1
<1>5. /\ b \in Nat /\ start \in Nat /\ start <= b
      /\ \A k \in 1..L : bucket(log[k].time) \in Nat /\ bucket(log[k].time) <= start
    <2>1. \A x, y \in Nat : x <= y =>
            bucket(x) \in Nat /\ bucket(y) \in Nat /\ bucket(x) <= bucket(y)
        <3> SUFFICES ASSUME NEW x \in Nat, NEW y \in Nat, x <= y
                     PROVE  bucket(x) \in Nat /\ bucket(y) \in Nat
                            /\ bucket(x) <= bucket(y)
            OBVIOUS
        <3>1. x \div interval \in Nat /\ x \div interval <= y \div interval
            BY <1>1, Division
        <3>2. y \div interval \in Nat
            BY <1>1, Division
        <3> QED BY <3>1, <3>2 DEF bucket
    <2>2. b \in Nat /\ start \in Nat /\ start <= b
        BY <1>1, <1>2, <1>3, <1>4, <2>1
    <2>3. ASSUME NEW k \in 1..L
          PROVE  bucket(log[k].time) \in Nat /\ bucket(log[k].time) <= start
        BY <1>2, <1>3, <1>4, <2>1
    <2> QED BY <2>2, <2>3
<1>6. b * interval \in Nat /\ bucket(b * interval) = b
    <2>1. w.time <= w.time
        BY <1>1
    <2>2. /\ (w.time \div interval) * interval \in Nat
          /\ ((w.time \div interval) * interval) \div interval = w.time \div interval
        BY <1>1, <2>1, Division
    <2> QED BY <2>2 DEF bucket
<1>7. /\ accepted(w, Append(IF b > start THEN << >> ELSE samples, w))
      /\ bucket_start' = IF b > start THEN b * interval ELSE bucket_start
    <2>1. ~ (b < start)
        BY <1>5
    <2> QED BY <2>1 DEF bucketed
<1>8. /\ log' = Append(log, w) /\ UNCHANGED <<type, interval>>
      /\ samples' = Append(IF b > start THEN << >> ELSE samples, w)
      /\ accepted(w, samples')
    BY <1>7 DEF accepted
<1>9. /\ log' \in Seq(WindowSample) /\ Len(log') = L + 1
      /\ log'[L + 1] = w
      /\ \A k \in 1..L : log'[k] = log[k]
    BY <1>1, <1>8, LogGrows
<1>10. /\ bucket_start' \in Nat
       /\ bucket(bucket_start') = b
    BY <1>1, <1>5, <1>6, <1>7
<1>11. \A k \in 1..(L + 1) : Belongs(k)' <=> bucket(log'[k].time) = b
    BY <1>8, <1>9 DEF Belongs, Bucketed, bucket
<1> HIDE DEF b, start
<1>12. samples' \in Seq(WindowSample)
    <2>1. << >> \in Seq(WindowSample)
        BY EmptySeq
    <2> QED BY <1>1, <1>8, <2>1, AppendProperties
<1>13. WindowExact'
    <2>1. CASE b > start
        <3>1. samples' = Append(<< >>, w) /\ Append(<< >>, w) = <<w>>
            BY <1>8, <2>1
        <3>2. <<w>> = Drop(log', L)
            BY <1>1, <1>8, DropAll
        <3>3. ASSUME NEW k \in 1..(L + 1)
              PROVE  Belongs(k)' <=> k > L
            <4>1. CASE k \in 1..L
                <5>1. bucket(log[k].time) \in Nat /\ bucket(log[k].time) <= start
                    BY <1>5, <4>1
                <5>2. bucket(log[k].time) # b /\ ~ (k > L)
                    BY <1>2, <1>5, <2>1, <4>1, <5>1
                <5>3. log'[k] = log[k]
                    BY <1>9, <4>1
                <5>4. Belongs(k)' <=> bucket(log[k].time) = b
                    BY <1>11, <5>3
                <5> QED BY <5>2, <5>4
            <4>2. CASE k = L + 1
                BY <1>2, <1>9, <1>11, <4>2, SMTT(60) DEF b
            <4> QED BY <1>2, <4>1, <4>2
        <3>4. PICK x \in 0..Len(log') : x = L
            BY <1>2, <1>9
        <3>5. Exact(x)'
            BY <1>9, <3>1, <3>2, <3>3, <3>4 DEF Exact
        <3> QED BY <3>5 DEF WindowExact, Exact
    <2>2. CASE b = start
        <3>1. PICK n \in 0..L : Exact(n)
            BY DEF WindowInv, WindowExact, Exact
        <3>2. samples' = Append(samples, w)
            BY <1>5, <1>8, <2>2
        <3>3. Append(samples, w) = Drop(log', n)
            BY <1>1, <1>8, <3>1, DropAppend DEF Exact
        <3>4. \A k \in 1..L : Belongs(k) <=> bucket(log[k].time) = start
            BY <1>4 DEF Belongs, Bucketed
        <3>5. ASSUME NEW k \in 1..(L + 1)
              PROVE  Belongs(k)' <=> k > n
            <4>1. CASE k \in 1..L
                BY <1>9, <1>11, <2>2, <3>1, <3>4, <4>1 DEF Exact
            <4>2. CASE k = L + 1
                BY <1>2, <1>9, <1>11, <4>2, SMTT(60) DEF b
            <4> QED BY <1>2, <4>1, <4>2
        <3>6. Exact(n)' /\ n \in 0..Len(log')
            BY <1>2, <1>9, <3>2, <3>3, <3>5 DEF Exact
        <3> QED BY <3>6 DEF WindowExact, Exact
    <2> QED BY <1>5, <2>1, <2>2
<1> QED BY <1>8, <1>10, <1>12, <1>13 DEF b

\* The invariant survives every accepted sample that is in order.
LEMMA InvAccepted ==
    ASSUME WindowInv, NEW w \in WindowSample, accepted(w, samples'),
           samples' \in Seq(WindowSample), bucket_start' \in Nat,
           WindowExact', ArrivalOrder',
           type \in Bucketed /\ interval > 0 => bucket(bucket_start') = bucket(w.time)
    PROVE  WindowInv'
<1>1. /\ status' = "Accepted" /\ log' = Append(log, w)
      /\ last_time' = w.time /\ last_seq' = w.seq /\ has_bucket' = TRUE
      /\ UNCHANGED <<type, interval>>
    BY DEF accepted
<1>2. TypeOK /\ w.time \in Nat /\ w.seq \in Nat
    BY DEF WindowInv, WindowSample
<1>3. /\ log' \in Seq(WindowSample) /\ log'[Len(log')] = w
      /\ Len(log') = Len(log) + 1 /\ Len(log) \in Nat
    BY <1>1, <1>2, LogGrows
<1>4. log' # << >>
    BY <1>3, EmptySeq
<1>5. TypeOK'
    BY <1>1, <1>2, <1>3 DEF TypeOK, IngestStatus
<1>6. log'[Len(log')].time <= last_time' /\ log'[Len(log')].seq <= last_seq'
    BY <1>1, <1>2, <1>3
<1>7. (type \in Bucketed /\ interval > 0 =>
          bucket(bucket_start) = bucket(log[Len(log)].time))'
    BY <1>1, <1>3 DEF bucket
<1> QED BY <1>1, <1>4, <1>5, <1>6, <1>7 DEF WindowInv

\* A step that leaves the samples and the log alone keeps order and contents.
LEMMA WindowUnchanged ==
    ASSUME WindowInv, UNCHANGED <<type, interval, samples, log>>
    PROVE  ArrivalOrder' /\ WindowExact'
<1>1. ArrivalOrder'
    BY DEF WindowInv, ArrivalOrder
<1>2. PICK n \in 0..Len(log) : Exact(n)
    BY DEF WindowInv, WindowExact, Exact
<1>3. \A k \in 1..Len(log) : Belongs(k)' <=> Belongs(k)
    BY DEF Belongs, bucket
<1>4. n \in 0..Len(log') /\ Exact(n)'
    BY <1>2, <1>3 DEF Exact
<1> QED BY <1>1, <1>4 DEF WindowExact, Exact

\* A sample ingest looks at is a sample.
LEMMA SampleType ==
    ASSUME NEW time \in 0..MaxTime, NEW value \in Values, NEW seq \in 0..MaxSeq
    PROVE  [time |-> time, value |-> value, seq |-> seq] \in WindowSample
BY DEF WindowSample

\* ingest keeps the invariant, whatever it returns.
LEMMA InvIngest ==
    ASSUME WindowInv, NEW time \in 0..MaxTime, NEW value \in Values \cup {NaN},
           NEW seq \in 0..MaxSeq, ingest(time, value, seq)
    PROVE  WindowInv'
<1> DEFINE w == [time |-> time, value |-> value, seq |-> seq]
<1>1. /\ TypeOK /\ time \in Nat /\ seq \in Nat
      /\ last_time \in Nat /\ last_seq \in Nat
    BY DEF WindowInv, TypeOK
<1>2. w.time = time /\ w.seq = seq
    OBVIOUS
<1>3. ASSUME NEW why \in IngestStatus, rejected(why), last_seq' \in Nat,
             last_seq <= last_seq'
      PROVE  WindowInv'
    <2>1. UNCHANGED <<type, interval, samples, last_time, bucket_start,
                      has_bucket, log>> /\ status' = why
        BY <1>3 DEF rejected
    <2>2. TypeOK'
        BY <1>1, <1>3, <2>1 DEF TypeOK
    <2>3. ArrivalOrder' /\ WindowExact'
        BY <2>1, WindowUnchanged
    <2>4. has_bucket => log[Len(log)].seq <= last_seq'
        <3>1. ASSUME has_bucket
              PROVE  Len(log) \in 1..Len(log)
            BY <1>1, <3>1, LenProperties, EmptySeq DEF WindowInv, TypeOK
        <3>2. has_bucket => log[Len(log)].seq \in Nat
            BY <1>1, <3>1, LogNumbers
        <3> QED BY <1>1, <1>3, <3>2 DEF WindowInv
    <2> QED BY <2>1, <2>2, <2>3, <2>4 DEF WindowInv, bucket
<1>4. CASE value = NaN
    BY <1>1, <1>3, <1>4 DEF ingest, IngestStatus
<1>5. CASE value # NaN /\ seq <= last_seq
    BY <1>1, <1>3, <1>5 DEF ingest, IngestStatus
<1>6. CASE value # NaN /\ seq > last_seq
    <2>1. w \in WindowSample
        BY <1>6, SampleType
    <2>2. \/ ~ has_bucket /\ first(w)
          \/ has_bucket /\ time < last_time /\ rejected("Rollback") /\ UNCHANGED last_seq
          \/ /\ has_bucket /\ time >= last_time
             /\ \/ type \notin Bucketed /\ unbucketed(w)
                \/ type \in Bucketed /\ rejected("Invalid") /\ last_seq' = seq
                \/ type \in Bucketed /\ interval > 0 /\ bucketed(w)
        BY <1>1, <1>6 DEF ingest, rolled_back
    <2> HIDE DEF w
    <2>3. CASE ~ has_bucket /\ first(w)
        <3>1. samples = << >> /\ accepted(w, Append(samples, w)) /\ bucket_start' = w.time
            BY <2>3 DEF first, WindowInv
        <3>2. log' = Append(log, w) /\ samples' = <<w>>
            BY <3>1 DEF accepted
        <3>3. accepted(w, samples')
            BY <3>1, <3>2
        <3>4. samples' \in Seq(WindowSample) /\ bucket_start' \in Nat
            BY <1>1, <1>2, <2>1, <3>1, <3>2
        <3>5. ArrivalOrder'
            BY <1>2, <1>6, <2>1, <2>3, <3>2, OrderKept
        <3>6. WindowExact'
            BY <2>1, <2>3, ExactFirst
        <3> QED BY <2>1, <3>1, <3>3, <3>4, <3>5, <3>6, InvAccepted
    <2>4. CASE rejected("Rollback") /\ UNCHANGED last_seq
        BY <1>1, <1>3, <2>4 DEF IngestStatus
    <2>5. CASE rejected("Invalid") /\ last_seq' = seq
        BY <1>1, <1>3, <1>6, <2>5 DEF IngestStatus
    <2>6. CASE has_bucket /\ time >= last_time /\ type \notin Bucketed /\ unbucketed(w)
        <3>1. accepted(w, samples') /\ log' = Append(log, w) /\ UNCHANGED bucket_start
            BY <2>6 DEF unbucketed, accepted
        <3>2. ArrivalOrder'
            BY <1>2, <1>6, <2>1, <2>6, <3>1, OrderKept
        <3>3. WindowExact'
            BY <1>2, <2>1, <2>6, <3>2, ExactUnbucketed
        <3>4. samples' \in Seq(WindowSample)
            <4>1. log' \in Seq(WindowSample)
                BY <1>1, <2>1, <3>1, LogGrows
            <4>2. PICK n \in 0..Len(log') : samples' = Drop(log', n)
                BY <3>3 DEF WindowExact
            <4> QED BY <4>1, <4>2, DropProperties
        <3>5. bucket_start' \in Nat
            BY <1>1, <3>1 DEF TypeOK
        <3> QED BY <2>1, <2>6, <3>1, <3>2, <3>3, <3>4, <3>5, InvAccepted
    <2>7. CASE /\ has_bucket /\ time >= last_time
               /\ type \in Bucketed /\ interval > 0 /\ bucketed(w)
        <3>1. /\ accepted(w, samples') /\ bucket_start' \in Nat
              /\ samples' \in Seq(WindowSample)
              /\ bucket(bucket_start') = bucket(w.time)
              /\ WindowExact'
            BY <1>2, <2>1, <2>7, ExactBucketed
        <3>2. log' = Append(log, w)
            BY <3>1 DEF accepted
        <3>3. ArrivalOrder'
            BY <1>2, <1>6, <2>1, <2>7, <3>2, OrderKept
        <3> QED BY <2>1, <3>1, <3>3, InvAccepted
    <2> QED BY <2>2, <2>3, <2>4, <2>5, <2>6, <2>7
<1> QED BY <1>1, <1>4, <1>5, <1>6

\* The inductive invariant holds throughout.
LEMMA WindowInvariant == Spec => []WindowInv
<1>1. ASSUME log = << >>, samples = << >>
      PROVE  ArrivalOrder /\ WindowExact
    <2>1. Len(log) = 0
        BY <1>1
    <2>2. ArrivalOrder
        BY <2>1 DEF ArrivalOrder
    <2>3. samples = Drop(log, 0)
        BY <1>1 DEF Drop
    <2> QED BY <2>1, <2>2, <2>3 DEF WindowExact
<1>2. Init => WindowInv
    <2> SUFFICES ASSUME Init PROVE WindowInv
        OBVIOUS
    <2>1. << >> \in Seq(WindowSample)
        BY EmptySeq
    <2>2. TypeOK
        BY <2>1 DEF Init, TypeOK, IngestStatus
    <2> QED BY <1>1, <2>2 DEF Init, WindowInv
<1>3. WindowInv /\ [Next]_vars => WindowInv'
    <2> SUFFICES ASSUME WindowInv, [Next]_vars PROVE WindowInv'
        OBVIOUS
    <2>1. CASE reset
        <3>1. << >> \in Seq(WindowSample)
            BY EmptySeq
        <3>2. TypeOK'
            BY <2>1, <3>1 DEF reset, WindowInv, TypeOK
        <3>3. ArrivalOrder' /\ WindowExact'
            <4>1. log' = << >> /\ samples' = << >> /\ Len(log') = 0
                BY <2>1 DEF reset
            <4>2. samples' = Drop(log', 0)
                BY <4>1 DEF Drop
            <4> QED BY <4>1, <4>2 DEF ArrivalOrder, WindowExact
        <3> QED BY <2>1, <3>2, <3>3 DEF reset, WindowInv
    <2>2. CASE UNCHANGED vars
        <3>1. ArrivalOrder' /\ WindowExact'
            BY <2>2, WindowUnchanged DEF vars
        <3>2. TypeOK'
            BY <2>2 DEF vars, WindowInv, TypeOK
        <3> QED BY <2>2, <3>1, <3>2 DEF vars, WindowInv, bucket
    <2> QED BY <2>1, <2>2, InvIngest DEF Next
<1> QED BY <1>2, <1>3, PTL DEF Spec

(***************************************************************************)
(* The samples a window has accepted are in time order under distinct      *)
(* sequence numbers, for every mix of accepted and rejected samples.       *)
(***************************************************************************)
THEOREM SamplesArriveInOrder == Spec => []ArrivalOrder
<1>1. WindowInv => ArrivalOrder
    BY DEF WindowInv
<1> QED BY <1>1, WindowInvariant, PTL

(***************************************************************************)
(* For every window type, interval and capacity the window holds exactly   *)
(* the samples its definition selects from those it accepted.              *)
(***************************************************************************)
THEOREM WindowHoldsExactly == Spec => []WindowExact
<1>1. WindowInv => WindowExact
    BY DEF WindowInv
<1> QED BY <1>1, WindowInvariant, PTL

-----------------------------------------------------------------------------
(* Percentiles *)

\* f takes each place in ascending order of the n numbers v to an index.
Sorts(f, v, n) ==
    /\ f \in [1..n -> 1..n]
    /\ \A i, j \in 1..n : i < j => f[i] # f[j] /\ v[f[i]] <= v[f[j]]

\* The indices that do not come after k, equal numbers in order of index.
UpTo(k, v, n) == {j \in 1..n : v[j] < v[k] \/ (v[j] = v[k] /\ j <= k)}

\* An index that comes before another has fewer up to it.
LEMMA FewerUpTo ==
    ASSUME NEW n \in Nat, NEW v \in [1..n -> Int], NEW j \in 1..n, NEW k \in 1..n
    PROVE  /\ Cardinality(UpTo(k, v, n)) \in 1..n
           /\ j # k /\ j \in UpTo(k, v, n) =>
                 Cardinality(UpTo(j, v, n)) < Cardinality(UpTo(k, v, n))
<1> DEFINE J == UpTo(j, v, n)
           K == UpTo(k, v, n)
<1>1. IsFiniteSet(1..n) /\ Cardinality(1..n) = n
    <2>1. n \in Int /\ 1 \in Int /\ (IF 1 > n THEN 0 ELSE n - 1 + 1) = n
        OBVIOUS
    <2> QED BY <2>1, FS_Interval
<1>2. J \in SUBSET (1..n) /\ K \in SUBSET (1..n) /\ k \in K
    BY DEF UpTo
<1>3. ASSUME j # k, j \in K
      PROVE  J \subseteq K /\ k \notin J
    <2>1. v[j] < v[k] \/ (v[j] = v[k] /\ j < k)
        BY <1>3 DEF UpTo
    <2>2. v[j] \in Int /\ v[k] \in Int
        OBVIOUS
    <2>3. k \notin J
        BY <2>1, <2>2 DEF UpTo
    <2>4. ASSUME NEW i \in J PROVE i \in K
        <3>1. i \in 1..n /\ v[i] \in Int /\ (v[i] < v[j] \/ (v[i] = v[j] /\ i <= j))
            BY <2>4 DEF UpTo
        <3>2. v[i] < v[k] \/ (v[i] = v[k] /\ i <= k)
            BY <2>1, <2>2, <3>1
        <3> QED BY <3>1, <3>2 DEF UpTo
    <2> QED BY <2>3, <2>4
<1> HIDE DEF J, K
<1>4. IsFiniteSet(J) /\ IsFiniteSet(K) /\ Cardinality(K) <= n
    <2>1. \A T \in SUBSET (1..n) : IsFiniteSet(T) /\ Cardinality(T) <= Cardinality(1..n)
        BY <1>1, FS_Subset, ZenonT(60)
    <2> QED BY <1>1, <1>2, <2>1
<1>5. Cardinality(J) \in Nat /\ Cardinality(K) \in Nat
    BY <1>4, FS_CardinalityType
<1>6. Cardinality(K) # 0
    BY <1>2, <1>4, FS_EmptySet
<1>7. ASSUME j # k, j \in K
      PROVE  Cardinality(J) < Cardinality(K)
    <2>1. J \in SUBSET K /\ J # K
        BY <1>2, <1>3, <1>7
    <2>2. Cardinality(J) <= Cardinality(K) /\ Cardinality(J) # Cardinality(K)
        BY <1>4, <2>1, FS_Subset
    <2> QED BY <1>5, <2>2
<1>8. Cardinality(K) \in 1..n
    BY <1>4, <1>5, <1>6
<1> QED BY <1>7, <1>8 DEF J, K

\* So every place is taken by one index, and the places are in order.
LEMMA Sorted ==
    ASSUME NEW n \in Nat, NEW v \in [1..n -> Int]
    PROVE  Sorts([i \in 1..n |-> CHOOSE k \in 1..n : Cardinality(UpTo(k, v, n)) = i], v, n)
<1> DEFINE c == [k \in 1..n |-> Cardinality(UpTo(k, v, n))]
           f == [i \in 1..n |-> CHOOSE k \in 1..n : c[k] = i]
<1>1. ASSUME NEW j \in 1..n, NEW k \in 1..n, j # k
      PROVE  j \in UpTo(k, v, n) \/ k \in UpTo(j, v, n)
    <2>1. v[j] \in Int /\ v[k] \in Int
        OBVIOUS
    <2> QED BY <2>1 DEF UpTo
<1>2. c \in [1..n -> 1..n]
    BY FewerUpTo
<1>3. \A j, k \in 1..n : j # k /\ j \in UpTo(k, v, n) => c[j] < c[k]
    BY FewerUpTo
<1> HIDE DEF c
<1>4. \A j, k \in 1..n : c[j] = c[k] => j = k
    <2> SUFFICES ASSUME NEW j \in 1..n, NEW k \in 1..n, c[j] = c[k], j # k
                 PROVE  FALSE
        OBVIOUS
    <2>1. c[j] < c[k] \/ c[k] < c[j]
        BY <1>1, <1>3
    <2>2. c[j] \in Int /\ c[k] \in Int
        BY <1>2
    <2> QED BY <2>1, <2>2
<1>5. \A i \in 1..n : \E k \in 1..n : c[k] = i
    <2>1. c \in Injection(1..n, 1..n)
        BY <1>2, <1>4 DEF Injection, IsInjective
    <2>2. IsFiniteSet(1..n)
        BY FS_Interval
    <2>3. c \in Surjection(1..n, 1..n)
        BY <2>1, <2>2, FS_Injection
    <2> QED BY <2>3 DEF Surjection
<1>6. \A i \in 1..n : f[i] \in 1..n /\ c[f[i]] = i
    BY <1>5
<1>7. f \in [1..n -> 1..n]
    BY <1>6
<1>8. f = [i \in 1..n |-> CHOOSE k \in 1..n : Cardinality(UpTo(k, v, n)) = i]
    BY DEF c
<1> HIDE DEF f
<1>9. ASSUME NEW i \in 1..n, NEW j \in 1..n, i < j
      PROVE  f[i] # f[j] /\ v[f[i]] <= v[f[j]]
    <2>1. f[i] \in 1..n /\ f[j] \in 1..n /\ c[f[i]] = i /\ c[f[j]] = j
        BY <1>6
    <2>2. f[i] # f[j]
        BY <1>9, <2>1
    <2>3. f[j] \notin UpTo(f[i], v, n)
        <3> SUFFICES ASSUME f[j] \in UpTo(f[i], v, n) PROVE FALSE
            OBVIOUS
        <3>1. j < i
            BY <1>3, <2>1, <2>2
        <3> QED BY <1>9, <3>1
    <2>4. v[f[i]] \in Int /\ v[f[j]] \in Int
        BY <2>1
    <2>5. ~ (v[f[j]] < v[f[i]])
        BY <2>1, <2>3 DEF UpTo
    <2> QED BY <2>2, <2>4, <2>5
<1> QED BY <1>7, <1>8, <1>9 DEF Sorts

\* Every index has its place.
OneToOne(f, n) ==
    /\ \A i, j \in 1..n : f[i] = f[j] => i = j
    /\ \A k \in 1..n : \E i \in 1..n : f[i] = k

LEMMA SortedOnto ==
    ASSUME NEW n \in Nat, NEW f, NEW v, Sorts(f, v, n)
    PROVE  OneToOne(f, n)
<1>1. f \in [1..n -> 1..n] /\ \A i, j \in 1..n : i < j => f[i] # f[j]
    BY DEF Sorts
<1>2. ASSUME NEW i \in 1..n, NEW j \in 1..n, f[i] = f[j]
      PROVE  i = j
    <2>1. ~ (i < j) /\ ~ (j < i)
        BY <1>1, <1>2
    <2> QED BY <2>1
<1>3. f \in Injection(1..n, 1..n)
    BY <1>1, <1>2 DEF Injection, IsInjective
<1>4. IsFiniteSet(1..n)
    BY FS_Interval
<1>5. f \in Surjection(1..n, 1..n)
    BY <1>3, <1>4, FS_Injection
<1> QED BY <1>2, <1>5 DEF Surjection, OneToOne

\* At least r of the numbers are no larger than q, and fewer than r are smaller.
Counts(n, v, q, r) ==
    LET AtMost == {k \in 1..n : v[k] <= q}
        Below == {k \in 1..n : v[k] < q}
    IN  /\ Cardinality(AtMost) \in Nat /\ Cardinality(AtMost) >= r
        /\ Cardinality(Below) \in Nat /\ Cardinality(Below) <= r - 1
        /\ r = 1 => Below = {}

\* So it is with the number in place r.
LEMMA PlaceCounts ==
    ASSUME NEW n \in Nat, NEW v \in [1..n -> Int], NEW f, Sorts(f, v, n), NEW r \in 1..n
    PROVE  Counts(n, v, v[f[r]], r)
<1> DEFINE q == v[f[r]]
           AtMost == {k \in 1..n : v[k] <= q}
           Below == {k \in 1..n : v[k] < q}
<1>1. /\ f \in [1..n -> 1..n]
      /\ \A i, j \in 1..n : i < j => f[i] # f[j] /\ v[f[i]] <= v[f[j]]
    BY DEF Sorts
<1>2. /\ \A i, j \in 1..n : f[i] = f[j] => i = j
      /\ \A k \in 1..n : \E i \in 1..n : f[i] = k
    <2>1. OneToOne(f, n)
        BY SortedOnto
    <2> QED BY <2>1 DEF OneToOne
<1>3. IsFiniteSet(1..n) /\ q \in Int
    BY <1>1, FS_Interval
<1>4. AtMost \in SUBSET (1..n) /\ Below \in SUBSET (1..n)
    OBVIOUS
<1>5. \A i \in 1..r : i \in 1..n /\ f[i] \in AtMost
    <2> SUFFICES ASSUME NEW i \in 1..r PROVE i \in 1..n /\ f[i] \in AtMost
        OBVIOUS
    <2>1. i \in 1..n /\ (i < r \/ i = r)
        OBVIOUS
    <2>2. f[i] \in 1..n /\ v[f[i]] <= q
        <3>1. f[i] \in 1..n
            BY <1>1, <2>1
        <3>2. CASE i < r
            BY <1>1, <2>1, <3>1, <3>2
        <3>3. CASE i = r
            <4>1. q <= q
                BY <1>3
            <4> QED BY <3>1, <3>3, <4>1
        <3> QED BY <2>1, <3>1, <3>2, <3>3
    <2> QED BY <2>1, <2>2
<1>6. ASSUME NEW k \in Below
      PROVE  \E i \in 1..(r - 1) : f[i] = k
    <2>1. PICK i \in 1..n : f[i] = k
        BY <1>2, <1>4
    <2>2. v[k] < q /\ v[k] \in Int
        BY <1>4
    <2>3. i # r
        <3> SUFFICES ASSUME i = r PROVE FALSE
            OBVIOUS
        <3>1. v[k] = q
            BY <2>1
        <3> QED BY <1>3, <2>2, <3>1
    <2>4. ~ (r < i)
        <3> SUFFICES ASSUME r < i PROVE FALSE
            OBVIOUS
        <3>1. q <= v[k]
            BY <1>1, <2>1
        <3> QED BY <1>3, <2>2, <3>1
    <2>5. i \in 1..(r - 1)
        BY <2>3, <2>4
    <2> QED BY <2>1, <2>5
<1> HIDE DEF q, AtMost, Below
<1>7. IsFiniteSet(AtMost) /\ IsFiniteSet(Below)
    BY <1>3, <1>4, FS_Subset
<1>8. Cardinality(AtMost) \in Nat /\ Cardinality(Below) \in Nat
    BY <1>7, FS_CardinalityType
<1>9. Cardinality(AtMost) >= r
    <2> DEFINE g == [i \in 1..r |-> f[i]]
    <2>1. g \in [1..r -> AtMost] /\ \A i, j \in 1..r : g[i] = g[j] => i = j
        BY <1>2, <1>5
    <2> HIDE DEF g
    <2>2. g \in Injection(1..r, AtMost)
        BY <2>1 DEF Injection, IsInjective
    <2>3. Cardinality(1..r) <= Cardinality(AtMost)
        BY <1>7, <2>2, FS_Injection
    <2>4. Cardinality(1..r) = r
        <3>1. r \in Int /\ 1 \in Int /\ ~ (1 > r) /\ r - 1 + 1 = r
            OBVIOUS
        <3> QED BY <3>1, FS_Interval
    <2> QED BY <1>8, <2>3, <2>4
<1>10. Cardinality(Below) <= r - 1
    <2> DEFINE g == [k \in Below |-> CHOOSE i \in 1..(r - 1) : f[i] = k]
    <2>1. \A k \in Below : g[k] \in 1..(r - 1) /\ f[g[k]] = k
        BY <1>6
    <2>2. g \in [Below -> 1..(r - 1)]
        BY <2>1
    <2> HIDE DEF g
    <2>3. g \in Injection(Below, 1..(r - 1))
        BY <2>1, <2>2 DEF Injection, IsInjective
    <2>4. r - 1 \in Int /\ 1 \in Int /\ (IF 1 > r - 1 THEN 0 ELSE (r - 1) - 1 + 1) = r - 1
        OBVIOUS
    <2> DEFINE s == r - 1
    <2>5. IsFiniteSet(1..s) /\ Cardinality(1..s) = IF 1 > s THEN 0 ELSE s - 1 + 1
        <3>1. s \in Int /\ 1 \in Int
            BY <2>4
        <3> HIDE DEF s
        <3> QED BY <3>1, FS_Interval
    <2>6. Cardinality(Below) <= Cardinality(1..s)
        BY <2>3, <2>5, FS_Injection
    <2> QED BY <2>4, <2>5, <2>6
<1>11. r = 1 => Below = {}
    <2>1. 1..(1 - 1) = {}
        OBVIOUS
    <2> QED BY <1>6, <2>1
<1> QED BY <1>8, <1>9, <1>10, <1>11 DEF Counts, q, AtMost, Below

LEMMA RankIs ==
    ASSUME NEW x \in Nat, NEW l \in Nat, x <= 1000 * l
    PROVE  LET r == (x + 999) \div 1000
           IN  /\ r \in Nat /\ r <= l /\ 1000 * r >= x /\ 1000 * (r - 1) < x
               /\ x > 0 => r >= 1
               /\ x % 1000 = 0 => 1000 * r = x
OBVIOUS

\* A product is rounded up for no percentile at the ends, and only to an integer.
LEMMA RoundedUpIs ==
    ASSUME NEW p, NEW l, <<p, l>> \in RoundedUp
    PROVE  p # 0 /\ p # 1000 /\ (p * l) % 1000 = 0
<1> DEFINE r == <<p, l>>
<1>1. r[1] \notin {0, 1000} /\ (r[1] * r[2]) % 1000 = 0
    <2> HIDE DEF r
    <2> QED BY PercentileAssumption DEF r
<1>2. r[1] = p /\ r[2] = l
    OBVIOUS
<1> HIDE DEF r
<1> QED BY <1>1, <1>2

LEMMA PercentileIs ==
    ASSUME NEW p \in Percentiles
    PROVE  p \in Nat /\ p <= 1000
BY PercentileAssumption

LEMMA ShareIs ==
    ASSUME NEW p \in Nat, p <= 1000, NEW l \in Nat, l > 0
    PROVE  /\ p * l \in Nat /\ p * l <= 1000 * l
           /\ p > 0 => p * l > 0
           /\ p < 1000 => p * l < 1000 * l
<1>1. p \in Nat
    OBVIOUS
<1>2. p * l \in Nat /\ (1000 - p) * l \in Nat
    BY <1>1
<1>3. p * l + (1000 - p) * l = 1000 * l
    BY <1>1
<1>4. p > 0 => p * l > 0
    BY <1>1
<1>5. p < 1000 => (1000 - p) * l > 0
    BY <1>1
<1> QED BY <1>2, <1>3, <1>4, <1>5

\* What std::ceil returns: the nearest rank, or the one after it where the
\* product was rounded up.
LEMMA RankBounds ==
    ASSUME NEW p \in Nat, 0 < p, p <= 1000, Len(samples) \in Nat, Len(samples) > 0
    PROVE  LET l == Len(samples)
               up == <<p, l>> \in RoundedUp
           IN  /\ Rank(p) \in 1..l
               /\ up => 1000 * (Rank(p) - 1) = p * l
               /\ ~ up => 1000 * Rank(p) >= p * l /\ 1000 * (Rank(p) - 1) < p * l
<1> DEFINE l == Len(samples)
           x == p * l
           up == <<p, l>> \in RoundedUp
           r == (x + 999) \div 1000
<1>1. Rank(p) = r + (IF up THEN 1 ELSE 0)
    BY DEF Rank
<1>2. up => p < 1000 /\ x % 1000 = 0
    <2> SUFFICES ASSUME up PROVE p < 1000 /\ x % 1000 = 0
        OBVIOUS
    <2>1. p # 1000 /\ x % 1000 = 0
        BY RoundedUpIs
    <2> HIDE DEF x, l
    <2> QED BY <2>1
<1> HIDE DEF up
<1>3. x \in Nat /\ x <= 1000 * l /\ x > 0 /\ (p < 1000 => x < 1000 * l)
    <2> DEFINE m == Len(samples)
    <2>1. m \in Nat /\ m > 0 /\ l = m
        OBVIOUS
    <2> HIDE DEF m, l
    <2> QED BY <2>1, ShareIs
<1> HIDE DEF x
<1>4. /\ r \in Nat /\ r <= l /\ 1000 * r >= x /\ 1000 * (r - 1) < x /\ r >= 1
      /\ x % 1000 = 0 => 1000 * r = x
    BY <1>3, RankIs
<1> HIDE DEF r, l
<1>5. l \in Nat
    BY DEF l
<1> DEFINE R == Rank(p)
<1> HIDE DEF R
<1>6. /\ R \in 1..l
      /\ up => 1000 * (R - 1) = x
      /\ ~ up => 1000 * R >= x /\ 1000 * (R - 1) < x
    <2>1. CASE up
        <3>1. R = r + 1 /\ 1000 * r = x /\ x < 1000 * l
            BY <1>1, <1>2, <1>3, <1>4, <2>1 DEF R
        <3>2. R \in 1..l /\ R - 1 = r
            BY <1>4, <1>5, <3>1
        <3> QED BY <2>1, <3>1, <3>2
    <2>2. CASE ~ up
        <3>1. R = r
            BY <1>1, <1>4, <2>2 DEF R
        <3> QED BY <1>4, <1>5, <2>2, <3>1
    <2> QED BY <2>1, <2>2
<1>7. /\ R \in 1..l
      /\ up => 1000 * (R - 1) = x
      /\ ~ up => 1000 * R >= x /\ 1000 * (R - 1) < x
    BY <1>6, ZenonT(60)
<1> QED BY <1>7, ZenonT(60) DEF R, l, x, up

LEMMA RankInWindow ==
    ASSUME NEW p \in Nat, 0 < p, p <= 1000, Len(samples) \in Nat, Len(samples) > 0
    PROVE  Rank(p) \in 1..Len(samples)
BY RankBounds, ZenonT(120)

\* The place quantile reads, from 1.
PlaceOf(p) == IF p = 0 THEN 1 ELSE Rank(p)

\* quantile reads the sample in that place.
LEMMA QuantileIs ==
    ASSUME TypeOK, samples # << >>, NEW p \in Nat, p <= 1000
    PROVE  LET l == Len(samples)
               v == [k \in 1..l |-> samples[k].value]
           IN  /\ l \in Nat /\ l > 0 /\ v \in [1..l -> Int] /\ Sorts(sorted, v, l)
               /\ PlaceOf(p) \in 1..l /\ quantile(p) = v[sorted[PlaceOf(p)]]
<1> DEFINE l == Len(samples)
           v == [k \in 1..l |-> samples[k].value]
           r == PlaceOf(p)
           R == Rank(p)
<1>1. samples \in Seq(WindowSample) /\ l \in Nat /\ l > 0
    <2>1. samples \in Seq(WindowSample)
        BY DEF TypeOK
    <2>2. l \in Nat /\ l # 0
        BY <2>1, LenProperties, EmptySeq
    <2> QED BY <2>1, <2>2
<1>2. v \in [1..l -> Int]
    <2>1. \A k \in 1..l : samples[k] \in WindowSample
        BY <1>1, ElementOfSeq
    <2> QED BY <2>1, WindowAssumption DEF WindowSample
<1>3. Sorts(sorted, v, l)
    <2>1. \A k \in 1..l : place(k) = Cardinality(UpTo(k, v, l))
        <3> SUFFICES ASSUME NEW k \in 1..l
                     PROVE  place(k) = Cardinality(UpTo(k, v, l))
            OBVIOUS
        <3>1. UpTo(k, v, l) = {j \in 1..l :
                  \/ samples[j].value < samples[k].value
                  \/ samples[j].value = samples[k].value /\ j <= k}
            BY DEF UpTo
        <3>2. place(k) = Cardinality({j \in 1..l :
                  \/ samples[j].value < samples[k].value
                  \/ samples[j].value = samples[k].value /\ j <= k})
            BY DEF place
        <3> QED BY <3>1, <3>2, ZenonT(60)
    <2>2. sorted = [i \in 1..l |-> CHOOSE k \in 1..l : place(k) = i]
        BY DEF sorted
    <2> DEFINE s == [i \in 1..l |-> CHOOSE k \in 1..l : Cardinality(UpTo(k, v, l)) = i]
    <2>3. \A i \in 1..l : (CHOOSE k \in 1..l : place(k) = i)
                        = (CHOOSE k \in 1..l : Cardinality(UpTo(k, v, l)) = i)
        <3> HIDE DEF l, v
        <3> QED BY <2>1
    <2>4. sorted = s
        <3> DEFINE A(i) == CHOOSE k \in 1..l : place(k) = i
                   B(i) == CHOOSE k \in 1..l : Cardinality(UpTo(k, v, l)) = i
        <3>1. /\ sorted = [i \in 1..l |-> A(i)] /\ s = [i \in 1..l |-> B(i)]
              /\ \A i \in 1..l : A(i) = B(i)
            <4> HIDE DEF l, v
            <4> QED BY <2>2, <2>3
        <3> HIDE DEF A, B, s, l
        <3> QED BY <3>1
    <2>5. Sorts(s, v, l)
        <3> HIDE DEF l, v
        <3> QED BY <1>1, <1>2, Sorted
    <2> QED BY <2>4, <2>5
<1>4. p > 0 => R \in 1..l
    <2> SUFFICES ASSUME p > 0 PROVE R \in 1..l
        OBVIOUS
    <2>1. 0 < p /\ Len(samples) \in Nat /\ Len(samples) > 0
        BY <1>1
    <2> QED BY <2>1, RankInWindow
<1>5. r \in 1..l /\ r = (IF p <= 0 THEN 1 ELSE R)
    <2>1. (p = 0 <=> p <= 0) /\ (~ (p <= 0) => p > 0)
        OBVIOUS
    <2>2. r = IF p = 0 THEN 1 ELSE R
        BY DEF PlaceOf
    <2> HIDE DEF l, r, R
    <2> QED BY <1>1, <1>4, <2>1, <2>2
<1>6. quantile(p) = v[sorted[r]]
    <2> DEFINE idx == IF p <= 0 THEN 0 ELSE (IF R < 1 THEN 1 ELSE R) - 1
               last == IF idx >= l THEN l - 1 ELSE idx
    <2>1. quantile(p) = samples[sorted[last + 1]].value
        BY DEF quantile
    <2>2. last + 1 = r
        <3>1. ~ (p <= 0) => R \in 1..l
            BY <1>4
        <3> HIDE DEF l, R, r
        <3>2. CASE p <= 0
            <4>1. idx = 0 /\ r = 1
                BY <1>5, <3>2
            <4> QED BY <1>1, <4>1
        <3>3. CASE ~ (p <= 0)
            <4>1. R \in 1..l /\ r = R
                BY <1>5, <3>1, <3>3
            <4>2. idx = R - 1
                BY <1>1, <3>3, <4>1
            <4> HIDE DEF idx
            <4>3. last = R - 1
                BY <1>1, <4>1, <4>2
            <4> HIDE DEF last
            <4> QED BY <1>1, <4>1, <4>3
        <3> QED BY <3>2, <3>3
    <2>3. sorted[r] \in 1..l
        BY <1>3, <1>5 DEF Sorts
    <2> HIDE DEF last, r, l
    <2> QED BY <2>1, <2>2, <2>3
<1> QED BY <1>1, <1>2, <1>3, <1>5, <1>6

\* The extremes of the window are the first and the last place.
LEMMA Extremes ==
    ASSUME NEW n \in Nat, NEW v \in [1..n -> Int], NEW f, Sorts(f, v, n), n > 0
    PROVE  /\ f[1] \in 1..n /\ f[n] \in 1..n
           /\ \A k \in 1..n : v[f[1]] <= v[k] /\ v[k] <= v[f[n]]
<1>1. /\ f \in [1..n -> 1..n]
      /\ \A i, j \in 1..n : i < j => v[f[i]] <= v[f[j]]
    BY DEF Sorts
<1>2. 1 \in 1..n /\ n \in 1..n
    OBVIOUS
<1>3. f[1] \in 1..n /\ f[n] \in 1..n
    BY <1>1, <1>2
<1>4. ASSUME NEW k \in 1..n
      PROVE  v[f[1]] <= v[k] /\ v[k] <= v[f[n]]
    <2>1. OneToOne(f, n)
        BY SortedOnto
    <2>2. PICK i \in 1..n : f[i] = k
        BY <2>1 DEF OneToOne
    <2>3. v[k] \in Int /\ v[k] <= v[k]
        OBVIOUS
    <2>4. (1 = i \/ 1 < i) /\ (i = n \/ i < n)
        BY <2>2
    <2>5. v[f[1]] <= v[f[i]]
        BY <1>1, <1>2, <2>2, <2>3, <2>4
    <2>6. v[f[i]] <= v[f[n]]
        BY <1>1, <1>2, <2>2, <2>3, <2>4
    <2> QED BY <2>2, <2>5, <2>6
<1> QED BY <1>3, <1>4

LEMMA QuantileHolds == TypeOK => QuantileWithinOneRank
<1> SUFFICES ASSUME TypeOK, samples # << >>
             PROVE  /\ quantile(0) = window_min /\ quantile(1000) = window_max
                    /\ \A p \in Percentiles :
                        LET n == Len(samples)
                            q == quantile(p)
                            AtMost == {k \in 1..n : samples[k].value <= q}
                            Below == {k \in 1..n : samples[k].value < q}
                        IN  IF <<p, n>> \in RoundedUp
                            THEN /\ 1000 * Cardinality(AtMost) >= p * n + 1000
                                 /\ 1000 * Cardinality(Below) <= p * n
                            ELSE /\ 1000 * Cardinality(AtMost) >= p * n
                                 /\ Below = {} \/ 1000 * Cardinality(Below) < p * n
    BY DEF QuantileWithinOneRank
<1> DEFINE l == Len(samples)
           v == [k \in 1..l |-> samples[k].value]
<1>1. \A p \in Nat : p <= 1000 => PlaceOf(p) \in 1..l /\ quantile(p) = v[sorted[PlaceOf(p)]]
    BY QuantileIs
<1>2. l \in Nat /\ l > 0 /\ v \in [1..l -> Int] /\ Sorts(sorted, v, l)
    <2>1. 0 \in Nat /\ 0 <= 1000
        OBVIOUS
    <2> QED BY <2>1, QuantileIs
<1>3. \A k \in 1..l : v[k] = samples[k].value
    OBVIOUS
<1>4. PlaceOf(0) = 1 /\ PlaceOf(1000) = l
    <2>1. PlaceOf(0) = 1 /\ PlaceOf(1000) = Rank(1000)
        BY DEF PlaceOf
    <2>2. <<1000, l>> \notin RoundedUp
        BY RoundedUpIs
    <2>3. Rank(1000) \in 1..l /\ 1000 * Rank(1000) >= 1000 * l
        <3>1. 1000 \in Nat /\ 0 < 1000 /\ 1000 <= 1000
            OBVIOUS
        <3> QED BY <1>2, <2>2, <3>1, RankBounds
    <2> DEFINE R == Rank(1000)
    <2> HIDE DEF l, R
    <2>4. R = l
        BY <1>2, <2>3 DEF R
    <2> QED BY <2>1, <2>4 DEF R
<1>5. /\ HeldValues = {v[k] : k \in 1..l}
      /\ window_min = CHOOSE x \in HeldValues : \A u \in HeldValues : x <= u
      /\ window_max = CHOOSE x \in HeldValues : \A u \in HeldValues : x >= u
    BY DEF HeldValues, window_min, window_max
<1> HIDE DEF l, v
<1>7. /\ sorted[1] \in 1..l /\ sorted[l] \in 1..l
      /\ \A k \in 1..l : v[sorted[1]] <= v[k] /\ v[k] <= v[sorted[l]]
    BY <1>2, Extremes, SMTT(30)
<1>8. quantile(0) = v[sorted[1]] /\ quantile(1000) = v[sorted[l]]
    <2>1. 0 \in Nat /\ 0 <= 1000 /\ 1000 \in Nat /\ 1000 <= 1000
        OBVIOUS
    <2> HIDE DEF v
    <2> QED BY <1>1, <1>4, <2>1
<1>9. quantile(0) = window_min
    <2> DEFINE x == v[sorted[1]]
               Min(y) == \A u \in HeldValues : y <= u
    <2>1. x \in HeldValues /\ Min(x) /\ HeldValues \subseteq Int
        BY <1>2, <1>5, <1>7
    <2>2. ASSUME NEW y \in HeldValues, Min(y)
          PROVE  y = x
        <3>1. y <= x /\ x <= y
            BY <2>1, <2>2
        <3> HIDE DEF x
        <3> QED BY <2>1, <3>1
    <2>3. window_min = CHOOSE y \in HeldValues : Min(y)
        BY <1>5
    <2> HIDE DEF Min, x
    <2>4. window_min = x
        BY <2>1, <2>2, <2>3
    <2> QED BY <1>8, <2>4 DEF x
<1>10. quantile(1000) = window_max
    <2> DEFINE x == v[sorted[l]]
               Max(y) == \A u \in HeldValues : y >= u
    <2>1. x \in HeldValues /\ Max(x) /\ HeldValues \subseteq Int
        BY <1>2, <1>5, <1>7
    <2>2. ASSUME NEW y \in HeldValues, Max(y)
          PROVE  y = x
        <3>1. y >= x /\ x >= y
            BY <2>1, <2>2
        <3> HIDE DEF x
        <3> QED BY <2>1, <3>1
    <2>3. window_max = CHOOSE y \in HeldValues : Max(y)
        BY <1>5
    <2> HIDE DEF Max, x
    <2>4. window_max = x
        BY <2>1, <2>2, <2>3
    <2> QED BY <1>8, <2>4 DEF x
<1>11. ASSUME NEW p \in Percentiles
       PROVE  LET q == quantile(p)
                  AtMost == {k \in 1..l : samples[k].value <= q}
                  Below == {k \in 1..l : samples[k].value < q}
              IN  IF <<p, l>> \in RoundedUp
                  THEN /\ 1000 * Cardinality(AtMost) >= p * l + 1000
                       /\ 1000 * Cardinality(Below) <= p * l
                  ELSE /\ 1000 * Cardinality(AtMost) >= p * l
                       /\ Below = {} \/ 1000 * Cardinality(Below) < p * l
    <2> DEFINE q == quantile(p)
               AtMost == {k \in 1..l : samples[k].value <= q}
               Below == {k \in 1..l : samples[k].value < q}
               r == PlaceOf(p)
               a == Cardinality(AtMost)
               b == Cardinality(Below)
               x == p * l
               up == <<p, l>> \in RoundedUp
    <2>1. p \in Nat /\ p <= 1000
        BY PercentileIs
    <2>2. r \in 1..l /\ q = v[sorted[r]]
        BY <1>1, <2>1
    <2>3. AtMost = {k \in 1..l : v[k] <= q} /\ Below = {k \in 1..l : v[k] < q}
        BY <1>3
    <2>4. a \in Nat /\ a >= r /\ b \in Nat /\ b <= r - 1 /\ (r = 1 => Below = {})
        <3> HIDE DEF r
        <3>1. Counts(l, v, v[sorted[r]], r)
            BY <1>2, <2>2, PlaceCounts
        <3>2. Counts(l, v, q, r)
            BY <2>2, <3>1
        <3> HIDE DEF q
        <3> QED BY <2>3, <3>2 DEF Counts
    <2>5. x \in Nat
        BY <1>2, <2>1, ShareIs
    <2>6. CASE p = 0
        <3>1. ~ up
            BY <2>6, RoundedUpIs
        <3>2. x = 0 /\ Below = {}
            BY <1>2, <1>4, <2>4, <2>6
        <3> HIDE DEF q, AtMost, Below, r, a, b, x, up
        <3>3. 1000 * a >= x
            BY <2>4, <3>2
        <3> QED BY <3>1, <3>2, <3>3 DEF q, AtMost, Below, a, b, x, up
    <2>7. CASE p # 0
        <3>1. r = Rank(p) /\ 0 < p
            BY <2>1, <2>7 DEF PlaceOf
        <3>2. /\ up => 1000 * (r - 1) = x
              /\ ~ up => 1000 * r >= x /\ 1000 * (r - 1) < x
            <4>1. Len(samples) \in Nat /\ Len(samples) > 0
                BY <1>2 DEF l
            <4> HIDE DEF x, up, r
            <4>2. /\ up => 1000 * (Rank(p) - 1) = x
                  /\ ~ up => 1000 * Rank(p) >= x /\ 1000 * (Rank(p) - 1) < x
                BY <2>1, <3>1, <4>1, RankBounds DEF l, x, up
            <4> QED BY <3>1, <4>2
        <3> HIDE DEF q, AtMost, Below, r, a, b, x, up
        <3>3. r \in Nat
            BY <1>2, <2>2
        <3>4. CASE up
            <4>1. 1000 * a >= x + 1000 /\ 1000 * b <= x
                BY <2>4, <2>5, <3>2, <3>3, <3>4
            <4> QED BY <3>4, <4>1 DEF q, AtMost, Below, a, b, x, up
        <3>5. CASE ~ up
            <4>1. 1000 * a >= x /\ 1000 * b < x
                BY <2>4, <2>5, <3>2, <3>3, <3>5
            <4> QED BY <3>5, <4>1 DEF q, AtMost, Below, a, b, x, up
        <3> QED BY <3>4, <3>5
    <2> QED BY <2>6, <2>7
<1> QED BY <1>9, <1>10, <1>11 DEF l

(***************************************************************************)
(* quantile returns the nearest rank, or the one after it where the        *)
(* product of doubles was rounded up, and at its ends what min and max     *)
(* return, for any number of samples, any values and any percentile in     *)
(* thousandths.  It needs no more of the state than its types; what it     *)
(* rests on is that every window can be sorted, and that the product is    *)
(* rounded across an integer nowhere else.                                 *)
(***************************************************************************)
THEOREM QuantileIsWithinOneRank == Spec => []QuantileWithinOneRank
<1>1. WindowInv => QuantileWithinOneRank
    BY QuantileHolds DEF WindowInv
<1> QED BY <1>1, WindowInvariant, PTL
=============================================================================
