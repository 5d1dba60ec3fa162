---------------------------- MODULE SampleWindow ----------------------------
(***************************************************************************)
(* The evaluation window of one objective (sample_window.hpp): a deque of  *)
(* samples that the five window types evict in different ways.  The        *)
(* constructor's arguments are chosen in Init.  Times are not negative and *)
(* a value is one the accumulator can have parsed: a number, or NaN.       *)
(*                                                                         *)
(* The QuantileStore the class also fills is never read and is left out.   *)
(***************************************************************************)
EXTENDS Integers, Sequences, FiniteSets

CONSTANTS
    WindowType,   \* a subset of Types
    Intervals,    \* the durations a window may be built with
    Capacity,     \* capacity_
    Values,       \* sample values
    NaN,          \* stands for the values ingest refuses
    Percentiles,  \* the percentiles asked for, in thousandths
    RoundedUp,    \* the <<p, n>> whose product, in doubles, is above the integer
                  \* it stands for
    MaxTime,      \* bound: sample times
    MaxSeq        \* bound: sequence numbers

Bucketed == {"Tumbling", "FixedInterval"}
Types == {"Instantaneous", "Sliding", "RollingCount"} \cup Bucketed
IngestStatus == {"Accepted", "Duplicate", "Rollback", "Late", "Invalid"}
WindowSample == [time : Nat, value : Values, seq : Nat]

ASSUME WindowAssumption ==
    /\ WindowType \subseteq Types
    /\ Intervals \subseteq Nat
    /\ Capacity \in Nat \ {0}
    /\ Values \subseteq Int
    /\ NaN \notin Values
    /\ MaxTime \in Nat
    /\ MaxSeq \in Nat

(***************************************************************************)
(* A percentile is a double next to p / 1000 and its product with n is     *)
(* rounded again, by less than 1 / 1000 for any n a deque can hold.  So    *)
(* the product can be on the wrong side of an integer only where p * n /   *)
(* 1000 is that integer, and p = 0 and p = 1000 are exact: 0.28 * 25 is    *)
(* 7.000000000000001.                                                      *)
(***************************************************************************)
ASSUME PercentileAssumption ==
    /\ Percentiles \subseteq 0..1000
    /\ RoundedUp \subseteq Nat \X Nat
    /\ \A r \in RoundedUp : r[1] \notin {0, 1000} /\ (r[1] * r[2]) % 1000 = 0

VARIABLES
    type, interval,
    samples, last_time, last_seq, bucket_start, has_bucket,
    status,       \* what the last ingest returned
    log           \* history: every sample accepted since the last reset

vars == <<type, interval, samples, last_time, last_seq, bucket_start,
          has_bucket, status, log>>

Init ==
    /\ type \in WindowType
    /\ interval \in Intervals
    /\ samples = << >>
    /\ last_time = 0
    /\ last_seq = 0
    /\ bucket_start = 0
    /\ has_bucket = FALSE
    /\ status = "Accepted"
    /\ log = << >>

reset ==
    /\ samples' = << >>
    /\ last_time' = 0
    /\ last_seq' = 0
    /\ bucket_start' = 0
    /\ has_bucket' = FALSE
    /\ log' = << >>
    /\ UNCHANGED <<type, interval, status>>

\* The sequence s without its first n samples.
Drop(s, n) == SubSeq(s, n + 1, Len(s))

evict_to_capacity(s) ==
    IF Len(s) > Capacity THEN Drop(s, Len(s) - Capacity) ELSE s

\* Mutant: a sample of exactly the interval's age stays.
evict_by_age_inclusive(s, now) ==
    LET Old(k) == interval > 0 /\ now - s[k].time > interval
    IN  Drop(s, CHOOSE n \in 0..Len(s) :
                   /\ \A k \in 1..n : Old(k)
                   /\ n < Len(s) => ~ Old(n + 1))

\* Samples leave from the front until one is young enough.
evict_by_age(s, now) ==
    LET Old(k) == interval > 0 /\ now - s[k].time >= interval
    IN  Drop(s, CHOOSE n \in 0..Len(s) :
                   /\ \A k \in 1..n : Old(k)
                   /\ n < Len(s) => ~ Old(n + 1))

bucket(time) == time \div interval

rejected(why) ==
    /\ status' = why
    /\ UNCHANGED <<type, interval, samples, last_time, bucket_start,
                   has_bucket, log>>

\* The sample w is taken in and the window holds s afterwards.
accepted(w, s) ==
    /\ status' = "Accepted"
    /\ samples' = s
    /\ log' = Append(log, w)
    /\ last_time' = w.time
    /\ last_seq' = w.seq
    /\ has_bucket' = TRUE
    /\ UNCHANGED <<type, interval>>

first(w) ==
    /\ accepted(w, Append(samples, w))
    /\ bucket_start' = w.time

unbucketed(w) ==
    /\ accepted(w, CASE type = "Instantaneous" -> <<w>>
                     [] type = "Sliding" ->
                           evict_to_capacity(evict_by_age(Append(samples, w), w.time))
                     [] type = "RollingCount" -> evict_to_capacity(Append(samples, w)))
    /\ UNCHANGED bucket_start

\* A sample of a bucket that has passed is refused but moves last_time; one of
\* a later bucket closes the current bucket.
bucketed(w) ==
    LET b == bucket(w.time)
        start == bucket(bucket_start)
    IN  IF b < start
        THEN /\ status' = "Late"
             /\ last_time' = w.time
             /\ last_seq' = w.seq
             /\ UNCHANGED <<type, interval, samples, bucket_start, has_bucket, log>>
        ELSE /\ accepted(w, Append(IF b > start THEN << >> ELSE samples, w))
             /\ bucket_start' = IF b > start THEN b * interval ELSE bucket_start

\* Mutant: only the start of the bucket is compared.
rolled_back_past_bucket(time) == time < bucket_start

rolled_back(time) == time < last_time

ingest(time, value, seq) ==
    LET w == [time |-> time, value |-> value, seq |-> seq]
    IN  \/ /\ value = NaN
           /\ rejected("Invalid")
           /\ UNCHANGED last_seq
        \/ /\ value # NaN
           /\ seq <= last_seq
           /\ rejected("Duplicate")
           /\ UNCHANGED last_seq
        \/ /\ value # NaN
           /\ seq > last_seq
           /\ \/ ~ has_bucket /\ first(w)
              \/ /\ has_bucket
                 /\ rolled_back(time)
                 /\ rejected("Rollback")
                 /\ UNCHANGED last_seq
              \/ /\ has_bucket
                 /\ ~ rolled_back(time)
                 /\ \/ type \notin Bucketed /\ unbucketed(w)
                    \/ /\ type \in Bucketed
                       /\ interval <= 0
                       /\ rejected("Invalid")
                       /\ last_seq' = seq
                    \/ type \in Bucketed /\ interval > 0 /\ bucketed(w)

Next ==
    \/ reset
    \/ \E time \in 0..MaxTime, value \in Values \cup {NaN}, seq \in 0..MaxSeq :
          ingest(time, value, seq)

Spec == Init /\ [][Next]_vars

-----------------------------------------------------------------------------
(* Percentiles *)

\* Mutant: the rank is rounded down.
Rank_floor(p) == (p * Len(samples)) \div 1000

\* std::ceil of the product as it was rounded.
Rank(p) ==
    LET n == Len(samples)
    IN  (p * n + 999) \div 1000 + (IF <<p, n>> \in RoundedUp THEN 1 ELSE 0)

\* std::sort: the place of sample k in ascending order of the values, and the
\* sample in each place.  Which of equal values comes first makes no difference.
place(k) ==
    Cardinality({j \in 1..Len(samples) :
        \/ samples[j].value < samples[k].value
        \/ samples[j].value = samples[k].value /\ j <= k})

sorted == [i \in 1..Len(samples) |-> CHOOSE k \in 1..Len(samples) : place(k) = i]

\* The rank-th smallest sample of the window.
quantile(p) ==
    LET idx == IF p <= 0 THEN 0
               ELSE (IF Rank(p) < 1 THEN 1 ELSE Rank(p)) - 1
        last == IF idx >= Len(samples) THEN Len(samples) - 1 ELSE idx
    IN  IF samples = << >> THEN 0 ELSE samples[sorted[last + 1]].value

\* The extremes, which deadlines and memory objectives are judged by; 0 when
\* there is no sample.
HeldValues == {samples[k].value : k \in 1..Len(samples)}
window_min == IF samples = << >> THEN 0
              ELSE CHOOSE v \in HeldValues : \A u \in HeldValues : v <= u
window_max == IF samples = << >> THEN 0
              ELSE CHOOSE v \in HeldValues : \A u \in HeldValues : v >= u

-----------------------------------------------------------------------------
(* Properties *)

\* The types of the variables.
TypeOK ==
    /\ type \in WindowType
    /\ interval \in Intervals
    /\ samples \in Seq(WindowSample)
    /\ last_time \in Nat
    /\ last_seq \in Nat
    /\ bucket_start \in Nat
    /\ has_bucket \in BOOLEAN
    /\ status \in IngestStatus
    /\ log \in Seq(WindowSample)

(***************************************************************************)
(* ingest: the samples a window has accepted since its last reset are in   *)
(* time order and no sequence number occurs twice, although a rejected     *)
(* sample may move last_seq and a reset moves the clock back to zero.      *)
(***************************************************************************)
ArrivalOrder ==
    \A j, k \in 1..Len(log) : j < k => /\ log[j].time <= log[k].time
                                       /\ log[j].seq < log[k].seq

\* Sample k of the log belongs to the window, by the window's definition.
Belongs(k) ==
    LET newest == log[Len(log)]
        Recent == Len(log) - k < Capacity
    IN  CASE type = "Instantaneous" -> k = Len(log)
          [] type = "RollingCount" -> Recent
          [] type = "Sliding" ->
                Recent /\ (interval > 0 => newest.time - log[k].time < interval)
          [] type \in Bucketed ->
                interval > 0 => bucket(log[k].time) = bucket(newest.time)

(***************************************************************************)
(* The samples held are exactly those the definition of the window type    *)
(* selects from everything accepted: eviction drops no sample too early    *)
(* and keeps none too long, whatever was rejected in between.              *)
(***************************************************************************)
WindowExact ==
    \E n \in 0..Len(log) :
        /\ samples = Drop(log, n)
        /\ \A k \in 1..Len(log) : Belongs(k) <=> k > n

(***************************************************************************)
(* quantile: the value returned for percentile p is the nearest-rank one:  *)
(* at least p of the samples held are no larger, and fewer are smaller     *)
(* (for p = 0, none is).  Only where the product was rounded up is it the  *)
(* one after that, of which as many as p may be smaller.  It agrees at its *)
(* ends with min and max, which the code computes apart from it.           *)
(***************************************************************************)
QuantileWithinOneRank ==
    samples # << >> =>
        /\ quantile(0) = window_min /\ quantile(1000) = window_max
        /\ \A p \in Percentiles :
            LET n == Len(samples)
                q == quantile(p)
                AtMost == {k \in 1..n : samples[k].value <= q}
                Below == {k \in 1..n : samples[k].value < q}
            IN  IF <<p, n>> \in RoundedUp
                THEN /\ 1000 * Cardinality(AtMost) >= p * n + 1000
                     /\ 1000 * Cardinality(Below) <= p * n
                ELSE /\ 1000 * Cardinality(AtMost) >= p * n
                     /\ Below = {} \/ 1000 * Cardinality(Below) < p * n
=============================================================================
