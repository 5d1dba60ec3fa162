--------------------------- MODULE MCSampleWindow ---------------------------
(***************************************************************************)
(* Small instances of SampleWindow, and one window that is filled further. *)
(***************************************************************************)
EXTENDS SampleWindow

\* Of the percentiles and the numbers of samples below, these have a product of
\* doubles above the integer (found by computing all of them).
RoundedUpTo25 == {<<280, 25>>, <<560, 25>>}

CONSTANT LongWindow  \* bound: samples of the filled window

\* One tumbling window takes samples with ascending values, until the rank of
\* a percentile is rounded up.
Fill ==
    LET n == Len(log)
    IN  /\ type = "Tumbling"
        /\ interval > 0
        /\ n < LongWindow
        /\ last_seq = n /\ last_time = 0
        /\ \E value \in Values :
              /\ \A k \in 1..n : log[k].value <= value
              /\ ingest(0, value, n + 1)

MCSpec == Init /\ [][Next \/ Fill]_vars
=============================================================================
