---------------------------- MODULE MCEvaluation ----------------------------
(***************************************************************************)
(* Small instances of Evaluation: contracts of two or three objectives.    *)
(***************************************************************************)
EXTENDS Evaluation, TLC

CONSTANTS o1, o2, o3

\* A hard latency objective without thresholds, always current.
Latency ==
    [dim |-> "Latency", per_window |-> FALSE, comparison |-> "AtMost", hard |-> TRUE,
     enforcement |-> "Authorized", target |-> 2, breach_threshold |-> None,
     recovery_threshold |-> None, cap |-> 0, min_evidence |-> 1,
     freshness_ttl |-> 0, window_duration |-> 0, priority |-> 0, name |-> 1]

Throughput == [Latency EXCEPT !.dim = "Throughput", !.comparison = "AtLeast",
                              !.name = 2]

\* Breach above 2, recovery at 1.
Memory == [Latency EXCEPT !.dim = "MemoryPressure", !.breach_threshold = 2,
                          !.recovery_threshold = 1, !.name = 3]

\* Three objectives: with thresholds, a soft one with a physical maximum, and
\* one that is satisfied without evidence.
OrderDef ==
    (o1 :> Memory)
    @@ (o2 :> [Throughput EXCEPT !.dim = "Availability", !.cap = 3,
                                 !.hard = FALSE])
    @@ (o3 :> [Latency EXCEPT !.dim = "RecoveryTime", !.priority = 1])

\* Evidence that ages: by a time to live, by the window; two samples needed.
\* Nothing is enforced.
AgeingDef ==
    (o1 :> [Memory EXCEPT !.freshness_ttl = 1, !.enforcement = "None"])
    @@ (o2 :> [Throughput EXCEPT !.window_duration = 1, !.min_evidence = 2,
                                 !.enforcement = "None"])

\* Every combination of values at one moment; and evidence over time.
Order ==
    [objectives |-> <<o1, o2, o3>>, def |-> OrderDef, budgeted |-> {o1},
     sizes |-> {1}, values |-> 1..3, max_skew |-> 0, max_time |-> 0, max_restarts |-> 0]

Ageing ==
    [objectives |-> <<o1, o2>>, def |-> AgeingDef, budgeted |-> {},
     sizes |-> {1, 2}, values |-> {1, 3}, max_skew |-> 1, max_time |-> 2,
     max_restarts |-> 1]

OrderAndAgeing == {Order, Ageing}
=============================================================================
