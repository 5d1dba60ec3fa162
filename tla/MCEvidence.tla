----------------------------- MODULE MCEvidence -----------------------------
(***************************************************************************)
(* A small instance of Evidence, in three parts: the accounts of an        *)
(* availability and of a cost objective, the budget of one objective, and  *)
(* the recovery of one.  A behaviour is about one of them throughout; each *)
(* has redefinitions, evaluations, saves, loads and crashes.               *)
(***************************************************************************)
EXTENDS Evidence

CONSTANTS oa, oc

VARIABLE part \* what the behaviour is about

mcvars == <<vars, part>>

Both == [o \in ObjectiveId |-> IF o = oa THEN "Availability" ELSE "Cost"]

Record(id, o, g, ep, dim, unit, time, value, count) ==
    [id |-> id, objective_id |-> o, objective_gen |-> g, epoch |-> ep,
     dimension |-> dim, unit |-> unit, time |-> time, value |-> value,
     sample_count |-> count]

\* Availability of which 28 units of 100 are served by the doubles and 29 by
\* the numbers; some of one generation and epoch, in the other unit and below
\* zero; some above the whole, with a count below zero; some in a unit that
\* does not fit; charges that may arrive in any order.
AccountRecords ==
    {Record(1, oa, 0, 0, "Availability", "BasisPoints", 0, 2900, 100),
     Record(2, oa, 1, 1, "Availability", "Percent", 0, -1, 2),
     Record(3, oa, 0, 0, "Availability", "BasisPoints", 0, 20001, -3),
     Record(4, oc, 0, 0, "Cost", "CurrencyMicros", 0, 1, 1),
     Record(5, oc, 0, 0, "Cost", "CurrencyMicros", 1, -1, 1),
     Record(6, oc, 0, 0, "Cost", "CurrencyMicros", 2, 1, 1),
     Record(7, oc, 0, 0, "Availability", "BasisPoints", 0, 1, 1)}

ShortIn29OfHundred == {<<2900, 100>>}

About(p) == part = p

MCInit == Init /\ part \in {"accounts", "budget", "recovery"}

MCNext ==
    /\ UNCHANGED part
    /\ \/ About("accounts") /\ \/ \E o \in ObjectiveId, g \in 0..1 : define(o, g)
                               \/ \E e \in Records : ingest(e)
       \/ \E g \in 0..MaxGen : ~ About("accounts") /\ define(oa, g)
       \/ About("budget") /\ \/ \E total \in Totals : set_objective_budget(oa, total)
                             \/ ingest_violation_event(oa)
       \/ About("recovery") /\ \E phase \in Phases : record_recovery_event(oa, phase)
       \/ ~ About("accounts") /\ (tick \/ evaluate)
       \/ save \/ load \/ crash

MCSpec == MCInit /\ [][MCNext]_mcvars
=============================================================================
