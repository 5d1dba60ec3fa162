----------------------------- MODULE Evaluation -----------------------------
(***************************************************************************)
(* The verdict of SloFabric::evaluate (fabric.cpp) for one contract: how   *)
(* fresh the evidence of an objective is, the state it puts the objective  *)
(* in, which objective binds, and the action the intent asks for.          *)
(*                                                                         *)
(* What an accumulator holds of its evidence is abstracted to how much     *)
(* there is, the value an evaluation computes from it and the time of the  *)
(* latest record; how it gets there is the subject of modules SampleWindow *)
(* and Evidence.  Values are naturals, so the code's epsilon of 1e-9 is    *)
(* below their resolution.                                                 *)
(***************************************************************************)
EXTENDS Integers, Sequences, FiniteSets

CONSTANTS
    Scenarios,    \* the contracts that may be evaluated
    None,
    Cooldown      \* the cooldown of an intent, five seconds in the code

Objective ==
    [dim : {"Latency", "Availability", "Throughput", "RecoveryTime",
            "MemoryPressure", "Cost"},
     per_window : BOOLEAN,   \* of a cost: CostWindowBudget, not per request
     comparison : {"AtMost", "AtLeast"},
     hard : BOOLEAN,
     enforcement : {"None", "Advisory", "Authorized", "Mandatory"},
     target : Nat, breach_threshold : Nat \cup {None},
     recovery_threshold : Nat \cup {None}, cap : Nat,
     min_evidence : Nat, freshness_ttl : Nat, window_duration : Nat,
     priority : Nat, name : Nat]

ComplianceState ==
    {"Compliant", "NearLimit", "AtRisk", "Violating", "Recovering",
     "InsufficientEvidence", "RevalidationRequired", "Suspended"}

\* A contract: its objectives in their order, the definition of each and those
\* that have a budget; what may be observed, how far it may be dated ahead of
\* the clock; and the bounds of the clock and of the loads.
ASSUME ScenariosAssumption ==
    \A s \in Scenarios :
        LET ids == {s.objectives[k] : k \in 1..Len(s.objectives)}
        IN  /\ s.objectives \in Seq(ids) \ {<< >>}
            /\ Cardinality(ids) = Len(s.objectives)
            /\ s.def \in [ids -> Objective]
            /\ s.budgeted \subseteq ids
            /\ s.sizes \subseteq Nat \ {0}
            /\ s.values \subseteq Nat
            /\ {s.max_skew, s.max_time, s.max_restarts} \subseteq Nat
            /\ None \notin ids
ASSUME CooldownAssumption == Cooldown \in Nat /\ None \notin Nat

VARIABLES
    contract,       \* the contract under evaluation; it does not change
    now,
    obs,            \* what each accumulator holds of its evidence
    exhausted,      \* the objectives whose budget is exhausted
    last_state, cooldown_until,
    verdict,        \* what the last evaluation returned, or None
    file,           \* what save wrote of all this, or None
    restarts        \* history: loads

vars == <<contract, now, obs, exhausted, last_state, cooldown_until, verdict,
          file, restarts>>

Objectives == contract.objectives
Def == contract.def
ObjectiveId == DOMAIN Def

NoEvidence == [size |-> 0, value |-> 0, latest |-> 0]

Init ==
    /\ contract \in Scenarios
    /\ now = 0
    /\ obs = [o \in ObjectiveId |-> NoEvidence]
    /\ exhausted = {}
    /\ last_state = [o \in ObjectiveId |-> "InsufficientEvidence"]
    /\ cooldown_until = [o \in ObjectiveId |-> 0]
    /\ verdict = None
    /\ file = None
    /\ restarts = 0

tick ==
    /\ now < contract.max_time
    /\ now' = now + 1
    /\ UNCHANGED <<contract, obs, exhausted, last_state, cooldown_until, verdict, file, restarts>>

\* Evidence of an objective is taken in.  It may be dated ahead of the clock.
observe(o, size, value, time) ==
    /\ time >= obs[o].latest
    /\ obs' = [obs EXCEPT ![o] = [size |-> size, value |-> value, latest |-> time]]
    /\ UNCHANGED <<contract, now, exhausted, last_state, cooldown_until, verdict, file, restarts>>

\* The budget of an objective is used up, or replenished.
budget_changes(o) ==
    /\ o \in contract.budgeted
    /\ exhausted' = IF o \in exhausted THEN exhausted \ {o} ELSE exhausted \cup {o}
    /\ UNCHANGED <<contract, now, obs, last_state, cooldown_until, verdict, file, restarts>>

-----------------------------------------------------------------------------
(* The state of an objective *)

UsesWindow(o) == Def[o].dim \in {"Latency", "Throughput", "MemoryPressure"}

\* Only the samples of a window have an age.
evaluate_freshness(o) ==
    LET age == now - obs[o].latest
        ttl == Def[o].freshness_ttl
        duration == Def[o].window_duration
    IN  CASE Def[o].dim = "RecoveryTime" -> "Current"
          [] obs[o].size = 0 -> "Expired"
          [] Def[o].dim = "Availability" -> "Current"
          [] Def[o].dim = "Cost" -> IF Def[o].per_window THEN "Current" ELSE "Expired"
          [] OTHER ->
               IF \/ age < 0
                  \/ ttl > 0 /\ age > ttl
                  \/ ttl = 0 /\ duration > 0 /\ age >= duration
               THEN "Stale" ELSE "Current"

\* Whether there is a measured value to judge.
sufficient(o) ==
    CASE Def[o].dim = "RecoveryTime" -> TRUE
      [] UsesWindow(o) \/ (Def[o].dim = "Cost" /\ ~ Def[o].per_window) ->
            obs[o].size > 0 /\ obs[o].size >= Def[o].min_evidence
      [] OTHER -> obs[o].size > 0

\* A recovery time without a failure is 0.
measured(o) == obs[o].value

numeric_limit(o, threshold) ==
    IF threshold # None THEN threshold ELSE Def[o].target

breach(o) == numeric_limit(o, Def[o].breach_threshold)
recovery(o) == numeric_limit(o, Def[o].recovery_threshold)

\* Without thresholds that differ, the margin of five percent is Near, but
\* for a value at its physical maximum (cap; 0: it has none).
classify_zone(o) ==
    LET m == measured(o)
        most == Def[o].comparison = "AtMost"
        beyond(limit) == IF most THEN m > limit ELSE m < limit
        near == IF breach(o) # recovery(o) THEN beyond(recovery(o))
                ELSE IF most THEN 100 * m > 95 * breach(o)
                ELSE 100 * m < 105 * breach(o) /\ (Def[o].cap = 0 \/ m < Def[o].cap)
    IN  IF beyond(breach(o)) THEN "Violation" ELSE IF near THEN "Near" ELSE "Compliant"

\* Mutant: the band between the thresholds is no longer a violation.
step_state_forgetful(o) ==
    LET z == classify_zone(o)
    IN  CASE z = "Violation" -> "Violating"
          [] z = "Compliant" -> "Compliant"
          [] OTHER -> "NearLimit"

step_state(o) ==
    LET z == classify_zone(o)
    IN  CASE z = "Violation" -> "Violating"
          [] z = "Compliant" -> "Compliant"
          [] OTHER -> IF last_state[o] \in {"Violating", "Recovering"}
                      THEN last_state[o] ELSE "NearLimit"

\* Mutant: stale evidence is judged.
judged_if_any(o) == sufficient(o) /\ evaluate_freshness(o) # "Expired"

judged(o) == sufficient(o) /\ evaluate_freshness(o) = "Current"

StateOf(o) ==
    IF ~ judged(o)
    THEN IF evaluate_freshness(o) = "Stale" THEN "RevalidationRequired"
         ELSE "InsufficientEvidence"
    ELSE IF step_state(o) = "Compliant" /\ o \in exhausted THEN "NearLimit"
    ELSE step_state(o)

-----------------------------------------------------------------------------
(* The binding objective and the action *)

severity_rank_of(s) ==
    CASE s = "Violating" -> 0 [] s = "Recovering" -> 1 [] s = "AtRisk" -> 2
      [] s = "NearLimit" -> 3 [] s = "Compliant" -> 4
      [] s = "InsufficientEvidence" -> 5 [] s = "RevalidationRequired" -> 6
      [] s = "Suspended" -> 7

\* The magnitude as a fraction <<numerator, denominator>>.
severity_magnitude(o) ==
    IF breach(o) = 0 THEN <<0, 1>>
    ELSE IF Def[o].comparison = "AtMost" THEN <<measured(o), breach(o)>>
    ELSE <<breach(o), IF measured(o) > 0 THEN measured(o) ELSE 1>>

larger(f, g) == f[1] * g[2] > g[1] * f[2]

\* Mutant: the smaller magnitude comes first.
before_small_first(a, b, states) ==
    LET r(o) == severity_rank_of(states[o])
        m(o) == severity_magnitude(o)
    IN  \/ r(a) < r(b)
        \/ r(a) = r(b) /\ larger(m(b), m(a))

\* The order of the sort: severity, magnitude, priority, name.
before(a, b, states) ==
    LET r(o) == severity_rank_of(states[o])
        m(o) == severity_magnitude(o)
        tie == r(a) = r(b) /\ ~ larger(m(a), m(b)) /\ ~ larger(m(b), m(a))
    IN  \/ r(a) < r(b)
        \/ r(a) = r(b) /\ larger(m(a), m(b))
        \/ tie /\ Def[a].priority < Def[b].priority
        \/ tie /\ Def[a].priority = Def[b].priority /\ Def[a].name < Def[b].name

noncompliant(states) == {o \in ObjectiveId : states[o] # "Compliant"}

\* What may come first after the sort: the first objective of the contract if
\* all are compliant; of several that are equal in everything, any.
candidates(states) ==
    LET bad == noncompliant(states)
    IN  IF bad = {} THEN {Objectives[1]}
        ELSE {o \in bad : \A p \in bad : ~ before(p, o, states)}

\* Which action is asked for depends on the dimension; whether one is asked
\* for, on the state.
action_for(state) ==
    IF state \in {"Violating", "Recovering"} THEN "Correct"
    ELSE IF state \in {"AtRisk", "NearLimit"} THEN "Prevent" ELSE "NoAction"

selected_action(o, state) ==
    IF Def[o].enforcement = "None" \/ now < cooldown_until[o] THEN "NoAction"
    ELSE action_for(state)

\* The verdict without a binding objective.
Unbound(states, overall) ==
    [states |-> states, overall |-> overall, binding |-> None, secondary |-> {},
     action |-> "NoAction"]

Bound(states, b) ==
    [Unbound(states, states[b]) EXCEPT
        !.binding = b,
        !.secondary = noncompliant(states) \ {b},
        !.action = selected_action(b, states[b])]

Has(states, s) == \E o \in ObjectiveId : states[o] = s

evaluate ==
    LET states == [o \in ObjectiveId |-> StateOf(o)]
    IN  /\ UNCHANGED <<contract, now, obs, exhausted, cooldown_until, file, restarts>>
        /\ last_state' = states
        /\ \/ /\ Has(states, "RevalidationRequired")
              /\ verdict' = Unbound(states, "RevalidationRequired")
           \/ /\ ~ Has(states, "RevalidationRequired")
              /\ Has(states, "InsufficientEvidence")
              /\ verdict' = Unbound(states, "InsufficientEvidence")
           \/ /\ ~ Has(states, "RevalidationRequired")
              /\ ~ Has(states, "InsufficientEvidence")
              /\ \E b \in candidates(states) : verdict' = Bound(states, b)

\* The intent of the verdict is authorised (module Authority).
authorize ==
    /\ verdict # None
    /\ verdict.action # "NoAction"
    /\ cooldown_until' = [cooldown_until EXCEPT ![verdict.binding] = now + Cooldown]
    /\ UNCHANGED <<contract, now, obs, exhausted, last_state, verdict, file, restarts>>

-----------------------------------------------------------------------------
(* Restart *)

save ==
    /\ restarts < contract.max_restarts
    /\ file' = [cooldown_until |-> cooldown_until, exhausted |-> exhausted]
    /\ UNCHANGED <<contract, now, obs, exhausted, last_state, cooldown_until, verdict, restarts>>

\* No evidence is restored; a budget is, if it has a total (module Evidence).  An
\* objective that was never accessed stays InsufficientEvidence, which nothing
\* tells from RevalidationRequired.
load ==
    /\ file # None
    /\ restarts < contract.max_restarts
    /\ restarts' = restarts + 1
    /\ obs' = [o \in ObjectiveId |-> NoEvidence]
    /\ exhausted' = file.exhausted
    /\ last_state' = [o \in ObjectiveId |-> "RevalidationRequired"]
    /\ cooldown_until' = file.cooldown_until
    /\ verdict' = None
    /\ UNCHANGED <<contract, now, file>>

Next ==
    \/ tick
    \/ \E o \in ObjectiveId :
          \/ budget_changes(o)
          \/ \E size \in contract.sizes, value \in contract.values,
                time \in 0..(now + contract.max_skew) :
                observe(o, size, value, time)
    \/ evaluate
    \/ authorize
    \/ save
    \/ load

Spec == Init /\ [][Next]_vars
-----------------------------------------------------------------------------
(* Properties *)

Verdict ==
    [states : [ObjectiveId -> ComplianceState], overall : ComplianceState,
     binding : ObjectiveId \cup {None}, secondary : SUBSET ObjectiveId,
     action : {"NoAction", "Prevent", "Correct"}]

\* The types of the variables.
TypeOK ==
    /\ contract \in Scenarios
    /\ now \in 0..contract.max_time
    /\ obs \in [ObjectiveId ->
                 [size : Nat, value : Nat, latest : Nat]]
    /\ exhausted \subseteq ObjectiveId
    /\ last_state \in [ObjectiveId -> ComplianceState]
    /\ cooldown_until \in [ObjectiveId -> Nat]
    /\ verdict # None => verdict \in Verdict
    /\ file # None => /\ file.cooldown_until \in [ObjectiveId -> Nat]
                      /\ file.exhausted \subseteq ObjectiveId
    /\ restarts \in 0..contract.max_restarts

(***************************************************************************)
(* The sort of evaluate: the overall state is the most severe of all       *)
(* states, it is that of the binding objective, no objective in the same   *)
(* state is further beyond its limit, and every other objective that is    *)
(* not compliant is a secondary constraint.  Hard and soft objectives are  *)
(* ranked alike: the sort does not read hard (see HardBindsFirst).         *)
(***************************************************************************)
BindingIsWorst ==
    [][evaluate => LET v == verdict' IN v.binding # None =>
          /\ v.overall = v.states[v.binding]
          /\ v.secondary = {o \in ObjectiveId \ {v.binding} : v.states[o] # "Compliant"}
          /\ \A o \in ObjectiveId :
                severity_rank_of(v.overall) <= severity_rank_of(v.states[o])
          /\ v.overall # "Compliant" => \A o \in ObjectiveId :
                v.states[o] = v.overall =>
                    ~ larger(severity_magnitude(o), severity_magnitude(v.binding))]_vars

(***************************************************************************)
(* README: "hard constraints first, then violation severity", and          *)
(* objective.hpp: "soft objectives are ranked after hard obligations are   *)
(* satisfied": while a hard objective is violated, no soft one binds.      *)
(***************************************************************************)
HardBindsFirst ==
    [][evaluate => LET v == verdict' IN
          v.binding # None
          /\ (\E o \in ObjectiveId : Def[o].hard /\ v.states[o] = "Violating")
             => Def[v.binding].hard]_vars

\* The evidence of o is as old as its time to live allows, and not of the future.
Fresh(o) ==
    /\ obs[o].size > 0
    /\ obs[o].latest <= now
    /\ Def[o].freshness_ttl > 0 => now - obs[o].latest <= Def[o].freshness_ttl
    /\ Def[o].freshness_ttl = 0 /\ Def[o].window_duration > 0 =>
          now - obs[o].latest < Def[o].window_duration

Unjudged == {"InsufficientEvidence", "RevalidationRequired"}

(***************************************************************************)
(* README: "Stale or unknown evidence cannot silently produce a current    *)
(* compliance state": a verdict judges a window objective exactly when its *)
(* evidence is fresh and as much as its definition asks for, whatever      *)
(* happened before, and judges the service only if all of them are fresh.  *)
(* Other evidence has no age in the code.                                  *)
(***************************************************************************)
JudgedOnFreshEvidence ==
    [][evaluate => \A o \in ObjectiveId : UsesWindow(o) =>
          LET usable == Fresh(o) /\ obs[o].size >= Def[o].min_evidence
          IN  /\ verdict'.states[o] \in Unjudged <=> ~ usable
              /\ ~ usable => verdict'.overall \in Unjudged]_vars

(***************************************************************************)
(* step_state: an objective that the last evaluation found violating       *)
(* ceases to be only when its value has reached the recovery threshold, or *)
(* for want of evidence.                                                   *)
(***************************************************************************)
ViolationLeftOnRecovery ==
    [][evaluate => \A o \in ObjectiveId :
          last_state[o] = "Violating" /\ verdict'.states[o] \in {"Compliant", "NearLimit"} =>
              IF Def[o].comparison = "AtMost" THEN obs[o].value <= recovery(o)
              ELSE obs[o].value >= recovery(o)]_vars

=============================================================================
