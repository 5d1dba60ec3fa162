-------------------------- MODULE EvaluationProofs --------------------------
(***************************************************************************)
(* Proofs about Evaluation, for any contracts, thresholds, times to live   *)
(* and observations: what an evaluation judges, what it binds to and when  *)
(* it lets go of a violation.                                              *)
(***************************************************************************)
EXTENDS Evaluation, SequenceTheorems, TLAPS

-----------------------------------------------------------------------------
(* Types *)

\* The contract under evaluation defines each of its objectives.
LEMMA Contract ==
    ASSUME contract \in Scenarios
    PROVE  /\ Def \in [ObjectiveId -> Objective]
           /\ Objectives[1] \in ObjectiveId
           /\ contract.sizes \subseteq Nat \ {0} /\ contract.values \subseteq Nat
           /\ contract.max_skew \in Nat /\ contract.max_time \in Nat
           /\ contract.max_restarts \in Nat
<1> DEFINE s == contract
           ids == {s.objectives[k] : k \in 1..Len(s.objectives)}
<1>1. /\ s.objectives \in Seq(ids) \ {<< >>}
      /\ s.def \in [ids -> Objective]
      /\ s.sizes \subseteq Nat \ {0}
      /\ s.values \subseteq Nat
      /\ {s.max_skew, s.max_time, s.max_restarts} \subseteq Nat
    BY ScenariosAssumption
<1>2. Def \in [ObjectiveId -> Objective] /\ ObjectiveId = ids
    BY <1>1 DEF Def, ObjectiveId
<1>3. 1 \in 1..Len(s.objectives)
    <2> DEFINE q == s.objectives
    <2>1. q \in Seq(ids) /\ q # << >>
        BY <1>1
    <2> HIDE DEF q, ids
    <2>2. Len(q) \in Nat /\ Len(q) # 0
        BY <2>1, EmptySeq, LenProperties
    <2>3. 1 \in 1..Len(q)
        BY <2>2
    <2> QED BY <2>3 DEF q
<1>4. Objectives[1] \in ObjectiveId
    BY <1>2, <1>3 DEF Objectives
<1> QED BY <1>1, <1>2, <1>4

\* An evaluation finds an objective in one of five states.
LEMMA StateIs ==
    ASSUME NEW o
    PROVE  StateOf(o) \in {"Violating", "Recovering", "NearLimit", "Compliant"} \cup Unjudged
BY DEF StateOf, step_state, Unjudged

\* What may bind is an objective of the contract.
LEMMA CandidateIs ==
    ASSUME contract \in Scenarios, NEW states, NEW b \in candidates(states)
    PROVE  b \in ObjectiveId
BY Contract DEF candidates, noncompliant

LEMMA VerdictTyped ==
    ASSUME TypeOK, evaluate
    PROVE  verdict' \in Verdict /\ last_state' \in [ObjectiveId -> ComplianceState]
<1> DEFINE states == [o \in ObjectiveId |-> StateOf(o)]
<1>1. \A o \in ObjectiveId : StateOf(o) \in ComplianceState
    BY StateIs DEF ComplianceState, Unjudged
<1>2. states \in [ObjectiveId -> ComplianceState]
    BY <1>1
<1>3. /\ last_state' = states
      /\ \/ verdict' = Unbound(states, "RevalidationRequired")
         \/ verdict' = Unbound(states, "InsufficientEvidence")
         \/ \E b \in candidates(states) : verdict' = Bound(states, b)
    BY DEF evaluate
<1> HIDE DEF states
<1>4. ASSUME NEW overall \in ComplianceState
      PROVE  Unbound(states, overall) \in Verdict
    BY <1>2 DEF Unbound, Verdict
<1>5. ASSUME NEW b \in candidates(states)
      PROVE  Bound(states, b) \in Verdict
    <2>1. b \in ObjectiveId
        BY CandidateIs DEF TypeOK
    <2>2. states[b] \in ComplianceState
        BY <1>2, <2>1
    <2>3. selected_action(b, states[b]) \in {"NoAction", "Prevent", "Correct"}
        BY DEF selected_action, action_for
    <2>4. noncompliant(states) \ {b} \in SUBSET ObjectiveId
        BY DEF noncompliant
    <2> DEFINE u == Unbound(states, states[b])
               n == noncompliant(states) \ {b}
               t == selected_action(b, states[b])
    <2>5. u \in Verdict
        BY <1>4, <2>2
    <2>6. Bound(states, b) = [u EXCEPT !.binding = b, !.secondary = n, !.action = t]
        BY DEF Bound
    <2> HIDE DEF u, n, t
    <2>7. [u EXCEPT !.binding = b, !.secondary = n, !.action = t] \in Verdict
        BY <2>1, <2>3, <2>4, <2>5 DEF Verdict, n, t
    <2> QED BY <2>6, <2>7
<1>6. {"RevalidationRequired", "InsufficientEvidence"} \subseteq ComplianceState
    BY DEF ComplianceState
<1> QED BY <1>2, <1>3, <1>4, <1>5, <1>6

LEMMA InitTypes == Init => TypeOK
<1> SUFFICES ASSUME Init PROVE TypeOK
    OBVIOUS
<1>1. contract \in Scenarios
    BY DEF Init
<1>2. contract.max_time \in Nat /\ contract.max_restarts \in Nat
    BY <1>1, Contract
<1>3. NoEvidence \in [size : Nat, value : Nat, latest : Nat]
    BY DEF NoEvidence
<1> QED BY <1>1, <1>2, <1>3 DEF Init, TypeOK, ComplianceState

LEMMA StepTypes == TypeOK /\ [Next]_vars => TypeOK'
<1> SUFFICES ASSUME TypeOK, [Next]_vars PROVE TypeOK'
    OBVIOUS
<1>1. /\ contract.sizes \subseteq Nat \ {0} /\ contract.values \subseteq Nat
      /\ contract.max_skew \in Nat /\ contract.max_time \in Nat
      /\ contract.max_restarts \in Nat
    BY Contract DEF TypeOK
<1>2. CASE tick
    <2>1. now' \in 0..contract.max_time
        BY <1>1, <1>2 DEF tick, TypeOK
    <2> QED BY <1>2, <2>1 DEF tick, TypeOK, ObjectiveId, Def, Verdict
<1>3. ASSUME NEW o \in ObjectiveId, budget_changes(o)
      PROVE  TypeOK'
    <2>1. exhausted' \subseteq ObjectiveId
        BY <1>3 DEF budget_changes, TypeOK
    <2> QED BY <1>3, <2>1 DEF budget_changes, TypeOK, ObjectiveId, Def, Verdict
<1>4. ASSUME NEW o \in ObjectiveId, NEW size \in contract.sizes, NEW value \in contract.values,
             NEW time \in 0..(now + contract.max_skew), observe(o, size, value, time)
      PROVE  TypeOK'
    <2>1. [size |-> size, value |-> value, latest |-> time]
            \in [size : Nat, value : Nat, latest : Nat]
        BY <1>1 DEF TypeOK
    <2>2. obs' \in [ObjectiveId -> [size : Nat, value : Nat, latest : Nat]]
        BY <1>4, <2>1 DEF observe, TypeOK
    <2> QED BY <1>4, <2>2 DEF observe, TypeOK, ObjectiveId, Def, Verdict
<1>5. CASE evaluate
    <2>1. verdict' \in Verdict /\ last_state' \in [ObjectiveId -> ComplianceState]
        BY <1>5, VerdictTyped
    <2> QED BY <1>5, <2>1 DEF evaluate, TypeOK, ObjectiveId, Def, Verdict
<1>6. CASE authorize
    <2>1. now + Cooldown \in Nat
        BY <1>1, CooldownAssumption DEF TypeOK
    <2>2. cooldown_until' \in [ObjectiveId -> Nat]
        BY <1>6, <2>1 DEF authorize, TypeOK
    <2> QED BY <1>6, <2>2 DEF authorize, TypeOK, ObjectiveId, Def, Verdict
<1>7. CASE save
    <2>1. file'.cooldown_until = cooldown_until /\ file'.exhausted = exhausted
        BY <1>7 DEF save
    <2> QED BY <1>7, <2>1 DEF save, TypeOK, ObjectiveId, Def, Verdict
<1>8. CASE load
    <2>1. restarts' \in 0..contract.max_restarts
        BY <1>1, <1>8 DEF load, TypeOK
    <2>2. obs' \in [ObjectiveId -> [size : Nat, value : Nat, latest : Nat]]
        BY <1>8 DEF load, NoEvidence
    <2>3. last_state' \in [ObjectiveId -> ComplianceState]
        BY <1>8 DEF load, ComplianceState
    <2> QED BY <1>8, <2>1, <2>2, <2>3 DEF load, TypeOK, ObjectiveId, Def
<1>9. CASE UNCHANGED vars
    BY <1>9 DEF vars, TypeOK, ObjectiveId, Def, Verdict
<1> QED BY <1>2, <1>3, <1>4, <1>5, <1>6, <1>7, <1>8, <1>9 DEF Next

(***************************************************************************)
(* Every variable keeps its type; a verdict names objectives of the        *)
(* contract, and what the file holds can be loaded.                        *)
(***************************************************************************)
THEOREM EvaluationTypes == Spec => []TypeOK
<1>1. Init => TypeOK
    BY InitTypes
<1>2. TypeOK /\ [Next]_vars => TypeOK'
    BY StepTypes
<1> QED BY <1>1, <1>2, PTL DEF Spec

-----------------------------------------------------------------------------
(* Verdicts *)

\* A verdict holds the state of every objective.  It binds one, a candidate,
\* only if all were judged, and is itself unjudged otherwise.
LEMMA VerdictIs ==
    ASSUME evaluate
    PROVE  LET states == [o \in ObjectiveId |-> StateOf(o)]
           IN  /\ verdict'.states = states
               /\ \/ verdict'.binding = None /\ verdict'.overall \in Unjudged
                  \/ /\ \A o \in ObjectiveId : StateOf(o) \notin Unjudged
                     /\ \E b \in candidates(states) : verdict' = Bound(states, b)
<1> DEFINE states == [o \in ObjectiveId |-> StateOf(o)]
<1>1. \/ verdict' = Unbound(states, "RevalidationRequired")
      \/ verdict' = Unbound(states, "InsufficientEvidence")
      \/ /\ ~ Has(states, "RevalidationRequired") /\ ~ Has(states, "InsufficientEvidence")
         /\ \E b \in candidates(states) : verdict' = Bound(states, b)
    BY DEF evaluate
<1>2. ASSUME ~ Has(states, "RevalidationRequired"), ~ Has(states, "InsufficientEvidence"),
             NEW o \in ObjectiveId
      PROVE  StateOf(o) \notin Unjudged
    BY <1>2 DEF Has, Unjudged
<1> HIDE DEF states
<1>3. ASSUME NEW b PROVE Bound(states, b).states = states
    BY DEF Bound, Unbound
<1>4. ASSUME NEW s
      PROVE  /\ Unbound(states, s).states = states /\ Unbound(states, s).binding = None
             /\ Unbound(states, s).overall = s
    BY DEF Unbound
<1>5. {"RevalidationRequired", "InsufficientEvidence"} = Unjudged
    BY DEF Unjudged
<1>6. verdict'.states = states
    BY <1>1, <1>3, <1>4
<1>7. CASE verdict' = Unbound(states, "RevalidationRequired")
    BY <1>4, <1>5, <1>6, <1>7 DEF states
<1>8. CASE verdict' = Unbound(states, "InsufficientEvidence")
    BY <1>4, <1>5, <1>6, <1>8 DEF states
<1>9. CASE /\ ~ Has(states, "RevalidationRequired") /\ ~ Has(states, "InsufficientEvidence")
           /\ \E b \in candidates(states) : verdict' = Bound(states, b)
    BY <1>2, <1>6, <1>9 DEF states
<1> QED BY <1>1, <1>7, <1>8, <1>9

\* The types of what an evaluation reads of an objective.
LEMMA ReadsNumbers ==
    ASSUME TypeOK, NEW o \in ObjectiveId
    PROVE  /\ now \in Nat /\ obs[o].size \in Nat /\ obs[o].value \in Nat /\ obs[o].latest \in Nat
           /\ Def[o].min_evidence \in Nat /\ Def[o].freshness_ttl \in Nat
           /\ Def[o].window_duration \in Nat
           /\ breach(o) \in Nat /\ recovery(o) \in Nat
<1>1. Def[o] \in Objective /\ contract.max_time \in Nat
    BY Contract DEF TypeOK
<1>2. now \in Nat /\ obs[o] \in [size : Nat, value : Nat, latest : Nat]
    BY <1>1 DEF TypeOK
<1>3. breach(o) \in Nat /\ recovery(o) \in Nat
    BY <1>1 DEF breach, recovery, numeric_limit, Objective
<1> QED BY <1>1, <1>2, <1>3 DEF Objective

\* Judged is what has a state of its own.
LEMMA JudgedIs ==
    ASSUME NEW o
    PROVE  StateOf(o) \in Unjudged <=> ~ judged(o)
BY DEF StateOf, step_state, Unjudged

\* A window objective is judged if its evidence is fresh and enough.
LEMMA WindowJudged ==
    ASSUME TypeOK, NEW o \in ObjectiveId, UsesWindow(o)
    PROVE  judged(o) <=> Fresh(o) /\ obs[o].size >= Def[o].min_evidence
<1> DEFINE n == obs[o].size
           t == obs[o].latest
           m == Def[o].min_evidence
           ttl == Def[o].freshness_ttl
           w == Def[o].window_duration
           old == now - t < 0 \/ (ttl > 0 /\ now - t > ttl) \/ (ttl = 0 /\ w > 0 /\ now - t >= w)
<1>1. /\ now \in Nat /\ n \in Nat /\ t \in Nat /\ m \in Nat /\ ttl \in Nat /\ w \in Nat
    BY ReadsNumbers
<1>2. Def[o].dim \in {"Latency", "Throughput", "MemoryPressure"}
    BY DEF UsesWindow
<1>3. sufficient(o) <=> n > 0 /\ n >= m
    BY <1>2 DEF sufficient, UsesWindow
<1>4. evaluate_freshness(o) = IF n = 0 THEN "Expired" ELSE IF old THEN "Stale" ELSE "Current"
    BY <1>2 DEF evaluate_freshness
<1>5. Fresh(o) <=> /\ n > 0 /\ t <= now /\ (ttl > 0 => now - t <= ttl)
                   /\ (ttl = 0 /\ w > 0 => now - t < w)
    BY DEF Fresh
<1> HIDE DEF n, t, m, ttl, w
<1>6. ~ old <=> t <= now /\ (ttl > 0 => now - t <= ttl) /\ (ttl = 0 /\ w > 0 => now - t < w)
    BY <1>1
<1>7. judged(o) <=> n > 0 /\ n >= m /\ ~ old
    <2> HIDE DEF old
    <2>1. n > 0 => n # 0
        BY <1>1
    <2> QED BY <1>3, <1>4, <2>1 DEF judged
<1> HIDE DEF old
<1> QED BY <1>5, <1>6, <1>7 DEF n, m

\* The step of JudgedOnFreshEvidence.
JudgedFresh ==
    evaluate => \A o \in ObjectiveId : UsesWindow(o) =>
        LET usable == Fresh(o) /\ obs[o].size >= Def[o].min_evidence
        IN  /\ verdict'.states[o] \in Unjudged <=> ~ usable
            /\ ~ usable => verdict'.overall \in Unjudged

(***************************************************************************)
(* evaluate_freshness and evaluate: a window objective is judged exactly   *)
(* on fresh and sufficient evidence, and so is the service, for any times  *)
(* to live, windows, minimal evidence and record times.                    *)
(***************************************************************************)
THEOREM OnlyFreshIsJudged == Spec => JudgedOnFreshEvidence
<1>1. TypeOK /\ [Next]_vars => [JudgedFresh]_vars
    <2> SUFFICES ASSUME TypeOK, evaluate, NEW o \in ObjectiveId, UsesWindow(o)
                 PROVE  LET usable == Fresh(o) /\ obs[o].size >= Def[o].min_evidence
                        IN  /\ verdict'.states[o] \in Unjudged <=> ~ usable
                            /\ ~ usable => verdict'.overall \in Unjudged
        BY DEF JudgedFresh
    <2> DEFINE usable == Fresh(o) /\ obs[o].size >= Def[o].min_evidence
               states == [p \in ObjectiveId |-> StateOf(p)]
    <2>1. StateOf(o) \in Unjudged <=> ~ usable
        BY JudgedIs, WindowJudged
    <2>2. /\ verdict'.states = states
          /\ \/ verdict'.overall \in Unjudged
             \/ \A p \in ObjectiveId : StateOf(p) \notin Unjudged
        BY VerdictIs
    <2>3. verdict'.states[o] = StateOf(o)
        BY <2>2
    <2> HIDE DEF usable
    <2>4. /\ verdict'.states[o] \in Unjudged <=> ~ usable
          /\ ~ usable => verdict'.overall \in Unjudged
        BY <2>1, <2>2, <2>3
    <2> QED BY <2>4 DEF usable
<1>2. JudgedOnFreshEvidence <=> [][JudgedFresh]_vars
    BY PTL DEF JudgedOnFreshEvidence, JudgedFresh
<1> QED BY <1>1, <1>2, EvaluationTypes, PTL DEF Spec

\* The step of ViolationLeftOnRecovery.
ViolationLeft ==
    evaluate => \A o \in ObjectiveId :
        last_state[o] = "Violating" /\ verdict'.states[o] \in {"Compliant", "NearLimit"} =>
            IF Def[o].comparison = "AtMost" THEN obs[o].value <= recovery(o)
            ELSE obs[o].value >= recovery(o)

(***************************************************************************)
(* classify_zone and step_state: whatever the thresholds and the budget,   *)
(* a violation ends in compliance or near the limit only once the value    *)
(* has reached the recovery threshold.                                     *)
(***************************************************************************)
THEOREM ViolationEndsRecovered == Spec => ViolationLeftOnRecovery
<1>1. TypeOK /\ [Next]_vars => [ViolationLeft]_vars
    <2> SUFFICES ASSUME TypeOK, evaluate, NEW o \in ObjectiveId, last_state[o] = "Violating",
                        verdict'.states[o] \in {"Compliant", "NearLimit"}
                 PROVE  IF Def[o].comparison = "AtMost" THEN obs[o].value <= recovery(o)
                        ELSE obs[o].value >= recovery(o)
        BY DEF ViolationLeft
    <2>1. StateOf(o) \in {"Compliant", "NearLimit"}
        BY VerdictIs
    <2>2. step_state(o) = "Compliant"
        BY <2>1 DEF StateOf, step_state
    <2>3. classify_zone(o) = "Compliant"
        BY <2>2 DEF step_state
    <2> DEFINE m == obs[o].value
               b == breach(o)
               r == recovery(o)
    <2>4. m \in Nat /\ b \in Nat /\ r \in Nat
        BY ReadsNumbers
    <2>5. CASE Def[o].comparison = "AtMost"
        <3>1. ~ (m > b) /\ (b # r => ~ (m > r))
            BY <2>3, <2>5 DEF classify_zone, measured
        <3> HIDE DEF m, b, r
        <3>2. m <= r
            BY <2>4, <3>1
        <3> QED BY <2>5, <3>2 DEF m, r
    <2>6. CASE Def[o].comparison # "AtMost"
        <3>1. ~ (m < b) /\ (b # r => ~ (m < r))
            BY <2>3, <2>6 DEF classify_zone, measured
        <3> HIDE DEF m, b, r
        <3>2. m >= r
            BY <2>4, <3>1
        <3> QED BY <2>6, <3>2 DEF m, r
    <2> QED BY <2>5, <2>6
<1>2. ViolationLeftOnRecovery <=> [][ViolationLeft]_vars
    BY PTL DEF ViolationLeftOnRecovery, ViolationLeft
<1> QED BY <1>1, <1>2, EvaluationTypes, PTL DEF Spec

\* The step of BindingIsWorst.
BindsWorst ==
    evaluate => LET v == verdict' IN v.binding # None =>
        /\ v.overall = v.states[v.binding]
        /\ v.secondary = {o \in ObjectiveId \ {v.binding} : v.states[o] # "Compliant"}
        /\ \A o \in ObjectiveId :
              severity_rank_of(v.overall) <= severity_rank_of(v.states[o])
        /\ v.overall # "Compliant" => \A o \in ObjectiveId :
              v.states[o] = v.overall =>
                  ~ larger(severity_magnitude(o), severity_magnitude(v.binding))

\* Judged objectives rank from 0 to 4, and the compliant ones last.
LEMMA Ranks ==
    ASSUME NEW s \in {"Violating", "Recovering", "NearLimit", "Compliant"}
    PROVE  /\ severity_rank_of(s) \in 0..4
           /\ severity_rank_of(s) <= severity_rank_of("Compliant")
BY DEF severity_rank_of

\* No objective that was judged is worse than a candidate.
LEMMA CandidateIsWorst ==
    ASSUME contract \in Scenarios, NEW states,
           \A o \in ObjectiveId :
              states[o] \in {"Violating", "Recovering", "NearLimit", "Compliant"},
           NEW b \in candidates(states), NEW o \in ObjectiveId
    PROVE  /\ severity_rank_of(states[b]) <= severity_rank_of(states[o])
           /\ states[b] # "Compliant" /\ states[o] = states[b] =>
                 ~ larger(severity_magnitude(o), severity_magnitude(b))
<1>1. b \in ObjectiveId
    BY CandidateIs
<1>2. severity_rank_of(states[b]) \in 0..4 /\ severity_rank_of(states[o]) \in 0..4
    BY <1>1, Ranks
<1>3. CASE noncompliant(states) = {}
    <2>1. states[o] = "Compliant" /\ states[b] = "Compliant"
        BY <1>1, <1>3 DEF noncompliant
    <2> QED BY <1>2, <2>1
<1>4. CASE noncompliant(states) # {}
    <2>1. /\ b \in noncompliant(states)
          /\ \A p \in noncompliant(states) : ~ before(p, b, states)
        BY <1>4 DEF candidates
    <2>2. CASE states[o] = "Compliant"
        <3>1. severity_rank_of(states[b]) <= severity_rank_of("Compliant")
            BY <1>1, Ranks
        <3> QED BY <2>2, <3>1
    <2>3. CASE states[o] # "Compliant"
        <3>1. ~ before(o, b, states)
            BY <2>1, <2>3 DEF noncompliant
        <3>2. ~ (severity_rank_of(states[o]) < severity_rank_of(states[b]))
            BY <3>1, Zenon DEF before
        <3>3. ~ (/\ severity_rank_of(states[o]) = severity_rank_of(states[b])
                 /\ larger(severity_magnitude(o), severity_magnitude(b)))
            BY <3>1, Zenon DEF before
        <3> QED BY <1>2, <3>2, <3>3
    <2> QED BY <2>2, <2>3
<1> QED BY <1>3, <1>4

(***************************************************************************)
(* The sort of evaluate, for any number of objectives: the verdict is the  *)
(* state of the binding objective, none is in a worse state or, in the     *)
(* same state, further beyond its limit, and no other that is not          *)
(* compliant is left out.                                                  *)
(***************************************************************************)
THEOREM WorstBinds == Spec => BindingIsWorst
<1>1. TypeOK /\ [Next]_vars => [BindsWorst]_vars
    <2> SUFFICES ASSUME TypeOK, evaluate, verdict'.binding # None
                 PROVE  LET v == verdict'
                        IN  /\ v.overall = v.states[v.binding]
                            /\ v.secondary = {o \in ObjectiveId \ {v.binding} :
                                                v.states[o] # "Compliant"}
                            /\ \A o \in ObjectiveId :
                                  severity_rank_of(v.overall) <= severity_rank_of(v.states[o])
                            /\ v.overall # "Compliant" => \A o \in ObjectiveId :
                                  v.states[o] = v.overall =>
                                      ~ larger(severity_magnitude(o),
                                               severity_magnitude(v.binding))
        BY DEF BindsWorst
    <2> DEFINE states == [o \in ObjectiveId |-> StateOf(o)]
               v == verdict'
    <2>1. /\ \A o \in ObjectiveId : StateOf(o) \notin Unjudged
          /\ \E b \in candidates(states) : v = Bound(states, b)
        BY VerdictIs
    <2>2. \A o \in ObjectiveId :
             states[o] \in {"Violating", "Recovering", "NearLimit", "Compliant"}
        BY <2>1, StateIs
    <2>3. PICK b \in candidates(states) : v = Bound(states, b)
        BY <2>1
    <2> HIDE DEF states, v
    <2>4. /\ v.states = states /\ v.binding = b /\ v.overall = states[b]
          /\ v.secondary = noncompliant(states) \ {b}
        BY <2>3 DEF Bound, Unbound
    <2>5. contract \in Scenarios
        BY DEF TypeOK
    <2>6. \A o \in ObjectiveId :
             /\ severity_rank_of(states[b]) <= severity_rank_of(states[o])
             /\ states[b] # "Compliant" /\ states[o] = states[b] =>
                   ~ larger(severity_magnitude(o), severity_magnitude(b))
        BY <2>2, <2>5, CandidateIsWorst
    <2>7. v.secondary = {o \in ObjectiveId \ {v.binding} : v.states[o] # "Compliant"}
        BY <2>4 DEF noncompliant
    <2> QED BY <2>4, <2>6, <2>7 DEF v
<1>2. BindingIsWorst <=> [][BindsWorst]_vars
    BY PTL DEF BindingIsWorst, BindsWorst
<1> QED BY <1>1, <1>2, EvaluationTypes, PTL DEF Spec
=============================================================================
