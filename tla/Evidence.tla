------------------------------ MODULE Evidence ------------------------------
(***************************************************************************)
(* What the fabric keeps of the evidence it is given (fabric.cpp): the     *)
(* rings of evidence ids that recognise duplicates, and per objective the  *)
(* availability, cost and recovery accounts and the error budget           *)
(* (budget.hpp).  Every call holds the fabric's mutex and is one action.   *)
(*                                                                         *)
(* An objective is defined by one contract here (module Authority has the  *)
(* objectives that contracts share) and the samples of a window are the    *)
(* subject of module SampleWindow.  Values, times and sample counts are    *)
(* integers of any sign and size: nothing checks what a source states.     *)
(***************************************************************************)
EXTENDS Integers, Sequences, FiniteSets

CONSTANTS
    ObjectiveId,
    Dimension,      \* the dimension of each objective
    EvidenceId,
    Records,        \* the evidence that sources may send, in any order
    Phases,         \* the recovery phases that may be reported
    Totals,         \* the totals a budget may be set to
    BudgetWindow,   \* the window of the budgets; 0: never rolled
    Short,          \* <<v, w>> such that (v / 10000.0) * w is below v * w / 10000
    None,
    RingCap,        \* evidence_ring_cap, 8192 in the code
    DedupCap,       \* dedup_cap, 4096
    CostCap,        \* CostWindow::cap, 4096
    CostDuration,   \* window_duration of the cost objectives; 0: no eviction
    MaxTime,        \* bound: the clock
    MaxGen,         \* bound: generations of an objective
    MaxNoted,       \* bound: evidence taken in since the process started
    MaxDeliveries,  \* bound: violation events delivered, per objective
    MaxRestarts     \* bound: crashes and loads

Dimensions == {"Latency", "Availability", "Throughput", "RecoveryTime",
               "MemoryPressure", "Cost"}
RecoveryEventPhase ==
    {"Observed", "Authoritative", "Initiated", "Restored", "Verified"}

\* An unset epoch or generation is 0.  The value is a number of its unit: the
\* types of the units accept numbers that are no valid share.
EvidenceRecord ==
    [id : EvidenceId, objective_id : ObjectiveId, objective_gen : Nat,
     epoch : Nat, dimension : Dimensions,
     unit : {"BasisPoints", "Percent", "CurrencyMicros", "Other"},
     time : Int, value : Int, sample_count : Int]

ErrorBudget == [total : Nat, consumed : Nat, window_start : Nat]
Charge == [time : Int, amount : Int]

ASSUME DimensionAssumption == Dimension \in [ObjectiveId -> Dimensions]
ASSUME InputAssumption ==
    /\ Records \subseteq EvidenceRecord
    /\ Phases \subseteq RecoveryEventPhase
    /\ Totals \subseteq Nat
\* A product of doubles is that close to the exact one that only a whole number
\* can be missed (for shares of fewer than 2^38 units).
ASSUME ShortAssumption ==
    /\ Short \subseteq Nat \X Nat
    /\ \A s \in Short : s[1] * s[2] > 0 /\ (s[1] * s[2]) % 10000 = 0
ASSUME NoneAssumption == None \notin Nat /\ None \notin ErrorBudget
ASSUME BoundsAssumption ==
    /\ {RingCap, DedupCap, CostCap} \subseteq Nat \ {0}
    /\ {BudgetWindow, CostDuration, MaxTime, MaxGen, MaxNoted, MaxDeliveries,
        MaxRestarts} \subseteq Nat

VARIABLES
    now, epoch,
    gen,          \* the generation of each objective's definition, 0: undefined
    accumulators, \* per objective; an accumulator of generation 0 is none
    ring,         \* global_evidence_ring, and the set with the same elements
    file,         \* what save wrote of all this, or None
    noted,        \* history: every id noted since the process started
    deliveries,   \* history: when violation events consumed budget
    restarts      \* history: crashes and loads

vars == <<now, epoch, gen, accumulators, ring, file, noted, deliveries, restarts>>

Option(S) == S \cup {None}

\* Mutant: one id too many is forgotten.
remember_fewer(ids, id, cap) ==
    Append(IF Len(ids) >= cap - 1 /\ ids # << >> THEN Tail(ids) ELSE ids, id)

\* A bounded queue of ids forgets the oldest to make room.
remember(ids, id, cap) == Append(IF Len(ids) >= cap THEN Tail(ids) ELSE ids, id)

Elements(s) == {s[k] : k \in 1..Len(s)}

\* An accumulator of a generation: taken, charged and reported are history,
\* the ids remembered, the costs added and the availability stated so far.
NewAccumulator(g, budget) ==
    [gen |-> g, eligible |-> 0, successful |-> 0, cost |-> << >>,
     authoritative_at |-> None, restored_at |-> None, verified_at |-> None,
     recent |-> << >>, budget |-> budget,
     taken |-> << >>, charged |-> << >>, reported |-> 0]

NoAccumulators == [o \in ObjectiveId |-> NewAccumulator(0, None)]
Undefined == [o \in ObjectiveId |-> 0]

Init ==
    /\ now = 0
    /\ epoch = 1
    /\ gen = Undefined
    /\ accumulators = NoAccumulators
    /\ ring = << >>
    /\ file = None
    /\ noted = << >>
    /\ deliveries = [o \in ObjectiveId |-> << >>]
    /\ restarts = 0

tick ==
    /\ now < MaxTime
    /\ now' = now + 1
    /\ UNCHANGED <<epoch, gen, accumulators, ring, file, noted, deliveries, restarts>>

\* A contract is registered or replaced: the objective it defines has another
\* generation, which need not be a later one, or is no longer defined.
define(o, g) ==
    /\ g # gen[o]
    /\ gen' = [gen EXCEPT ![o] = g]
    /\ UNCHANGED <<now, epoch, accumulators, ring, file, noted, deliveries, restarts>>

\* Another generation starts with empty accounts and keeps the budget.
get_accumulator(o) ==
    IF accumulators[o].gen = gen[o] THEN accumulators[o]
    ELSE NewAccumulator(gen[o], accumulators[o].budget)

update(o, a) == accumulators' = [accumulators EXCEPT ![o] = a]

-----------------------------------------------------------------------------
(* Evidence *)

unit_compatible(o, e) ==
    CASE Dimension[o] = "Availability" -> e.unit \in {"BasisPoints", "Percent"}
      [] Dimension[o] = "Cost" -> e.unit = "CurrencyMicros"
      [] OTHER -> e.unit = "Other"

weight(e) == IF e.sample_count > 1 THEN e.sample_count ELSE 1

\* The availability an evidence record states, in basis points.
stated(e) == IF e.unit = "Percent" THEN 100 * e.value ELSE e.value

\* Mutant: the units are rounded up.
whole_units_up(v, w) ==
    (v * w + 9999) \div 10000 - (IF <<v, w>> \in Short THEN 1 ELSE 0)

\* The whole units in a share v of w units, as a product of doubles.
whole_units(v, w) ==
    (v * w) \div 10000 - (IF <<v, w>> \in Short THEN 1 ELSE 0)

\* The number of the value is taken as basis points, whatever its unit, and
\* rounded towards zero.
serving_units(e) ==
    IF e.value >= 0 THEN whole_units(e.value, weight(e))
    ELSE - whole_units(- e.value, weight(e))

\* For the history, a statement below zero counts as none.
add_availability(a, e) ==
    [a EXCEPT !.eligible = @ + weight(e),
              !.successful = @ + serving_units(e),
              !.reported = @ + (IF e.value > 0 THEN stated(e) * weight(e) ELSE 0)]

\* Mutant: a charge of exactly the window's age is dropped.
expired_inclusive(c, time) == CostDuration > 0 /\ time - c.time >= CostDuration

\* A charge leaves from the front when it is older than the window.
expired(c, time) == CostDuration > 0 /\ time - c.time > CostDuration

evict(items, time) ==
    LET old == CHOOSE n \in 0..Len(items) :
                  /\ \A k \in 1..n : expired(items[k], time)
                  /\ n < Len(items) => ~ expired(items[n + 1], time)
        n == IF Len(items) - old > CostCap THEN Len(items) - CostCap ELSE old
    IN  SubSeq(items, n + 1, Len(items))

add_cost(a, e) ==
    LET c == [time |-> e.time, amount |-> e.value]
    IN  [a EXCEPT !.cost = evict(Append(@, c), e.time),
                  !.charged = Append(@, c)]

\* The dimension of the evidence, not of the objective, selects the account.
\* What goes to the window of an objective leaves these accounts alone.
take_in(a, o, e) ==
    IF ~ unit_compatible(o, e) THEN a
    ELSE CASE e.dimension = "Availability" -> add_availability(a, e)
           [] e.dimension = "Cost" /\ Dimension[o] = "Cost" -> add_cost(a, e)
           [] OTHER -> a

outdated(e) ==
    \/ e.epoch # 0 /\ e.epoch # epoch
    \/ gen[e.objective_id] = 0
    \/ e.objective_gen # 0 /\ e.objective_gen # gen[e.objective_id]

\* Evidence whose id is remembered is refused.  Other evidence uses up its id,
\* whatever becomes of it.
ingest(e) ==
    LET o == e.objective_id
        a == get_accumulator(o)
    IN  /\ Len(noted) < MaxNoted
        /\ e.id \notin Elements(ring)
        /\ ring' = remember(ring, e.id, RingCap)
        /\ noted' = Append(noted, e.id)
        /\ \/ outdated(e) /\ UNCHANGED accumulators
           \/ ~ outdated(e) /\ e.id \in Elements(a.recent) /\ update(o, a)
           \/ /\ ~ outdated(e)
              /\ e.id \notin Elements(a.recent)
              /\ update(o, take_in([a EXCEPT
                                       !.recent = remember(@, e.id, DedupCap),
                                       !.taken = Append(@, e.id)], o, e))
        /\ UNCHANGED <<now, epoch, gen, file, deliveries, restarts>>

accumulatorsOnly == UNCHANGED <<now, epoch, gen, ring, file, noted, restarts>>

record_recovery_event(o, phase) ==
    LET a == get_accumulator(o)
    IN  /\ gen[o] # 0
        /\ update(o, CASE phase = "Authoritative" -> [a EXCEPT !.authoritative_at = now]
                       [] phase = "Restored" -> [a EXCEPT !.restored_at = now]
                       [] phase = "Verified" -> [a EXCEPT !.verified_at = now]
                       [] OTHER -> a)
        /\ UNCHANGED deliveries
        /\ accumulatorsOnly

\* Mutant: the verification is not looked at.
current_recovery_duration_restored(a) ==
    IF a.authoritative_at = None THEN 0
    ELSE (IF a.restored_at # None THEN a.restored_at ELSE now) - a.authoritative_at

\* Zero before an authoritative failure.
current_recovery_duration(a) ==
    IF a.authoritative_at = None THEN 0
    ELSE (IF a.verified_at # None THEN a.verified_at
          ELSE IF a.restored_at # None THEN a.restored_at ELSE now)
         - a.authoritative_at

-----------------------------------------------------------------------------
(* Budgets *)

set_objective_budget(o, total) ==
    /\ gen[o] # 0
    /\ update(o, [get_accumulator(o) EXCEPT
                     !.budget = [total |-> total, consumed |-> 0,
                                 window_start |-> 0]])
    /\ UNCHANGED deliveries
    /\ accumulatorsOnly

\* The call names the objective and no event: each call consumes.
ingest_violation_event(o) ==
    LET a == get_accumulator(o)
    IN  /\ gen[o] # 0
        /\ Len(deliveries[o]) < MaxDeliveries
        /\ \/ /\ a.budget = None
              /\ update(o, a)
              /\ UNCHANGED deliveries
           \/ /\ a.budget # None
              /\ update(o, [a EXCEPT !.budget.consumed = @ + 1])
              /\ deliveries' = [deliveries EXCEPT ![o] = Append(@, now)]
        /\ accumulatorsOnly

window_rolled(b) == BudgetWindow > 0 /\ now - b.window_start >= BudgetWindow

\* Mutant: only the start of the window moves.
reset_window_start(b) == [b EXCEPT !.window_start = now]

reset_window(b) ==
    [b EXCEPT !.consumed = 0, !.window_start = now]

rolled(a) ==
    IF a.budget # None /\ window_rolled(a.budget)
    THEN [a EXCEPT !.budget = reset_window(a.budget)] ELSE a

\* What an evaluation changes: every objective is visited.
evaluate ==
    /\ \E o \in ObjectiveId : gen[o] # 0
    /\ accumulators' = [o \in ObjectiveId |->
          IF gen[o] = 0 THEN accumulators[o] ELSE rolled(get_accumulator(o))]
    /\ UNCHANGED deliveries
    /\ accumulatorsOnly

-----------------------------------------------------------------------------
(* Restart *)

save ==
    /\ file' = [epoch |-> epoch, gen |-> gen,
                states |-> [o \in ObjectiveId |->
                    [gen |-> accumulators[o].gen, budget |-> accumulators[o].budget]]]
    /\ UNCHANGED <<now, epoch, gen, accumulators, ring, noted, deliveries, restarts>>

\* The state of an objective is restored if its definition still has the
\* generation of the accumulator.  Budgets without a total count as absent.
restored(st, o) ==
    LET s == st.states[o]
    IN  IF s.gen = 0 \/ s.gen # st.gen[o] THEN NewAccumulator(0, None)
        ELSE NewAccumulator(s.gen, IF s.budget # None /\ s.budget.total # 0
                                   THEN s.budget ELSE None)

load ==
    /\ file # None
    /\ restarts < MaxRestarts
    /\ restarts' = restarts + 1
    /\ epoch' = file.epoch + 1
    /\ gen' = file.gen
    /\ accumulators' = [o \in ObjectiveId |-> restored(file, o)]
    /\ UNCHANGED <<now, ring, file, noted, deliveries>>

\* A new process constructs an empty fabric.
crash ==
    /\ restarts < MaxRestarts
    /\ restarts' = restarts + 1
    /\ epoch' = 1
    /\ gen' = Undefined
    /\ accumulators' = NoAccumulators
    /\ ring' = << >>
    /\ noted' = << >>
    /\ UNCHANGED <<now, file, deliveries>>

Next ==
    \/ tick
    \/ \E o \in ObjectiveId :
          \/ \E g \in 0..MaxGen : define(o, g)
          \/ \E phase \in Phases : record_recovery_event(o, phase)
          \/ \E total \in Totals : set_objective_budget(o, total)
          \/ ingest_violation_event(o)
    \/ \E e \in Records : ingest(e)
    \/ evaluate
    \/ save
    \/ load
    \/ crash

Spec == Init /\ [][Next]_vars
-----------------------------------------------------------------------------
(* Properties *)

Accumulator ==
    [gen : Nat, eligible : Nat, successful : Int, cost : Seq(Charge),
     authoritative_at : Option(Nat), restored_at : Option(Nat),
     verified_at : Option(Nat), recent : Seq(EvidenceId),
     budget : Option(ErrorBudget), taken : Seq(EvidenceId),
     charged : Seq(Charge), reported : Nat]

\* The types of the variables.
TypeOK ==
    /\ now \in 0..MaxTime
    /\ epoch \in Nat
    /\ gen \in [ObjectiveId -> Nat]
    /\ accumulators \in [ObjectiveId -> Accumulator]
    /\ ring \in Seq(EvidenceId)
    /\ file = None \/ /\ file.epoch \in Nat
                      /\ file.gen \in [ObjectiveId -> Nat]
                      /\ file.states \in [ObjectiveId ->
                            [gen : Nat, budget : Option(ErrorBudget)]]
    /\ noted \in Seq(EvidenceId)
    /\ deliveries \in [ObjectiveId -> Seq(Nat)]
    /\ restarts \in 0..MaxRestarts

\* An id that occurs twice in s has at least cap other entries in between.
Apart(s, cap) ==
    \A j, k \in 1..Len(s) : j < k /\ s[j] = s[k] => k - j > cap

(***************************************************************************)
(* note_evidence and remember: evidence delivered again is taken in again  *)
(* only when both memories have forgotten it: RingCap other ids were noted *)
(* by the process and DedupCap others by the objective, whatever was       *)
(* rejected, redefined or loaded in between.                               *)
(***************************************************************************)
EvidenceCountedOnce ==
    /\ Apart(noted, RingCap)
    /\ \A o \in ObjectiveId : Apart(accumulators[o].taken, DedupCap)

(***************************************************************************)
(* The availability account never claims more than its evidence: its ratio *)
(* of successful to eligible units is no larger than the weighted mean of  *)
(* the availability that was stated, in either unit, whatever was stated.  *)
(***************************************************************************)
AvailabilityNeverOverstated ==
    \A o \in ObjectiveId : Dimension[o] = "Availability" =>
        10000 * accumulators[o].successful <= accumulators[o].reported

(***************************************************************************)
(* CostWindow: no cost is hidden.  A charge that was dropped is older than *)
(* the window at the latest charge time, or CostCap charges came after it, *)
(* also when charges arrive out of order.                                  *)
(***************************************************************************)
CostNotHidden ==
    \A o \in ObjectiveId :
        LET a == accumulators[o]
            dropped == Len(a.charged) - Len(a.cost)
        IN  /\ dropped >= 0
            /\ \A k \in 1..Len(a.cost) : a.cost[k] = a.charged[dropped + k]
            /\ \A k \in 1..dropped :
                  \/ Len(a.charged) - k >= CostCap
                  \/ /\ CostDuration > 0
                     /\ \E j \in 1..Len(a.charged) :
                           a.charged[j].time - a.charged[k].time > CostDuration

(***************************************************************************)
(* A budget never counts more than was delivered in its window: not after  *)
(* a rollover, a new generation of the objective or a restart from an      *)
(* older file.                                                             *)
(***************************************************************************)
BudgetNeverOvercounts ==
    \A o \in ObjectiveId :
        LET b == accumulators[o].budget
            d == deliveries[o]
        IN  b # None =>
              b.consumed <= Cardinality({k \in 1..Len(d) : d[k] >= b.window_start})

(***************************************************************************)
(* record_recovery_event: a recovery that was verified is over.  Whatever  *)
(* else happens, its duration no longer grows with the clock; only another *)
(* recovery event, a new generation or a restart changes it.               *)
(***************************************************************************)
RecoverySettles ==
    [][\A o \in ObjectiveId :
          LET a == accumulators[o]
          IN  /\ a.verified_at # None
              /\ accumulators'[o].gen = a.gen
              /\ restarts' = restarts
              /\ \A phase \in Phases : ~ record_recovery_event(o, phase)
              => current_recovery_duration(a)' = current_recovery_duration(a)]_vars

=============================================================================
