------------------------------ MODULE Authority ------------------------------
(***************************************************************************)
(* The authority core of the SloFabric class: the registry of policies and *)
(* contracts, the evaluations that issue enforcement intents, the          *)
(* authorisation of an intent, the lifecycle of the resulting receipt, and *)
(* save / load of the durable state (src/slofabric/fabric.cpp).            *)
(*                                                                         *)
(* Every public method holds one mutex from its first to its last          *)
(* statement, so a method is one action.  Three things happen without the  *)
(* lock and are what makes this component hard: an intent is a value its   *)
(* caller keeps between evaluate and authorize; save writes its snapshot   *)
(* after it has released the lock; load reads the file before it takes it. *)
(*                                                                         *)
(* The compliance verdict of an evaluation (which objective binds, and     *)
(* whether its state calls for an action) is an input here.                *)
(***************************************************************************)
EXTENDS Naturals, Sequences, FiniteSets

CONSTANTS
    ContractId,       \* the ids under which contracts are registered
    PolicyId,
    ObjectiveId,
    Service,
    Workload,
    Thread,           \* host threads that call save and load
    ContractDefs,     \* the contracts the host may register
    PolicyGens,       \* the generations of the policies the host may set
    Bindings,         \* the objectives that may bind; None: nothing to do
    ManagedIds,       \* the contract ids named in lifecycle calls
    EnforcementIds,   \* the receipt ids named in transition and complete calls
    None,             \* an absent contract, file or objective
    Cooldown,         \* EnforcementIntent::cooldown, seconds(5) in the code
    HistoryCap,       \* 1024 in the code, of both histories
    MaxTime,          \* bound: the clock
    MaxEvaluations,   \* bound: evaluation_counter
    MaxEnforcements,  \* bound: enforcement_counter
    MaxIncarnation    \* bound: crashes and loads

ContractLifecycle ==
    {"Draft", "Active", "Superseded", "Suspended", "Expired", "Retired"}

EnforcementLifecycle ==
    {"Proposed", "Authorized", "Dispatched", "Acknowledged", "Effective",
     "Failed", "Cancelled", "Superseded", "Expired", "OutcomeUnknown"}

(***************************************************************************)
(* A generation or an id is 0 when unset (identities.hpp), so a contract's *)
(* objectives are a function that gives 0 to the objectives it has not,    *)
(* and policies one that gives 0 to an unknown policy.  The optional       *)
(* expiration is a set of at most one time.                                *)
(***************************************************************************)
SloContract ==
    [id : ContractId, gen : Nat, service : Service, workload : Workload,
     objectives : [ObjectiveId -> Nat], policy_id : PolicyId,
     policy_gen : Nat, effective_from : Nat, expiration : SUBSET Nat,
     lifecycle : ContractLifecycle]

(***************************************************************************)
(* An intent with the generations it is bound to.  The record also serves  *)
(* as the EvaluationRecord of the evaluation that issued it.  The fields   *)
(* after evaluation_gen are history: the contract evaluated, the           *)
(* incarnation of the fabric, the clock and enforcement_counter then.      *)
(***************************************************************************)
EnforcementIntent ==
    [action : {"NoAction", "Act"}, objective_id : ObjectiveId \cup {None},
     objective_gen : Nat, service : Service, workload : Workload,
     epoch : Nat, contract_gen : Nat, policy_gen : Nat, evaluation_gen : Nat,
     contract : ContractId, incarnation : Nat, at : Nat, grants : Nat]

(***************************************************************************)
(* authorize copies every field of the intent into the receipt; "at" is    *)
(* history, the time of the authorisation.                                 *)
(***************************************************************************)
EnforcementReceipt ==
    [id : Nat, lifecycle : EnforcementLifecycle, intent : EnforcementIntent,
     at : Nat]

Accumulator == [gen : Nat, cooldown_until : Nat]

DurableState ==
    [epoch : Nat, policies : [PolicyId -> Nat],
     contracts : [ContractId -> SloContract \cup {None}],
     accumulators : [ObjectiveId -> Accumulator],
     enforcement_history : Seq(EnforcementReceipt),
     evaluation_history : Seq(EnforcementIntent)]

ASSUME ContractIdAssumption == ContractId \subseteq Nat
ASSUME ContractDefsAssumption ==
    ContractDefs \subseteq {c \in SloContract : Cardinality(c.expiration) <= 1}
ASSUME PolicyGensAssumption == PolicyGens \subseteq Nat \ {0}
ASSUME CallsAssumption ==
    /\ Bindings \subseteq ObjectiveId \cup {None}
    /\ ManagedIds \subseteq ContractId
    /\ EnforcementIds \subseteq Nat
ASSUME NoneAssumption ==
    /\ None \notin SloContract
    /\ None \notin DurableState
    /\ None \notin ObjectiveId
    /\ None \notin [op : {"save", "load"}, st : DurableState]
ASSUME BoundsAssumption ==
    /\ Cooldown \in Nat
    /\ HistoryCap \in Nat \ {0}
    /\ MaxTime \in Nat
    /\ MaxEvaluations \in Nat
    /\ MaxEnforcements \in Nat
    /\ MaxIncarnation \in Nat

VARIABLES
    now,                  \* the clock its callers pass in
    epoch,
    policies,             \* the generation of each policy, 0 if there is none
    contracts,
    accumulators,         \* per objective: generation (0: none) and cooldown
    evaluation_counter,
    evaluation_history,
    evaluation_by_id,
    enforcement_counter,
    enforcement_history,
    issued,               \* every intent an evaluation has returned
    pending,              \* per thread: a save or load that is doing its I/O
    file,                 \* the durable state on disk, or None
    incarnation           \* history: how often the state was lost or replaced

registry == <<policies, contracts>>
evaluations == <<evaluation_counter, evaluation_history, evaluation_by_id, issued>>
enforcements == <<enforcement_counter, enforcement_history>>
storage == <<pending, file>>
vars == <<now, epoch, registry, accumulators, evaluations, enforcements,
          storage, incarnation>>

NoAccumulator == [gen |-> 0, cooldown_until |-> 0]

\* A bounded history drops its oldest entry to make room for a new one.
push_back(history, x) ==
    Append(IF Len(history) >= HistoryCap THEN Tail(history) ELSE history, x)

NoPolicies == [p \in PolicyId |-> 0]
NoContracts == [c \in ContractId |-> None]
NoAccumulators == [o \in ObjectiveId |-> NoAccumulator]
NoRecords == [e \in 1..MaxEvaluations |-> None]
Idle == [t \in Thread |-> None]

Init ==
    /\ now = 0
    /\ epoch = 1
    /\ policies = NoPolicies
    /\ contracts = NoContracts
    /\ accumulators = NoAccumulators
    /\ evaluation_counter = 0
    /\ evaluation_history = << >>
    /\ evaluation_by_id = NoRecords
    /\ enforcement_counter = 0
    /\ enforcement_history = << >>
    /\ issued = {}
    /\ pending = Idle
    /\ file = None
    /\ incarnation = 0

tick ==
    /\ now < MaxTime
    /\ now' = now + 1
    /\ UNCHANGED <<epoch, registry, accumulators, evaluations, enforcements,
                   storage, incarnation>>

-----------------------------------------------------------------------------
(* Policies and contracts *)

registryOnly == UNCHANGED <<now, epoch, accumulators, evaluations,
                            enforcements, storage, incarnation>>

set_policy(p, gen) ==
    /\ gen > policies[p]
    /\ policies' = [policies EXCEPT ![p] = gen]
    /\ UNCHANGED contracts
    /\ registryOnly

register(c) ==
    /\ contracts[c.id] # None => contracts[c.id].gen < c.gen
    /\ contracts' = [contracts EXCEPT ![c.id] = c]
    /\ UNCHANGED policies
    /\ registryOnly

add_contract(c) ==
    /\ \E o \in ObjectiveId : c.objectives[o] # 0
    /\ register(c)

\* The replacement's objectives are not validated.
supersede_contract(c) == register(c)

set_lifecycle(id, lifecycle, effective_from, expiration) ==
    /\ contracts' = [contracts EXCEPT
          ![id] = [@ EXCEPT !.lifecycle = lifecycle,
                            !.effective_from = effective_from,
                            !.expiration = expiration]]
    /\ UNCHANGED policies
    /\ registryOnly

\* Mutant: activation clears the expiration.
activate_contract_renewed(id) ==
    /\ contracts[id] # None
    /\ LET c == contracts[id]
       IN  set_lifecycle(id, "Active",
                         IF c.effective_from > now THEN now ELSE c.effective_from, {})

activate_contract(id) ==
    /\ contracts[id] # None
    /\ LET c == contracts[id]
       IN  set_lifecycle(id, "Active",
                         IF c.effective_from > now THEN now ELSE c.effective_from,
                         c.expiration)

suspend_contract(id) ==
    /\ contracts[id] # None
    /\ set_lifecycle(id, "Suspended", contracts[id].effective_from,
                     contracts[id].expiration)

expire_contract(id) ==
    /\ contracts[id] # None
    /\ LET c == contracts[id]
       IN  set_lifecycle(id, "Expired", c.effective_from,
                         IF c.expiration # {} THEN c.expiration ELSE {now})

retire_contract(id) ==
    /\ contracts[id] # None
    /\ set_lifecycle(id, "Retired", contracts[id].effective_from,
                     contracts[id].expiration)

can_authorize(c) ==
    /\ c.lifecycle = "Active"
    /\ now >= c.effective_from
    /\ \A e \in c.expiration : now < e

-----------------------------------------------------------------------------
(* Evidence and evaluation *)

InScope(id, s, w) ==
    /\ contracts[id] # None
    /\ contracts[id].service = s
    /\ contracts[id].workload = w
    /\ can_authorize(contracts[id])

\* The live contract of a scope: the highest generation, then the lowest id.
Resolves(id, s, w) ==
    /\ InScope(id, s, w)
    /\ \A d \in ContractId : InScope(d, s, w) =>
          \/ contracts[d].gen < contracts[id].gen
          \/ contracts[d].gen = contracts[id].gen /\ id <= d

\* Mutant: every access starts a new accumulator.
get_accumulator_afresh(o, gen) == [gen |-> gen, cooldown_until |-> 0]

\* An accumulator of another generation is reset, its cooldown included.
get_accumulator(o, gen) ==
    IF accumulators[o].gen = gen THEN accumulators[o]
    ELSE [gen |-> gen, cooldown_until |-> 0]

Holds(id, o) ==
    /\ contracts[id] # None
    /\ contracts[id].objectives[o] # 0

accumulatorsOnly == UNCHANGED <<now, epoch, registry, evaluations,
                                enforcements, storage, incarnation>>

\* Evidence for an objective (ingest; record_recovery_event and
\* set_objective_budget do the same) goes to the accumulator of its newest
\* definition in any contract, whatever the state of that contract.
ingest(o) ==
    \E id \in ContractId :
        /\ Holds(id, o)
        /\ \A d \in ContractId : Holds(d, o) =>
              contracts[d].objectives[o] <= contracts[id].objectives[o]
        /\ accumulators' = [accumulators EXCEPT
              ![o] = get_accumulator(o, contracts[id].objectives[o])]
        /\ accumulatorsOnly

\* A violation event visits the definition of every contract in id order: the
\* accumulator ends at the last one, and is reset if any of them differs.
ingest_violation_event(o) ==
    \E last \in ContractId :
        /\ Holds(last, o)
        /\ \A d \in ContractId : Holds(d, o) => d <= last
        /\ accumulators' = [accumulators EXCEPT
              ![o] = IF \A d \in ContractId : Holds(d, o) =>
                           contracts[d].objectives[o] = accumulators[o].gen
                     THEN @
                     ELSE [gen |-> contracts[last].objectives[o],
                           cooldown_until |-> 0]]
        /\ accumulatorsOnly

\* The intent of an evaluation in which objective b binds and calls for an
\* action; b is None in every evaluation that calls for none.
NewIntent(id, b) ==
    LET c == contracts[id]
        gen == IF b = None THEN 0 ELSE c.objectives[b]
    IN  [action |-> IF /\ b # None
                       /\ now >= get_accumulator(b, gen).cooldown_until
                    THEN "Act" ELSE "NoAction",
         objective_id |-> b, objective_gen |-> gen,
         service |-> c.service, workload |-> c.workload,
         epoch |-> epoch, contract_gen |-> c.gen, policy_gen |-> c.policy_gen,
         evaluation_gen |-> evaluation_counter + 1,
         contract |-> id, incarnation |-> incarnation, at |-> now,
         grants |-> enforcement_counter]

\* Mutant: a record is not replaced.
record_once(i) ==
    IF evaluation_by_id[i.evaluation_gen] # None THEN evaluation_by_id
    ELSE [evaluation_by_id EXCEPT ![i.evaluation_gen] = i]

record_evaluation(i) == [evaluation_by_id EXCEPT ![i.evaluation_gen] = i]

evaluate(s, w) ==
    \E id \in ContractId :
        LET c == contracts[id]
            Held == {o \in ObjectiveId : c.objectives[o] # 0}
        IN  /\ Resolves(id, s, w)
            /\ policies[c.policy_id] # 0
            /\ policies[c.policy_id] = c.policy_gen
            /\ Held # {}
            /\ evaluation_counter < MaxEvaluations
            /\ accumulators' = [o \in ObjectiveId |->
                  IF o \in Held THEN get_accumulator(o, c.objectives[o])
                  ELSE accumulators[o]]
            /\ \E b \in Bindings \cap (Held \cup {None}) :
                  LET i == NewIntent(id, b)
                  IN  /\ evaluation_history' = push_back(evaluation_history, i)
                      /\ evaluation_by_id' = record_evaluation(i)
                      /\ issued' = issued \cup {i}
            /\ evaluation_counter' = evaluation_counter + 1
            /\ UNCHANGED <<now, epoch, registry, enforcements, storage, incarnation>>

-----------------------------------------------------------------------------
(* Enforcement *)

HoldsTarget(id, i) ==
    /\ i.objective_id # None
    /\ Holds(id, i.objective_id)
    /\ contracts[id].service = i.service

\* The contract an intent is checked against: of those of the service that
\* hold its objective, the last one in id order.
Target(id, i) ==
    /\ HoldsTarget(id, i)
    /\ \A d \in ContractId : HoldsTarget(d, i) => d <= id

\* Mutant: the contract generation is not compared.
Authorizable_any_generation(i) ==
    /\ i.epoch = epoch
    /\ i.action # "NoAction"
    /\ \E id \in ContractId :
          /\ Target(id, i)
          /\ can_authorize(contracts[id])
          /\ policies[contracts[id].policy_id] # 0
          /\ policies[contracts[id].policy_id] = i.policy_gen

\* Mutant: the contract may be inactive or expired.
Authorizable_inactive(i) ==
    /\ i.epoch = epoch
    /\ i.action # "NoAction"
    /\ \E id \in ContractId :
          /\ Target(id, i)
          /\ contracts[id].gen = i.contract_gen
          /\ policies[contracts[id].policy_id] # 0
          /\ policies[contracts[id].policy_id] = i.policy_gen

\* The conditions under which authorize accepts an intent.
Authorizable(i) ==
    /\ i.epoch = epoch
    /\ i.action # "NoAction"
    /\ \E id \in ContractId :
          /\ Target(id, i)
          /\ contracts[id].gen = i.contract_gen
          /\ can_authorize(contracts[id])
          /\ policies[contracts[id].policy_id] # 0
          /\ policies[contracts[id].policy_id] = i.policy_gen

NewReceipt(i) ==
    [id |-> enforcement_counter + 1, lifecycle |-> "Authorized", intent |-> i,
     at |-> now]

authorize(i) ==
    /\ Authorizable(i)
    /\ enforcement_counter < MaxEnforcements
    /\ enforcement_counter' = enforcement_counter + 1
    /\ accumulators' =
          IF accumulators[i.objective_id].gen = 0 THEN accumulators
          ELSE [accumulators EXCEPT
                   ![i.objective_id].cooldown_until = now + Cooldown]
    /\ enforcement_history' = push_back(enforcement_history, NewReceipt(i))
    /\ UNCHANGED <<now, epoch, registry, evaluations, storage, incarnation>>

\* Mutant: a late acknowledgement revives an unknown outcome.
transition_legal_late_ack(from, to) ==
    \/ from = "OutcomeUnknown" /\ to = "Acknowledged"
    \/ from = "Dispatched" /\ to \in {"Acknowledged", "OutcomeUnknown"}
    \/ from = "Authorized" /\ to = "Dispatched"

enforcement_transition_legal(from, to) ==
    CASE from = "Proposed" ->
            to \in {"Authorized", "Cancelled", "Superseded", "Expired"}
      [] from = "Authorized" ->
            to \in {"Dispatched", "Cancelled", "Superseded", "Expired"}
      [] from = "Dispatched" ->
            to \in {"Acknowledged", "Failed", "Cancelled", "Superseded",
                    "Expired", "OutcomeUnknown"}
      [] from = "Acknowledged" ->
            to \in {"Effective", "Failed", "Cancelled", "Superseded",
                    "Expired", "OutcomeUnknown"}
      [] from = "Effective" -> to \in {"Expired", "Superseded"}
      [] from \in {"Failed", "Cancelled", "Superseded"} -> to = "Expired"
      [] from = "OutcomeUnknown" -> to \in {"Expired", "Failed"}
      [] OTHER -> FALSE

\* The receipt at position k is the one a scan for this id finds.
Finds(id, k) ==
    /\ enforcement_history[k].id = id
    /\ \A j \in 1..(k - 1) : enforcement_history[j].id # id

move(k, to) ==
    /\ enforcement_history' = [enforcement_history EXCEPT ![k].lifecycle = to]
    /\ UNCHANGED <<now, epoch, registry, accumulators, evaluations,
                   enforcement_counter, storage, incarnation>>

transition(id, to) ==
    \E k \in 1..Len(enforcement_history) :
        /\ Finds(id, k)
        /\ enforcement_transition_legal(enforcement_history[k].lifecycle, to)
        /\ move(k, to)

\* Completing an Effective enforcement again succeeds and changes nothing.
complete_enforcement(id) ==
    \E k \in 1..Len(enforcement_history) :
        /\ Finds(id, k)
        /\ enforcement_history[k].lifecycle = "Acknowledged"
        /\ move(k, "Effective")

-----------------------------------------------------------------------------
(* Persistence and restart *)

fabric == <<epoch, registry, accumulators, evaluations, enforcements>>

Snapshot ==
    [epoch |-> epoch, policies |-> policies, contracts |-> contracts,
     accumulators |-> accumulators, enforcement_history |-> enforcement_history,
     evaluation_history |-> evaluation_history]

\* save, under the lock: the durable state is copied.
save_snapshot(t) ==
    /\ pending[t] = None
    /\ pending' = [pending EXCEPT ![t] = [op |-> "save", st |-> Snapshot]]
    /\ UNCHANGED <<now, fabric, file, incarnation>>

\* Mutant: the history is copied after the lock was released.
save_write_late_history(t) ==
    /\ pending[t] # None
    /\ pending[t].op = "save"
    /\ file' \in {[pending[t].st EXCEPT !.enforcement_history = enforcement_history],
                  file}
    /\ pending' = [pending EXCEPT ![t] = None]
    /\ UNCHANGED <<now, fabric, incarnation>>

\* save, after it released the lock: the file is replaced, or the write fails
\* and the old file stays.
save_write(t) ==
    /\ pending[t] # None
    /\ pending[t].op = "save"
    /\ file' \in {pending[t].st, file}
    /\ pending' = [pending EXCEPT ![t] = None]
    /\ UNCHANGED <<now, fabric, incarnation>>

\* load, before it takes the lock: the file is read and decoded.
load_read(t) ==
    /\ pending[t] = None
    /\ file # None
    /\ pending' = [pending EXCEPT ![t] = [op |-> "load", st |-> file]]
    /\ UNCHANGED <<now, fabric, file, incarnation>>

\* Mutant: an objective state that is not kept is missing.
Restored_or_missing(st, o) ==
    LET saved == st.accumulators[o]
    IN  IF /\ saved.gen # 0
           /\ \E id \in ContractId : /\ st.contracts[id] # None
                                     /\ st.contracts[id].objectives[o] = saved.gen
        THEN saved ELSE None

\* A saved objective state is kept only when a loaded contract holds the
\* objective at the saved generation.
Restored(st, o) ==
    LET saved == st.accumulators[o]
    IN  IF /\ saved.gen # 0
           /\ \E id \in ContractId : /\ st.contracts[id] # None
                                     /\ st.contracts[id].objectives[o] = saved.gen
        THEN saved ELSE NoAccumulator

\* evaluation_by_id is filled from the front of the history to its back.
IndexById(history) ==
    LET LastOf(e, k) == /\ history[k].evaluation_gen = e
                        /\ \A j \in (k + 1)..Len(history) :
                              history[j].evaluation_gen # e
    IN  [e \in 1..MaxEvaluations |->
            IF \E k \in 1..Len(history) : LastOf(e, k)
            THEN history[CHOOSE k \in 1..Len(history) : LastOf(e, k)]
            ELSE None]

\* Mutant: the epoch does not advance.
next_epoch_same(st) == st.epoch

next_epoch(st) == st.epoch + 1

\* load, under the lock: the state is replaced; the counters are not.
load_apply(t) ==
    /\ pending[t] # None
    /\ pending[t].op = "load"
    /\ incarnation < MaxIncarnation
    /\ LET st == pending[t].st
       IN  /\ epoch' = next_epoch(st)
           /\ policies' = st.policies
           /\ contracts' = st.contracts
           /\ accumulators' = [o \in ObjectiveId |-> Restored(st, o)]
           /\ enforcement_history' = st.enforcement_history
           /\ evaluation_history' = st.evaluation_history
           /\ evaluation_by_id' = IndexById(st.evaluation_history)
    /\ pending' = [pending EXCEPT ![t] = None]
    /\ incarnation' = incarnation + 1
    /\ UNCHANGED <<now, evaluation_counter, enforcement_counter, issued, file>>

\* The process dies and a new one constructs an empty fabric.  The file and
\* the intents that were sent elsewhere survive.
crash ==
    /\ incarnation < MaxIncarnation
    /\ epoch' = 1
    /\ policies' = NoPolicies
    /\ contracts' = NoContracts
    /\ accumulators' = NoAccumulators
    /\ evaluation_counter' = 0
    /\ evaluation_history' = << >>
    /\ evaluation_by_id' = NoRecords
    /\ enforcement_counter' = 0
    /\ enforcement_history' = << >>
    /\ pending' = Idle
    /\ incarnation' = incarnation + 1
    /\ UNCHANGED <<now, issued, file>>

-----------------------------------------------------------------------------
RegistryStep ==
    \/ \E p \in PolicyId, gen \in PolicyGens : set_policy(p, gen)
    \/ \E c \in ContractDefs : add_contract(c) \/ supersede_contract(c)
    \/ \E id \in ManagedIds :
          \/ activate_contract(id)
          \/ suspend_contract(id)
          \/ expire_contract(id)
          \/ retire_contract(id)

EvidenceStep ==
    \E o \in ObjectiveId : ingest(o) \/ ingest_violation_event(o)

EnforcementStep ==
    \/ \E i \in issued : authorize(i)
    \/ \E id \in EnforcementIds :
          \/ complete_enforcement(id)
          \/ \E to \in EnforcementLifecycle : transition(id, to)

StorageStep ==
    \/ \E t \in Thread :
          save_snapshot(t) \/ save_write(t) \/ load_read(t) \/ load_apply(t)
    \/ crash

Next ==
    \/ tick
    \/ RegistryStep
    \/ EvidenceStep
    \/ \E s \in Service, w \in Workload : evaluate(s, w)
    \/ EnforcementStep
    \/ StorageStep

Spec == Init /\ [][Next]_vars
-----------------------------------------------------------------------------
(* Properties *)

Option(S) == S \cup {None}

\* The types of the variables; the counters stay within their bounds.
TypeOK ==
    /\ now \in 0..MaxTime
    /\ epoch \in Nat
    /\ policies \in [PolicyId -> Nat]
    /\ contracts \in [ContractId -> Option(SloContract)]
    /\ accumulators \in [ObjectiveId -> Accumulator]
    /\ evaluation_counter \in 0..MaxEvaluations
    /\ evaluation_history \in Seq(EnforcementIntent)
    /\ evaluation_by_id \in [1..MaxEvaluations -> Option(EnforcementIntent)]
    /\ enforcement_counter \in 0..MaxEnforcements
    /\ enforcement_history \in Seq(EnforcementReceipt)
    /\ issued \subseteq EnforcementIntent
    /\ pending \in [Thread -> Option([op : {"save", "load"}, st : DurableState])]
    /\ file \in Option(DurableState)
    /\ incarnation \in 0..MaxIncarnation

\* Receipt r was authorised before receipt q: in an earlier epoch, or in the
\* same epoch under a smaller id.
Before(r, q) ==
    \/ r.intent.epoch < q.intent.epoch
    \/ r.intent.epoch = q.intent.epoch /\ r.id < q.id

Ordered(history) ==
    \A j, k \in 1..Len(history) : j < k => Before(history[j], history[k])

(***************************************************************************)
(* The enforcement history lists receipts in the order in which they were  *)
(* authorised and an (epoch, id) pair names at most one of them, although  *)
(* load keeps the counters of the running process, a new process restarts  *)
(* them at zero, and the restored receipts keep their old ids.             *)
(***************************************************************************)
HistoryOrdered == Ordered(enforcement_history)

(***************************************************************************)
(* load: every receipt and every evaluation it restores carries an epoch   *)
(* smaller than the new one, so the authority of the previous incarnation  *)
(* can be told from the authority of this one.                             *)
(***************************************************************************)
RestoredIsOld ==
    [][incarnation' > incarnation =>
          /\ \A k \in 1..Len(enforcement_history') :
                enforcement_history'[k].intent.epoch < epoch'
          /\ \A k \in 1..Len(evaluation_history') :
                evaluation_history'[k].epoch < epoch']_vars

\* No receipt of a history is bound to a newer generation of its contract
\* than the registry knows.
Covers(registered, history) ==
    \A k \in 1..Len(history) :
        LET i == history[k].intent
        IN  /\ registered[i.contract] # None
            /\ i.contract_gen <= registered[i.contract].gen

\* No two contracts of a service hold one objective.
ObjectivesDisjoint ==
    \A c, d \in ContractDefs, o \in ObjectiveId :
        /\ c.service = d.service
        /\ c.objectives[o] # 0
        /\ d.objectives[o] # 0
        => c.id = d.id

(***************************************************************************)
(* save: whatever the other threads do between the snapshot and the write, *)
(* and whichever save is written last, the file is one consistent state:   *)
(* its registry knows the contract generation of each receipt it holds.    *)
(***************************************************************************)
FileCoversReceipts ==
    file # None => Covers(file.contracts, file.enforcement_history)

(***************************************************************************)
(* The authority an enforcement is bound to never moves backwards: of two  *)
(* receipts of one contract, the later one is bound to the same or a newer *)
(* generation, also when an intent was held while its contract was         *)
(* superseded and the process restarted.                                   *)
(***************************************************************************)
AuthorityMovesForward ==
    \A j, k \in 1..Len(enforcement_history) :
        LET r == enforcement_history[j].intent
            q == enforcement_history[k].intent
        IN  j < k /\ r.contract = q.contract => r.contract_gen <= q.contract_gen

Granted == enforcement_history'[Len(enforcement_history')]
Grants == enforcement_counter' > enforcement_counter

(***************************************************************************)
(* authorize: the contract an intent was evaluated for is, at the moment   *)
(* the intent is authorised, still registered at the generation of the     *)
(* intent, active and within its time window, and governed by the policy   *)
(* generation of the intent.                                               *)
(***************************************************************************)
AuthorizedByOwnContract ==
    [][Grants =>
          LET i == Granted.intent
              c == contracts[i.contract]
          IN  /\ c # None
              /\ c.gen = i.contract_gen
              /\ can_authorize(c)
              /\ policies[c.policy_id] = i.policy_gen]_vars

(***************************************************************************)
(* expire_contract and the passing of time: a contract generation whose    *)
(* expiration has passed never becomes able to authorise again, not even   *)
(* by activate_contract; only a new generation or a restart changes that.  *)
(***************************************************************************)
LapsedStaysLapsed ==
    [][\A id \in ContractId :
          /\ contracts[id] # None
          /\ \E e \in contracts[id].expiration : e <= now
          /\ contracts'[id] # None
          /\ contracts'[id].gen = contracts[id].gen
          /\ incarnation' = incarnation
          => ~ can_authorize(contracts[id])']_vars

(***************************************************************************)
(* evaluate: an evaluation made after an enforcement of an objective was   *)
(* authorised does not ask for an action on that objective before the      *)
(* cooldown has passed, whatever evidence and whichever new contract       *)
(* arrived in between; a new generation of the objective starts afresh.    *)
(***************************************************************************)
CooldownHonoured ==
    \A i \in issued, k \in 1..Len(enforcement_history) :
        LET r == enforcement_history[k]
        IN  /\ i.action = "Act"
            /\ i.incarnation = incarnation
            /\ r.intent.objective_id = i.objective_id
            /\ r.intent.objective_gen = i.objective_gen
            /\ r.intent.epoch = epoch
            /\ r.id <= i.grants
            => i.at >= r.at + Cooldown

Aborted == {"Failed", "Cancelled", "Superseded", "Expired", "OutcomeUnknown"}

(***************************************************************************)
(* transition and complete_enforcement: no sequence of calls takes an      *)
(* enforcement that failed, was cancelled, superseded or expired, or whose *)
(* outcome is unknown, back to a live state or to Effective.               *)
(***************************************************************************)
AbortedNeverCommits ==
    [][incarnation' = incarnation =>
          \A j \in 1..Len(enforcement_history), k \in 1..Len(enforcement_history') :
              LET r == enforcement_history[j]
                  q == enforcement_history'[k]
              IN  /\ r.id = q.id
                  /\ r.intent.epoch = q.intent.epoch
                  /\ r.lifecycle \in Aborted
                  => q.lifecycle \in Aborted]_vars

(***************************************************************************)
(* get_evaluation: the id of an evaluation made since the last restart     *)
(* finds that evaluation, not one of a previous incarnation whose id it    *)
(* shares.                                                                 *)
(***************************************************************************)
EvaluationLookupExact ==
    \A i \in issued :
        i.incarnation = incarnation => evaluation_by_id[i.evaluation_gen] = i

=============================================================================
