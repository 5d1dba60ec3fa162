----------------------------- MODULE Enforcement -----------------------------
(***************************************************************************)
(* The way of an intent to the runtime it acts on: SloFabric::dispatch     *)
(* (fabric.cpp), EnforcementRouter and ReferenceEnforcementSink            *)
(* (adapter.hpp), together with the authority core that issues it.         *)
(*                                                                         *)
(* dispatch counts the call under the fabric's lock and calls the sink     *)
(* after it has released it, so whatever the sink is told and whatever the *)
(* fabric does may come in between.  The sink itself has no lock: its      *)
(* callers use it one call at a time.  Counter and sink live and die with  *)
(* the process, so this is one lifetime of it, without save and load.      *)
(***************************************************************************)
EXTENDS Authority

CONSTANTS
    Dispatcher,     \* host threads that call dispatch
    Actions,        \* the actions that may be asked for (EnforcementAction)
    Wired,          \* the interfaces that have an implementation: the sink
    MaxDispatches   \* bound: calls of dispatch and of the router

InterfaceOf ==
    [Admit |-> "admission", Defer |-> "admission", Reject |-> "admission",
     Throttle |-> "admission",
     ChangeQueuePriority |-> "scheduler", ReserveCapacity |-> "scheduler",
     IncreaseCapacity |-> "resource", Replicate |-> "resource",
     PromoteWarmCapacity |-> "resource", ChangePlacement |-> "resource",
     Failover |-> "recovery", Recover |-> "recovery",
     ReplanRecovery |-> "recovery", Drain |-> "recovery",
     ReclaimMemory |-> "memory", ReduceResidency |-> "memory",
     PreemptLowerPriority |-> "preemption", LimitPower |-> "power"]

\* The router answers ok to these and calls nobody.
Unrouted ==
    {"NoAction", "ReduceBatchSize", "IncreaseBatchSize", "Escalate",
     "ManualInterventionRequired"}

Interface == {InterfaceOf[a] : a \in DOMAIN InterfaceOf}
EnforcementAction == DOMAIN InterfaceOf \cup Unrouted

StatusCode == {"Ok", "InvalidInput", "StaleAuthority", "EnforcementFailed"}

ASSUME AdapterAssumption ==
    /\ Actions \subseteq EnforcementAction \ {"NoAction"}
    /\ Wired \subseteq Interface
    /\ MaxDispatches \in Nat
    /\ None \notin EnforcementIntent
    /\ None \notin EnforcementAction
    /\ None \notin [action : EnforcementAction, intent : EnforcementIntent]

(***************************************************************************)
(* A dispatch as the sink records it; "fence" is history, the generations  *)
(* the sink was set to then.                                               *)
(***************************************************************************)
Generations == [epoch : Nat, contract_gen : Nat, policy_gen : Nat, evaluation_gen : Nat]

DispatchRecord ==
    [action : EnforcementAction, intent : EnforcementIntent, status : StatusCode,
     seq : Nat, fence : Option(Generations)]

VARIABLES
    dispatch_counter,
    in_flight,    \* per thread: the call of dispatch between lock and sink
    routed,       \* history: the router's calls that reached the sink
    records, seq, \* of the sink
    fence,        \* the generations the sink is set to; None: disabled
    fail_all

host == <<dispatch_counter, in_flight, routed>>
sink == <<records, seq, fence, fail_all>>
adapterVars == <<host, sink>>
allVars == <<vars, adapterVars>>

NoCall == [d \in Dispatcher |-> None]

EnforcementInit ==
    /\ Init
    /\ dispatch_counter = 0
    /\ in_flight = NoCall
    /\ routed = 0
    /\ records = << >>
    /\ seq = 0
    /\ fence = None
    /\ fail_all = FALSE

-----------------------------------------------------------------------------
(* The sink *)

GenerationsOf(i) ==
    [epoch |-> i.epoch, contract_gen |-> i.contract_gen,
     policy_gen |-> i.policy_gen, evaluation_gen |-> i.evaluation_gen]

validate_intent_generations(i) ==
    /\ i.contract_gen # 0
    /\ i.policy_gen # 0
    /\ i.evaluation_gen # 0
    /\ i.epoch # 0

\* Mutant: the evaluation generation is not compared.
fenced_off_any_evaluation(i) ==
    /\ fence # None
    /\ GenerationsOf([i EXCEPT !.evaluation_gen = fence.evaluation_gen]) # fence

\* The fence is up and the intent is of other generations.
fenced_off(i) == fence # None /\ GenerationsOf(i) # fence

status_of(i) ==
    CASE ~ validate_intent_generations(i) -> "InvalidInput"
      [] validate_intent_generations(i) /\ fenced_off(i) -> "StaleAuthority"
      [] OTHER -> IF fail_all THEN "EnforcementFailed" ELSE "Ok"

\* Every dispatch is numbered and recorded, whatever becomes of it.
sink_dispatch(action, i) ==
    /\ seq' = seq + 1
    /\ records' = Append(records,
          [action |-> action, intent |-> i, status |-> status_of(i),
           seq |-> seq + 1, fence |-> fence])
    /\ UNCHANGED <<fence, fail_all>>

\* The method an interface has for an action; the sink implements them all.
enforce(action, i) == sink_dispatch(action, i)

sinkOnly == UNCHANGED <<vars, host>>

set_authorized_generations(g) ==
    /\ fence' = g
    /\ UNCHANGED <<records, seq, fail_all>>
    /\ sinkOnly

disable_generation_fence ==
    /\ fence # None
    /\ fence' = None
    /\ UNCHANGED <<records, seq, fail_all>>
    /\ sinkOnly

set_fail_all(b) ==
    /\ fail_all' = b
    /\ UNCHANGED <<records, seq, fence>>
    /\ sinkOnly

\* Mutant: the numbers start again.
clear_numbers ==
    /\ records # << >>
    /\ records' = << >>
    /\ seq' = 0
    /\ UNCHANGED <<fence, fail_all>>
    /\ sinkOnly

\* The numbers go on.
clear ==
    /\ records # << >>
    /\ records' = << >>
    /\ UNCHANGED <<seq, fence, fail_all>>
    /\ sinkOnly

-----------------------------------------------------------------------------
(* The calls of the host *)

\* The action of an intent, which Authority leaves open.
ActionsOf(i) == IF i.action = "NoAction" THEN {"NoAction"} ELSE Actions

Calls == dispatch_counter + routed

\* dispatch, under the fabric's lock.  Nothing is asked of the intent: it need
\* not be authorised, nor call for an action.
dispatch_counted(d, i, action) ==
    /\ in_flight[d] = None
    /\ Calls < MaxDispatches
    /\ dispatch_counter' = dispatch_counter + 1
    /\ in_flight' = [in_flight EXCEPT ![d] = [action |-> action, intent |-> i]]
    /\ UNCHANGED <<vars, routed, sink>>

\* dispatch, after it released the lock.
dispatch_delivered(d) ==
    /\ in_flight[d] # None
    /\ sink_dispatch(in_flight[d].action, in_flight[d].intent)
    /\ in_flight' = [in_flight EXCEPT ![d] = None]
    /\ UNCHANGED <<vars, dispatch_counter, routed>>

\* The router: an action without an interface, or whose interface nobody
\* implements, stops here (ok, NotReady).
route(i, action) ==
    /\ Calls < MaxDispatches
    /\ action \in DOMAIN InterfaceOf
    /\ InterfaceOf[action] \in Wired
    /\ enforce(action, i)
    /\ routed' = routed + 1
    /\ UNCHANGED <<vars, dispatch_counter, in_flight>>

AdapterStep ==
    \/ \E i \in issued, action \in Actions \cup {"NoAction"} :
          /\ action \in ActionsOf(i)
          /\ \/ \E d \in Dispatcher : dispatch_counted(d, i, action)
             \/ route(i, action)
    \/ \E d \in Dispatcher : dispatch_delivered(d)

SinkStep ==
    \/ \E i \in issued : set_authorized_generations(GenerationsOf(i))
    \/ disable_generation_fence
    \/ \E b \in BOOLEAN : b # fail_all /\ set_fail_all(b)
    \/ clear

\* What the fabric does meanwhile.
FabricStep ==
    /\ \/ RegistryStep
       \/ \E s \in Service, w \in Workload : evaluate(s, w)
       \/ EnforcementStep
    /\ UNCHANGED adapterVars

EnforcementNext ==
    \/ FabricStep
    \/ AdapterStep
    \/ SinkStep

EnforcementSpec == EnforcementInit /\ [][EnforcementNext]_allVars
-----------------------------------------------------------------------------
(* Properties *)

\* The types of the variables; no call reaches the sink uncounted.
AdapterTypeOK ==
    /\ dispatch_counter \in 0..MaxDispatches
    /\ in_flight \in [Dispatcher ->
          Option([action : EnforcementAction, intent : EnforcementIntent])]
    /\ routed \in 0..MaxDispatches
    /\ records \in Seq(DispatchRecord)
    /\ seq \in 0..MaxDispatches
    /\ fence \in Option(Generations)
    /\ fail_all \in BOOLEAN

InFlight == {d \in Dispatcher : in_flight[d] # None}

(***************************************************************************)
(* Every call that was counted is in the sink or on its way to it, once:   *)
(* the sink's numbers account for the fabric's counter and the router's    *)
(* calls, whatever was cleared, refused or made to fail meanwhile, and the *)
(* records the sink holds are the last ones, numbered without a gap.       *)
(***************************************************************************)
DispatchesAccounted ==
    /\ seq + Cardinality(InFlight) = dispatch_counter + routed
    /\ \A k \in 1..Len(records) : records[k].seq = seq - Len(records) + k

Accepted == {k \in 1..Len(records) : records[k].status = "Ok"}

(***************************************************************************)
(* ReferenceEnforcementSink: "rejects dispatches whose generation fields   *)
(* do not match the currently authorized generations".  Under one setting  *)
(* of the fence the sink accepts the intent of one evaluation only: none   *)
(* that was made before or after it, by whichever path and however long    *)
(* after its evaluation it arrives.                                        *)
(***************************************************************************)
FenceAdmitsOneIntent ==
    \A j, k \in Accepted :
        LET r == records[j]
            q == records[k]
        IN  /\ r.fence # None
            /\ r.fence = q.fence
            => r.intent = q.intent
=============================================================================
