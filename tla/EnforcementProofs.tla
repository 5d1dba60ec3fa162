-------------------------- MODULE EnforcementProofs --------------------------
(***************************************************************************)
(* Proofs about dispatch and the sink: no call is lost or counted twice    *)
(* between the fabric's counter and the sink's numbers, and a fence admits *)
(* the intent of one evaluation only.                                      *)
(*                                                                         *)
(* Enforcement is Authority with a host and a sink beside it, so a         *)
(* behaviour of EnforcementSpec is one of Authority's Spec, and what is    *)
(* proved of the authority core holds here as well.                        *)
(***************************************************************************)
EXTENDS Enforcement, AuthorityProofs, FiniteSetTheorems

\* A step of the host or of the sink is a stuttering step of the fabric.
LEMMA StepIsFabricStep == [EnforcementNext]_allVars => [Next]_vars
<1> SUFFICES ASSUME EnforcementNext PROVE [Next]_vars
    BY DEF allVars
<1>1. CASE FabricStep
    BY <1>1 DEF FabricStep, Next
<1>2. CASE AdapterStep
    BY <1>2 DEF AdapterStep, dispatch_counted, dispatch_delivered, route
<1>3. CASE SinkStep
    BY <1>3 DEF SinkStep, set_authorized_generations, disable_generation_fence,
                set_fail_all, clear, sinkOnly
<1> QED BY <1>1, <1>2, <1>3 DEF EnforcementNext

\* SloFabric: what its host does with the intents it hands out is nothing the
\* authority core would not allow.
LEMMA EnforcementIsAuthority == EnforcementSpec => Spec
<1>1. EnforcementInit => Init
    BY DEF EnforcementInit
<1> QED BY <1>1, StepIsFabricStep, PTL DEF EnforcementSpec, Spec

(***************************************************************************)
(* transition and complete_enforcement, while dispatches and routed calls  *)
(* go on: an enforcement that was aborted is never live again.             *)
(***************************************************************************)
THEOREM AbortedStaysAbortedHere == EnforcementSpec => AbortedNeverCommits
BY EnforcementIsAuthority, AbortedStaysAborted

-----------------------------------------------------------------------------
(* Accounting for the calls *)

Call == [action : EnforcementAction, intent : EnforcementIntent]

(***************************************************************************)
(* The inductive invariant: the threads in flight are finitely many,       *)
(* because every one of them was counted, and no more calls were counted   *)
(* than the bound allows, so the sink's numbers stay within it.            *)
(***************************************************************************)
AccountInv ==
    /\ TypeOK
    /\ AdapterTypeOK
    /\ IsFiniteSet(InFlight)
    /\ Calls <= MaxDispatches
    /\ DispatchesAccounted

adapterTypes == <<dispatch_counter, in_flight, routed, records, seq, fence, fail_all>>

\* The facts of the invariant that the counting rests on.
LEMMA AccountFacts ==
    ASSUME AccountInv
    PROVE  /\ dispatch_counter \in Nat /\ routed \in Nat /\ seq \in Nat
           /\ MaxDispatches \in Nat /\ in_flight \in [Dispatcher -> Option(Call)]
           /\ IsFiniteSet(InFlight) /\ Cardinality(InFlight) \in Nat
           /\ seq + Cardinality(InFlight) = dispatch_counter + routed
           /\ dispatch_counter + routed <= MaxDispatches
<1>1. in_flight \in [Dispatcher -> Option(Call)]
    BY DEF AccountInv, AdapterTypeOK, Call
<1>2. MaxDispatches \in Nat
    BY AdapterAssumption
<1>3. dispatch_counter \in Nat /\ routed \in Nat /\ seq \in Nat
    BY <1>2 DEF AccountInv, AdapterTypeOK
<1>4. /\ IsFiniteSet(InFlight)
      /\ seq + Cardinality(InFlight) = dispatch_counter + routed
      /\ dispatch_counter + routed <= MaxDispatches
    BY DEF AccountInv, DispatchesAccounted, Calls
<1> QED BY <1>1, <1>2, <1>3, <1>4, FS_CardinalityType

LEMMA AccountUnchanged ==
    ASSUME AccountInv, TypeOK', UNCHANGED adapterTypes
    PROVE  AccountInv'
BY DEF AccountInv, adapterTypes, AdapterTypeOK, InFlight, Calls, DispatchesAccounted

\* What the sink does with a call, whichever way it came.
LEMMA SinkRecords ==
    ASSUME AccountInv, NEW action \in EnforcementAction,
           NEW i \in EnforcementIntent, sink_dispatch(action, i)
    PROVE  /\ records' \in Seq(DispatchRecord)
           /\ Len(records') = Len(records) + 1
           /\ \A k \in 1..Len(records) : records'[k] = records[k]
           /\ records'[Len(records')] =
                 [action |-> action, intent |-> i, status |-> status_of(i),
                  seq |-> seq + 1, fence |-> fence]
           /\ seq' = seq + 1
           /\ fence' = fence /\ fail_all' = fail_all
           /\ \A k \in 1..Len(records') :
                 records'[k].seq = seq' - Len(records') + k
<1> DEFINE r == [action |-> action, intent |-> i, status |-> status_of(i),
                 seq |-> seq + 1, fence |-> fence]
<1>1. /\ records \in Seq(DispatchRecord) /\ seq \in Nat
      /\ fence \in Option(Generations)
      /\ \A k \in 1..Len(records) : records[k].seq = seq - Len(records) + k
    BY AdapterAssumption DEF AccountInv, AdapterTypeOK, DispatchesAccounted
<1>2. status_of(i) \in StatusCode
    BY DEF status_of, StatusCode
<1>3. r \in DispatchRecord /\ r.seq = seq + 1
    BY <1>1, <1>2 DEF DispatchRecord
<1>4. records' = Append(records, r) /\ seq' = seq + 1
      /\ fence' = fence /\ fail_all' = fail_all
    BY DEF sink_dispatch
<1> HIDE DEF r
<1>5. /\ records' \in Seq(DispatchRecord)
      /\ Len(records') = Len(records) + 1
      /\ \A k \in 1..Len(records) : records'[k] = records[k]
      /\ records'[Len(records) + 1] = r
    BY <1>1, <1>3, <1>4, AppendProperties
<1>6. Len(records) \in Nat
    BY <1>1, LenProperties
<1>7. \A k \in 1..Len(records') : records'[k].seq = seq' - Len(records') + k
    <2> SUFFICES ASSUME NEW k \in 1..Len(records')
                 PROVE  records'[k].seq = seq' - Len(records') + k
        OBVIOUS
    <2>1. CASE k = Len(records) + 1
        BY <1>1, <1>3, <1>4, <1>5, <1>6, <2>1
    <2>2. CASE k \in 1..Len(records)
        BY <1>1, <1>4, <1>5, <1>6, <2>2
    <2> QED BY <1>5, <1>6, <2>1, <2>2
<1> QED BY <1>4, <1>5, <1>7 DEF r

\* dispatch, under the lock: one more call is counted, one more is in flight.
LEMMA AccountCounted ==
    ASSUME AccountInv, TypeOK', NEW d \in Dispatcher, NEW i \in EnforcementIntent,
           NEW action \in EnforcementAction, dispatch_counted(d, i, action)
    PROVE  AccountInv'
<1> DEFINE c == [action |-> action, intent |-> i]
<1>1. /\ dispatch_counter \in Nat /\ routed \in Nat /\ seq \in Nat
      /\ MaxDispatches \in Nat /\ in_flight \in [Dispatcher -> Option(Call)]
      /\ IsFiniteSet(InFlight)
      /\ seq + Cardinality(InFlight) = dispatch_counter + routed
    BY AccountFacts
<1>2. /\ in_flight[d] = None
      /\ dispatch_counter + routed < MaxDispatches
      /\ dispatch_counter' = dispatch_counter + 1
      /\ in_flight' = [in_flight EXCEPT ![d] = c]
      /\ UNCHANGED <<routed, records, seq, fence, fail_all>>
    BY DEF dispatch_counted, sink, Calls
<1>3. c \in Call /\ c # None
    BY AdapterAssumption DEF Call
<1> HIDE DEF c
<1>4. in_flight' \in [Dispatcher -> Option(Call)]
    BY <1>1, <1>2, <1>3 DEF Option
<1>5. InFlight' = InFlight \cup {d} /\ d \notin InFlight
    BY <1>1, <1>2, <1>3 DEF InFlight
<1>6. IsFiniteSet(InFlight') /\ Cardinality(InFlight') = Cardinality(InFlight) + 1
    BY <1>1, <1>5, FS_AddElement
<1>7. Cardinality(InFlight) \in Nat
    BY <1>1, FS_CardinalityType
<1>8. DispatchesAccounted'
    BY <1>1, <1>2, <1>6, <1>7 DEF AccountInv, DispatchesAccounted
<1>9. Calls' <= MaxDispatches /\ dispatch_counter' \in 0..MaxDispatches
    BY <1>1, <1>2 DEF Calls
<1>10. AdapterTypeOK'
    BY <1>2, <1>4, <1>9 DEF AccountInv, AdapterTypeOK, Call
<1> QED BY <1>6, <1>8, <1>9, <1>10 DEF AccountInv

\* dispatch, after the lock: the call in flight becomes a number of the sink.
LEMMA AccountDelivered ==
    ASSUME AccountInv, TypeOK', NEW d \in Dispatcher, dispatch_delivered(d)
    PROVE  AccountInv'
<1>1. /\ dispatch_counter \in Nat /\ routed \in Nat /\ seq \in Nat
      /\ MaxDispatches \in Nat /\ in_flight \in [Dispatcher -> Option(Call)]
      /\ IsFiniteSet(InFlight)
      /\ seq + Cardinality(InFlight) = dispatch_counter + routed
      /\ dispatch_counter + routed <= MaxDispatches
    BY AccountFacts
<1>2. /\ in_flight[d] # None
      /\ sink_dispatch(in_flight[d].action, in_flight[d].intent)
      /\ in_flight' = [in_flight EXCEPT ![d] = None]
      /\ UNCHANGED <<dispatch_counter, routed>>
    BY DEF dispatch_delivered
<1>3. in_flight[d].action \in EnforcementAction
      /\ in_flight[d].intent \in EnforcementIntent
    BY <1>1, <1>2 DEF Call, Option
<1>4. /\ records' \in Seq(DispatchRecord) /\ seq' = seq + 1
      /\ fence' = fence /\ fail_all' = fail_all
      /\ \A k \in 1..Len(records') : records'[k].seq = seq' - Len(records') + k
    BY <1>2, <1>3, SinkRecords
<1>5. in_flight' \in [Dispatcher -> Option(Call)]
    BY <1>1, <1>2 DEF Option
<1>6. InFlight' = InFlight \ {d} /\ d \in InFlight
    BY <1>1, <1>2 DEF InFlight
<1>7. IsFiniteSet(InFlight') /\ Cardinality(InFlight') = Cardinality(InFlight) - 1
    BY <1>1, <1>6, FS_RemoveElement
<1>8. Cardinality(InFlight) \in Nat /\ Cardinality(InFlight') \in Nat
    BY <1>1, <1>7, FS_CardinalityType
<1>9. seq' + Cardinality(InFlight') = dispatch_counter' + routed'
      /\ seq' \in 0..MaxDispatches
    BY <1>1, <1>2, <1>4, <1>7, <1>8
<1>10. DispatchesAccounted'
    BY <1>4, <1>9 DEF DispatchesAccounted
<1>11. AdapterTypeOK'
    BY <1>2, <1>4, <1>5, <1>9 DEF AccountInv, AdapterTypeOK, Call
<1> QED BY <1>2, <1>7, <1>10, <1>11 DEF AccountInv, Calls

\* The router's call is counted and delivered at once.
LEMMA AccountRoute ==
    ASSUME AccountInv, TypeOK', NEW i \in EnforcementIntent,
           NEW action \in EnforcementAction, route(i, action)
    PROVE  AccountInv'
<1>1. /\ dispatch_counter \in Nat /\ routed \in Nat /\ seq \in Nat
      /\ MaxDispatches \in Nat
      /\ IsFiniteSet(InFlight)
      /\ seq + Cardinality(InFlight) = dispatch_counter + routed
    BY AccountFacts
<1>2. /\ sink_dispatch(action, i)
      /\ dispatch_counter + routed < MaxDispatches
      /\ routed' = routed + 1
      /\ UNCHANGED <<dispatch_counter, in_flight>>
    BY DEF route, enforce, Calls
<1>3. /\ records' \in Seq(DispatchRecord) /\ seq' = seq + 1
      /\ fence' = fence /\ fail_all' = fail_all
      /\ \A k \in 1..Len(records') : records'[k].seq = seq' - Len(records') + k
    BY <1>2, SinkRecords
<1>4. InFlight' = InFlight /\ Cardinality(InFlight) \in Nat
    BY <1>1, <1>2, FS_CardinalityType DEF InFlight
<1>5. DispatchesAccounted'
    <2>1. seq' + Cardinality(InFlight) = dispatch_counter' + routed'
        BY <1>1, <1>2, <1>3, <1>4
    <2> QED BY <1>3, <1>4, <2>1 DEF DispatchesAccounted
<1>6. /\ seq' \in 0..MaxDispatches /\ routed' \in 0..MaxDispatches
      /\ Calls' <= MaxDispatches
    BY <1>1, <1>2, <1>3, <1>4 DEF Calls
<1>7. AdapterTypeOK'
    BY <1>2, <1>3, <1>6 DEF AccountInv, AdapterTypeOK
<1> QED BY <1>1, <1>4, <1>5, <1>6, <1>7 DEF AccountInv

\* What is told the sink between two calls: clear keeps the numbers going.
LEMMA AccountSink == ASSUME AccountInv, TypeOK', SinkStep PROVE AccountInv'
<1> USE DEF sinkOnly, host
<1>1. CASE clear
    <2>1. /\ records' = << >>
          /\ UNCHANGED <<dispatch_counter, in_flight, routed, seq, fence, fail_all>>
        BY <1>1 DEF clear
    <2>2. records' \in Seq(DispatchRecord) /\ Len(records') = 0
        BY <2>1, EmptySeq
    <2>3. DispatchesAccounted'
        BY <2>1, <2>2 DEF AccountInv, DispatchesAccounted, InFlight
    <2> QED BY <2>1, <2>2, <2>3 DEF AccountInv, AdapterTypeOK, InFlight, Calls
<1>2. ASSUME NEW i \in issued, set_authorized_generations(GenerationsOf(i))
      PROVE  AccountInv'
    <2>1. i \in EnforcementIntent
        BY DEF AccountInv, TypeOK
    <2>2. GenerationsOf(i) \in Generations
        BY <2>1 DEF GenerationsOf, Generations, EnforcementIntent
    <2>3. fence' \in Option(Generations)
          /\ UNCHANGED <<dispatch_counter, in_flight, routed, records, seq, fail_all>>
        BY <1>2, <2>2 DEF set_authorized_generations, Option
    <2> QED BY <2>3 DEF AccountInv, AdapterTypeOK, InFlight, Calls, DispatchesAccounted
<1>3. CASE disable_generation_fence
    <2>1. fence' \in Option(Generations)
          /\ UNCHANGED <<dispatch_counter, in_flight, routed, records, seq, fail_all>>
        BY <1>3 DEF disable_generation_fence, Option
    <2> QED BY <2>1 DEF AccountInv, AdapterTypeOK, InFlight, Calls, DispatchesAccounted
<1>4. ASSUME NEW b \in BOOLEAN, set_fail_all(b)
      PROVE  AccountInv'
    <2>1. UNCHANGED <<dispatch_counter, in_flight, routed, records, seq, fence>>
        BY <1>4 DEF set_fail_all
    <2>2. fail_all' \in BOOLEAN
        BY <1>4 DEF set_fail_all
    <2> QED BY <2>1, <2>2 DEF AccountInv, AdapterTypeOK, InFlight, Calls,
                              DispatchesAccounted
<1> QED BY <1>1, <1>2, <1>3, <1>4 DEF SinkStep

LEMMA AccountInvariant == EnforcementSpec => []AccountInv
<1>1. EnforcementInit => AccountInv
    <2> SUFFICES ASSUME EnforcementInit PROVE AccountInv
        OBVIOUS
    <2>1. TypeOK
        BY TypeCorrectInit DEF EnforcementInit
    <2>2. records = << >> /\ records \in Seq(DispatchRecord) /\ Len(records) = 0
        BY EmptySeq DEF EnforcementInit
    <2>3. InFlight = {}
        BY DEF EnforcementInit, InFlight, NoCall
    <2>4. IsFiniteSet(InFlight) /\ Cardinality(InFlight) = 0
        BY <2>3, FS_EmptySet
    <2>5. AdapterTypeOK
        <3>1. MaxDispatches \in Nat
            BY AdapterAssumption
        <3>2. in_flight \in [Dispatcher -> Option(Call)]
            BY DEF EnforcementInit, NoCall, Option
        <3>3. fail_all \in BOOLEAN
            BY DEF EnforcementInit
        <3> QED BY <2>2, <3>1, <3>2, <3>3 DEF EnforcementInit, AdapterTypeOK, Option, Call
    <2>6. DispatchesAccounted /\ Calls <= MaxDispatches
        BY <2>2, <2>4, AdapterAssumption DEF EnforcementInit, DispatchesAccounted, Calls
    <2> QED BY <2>1, <2>4, <2>5, <2>6 DEF AccountInv
<1>2. AccountInv /\ TypeOK' /\ [EnforcementNext]_allVars => AccountInv'
    <2> SUFFICES ASSUME AccountInv, TypeOK', [EnforcementNext]_allVars
                 PROVE  AccountInv'
        OBVIOUS
    <2>1. CASE UNCHANGED allVars
        BY <2>1, AccountUnchanged DEF allVars, adapterVars, host, sink, adapterTypes
    <2>2. CASE FabricStep
        BY <2>2, AccountUnchanged DEF FabricStep, adapterVars, host, sink, adapterTypes
    <2>3. CASE SinkStep
        BY <2>3, AccountSink
    <2>4. ASSUME NEW d \in Dispatcher, dispatch_delivered(d)
          PROVE  AccountInv'
        BY <2>4, AccountDelivered
    <2>5. ASSUME NEW i \in issued, NEW action \in Actions \cup {"NoAction"},
                 \/ \E d \in Dispatcher : dispatch_counted(d, i, action)
                 \/ route(i, action)
          PROVE  AccountInv'
        <3>1. i \in EnforcementIntent
            BY DEF AccountInv, TypeOK
        <3>2. action \in EnforcementAction
            BY AdapterAssumption DEF EnforcementAction, Unrouted
        <3> QED BY <2>5, <3>1, <3>2, AccountCounted, AccountRoute
    <2> QED BY <2>1, <2>2, <2>3, <2>4, <2>5 DEF EnforcementNext, AdapterStep
<1> QED BY <1>1, <1>2, EnforcementIsAuthority, TypeCorrect, PTL DEF EnforcementSpec

(***************************************************************************)
(* SloFabric::dispatch and EnforcementRouter: every counted call is in the *)
(* sink or on its way to it, exactly once, and the sink's records are      *)
(* numbered without a gap, for any number of threads and calls and however *)
(* often the sink is cleared, fenced or made to fail.                      *)
(***************************************************************************)
THEOREM CallsAccounted == EnforcementSpec => []DispatchesAccounted
<1>1. AccountInv => DispatchesAccounted
    BY DEF AccountInv
<1> QED BY <1>1, AccountInvariant, PTL

-----------------------------------------------------------------------------
(* The fence *)

\* A record tells of an evaluation of this process, and was accepted under a
\* fence only if it carries the generations of the fence.
Genuine(r) ==
    /\ r.intent \in issued
    /\ r.status = "Ok" /\ r.fence # None => GenerationsOf(r.intent) = r.fence

(***************************************************************************)
(* The inductive invariant: this is one lifetime, so every intent was      *)
(* issued by this incarnation, and evaluation_by_id then finds it by its   *)
(* evaluation generation alone.                                            *)
(***************************************************************************)
FenceInv ==
    /\ AccountInv
    /\ EvaluationLookupExact
    /\ \A i \in issued : i.incarnation = incarnation
    /\ \A d \in Dispatcher : in_flight[d] # None => in_flight[d].intent \in issued
    /\ \A k \in 1..Len(records) : Genuine(records[k])

LEMMA AcceptedCarriesFence ==
    ASSUME NEW i, status_of(i) = "Ok", fence # None
    PROVE  GenerationsOf(i) = fence
BY DEF status_of, fenced_off

\* A call that reaches the sink adds a genuine record.
LEMMA SinkKeepsGenuine ==
    ASSUME FenceInv, UNCHANGED issued, NEW action \in EnforcementAction,
           NEW i \in issued, sink_dispatch(action, i)
    PROVE  \A k \in 1..Len(records') : Genuine(records[k])'
<1>1. i \in EnforcementIntent
    BY DEF FenceInv, AccountInv, TypeOK
<1>2. /\ Len(records') = Len(records) + 1
      /\ \A k \in 1..Len(records) : records'[k] = records[k]
      /\ records'[Len(records')].intent = i
      /\ records'[Len(records')].status = status_of(i)
      /\ records'[Len(records')].fence = fence
    <2> DEFINE r == [action |-> action, intent |-> i, status |-> status_of(i),
                     seq |-> seq + 1, fence |-> fence]
    <2>1. r.intent = i /\ r.status = status_of(i) /\ r.fence = fence
        OBVIOUS
    <2>2. AccountInv
        BY DEF FenceInv
    <2>3. /\ Len(records') = Len(records) + 1
          /\ \A k \in 1..Len(records) : records'[k] = records[k]
          /\ records'[Len(records')] = r
        BY <1>1, <2>2, SinkRecords
    <2> QED BY <2>1, <2>3
<1>3. Len(records) \in Nat
    BY LenProperties DEF FenceInv, AccountInv, AdapterTypeOK
<1> SUFFICES ASSUME NEW k \in 1..Len(records') PROVE Genuine(records[k])'
    OBVIOUS
<1>4. CASE k = Len(records')
    BY <1>2, <1>4, AcceptedCarriesFence DEF Genuine
<1>5. CASE k \in 1..Len(records)
    BY <1>2, <1>5 DEF FenceInv, Genuine
<1> QED BY <1>2, <1>3, <1>4, <1>5

\* The fabric issues intents of its own incarnation only, and takes none back.
LEMMA FabricIssues ==
    ASSUME FabricStep
    PROVE  /\ incarnation' = incarnation
           /\ issued \subseteq issued'
           /\ \A i \in issued' \ issued : i.incarnation = incarnation
<1> USE DEF evaluations
<1>1. CASE RegistryStep
    BY <1>1 DEF RegistryStep, set_policy, add_contract, supersede_contract, register,
                activate_contract, suspend_contract, expire_contract,
                retire_contract, set_lifecycle, registryOnly
<1>2. ASSUME NEW s \in Service, NEW w \in Workload, evaluate(s, w)
      PROVE  /\ incarnation' = incarnation
             /\ issued \subseteq issued'
             /\ \A i \in issued' \ issued : i.incarnation = incarnation
    <2>1. PICK id \in ContractId, b \in ObjectiveId \cup {None} :
            issued' = issued \cup {NewIntent(id, b)}
        BY <1>2 DEF evaluate
    <2>2. NewIntent(id, b).incarnation = incarnation
        BY DEF NewIntent
    <2>3. incarnation' = incarnation
        BY <1>2 DEF evaluate
    <2> QED BY <2>1, <2>2, <2>3
<1>3. CASE EnforcementStep
    BY <1>3 DEF EnforcementStep, authorize, complete_enforcement, transition, move
<1> QED BY <1>1, <1>2, <1>3 DEF FabricStep

LEMMA FenceStep ==
    ASSUME FenceInv, AccountInv', EvaluationLookupExact', [EnforcementNext]_allVars
    PROVE  FenceInv'
<1> USE DEF host, sink
<1>1. CASE UNCHANGED allVars
    BY <1>1 DEF FenceInv, Genuine, allVars, vars, adapterVars, evaluations
<1>2. CASE FabricStep
    <2>1. UNCHANGED <<in_flight, records>>
        BY <1>2 DEF FabricStep, adapterVars
    <2> QED BY <1>2, <2>1, FabricIssues DEF FenceInv, Genuine
<1>3. CASE SinkStep
    <2>1. UNCHANGED <<in_flight, issued, incarnation>>
          /\ (records' = << >> \/ records' = records)
        BY <1>3 DEF SinkStep, set_authorized_generations, disable_generation_fence,
                    set_fail_all, clear, sinkOnly, vars, evaluations
    <2>2. CASE records' = << >>
        BY <2>1, <2>2, EmptySeq DEF FenceInv
    <2>3. CASE records' = records
        BY <2>1, <2>3 DEF FenceInv, Genuine
    <2> QED BY <2>1, <2>2, <2>3
<1>4. ASSUME NEW d \in Dispatcher, dispatch_delivered(d)
      PROVE  FenceInv'
    <2>1. /\ in_flight[d] # None
          /\ sink_dispatch(in_flight[d].action, in_flight[d].intent)
          /\ in_flight' = [in_flight EXCEPT ![d] = None]
          /\ UNCHANGED <<issued, incarnation>>
        BY <1>4 DEF dispatch_delivered, vars, evaluations
    <2>2. in_flight \in [Dispatcher -> Option(Call)]
        BY DEF FenceInv, AccountInv, AdapterTypeOK, Call
    <2>3. in_flight[d].action \in EnforcementAction /\ in_flight[d].intent \in issued
        BY <2>1, <2>2 DEF FenceInv, Call, Option
    <2>4. \A k \in 1..Len(records') : Genuine(records[k])'
        BY <2>1, <2>3, SinkKeepsGenuine
    <2>5. \A e \in Dispatcher : in_flight'[e] # None => in_flight'[e].intent \in issued'
        BY <2>1, <2>2 DEF FenceInv
    <2> QED BY <2>1, <2>4, <2>5 DEF FenceInv
<1>5. ASSUME NEW d \in Dispatcher, NEW i \in issued, NEW action,
             dispatch_counted(d, i, action)
      PROVE  FenceInv'
    <2>1. /\ in_flight' = [in_flight EXCEPT ![d] = [action |-> action, intent |-> i]]
          /\ UNCHANGED <<issued, incarnation, records>>
        BY <1>5 DEF dispatch_counted, vars, evaluations
    <2>2. in_flight \in [Dispatcher -> Option(Call)]
        BY DEF FenceInv, AccountInv, AdapterTypeOK, Call
    <2>3. \A e \in Dispatcher : in_flight'[e] # None => in_flight'[e].intent \in issued'
        BY <2>1, <2>2 DEF FenceInv
    <2> QED BY <2>1, <2>3 DEF FenceInv, Genuine
<1>6. ASSUME NEW i \in issued, NEW action \in EnforcementAction, route(i, action)
      PROVE  FenceInv'
    <2>1. /\ sink_dispatch(action, i)
          /\ UNCHANGED <<issued, incarnation, in_flight>>
        BY <1>6 DEF route, enforce, vars, evaluations
    <2>2. \A k \in 1..Len(records') : Genuine(records[k])'
        BY <2>1, SinkKeepsGenuine
    <2> QED BY <2>1, <2>2 DEF FenceInv
<1>7. Actions \cup {"NoAction"} \subseteq EnforcementAction
    BY AdapterAssumption DEF EnforcementAction, Unrouted
<1> QED BY <1>1, <1>2, <1>3, <1>4, <1>5, <1>6, <1>7 DEF EnforcementNext, AdapterStep

(***************************************************************************)
(* ReferenceEnforcementSink: under one setting of the fence the sink       *)
(* accepts the intent of one evaluation only, for any number of contracts, *)
(* evaluations, threads and calls, by whichever path the intent comes and  *)
(* however late.                                                           *)
(***************************************************************************)
THEOREM FenceHolds == EnforcementSpec => []FenceAdmitsOneIntent
<1>1. EnforcementInit /\ AccountInv /\ EvaluationLookupExact => FenceInv
    BY EmptySeq DEF EnforcementInit, Init, NoCall, FenceInv
<1>2. FenceInv /\ AccountInv' /\ EvaluationLookupExact' /\ [EnforcementNext]_allVars
        => FenceInv'
    BY FenceStep
<1>3. FenceInv => FenceAdmitsOneIntent
    <2> SUFFICES ASSUME FenceInv,
                        NEW j \in Accepted, NEW k \in Accepted,
                        records[j].fence # None, records[j].fence = records[k].fence
                 PROVE  records[j].intent = records[k].intent
        BY DEF FenceAdmitsOneIntent
    <2> DEFINE r == records[j].intent
               q == records[k].intent
    <2>1. r \in issued /\ q \in issued /\ GenerationsOf(r) = GenerationsOf(q)
        BY DEF FenceInv, Genuine, Accepted
    <2>2. r.evaluation_gen = q.evaluation_gen
        BY <2>1 DEF GenerationsOf
    <2> QED BY <2>1, <2>2 DEF FenceInv, EvaluationLookupExact
<1> QED BY <1>1, <1>2, <1>3, AccountInvariant, EnforcementIsAuthority, LookupIsExact,
            PTL DEF EnforcementSpec
=============================================================================
