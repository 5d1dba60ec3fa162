--------------------------- MODULE AuthorityProofs ---------------------------
(***************************************************************************)
(* Proofs about Authority, for every set of ids, every set of contracts    *)
(* the host may register and every bound.                                  *)
(***************************************************************************)
EXTENDS Authority, SequenceTheorems, TLAPS

USE ContractIdAssumption, ContractDefsAssumption, PolicyGensAssumption,
    CallsAssumption, BoundsAssumption

-----------------------------------------------------------------------------
(* Histories *)

\* p is history h without its first d entries, with x added at the end.
Pushed(p, h, x, d) ==
    /\ Len(p) = Len(h) + 1 - d
    /\ p[Len(p)] = x
    /\ \A k \in 1..(Len(p) - 1) : k + d \in 1..Len(h) /\ p[k] = h[k + d]

\* push_back loses one entry or none.
LEMMA PushBack ==
    ASSUME NEW S, NEW h \in Seq(S), NEW x \in S
    PROVE  /\ push_back(h, x) \in Seq(S)
           /\ \E d \in 0..1 : Pushed(push_back(h, x), h, x, d)
<1> DEFINE p == push_back(h, x)
<1>1. CASE Len(h) >= HistoryCap
    <2>1. h # << >> /\ Len(h) \in Nat
        BY <1>1, EmptySeq, LenProperties
    <2>2. /\ Tail(h) \in Seq(S)
          /\ Len(Tail(h)) = Len(h) - 1
          /\ \A k \in 1..Len(Tail(h)) : Tail(h)[k] = h[k + 1]
        BY <2>1, HeadTailProperties
    <2>3. p = Append(Tail(h), x)
        BY <1>1 DEF push_back
    <2>4. /\ p \in Seq(S)
          /\ Len(p) = Len(Tail(h)) + 1
          /\ \A k \in 1..Len(Tail(h)) : p[k] = Tail(h)[k]
          /\ p[Len(Tail(h)) + 1] = x
        BY <2>2, <2>3, AppendProperties
    <2> HIDE DEF p
    <2>5. Pushed(p, h, x, 1)
        BY <2>1, <2>2, <2>4 DEF Pushed
    <2> QED BY <2>4, <2>5 DEF p
<1>2. CASE ~ (Len(h) >= HistoryCap)
    <2>1. p = Append(h, x)
        BY <1>2 DEF push_back
    <2>2. /\ p \in Seq(S)
          /\ Len(p) = Len(h) + 1
          /\ \A k \in 1..Len(h) : p[k] = h[k]
          /\ p[Len(h) + 1] = x
        BY <2>1, AppendProperties
    <2>3. Len(h) \in Nat
        BY LenProperties
    <2> HIDE DEF p
    <2>4. Pushed(p, h, x, 0)
        BY <2>2, <2>3 DEF Pushed
    <2> QED BY <2>2, <2>4 DEF p
<1> QED BY <1>1, <1>2

\* Moving a receipt changes the lifecycle of the one it finds, nothing else.
LEMMA MoveReceipt ==
    ASSUME NEW h \in Seq(EnforcementReceipt), NEW k \in 1..Len(h),
           NEW to \in EnforcementLifecycle
    PROVE  /\ [h EXCEPT ![k].lifecycle = to] \in Seq(EnforcementReceipt)
           /\ Len([h EXCEPT ![k].lifecycle = to]) = Len(h)
           /\ \A j \in 1..Len(h) :
                 LET r == [h EXCEPT ![k].lifecycle = to][j]
                 IN  /\ r.id = h[j].id
                     /\ r.intent = h[j].intent
                     /\ r.at = h[j].at
                     /\ r.lifecycle = IF j = k THEN to ELSE h[j].lifecycle
<1> DEFINE e == [h[k] EXCEPT !.lifecycle = to]
<1>1. \A j \in 1..Len(h) : h[j] \in EnforcementReceipt
    BY ElementOfSeq
<1>2. e \in EnforcementReceipt /\ e.id = h[k].id /\ e.intent = h[k].intent
      /\ e.at = h[k].at /\ e.lifecycle = to
    BY <1>1 DEF EnforcementReceipt
<1>3. [h EXCEPT ![k].lifecycle = to] = [h EXCEPT ![k] = e]
    OBVIOUS
<1>4. /\ [h EXCEPT ![k] = e] \in Seq(EnforcementReceipt)
      /\ Len([h EXCEPT ![k] = e]) = Len(h)
      /\ \A j \in 1..Len(h) : [h EXCEPT ![k] = e][j] = IF j = k THEN e ELSE h[j]
    BY <1>2, ExceptSeq
<1> HIDE DEF e
<1> QED BY <1>2, <1>3, <1>4

-----------------------------------------------------------------------------
(* Types *)

LifecycleCall(id) ==
    \/ activate_contract(id)
    \/ suspend_contract(id)
    \/ expire_contract(id)
    \/ retire_contract(id)

\* A lifecycle call sets a lifecycle and a time window of the right types.
LEMMA LifecycleCallSets ==
    ASSUME TypeOK, NEW id \in ManagedIds, LifecycleCall(id)
    PROVE  /\ id \in ContractId /\ contracts[id] # None
           /\ \E l \in ContractLifecycle, from \in Nat, e \in SUBSET Nat :
                 set_lifecycle(id, l, from, e)
<1> DEFINE c == contracts[id]
           from == IF c.effective_from > now THEN now ELSE c.effective_from
           until == IF c.expiration # {} THEN c.expiration ELSE {now}
<1>1. id \in ContractId /\ c # None
    BY DEF LifecycleCall, activate_contract, suspend_contract, expire_contract,
           retire_contract
<1>2. c \in SloContract
    BY <1>1 DEF TypeOK, Option
<1>3. now \in Nat
    BY DEF TypeOK
<1>4. /\ c.effective_from \in Nat /\ c.expiration \in SUBSET Nat
      /\ from \in Nat /\ until \in SUBSET Nat
    BY <1>2, <1>3 DEF SloContract
<1>5. {"Active", "Suspended", "Expired", "Retired"} \subseteq ContractLifecycle
    BY DEF ContractLifecycle
<1>6. \/ set_lifecycle(id, "Active", from, c.expiration)
      \/ set_lifecycle(id, "Suspended", c.effective_from, c.expiration)
      \/ set_lifecycle(id, "Expired", c.effective_from, until)
      \/ set_lifecycle(id, "Retired", c.effective_from, c.expiration)
    BY DEF LifecycleCall, activate_contract, suspend_contract, expire_contract,
           retire_contract
<1> HIDE DEF c, from, until
<1> QED BY <1>1, <1>4, <1>5, <1>6 DEF c

\* A registry step leaves a well-typed registry behind.
LEMMA TypeRegistry == TypeOK /\ RegistryStep => TypeOK'
<1> SUFFICES ASSUME TypeOK, RegistryStep PROVE TypeOK'
    OBVIOUS
<1> USE DEF TypeOK, registryOnly, evaluations, enforcements, storage, Option
<1>1. ASSUME NEW p \in PolicyId, NEW gen \in PolicyGens, set_policy(p, gen)
      PROVE  TypeOK'
    BY <1>1 DEF set_policy
<1>2. ASSUME NEW c \in ContractDefs, register(c)
      PROVE  TypeOK'
    BY <1>2 DEF register, SloContract
<1>3. ASSUME NEW id \in ContractId, NEW l \in ContractLifecycle,
             NEW from \in Nat, NEW e \in SUBSET Nat, contracts[id] # None,
             set_lifecycle(id, l, from, e)
      PROVE  TypeOK'
    <2>1. contracts[id] \in SloContract
        BY <1>3
    <2>2. [contracts[id] EXCEPT !.lifecycle = l, !.effective_from = from,
                                !.expiration = e] \in SloContract
        BY <2>1 DEF SloContract
    <2>3. contracts' \in [ContractId -> SloContract \cup {None}]
        BY <1>3, <2>2 DEF set_lifecycle
    <2> QED BY <1>3, <2>3 DEF set_lifecycle
<1> HIDE DEF TypeOK, registryOnly, evaluations, enforcements, storage, Option
<1>4. ASSUME NEW id \in ManagedIds, LifecycleCall(id)
      PROVE  TypeOK'
    BY <1>3, <1>4, LifecycleCallSets
<1> QED BY <1>1, <1>2, <1>4
        DEF RegistryStep, add_contract, supersede_contract, LifecycleCall

\* An accumulator found or made is an accumulator.
LEMMA TypeAccumulator ==
    ASSUME TypeOK, NEW o \in ObjectiveId, NEW gen \in Nat
    PROVE  get_accumulator(o, gen) \in Accumulator
BY DEF TypeOK, get_accumulator, Accumulator

\* Evidence and violation events change accumulators only.
LEMMA TypeEvidence == TypeOK /\ EvidenceStep => TypeOK'
<1> SUFFICES ASSUME TypeOK, NEW o \in ObjectiveId,
                    ingest(o) \/ ingest_violation_event(o)
             PROVE  TypeOK'
    BY DEF EvidenceStep
<1>1. accumulatorsOnly
    BY DEF ingest, ingest_violation_event
<1>2. \A id \in ContractId : Holds(id, o) => contracts[id].objectives[o] \in Nat
    <2>1. \A id \in ContractId : Holds(id, o) => contracts[id] \in SloContract
        BY DEF Holds, TypeOK, Option
    <2> QED BY <2>1 DEF SloContract
<1>3. accumulators' \in [ObjectiveId -> Accumulator]
    <2>1. CASE ingest(o)
        <3>1. PICK id \in ContractId :
                /\ Holds(id, o)
                /\ accumulators' = [accumulators EXCEPT
                      ![o] = get_accumulator(o, contracts[id].objectives[o])]
            BY <2>1 DEF ingest
        <3> QED BY <1>2, <3>1, TypeAccumulator DEF TypeOK
    <2>2. CASE ingest_violation_event(o)
        <3>1. PICK last \in ContractId :
                /\ Holds(last, o)
                /\ \/ accumulators' = [accumulators EXCEPT ![o] = @]
                   \/ accumulators' = [accumulators EXCEPT
                         ![o] = [gen |-> contracts[last].objectives[o],
                                 cooldown_until |-> 0]]
            BY <2>2 DEF ingest_violation_event
        <3>2. [gen |-> contracts[last].objectives[o], cooldown_until |-> 0]
                \in Accumulator
            BY <1>2, <3>1 DEF Accumulator
        <3> QED BY <3>1, <3>2 DEF TypeOK
    <2> QED BY <2>1, <2>2
<1> QED BY <1>1, <1>3 DEF TypeOK, accumulatorsOnly, registry, evaluations,
            enforcements, storage, Option

\* evaluate resolves a registered contract and issues a well-typed intent.
LEMMA TypeIntent ==
    ASSUME TypeOK, NEW id \in ContractId, contracts[id] # None,
           NEW b \in ObjectiveId \cup {None}
    PROVE  NewIntent(id, b) \in EnforcementIntent
<1> DEFINE c == contracts[id]
           gen == IF b = None THEN 0 ELSE c.objectives[b]
           act == IF /\ b # None
                     /\ now >= get_accumulator(b, gen).cooldown_until
                  THEN "Act" ELSE "NoAction"
<1>1. c \in SloContract
    BY DEF TypeOK, Option
<1>2. /\ c.service \in Service /\ c.workload \in Workload
      /\ c.gen \in Nat /\ c.policy_gen \in Nat /\ gen \in Nat
    BY <1>1 DEF SloContract
<1>3. act \in {"NoAction", "Act"}
    OBVIOUS
<1>4. /\ epoch \in Nat /\ incarnation \in Nat /\ now \in Nat
      /\ evaluation_counter + 1 \in Nat /\ enforcement_counter \in Nat
    BY DEF TypeOK
<1>5. NewIntent(id, b) =
        [action |-> act,
         objective_id |-> b, objective_gen |-> gen,
         service |-> c.service, workload |-> c.workload,
         epoch |-> epoch, contract_gen |-> c.gen, policy_gen |-> c.policy_gen,
         evaluation_gen |-> evaluation_counter + 1,
         contract |-> id, incarnation |-> incarnation, at |-> now,
         grants |-> enforcement_counter]
    BY DEF NewIntent
<1> HIDE DEF c, gen, act
<1> QED BY <1>2, <1>3, <1>4, <1>5 DEF EnforcementIntent

\* evaluate keeps the types of the accumulators, the evaluations and intents.
LEMMA TypeEvaluate ==
    ASSUME TypeOK, NEW s \in Service, NEW w \in Workload, evaluate(s, w)
    PROVE  TypeOK'
<1>1. PICK id \in ContractId :
        LET c == contracts[id]
            Held == {o \in ObjectiveId : c.objectives[o] # 0}
        IN  /\ Resolves(id, s, w)
            /\ evaluation_counter < MaxEvaluations
            /\ accumulators' = [o \in ObjectiveId |->
                  IF o \in Held THEN get_accumulator(o, c.objectives[o])
                  ELSE accumulators[o]]
            /\ \E b \in Bindings \cap (Held \cup {None}) :
                  LET i == NewIntent(id, b)
                  IN  /\ evaluation_history' = push_back(evaluation_history, i)
                      /\ evaluation_by_id' =
                            [evaluation_by_id EXCEPT ![i.evaluation_gen] = i]
                      /\ issued' = issued \cup {i}
            /\ evaluation_counter' = evaluation_counter + 1
            /\ UNCHANGED <<now, epoch, registry, enforcements, storage, incarnation>>
    BY DEF evaluate, record_evaluation
<1> DEFINE c == contracts[id]
           Held == {o \in ObjectiveId : c.objectives[o] # 0}
<1>2. c # None /\ c \in SloContract
    BY <1>1 DEF Resolves, InScope, TypeOK, Option
<1>3. accumulators' \in [ObjectiveId -> Accumulator]
    <2>1. \A o \in ObjectiveId : get_accumulator(o, c.objectives[o]) \in Accumulator
        BY <1>2, TypeAccumulator DEF SloContract
    <2> QED BY <1>1, <2>1 DEF TypeOK
<1>4. PICK b \in Bindings \cap (Held \cup {None}) :
        LET i == NewIntent(id, b)
        IN  /\ evaluation_history' = push_back(evaluation_history, i)
            /\ evaluation_by_id' = [evaluation_by_id EXCEPT ![i.evaluation_gen] = i]
            /\ issued' = issued \cup {i}
    BY <1>1
<1> DEFINE i == NewIntent(id, b)
<1>5. i \in EnforcementIntent
    BY <1>2, TypeIntent
<1>6. evaluation_history' \in Seq(EnforcementIntent)
    BY <1>4, <1>5, PushBack DEF TypeOK
<1>7. /\ evaluation_by_id' \in [1..MaxEvaluations -> Option(EnforcementIntent)]
      /\ issued' \subseteq EnforcementIntent
    BY <1>4, <1>5 DEF TypeOK, Option
<1>8. evaluation_counter' \in 0..MaxEvaluations
    BY <1>1 DEF TypeOK
<1> QED BY <1>1, <1>3, <1>6, <1>7, <1>8
        DEF TypeOK, Option, registry, enforcements, storage

\* authorize, transition and complete_enforcement.
LEMMA TypeEnforcement == TypeOK /\ EnforcementStep => TypeOK'
<1> SUFFICES ASSUME TypeOK, EnforcementStep PROVE TypeOK'
    OBVIOUS
<1>1. ASSUME NEW i \in issued, authorize(i)
      PROVE  TypeOK'
    <2>1. NewReceipt(i) \in EnforcementReceipt
        BY <1>1 DEF TypeOK, NewReceipt, EnforcementReceipt, EnforcementLifecycle
    <2>2. enforcement_history' \in Seq(EnforcementReceipt)
        BY <1>1, <2>1, PushBack DEF authorize, TypeOK
    <2>3. i.objective_id \in ObjectiveId
        BY <1>1 DEF authorize, Authorizable, Target, HoldsTarget, Holds, TypeOK,
                    EnforcementIntent
    <2>4. accumulators' \in [ObjectiveId -> Accumulator]
        <3>1. now + Cooldown \in Nat /\ accumulators \in [ObjectiveId -> Accumulator]
            BY DEF TypeOK
        <3>2. [accumulators[i.objective_id] EXCEPT !.cooldown_until = now + Cooldown]
                \in Accumulator
            BY <2>3, <3>1 DEF Accumulator
        <3> QED BY <1>1, <2>3, <3>1, <3>2 DEF authorize
    <2>5. enforcement_counter' \in 0..MaxEnforcements
        <3>1. /\ enforcement_counter < MaxEnforcements
              /\ enforcement_counter' = enforcement_counter + 1
            BY <1>1 DEF authorize
        <3>2. enforcement_counter \in 0..MaxEnforcements
            BY DEF TypeOK
        <3> QED BY <3>1, <3>2, BoundsAssumption
    <2>6. UNCHANGED <<now, epoch, registry, evaluations, storage, incarnation>>
        BY <1>1 DEF authorize
    <2> QED BY <2>2, <2>4, <2>5, <2>6 DEF TypeOK, registry, evaluations, storage
<1>2. ASSUME NEW k \in 1..Len(enforcement_history), NEW to \in EnforcementLifecycle,
             move(k, to)
      PROVE  TypeOK'
    <2>1. enforcement_history' \in Seq(EnforcementReceipt)
        BY <1>2, MoveReceipt DEF move, TypeOK
    <2> QED BY <1>2, <2>1
            DEF move, TypeOK, registry, evaluations, storage, Option
<1>3. ASSUME NEW id \in EnforcementIds, complete_enforcement(id)
      PROVE  TypeOK'
    BY <1>2, <1>3 DEF complete_enforcement, EnforcementLifecycle
<1>4. ASSUME NEW id \in EnforcementIds, NEW to \in EnforcementLifecycle,
             transition(id, to)
      PROVE  TypeOK'
    BY <1>2, <1>4 DEF transition
<1> QED BY <1>1, <1>3, <1>4 DEF EnforcementStep

\* save, load and a crash.
LEMMA TypeStorage == TypeOK /\ StorageStep => TypeOK'
<1> SUFFICES ASSUME TypeOK, StorageStep PROVE TypeOK'
    OBVIOUS
<1> DEFINE Job == [op : {"save", "load"}, st : DurableState]
<1>1. \A t \in Thread : pending[t] # None => pending[t] \in Job
    BY DEF TypeOK, Option
<1>2. ASSUME NEW t \in Thread, save_snapshot(t)
      PROVE  TypeOK'
    <2>1. Snapshot \in DurableState
        BY DEF TypeOK, Snapshot, DurableState, Option
    <2>2. pending' \in [Thread -> Job \cup {None}]
        BY <1>2, <2>1 DEF save_snapshot, TypeOK, Option
    <2> QED BY <1>2, <2>2 DEF save_snapshot, TypeOK, fabric, registry,
                evaluations, enforcements, Option
<1>3. ASSUME NEW t \in Thread, save_write(t)
      PROVE  TypeOK'
    <2>1. pending[t].st \in DurableState
        BY <1>1, <1>3 DEF save_write
    <2> QED BY <1>3, <2>1 DEF save_write, TypeOK, fabric, registry,
                evaluations, enforcements, Option
<1>4. ASSUME NEW t \in Thread, load_read(t)
      PROVE  TypeOK'
    <2>1. file \in DurableState
        BY <1>4 DEF load_read, TypeOK, Option
    <2>2. pending' \in [Thread -> Job \cup {None}]
        BY <1>4, <2>1 DEF load_read, TypeOK, Option
    <2> QED BY <1>4, <2>2 DEF load_read, TypeOK, fabric, registry,
                evaluations, enforcements, Option
<1>5. ASSUME NEW t \in Thread, load_apply(t)
      PROVE  TypeOK'
    <2> DEFINE st == pending[t].st
               h == st.evaluation_history
    <2>1. st \in DurableState
        BY <1>1, <1>5 DEF load_apply
    <2>2. /\ st.epoch \in Nat /\ st.policies \in [PolicyId -> Nat]
          /\ st.contracts \in [ContractId -> Option(SloContract)]
          /\ st.accumulators \in [ObjectiveId -> Accumulator]
          /\ st.enforcement_history \in Seq(EnforcementReceipt)
          /\ h \in Seq(EnforcementIntent)
        BY <2>1 DEF DurableState, Option
    <2>3. /\ epoch' = st.epoch + 1
          /\ policies' = st.policies
          /\ contracts' = st.contracts
          /\ accumulators' = [o \in ObjectiveId |-> Restored(st, o)]
          /\ enforcement_history' = st.enforcement_history
          /\ evaluation_history' = h
          /\ evaluation_by_id' = IndexById(h)
          /\ pending' = [pending EXCEPT ![t] = None]
          /\ incarnation < MaxIncarnation
          /\ incarnation' = incarnation + 1
          /\ UNCHANGED <<now, evaluation_counter, enforcement_counter, issued, file>>
        BY <1>5 DEF load_apply, next_epoch
    <2> HIDE DEF st, h
    <2>4. accumulators' \in [ObjectiveId -> Accumulator]
        <3>1. \A o \in ObjectiveId : Restored(st, o) \in Accumulator
            BY <2>2 DEF Restored, NoAccumulator, Accumulator
        <3> QED BY <2>3, <3>1
    <2>5. evaluation_by_id' \in [1..MaxEvaluations -> Option(EnforcementIntent)]
        <3>1. \A k \in 1..Len(h) : h[k] \in EnforcementIntent
            BY <2>2, ElementOfSeq
        <3>2. ASSUME NEW e \in 1..MaxEvaluations
              PROVE  IndexById(h)[e] \in Option(EnforcementIntent)
            <4> DEFINE Last(k) == /\ h[k].evaluation_gen = e
                                  /\ \A j \in (k + 1)..Len(h) : h[j].evaluation_gen # e
            <4>1. CASE \E k \in 1..Len(h) : Last(k)
                <5>1. (CHOOSE k \in 1..Len(h) : Last(k)) \in 1..Len(h)
                    BY <4>1
                <5> QED BY <3>1, <4>1, <5>1 DEF IndexById, Option
            <4>2. CASE ~ \E k \in 1..Len(h) : Last(k)
                BY <4>2 DEF IndexById, Option
            <4> QED BY <4>1, <4>2
        <3> QED BY <2>3, <3>2 DEF IndexById
    <2>6. pending' \in [Thread -> Option(Job)]
        BY <2>3 DEF TypeOK, Option
    <2>7. epoch' \in Nat /\ incarnation' \in 0..MaxIncarnation
        BY <2>2, <2>3 DEF TypeOK
    <2>8. /\ now' \in 0..MaxTime
          /\ evaluation_counter' \in 0..MaxEvaluations
          /\ enforcement_counter' \in 0..MaxEnforcements
          /\ issued' \subseteq EnforcementIntent
          /\ file' \in Option(DurableState)
        BY <2>3 DEF TypeOK, Option
    <2>9. /\ policies' \in [PolicyId -> Nat]
          /\ contracts' \in [ContractId -> Option(SloContract)]
          /\ enforcement_history' \in Seq(EnforcementReceipt)
          /\ evaluation_history' \in Seq(EnforcementIntent)
        BY <2>2, <2>3
    <2> QED BY <2>4, <2>5, <2>6, <2>7, <2>8, <2>9 DEF TypeOK, Option
<1>6. ASSUME crash
      PROVE  TypeOK'
    <2>1. << >> \in Seq(EnforcementIntent) /\ << >> \in Seq(EnforcementReceipt)
        BY EmptySeq
    <2> QED BY <1>6, <2>1 DEF crash, TypeOK, NoPolicies, NoContracts,
                NoAccumulators, NoAccumulator, Accumulator, NoRecords, Idle, Option
<1> QED BY <1>2, <1>3, <1>4, <1>5, <1>6 DEF StorageStep

\* A constructed fabric is well typed.
LEMMA TypeCorrectInit == Init => TypeOK
<1>1. << >> \in Seq(EnforcementIntent) /\ << >> \in Seq(EnforcementReceipt)
    BY EmptySeq
<1> QED BY <1>1 DEF Init, TypeOK, NoPolicies, NoContracts, NoAccumulators,
            NoAccumulator, Accumulator, NoRecords, Idle, Option

\* Type correctness: no call, restart or interleaving of save and load takes
\* a variable of the fabric out of its type or a counter past its bound.
THEOREM TypeCorrect == Spec => []TypeOK
<1>1. Init => TypeOK
    BY TypeCorrectInit
<1>2. TypeOK /\ [Next]_vars => TypeOK'
    <2> SUFFICES ASSUME TypeOK, [Next]_vars PROVE TypeOK'
        OBVIOUS
    <2>1. CASE tick
        BY <2>1 DEF tick, TypeOK, registry, evaluations, enforcements, storage, Option
    <2>2. CASE UNCHANGED vars
        BY <2>2 DEF vars, TypeOK, registry, evaluations, enforcements, storage, Option
    <2> QED BY <2>1, <2>2, TypeRegistry, TypeEvidence, TypeEvaluate, TypeEnforcement,
               TypeStorage DEF Next
<1> QED BY <1>1, <1>2, PTL DEF Spec

-----------------------------------------------------------------------------
(* Epochs and ids of the histories *)

\* No receipt and no evaluation of a state is younger than its epoch.
NotYounger(e, receipts, records) ==
    /\ \A k \in 1..Len(receipts) : receipts[k].intent.epoch <= e
    /\ \A k \in 1..Len(records) : records[k].epoch <= e

\* What is known of a durable state, on disk or in the hands of a thread.
StoredInv(st) ==
    /\ Ordered(st.enforcement_history)
    /\ NotYounger(st.epoch, st.enforcement_history, st.evaluation_history)

(***************************************************************************)
(* The inductive invariant.  HistoryOrdered alone is not inductive: a new  *)
(* receipt goes last because the ids of the current epoch are bounded by   *)
(* the counter, which load does not touch, and a restored history is       *)
(* ordered because every durable state that can be loaded is.              *)
(***************************************************************************)
HistoryInv ==
    /\ TypeOK
    /\ HistoryOrdered
    /\ NotYounger(epoch, enforcement_history, evaluation_history)
    /\ \A k \in 1..Len(enforcement_history) :
          enforcement_history[k].intent.epoch = epoch =>
              enforcement_history[k].id <= enforcement_counter
    /\ file # None => StoredInv(file)
    /\ \A t \in Thread : pending[t] # None => StoredInv(pending[t].st)

\* The values HistoryInv speaks of.
historyVars == <<epoch, enforcement_counter, enforcement_history,
                 evaluation_history, pending, file>>

\* A step that leaves epoch, counter, histories and storage alone keeps it.
LEMMA HistoryUnchanged ==
    ASSUME HistoryInv, TypeOK', UNCHANGED historyVars
    PROVE  HistoryInv'
<1>1. /\ epoch' = epoch /\ enforcement_counter' = enforcement_counter
      /\ enforcement_history' = enforcement_history
      /\ evaluation_history' = evaluation_history
      /\ pending' = pending /\ file' = file
    BY DEF historyVars
<1>2. HistoryOrdered'
    BY <1>1 DEF HistoryInv, HistoryOrdered
<1>3. NotYounger(epoch, enforcement_history, evaluation_history)'
    BY <1>1 DEF HistoryInv
<1>4. /\ (file # None => StoredInv(file))'
      /\ (\A t \in Thread : pending[t] # None => StoredInv(pending[t].st))'
    BY <1>1 DEF HistoryInv
<1> QED BY <1>1, <1>2, <1>3, <1>4 DEF HistoryInv

\* The fields the order of receipts is about are numbers.
LEMMA ReceiptNumbers ==
    ASSUME NEW h \in Seq(EnforcementReceipt), NEW k \in 1..Len(h)
    PROVE  h[k].id \in Nat /\ h[k].intent.epoch \in Nat
<1>1. h[k] \in EnforcementReceipt
    BY ElementOfSeq
<1> QED BY <1>1 DEF EnforcementReceipt, EnforcementIntent

\* evaluate adds a record of the current epoch.
LEMMA HistoryEvaluate ==
    ASSUME HistoryInv, TypeOK', NEW s \in Service, NEW w \in Workload,
           evaluate(s, w)
    PROVE  HistoryInv'
<1>1. PICK id \in ContractId, b \in ObjectiveId \cup {None} :
        /\ contracts[id] # None
        /\ evaluation_history' = push_back(evaluation_history, NewIntent(id, b))
        /\ UNCHANGED <<epoch, enforcement_counter, enforcement_history, pending, file>>
    BY DEF evaluate, Resolves, InScope, enforcements, storage
<1> DEFINE i == NewIntent(id, b)
           h == evaluation_history
<1>2. i \in EnforcementIntent /\ i.epoch = epoch
    <2>1. i \in EnforcementIntent
        BY <1>1, TypeIntent DEF HistoryInv
    <2>2. i.epoch = epoch
        BY DEF NewIntent
    <2> QED BY <2>1, <2>2
<1> HIDE DEF i
<1>3. h \in Seq(EnforcementIntent) /\ epoch \in Nat /\ Len(h) \in Nat
    BY LenProperties DEF HistoryInv, TypeOK
<1>4. \A k \in 1..Len(evaluation_history') : evaluation_history'[k].epoch <= epoch
    <2> DEFINE p == push_back(h, i)
    <2>1. p \in Seq(EnforcementIntent) /\ Len(p) \in Nat
        BY <1>2, <1>3, PushBack, LenProperties
    <2>2. PICK d \in 0..1 : Pushed(p, h, i, d)
        BY <1>2, <1>3, PushBack
    <2>3. \A k \in 1..Len(h) : h[k].epoch <= epoch
        BY DEF HistoryInv, NotYounger
    <2> SUFFICES ASSUME NEW k \in 1..Len(p) PROVE p[k].epoch <= epoch
        BY <1>1 DEF i
    <2> HIDE DEF p
    <2>4. CASE k = Len(p)
        BY <1>2, <1>3, <2>1, <2>2, <2>4 DEF Pushed
    <2>5. CASE k # Len(p)
        <3>1. k \in 1..(Len(p) - 1)
            BY <2>1, <2>5
        <3>2. k + d \in 1..Len(h) /\ p[k] = h[k + d]
            BY <2>2, <3>1 DEF Pushed
        <3> QED BY <2>3, <3>2
    <2> QED BY <2>4, <2>5
<1>5. NotYounger(epoch, enforcement_history, evaluation_history)'
    BY <1>1, <1>4 DEF HistoryInv, NotYounger
<1>6. HistoryOrdered'
    BY <1>1 DEF HistoryInv, HistoryOrdered
<1> QED BY <1>1, <1>5, <1>6 DEF HistoryInv

\* authorize adds a receipt of the current epoch under the next id, so it
\* comes after every receipt of this and of the earlier epochs.
LEMMA HistoryAuthorize ==
    ASSUME HistoryInv, TypeOK', NEW i \in issued, authorize(i)
    PROVE  HistoryInv'
<1> DEFINE h == enforcement_history
           r == NewReceipt(i)
           p == push_back(h, r)
           n == enforcement_counter
<1>1. /\ h \in Seq(EnforcementReceipt) /\ Len(h) \in Nat
      /\ epoch \in Nat /\ n \in Nat /\ i \in EnforcementIntent /\ now \in Nat
    BY LenProperties DEF HistoryInv, TypeOK
<1>2. /\ r \in EnforcementReceipt
      /\ r.intent.epoch = epoch /\ r.id = n + 1
    BY <1>1, SMTT(30) DEF NewReceipt, authorize, Authorizable, EnforcementReceipt,
                EnforcementLifecycle
<1> HIDE DEF r
<1>3. p \in Seq(EnforcementReceipt) /\ Len(p) \in Nat
    BY <1>1, <1>2, PushBack, LenProperties
<1>4. PICK d \in 0..1 : Pushed(p, h, r, d)
    BY <1>1, <1>2, PushBack
<1>5. /\ Len(p) = Len(h) + 1 - d
       /\ p[Len(p)] = r
       /\ \A k \in 1..(Len(p) - 1) : k + d \in 1..Len(h) /\ p[k] = h[k + d]
    BY <1>4 DEF Pushed
<1>6. \A k \in 1..Len(p) : k # Len(p) => k \in 1..(Len(p) - 1)
    BY <1>3
<1>7. /\ enforcement_history' = p
      /\ enforcement_counter' = n + 1
      /\ UNCHANGED <<epoch, evaluation_history, pending, file>>
    BY DEF authorize, evaluations, storage, r
<1> HIDE DEF p
<1>8. \A k \in 1..Len(h) :
        /\ h[k].id \in Nat /\ h[k].intent.epoch \in Nat
        /\ h[k].intent.epoch <= epoch
        /\ h[k].intent.epoch = epoch => h[k].id <= n
    BY <1>1, ReceiptNumbers DEF HistoryInv, NotYounger
<1>9. \A j, k \in 1..Len(h) : j < k => Before(h[j], h[k])
    BY DEF HistoryInv, HistoryOrdered, Ordered
<1>10. \A k \in 1..Len(p) :
        /\ p[k].intent.epoch <= epoch
        /\ p[k].intent.epoch = epoch => p[k].id <= n + 1
    <2> SUFFICES ASSUME NEW k \in 1..Len(p)
                 PROVE  /\ p[k].intent.epoch <= epoch
                        /\ p[k].intent.epoch = epoch => p[k].id <= n + 1
        OBVIOUS
    <2>1. CASE k = Len(p)
        BY <1>1, <1>2, <1>5, <2>1
    <2>2. CASE k # Len(p)
        <3>1. k + d \in 1..Len(h) /\ p[k] = h[k + d]
            BY <1>5, <1>6, <2>2
        <3> QED BY <1>1, <1>8, <3>1
    <2> QED BY <2>1, <2>2
<1>11. ASSUME NEW j \in 1..Len(p), NEW k \in 1..Len(p), j < k
      PROVE  Before(p[j], p[k])
    <2>1. j + d \in 1..Len(h) /\ p[j] = h[j + d]
        <3>1. j \in 1..(Len(p) - 1)
            BY <1>3, <1>11
        <3> QED BY <1>5, <3>1
    <2>2. CASE k = Len(p)
        <3>1. \A m \in 1..Len(h) : Before(h[m], r)
            BY <1>1, <1>2, <1>8 DEF Before
        <3>2. p[k] = r
            BY <1>5, <2>2
        <3> QED BY <2>1, <3>1, <3>2
    <2>3. CASE k # Len(p)
        <3>1. k + d \in 1..Len(h) /\ p[k] = h[k + d] /\ j + d < k + d
            BY <1>3, <1>11, <1>5, <1>6, <2>3
        <3> QED BY <1>9, <2>1, <3>1
    <2> QED BY <2>2, <2>3
<1>12. Ordered(p)
    BY <1>11 DEF Ordered
<1>13. NotYounger(epoch, p, evaluation_history)
    BY <1>10 DEF HistoryInv, NotYounger
<1> QED BY <1>7, <1>10, <1>12, <1>13 DEF HistoryInv, HistoryOrdered

\* transition and complete_enforcement leave ids and epochs alone.
LEMMA HistoryMove ==
    ASSUME HistoryInv, TypeOK', NEW k \in 1..Len(enforcement_history),
           NEW to \in EnforcementLifecycle, move(k, to)
    PROVE  HistoryInv'
<1> DEFINE h == enforcement_history
           g == [h EXCEPT ![k].lifecycle = to]
<1>1. /\ Len(g) = Len(h)
      /\ \A j \in 1..Len(h) : g[j].id = h[j].id /\ g[j].intent = h[j].intent
    <2>1. h \in Seq(EnforcementReceipt)
        BY DEF HistoryInv, TypeOK
    <2> HIDE DEF h
    <2>2. k \in 1..Len(h)
        BY DEF h
    <2> QED BY <2>1, <2>2, MoveReceipt
<1>2. /\ enforcement_history' = g
      /\ UNCHANGED <<epoch, enforcement_counter, evaluation_history, pending, file>>
    BY DEF move, evaluations, storage
<1> HIDE DEF g
<1>3. Ordered(g)
    BY <1>1 DEF HistoryInv, HistoryOrdered, Ordered, Before
<1>4. NotYounger(epoch, g, evaluation_history)
    BY <1>1 DEF HistoryInv, NotYounger
<1>5. \A j \in 1..Len(g) : g[j].intent.epoch = epoch => g[j].id <= enforcement_counter
    BY <1>1 DEF HistoryInv
<1> QED BY <1>2, <1>3, <1>4, <1>5 DEF HistoryInv, HistoryOrdered

\* save copies an ordered history, load brings one back under a larger epoch.
LEMMA HistoryStorage ==
    ASSUME HistoryInv, TypeOK', StorageStep
    PROVE  HistoryInv'
<1>1. ASSUME NEW t \in Thread, save_snapshot(t)
      PROVE  HistoryInv'
    <2>1. StoredInv(Snapshot)
        BY DEF HistoryInv, HistoryOrdered, StoredInv, Snapshot
    <2>2. /\ pending' = [pending EXCEPT ![t] = [op |-> "save", st |-> Snapshot]]
          /\ UNCHANGED <<epoch, enforcement_counter, enforcement_history,
                         evaluation_history, file>>
        BY <1>1 DEF save_snapshot, fabric, evaluations, enforcements
    <2>3. \A u \in Thread : pending'[u] # None => StoredInv(pending'[u].st)
        BY <2>1, <2>2 DEF HistoryInv, TypeOK
    <2> QED BY <2>2, <2>3 DEF HistoryInv, HistoryOrdered
<1>2. ASSUME NEW t \in Thread, save_write(t)
      PROVE  HistoryInv'
    BY <1>2 DEF save_write, fabric, evaluations, enforcements, HistoryInv,
                HistoryOrdered, TypeOK
<1>3. ASSUME NEW t \in Thread, load_read(t)
      PROVE  HistoryInv'
    BY <1>3 DEF load_read, fabric, evaluations, enforcements, HistoryInv,
                HistoryOrdered, TypeOK
<1>4. ASSUME NEW t \in Thread, load_apply(t)
      PROVE  HistoryInv'
    <2> DEFINE st == pending[t].st
    <2>1. /\ epoch' = st.epoch + 1
          /\ enforcement_history' = st.enforcement_history
          /\ evaluation_history' = st.evaluation_history
          /\ pending' = [pending EXCEPT ![t] = None]
          /\ UNCHANGED <<enforcement_counter, file>>
        BY <1>4 DEF load_apply, next_epoch
    <2>2. StoredInv(st)
        BY <1>4 DEF load_apply, HistoryInv
    <2>3. st \in DurableState
        BY <1>4 DEF load_apply, HistoryInv, TypeOK, Option
    <2>4. st.epoch \in Nat /\ st.enforcement_history \in Seq(EnforcementReceipt)
          /\ st.evaluation_history \in Seq(EnforcementIntent)
        BY <2>3 DEF DurableState
    <2> HIDE DEF st
    <2>5. \A k \in 1..Len(st.enforcement_history) :
            st.enforcement_history[k].intent.epoch \in Nat
        BY <2>4, ReceiptNumbers
    <2>6. \A k \in 1..Len(st.evaluation_history) :
            st.evaluation_history[k].epoch \in Nat
        <3>1. \A k \in 1..Len(st.evaluation_history) :
                st.evaluation_history[k] \in EnforcementIntent
            BY <2>4, ElementOfSeq
        <3> QED BY <3>1 DEF EnforcementIntent
    <2>7. NotYounger(epoch', enforcement_history', evaluation_history')
        BY <2>1, <2>2, <2>4, <2>5, <2>6 DEF StoredInv, NotYounger
    <2>8. \A k \in 1..Len(enforcement_history') :
            enforcement_history'[k].intent.epoch # epoch'
        BY <2>1, <2>2, <2>4, <2>5 DEF StoredInv, NotYounger
    <2>9. \A u \in Thread : pending'[u] # None => StoredInv(pending'[u].st)
        BY <2>1 DEF HistoryInv, TypeOK
    <2>10. HistoryOrdered'
        BY <2>1, <2>2 DEF StoredInv, HistoryOrdered
    <2> QED BY <2>1, <2>7, <2>8, <2>9, <2>10 DEF HistoryInv
<1>5. ASSUME crash
      PROVE  HistoryInv'
    BY <1>5 DEF crash, HistoryInv, HistoryOrdered, NotYounger, Ordered, Idle
<1> QED BY <1>1, <1>2, <1>3, <1>4, <1>5 DEF StorageStep

\* The inductive invariant holds throughout.
LEMMA HistoryInvariant == Spec => []HistoryInv
<1>1. Init => HistoryInv
    <2> SUFFICES ASSUME Init PROVE HistoryInv
        OBVIOUS
    <2>1. TypeOK
        BY TypeCorrectInit
    <2> QED BY <2>1 DEF Init, HistoryInv, HistoryOrdered, NotYounger, Ordered, Idle
<1>2. HistoryInv /\ TypeOK' /\ [Next]_vars => HistoryInv'
    <2> SUFFICES ASSUME HistoryInv, TypeOK', [Next]_vars PROVE HistoryInv'
        OBVIOUS
    <2>1. CASE tick \/ RegistryStep \/ EvidenceStep \/ UNCHANGED vars
        <3>1. UNCHANGED historyVars
            BY <2>1 DEF tick, RegistryStep, set_policy, add_contract, supersede_contract,
               register, activate_contract, suspend_contract, expire_contract,
               retire_contract, set_lifecycle, registryOnly, EvidenceStep, ingest,
               ingest_violation_event, accumulatorsOnly, vars, historyVars,
               evaluations, enforcements, storage
        <3> QED BY <3>1, HistoryUnchanged
    <2>2. CASE EnforcementStep
        <3>1. CASE \E i \in issued : authorize(i)
            BY <3>1, HistoryAuthorize
        <3>2. CASE \E id \in EnforcementIds : complete_enforcement(id)
            BY <3>2, HistoryMove DEF complete_enforcement, EnforcementLifecycle
        <3>3. CASE \E id \in EnforcementIds, to \in EnforcementLifecycle :
                      transition(id, to)
            BY <3>3, HistoryMove DEF transition
        <3> QED BY <2>2, <3>1, <3>2, <3>3 DEF EnforcementStep
    <2> QED BY <2>1, <2>2, HistoryEvaluate, HistoryStorage DEF Next
<1> QED BY <1>1, <1>2, TypeCorrect, PTL DEF Spec

(***************************************************************************)
(* In every reachable state the enforcement history is in the order of     *)
(* authorisation and an (epoch, id) pair names one receipt, however often  *)
(* the fabric was saved, loaded and restarted.                             *)
(***************************************************************************)
THEOREM HistoryStaysOrdered == Spec => []HistoryOrdered
<1>1. HistoryInv => HistoryOrdered
    BY DEF HistoryInv
<1> QED BY <1>1, HistoryInvariant, PTL

(***************************************************************************)
(* Everything a load or a crash leaves in the histories is of an epoch     *)
(* before the new one.                                                     *)
(***************************************************************************)
THEOREM RestoredStateIsOld == Spec => RestoredIsOld
<1> DEFINE Old == incarnation' > incarnation =>
              /\ \A k \in 1..Len(enforcement_history') :
                    enforcement_history'[k].intent.epoch < epoch'
              /\ \A k \in 1..Len(evaluation_history') :
                    evaluation_history'[k].epoch < epoch'
<1>1. HistoryInv /\ [Next]_vars => [Old]_vars
    <2> SUFFICES ASSUME HistoryInv, Next, incarnation' > incarnation
                 PROVE  Old
        BY DEF vars
    <2>1. incarnation \in Nat /\ ~ (incarnation > incarnation)
        BY DEF HistoryInv, TypeOK
    <2>2. \/ \E t \in Thread : load_apply(t)
          \/ crash
        BY <2>1 DEF Next, tick, RegistryStep, set_policy, add_contract,
           supersede_contract, register, activate_contract, suspend_contract,
           expire_contract, retire_contract, set_lifecycle, registryOnly, evaluate,
           EvidenceStep, ingest, ingest_violation_event, accumulatorsOnly,
           EnforcementStep, authorize, complete_enforcement, transition, move,
           StorageStep, save_snapshot, save_write, load_read
    <2>3. CASE crash
        BY <2>3 DEF crash
    <2>4. ASSUME NEW t \in Thread, load_apply(t)
          PROVE  Old
        <3> DEFINE st == pending[t].st
        <3>1. /\ epoch' = st.epoch + 1
              /\ enforcement_history' = st.enforcement_history
              /\ evaluation_history' = st.evaluation_history
            BY <2>4 DEF load_apply, next_epoch
        <3>2. StoredInv(st) /\ st \in DurableState
            BY <2>4 DEF load_apply, HistoryInv, TypeOK, Option
        <3>3. st.epoch \in Nat /\ st.enforcement_history \in Seq(EnforcementReceipt)
              /\ st.evaluation_history \in Seq(EnforcementIntent)
            BY <3>2 DEF DurableState
        <3> HIDE DEF st
        <3>4. \A k \in 1..Len(st.enforcement_history) :
                st.enforcement_history[k].intent.epoch \in Nat
            BY <3>3, ReceiptNumbers
        <3>5. \A k \in 1..Len(st.evaluation_history) :
                st.evaluation_history[k] \in EnforcementIntent
            BY <3>3, ElementOfSeq
        <3>6. \A k \in 1..Len(st.evaluation_history) :
                st.evaluation_history[k].epoch \in Nat
            BY <3>5 DEF EnforcementIntent
        <3> QED BY <3>1, <3>2, <3>3, <3>4, <3>6 DEF StoredInv, NotYounger
    <2> QED BY <2>2, <2>3, <2>4
<1> QED BY <1>1, HistoryInvariant, PTL DEF Spec, RestoredIsOld

-----------------------------------------------------------------------------
(* The lifecycle of a receipt *)

\* An (epoch, id) pair names one position of the history.
LEMMA ReceiptUnique ==
    ASSUME HistoryInv,
           NEW j \in 1..Len(enforcement_history),
           NEW k \in 1..Len(enforcement_history),
           enforcement_history[j].id = enforcement_history[k].id,
           enforcement_history[j].intent.epoch = enforcement_history[k].intent.epoch
    PROVE  j = k
<1> DEFINE h == enforcement_history
<1>1. h \in Seq(EnforcementReceipt)
    BY DEF HistoryInv, TypeOK
<1>2. h[j].id \in Nat /\ h[j].intent.epoch \in Nat
    BY <1>1, ReceiptNumbers
<1>3. ~ Before(h[j], h[k]) /\ ~ Before(h[k], h[j])
    BY <1>2 DEF Before
<1>4. ~ (j < k) /\ ~ (k < j)
    BY <1>3 DEF HistoryInv, HistoryOrdered, Ordered
<1>5. j \in Nat /\ k \in Nat
    BY <1>1, LenProperties
<1> QED BY <1>4, <1>5

\* No legal transition leads out of the aborted states.
LEMMA AbortedIsClosed ==
    ASSUME NEW from \in Aborted, NEW to, enforcement_transition_legal(from, to)
    PROVE  to \in Aborted
BY DEF Aborted, enforcement_transition_legal

\* What AbortedNeverCommits says of one step.
AbortedStays ==
    incarnation' = incarnation =>
        \A j \in 1..Len(enforcement_history), k \in 1..Len(enforcement_history') :
            LET r == enforcement_history[j]
                q == enforcement_history'[k]
            IN  /\ r.id = q.id
                /\ r.intent.epoch = q.intent.epoch
                /\ r.lifecycle \in Aborted
                => q.lifecycle \in Aborted

\* authorize: a receipt of the new history is an old one, or the new one,
\* whose id no receipt of this epoch has.
LEMMA AbortedAuthorize ==
    ASSUME HistoryInv, NEW i \in issued, authorize(i)
    PROVE  AbortedStays
<1> DEFINE h == enforcement_history
           x == NewReceipt(i)
           p == push_back(h, x)
<1>1. /\ h \in Seq(EnforcementReceipt) /\ Len(h) \in Nat
      /\ enforcement_counter \in Nat /\ i \in EnforcementIntent /\ now \in Nat
    BY LenProperties DEF HistoryInv, TypeOK
<1>2. /\ x \in EnforcementReceipt
      /\ x.intent.epoch = epoch /\ x.id = enforcement_counter + 1
    BY <1>1 DEF NewReceipt, authorize, Authorizable, EnforcementReceipt,
                EnforcementLifecycle
<1>3. enforcement_history' = p
    BY DEF authorize
<1> HIDE DEF x
<1>4. p \in Seq(EnforcementReceipt) /\ Len(p) \in Nat
    BY <1>1, <1>2, PushBack, LenProperties
<1>5. PICK d \in 0..1 : Pushed(p, h, x, d)
    BY <1>1, <1>2, PushBack
<1> HIDE DEF p
<1>6. ASSUME NEW j \in 1..Len(h), NEW k \in 1..Len(p),
             h[j].id = p[k].id, h[j].intent.epoch = p[k].intent.epoch
      PROVE  p[k] = h[j]
    <2>1. CASE k = Len(p)
        <3>1. p[k] = x
            BY <1>5, <2>1 DEF Pushed
        <3>2. h[j].id \in Nat
            BY <1>1, ReceiptNumbers
        <3>3. h[j].intent.epoch = epoch => h[j].id <= enforcement_counter
            BY DEF HistoryInv
        <3> QED BY <1>1, <1>2, <1>6, <3>1, <3>2, <3>3
    <2>2. CASE k # Len(p)
        <3>1. k \in 1..(Len(p) - 1)
            BY <1>4, <2>2
        <3>2. k + d \in 1..Len(h) /\ p[k] = h[k + d]
            BY <1>5, <3>1 DEF Pushed
        <3>3. j = k + d
            BY <1>6, <3>2, ReceiptUnique
        <3> QED BY <3>2, <3>3
    <2> QED BY <2>1, <2>2
<1> QED BY <1>3, <1>6 DEF AbortedStays

\* transition and complete_enforcement move one receipt, along a legal edge.
LEMMA AbortedMove ==
    ASSUME HistoryInv, NEW m \in 1..Len(enforcement_history),
           NEW to \in EnforcementLifecycle, move(m, to),
           enforcement_history[m].lifecycle \in Aborted => to \in Aborted
    PROVE  AbortedStays
<1> DEFINE h == enforcement_history
           g == [h EXCEPT ![m].lifecycle = to]
<1>1. /\ Len(g) = Len(h)
      /\ \A k \in 1..Len(h) :
            /\ g[k].id = h[k].id
            /\ g[k].intent = h[k].intent
            /\ g[k].lifecycle = IF k = m THEN to ELSE h[k].lifecycle
    <2>1. h \in Seq(EnforcementReceipt)
        BY DEF HistoryInv, TypeOK
    <2> HIDE DEF h
    <2>2. m \in 1..Len(h)
        BY DEF h
    <2> QED BY <2>1, <2>2, MoveReceipt
<1>2. enforcement_history' = g
    BY DEF move
<1> HIDE DEF g
<1>3. ASSUME NEW j \in 1..Len(h), NEW k \in 1..Len(g), h[j].id = g[k].id,
             h[j].intent.epoch = g[k].intent.epoch, h[j].lifecycle \in Aborted
      PROVE  g[k].lifecycle \in Aborted
    <2>1. k \in 1..Len(h) /\ h[j].id = h[k].id /\ h[j].intent.epoch = h[k].intent.epoch
        BY <1>1, <1>3
    <2>2. j = k
        BY <2>1, ReceiptUnique
    <2> QED BY <1>1, <1>3, <2>1, <2>2
<1> QED BY <1>2, <1>3 DEF AbortedStays

(***************************************************************************)
(* No sequence of calls takes an enforcement that failed, was cancelled,   *)
(* superseded or expired, or whose outcome is unknown, back to a live      *)
(* state: the scan for an id finds the first receipt of the history, which *)
(* may be one of an older epoch, but never revives one.                    *)
(***************************************************************************)
THEOREM AbortedStaysAborted == Spec => AbortedNeverCommits
<1>1. HistoryInv /\ [Next]_vars => [AbortedStays]_vars
    <2> SUFFICES ASSUME HistoryInv, Next PROVE AbortedStays
        BY DEF vars
    <2>1. CASE UNCHANGED enforcement_history
        BY <2>1, ReceiptUnique DEF AbortedStays
    <2>2. ASSUME NEW i \in issued, authorize(i)
          PROVE  AbortedStays
        BY <2>2, AbortedAuthorize
    <2>3. ASSUME NEW id \in EnforcementIds, complete_enforcement(id)
          PROVE  AbortedStays
        <3>1. PICK m \in 1..Len(enforcement_history) :
                /\ enforcement_history[m].lifecycle = "Acknowledged"
                /\ move(m, "Effective")
            BY <2>3 DEF complete_enforcement
        <3>2. "Acknowledged" \notin Aborted /\ "Effective" \in EnforcementLifecycle
            BY DEF Aborted, EnforcementLifecycle
        <3> QED BY <3>1, <3>2, AbortedMove
    <2>4. ASSUME NEW id \in EnforcementIds, NEW to \in EnforcementLifecycle,
                 transition(id, to)
          PROVE  AbortedStays
        <3>1. PICK m \in 1..Len(enforcement_history) :
                /\ enforcement_transition_legal(enforcement_history[m].lifecycle, to)
                /\ move(m, to)
            BY <2>4 DEF transition
        <3> QED BY <3>1, AbortedMove, AbortedIsClosed
    <2>5. CASE crash \/ \E t \in Thread : load_apply(t)
        <3>1. incarnation \in Nat /\ incarnation' = incarnation + 1
            BY <2>5 DEF crash, load_apply, HistoryInv, TypeOK
        <3> QED BY <3>1 DEF AbortedStays
    <2>6. ASSUME NEW t \in Thread, save_snapshot(t) \/ save_write(t) \/ load_read(t)
          PROVE  UNCHANGED enforcement_history
        BY <2>6 DEF save_snapshot, save_write, load_read, fabric, enforcements
    <2>7. CASE tick \/ RegistryStep \/ EvidenceStep
        BY <2>1, <2>7 DEF tick, RegistryStep, set_policy, add_contract,
           supersede_contract, register, activate_contract, suspend_contract,
           expire_contract, retire_contract, set_lifecycle, registryOnly,
           EvidenceStep, ingest, ingest_violation_event, accumulatorsOnly, enforcements
    <2>8. CASE \E s \in Service, w \in Workload : evaluate(s, w)
        BY <2>1, <2>8 DEF evaluate, enforcements
    <2> QED BY <2>1, <2>2, <2>3, <2>4, <2>5, <2>6, <2>7, <2>8
            DEF Next, EnforcementStep, StorageStep
<1>2. AbortedNeverCommits <=> [][AbortedStays]_vars
    BY PTL DEF AbortedNeverCommits, AbortedStays
<1> QED BY <1>1, <1>2, HistoryInvariant, PTL DEF Spec

-----------------------------------------------------------------------------
(* Looking an evaluation up *)

(***************************************************************************)
(* The inductive invariant.  load keeps the counter and brings back the    *)
(* records of another incarnation, so a lookup is exact only because every *)
(* intent of this incarnation has a number the counter has reached since,  *)
(* and its record replaced whatever load had put there.                    *)
(***************************************************************************)
LookupInv ==
    /\ TypeOK
    /\ \A i \in issued :
          /\ i.incarnation <= incarnation
          /\ i.incarnation = incarnation =>
                /\ i.evaluation_gen \in 1..evaluation_counter
                /\ evaluation_by_id[i.evaluation_gen] = i

\* evaluate records the new intent under a number no intent of this
\* incarnation has.
LEMMA LookupEvaluate ==
    ASSUME LookupInv, TypeOK', NEW s \in Service, NEW w \in Workload, evaluate(s, w)
    PROVE  LookupInv'
<1>1. PICK id \in ContractId, b \in ObjectiveId \cup {None} :
        LET i == NewIntent(id, b)
        IN  /\ evaluation_by_id' = [evaluation_by_id EXCEPT ![i.evaluation_gen] = i]
            /\ issued' = issued \cup {i}
            /\ evaluation_counter < MaxEvaluations
            /\ evaluation_counter' = evaluation_counter + 1
            /\ incarnation' = incarnation
    BY DEF evaluate, record_evaluation
<1> DEFINE i == NewIntent(id, b)
<1>2. i.evaluation_gen = evaluation_counter + 1 /\ i.incarnation = incarnation
    BY DEF NewIntent
<1>3. /\ evaluation_by_id' = [evaluation_by_id EXCEPT ![i.evaluation_gen] = i]
      /\ issued' = issued \cup {i}
    BY <1>1
<1> HIDE DEF i
<1>4. /\ evaluation_counter \in Nat /\ MaxEvaluations \in Nat /\ incarnation \in Nat
      /\ evaluation_by_id \in [1..MaxEvaluations -> Option(EnforcementIntent)]
    BY DEF LookupInv, TypeOK
<1>5. i.evaluation_gen \in 1..MaxEvaluations /\ evaluation_by_id'[i.evaluation_gen] = i
    BY <1>1, <1>2, <1>3, <1>4
<1>6. ASSUME NEW j \in issued
      PROVE  /\ j.incarnation <= incarnation
             /\ j.incarnation = incarnation =>
                   /\ j.evaluation_gen \in 1..(evaluation_counter + 1)
                   /\ evaluation_by_id'[j.evaluation_gen] = j
    BY <1>1, <1>2, <1>3, <1>4 DEF LookupInv
<1> QED BY <1>1, <1>2, <1>3, <1>4, <1>5, <1>6 DEF LookupInv

\* A restart starts an incarnation that has issued nothing yet.
LEMMA LookupRestart ==
    ASSUME LookupInv, TypeOK', crash \/ \E t \in Thread : load_apply(t)
    PROVE  LookupInv'
<1>1. incarnation \in Nat /\ incarnation' = incarnation + 1 /\ issued' = issued
    BY DEF crash, load_apply, LookupInv, TypeOK
<1>2. \A i \in issued : i.incarnation \in Nat
    BY DEF LookupInv, TypeOK, EnforcementIntent
<1> QED BY <1>1, <1>2 DEF LookupInv

(***************************************************************************)
(* get_evaluation finds the evaluation of this incarnation that has the    *)
(* id, whatever records with the same ids load has restored.               *)
(***************************************************************************)
THEOREM LookupIsExact == Spec => []EvaluationLookupExact
<1>1. Init => LookupInv
    BY TypeCorrectInit DEF Init, LookupInv
<1>2. LookupInv /\ TypeOK' /\ [Next]_vars => LookupInv'
    <2> SUFFICES ASSUME LookupInv, TypeOK', [Next]_vars PROVE LookupInv'
        OBVIOUS
    <2>1. CASE UNCHANGED <<evaluation_counter, evaluation_by_id, issued, incarnation>>
        BY <2>1 DEF LookupInv
    <2>2. CASE tick \/ RegistryStep \/ EvidenceStep
        BY <2>1, <2>2 DEF tick, RegistryStep, set_policy, add_contract,
           supersede_contract, register, activate_contract, suspend_contract,
           expire_contract, retire_contract, set_lifecycle, registryOnly,
           EvidenceStep, ingest, ingest_violation_event, accumulatorsOnly, evaluations
    <2>3. CASE EnforcementStep
        BY <2>1, <2>3 DEF EnforcementStep, authorize, complete_enforcement, transition,
           move, evaluations
    <2>4. ASSUME NEW t \in Thread, save_snapshot(t) \/ save_write(t) \/ load_read(t)
          PROVE  LookupInv'
        BY <2>1, <2>4 DEF save_snapshot, save_write, load_read, fabric, evaluations
    <2>5. CASE UNCHANGED vars
        BY <2>1, <2>5 DEF vars, evaluations
    <2> QED BY <2>2, <2>3, <2>4, <2>5, LookupEvaluate, LookupRestart
            DEF Next, StorageStep
<1>3. LookupInv => EvaluationLookupExact
    BY DEF LookupInv, EvaluationLookupExact
<1> QED BY <1>1, <1>2, <1>3, TypeCorrect, PTL DEF Spec

-----------------------------------------------------------------------------
(* Expiration *)

\* What LapsedStaysLapsed says of one step.
LapsedStays ==
    \A id \in ContractId :
        /\ contracts[id] # None
        /\ \E e \in contracts[id].expiration : e <= now
        /\ contracts'[id] # None
        /\ contracts'[id].gen = contracts[id].gen
        /\ incarnation' = incarnation
        => ~ can_authorize(contracts[id])'

\* A contract whose expiration has passed and stays in the record stays lapsed.
LEMMA LapsedKept ==
    ASSUME TypeOK, TypeOK', NEW id \in ContractId, contracts[id] # None,
           now <= now', contracts'[id].expiration = contracts[id].expiration,
           NEW e \in contracts[id].expiration, e <= now
    PROVE  ~ can_authorize(contracts[id])'
<1>1. contracts[id] \in SloContract
    BY DEF TypeOK, Option
<1>2. e \in Nat /\ now \in Nat /\ now' \in Nat
    BY <1>1 DEF TypeOK, SloContract
<1>3. ~ (now' < e)
    BY <1>2
<1> QED BY <1>3 DEF can_authorize

\* The calls that set a lifecycle leave an expiration that is set alone.
LEMMA LapsedCall ==
    ASSUME TypeOK, TypeOK', NEW m \in ManagedIds, LifecycleCall(m)
    PROVE  LapsedStays
<1> SUFFICES ASSUME NEW id \in ContractId, contracts[id] # None,
                    NEW e \in contracts[id].expiration, e <= now
             PROVE  ~ can_authorize(contracts[id])'
    BY DEF LapsedStays
<1>1. m \in ContractId /\ contracts \in [ContractId -> Option(SloContract)]
      /\ contracts[m] # None
    BY LifecycleCallSets DEF TypeOK
<1>2. contracts[m] \in SloContract
    BY <1>1 DEF Option
<1>3. now' = now
    BY DEF LifecycleCall, activate_contract, suspend_contract, expire_contract,
           retire_contract, set_lifecycle, registryOnly
<1>4. PICK l, from, until :
        /\ set_lifecycle(m, l, from, until)
        /\ contracts[m].expiration # {} => until = contracts[m].expiration
    BY DEF LifecycleCall, activate_contract, suspend_contract, expire_contract,
           retire_contract
<1>5. contracts'[m].expiration = until
    BY <1>1, <1>2, <1>4 DEF set_lifecycle, SloContract
<1>6. id # m => contracts'[id] = contracts[id]
    BY <1>1, <1>4 DEF set_lifecycle
<1>7. contracts'[id].expiration = contracts[id].expiration
    BY <1>4, <1>5, <1>6
<1>8. now <= now'
    BY <1>3 DEF TypeOK
<1> QED BY <1>7, <1>8, LapsedKept

(***************************************************************************)
(* A contract generation whose expiration has passed never authorises      *)
(* again in this incarnation: activate_contract keeps the expiration,      *)
(* expire_contract does not replace one that is set, and the clock does    *)
(* not run backwards.                                                      *)
(***************************************************************************)
THEOREM LapsedForGood == Spec => LapsedStaysLapsed
<1>1. TypeOK /\ TypeOK' /\ [Next]_vars => [LapsedStays]_vars
    <2> SUFFICES ASSUME TypeOK, TypeOK', Next PROVE LapsedStays
        BY DEF vars
    <2>1. now \in Nat /\ incarnation \in Nat
        BY DEF TypeOK
    <2>2. CASE contracts' = contracts /\ now <= now'
        BY <2>2, LapsedKept DEF LapsedStays
    <2>3. CASE contracts' = contracts /\ now' = now
        BY <2>1, <2>2, <2>3
    <2>4. CASE tick
        BY <2>1, <2>2, <2>4 DEF tick, registry
    <2>5. ASSUME NEW c \in ContractDefs, register(c) PROVE LapsedStays
        <3> SUFFICES ASSUME NEW id \in ContractId, contracts[id] # None,
                            NEW e \in contracts[id].expiration, e <= now,
                            contracts'[id].gen = contracts[id].gen
                     PROVE  ~ can_authorize(contracts[id])'
            BY DEF LapsedStays
        <3>1. c.id \in ContractId /\ contracts \in [ContractId -> Option(SloContract)]
              /\ now' = now
            BY <2>5 DEF TypeOK, SloContract, register, registryOnly
        <3>2. id # c.id
            <4> SUFFICES ASSUME id = c.id PROVE FALSE
                OBVIOUS
            <4>1. contracts[id] \in SloContract /\ contracts'[id] = c
                BY <2>5, <3>1 DEF register, Option
            <4>2. contracts[id].gen < c.gen /\ contracts[id].gen \in Nat
                BY <2>5, <4>1 DEF register, SloContract
            <4> QED BY <4>1, <4>2
        <3>3. contracts'[id] = contracts[id]
            BY <2>5, <3>1, <3>2 DEF register
        <3> QED BY <2>1, <3>1, <3>3, LapsedKept
    <2>6. CASE RegistryStep
        <3>1. ASSUME NEW p \in PolicyId, NEW gen \in PolicyGens, set_policy(p, gen)
              PROVE  LapsedStays
            BY <2>3, <3>1 DEF set_policy, registryOnly
        <3> QED BY <2>5, <2>6, <3>1, LapsedCall
                DEF RegistryStep, add_contract, supersede_contract, LifecycleCall
    <2>7. CASE EvidenceStep \/ EnforcementStep
        BY <2>3, <2>7 DEF EvidenceStep, ingest, ingest_violation_event, accumulatorsOnly,
           EnforcementStep, authorize, complete_enforcement, transition, move, registry
    <2>8. CASE \E s \in Service, w \in Workload : evaluate(s, w)
        BY <2>3, <2>8 DEF evaluate, registry
    <2>9. ASSUME NEW t \in Thread, save_snapshot(t) \/ save_write(t) \/ load_read(t)
          PROVE  LapsedStays
        BY <2>3, <2>9 DEF save_snapshot, save_write, load_read, fabric, registry
    <2>10. CASE crash \/ \E t \in Thread : load_apply(t)
        <3>1. incarnation' = incarnation + 1
            BY <2>10 DEF crash, load_apply
        <3> QED BY <2>1, <3>1 DEF LapsedStays
    <2> QED BY <2>4, <2>6, <2>7, <2>8, <2>9, <2>10 DEF Next, StorageStep
<1>2. LapsedStaysLapsed <=> [][LapsedStays]_vars
    BY PTL DEF LapsedStaysLapsed, LapsedStays
<1> QED BY <1>1, <1>2, TypeCorrect, PTL DEF Spec

-----------------------------------------------------------------------------
(***************************************************************************)
(* What authorize guarantees when the contracts of a service hold disjoint *)
(* sets of objectives: an intent is checked against the very contract it   *)
(* was evaluated for, so no stale authority passes and the cooldown of its *)
(* objective is honoured.  Without disjointness this fails (run            *)
(* authority_shared).                                                      *)
(***************************************************************************)

\* Contract c is, up to lifecycle and time window, one the host may register.
Defined(c, id) ==
    \E d \in ContractDefs : /\ d.id = id
                            /\ d.gen = c.gen
                            /\ d.service = c.service
                            /\ d.objectives = c.objectives

Known(registered) ==
    \A id \in ContractId : registered[id] # None => Defined(registered[id], id)

\* The contract an intent was evaluated for holds its objective.
Rooted(i) ==
    i.objective_id # None =>
        \E d \in ContractDefs : /\ d.id = i.contract
                                /\ d.service = i.service
                                /\ d.objectives[i.objective_id] # 0

\* Later receipts of a contract are bound to no older generation of it.
Forward(history) ==
    \A j, k \in 1..Len(history) :
        j < k /\ history[j].intent.contract = history[k].intent.contract =>
            history[j].intent.contract_gen <= history[k].intent.contract_gen

Fenced(registered, history) ==
    /\ Known(registered)
    /\ Covers(registered, history)
    /\ Forward(history)

(***************************************************************************)
(* The inductive invariant.  A receipt is granted at the generation its    *)
(* contract has then, and generations only grow, so the registry covers    *)
(* the history and the history moves forward; a crash or a load brings an  *)
(* older registry back only together with the history it covers.           *)
(***************************************************************************)
FencingInv ==
    /\ TypeOK
    /\ \A i \in issued : Rooted(i)
    /\ Fenced(contracts, enforcement_history)
    /\ file # None => Fenced(file.contracts, file.enforcement_history)
    /\ \A t \in Thread : pending[t] # None =>
          Fenced(pending[t].st.contracts, pending[t].st.enforcement_history)

\* The fields of a receipt that fencing is about.
LEMMA ReceiptAuthority ==
    ASSUME NEW h \in Seq(EnforcementReceipt), NEW k \in 1..Len(h)
    PROVE  /\ h[k].intent.contract \in ContractId
           /\ h[k].intent.contract_gen \in Nat
<1>1. h[k] \in EnforcementReceipt
    BY ElementOfSeq
<1> QED BY <1>1 DEF EnforcementReceipt, EnforcementIntent

\* An intent is authorised against the contract it was evaluated for.
LEMMA TargetIsOwn ==
    ASSUME ObjectivesDisjoint, FencingInv, NEW i \in issued, Authorizable(i)
    PROVE  /\ contracts[i.contract] # None
           /\ contracts[i.contract] \in SloContract
           /\ contracts[i.contract].gen = i.contract_gen
           /\ can_authorize(contracts[i.contract])
           /\ policies[contracts[i.contract].policy_id] = i.policy_gen
<1>1. PICK id \in ContractId :
        /\ Target(id, i)
        /\ contracts[id].gen = i.contract_gen
        /\ can_authorize(contracts[id])
        /\ policies[contracts[id].policy_id] = i.policy_gen
    BY DEF Authorizable
<1>2. /\ i.objective_id # None
      /\ contracts[id] # None
      /\ contracts[id].objectives[i.objective_id] # 0
      /\ contracts[id].service = i.service
    BY <1>1 DEF Target, HoldsTarget, Holds
<1>3. i \in EnforcementIntent
    BY DEF FencingInv, TypeOK
<1>4. i.objective_id \in ObjectiveId
    BY <1>2, <1>3 DEF EnforcementIntent
<1>5. PICK c \in ContractDefs : /\ c.id = id
                                /\ c.service = i.service
                                /\ c.objectives[i.objective_id] # 0
    BY <1>2 DEF FencingInv, Fenced, Known, Defined
<1>6. PICK d \in ContractDefs : /\ d.id = i.contract
                                /\ d.service = i.service
                                /\ d.objectives[i.objective_id] # 0
    BY <1>2 DEF FencingInv, Rooted
<1>7. id = i.contract
    BY <1>4, <1>5, <1>6 DEF ObjectivesDisjoint
<1>8. contracts[id] \in SloContract
    BY <1>2 DEF FencingInv, TypeOK, Option
<1> QED BY <1>1, <1>2, <1>7, <1>8

\* A registry step keeps Known and lets no contract generation shrink.
LEMMA RegistryGrows ==
    ASSUME TypeOK, Known(contracts), RegistryStep
    PROVE  /\ Known(contracts')
           /\ \A id \in ContractId : contracts[id] # None =>
                 /\ contracts'[id] # None
                 /\ contracts[id].gen \in Nat /\ contracts'[id].gen \in Nat
                 /\ contracts[id].gen <= contracts'[id].gen
<1> DEFINE Grows == /\ Known(contracts')
                    /\ \A id \in ContractId : contracts[id] # None =>
                          /\ contracts'[id] # None
                          /\ contracts[id].gen \in Nat /\ contracts'[id].gen \in Nat
                          /\ contracts[id].gen <= contracts'[id].gen
<1>1. /\ contracts \in [ContractId -> SloContract \cup {None}]
      /\ Known(contracts)
    BY DEF TypeOK, Option
<1>2. \A id \in ContractId : contracts[id] # None =>
        contracts[id] \in SloContract /\ contracts[id].gen \in Nat
    BY <1>1 DEF SloContract
<1>3. ASSUME UNCHANGED contracts
      PROVE  Grows
    BY <1>1, <1>2, <1>3
<1>4. ASSUME NEW c \in ContractDefs, register(c)
      PROVE  Grows
    <2>1. c \in SloContract /\ c.id \in ContractId /\ c.gen \in Nat /\ c # None
        <3>1. c \in SloContract /\ c # None
            BY ContractDefsAssumption, NoneAssumption
        <3> QED BY <3>1 DEF SloContract
    <2>2. contracts' = [contracts EXCEPT ![c.id] = c]
        BY <1>4 DEF register
    <2>3. Defined(c, c.id)
        BY DEF Defined
    <2>4. Known(contracts')
        BY <1>1, <2>1, <2>2, <2>3 DEF Known
    <2>5. contracts[c.id] # None => contracts[c.id].gen < c.gen
        BY <1>4 DEF register
    <2> QED BY <1>1, <1>2, <2>1, <2>2, <2>4, <2>5
<1>5. ASSUME NEW id \in ContractId, NEW l \in ContractLifecycle,
             NEW from \in Nat, NEW e \in SUBSET Nat, contracts[id] # None,
             set_lifecycle(id, l, from, e)
      PROVE  Grows
    <2> DEFINE c == [contracts[id] EXCEPT !.lifecycle = l, !.effective_from = from,
                                          !.expiration = e]
    <2>1. contracts[id] \in SloContract
        BY <1>2, <1>5
    <2>2. /\ c.gen = contracts[id].gen
          /\ c.service = contracts[id].service
          /\ c.objectives = contracts[id].objectives
        BY <2>1 DEF SloContract
    <2>3. contracts' = [contracts EXCEPT ![id] = c]
        BY <1>5 DEF set_lifecycle
    <2>4. Defined(c, id)
        BY <1>1, <1>5, <2>2 DEF Known, Defined
    <2>5. Known(contracts')
        <3> HIDE DEF c
        <3> QED BY <1>1, <2>3, <2>4 DEF Known
    <2>6. ASSUME NEW d \in ContractId, contracts[d] # None
          PROVE  contracts'[d].gen = contracts[d].gen
        <3> HIDE DEF c
        <3> QED BY <1>1, <2>2, <2>3, <2>6
    <2>7. c # None
        <3>1. c \in SloContract
            BY <2>1 DEF SloContract
        <3> QED BY <3>1, NoneAssumption
    <2>8. contracts'[id] # None
        <3> HIDE DEF c
        <3> QED BY <1>1, <2>3, <2>7
    <2>9. \A d \in ContractId : d # id => contracts'[d] = contracts[d]
        BY <1>1, <2>3
    <2> QED BY <1>2, <2>5, <2>6, <2>8, <2>9
<1>6. ASSUME NEW id \in ManagedIds, LifecycleCall(id)
      PROVE  Grows
    <2>2. PICK l \in ContractLifecycle, from \in Nat, e \in SUBSET Nat :
            set_lifecycle(id, l, from, e)
        BY <1>6, LifecycleCallSets
    <2>3. id \in ContractId /\ contracts[id] # None
        BY <1>6, LifecycleCallSets
    <2> HIDE DEF Grows
    <2> QED BY <1>5, <2>2, <2>3
<1>7. ASSUME NEW p \in PolicyId, NEW gen \in PolicyGens, set_policy(p, gen)
      PROVE  Grows
    BY <1>3, <1>7 DEF set_policy
<1> QED BY <1>4, <1>6, <1>7 DEF RegistryStep, add_contract, supersede_contract, LifecycleCall

\* A registry step keeps the inductive invariant.
LEMMA FencingRegistry ==
    ASSUME FencingInv, TypeOK', RegistryStep
    PROVE  FencingInv'
<1> DEFINE h == enforcement_history
<1>1. UNCHANGED <<enforcement_history, issued, pending, file>>
    BY DEF RegistryStep, set_policy, add_contract, supersede_contract, register,
           activate_contract, suspend_contract, expire_contract, retire_contract,
           set_lifecycle, registryOnly, evaluations, enforcements, storage
<1>2. h \in Seq(EnforcementReceipt) /\ Covers(contracts, h)
    BY DEF FencingInv, TypeOK, Fenced
<1>3. \A k \in 1..Len(h) : h[k].intent.contract \in ContractId
                          /\ h[k].intent.contract_gen \in Nat
    BY <1>2, ReceiptAuthority
<1>4. Covers(contracts', h)
    <2> SUFFICES ASSUME NEW k \in 1..Len(h)
                 PROVE  /\ contracts'[h[k].intent.contract] # None
                        /\ h[k].intent.contract_gen <= contracts'[h[k].intent.contract].gen
        BY DEF Covers
    <2> DEFINE c == h[k].intent.contract
               g == h[k].intent.contract_gen
    <2>1. c \in ContractId /\ g \in Nat
        BY <1>3
    <2>2. contracts[c] # None /\ g <= contracts[c].gen
        BY <1>2 DEF Covers
    <2> HIDE DEF c, g
    <2>3. /\ contracts'[c] # None
          /\ contracts[c].gen \in Nat /\ contracts'[c].gen \in Nat
          /\ contracts[c].gen <= contracts'[c].gen
        BY <2>1, <2>2, RegistryGrows DEF FencingInv, Fenced
    <2>4. g <= contracts'[c].gen
        BY <2>1, <2>2, <2>3
    <2> QED BY <2>3, <2>4 DEF c, g
<1>5. Fenced(contracts', enforcement_history')
    BY <1>1, <1>4, RegistryGrows DEF FencingInv, Fenced
<1> QED BY <1>1, <1>5 DEF FencingInv

\* evaluate issues an intent whose objective the evaluated contract holds.
LEMMA FencingEvaluate ==
    ASSUME FencingInv, TypeOK', NEW s \in Service, NEW w \in Workload,
           evaluate(s, w)
    PROVE  FencingInv'
<1>1. PICK id \in ContractId, b \in ObjectiveId \cup {None} :
        /\ contracts[id] # None
        /\ b # None => contracts[id].objectives[b] # 0
        /\ issued' = issued \cup {NewIntent(id, b)}
        /\ UNCHANGED <<contracts, enforcement_history, pending, file>>
    BY DEF evaluate, Resolves, InScope, registry, enforcements, storage
<1>2. /\ NewIntent(id, b).contract = id
      /\ NewIntent(id, b).service = contracts[id].service
      /\ NewIntent(id, b).objective_id = b
    BY DEF NewIntent
<1>3. Defined(contracts[id], id)
    BY <1>1 DEF FencingInv, Fenced, Known
<1>4. Rooted(NewIntent(id, b))
    BY <1>1, <1>2, <1>3 DEF Rooted, Defined
<1>5. \A i \in issued' : Rooted(i)
    BY <1>1, <1>4 DEF FencingInv
<1> QED BY <1>1, <1>5 DEF FencingInv

\* authorize grants the generation its own contract has now.
LEMMA FencingAuthorize ==
    ASSUME ObjectivesDisjoint, FencingInv, TypeOK', NEW i \in issued, authorize(i)
    PROVE  FencingInv'
<1> DEFINE h == enforcement_history
           r == NewReceipt(i)
           p == push_back(h, r)
<1>1. /\ h \in Seq(EnforcementReceipt) /\ Len(h) \in Nat /\ now \in Nat
      /\ i \in EnforcementIntent /\ enforcement_counter \in Nat
    BY LenProperties DEF FencingInv, TypeOK
<1>2. r \in EnforcementReceipt /\ r.intent = i
    BY <1>1 DEF NewReceipt, EnforcementReceipt, EnforcementLifecycle
<1>3. /\ enforcement_history' = p
      /\ UNCHANGED <<contracts, issued, pending, file>>
    BY DEF authorize, registry, evaluations, storage
<1>4. /\ i.contract \in ContractId /\ i.contract_gen \in Nat
      /\ contracts[i.contract] # None
      /\ contracts[i.contract].gen = i.contract_gen
    BY <1>1, TargetIsOwn DEF authorize, EnforcementIntent
<1>5. /\ Covers(contracts, h) /\ Forward(h)
      /\ \A k \in 1..Len(h) : h[k].intent.contract_gen \in Nat
    BY <1>1, ReceiptAuthority DEF FencingInv, Fenced
<1> HIDE DEF r
<1>6. p \in Seq(EnforcementReceipt) /\ Len(p) \in Nat
    BY <1>1, <1>2, PushBack, LenProperties
<1>7. PICK d \in 0..1 : Pushed(p, h, r, d)
    BY <1>1, <1>2, PushBack
<1> HIDE DEF p
<1>8. \A k \in 1..Len(p) : \/ k = Len(p) /\ p[k] = r
                           \/ k + d \in 1..Len(h) /\ p[k] = h[k + d]
    BY <1>6, <1>7 DEF Pushed
<1>9. Covers(contracts, p)
    <2> SUFFICES ASSUME NEW k \in 1..Len(p)
                 PROVE  /\ contracts[p[k].intent.contract] # None
                        /\ p[k].intent.contract_gen
                              <= contracts[p[k].intent.contract].gen
        BY DEF Covers
    <2>1. CASE p[k] = r
        BY <1>2, <1>4, <2>1
    <2>2. CASE k + d \in 1..Len(h) /\ p[k] = h[k + d]
        BY <1>5, <2>2 DEF Covers
    <2> QED BY <1>8, <2>1, <2>2
<1>10. Forward(p)
    <2> SUFFICES ASSUME NEW j \in 1..Len(p), NEW k \in 1..Len(p), j < k,
                        p[j].intent.contract = p[k].intent.contract
                 PROVE  p[j].intent.contract_gen <= p[k].intent.contract_gen
        BY DEF Forward
    <2>1. j + d \in 1..Len(h) /\ p[j] = h[j + d]
        BY <1>6, <1>8
    <2>2. CASE p[k] = r
        BY <1>2, <1>4, <1>5, <2>1, <2>2 DEF Covers
    <2>3. CASE k + d \in 1..Len(h) /\ p[k] = h[k + d]
        <3>1. j + d < k + d
            BY <1>6
        <3> QED BY <1>5, <2>1, <2>3, <3>1 DEF Forward
    <2> QED BY <1>8, <2>2, <2>3
<1> QED BY <1>3, <1>9, <1>10 DEF FencingInv, Fenced

\* transition and complete_enforcement leave the intents of receipts alone.
LEMMA FencingMove ==
    ASSUME FencingInv, TypeOK', NEW k \in 1..Len(enforcement_history),
           NEW to \in EnforcementLifecycle, move(k, to)
    PROVE  FencingInv'
<1> DEFINE h == enforcement_history
           g == [h EXCEPT ![k].lifecycle = to]
<1>1. /\ Len(g) = Len(h)
      /\ \A j \in 1..Len(h) : g[j].intent = h[j].intent
    <2>1. h \in Seq(EnforcementReceipt)
        BY DEF FencingInv, TypeOK
    <2> HIDE DEF h
    <2>2. k \in 1..Len(h)
        BY DEF h
    <2> QED BY <2>1, <2>2, MoveReceipt
<1>2. /\ enforcement_history' = g
      /\ UNCHANGED <<contracts, issued, pending, file>>
    BY DEF move, registry, evaluations, storage
<1> HIDE DEF g
<1>3. Covers(contracts, g) /\ Forward(g)
    BY <1>1 DEF FencingInv, Fenced, Covers, Forward
<1> QED BY <1>2, <1>3 DEF FencingInv, Fenced

\* save, load and a crash move a registry together with its history.
LEMMA FencingStorage ==
    ASSUME FencingInv, TypeOK', StorageStep
    PROVE  FencingInv'
<1>1. ASSUME NEW t \in Thread, save_snapshot(t)
      PROVE  FencingInv'
    <2>1. /\ pending' = [pending EXCEPT ![t] = [op |-> "save", st |-> Snapshot]]
          /\ UNCHANGED <<contracts, enforcement_history, issued, file>>
        BY <1>1 DEF save_snapshot, fabric, registry, evaluations, enforcements
    <2>2. Fenced(Snapshot.contracts, Snapshot.enforcement_history)
        BY DEF FencingInv, Snapshot
    <2>3. \A u \in Thread : pending'[u] # None =>
            Fenced(pending'[u].st.contracts, pending'[u].st.enforcement_history)
        BY <2>1, <2>2 DEF FencingInv, TypeOK
    <2> QED BY <2>1, <2>3 DEF FencingInv
<1>2. ASSUME NEW t \in Thread, save_write(t) \/ load_read(t)
      PROVE  FencingInv'
    <2>1. UNCHANGED <<contracts, enforcement_history, issued>>
        BY <1>2 DEF save_write, load_read, fabric, registry, evaluations, enforcements
    <2>2. CASE save_write(t)
        <3>1. /\ file' = pending[t].st \/ file' = file
              /\ pending[t] # None
              /\ pending' = [pending EXCEPT ![t] = None]
            BY <2>2 DEF save_write
        <3>2. file' # None => Fenced(file'.contracts, file'.enforcement_history)
            BY <3>1 DEF FencingInv
        <3>3. \A u \in Thread : pending'[u] # None => pending'[u] = pending[u]
            BY <3>1 DEF FencingInv, TypeOK
        <3> QED BY <2>1, <3>2, <3>3 DEF FencingInv
    <2>3. CASE load_read(t)
        <3>1. /\ pending' = [pending EXCEPT ![t] = [op |-> "load", st |-> file]]
              /\ file # None /\ UNCHANGED file
            BY <2>3 DEF load_read
        <3>2. \A u \in Thread : pending'[u] = IF u = t THEN [op |-> "load", st |-> file]
                                              ELSE pending[u]
            BY <3>1 DEF FencingInv, TypeOK
        <3> QED BY <2>1, <3>1, <3>2 DEF FencingInv
    <2> QED BY <1>2, <2>2, <2>3
<1>3. ASSUME NEW t \in Thread, load_apply(t)
      PROVE  FencingInv'
    BY <1>3 DEF load_apply, FencingInv, TypeOK
<1>4. ASSUME crash
      PROVE  FencingInv'
    <2>1. Fenced(contracts', enforcement_history')
        BY <1>4 DEF crash, Fenced, Known, Covers, Forward, NoContracts
    <2>2. /\ \A t \in Thread : pending'[t] = None
          /\ UNCHANGED <<issued, file>>
        BY <1>4 DEF crash, Idle
    <2> QED BY <2>1, <2>2 DEF FencingInv
<1> QED BY <1>1, <1>2, <1>3, <1>4 DEF StorageStep

\* The inductive invariant holds throughout.
LEMMA FencingInvariant ==
    ASSUME ObjectivesDisjoint
    PROVE  Spec => []FencingInv
<1>1. Init /\ TypeOK => FencingInv
    BY DEF Init, FencingInv, Fenced, Known, Covers, Forward, NoContracts, Idle
<1>2. FencingInv /\ TypeOK' /\ [Next]_vars => FencingInv'
    <2> SUFFICES ASSUME FencingInv, TypeOK', [Next]_vars PROVE FencingInv'
        OBVIOUS
    <2>1. CASE tick \/ EvidenceStep \/ UNCHANGED vars
        <3>1. UNCHANGED <<contracts, enforcement_history, issued, pending, file>>
            BY <2>1 DEF tick, EvidenceStep, ingest, ingest_violation_event,
               accumulatorsOnly, vars, registry, evaluations, enforcements, storage
        <3> QED BY <3>1 DEF FencingInv
    <2>2. CASE EnforcementStep
        <3>1. CASE \E i \in issued : authorize(i)
            BY <3>1, FencingAuthorize
        <3>2. CASE \E id \in EnforcementIds : complete_enforcement(id)
            BY <3>2, FencingMove DEF complete_enforcement, EnforcementLifecycle
        <3>3. CASE \E id \in EnforcementIds, to \in EnforcementLifecycle :
                      transition(id, to)
            BY <3>3, FencingMove DEF transition
        <3> QED BY <2>2, <3>1, <3>2, <3>3 DEF EnforcementStep
    <2> QED BY <2>1, <2>2, FencingRegistry, FencingEvaluate, FencingStorage DEF Next
<1> QED BY <1>1, <1>2, TypeCorrect, PTL DEF Spec

(***************************************************************************)
(* The receipts of a contract are bound to generations of it that never    *)
(* move backwards, across supersession, held intents, save, load and       *)
(* crash.                                                                  *)
(***************************************************************************)
THEOREM AuthorityNeverMovesBack ==
    ASSUME ObjectivesDisjoint
    PROVE  Spec => []AuthorityMovesForward
<1>1. FencingInv => AuthorityMovesForward
    BY DEF FencingInv, Fenced, Forward, AuthorityMovesForward
<1> QED BY <1>1, FencingInvariant, PTL

(***************************************************************************)
(* Whatever happens between the snapshot of a save and its write, the file *)
(* knows the contract generation of every receipt it holds.                *)
(***************************************************************************)
THEOREM FileIsConsistent ==
    ASSUME ObjectivesDisjoint
    PROVE  Spec => []FileCoversReceipts
<1>1. FencingInv => FileCoversReceipts
    BY DEF FencingInv, Fenced, FileCoversReceipts
<1> QED BY <1>1, FencingInvariant, PTL

(***************************************************************************)
(* Every authorisation happens while the contract the intent was evaluated *)
(* for is registered at the intent's generation, active, within its time   *)
(* window and governed by the intent's policy generation.                  *)
(***************************************************************************)
THEOREM OwnContractAuthorizes ==
    ASSUME ObjectivesDisjoint
    PROVE  Spec => AuthorizedByOwnContract
<1> DEFINE Own == Grants =>
              LET i == Granted.intent
                  c == contracts[i.contract]
              IN  /\ c # None
                  /\ c.gen = i.contract_gen
                  /\ can_authorize(c)
                  /\ policies[c.policy_id] = i.policy_gen
<1>1. FencingInv /\ [Next]_vars => [Own]_vars
    <2> SUFFICES ASSUME FencingInv, Next, Grants PROVE Own
        BY DEF vars
    <2>1. enforcement_counter \in Nat /\ enforcement_counter' > enforcement_counter
        BY DEF Grants, FencingInv, TypeOK
    <2>2. \E i \in issued : authorize(i)
        <3>1. CASE tick \/ RegistryStep \/ EvidenceStep
            <4>1. UNCHANGED enforcement_counter
                BY <3>1 DEF tick, RegistryStep, set_policy, add_contract,
                   supersede_contract, register, activate_contract, suspend_contract,
                   expire_contract, retire_contract, set_lifecycle, registryOnly,
                   EvidenceStep, ingest, ingest_violation_event, accumulatorsOnly,
                   enforcements
            <4> QED BY <2>1, <4>1
        <3>2. CASE \E s \in Service, w \in Workload : evaluate(s, w)
            BY <2>1, <3>2 DEF evaluate, enforcements
        <3>3. CASE StorageStep
            <4>1. enforcement_counter' = enforcement_counter \/ enforcement_counter' = 0
                BY <3>3 DEF StorageStep, save_snapshot, save_write, load_read,
                   load_apply, crash, fabric, enforcements
            <4> QED BY <2>1, <4>1
        <3>4. CASE EnforcementStep
            BY <2>1, <3>4 DEF EnforcementStep, complete_enforcement, transition, move
        <3> QED BY <3>1, <3>2, <3>3, <3>4 DEF Next
    <2> PICK i \in issued : authorize(i)
        BY <2>2
    <2>3. Granted.intent = i
        <3> DEFINE r == NewReceipt(i)
        <3>1. enforcement_history \in Seq(EnforcementReceipt) /\ i \in EnforcementIntent
              /\ now \in Nat
            BY DEF FencingInv, TypeOK
        <3>2. r \in EnforcementReceipt /\ r.intent = i
            BY <2>1, <3>1 DEF NewReceipt, EnforcementReceipt, EnforcementLifecycle
        <3>3. enforcement_history' = push_back(enforcement_history, r)
            BY DEF authorize
        <3> HIDE DEF r
        <3> DEFINE p == push_back(enforcement_history, r)
        <3>4. PICK d \in 0..1 : Pushed(p, enforcement_history, r, d)
            BY <3>1, <3>2, PushBack
        <3> HIDE DEF p
        <3>5. p[Len(p)] = r
            BY <3>4 DEF Pushed
        <3>6. Granted = r
            BY <3>3, <3>5 DEF Granted, p
        <3> QED BY <3>2, <3>6
    <2> QED BY <2>3, TargetIsOwn DEF authorize
<1> QED BY <1>1, FencingInvariant, PTL DEF Spec, AuthorizedByOwnContract
-----------------------------------------------------------------------------
(* The cooldown of an objective *)

(***************************************************************************)
(* An objective belongs to one contract id, of whichever service, and is   *)
(* not defined at a smaller generation by a newer generation of it.        *)
(* Accumulators are kept per objective id alone, so without this another   *)
(* contract's evidence resets the cooldown.                                *)
(***************************************************************************)
ObjectivesOwned ==
    \A c, d \in ContractDefs, o \in ObjectiveId :
        c.objectives[o] # 0 /\ d.objectives[o] # 0 =>
            /\ c.id = d.id
            /\ c.gen <= d.gen => c.objectives[o] <= d.objectives[o]

\* An accumulator in use is at a generation some registered contract has had.
Sourced(o) ==
    accumulators[o].gen # 0 =>
        \E d \in ContractDefs : /\ contracts[d.id] # None
                                /\ d.gen <= contracts[d.id].gen
                                /\ d.objectives[o] = accumulators[o].gen

\* Accumulator a has moved on from generation g, or its cooldown reaches t.
Cooling(a, g, t) ==
    /\ g <= a.gen
    /\ g = a.gen => t <= a.cooldown_until

(***************************************************************************)
(* The inductive invariant.  The generation of an accumulator only grows,  *)
(* so the cooldown a receipt started is either still there or belongs to a *)
(* generation that no later evaluation can bind.                           *)
(***************************************************************************)
ReceiptsCooling ==
    \A k \in 1..Len(enforcement_history) :
        LET r == enforcement_history[k]
        IN  /\ r.at <= now
            /\ r.intent.objective_id \in ObjectiveId
            /\ Cooling(accumulators[r.intent.objective_id], r.intent.objective_gen,
                       r.at + Cooldown)

IntentsCurrent ==
    \A i \in issued :
        /\ i.grants <= enforcement_counter
        /\ i.objective_id # None =>
              i.objective_gen # 0 /\ i.objective_gen <= accumulators[i.objective_id].gen

CooldownInv ==
    /\ TypeOK
    /\ Known(contracts)
    /\ \A o \in ObjectiveId : Sourced(o)
    /\ IntentsCurrent
    /\ ReceiptsCooling
    /\ CooldownHonoured

\* b is accumulator a, a later generation of it, or cools for longer.
Advances(a, b) ==
    /\ a.gen <= b.gen
    /\ a.gen = b.gen => a.cooldown_until <= b.cooldown_until

\* The fields of a receipt and of an intent that cooldowns are about.
LEMMA IntentFields ==
    ASSUME NEW i \in EnforcementIntent
    PROVE  /\ i.objective_gen \in Nat /\ i.grants \in Nat /\ i.at \in Nat
           /\ i.objective_id \in ObjectiveId \cup {None}
BY DEF EnforcementIntent

LEMMA ReceiptFields ==
    ASSUME NEW h \in Seq(EnforcementReceipt), NEW k \in 1..Len(h)
    PROVE  h[k].at \in Nat /\ h[k].id \in Nat /\ h[k].intent \in EnforcementIntent
<1>1. h[k] \in EnforcementReceipt
    BY ElementOfSeq
<1> QED BY <1>1 DEF EnforcementReceipt

\* A cooldown survives an accumulator that advances.
LEMMA CoolingKept ==
    ASSUME NEW a \in Accumulator, NEW b \in Accumulator, NEW g \in Nat, NEW t \in Nat,
           Cooling(a, g, t), Advances(a, b)
    PROVE  Cooling(b, g, t)
BY DEF Accumulator, Cooling, Advances

\* The contract that holds an objective is the one its accumulator comes from,
\* at the same or a newer generation.
LEMMA HolderLeads ==
    ASSUME ObjectivesOwned, CooldownInv, NEW o \in ObjectiveId,
           NEW id \in ContractId, Holds(id, o)
    PROVE  /\ contracts[id].objectives[o] \in Nat \ {0}
           /\ accumulators[o].gen <= contracts[id].objectives[o]
           /\ \A d \in ContractId : Holds(d, o) => d = id
           /\ \E d \in ContractDefs : /\ d.id = id
                                      /\ d.gen <= contracts[id].gen
                                      /\ d.objectives[o] = contracts[id].objectives[o]
<1>1. contracts[id] # None /\ contracts[id].objectives[o] # 0
    BY DEF Holds
<1>2. contracts[id] \in SloContract
    BY <1>1 DEF CooldownInv, TypeOK, Option
<1>3. contracts[id].objectives[o] \in Nat \ {0} /\ contracts[id].gen \in Nat
    BY <1>1, <1>2 DEF SloContract
<1>4. PICK c \in ContractDefs : /\ c.id = id
                                /\ c.gen = contracts[id].gen
                                /\ c.objectives = contracts[id].objectives
    BY <1>1 DEF CooldownInv, Known, Defined
<1>5. ASSUME NEW d \in ContractId, Holds(d, o) PROVE d = id
    <2>1. PICK e \in ContractDefs : e.id = d /\ e.objectives = contracts[d].objectives
        BY <1>5 DEF Holds, CooldownInv, Known, Defined
    <2> QED BY <1>1, <1>4, <1>5, <2>1 DEF Holds, ObjectivesOwned
<1>6. accumulators[o].gen \in Nat
    BY DEF CooldownInv, TypeOK, Accumulator
<1>7. accumulators[o].gen <= contracts[id].objectives[o]
    <2>1. CASE accumulators[o].gen = 0
        BY <1>3, <2>1
    <2>2. CASE accumulators[o].gen # 0
        <3>1. PICK d \in ContractDefs : /\ d.gen <= contracts[d.id].gen
                                        /\ d.objectives[o] = accumulators[o].gen
            BY <2>2 DEF CooldownInv, Sourced
        <3>2. d.id = id
            BY <1>1, <1>4, <2>2, <3>1 DEF ObjectivesOwned
        <3>3. d.gen <= c.gen
            BY <1>4, <3>1, <3>2
        <3> QED BY <1>1, <1>4, <2>2, <3>1, <3>3 DEF ObjectivesOwned
    <2> QED BY <2>1, <2>2
<1> QED BY <1>3, <1>4, <1>5, <1>7
\* Reading the accumulator of an objective at its holder's generation moves it
\* forward or leaves it alone.
LEMMA AccessAdvances ==
    ASSUME ObjectivesOwned, CooldownInv, NEW o \in ObjectiveId,
           NEW id \in ContractId, Holds(id, o)
    PROVE  LET a == get_accumulator(o, contracts[id].objectives[o])
           IN  /\ a \in Accumulator
               /\ a.gen = contracts[id].objectives[o]
               /\ Advances(accumulators[o], a)
<1>1. contracts[id].objectives[o] \in Nat \ {0}
      /\ accumulators[o].gen <= contracts[id].objectives[o]
    BY HolderLeads
<1>2. accumulators[o] \in Accumulator
    BY DEF CooldownInv, TypeOK
<1> QED BY <1>1, <1>2 DEF get_accumulator, Advances, Accumulator

\* Intents stay current and receipts stay cooling while accumulators advance.
LEMMA AdvanceKeeps ==
    ASSUME CooldownInv, TypeOK',
           \A o \in ObjectiveId : Advances(accumulators[o], accumulators'[o]),
           now <= now', UNCHANGED <<issued, enforcement_counter, enforcement_history>>
    PROVE  IntentsCurrent' /\ ReceiptsCooling'
<1>1. /\ accumulators \in [ObjectiveId -> Accumulator]
      /\ accumulators' \in [ObjectiveId -> Accumulator]
      /\ now \in Nat /\ now' \in Nat /\ Cooldown \in Nat
      /\ enforcement_history \in Seq(EnforcementReceipt)
      /\ issued \subseteq EnforcementIntent
    BY BoundsAssumption DEF CooldownInv, TypeOK
<1>2. IntentsCurrent'
    <2> SUFFICES ASSUME NEW i \in issued, i.objective_id # None
                 PROVE  i.objective_gen <= accumulators'[i.objective_id].gen
        BY DEF CooldownInv, IntentsCurrent
    <2> DEFINE o == i.objective_id
    <2>1. i.objective_gen \in Nat /\ o \in ObjectiveId
        BY <1>1, IntentFields
    <2>2. i.objective_gen <= accumulators[o].gen
        BY DEF CooldownInv, IntentsCurrent
    <2>3. accumulators[o].gen <= accumulators'[o].gen
        BY <2>1 DEF Advances
    <2>4. accumulators[o].gen \in Nat /\ accumulators'[o].gen \in Nat
        BY <1>1, <2>1 DEF Accumulator
    <2> QED BY <2>1, <2>2, <2>3, <2>4
<1>3. ReceiptsCooling'
    <2> DEFINE h == enforcement_history
    <2> SUFFICES ASSUME NEW k \in 1..Len(h)
                 PROVE  /\ h[k].at <= now'
                        /\ h[k].intent.objective_id \in ObjectiveId
                        /\ Cooling(accumulators'[h[k].intent.objective_id],
                                   h[k].intent.objective_gen, h[k].at + Cooldown)
        BY DEF ReceiptsCooling
    <2>1. h[k].at \in Nat /\ h[k].intent \in EnforcementIntent
        BY <1>1, ReceiptFields
    <2>2. /\ h[k].at <= now
          /\ h[k].intent.objective_id \in ObjectiveId
          /\ Cooling(accumulators[h[k].intent.objective_id],
                     h[k].intent.objective_gen, h[k].at + Cooldown)
        BY DEF CooldownInv, ReceiptsCooling
    <2>3. h[k].intent.objective_gen \in Nat /\ h[k].at + Cooldown \in Nat
        BY <1>1, <2>1, IntentFields
    <2>4. Cooling(accumulators'[h[k].intent.objective_id],
                  h[k].intent.objective_gen, h[k].at + Cooldown)
        <3> DEFINE o == h[k].intent.objective_id
                   g == h[k].intent.objective_gen
                   t == h[k].at + Cooldown
        <3>1. /\ accumulators[o] \in Accumulator /\ accumulators'[o] \in Accumulator
              /\ g \in Nat /\ t \in Nat /\ Cooling(accumulators[o], g, t)
              /\ Advances(accumulators[o], accumulators'[o])
            BY <1>1, <2>2, <2>3
        <3> HIDE DEF o, g, t
        <3>2. Cooling(accumulators'[o], g, t)
            BY <3>1, CoolingKept
        <3> QED BY <3>2 DEF o, g, t
    <2> QED BY <1>1, <2>1, <2>2, <2>4
<1> QED BY <1>2, <1>3

\* An accumulator that stays as it is.
LEMMA StaysAdvances ==
    ASSUME TypeOK, NEW o \in ObjectiveId
    PROVE  Advances(accumulators[o], accumulators[o])
BY DEF TypeOK, Accumulator, Advances

\* What CooldownHonoured speaks of, besides the clock and the accumulators.
cooldownVars == <<issued, enforcement_counter, enforcement_history, epoch, incarnation>>

\* Evidence and violation events reset only an accumulator that is behind.
LEMMA CooldownEvidence ==
    ASSUME ObjectivesOwned, CooldownInv, TypeOK', EvidenceStep
    PROVE  CooldownInv'
<1> PICK o \in ObjectiveId : ingest(o) \/ ingest_violation_event(o)
    BY DEF EvidenceStep
<1>1. accumulatorsOnly
    BY DEF ingest, ingest_violation_event
<1>2. /\ accumulators \in [ObjectiveId -> Accumulator] /\ TypeOK /\ now \in Nat
      /\ UNCHANGED <<cooldownVars, contracts, now>>
    <2>1. TypeOK
        BY DEF CooldownInv
    <2>2. accumulators \in [ObjectiveId -> Accumulator] /\ now \in Nat
        BY <2>1 DEF TypeOK
    <2>3. UNCHANGED <<cooldownVars, contracts, now>>
        BY <1>1 DEF accumulatorsOnly, registry, evaluations, enforcements, cooldownVars
    <2> QED BY <2>1, <2>2, <2>3
<1>3. PICK id \in ContractId :
        /\ Holds(id, o)
        /\ accumulators' = [accumulators EXCEPT ![o] = @]
           \/ accumulators' = [accumulators EXCEPT
                 ![o] = get_accumulator(o, contracts[id].objectives[o])]
    <2>1. CASE ingest(o)
        BY <2>1 DEF ingest
    <2>2. CASE ingest_violation_event(o)
        <3>1. PICK last \in ContractId :
                /\ Holds(last, o)
                /\ accumulators' = [accumulators EXCEPT
                      ![o] = IF \A d \in ContractId : Holds(d, o) =>
                                   contracts[d].objectives[o] = accumulators[o].gen
                             THEN @
                             ELSE [gen |-> contracts[last].objectives[o],
                                   cooldown_until |-> 0]]
            BY <2>2 DEF ingest_violation_event
        <3>2. \A d \in ContractId : Holds(d, o) => d = last
            BY <3>1, HolderLeads
        <3>3. CASE contracts[last].objectives[o] = accumulators[o].gen
            BY <3>1, <3>2, <3>3
        <3>4. CASE contracts[last].objectives[o] # accumulators[o].gen
            <4>1. get_accumulator(o, contracts[last].objectives[o]) =
                    [gen |-> contracts[last].objectives[o], cooldown_until |-> 0]
                BY <3>4 DEF get_accumulator
            <4> QED BY <3>1, <3>4, <4>1
        <3> QED BY <3>3, <3>4
    <2> QED BY <2>1, <2>2
<1> DEFINE a == get_accumulator(o, contracts[id].objectives[o])
<1>4. a \in Accumulator /\ a.gen = contracts[id].objectives[o]
      /\ Advances(accumulators[o], a)
    BY <1>3, AccessAdvances
<1> HIDE DEF a
<1>5. \A p \in ObjectiveId : accumulators'[p] = accumulators[p] \/ (p = o /\ accumulators'[p] = a)
    BY <1>2, <1>3 DEF a
<1>6. \A p \in ObjectiveId : Advances(accumulators[p], accumulators'[p])
    BY <1>2, <1>4, <1>5, StaysAdvances
<1>7. \A p \in ObjectiveId : Sourced(p)'
    <2>1. \E d \in ContractDefs : /\ d.id = id
                                  /\ d.gen <= contracts[id].gen
                                  /\ d.objectives[o] = contracts[id].objectives[o]
        BY <1>3, HolderLeads
    <2> QED BY <1>2, <1>3, <1>4, <1>5, <2>1 DEF CooldownInv, Sourced, Holds
<1>8. IntentsCurrent' /\ ReceiptsCooling'
    BY <1>2, <1>6, AdvanceKeeps DEF cooldownVars
<1>9. CooldownHonoured'
    BY <1>2 DEF CooldownInv, CooldownHonoured, cooldownVars
<1> QED BY <1>2, <1>7, <1>8, <1>9 DEF CooldownInv

\* A registry step changes no accumulator, and its contract generations grow.
LEMMA CooldownRegistry ==
    ASSUME CooldownInv, TypeOK', RegistryStep
    PROVE  CooldownInv'
<1>1. UNCHANGED <<cooldownVars, accumulators, now>>
    BY DEF RegistryStep, set_policy, add_contract, supersede_contract, register,
           activate_contract, suspend_contract, expire_contract, retire_contract,
           set_lifecycle, registryOnly, evaluations, enforcements, cooldownVars
<1>2. /\ Known(contracts')
      /\ \A id \in ContractId : contracts[id] # None =>
            /\ contracts'[id] # None
            /\ contracts[id].gen \in Nat /\ contracts'[id].gen \in Nat
            /\ contracts[id].gen <= contracts'[id].gen
    BY RegistryGrows DEF CooldownInv
<1>3. \A d \in ContractDefs : d.id \in ContractId /\ d.gen \in Nat
    BY ContractDefsAssumption DEF SloContract
<1>4. ASSUME NEW o \in ObjectiveId, accumulators[o].gen # 0
      PROVE  \E d \in ContractDefs : /\ contracts'[d.id] # None
                                     /\ d.gen <= contracts'[d.id].gen
                                     /\ d.objectives[o] = accumulators[o].gen
    <2>1. PICK d \in ContractDefs : /\ contracts[d.id] # None
                                    /\ d.gen <= contracts[d.id].gen
                                    /\ d.objectives[o] = accumulators[o].gen
        BY <1>4 DEF CooldownInv, Sourced
    <2>2. contracts'[d.id] # None /\ d.gen <= contracts'[d.id].gen
        BY <1>2, <1>3, <2>1
    <2> QED BY <2>1, <2>2
<1>5. \A o \in ObjectiveId : Sourced(o)'
    BY <1>1, <1>4 DEF Sourced
<1>6. IntentsCurrent' /\ ReceiptsCooling' /\ CooldownHonoured'
    BY <1>1 DEF CooldownInv, IntentsCurrent, ReceiptsCooling, CooldownHonoured, cooldownVars
<1> QED BY <1>2, <1>5, <1>6 DEF CooldownInv

\* Steps that change none of this but the clock.
LEMMA CooldownIdle ==
    ASSUME CooldownInv, TypeOK', now <= now',
           UNCHANGED <<cooldownVars, accumulators, contracts>>
    PROVE  CooldownInv'
<1>1. \A o \in ObjectiveId : Advances(accumulators[o], accumulators'[o])
    BY StaysAdvances DEF CooldownInv
<1>2. IntentsCurrent' /\ ReceiptsCooling'
    BY <1>1, AdvanceKeeps DEF cooldownVars
<1>3. \A o \in ObjectiveId : Sourced(o)'
    BY DEF CooldownInv, Sourced
<1>4. CooldownHonoured'
    BY DEF CooldownInv, CooldownHonoured, cooldownVars
<1> QED BY <1>2, <1>3, <1>4 DEF CooldownInv
\* evaluate asks for an action only after the cooldown of its accumulator.
LEMMA CooldownEvaluate ==
    ASSUME ObjectivesOwned, CooldownInv, TypeOK', NEW s \in Service, NEW w \in Workload,
           evaluate(s, w)
    PROVE  CooldownInv'
<1>1. PICK id \in ContractId :
        LET c == contracts[id]
            Held == {o \in ObjectiveId : c.objectives[o] # 0}
        IN  /\ Resolves(id, s, w)
            /\ accumulators' = [o \in ObjectiveId |->
                  IF o \in Held THEN get_accumulator(o, c.objectives[o])
                  ELSE accumulators[o]]
            /\ \E b \in Bindings \cap (Held \cup {None}) : issued' = issued \cup {NewIntent(id, b)}
            /\ UNCHANGED <<now, epoch, registry, enforcements, incarnation>>
    BY DEF evaluate
<1>2. contracts[id] # None /\ TypeOK
    BY <1>1 DEF Resolves, InScope, CooldownInv
<1>3. PICK b \in Bindings : /\ b # None => b \in ObjectiveId /\ contracts[id].objectives[b] # 0
                            /\ issued' = issued \cup {NewIntent(id, b)}
    BY <1>1
<1>4. /\ UNCHANGED <<now, epoch, contracts, enforcement_counter, enforcement_history, incarnation>>
      /\ accumulators \in [ObjectiveId -> Accumulator]
      /\ accumulators' \in [ObjectiveId -> Accumulator]
      /\ enforcement_history \in Seq(EnforcementReceipt)
      /\ enforcement_counter \in Nat /\ now \in Nat /\ Cooldown \in Nat
    <2>1. UNCHANGED <<now, epoch, contracts, enforcement_counter, enforcement_history, incarnation>>
        BY <1>1 DEF registry, enforcements
    <2>2. accumulators' \in [ObjectiveId -> Accumulator]
        BY DEF TypeOK
    <2>3. /\ accumulators \in [ObjectiveId -> Accumulator]
          /\ enforcement_history \in Seq(EnforcementReceipt)
          /\ enforcement_counter \in Nat /\ now \in Nat /\ Cooldown \in Nat
        BY <1>2, BoundsAssumption DEF TypeOK
    <2> QED BY <2>1, <2>2, <2>3
<1>5. \A o \in ObjectiveId : Holds(id, o) =>
        /\ accumulators'[o] = get_accumulator(o, contracts[id].objectives[o])
        /\ accumulators'[o].gen = contracts[id].objectives[o]
        /\ Advances(accumulators[o], accumulators'[o])
    BY <1>1, <1>2, AccessAdvances DEF Holds
<1>6. \A o \in ObjectiveId : ~ Holds(id, o) => accumulators'[o] = accumulators[o]
    BY <1>1, <1>2 DEF Holds
<1>7. \A o \in ObjectiveId : Advances(accumulators[o], accumulators'[o])
    BY <1>2, <1>5, <1>6, StaysAdvances
<1>8. \A o \in ObjectiveId : Sourced(o)'
    <2> SUFFICES ASSUME NEW o \in ObjectiveId, accumulators'[o].gen # 0
                 PROVE  \E d \in ContractDefs : /\ contracts[d.id] # None
                                                /\ d.gen <= contracts[d.id].gen
                                                /\ d.objectives[o] = accumulators'[o].gen
        BY <1>4 DEF Sourced
    <2>1. CASE Holds(id, o)
        BY <1>2, <1>5, <2>1, HolderLeads
    <2>2. CASE ~ Holds(id, o)
        BY <1>6, <2>2 DEF CooldownInv, Sourced
    <2> QED BY <2>1, <2>2
<1> DEFINE i == NewIntent(id, b)
<1>9. /\ i.objective_id = b /\ i.at = now /\ i.grants = enforcement_counter
      /\ b # None => i.objective_gen = contracts[id].objectives[b]
      /\ i.action = "Act" =>
            /\ b # None
            /\ now >= get_accumulator(b, contracts[id].objectives[b]).cooldown_until
    BY DEF NewIntent
<1>10. issued' = issued \cup {i} /\ i \in EnforcementIntent
    <2>1. b \in ObjectiveId \cup {None}
        BY <1>3
    <2>2. i \in EnforcementIntent
        BY <1>2, <2>1, TypeIntent
    <2> QED BY <1>3, <2>2
<1> HIDE DEF i
<1>11. /\ \A j \in issued : j.grants <= enforcement_counter
       /\ \A j \in issued : j.objective_id # None =>
             j.objective_gen # 0 /\ j.objective_gen <= accumulators'[j.objective_id].gen
    <2> SUFFICES ASSUME NEW j \in issued, j.objective_id # None
                 PROVE  j.objective_gen # 0 /\ j.objective_gen <= accumulators'[j.objective_id].gen
        BY DEF CooldownInv, IntentsCurrent
    <2>1. j.objective_gen \in Nat /\ j.objective_id \in ObjectiveId
        BY <1>2, IntentFields DEF TypeOK
    <2>2. j.objective_gen # 0 /\ j.objective_gen <= accumulators[j.objective_id].gen
        BY DEF CooldownInv, IntentsCurrent
    <2>3. /\ accumulators[j.objective_id].gen <= accumulators'[j.objective_id].gen
          /\ accumulators[j.objective_id].gen \in Nat /\ accumulators'[j.objective_id].gen \in Nat
        BY <1>4, <1>7, <2>1 DEF Advances, Accumulator
    <2> QED BY <2>1, <2>2, <2>3
<1>12. IntentsCurrent'
    <2>1. b # None => i.objective_gen # 0 /\ i.objective_gen <= accumulators'[b].gen
        <3> SUFFICES ASSUME b # None
                     PROVE  i.objective_gen # 0 /\ i.objective_gen <= accumulators'[b].gen
            OBVIOUS
        <3>1. b \in ObjectiveId /\ Holds(id, b)
            BY <1>2, <1>3 DEF Holds
        <3>2. contracts[id].objectives[b] \in Nat \ {0}
            BY <3>1, HolderLeads
        <3> QED BY <1>5, <1>9, <3>1, <3>2
    <2> QED BY <1>4, <1>9, <1>10, <1>11, <2>1 DEF IntentsCurrent
<1>13. ReceiptsCooling'
    <2> DEFINE h == enforcement_history
    <2> SUFFICES ASSUME NEW k \in 1..Len(h)
                 PROVE  /\ h[k].at <= now
                        /\ h[k].intent.objective_id \in ObjectiveId
                        /\ Cooling(accumulators'[h[k].intent.objective_id],
                                   h[k].intent.objective_gen, h[k].at + Cooldown)
        BY <1>4 DEF ReceiptsCooling
    <2> DEFINE o == h[k].intent.objective_id
               g == h[k].intent.objective_gen
               t == h[k].at + Cooldown
    <2>1. h[k].at <= now /\ o \in ObjectiveId /\ Cooling(accumulators[o], g, t)
        BY DEF CooldownInv, ReceiptsCooling
    <2>2. g \in Nat /\ t \in Nat
        BY <1>4, ReceiptFields, IntentFields
    <2>3. /\ accumulators[o] \in Accumulator /\ accumulators'[o] \in Accumulator
          /\ Advances(accumulators[o], accumulators'[o])
        BY <1>4, <1>7, <2>1
    <2> HIDE DEF o, g, t
    <2>4. Cooling(accumulators'[o], g, t)
        BY <2>1, <2>2, <2>3, CoolingKept
    <2> QED BY <2>1, <2>4 DEF o, g, t
<1>14. CooldownHonoured'
    <2> DEFINE h == enforcement_history
    <2> SUFFICES ASSUME NEW k \in 1..Len(h), i.action = "Act",
                        h[k].intent.objective_id = i.objective_id,
                        h[k].intent.objective_gen = i.objective_gen
                 PROVE  i.at >= h[k].at + Cooldown
        BY <1>4, <1>10 DEF CooldownInv, CooldownHonoured
    <2>1. b # None /\ b \in ObjectiveId /\ Holds(id, b)
        BY <1>2, <1>3, <1>9 DEF Holds
    <2>2. contracts[id].objectives[b] \in Nat \ {0}
          /\ accumulators[b].gen <= contracts[id].objectives[b]
        BY <2>1, HolderLeads
    <2>3. Cooling(accumulators[b], contracts[id].objectives[b], h[k].at + Cooldown)
        BY <1>9, <2>1 DEF CooldownInv, ReceiptsCooling
    <2>4. accumulators[b] \in Accumulator
        BY <1>4, <2>1
    <2>5. accumulators[b].gen = contracts[id].objectives[b]
          /\ h[k].at + Cooldown <= accumulators[b].cooldown_until
        BY <2>2, <2>3, <2>4 DEF Cooling, Accumulator
    <2>6. now >= accumulators[b].cooldown_until
        BY <1>9, <2>5 DEF get_accumulator
    <2>7. h[k].at + Cooldown \in Nat /\ accumulators[b].cooldown_until \in Nat
        BY <1>4, <2>4, ReceiptFields DEF Accumulator
    <2> QED BY <1>4, <1>9, <2>5, <2>6, <2>7
<1>15. Known(contracts')
    BY <1>4 DEF CooldownInv
<1> QED BY <1>8, <1>12, <1>13, <1>14, <1>15 DEF CooldownInv
\* authorize starts the cooldown of the accumulator the intent was issued from,
\* and its receipt is newer than every evaluation so far.
LEMMA CooldownAuthorize ==
    ASSUME CooldownInv, TypeOK', NEW i \in issued, authorize(i)
    PROVE  CooldownInv'
<1> DEFINE h == enforcement_history
           r == NewReceipt(i)
           p == push_back(h, r)
           o == i.objective_id
<1>1. /\ h \in Seq(EnforcementReceipt) /\ Len(h) \in Nat
      /\ enforcement_counter \in Nat /\ i \in EnforcementIntent /\ now \in Nat
      /\ accumulators \in [ObjectiveId -> Accumulator] /\ Cooldown \in Nat
      /\ TypeOK
    <2>1. TypeOK
        BY DEF CooldownInv
    <2>2. /\ h \in Seq(EnforcementReceipt)
          /\ enforcement_counter \in Nat /\ i \in EnforcementIntent /\ now \in Nat
          /\ accumulators \in [ObjectiveId -> Accumulator]
        BY <2>1, BoundsAssumption DEF TypeOK
    <2> QED BY <2>1, <2>2, LenProperties, BoundsAssumption
<1>2. /\ r \in EnforcementReceipt
      /\ r.intent = i /\ r.id = enforcement_counter + 1 /\ r.at = now
    BY <1>1 DEF NewReceipt, EnforcementReceipt, EnforcementLifecycle
<1>3. o # None /\ o \in ObjectiveId /\ i.objective_gen \in Nat
    <2>1. o # None
        BY DEF authorize, Authorizable, Target, HoldsTarget
    <2> QED BY <1>1, <2>1, IntentFields
<1>4. accumulators[o] \in Accumulator /\ accumulators[o].gen \in Nat \ {0}
      /\ i.objective_gen <= accumulators[o].gen
    <2>1. i.objective_gen # 0 /\ i.objective_gen <= accumulators[o].gen
        BY <1>3 DEF CooldownInv, IntentsCurrent
    <2>2. accumulators[o] \in Accumulator /\ accumulators[o].gen \in Nat
        BY <1>1, <1>3 DEF Accumulator
    <2> QED BY <1>3, <2>1, <2>2
<1>5. /\ enforcement_history' = p
      /\ enforcement_counter' = enforcement_counter + 1
      /\ UNCHANGED <<now, epoch, contracts, issued, incarnation>>
      /\ accumulators' = [accumulators EXCEPT ![o].cooldown_until = now + Cooldown]
    BY <1>4 DEF authorize, registry, evaluations
<1>6. /\ accumulators'[o].gen = accumulators[o].gen
      /\ accumulators'[o].cooldown_until = now + Cooldown
      /\ \A q \in ObjectiveId : q # o => accumulators'[q] = accumulators[q]
      /\ \A q \in ObjectiveId : accumulators'[q].gen = accumulators[q].gen
    <2>1. accumulators'[o] = [accumulators[o] EXCEPT !.cooldown_until = now + Cooldown]
        BY <1>1, <1>3, <1>5
    <2>2. \A q \in ObjectiveId : q # o => accumulators'[q] = accumulators[q]
        BY <1>1, <1>3, <1>5
    <2>3. /\ accumulators'[o].gen = accumulators[o].gen
          /\ accumulators'[o].cooldown_until = now + Cooldown
        BY <1>4, <2>1 DEF Accumulator
    <2> QED BY <2>2, <2>3
<1> HIDE DEF r
<1>7. p \in Seq(EnforcementReceipt) /\ Len(p) \in Nat
    BY <1>1, <1>2, PushBack, LenProperties
<1>8. PICK d \in 0..1 : Pushed(p, h, r, d)
    BY <1>1, <1>2, PushBack
<1> HIDE DEF p
<1>9. \A k \in 1..Len(p) : p[k] = r \/ \E j \in 1..Len(h) : p[k] = h[j]
    <2> SUFFICES ASSUME NEW k \in 1..Len(p), k # Len(p)
                 PROVE  \E j \in 1..Len(h) : p[k] = h[j]
        BY <1>8 DEF Pushed
    <2>1. k \in 1..(Len(p) - 1)
        BY <1>7
    <2> QED BY <1>8, <2>1 DEF Pushed
<1>10. \A q \in ObjectiveId : Sourced(q)'
    BY <1>5, <1>6 DEF CooldownInv, Sourced
<1>11. IntentsCurrent'
    <2> SUFFICES ASSUME NEW j \in issued
                 PROVE  /\ j.grants <= enforcement_counter + 1
                        /\ j.objective_id # None =>
                              /\ j.objective_gen # 0
                              /\ j.objective_gen <= accumulators'[j.objective_id].gen
        BY <1>5 DEF IntentsCurrent
    <2>1. j \in EnforcementIntent
        BY <1>1 DEF TypeOK
    <2>2. j.grants \in Nat /\ j.objective_id \in ObjectiveId \cup {None}
        BY <2>1, IntentFields
    <2> QED BY <1>1, <1>6, <2>2 DEF CooldownInv, IntentsCurrent
<1>12. ASSUME NEW j \in 1..Len(h)
       PROVE  /\ h[j].at <= now
              /\ h[j].intent.objective_id \in ObjectiveId
              /\ Cooling(accumulators'[h[j].intent.objective_id],
                         h[j].intent.objective_gen, h[j].at + Cooldown)
    <2> DEFINE q == h[j].intent.objective_id
               g == h[j].intent.objective_gen
    <2>1. h[j].at <= now /\ q \in ObjectiveId /\ Cooling(accumulators[q], g, h[j].at + Cooldown)
        BY DEF CooldownInv, ReceiptsCooling
    <2>2. h[j].at \in Nat
        BY <1>1, ReceiptFields
    <2> HIDE DEF q, g
    <2>3. CASE q = o
        <3>1. h[j].at + Cooldown <= now + Cooldown
            BY <1>1, <2>1, <2>2
        <3> QED BY <1>6, <2>1, <2>3, <3>1 DEF Cooling, q, g
    <2>4. CASE q # o
        BY <1>6, <2>1, <2>4 DEF q, g
    <2> QED BY <2>3, <2>4
<1>13. Cooling(accumulators'[o], i.objective_gen, now + Cooldown)
    BY <1>1, <1>4, <1>6 DEF Cooling
<1>14. ReceiptsCooling'
    <2> SUFFICES ASSUME NEW k \in 1..Len(p)
                 PROVE  /\ p[k].at <= now
                        /\ p[k].intent.objective_id \in ObjectiveId
                        /\ Cooling(accumulators'[p[k].intent.objective_id],
                                   p[k].intent.objective_gen, p[k].at + Cooldown)
        BY <1>5 DEF ReceiptsCooling
    <2>1. CASE p[k] = r
        BY <1>1, <1>2, <1>3, <1>13, <2>1
    <2>2. CASE \E j \in 1..Len(h) : p[k] = h[j]
        BY <1>12, <2>2
    <2> QED BY <1>9, <2>1, <2>2
<1>15. CooldownHonoured'
    <2> SUFFICES ASSUME NEW j \in issued, NEW k \in 1..Len(p),
                        j.action = "Act", j.incarnation = incarnation,
                        p[k].intent.objective_id = j.objective_id,
                        p[k].intent.objective_gen = j.objective_gen,
                        p[k].intent.epoch = epoch, p[k].id <= j.grants
                 PROVE  j.at >= p[k].at + Cooldown
        BY <1>5 DEF CooldownHonoured
    <2>1. p[k] # r
        <3>1. j.grants <= enforcement_counter /\ j.grants \in Nat
            BY <1>1, IntentFields DEF CooldownInv, IntentsCurrent, TypeOK
        <3> QED BY <1>1, <1>2, <3>1
    <2> QED BY <1>9, <2>1 DEF CooldownInv, CooldownHonoured
<1>16. Known(contracts')
    BY <1>5 DEF CooldownInv
<1> QED BY <1>10, <1>11, <1>14, <1>15, <1>16 DEF CooldownInv

\* A lifecycle change of a receipt leaves its intent, id and time alone.
LEMMA CooldownMove ==
    ASSUME CooldownInv, TypeOK', NEW k \in 1..Len(enforcement_history),
           NEW to \in EnforcementLifecycle, move(k, to)
    PROVE  CooldownInv'
<1> DEFINE h == enforcement_history
           g == [h EXCEPT ![k].lifecycle = to]
<1>1. /\ Len(g) = Len(h)
      /\ \A j \in 1..Len(h) : g[j].id = h[j].id /\ g[j].intent = h[j].intent /\ g[j].at = h[j].at
    <2>1. h \in Seq(EnforcementReceipt)
        BY DEF CooldownInv, TypeOK
    <2> HIDE DEF h
    <2>2. k \in 1..Len(h)
        BY DEF h
    <2> QED BY <2>1, <2>2, MoveReceipt
<1>2. /\ enforcement_history' = g
      /\ UNCHANGED <<now, epoch, contracts, accumulators, issued, enforcement_counter, incarnation>>
    BY DEF move, registry, evaluations
<1> HIDE DEF g
<1>3. ReceiptsCooling'
    BY <1>1, <1>2 DEF CooldownInv, ReceiptsCooling
<1>4. CooldownHonoured'
    BY <1>1, <1>2 DEF CooldownInv, CooldownHonoured
<1>5. IntentsCurrent' /\ Known(contracts') /\ \A o \in ObjectiveId : Sourced(o)'
    BY <1>2 DEF CooldownInv, IntentsCurrent, Sourced
<1> QED BY <1>3, <1>4, <1>5 DEF CooldownInv

(***************************************************************************)
(* evaluate asks for no action on an objective before the cooldown that an *)
(* authorisation of it started has passed, for every order of evidence,    *)
(* supersession, evaluation and authorisation in one lifetime of the       *)
(* process, provided an objective belongs to one contract.                 *)
(***************************************************************************)
THEOREM CooldownIsHonoured ==
    ASSUME ObjectivesOwned, MaxIncarnation = 0
    PROVE  Spec => []CooldownHonoured
<1>1. Init /\ TypeOK => CooldownInv
    BY DEF Init, CooldownInv, Known, NoContracts, Sourced, NoAccumulators, NoAccumulator,
           IntentsCurrent, ReceiptsCooling, CooldownHonoured
<1>2. CooldownInv /\ TypeOK' /\ [Next]_vars => CooldownInv'
    <2> SUFFICES ASSUME CooldownInv, TypeOK', [Next]_vars PROVE CooldownInv'
        OBVIOUS
    <2>1. now \in Nat /\ incarnation \in Nat /\ ~ (incarnation < MaxIncarnation)
        BY DEF CooldownInv, TypeOK
    <2>2. CASE tick
        BY <2>1, <2>2, CooldownIdle DEF tick, registry, evaluations, enforcements, cooldownVars
    <2>3. CASE UNCHANGED vars
        BY <2>1, <2>3, CooldownIdle DEF vars, registry, evaluations, enforcements, cooldownVars
    <2>4. CASE EnforcementStep
        <3>1. CASE \E i \in issued : authorize(i)
            BY <3>1, CooldownAuthorize
        <3>2. CASE \E id \in EnforcementIds : complete_enforcement(id)
            BY <3>2, CooldownMove DEF complete_enforcement, EnforcementLifecycle
        <3>3. CASE \E id \in EnforcementIds, to \in EnforcementLifecycle :
                      transition(id, to)
            BY <3>3, CooldownMove DEF transition
        <3> QED BY <2>4, <3>1, <3>2, <3>3 DEF EnforcementStep
    <2>5. ASSUME NEW t \in Thread, save_snapshot(t) \/ save_write(t) \/ load_read(t)
          PROVE  CooldownInv'
        <3>1. UNCHANGED <<cooldownVars, accumulators, contracts, now>>
            BY <2>5 DEF save_snapshot, save_write, load_read, fabric, registry, evaluations,
                        enforcements, cooldownVars
        <3> QED BY <2>1, <3>1, CooldownIdle
    <2>6. ~ crash /\ \A t \in Thread : ~ load_apply(t)
        BY <2>1 DEF crash, load_apply
    <2> QED BY <2>2, <2>3, <2>4, <2>5, <2>6, CooldownRegistry, CooldownEvidence,
               CooldownEvaluate DEF Next, StorageStep
<1>3. CooldownInv => CooldownHonoured
    BY DEF CooldownInv
<1> QED BY <1>1, <1>2, <1>3, TypeCorrect, PTL DEF Spec
=============================================================================
