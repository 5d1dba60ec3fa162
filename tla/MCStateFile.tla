---------------------------- MODULE MCStateFile ----------------------------
(* The instance of StateFile that TLC checks, with the encoding of Codec:   *)
(* an empty state, one with every kind of record, and one whose objective  *)
(* add_contract accepts and decode_objective does not.                     *)
EXTENDS StateFile, Codec

duration(n) == [tag |-> 0, n |-> n]

AnObjective ==
    [id |-> 1, gen |-> 1, name |-> <<7>>, dim |-> 0, kind |-> 1, comparison |-> 0, hard |-> 0,
     enforcement |-> 3, target |-> duration(120), breach_threshold |-> <<>>,
     recovery_threshold |-> <<duration(100)>>, min_evidence |-> 2, allowed_uncertainty |-> 0,
     freshness_ttl |-> 5, grace_period |-> 0, window_type |-> 4, window_duration |-> 5,
     window_count |-> 64, priority |-> 0 - 1, percentile_rank |-> 1,
     availability_mode |-> 0, rate_tag |-> 0]

AContract(o) ==
    [id |-> 1, gen |-> 2, service |-> 3, workload |-> 4, tenant |-> 0, objectives |-> <<o>>,
     policy_id |-> 1, policy_gen |-> 1, effective_from |-> 0, expiration |-> <<9>>,
     epoch |-> 1, lifecycle |-> 2, name |-> <<>>, provenance |-> <<>>]

APolicy == [id |-> 1, gen |-> 1, mode |-> 1, tie_break |-> 2, name |-> <<5, 6>>, description |-> <<>>]

AState == [objective_id |-> 1, objective_gen |-> 1, budget_total |-> 3, budget_consumed |-> 1,
           budget_window |-> 5, budget_window_start |-> 0 - 2, last_state |-> 7,
           last_state_time |-> 4, cooldown_until |-> 6]

AReceipt == [id |-> 1, gen |-> 1, action |-> 14, lifecycle |-> 9, epoch |-> 1, contract_gen |-> 2,
             policy_gen |-> 1, evaluation_id |-> 1, evaluation_gen |-> 1, workload_gen |-> 0,
             service |-> 3, workload |-> 4, objective_id |-> 1, objective_gen |-> 1, reason |-> <<8>>]

AnEvaluation == [evaluation_id |-> 1, evaluation_gen |-> 1, contract_gen |-> 2, policy_gen |-> 1,
                 evidence_gen |-> 1, epoch |-> 1, time |-> 4, compliance |-> 3,
                 binding_dimension |-> 5, binding_objective |-> 1, selected_action |-> 14, digest |-> 99]

Empty == [epoch |-> 1, policies |-> <<>>, contracts |-> <<>>, objective_states |-> <<>>,
          enforcement_history |-> <<>>, evaluation_history |-> <<>>]

Full == [epoch |-> 2, policies |-> <<APolicy>>, contracts |-> <<AContract(AnObjective)>>,
         objective_states |-> <<AState>>, enforcement_history |-> <<AReceipt>>,
         evaluation_history |-> <<AnEvaluation>>]

NoSamples == [Empty EXCEPT !.contracts = <<AContract([AnObjective EXCEPT !.window_count = 0])>>]

OnePolicy == [Empty EXCEPT !.policies = <<APolicy>>]

MCDocs == {Empty, OnePolicy, Full, NoSamples}

(* Two threads and crashes over small states; every damage to large ones.   *)
MCSetups == {[docs |-> {Empty, OnePolicy}, saves |-> 2, crashes |-> 2, damages |-> 0],
             [docs |-> {OnePolicy, Full, NoSamples}, saves |-> 1, crashes |-> 0, damages |-> 1]}
MCNoise == {0 - 1, 0, 2, 12}

(* The bounds the loaded state has to keep, from the declarations of its    *)
(* types: six dimensions, five window types, eight compliance states...    *)
ObjectiveInBounds(o) ==
    /\ o.dim \in 0..5 /\ o.kind \in 0..11 /\ o.enforcement \in 0..3
    /\ o.window_type \in 0..4 /\ o.rate_tag \in 0..3
    /\ {o.comparison, o.hard, o.availability_mode, o.allowed_uncertainty, o.percentile_rank}
           \subseteq {0, 1}
    /\ o.min_evidence >= 0 /\ o.freshness_ttl >= 0 /\ o.window_count > 0
    /\ target_unit_matches_dimension(o)

MCLoadable(d) ==
    /\ \A i \in DOMAIN d.contracts :
          /\ d.contracts[i].lifecycle \in 0..5
          /\ \A j \in DOMAIN d.contracts[i].objectives :
                ObjectiveInBounds(d.contracts[i].objectives[j])
    /\ \A i \in DOMAIN d.policies : d.policies[i].mode \in 0..1 /\ d.policies[i].tie_break \in 0..2
    /\ \A i \in DOMAIN d.objective_states :
          /\ d.objective_states[i].budget_total >= 0 /\ d.objective_states[i].budget_consumed >= 0
          /\ d.objective_states[i].last_state \in 0..7
    /\ \A i \in DOMAIN d.enforcement_history : d.enforcement_history[i].lifecycle \in 0..9
    /\ \A i \in DOMAIN d.evaluation_history :
          d.evaluation_history[i].compliance \in 0..7 /\ d.evaluation_history[i].binding_dimension \in 0..5

(* The states of this instance are states of the declared types.            *)
ASSUME \A d \in MCDocs : IsState(d)
=============================================================================
