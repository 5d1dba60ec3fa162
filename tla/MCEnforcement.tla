--------------------------- MODULE MCEnforcement ---------------------------
(***************************************************************************)
(* A small instance of Enforcement: one contract, at first without a       *)
(* generation, whose intents the sink refuses.                             *)
(***************************************************************************)
EXTENDS Enforcement, TLC

CONSTANTS o1, s1, w1, p1, d1, d2

Contract(gen) ==
    [id |-> 1, gen |-> gen, service |-> s1, workload |-> w1,
     objectives |-> [o \in ObjectiveId |-> 1], policy_id |-> p1, policy_gen |-> 1,
     effective_from |-> 0, expiration |-> {}, lifecycle |-> "Active"]

UnsetThenFirst == {Contract(0), Contract(1)}
=============================================================================
