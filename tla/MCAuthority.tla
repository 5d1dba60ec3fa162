---------------------------- MODULE MCAuthority ----------------------------
(***************************************************************************)
(* Small instances of Authority: two contracts of one service, each for a  *)
(* workload of its own.                                                    *)
(***************************************************************************)
EXTENDS Authority, TLC

CONSTANTS o1, o2, s1, w1, w2, p1

Contract(id, gen, w, objectives, from, expiration, lifecycle) ==
    [id |-> id, gen |-> gen, service |-> s1, workload |-> w,
     objectives |-> objectives, policy_id |-> p1, policy_gen |-> 1,
     effective_from |-> from, expiration |-> expiration, lifecycle |-> lifecycle]

OnlyAt(o, gen) == [x \in ObjectiveId |-> IF x = o THEN gen ELSE 0]
Only(o) == OnlyAt(o, 1)

\* Each objective belongs to one contract; o1 is redefined once.
DisjointDefs ==
    {Contract(1, 1, w1, Only(o1), 1, {}, "Draft"),
     Contract(1, 2, w1, OnlyAt(o1, 2), 0, {2}, "Active"),
     Contract(2, 1, w2, Only(o2), 0, {}, "Active")}

\* Two contracts of the service share an objective.
SharedDefs ==
    {Contract(1, 1, w1, Only(o1), 0, {}, "Active"),
     Contract(2, 1, w2, Only(o1), 0, {}, "Active")}

\* One contract, registered once and replaced once.
OneDef == {Contract(1, 1, w1, Only(o1), 0, {}, "Active")}
TwoGenerations == OneDef \cup {Contract(1, 2, w1, Only(o1), 0, {}, "Active")}

\* Threads differ in nothing but the call they are in.
ThreadSymmetry == Permutations(Thread)
=============================================================================
