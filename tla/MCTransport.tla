---------------------------- MODULE MCTransport ----------------------------
(* The instance of Transport that TLC checks: an empty heartbeat, a frame   *)
(* whose payload bytes look like a header, and one that is too large.      *)
EXTENDS Transport

MCFrames == { [kind |-> 3, flags |-> 0, payload |-> <<>>],
              [kind |-> 2, flags |-> 1, payload |-> <<9, 1>>],
              [kind |-> 2, flags |-> 0, payload |-> <<0, 0, 0>>] }
=============================================================================
