--------------------------- MODULE MCCoordinator ---------------------------
(* The instances of Coordinator that TLC checks.  Two processes at a time,  *)
(* with the command lines distributed_proof.cpp gives them: A and the      *)
(* worker B that takes over; a second process with A's boot id; two        *)
(* processes of the epoch that follows a restart; one whose name is too    *)
(* long and one of an epoch that is not there yet.                         *)
EXTENDS Coordinator, TLC

CONSTANTS first, second

CommandLine(name, boot, epoch, serve) ==
    [name |-> name, boot |-> boot, epoch |-> epoch, serve |-> serve]

Pair(x, y) == (first :> x) @@ (second :> y)

Failover == Pair(CommandLine("A", 1001, 1, TRUE), CommandLine("B", 1002, 1, TRUE))
SameBoot == Pair(CommandLine("A", 1001, 1, FALSE), CommandLine("A", 1001, 1, FALSE))
NextEpoch == Pair(CommandLine("A", 2002, 2, FALSE), CommandLine("A", 2002, 2, FALSE))

LongName == Pair(CommandLine(TooLong, 1001, 1, FALSE), CommandLine("A", 1001, 2, FALSE))

Setup(lines, restartBound) == [args |-> lines, restarts |-> restartBound]

AllSetups == {Setup(Failover, 0), Setup(SameBoot, 2), Setup(NextEpoch, 2),
              Setup(LongName, 0)}
FailoverOnly == {Setup(Failover, 0)}
=============================================================================
