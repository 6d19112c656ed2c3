--------------------------- MODULE MCQueueService ---------------------------
(* Bounds for QueueService: limits of one job and two attempts, so that     *)
(* three jobs pass both limits, with callers that pass no options, ask for  *)
(* a single attempt, or want a completed job removed at once.               *)
EXTENDS QueueService, TLC

CONSTANTS j1, j2, j3
MCJobs == {j1, j2, j3}
MCCallerOptions == {<<>>, [attempts |-> 1], [removeOnComplete |-> 0]}
JobSymmetry == Permutations(MCJobs)
=============================================================================
