------------------------------- MODULE MCJobs -------------------------------
(***************************************************************************)
(* Fewer pids than children, so that pids are reused while their former    *)
(* owners are still in the table or among the saved statuses.              *)
(***************************************************************************)
EXTENDS JobsProperties, TLC

CONSTANTS p1, p2

MCPids == {p1, p2}
MCSymmetry == Permutations(MCPids)
=============================================================================
