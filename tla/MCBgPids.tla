------------------------------ MODULE MCBgPids ------------------------------
(***************************************************************************)
(* BgPids on a small instance: three pids in two buckets, a storage that   *)
(* can grow from two cells to four, and CHILD_MAX set to the limit of the  *)
(* system, which is two, or to three.                                      *)
(***************************************************************************)
EXTENDS BgPidsHistory

MCPids == {1, 2, 3}
MCStatuses == {0, 7}
MCBuckets == {0, 1}
MCHash == [p \in MCPids |-> p % 2]
MCRequests == {0, 3}
=============================================================================
