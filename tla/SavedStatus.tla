---------------------------- MODULE SavedStatus ----------------------------
(***************************************************************************)
(* What the rest of the shell relies on from the list of saved statuses    *)
(* (jobs.c, save_proc_status / retrieve_proc_status / delete_proc_status): *)
(* an ordered list, oldest first, from which only the oldest entries may   *)
(* be lost, and only when new ones are saved, one for one.                 *)
(***************************************************************************)
EXTENDS Integers, SequencesExt

CONSTANTS Pids, Statuses

VARIABLE saved

Entry == [pid : Pids, status : Statuses]

TypeOK == saved \in Seq(Entry)

\* The list after these entries were saved and its lost oldest ones dropped.
MayLose(list, entries) == 0 .. (IF Len(list) < Len(entries) THEN Len(list) ELSE Len(entries))
WithSaved(list, entries, lost) == SubSeq(list \o entries, lost + 1, Len(list) + Len(entries))

\* The positions of pid in a list, and the newest of them.
Positions(list, pid) == {k \in DOMAIN list : list[k].pid = pid}
Newest(list, pid) == CHOOSE k \in Positions(list, pid) : \A m \in Positions(list, pid) : m <= k

\* The status of the entry of pid saved last, or -1.
Lookup(list, pid) ==
    IF Positions(list, pid) = {} THEN -1 ELSE list[Newest(list, pid)].status

\* The list without the entry of pid saved last.
Without(list, pid) ==
    IF Positions(list, pid) = {} THEN list ELSE RemoveAt(list, Newest(list, pid))

Init == saved = <<>>

Save(entry) ==
    \E lost \in MayLose(saved, <<entry>>) : saved' = WithSaved(saved, <<entry>>, lost)

Discard(pid) ==
    /\ Positions(saved, pid) # {}
    /\ saved' = Without(saved, pid)

ForgetAll ==
    /\ saved # <<>>
    /\ saved' = <<>>

Next ==
    \/ \E entry \in Entry : Save(entry)
    \/ \E pid \in Pids : Discard(pid)
    \/ ForgetAll

Spec == Init /\ [][Next]_saved
=============================================================================
