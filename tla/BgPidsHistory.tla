--------------------------- MODULE BgPidsHistory ---------------------------
(***************************************************************************)
(* BgPids with two history variables, the list it represents, and the      *)
(* properties of both.                                                     *)
(***************************************************************************)
EXTENDS BgPids, SequencesExt

VARIABLES
    later,   \* cell -> number of statuses saved after the one it holds
    room     \* cell -> number of cells of the storage when it was filled

hvars == <<storage, nalloc, head, npid, pidstat_table, childmax, later, room>>

HInit == Init /\ later = <<>> /\ room = <<>>

Age(i) == IF i < nalloc /\ Live(storage, i) THEN later[i] + 1 ELSE 0
RoomOf(i) == IF i < nalloc THEN room[i] ELSE 0

HAdd(pid, status) ==
    /\ Add(pid, status)
    /\ later' = [i \in 0 .. (nalloc' - 1) |-> IF i + 1 = head' THEN 0 ELSE Age(i)]
    /\ room' = [i \in 0 .. (nalloc' - 1) |-> IF i + 1 = head' THEN nalloc' ELSE RoomOf(i)]

HDelete(pid) == Delete(pid) /\ UNCHANGED <<later, room>>
HDeleteOne == DeleteOne /\ UNCHANGED <<later, room>>
HClear == Clear /\ later' = <<>> /\ room' = <<>>
HSetMaxChild(n) == SetMaxChild(n) /\ UNCHANGED <<later, room>>

HNext ==
    \/ \E pid \in Pids, status \in Statuses : HAdd(pid, status)
    \/ \E pid \in Pids : HDelete(pid)
    \/ HDeleteOne
    \/ HClear
    \/ \E n \in Requests : HSetMaxChild(n)

HSpec == HInit /\ [][HNext]_hvars

-----------------------------------------------------------------------------
(***************************************************************************)
(* The refinement mapping: the live cells from head, the oldest, round to  *)
(* head.  The places of the cells are numbered in that order: those before *)
(* head come after the others.                                             *)
(***************************************************************************)
CellAt(n, place) == IF place < n THEN place ELSE place - n
Saved(cell) == [pid |-> cell.pid, status |-> cell.status]

ListOf(cells, n, first) ==
    LET oldest[k \in 0 .. n] ==
          IF k = 0 THEN <<>>
          ELSE IF ~Live(cells, CellAt(n, first + k - 1)) THEN oldest[k - 1]
          ELSE Append(oldest[k - 1], Saved(cells[CellAt(n, first + k - 1)]))
    IN  oldest[n]

SavedList == ListOf(storage, nalloc, head)

Abs == INSTANCE SavedStatus WITH saved <- SavedList

\* The circular buffer with its hash chains implements the ordered list: a
\* delete takes out the newest entry of its pid, a save loses at most the
\* oldest entry, and growing or wrapping around disturbs no order.
RefinesSavedStatus == Abs!Spec

\* bgp_search through the chains, with its early exit on npid, returns what
\* the list holds: the newest status of the pid, and -1 only if there is none.
SearchFindsNewest == \A pid \in Pids : Search(pid) = Abs!Lookup(SavedList, pid)

\* bgp_findone (wait -n in posix mode) finds a status whenever one is saved.
FindOneFinds == (FindOne = NoPidStat) <=> (SavedList = <<>>)

\* The cell that an action overwrites with a new status.
Overwritten(i) == npid' > npid /\ head' = i + 1 /\ Live(storage, i)

\* A saved status outlives as many later saves as the storage had cells when
\* it was saved, whatever is deleted and however the storage grows meanwhile.
OutlivesItsRoom ==
    [][\A i \in 0 .. (nalloc - 1) : Overwritten(i) => later[i] + 1 >= room[i]]_hvars

\* jobs.c:755 says of the storage "This must contain at least js.c_childmax
\* entries" and that it supplies "the last CHILD_MAX processes": a status is
\* lost only when at least CHILD_MAX newer ones have been saved.
KeepsLastChildMax ==
    [][\A i \in 0 .. (nalloc - 1) : Overwritten(i) => later[i] + 1 >= childmax]_hvars
=============================================================================
