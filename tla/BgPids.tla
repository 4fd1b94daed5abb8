------------------------------- MODULE BgPids -------------------------------
(***************************************************************************)
(* The table of saved exit statuses of background processes (jobs.c,       *)
(* "Functions to manage the list of exited background pids").              *)
(*                                                                         *)
(* Statuses live in one circular buffer, bgpids.storage.  The cells whose  *)
(* pids hash to one bucket are linked through bucket_next / bucket_prev,   *)
(* and pidstat_table holds the first cell of each chain.  Every operation  *)
(* runs with SIGCHLD blocked or outside the handler, so it is one step.    *)
(***************************************************************************)
EXTENDS Integers, FiniteSets

CONSTANTS
    Pids,              \* process ids
    Statuses,          \* exit statuses
    Buckets,           \* the slots of pidstat_table
    Hash,              \* pshash_getbucket: the bucket of a pid
    BGPIDS_TABLE_SZ,   \* first size of the storage
    MAX_CHILD_MAX,     \* hard cap on its size
    LMAXCHILD,         \* the system's limit, read once by set_maxchild
    Requests,          \* the values CHILD_MAX may be assigned
    NpidMax            \* bound on npid: the range of an int

NoPid == -1            \* NO_PID
NoPidStat == -1        \* NO_PIDSTAT
NoStatus == -1         \* what bgp_search returns for an unknown pid

ASSUME DataAssumption ==
    /\ NoPid \notin Pids
    /\ NoStatus \notin Statuses
    /\ Hash \in [Pids -> Buckets]

ASSUME SizeAssumption ==
    /\ BGPIDS_TABLE_SZ \in Nat \ {0}
    /\ MAX_CHILD_MAX \in Nat
    /\ BGPIDS_TABLE_SZ <= MAX_CHILD_MAX
    /\ LMAXCHILD \in Nat \ {0}
    /\ Requests \subseteq Int
    /\ NpidMax \in Nat

VARIABLES
    storage,           \* bgpids.storage: the cells 0 .. nalloc-1
    nalloc,            \* bgpids.nalloc
    head,              \* bgpids.head: the next cell to use
    npid,              \* bgpids.npid
    pidstat_table,     \* bucket -> first cell of its chain
    childmax           \* js.c_childmax

vars == <<storage, nalloc, head, npid, pidstat_table, childmax>>

Index == 0 .. (MAX_CHILD_MAX - 1)
Cell == [pid    : Pids \cup {NoPid},
         status : Statuses \cup {NoStatus},
         next   : Index \cup {NoPidStat},
         prev   : Index \cup {NoPidStat}]

\* A free cell.  The code leaves its old status there; nothing reads it.
FreeCell == [pid |-> NoPid, status |-> NoStatus,
             next |-> NoPidStat, prev |-> NoPidStat]

Live(cells, i) == cells[i].pid # NoPid

(***************************************************************************)
(* bgp_resize.  The storage doubles from its present size (or from         *)
(* BGPIDS_TABLE_SZ) until it holds childmax cells, and stops at the cap;   *)
(* otherwise head wraps around once it is past the end.  head itself does  *)
(* not move when the storage grows.                                        *)
(***************************************************************************)
GrownSize(from, want) ==
    LET fit == {s \in from .. MAX_CHILD_MAX :
                  /\ s >= want
                  /\ s = from \/ s < 2 * want
                  /\ \E k \in 0 .. s : s = from * 2^k}
    IN  IF fit = {} THEN MAX_CHILD_MAX ELSE CHOOSE s \in fit : TRUE

MustGrow == nalloc < childmax /\ nalloc < MAX_CHILD_MAX
NewAlloc ==
    IF MustGrow
      THEN GrownSize(IF nalloc = 0 THEN BGPIDS_TABLE_SZ ELSE nalloc, childmax)
      ELSE nalloc

\* xrealloc keeps the cells there are; the code marks the new ones free.
NewCells ==
    [i \in 0 .. (NewAlloc - 1) |-> IF i < nalloc THEN storage[i] ELSE FreeCell]

\* The chains are void while nothing is allocated: bgp_clear leaves them.
NewTable == IF nalloc = 0 THEN [b \in Buckets |-> NoPidStat] ELSE pidstat_table

(***************************************************************************)
(* pshash_delindex: take cell i out of its chain and free it.              *)
(***************************************************************************)
\* Mutated form: the successor's backward link is not repaired.
UnlinkOneWay(cells, i) ==
    [j \in DOMAIN cells |->
       IF j = i THEN FreeCell
       ELSE IF Live(cells, i) /\ j = cells[i].prev
         THEN [cells[j] EXCEPT !.next = cells[i].next]
         ELSE cells[j]]

UnlinkCells(cells, i) ==
    IF ~Live(cells, i) THEN cells
    ELSE [j \in DOMAIN cells |->
            IF j = i
              THEN FreeCell
              ELSE [pid    |-> cells[j].pid,
                    status |-> cells[j].status,
                    next   |-> IF j = cells[i].prev THEN cells[i].next ELSE cells[j].next,
                    prev   |-> IF j = cells[i].next THEN cells[i].prev ELSE cells[j].prev]]

\* Mutated form: the bucket keeps pointing at the freed first cell.
UnlinkTableStale(cells, table, i) == table

UnlinkTable(cells, table, i) ==
    IF Live(cells, i) /\ cells[i].prev = NoPidStat
      THEN [table EXCEPT ![Hash[cells[i].pid]] = cells[i].next]
      ELSE table

(***************************************************************************)
(* bgp_add's last part: store pid in the free cell i, first in its chain.  *)
(***************************************************************************)
LinkCells(cells, table, i, pid, status) ==
    LET first == table[Hash[pid]]
    IN  [j \in DOMAIN cells |->
           IF j = i
             THEN [pid |-> pid, status |-> status, next |-> first, prev |-> NoPidStat]
             ELSE [pid    |-> cells[j].pid,
                   status |-> cells[j].status,
                   next   |-> cells[j].next,
                   prev   |-> IF j = first THEN i ELSE cells[j].prev]]

\* Mutated form: a bucket in use keeps its first cell.
LinkTableIfEmpty(table, i, pid) ==
    IF table[Hash[pid]] = NoPidStat THEN [table EXCEPT ![Hash[pid]] = i] ELSE table

LinkTable(table, i, pid) == [table EXCEPT ![Hash[pid]] = i]

(***************************************************************************)
(* bgp_getindex: the cell bgp_add will use is the one at head, after       *)
(* bgp_resize has run if it must.                                          *)
(***************************************************************************)
\* Mutated form: growing the storage restarts the buffer.
GetIndexRestart == IF MustGrow \/ head >= nalloc THEN 0 ELSE head

\* Mutated form: a free cell is preferred to the one at head.
GetIndexFree ==
    LET free == {i \in 0 .. (NewAlloc - 1) : ~Live(NewCells, i)}
    IN  IF free # {} THEN CHOOSE i \in free : \A j \in free : i <= j
        ELSE IF head >= nalloc THEN 0 ELSE head

GetIndex ==
    IF nalloc = 0 \/ (head >= nalloc /\ ~MustGrow) THEN 0 ELSE head

(***************************************************************************)
(* bgp_add(pid, status), called by delete_job for a finished async job and *)
(* by procsub_delete / procsub_prune for a finished process substitution.  *)
(* A live cell at head is overwritten; npid does not account for it.       *)
(* The branch for "psi == *bucket" is StaleHead below: it cannot be taken. *)
(***************************************************************************)
Add(pid, status) ==
    /\ npid < NpidMax
    /\ LET i     == GetIndex
           cells == UnlinkCells(NewCells, i)
           table == UnlinkTable(NewCells, NewTable, i)
       IN  /\ storage' = LinkCells(cells, table, i, pid, status)
           /\ pidstat_table' = LinkTable(table, i, pid)
           /\ head' = i + 1
    /\ nalloc' = NewAlloc
    /\ npid' = npid + 1
    /\ UNCHANGED childmax

\* The situation bgp_add guards against with a second bgp_getindex.
StaleHead(pid) == UnlinkTable(NewCells, NewTable, GetIndex)[Hash[pid]] = GetIndex

(***************************************************************************)
(* The walk shared by bgp_search and bgp_delete: hop along the chain until *)
(* the pid is found, the chain ends, or the next cell is the first again   *)
(* (the LOOP warning).                                                     *)
(***************************************************************************)
Chain(pid) ==
    LET hop[k \in 0 .. nalloc] ==
          IF k = 0 THEN pidstat_table[Hash[pid]]
          ELSE IF hop[k - 1] = NoPidStat THEN NoPidStat
          ELSE storage[hop[k - 1]].next
    IN  hop

\* The walk ends at cell i: the chain is over, i holds pid, or LOOP.
Stop(i, pid) ==
    \/ i = NoPidStat
    \/ storage[i].pid = pid
    \/ storage[i].next = pidstat_table[Hash[pid]]

\* The cell of pid the walk reaches, if it reaches one.
Found(pid) ==
    LET hop == Chain(pid)
    IN  {i \in 0 .. (nalloc - 1) :
           /\ storage[i].pid = pid
           /\ \E k \in 0 .. nalloc :
                /\ hop[k] = i
                /\ \A m \in 0 .. (k - 1) : ~Stop(hop[m], pid)}

Locate(pid) == IF Found(pid) = {} THEN NoPidStat ELSE CHOOSE i \in Found(pid) : TRUE

Empty == nalloc = 0 \/ npid = 0

\* bgp_search: the saved status of pid, if there is one.
Search(pid) ==
    IF Empty \/ Locate(pid) = NoPidStat THEN NoStatus ELSE storage[Locate(pid)].status

\* Mutated form of FindOne: the loop is bounded by npid instead of nalloc.
FindOneShort ==
    LET live == {i \in 0 .. (nalloc - 1) : i < npid /\ Live(storage, i)}
    IN  IF Empty \/ live = {} THEN NoPidStat
        ELSE CHOOSE i \in live : \A j \in live : i <= j

\* bgp_findone: some live cell, the first in the buffer.
FindOne ==
    LET live == {i \in 0 .. (nalloc - 1) : Live(storage, i)}
    IN  IF Empty \/ live = {} THEN NoPidStat
        ELSE CHOOSE i \in live : \A j \in live : i <= j

\* Mutated form of Delete: npid is decremented when nothing was found, too.
DeleteUnfound(pid) ==
    /\ ~Empty
    /\ LET i == Locate(pid)
       IN  IF i = NoPidStat
             THEN UNCHANGED <<storage, pidstat_table>>
             ELSE /\ storage' = UnlinkCells(storage, i)
                  /\ pidstat_table' = UnlinkTable(storage, pidstat_table, i)
    /\ npid' = npid - 1
    /\ UNCHANGED <<nalloc, head, childmax>>

(***************************************************************************)
(* bgp_delete(pid): make_child for the pid of a new child, and the wait    *)
(* builtin in posix mode for a status it has just returned.                *)
(***************************************************************************)
Delete(pid) ==
    /\ ~Empty
    /\ LET i == Locate(pid)
       IN  /\ i # NoPidStat
           /\ storage' = UnlinkCells(storage, i)
           /\ pidstat_table' = UnlinkTable(storage, pidstat_table, i)
    /\ npid' = npid - 1
    /\ UNCHANGED <<nalloc, head, childmax>>

\* bgp_delete of the pid bgp_findone returns: wait -n in posix mode.
DeleteOne ==
    /\ FindOne # NoPidStat
    /\ Delete(storage[FindOne].pid)

\* bgp_clear: wait without arguments, and delete_all_jobs in a subshell.
Clear ==
    /\ nalloc # 0
    /\ storage' = <<>>
    /\ nalloc' = 0
    /\ head' = 0
    /\ npid' = 0
    /\ UNCHANGED <<pidstat_table, childmax>>

(***************************************************************************)
(* set_maxchild(n), run at startup with 0 and whenever CHILD_MAX is set.   *)
(***************************************************************************)
\* Mutated form: no lower limit.
ClampedAbove(n) == IF n > MAX_CHILD_MAX THEN MAX_CHILD_MAX ELSE n

Clamped(n) ==
    IF n < LMAXCHILD THEN LMAXCHILD
    ELSE IF n > MAX_CHILD_MAX THEN MAX_CHILD_MAX ELSE n

SetMaxChild(n) ==
    /\ childmax' = Clamped(n)
    /\ UNCHANGED <<storage, nalloc, head, npid, pidstat_table>>

-----------------------------------------------------------------------------
Init ==
    /\ storage = <<>>
    /\ nalloc = 0
    /\ head = 0
    /\ npid = 0
    /\ pidstat_table = [b \in Buckets |-> 0]   \* static storage: all zero
    /\ childmax = Clamped(0)

Next ==
    \/ \E pid \in Pids, status \in Statuses : Add(pid, status)
    \/ \E pid \in Pids : Delete(pid)
    \/ DeleteOne
    \/ Clear
    \/ \E n \in Requests : SetMaxChild(n)

Spec == Init /\ [][Next]_vars

-----------------------------------------------------------------------------
TypeOK ==
    /\ nalloc \in 0 .. MAX_CHILD_MAX
    /\ storage \in [0 .. (nalloc - 1) -> Cell]
    /\ head \in 0 .. nalloc
    /\ npid \in 0 .. NpidMax
    /\ pidstat_table \in [Buckets -> Index \cup {NoPidStat}]
    /\ childmax \in Nat \ {0}

(***************************************************************************)
(* The chains are doubly linked lists: each live cell is the first of the  *)
(* chain of its bucket or has a live predecessor there, links agree in     *)
(* both directions, and a chain starts at a live cell of its own bucket.   *)
(* A cell that is overwritten or deleted without being unlinked, or a hash *)
(* table kept across bgp_clear, would break it.                            *)
(***************************************************************************)
BucketOf(cells, i) == Hash[cells[i].pid]

NextOK(cells, i) ==
    cells[i].next # NoPidStat =>
        /\ cells[i].next \in DOMAIN cells
        /\ Live(cells, cells[i].next)
        /\ cells[cells[i].next].prev = i
        /\ BucketOf(cells, cells[i].next) = BucketOf(cells, i)

PrevOK(cells, table, i) ==
    IF cells[i].prev = NoPidStat
      THEN table[BucketOf(cells, i)] = i
      ELSE /\ cells[i].prev \in DOMAIN cells
           /\ Live(cells, cells[i].prev)
           /\ cells[cells[i].prev].next = i

FirstOK(cells, table, b) ==
    table[b] # NoPidStat =>
        /\ table[b] \in DOMAIN cells
        /\ Live(cells, table[b])
        /\ BucketOf(cells, table[b]) = b
        /\ cells[table[b]].prev = NoPidStat

LinksOK(cells, table) ==
    /\ \A i \in DOMAIN cells :
         Live(cells, i) => NextOK(cells, i) /\ PrevOK(cells, table, i)
    /\ \A b \in Buckets : FirstOK(cells, table, b)

Linked == nalloc # 0 => LinksOK(storage, pidstat_table)

\* Neither warning of the code can appear: no chain leads back to its first
\* cell (the "LOOP" of bgp_search and bgp_delete), and the cell taken at head
\* is never still the first of the chain it joins (the "collides" of bgp_add).
NoWarning ==
    /\ nalloc # 0 => \A pid \in Pids, i \in 0 .. (nalloc - 1) :
                        Live(storage, i) => storage[i].next # pidstat_table[Hash[pid]] \/ storage[i].next = NoPidStat
    /\ \A pid \in Pids : ~StaleHead(pid)

\* npid counts every live cell at least once (overwriting a live cell leaves it
\* too high), so the early exits on npid = 0 never hide a saved status.
NpidCovers == Cardinality({i \in 0 .. (nalloc - 1) : Live(storage, i)}) <= npid
=============================================================================
