---------------------------- MODULE BgPidsProofs ----------------------------
(***************************************************************************)
(* Type correctness of BgPids and the invariant of its hash chains, for    *)
(* every set of pids, every hash function and every size.                  *)
(***************************************************************************)
EXTENDS BgPids, FiniteSetTheorems, TLAPS

LEMMA ClampedType == \A n \in Requests \cup {0} : Clamped(n) \in Nat \ {0}
  BY SizeAssumption DEF Clamped

\* bgp_resize never shrinks the storage, and leaves room for a first cell.
LEMMA NewAllocType ==
  ASSUME TypeOK
  PROVE  /\ NewAlloc \in nalloc .. MAX_CHILD_MAX
         /\ NewAlloc # 0
         /\ GetIndex \in 0 .. (NewAlloc - 1)
  <1> DEFINE from == IF nalloc = 0 THEN BGPIDS_TABLE_SZ ELSE nalloc
  <1>1. from \in 1 .. MAX_CHILD_MAX /\ nalloc <= from
    BY SizeAssumption DEF TypeOK
  <1>2. /\ GrownSize(from, childmax) \in from .. MAX_CHILD_MAX
        /\ GrownSize(from, childmax) >= childmax \/ GrownSize(from, childmax) = MAX_CHILD_MAX
    <2> DEFINE fit == {s \in from .. MAX_CHILD_MAX :
                         /\ s >= childmax
                         /\ s = from \/ s < 2 * childmax
                         /\ \E k \in 0 .. s : s = from * 2^k}
    <2>1. fit \subseteq {s \in from .. MAX_CHILD_MAX : s >= childmax}
      OBVIOUS
    <2>2. GrownSize(from, childmax) = IF fit = {} THEN MAX_CHILD_MAX ELSE CHOOSE s \in fit : TRUE
      BY DEF GrownSize
    <2>3. MAX_CHILD_MAX \in from .. MAX_CHILD_MAX
      BY <1>1, SizeAssumption
    <2>4. fit # {} => (CHOOSE s \in fit : TRUE) \in fit
      OBVIOUS
    <2> QED BY <2>1, <2>2, <2>3, <2>4
  <1>3. NewAlloc \in nalloc .. MAX_CHILD_MAX
    BY <1>1, <1>2, SizeAssumption DEF NewAlloc, TypeOK
  <1>4. MustGrow => NewAlloc > nalloc
    BY <1>1, <1>2, SizeAssumption DEF MustGrow, NewAlloc, TypeOK
  <1>5. nalloc = 0 => MustGrow
    BY SizeAssumption DEF MustGrow, TypeOK
  <1>6. GetIndex \in 0 .. (NewAlloc - 1)
    BY <1>3, <1>4, <1>5, SizeAssumption DEF GetIndex, TypeOK, NewAlloc
  <1> QED
    BY <1>3, <1>4, <1>5, SizeAssumption, <1>6 DEF TypeOK

(***************************************************************************)
(* Freeing a cell keeps the chains well linked.                            *)
(***************************************************************************)
TableType == [Buckets -> Index \cup {NoPidStat}]

LEMMA UnlinkOK ==
  ASSUME NEW n \in 0 .. MAX_CHILD_MAX,
         NEW cells \in [0 .. (n - 1) -> Cell],
         NEW table \in TableType,
         LinksOK(cells, table),
         NEW i \in 0 .. (n - 1)
  PROVE  /\ UnlinkCells(cells, i) \in [0 .. (n - 1) -> Cell]
         /\ UnlinkTable(cells, table, i) \in TableType
         /\ LinksOK(UnlinkCells(cells, i), UnlinkTable(cells, table, i))
         /\ \A j \in 0 .. (n - 1) : Live(UnlinkCells(cells, i), j) <=> Live(cells, j) /\ j # i
  <1>1. CASE ~Live(cells, i)
    BY <1>1 DEF UnlinkCells, UnlinkTable, Live
  <1>2. CASE Live(cells, i)
    <2> DEFINE C == UnlinkCells(cells, i)
               T == UnlinkTable(cells, table, i)
    <2>1. \A j \in 0 .. (n - 1) :
            C[j] = IF j = i THEN FreeCell
                   ELSE [pid    |-> cells[j].pid,
                         status |-> cells[j].status,
                         next   |-> IF j = cells[i].prev THEN cells[i].next ELSE cells[j].next,
                         prev   |-> IF j = cells[i].next THEN cells[i].prev ELSE cells[j].prev]
      BY <1>2 DEF UnlinkCells
    <2>2. C \in [0 .. (n - 1) -> Cell]
      BY <1>2 DEF UnlinkCells, Cell, FreeCell
    <2>3. T \in TableType
      BY DEF UnlinkTable, TableType, Cell
    <2>4. \A j \in 0 .. (n - 1) :
            /\ j # i => /\ C[j].pid = cells[j].pid
                        /\ C[j].prev = IF j = cells[i].next THEN cells[i].prev ELSE cells[j].prev
                        /\ C[j].next = IF j = cells[i].prev THEN cells[i].next ELSE cells[j].next
            /\ j = i => C[j].pid = NoPid
      BY <1>2 DEF UnlinkCells, FreeCell
    <2>5. \A j \in 0 .. (n - 1) : Live(C, j) <=> Live(cells, j) /\ j # i
      BY <2>4 DEF Live
    <2>6. NextOK(cells, i) /\ PrevOK(cells, table, i)
      BY <1>2 DEF LinksOK
    <2>7. ASSUME NEW j \in 0 .. (n - 1), Live(C, j)
          PROVE  NextOK(C, j) /\ PrevOK(C, T, j)
      <3>1. Live(cells, j) /\ j # i /\ NextOK(cells, j) /\ PrevOK(cells, table, j)
        BY <2>5, <2>7 DEF LinksOK
      <3>2. NextOK(C, j)
        BY <3>1, <2>2, <2>4, <2>5, <2>6 DEF NextOK, PrevOK, BucketOf, Cell, Index, NoPidStat
      <3>3. PrevOK(C, T, j)
        <4>1. CASE cells[j].prev = NoPidStat
          <5>1. C[j].prev = NoPidStat
            BY <4>1, <3>1, <2>4, <2>6 DEF NextOK, Index, NoPidStat
          <5>2. table[BucketOf(cells, j)] = j
            BY <4>1, <3>1 DEF PrevOK
          <5>3. T[BucketOf(C, j)] = j
            BY <5>2, <3>1, <2>4, <2>6, <1>2 DEF PrevOK, BucketOf, UnlinkTable, TableType
          <5> QED BY <5>1, <5>3 DEF PrevOK
        <4>2. CASE cells[j].prev = i
          <5>1. cells[i].next = j /\ BucketOf(cells, j) = BucketOf(cells, i)
            BY <4>2, <3>1, <2>6 DEF PrevOK, NextOK, Index, NoPidStat
          <5>2. C[j].prev = cells[i].prev /\ BucketOf(C, j) = BucketOf(cells, i)
            BY <5>1, <3>1, <2>4 DEF BucketOf
          <5>3. cells[i].prev = NoPidStat => T[BucketOf(C, j)] = j
            <6>1. BucketOf(cells, i) \in Buckets
              BY <1>2, DataAssumption DEF BucketOf, Live, Cell
            <6> QED BY <5>1, <5>2, <6>1, <1>2 DEF UnlinkTable, TableType, BucketOf
          <5>4. cells[i].prev # NoPidStat => PrevOK(C, T, j)
            BY <5>1, <5>2, <3>1, <2>2, <2>4, <2>5, <2>6 DEF PrevOK
          <5> QED BY <5>2, <5>3, <5>4 DEF PrevOK
        <4>3. CASE cells[j].prev # NoPidStat /\ cells[j].prev # i
          BY <4>3, <3>1, <2>2, <2>4, <2>5, <2>6 DEF PrevOK, NextOK, Index, NoPidStat
        <4> QED BY <4>1, <4>2, <4>3
      <3> QED BY <3>2, <3>3
    <2>8. ASSUME NEW b \in Buckets
          PROVE  FirstOK(C, T, b)
      <3>1. FirstOK(cells, table, b)
        BY DEF LinksOK
      <3> QED
        BY <3>1, <2>2, <2>4, <2>5, <2>6, <1>2 DEF FirstOK, NextOK, PrevOK, BucketOf, Cell, Index, NoPidStat, UnlinkTable, TableType
    <2> QED BY <2>2, <2>3, <2>5, <2>7, <2>8 DEF LinksOK
  <1> QED BY <1>1, <1>2

(***************************************************************************)
(* Putting a pid first in the chain of its bucket, in a free cell.         *)
(***************************************************************************)
LEMMA LinkOK ==
  ASSUME NEW n \in 0 .. MAX_CHILD_MAX,
         NEW cells \in [0 .. (n - 1) -> Cell],
         NEW table \in TableType,
         LinksOK(cells, table),
         NEW i \in 0 .. (n - 1),
         ~Live(cells, i),
         NEW pid \in Pids, NEW status \in Statuses
  PROVE  /\ LinkCells(cells, table, i, pid, status) \in [0 .. (n - 1) -> Cell]
         /\ LinkTable(table, i, pid) \in TableType
         /\ LinksOK(LinkCells(cells, table, i, pid, status), LinkTable(table, i, pid))
         /\ \A j \in 0 .. (n - 1) :
              Live(LinkCells(cells, table, i, pid, status), j) <=> Live(cells, j) \/ j = i
  <1> DEFINE C == LinkCells(cells, table, i, pid, status)
             T == LinkTable(table, i, pid)
             first == table[Hash[pid]]
             bucket == Hash[pid]
  <1>1. bucket \in Buckets /\ first \in Index \cup {NoPidStat} /\ i \in Index
    BY DataAssumption, SizeAssumption DEF TableType, Index
  <1>2. first # NoPidStat => /\ first \in 0 .. (n - 1)
                             /\ first # i
                             /\ Live(cells, first)
                             /\ BucketOf(cells, first) = bucket
                             /\ cells[first].prev = NoPidStat
    BY <1>1 DEF LinksOK, FirstOK
  <1>3. \A j \in 0 .. (n - 1) :
          /\ j = i => /\ C[j].pid = pid
                      /\ C[j].status = status
                      /\ C[j].next = first
                      /\ C[j].prev = NoPidStat
          /\ j # i => /\ C[j].pid = cells[j].pid
                      /\ C[j].next = cells[j].next
                      /\ C[j].prev = IF j = first THEN i ELSE cells[j].prev
    BY DEF LinkCells
  <1>4. C \in [0 .. (n - 1) -> Cell]
    BY <1>1, <1>2 DEF LinkCells, Cell
  <1>5. T \in TableType
    BY <1>1 DEF LinkTable, TableType
  <1>6. \A b \in Buckets : T[b] = IF b = bucket THEN i ELSE table[b]
    BY <1>1 DEF LinkTable, TableType
  <1>7. \A j \in 0 .. (n - 1) : Live(C, j) <=> Live(cells, j) \/ j = i
    BY <1>3, DataAssumption DEF Live
  <1>8. ASSUME NEW j \in 0 .. (n - 1), Live(C, j)
        PROVE  NextOK(C, j) /\ PrevOK(C, T, j)
    <2>1. CASE j = i
      BY <2>1, <1>1, <1>2, <1>3, <1>4, <1>6, <1>7 DEF NextOK, PrevOK, BucketOf
    <2>2. CASE j # i
      <3>1. Live(cells, j) /\ NextOK(cells, j) /\ PrevOK(cells, table, j)
        BY <2>2, <1>7, <1>8 DEF LinksOK
      <3>2. BucketOf(cells, j) \in Buckets
        BY <3>1, DataAssumption DEF BucketOf, Live, Cell
      <3>3. NextOK(C, j)
        <4>1. cells[j].next # NoPidStat => cells[j].next # first /\ cells[j].next # i
          BY <3>1, <1>2 DEF NextOK, Live, Index, NoPidStat
        <4> QED
          BY <4>1, <3>1, <2>2, <1>3, <1>4, <1>7 DEF NextOK, BucketOf
      <3>4. PrevOK(C, T, j)
        <4>1. CASE j = first
          BY <4>1, <2>2, <1>1, <1>2, <1>3, <1>4, <1>7, <1>8 DEF PrevOK, Index, NoPidStat
        <4>2. CASE j # first
          <5>1. C[j].prev = cells[j].prev /\ BucketOf(C, j) = BucketOf(cells, j)
            BY <4>2, <2>2, <1>3 DEF BucketOf
          <5>2. cells[j].prev = NoPidStat => BucketOf(cells, j) # bucket
            BY <4>2, <3>1 DEF PrevOK
          <5>3. CASE cells[j].prev = NoPidStat
            BY <5>1, <5>2, <5>3, <3>1, <3>2, <1>6 DEF PrevOK
          <5>4. CASE cells[j].prev # NoPidStat
            <6>1. cells[j].prev # i
              BY <5>4, <3>1 DEF PrevOK
            <6> QED
              BY <6>1, <5>1, <5>4, <3>1, <1>3, <1>4, <1>7 DEF PrevOK
          <5> QED BY <5>3, <5>4
        <4> QED BY <4>1, <4>2
      <3> QED BY <3>3, <3>4
    <2> QED BY <2>1, <2>2
  <1>9. ASSUME NEW b \in Buckets
        PROVE  FirstOK(C, T, b)
    <2>1. CASE b = bucket
      BY <2>1, <1>3, <1>4, <1>6, <1>7 DEF FirstOK, BucketOf
    <2>2. CASE b # bucket
      <3>1. FirstOK(cells, table, b) /\ T[b] = table[b]
        BY <2>2, <1>6 DEF LinksOK
      <3>2. table[b] # NoPidStat => table[b] # i /\ table[b] # first
        BY <3>1, <2>2, <1>2 DEF FirstOK
      <3> QED
        BY <3>1, <3>2, <1>3, <1>4, <1>7 DEF FirstOK, BucketOf
    <2> QED BY <2>1, <2>2
  <1> QED BY <1>4, <1>5, <1>7, <1>8, <1>9 DEF LinksOK

(***************************************************************************)
(* Growing the storage keeps the chains, and starts them anew when nothing *)
(* was allocated.                                                          *)
(***************************************************************************)
LEMMA GrowOK ==
  ASSUME TypeOK, Linked
  PROVE  /\ NewCells \in [0 .. (NewAlloc - 1) -> Cell]
         /\ NewTable \in TableType
         /\ LinksOK(NewCells, NewTable)
         /\ \A j \in 0 .. (NewAlloc - 1) :
              Live(NewCells, j) <=> j < nalloc /\ Live(storage, j)
  <1>1. NewAlloc \in nalloc .. MAX_CHILD_MAX /\ NewAlloc \in Nat /\ nalloc \in Nat
    BY NewAllocType, SizeAssumption DEF TypeOK
  <1>2. FreeCell \in Cell
    BY DEF FreeCell, Cell
  <1>3. NewCells \in [0 .. (NewAlloc - 1) -> Cell]
    BY <1>1, <1>2 DEF NewCells, TypeOK
  <1>4. NewTable \in TableType
    BY DEF NewTable, TableType, TypeOK
  <1>5. \A j \in 0 .. (NewAlloc - 1) :
          NewCells[j] = IF j < nalloc THEN storage[j] ELSE FreeCell
    BY DEF NewCells
  <1>6. \A j \in 0 .. (NewAlloc - 1) :
          Live(NewCells, j) <=> j < nalloc /\ Live(storage, j)
    BY <1>5 DEF Live, FreeCell
  <1>7. LinksOK(NewCells, NewTable)
    <2>1. CASE nalloc = 0
      BY <2>1, <1>1, <1>3, <1>6 DEF LinksOK, FirstOK, NewTable
    <2>2. CASE nalloc # 0
      <3>1. LinksOK(storage, pidstat_table) /\ NewTable = pidstat_table
        BY <2>2 DEF Linked, NewTable
      <3>2. \A j \in 0 .. (nalloc - 1) : j \in 0 .. (NewAlloc - 1) /\ NewCells[j] = storage[j]
        BY <1>1, <1>5
      <3>3. ASSUME NEW j \in 0 .. (NewAlloc - 1), Live(NewCells, j)
            PROVE  NextOK(NewCells, j) /\ PrevOK(NewCells, NewTable, j)
        <4>1. j \in 0 .. (nalloc - 1) /\ Live(storage, j)
          BY <3>3, <1>1, <1>6
        <4>2. NextOK(storage, j) /\ PrevOK(storage, pidstat_table, j)
          BY <4>1, <3>1 DEF LinksOK, TypeOK
        <4> QED
          BY <4>1, <4>2, <3>1, <3>2, <1>3 DEF NextOK, PrevOK, BucketOf, Live, TypeOK
      <3>4. ASSUME NEW b \in Buckets
            PROVE  FirstOK(NewCells, NewTable, b)
        <4>1. FirstOK(storage, pidstat_table, b)
          BY <3>1 DEF LinksOK
        <4> QED
          BY <4>1, <3>1, <3>2, <1>3 DEF FirstOK, BucketOf, Live, TypeOK
      <3> QED BY <3>3, <3>4, <1>3 DEF LinksOK
    <2> QED BY <2>1, <2>2
  <1> QED BY <1>3, <1>4, <1>6, <1>7

-----------------------------------------------------------------------------
(***************************************************************************)
(* Every action keeps the types and the chains.                            *)
(***************************************************************************)
Inv == TypeOK /\ Linked

LEMMA InitInv == Init => Inv
  <1> SUFFICES ASSUME Init PROVE Inv
    OBVIOUS
  <1>1. childmax \in Nat \ {0}
    BY ClampedType DEF Init
  <1>2. storage \in [0 .. (nalloc - 1) -> Cell]
    BY DEF Init
  <1>3. pidstat_table \in [Buckets -> Index \cup {NoPidStat}]
    BY SizeAssumption DEF Init, Index
  <1> QED
    BY <1>1, <1>2, <1>3, SizeAssumption DEF Init, Inv, TypeOK, Linked

LEMMA AddInv ==
  ASSUME Inv, NEW pid \in Pids, NEW status \in Statuses, Add(pid, status)
  PROVE  Inv'
  <1> DEFINE i == GetIndex
             cells == UnlinkCells(NewCells, i)
             table == UnlinkTable(NewCells, NewTable, i)
  <1>1. /\ NewAlloc \in 0 .. MAX_CHILD_MAX
        /\ i \in 0 .. (NewAlloc - 1)
    BY NewAllocType, SizeAssumption DEF Inv, TypeOK
  <1>2. /\ NewCells \in [0 .. (NewAlloc - 1) -> Cell]
        /\ NewTable \in TableType
        /\ LinksOK(NewCells, NewTable)
    BY GrowOK DEF Inv
  <1>3. /\ cells \in [0 .. (NewAlloc - 1) -> Cell]
        /\ table \in TableType
        /\ LinksOK(cells, table)
        /\ ~Live(cells, i)
    BY <1>1, <1>2, UnlinkOK
  <1>4. /\ LinkCells(cells, table, i, pid, status) \in [0 .. (NewAlloc - 1) -> Cell]
        /\ LinkTable(table, i, pid) \in TableType
        /\ LinksOK(LinkCells(cells, table, i, pid, status), LinkTable(table, i, pid))
    BY <1>1, <1>3, LinkOK
  <1>5. /\ storage' = LinkCells(cells, table, i, pid, status)
        /\ pidstat_table' = LinkTable(table, i, pid)
        /\ head' = i + 1
        /\ nalloc' = NewAlloc
        /\ npid' = npid + 1 /\ npid < NpidMax
        /\ childmax' = childmax
    BY DEF Add
  <1>6. TypeOK'
    <2>1. storage' \in [0 .. (nalloc' - 1) -> Cell]
      BY <1>4, <1>5
    <2>2. pidstat_table' \in [Buckets -> Index \cup {NoPidStat}]
      BY <1>4, <1>5 DEF TableType
    <2>3. head' \in 0 .. nalloc' /\ nalloc' \in 0 .. MAX_CHILD_MAX
      BY <1>1, <1>5
    <2>4. npid' \in 0 .. NpidMax /\ childmax' \in Nat \ {0}
      BY <1>5, SizeAssumption DEF Inv, TypeOK
    <2> QED BY <2>1, <2>2, <2>3, <2>4 DEF TypeOK
  <1>7. Linked'
    BY <1>4, <1>5 DEF Linked
  <1> QED BY <1>6, <1>7 DEF Inv

LEMMA DeleteInv ==
  ASSUME Inv, NEW pid, Delete(pid)
  PROVE  Inv'
  <1>1. Locate(pid) \in 0 .. (nalloc - 1)
    <2>1. Found(pid) \subseteq 0 .. (nalloc - 1)
      BY DEF Found
    <2> QED BY <2>1 DEF Delete, Locate
  <1>2. nalloc # 0 /\ npid # 0
    BY DEF Delete, Empty
  <1>3. LinksOK(storage, pidstat_table) /\ pidstat_table \in TableType
    BY <1>2 DEF Inv, Linked, TypeOK, TableType
  <1>4. /\ storage' \in [0 .. (nalloc - 1) -> Cell]
        /\ pidstat_table' \in TableType
        /\ LinksOK(storage', pidstat_table')
    BY <1>1, <1>3, UnlinkOK DEF Delete, Inv, TypeOK
  <1>5. npid' = npid - 1 /\ UNCHANGED <<nalloc, head, childmax>>
    BY DEF Delete
  <1>6. TypeOK'
    BY <1>2, <1>4, <1>5, SizeAssumption DEF Inv, TypeOK, TableType
  <1> QED BY <1>4, <1>5, <1>6 DEF Inv, Linked

LEMMA ClearInv == Inv /\ Clear => Inv'
  BY SizeAssumption DEF Inv, TypeOK, Linked, Clear

LEMMA SetMaxChildInv ==
  ASSUME Inv, NEW n \in Requests, SetMaxChild(n)
  PROVE  Inv'
  BY ClampedType DEF Inv, TypeOK, Linked, SetMaxChild

LEMMA NextInv == Inv /\ [Next]_vars => Inv'
  <1> SUFFICES ASSUME Inv, [Next]_vars PROVE Inv'
    OBVIOUS
  <1>1. ASSUME NEW pid \in Pids, NEW status \in Statuses, Add(pid, status)
        PROVE  Inv'
    BY <1>1, AddInv
  <1>2. ASSUME NEW pid \in Pids, Delete(pid)
        PROVE  Inv'
    BY <1>2, DeleteInv
  <1>3. CASE DeleteOne
    BY <1>3, DeleteInv DEF DeleteOne
  <1>4. CASE Clear
    BY <1>4, ClearInv
  <1>5. ASSUME NEW n \in Requests, SetMaxChild(n)
        PROVE  Inv'
    BY <1>5, SetMaxChildInv
  <1>6. CASE UNCHANGED vars
    BY <1>6 DEF vars, Inv, TypeOK, Linked
  <1> QED
    BY <1>1, <1>2, <1>3, <1>4, <1>5, <1>6 DEF Next

LEMMA SpecInv == Spec => []Inv
  BY InitInv, NextInv, PTL DEF Spec

\* Type correctness of the table, for every size of its parts.
THEOREM TypeCorrect == Spec => []TypeOK
  <1>1. Inv => TypeOK
    BY DEF Inv
  <1> QED BY <1>1, SpecInv, PTL

\* The chains of the hash table stay doubly linked lists, whatever is saved,
\* deleted, overwritten, cleared or resized, and in whatever order.
THEOREM ChainsLinked == Spec => []Linked
  <1>1. Inv => Linked
    BY DEF Inv
  <1> QED BY <1>1, SpecInv, PTL

\* Neither the LOOP warning of bgp_search and bgp_delete nor the collision
\* of bgp_add with its own bucket can happen.
THEOREM NeverWarns == Spec => []NoWarning
  <1>1. Inv => NoWarning
    <2> SUFFICES ASSUME Inv PROVE NoWarning
      OBVIOUS
    <2>1. ASSUME nalloc # 0, NEW pid \in Pids, NEW i \in 0 .. (nalloc - 1), Live(storage, i),
                 storage[i].next = pidstat_table[Hash[pid]],
                 storage[i].next # NoPidStat
          PROVE  FALSE
      <3>1. Hash[pid] \in Buckets
        BY DataAssumption
      <3>2. NextOK(storage, i) /\ FirstOK(storage, pidstat_table, Hash[pid])
        BY <2>1, <3>1 DEF Inv, TypeOK, Linked, LinksOK
      <3>3. storage[storage[i].next].prev = i /\ storage[storage[i].next].prev = NoPidStat
        BY <2>1, <3>2 DEF NextOK, FirstOK
      <3> QED BY <3>3 DEF NoPidStat
    <2>2. ASSUME NEW pid \in Pids, StaleHead(pid)
          PROVE  FALSE
      <3> DEFINE table == UnlinkTable(NewCells, NewTable, GetIndex)
                 cells == UnlinkCells(NewCells, GetIndex)
      <3>1. /\ NewAlloc \in 0 .. MAX_CHILD_MAX
            /\ GetIndex \in 0 .. (NewAlloc - 1)
        BY NewAllocType, SizeAssumption DEF Inv, TypeOK
      <3>2. LinksOK(cells, table) /\ ~Live(cells, GetIndex)
        BY <3>1, GrowOK, UnlinkOK DEF Inv
      <3>3. Hash[pid] \in Buckets /\ table[Hash[pid]] = GetIndex
        BY <2>2, DataAssumption DEF StaleHead
      <3> QED BY <3>1, <3>2, <3>3 DEF LinksOK, FirstOK, NoPidStat
    <2> QED BY <2>1, <2>2 DEF NoWarning
  <1> QED BY <1>1, SpecInv, PTL

-----------------------------------------------------------------------------
(***************************************************************************)
(* npid against the number of live cells.                                  *)
(***************************************************************************)
LiveSet == {i \in 0 .. (nalloc - 1) : Live(storage, i)}

LEMMA LiveSetFinite ==
  ASSUME TypeOK
  PROVE  IsFiniteSet(LiveSet) /\ Cardinality(LiveSet) \in Nat
  <1>1. 0 \in Int /\ nalloc - 1 \in Int
    BY DEF TypeOK
  <1>2. IsFiniteSet(0 .. (nalloc - 1))
    BY <1>1, FS_Interval
  <1>3. LiveSet \subseteq 0 .. (nalloc - 1)
    BY DEF LiveSet
  <1> QED BY <1>2, <1>3, FS_Subset, FS_CardinalityType

\* An add makes one more cell live at the most: the one it fills.
LEMMA AddLiveSet ==
  ASSUME Inv, NEW pid \in Pids, NEW status \in Statuses, Add(pid, status)
  PROVE  Cardinality(LiveSet') <= Cardinality(LiveSet) + 1
  <1> DEFINE i == GetIndex
             cells == UnlinkCells(NewCells, i)
             table == UnlinkTable(NewCells, NewTable, i)
  <1>1. /\ NewAlloc \in nalloc .. MAX_CHILD_MAX
        /\ NewAlloc \in 0 .. MAX_CHILD_MAX
        /\ i \in 0 .. (NewAlloc - 1)
    BY NewAllocType, SizeAssumption DEF Inv, TypeOK
  <1>2. /\ NewCells \in [0 .. (NewAlloc - 1) -> Cell]
        /\ NewTable \in TableType
        /\ LinksOK(NewCells, NewTable)
        /\ \A j \in 0 .. (NewAlloc - 1) :
             Live(NewCells, j) <=> j < nalloc /\ Live(storage, j)
    BY GrowOK DEF Inv
  <1>3. /\ cells \in [0 .. (NewAlloc - 1) -> Cell]
        /\ table \in TableType
        /\ LinksOK(cells, table)
        /\ ~Live(cells, i)
        /\ \A j \in 0 .. (NewAlloc - 1) : Live(cells, j) <=> Live(NewCells, j) /\ j # i
    BY <1>1, <1>2, UnlinkOK
  <1>4. \A j \in 0 .. (NewAlloc - 1) :
          Live(LinkCells(cells, table, i, pid, status), j) <=> Live(cells, j) \/ j = i
    BY <1>1, <1>3, LinkOK
  <1>5. storage' = LinkCells(cells, table, i, pid, status) /\ nalloc' = NewAlloc
    BY DEF Add
  <1>6. \A j \in 0 .. (NewAlloc - 1) : Live(storage', j) => (j < nalloc /\ Live(storage, j)) \/ j = i
    BY <1>2, <1>3, <1>4, <1>5
  <1>7. LiveSet' \subseteq LiveSet \cup {i}
    BY <1>1, <1>5, <1>6 DEF LiveSet, Inv, TypeOK, Live
  <1>8. /\ IsFiniteSet(LiveSet) /\ Cardinality(LiveSet) \in Nat
        /\ IsFiniteSet(LiveSet \cup {i})
        /\ Cardinality(LiveSet \cup {i}) <= Cardinality(LiveSet) + 1
    <2>1. IsFiniteSet(LiveSet) /\ Cardinality(LiveSet) \in Nat
      BY LiveSetFinite DEF Inv
    <2>2. /\ IsFiniteSet(LiveSet \cup {i})
          /\ Cardinality(LiveSet \cup {i}) = IF i \in LiveSet THEN Cardinality(LiveSet)
                                             ELSE Cardinality(LiveSet) + 1
      BY <2>1, FS_AddElement
    <2> QED BY <2>1, <2>2
  <1>9. Cardinality(LiveSet') <= Cardinality(LiveSet \cup {i}) /\ Cardinality(LiveSet') \in Nat
    BY <1>7, <1>8, FS_Subset, FS_CardinalityType
  <1>10. Cardinality(LiveSet \cup {i}) \in Nat
    BY <1>8, FS_CardinalityType
  <1> QED BY <1>8, <1>9, <1>10

\* A delete takes out one live cell.
LEMMA DeleteLiveSet ==
  ASSUME Inv, NEW pid \in Pids, Delete(pid)
  PROVE  Cardinality(LiveSet') = Cardinality(LiveSet) - 1
  <1> DEFINE i == Locate(pid)
  <1>1. i \in 0 .. (nalloc - 1) /\ Live(storage, i)
    <2>1. Found(pid) \subseteq {j \in 0 .. (nalloc - 1) : storage[j].pid = pid}
      BY DEF Found
    <2>2. i \in Found(pid)
      BY DEF Delete, Locate
    <2> QED BY <2>1, <2>2, DataAssumption DEF Live
  <1>2. nalloc # 0
    BY DEF Delete, Empty
  <1>3. /\ storage' = UnlinkCells(storage, i)
        /\ nalloc' = nalloc
    BY DEF Delete
  <1>4. \A j \in 0 .. (nalloc - 1) : Live(storage', j) <=> Live(storage, j) /\ j # i
    BY <1>1, <1>2, <1>3, UnlinkOK DEF Inv, Linked, TypeOK, TableType
  <1>5. LiveSet' = LiveSet \ {i} /\ i \in LiveSet
    BY <1>1, <1>3, <1>4 DEF LiveSet, Live
  <1> QED BY <1>5, LiveSetFinite, FS_RemoveElement DEF Inv

LEMMA NpidInit == Init => NpidCovers
  <1> SUFFICES ASSUME Init PROVE NpidCovers
    OBVIOUS
  <1>1. {i \in 0 .. (nalloc - 1) : Live(storage, i)} = {}
    BY DEF Init
  <1> QED BY <1>1, FS_EmptySet DEF Init, NpidCovers

LEMMA NpidNext == Inv /\ NpidCovers /\ [Next]_vars => NpidCovers'
  <1> SUFFICES ASSUME Inv, NpidCovers, [Next]_vars PROVE NpidCovers'
    OBVIOUS
  <1>1. Cardinality(LiveSet) <= npid /\ Cardinality(LiveSet) \in Nat /\ npid \in Nat
    BY LiveSetFinite, SizeAssumption DEF NpidCovers, LiveSet, Inv, TypeOK
  <1>2. Inv'
    BY NextInv
  <1>3. Cardinality(LiveSet') \in Nat
    <2>1. (TypeOK => Cardinality(LiveSet) \in Nat)'
      BY LiveSetFinite, PTL
    <2> QED BY <1>2, <2>1 DEF Inv
  <1>4. ASSUME NEW pid \in Pids, NEW status \in Statuses, Add(pid, status)
        PROVE  Cardinality(LiveSet') <= npid'
    BY <1>1, <1>3, <1>4, AddLiveSet DEF Add
  <1>5. ASSUME NEW pid \in Pids, Delete(pid)
        PROVE  Cardinality(LiveSet') <= npid'
    BY <1>1, <1>5, DeleteLiveSet DEF Delete
  <1>6. ASSUME DeleteOne PROVE Cardinality(LiveSet') <= npid'
    <2>1. storage[FindOne].pid \in Pids
      <3> DEFINE live == {i \in 0 .. (nalloc - 1) : Live(storage, i)}
      <3>1. FindOne \in live
        BY <1>6 DEF DeleteOne, FindOne
      <3> QED BY <3>1 DEF Live, Inv, TypeOK, Cell
    <2> QED BY <1>5, <1>6, <2>1 DEF DeleteOne
  <1>7. ASSUME Clear PROVE Cardinality(LiveSet') <= npid'
    <2>1. LiveSet' = {}
      BY <1>7 DEF Clear, LiveSet
    <2> QED BY <1>7, <2>1, FS_EmptySet DEF Clear
  <1>8. ASSUME UNCHANGED <<storage, nalloc, npid>>
        PROVE  Cardinality(LiveSet') <= npid'
    BY <1>1, <1>8 DEF LiveSet, Live
  <1>9. ASSUME NEW n \in Requests, SetMaxChild(n)
        PROVE  UNCHANGED <<storage, nalloc, npid>>
    BY <1>9 DEF SetMaxChild
  <1>10. UNCHANGED vars => UNCHANGED <<storage, nalloc, npid>>
    BY DEF vars
  <1>11. Cardinality(LiveSet') <= npid'
    BY <1>4, <1>5, <1>6, <1>7, <1>8, <1>9, <1>10 DEF Next
  <1> QED BY <1>11 DEF NpidCovers, LiveSet

\* bgp_search, bgp_delete and bgp_findone give up when npid is 0: that is right
\* because npid never falls below the number of statuses saved.
THEOREM NpidNeverShort == Spec => []NpidCovers
  <1>1. Spec => [](Inv /\ NpidCovers)
    BY InitInv, NextInv, NpidInit, NpidNext, PTL DEF Spec
  <1> QED BY <1>1, PTL
=============================================================================
