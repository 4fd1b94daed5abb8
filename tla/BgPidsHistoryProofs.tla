------------------------ MODULE BgPidsHistoryProofs ------------------------
(***************************************************************************)
(* The circular buffer of saved statuses as the ordered list it stands     *)
(* for: what bgp_search, bgp_delete and bgp_findone find in it, how long a *)
(* status stays, and that it implements SavedStatus.                       *)
(***************************************************************************)
EXTENDS BgPidsHistory, BgPidsProofs, DataTheorems

-----------------------------------------------------------------------------
(***************************************************************************)
(* The places of the cells: head has the first, and the cells before head  *)
(* follow the others.                                                      *)
(***************************************************************************)
Place(n, first, i) == IF i < first THEN i + n ELSE i

LEMMA PlaceOfCell ==
  ASSUME NEW n \in Nat, NEW first \in 0 .. n, NEW i \in 0 .. (n - 1)
  PROVE  /\ Place(n, first, i) \in first .. (first + n - 1)
         /\ CellAt(n, Place(n, first, i)) = i
  BY DEF Place, CellAt

LEMMA CellOfPlace ==
  ASSUME NEW n \in Nat, NEW first \in 0 .. n, NEW p \in first .. (first + n - 1)
  PROVE  /\ CellAt(n, p) \in 0 .. (n - 1)
         /\ Place(n, first, CellAt(n, p)) = p
  BY DEF Place, CellAt

LEMMA OnePlaceEach ==
  ASSUME NEW n \in Nat, NEW first \in 0 .. n, NEW i \in 0 .. (n - 1), NEW j \in 0 .. (n - 1),
         Place(n, first, i) = Place(n, first, j)
  PROVE  i = j
  BY PlaceOfCell

-----------------------------------------------------------------------------
(***************************************************************************)
(* A list stands for some cells if it can be laid out over the live ones,  *)
(* in the order of their places: order[k] is the cell of the k-th entry.   *)
(***************************************************************************)
LEMMA SavedFields == \A cell : Saved(cell).pid = cell.pid /\ Saved(cell).status = cell.status
  BY DEF Saved

Held == [pid : Pids, status : Statuses \cup {NoStatus}]

\* The live cells whose place is below top.
LaidOut(cells, n, first, top, list, order) ==
    /\ list \in Seq(Held)
    /\ order \in [1 .. Len(list) -> 0 .. (n - 1)]
    /\ \A k \in 1 .. Len(list) : /\ Live(cells, order[k])
                                 /\ list[k] = Saved(cells[order[k]])
                                 /\ Place(n, first, order[k]) < top
    /\ \A j, k \in 1 .. Len(list) :
         j < k => Place(n, first, order[j]) < Place(n, first, order[k])
    /\ \A i \in 0 .. (n - 1) :
         Live(cells, i) /\ Place(n, first, i) < top => \E k \in 1 .. Len(list) : order[k] = i

\* All of them.
StandsFor(cells, n, first, list, order) == LaidOut(cells, n, first, first + n, list, order)

\* Two layouts agree up to the k-th entry.
SameBefore(o, q, k) == \A j \in 1 .. (k - 1) : o[j] = q[j]

\* A list that is laid out over the same cells in the same order is the same.
LEMMA SameOrder ==
  ASSUME NEW n \in Nat, NEW first \in 0 .. n, NEW cells, NEW k,
         NEW l, NEW o, StandsFor(cells, n, first, l, o),
         NEW m, NEW q, StandsFor(cells, n, first, m, q),
         k \in 1 .. Len(l), k \in 1 .. Len(m), SameBefore(o, q, k)
  PROVE  Place(n, first, o[k]) <= Place(n, first, q[k])
  <1>0. Len(l) \in Nat /\ Len(m) \in Nat
    BY DEF StandsFor, LaidOut
  <1>1. q[k] \in 0 .. (n - 1) /\ Live(cells, q[k]) /\ Place(n, first, q[k]) < first + n
    BY <1>0 DEF StandsFor, LaidOut
  <1>2. PICK i \in 1 .. Len(l) : o[i] = q[k]
    BY <1>1 DEF StandsFor, LaidOut
  <1>3. o[k] \in 0 .. (n - 1) /\ o[i] \in 0 .. (n - 1)
    BY <1>0 DEF StandsFor, LaidOut
  <1>4. Place(n, first, o[k]) \in Int /\ Place(n, first, o[i]) \in Int
    BY <1>3 DEF Place
  <1>5. CASE i < k
    <2>1. i \in 1 .. (k - 1) /\ i \in 1 .. Len(m)
      BY <1>0, <1>5
    <2>2. q[i] = q[k]
      BY <1>2, <2>1 DEF SameBefore
    <2>3. Place(n, first, q[i]) < Place(n, first, q[k])
      BY <1>5, <2>1 DEF StandsFor, LaidOut
    <2> QED BY <1>2, <1>4, <2>2, <2>3
  <1>6. CASE i = k
    BY <1>2, <1>4, <1>6
  <1>7. CASE k < i
    <2>1. Place(n, first, o[k]) < Place(n, first, o[i])
      BY <1>7 DEF StandsFor, LaidOut
    <2> QED BY <1>2, <1>4, <2>1
  <1> QED BY <1>0, <1>5, <1>6, <1>7

LEMMA NoLonger ==
  ASSUME NEW n \in Nat, NEW first \in 0 .. n, NEW cells,
         NEW l, NEW o, StandsFor(cells, n, first, l, o),
         NEW m, NEW q, StandsFor(cells, n, first, m, q),
         \A k \in 1 .. Len(l) : k \in 1 .. Len(m) => o[k] = q[k]
  PROVE  Len(m) <= Len(l)
  <1>0. Len(l) \in Nat /\ Len(m) \in Nat
    BY DEF StandsFor, LaidOut
  <1> SUFFICES ASSUME Len(l) < Len(m) PROVE FALSE
    BY <1>0
  <1> DEFINE k == Len(l) + 1
  <1>1. k \in 1 .. Len(m)
    BY <1>0
  <1>2. q[k] \in 0 .. (n - 1) /\ Live(cells, q[k]) /\ Place(n, first, q[k]) < first + n
    BY <1>1 DEF StandsFor, LaidOut
  <1>3. PICK i \in 1 .. Len(l) : o[i] = q[k]
    BY <1>2 DEF StandsFor, LaidOut
  <1>4. i \in 1 .. Len(m) /\ i < k
    BY <1>0
  <1>5. q[i] = q[k]
    BY <1>3, <1>4
  <1> HIDE DEF k
  <1>6. Place(n, first, q[i]) < Place(n, first, q[k])
    BY <1>1, <1>4 DEF StandsFor, LaidOut
  <1>7. Place(n, first, q[k]) \in Int
    BY <1>2 DEF Place
  <1> QED BY <1>5, <1>6, <1>7

LEMMA OneList ==
  ASSUME NEW n \in Nat, NEW first \in 0 .. n, NEW cells,
         NEW l, NEW o, StandsFor(cells, n, first, l, o),
         NEW m, NEW q, StandsFor(cells, n, first, m, q)
  PROVE  l = m
  <1>0. Len(l) \in Nat /\ Len(m) \in Nat /\ l \in Seq(Held) /\ m \in Seq(Held)
    BY DEF StandsFor, LaidOut
  <1> DEFINE Same(j) == j \in 1 .. Len(l) /\ j \in 1 .. Len(m) => o[j] = q[j]
             G == {k \in Nat : \A j \in 1 .. k : Same(j)}
  <1>1. 0 \in G
    OBVIOUS
  <1>2. ASSUME NEW k \in Nat, k \in G PROVE k + 1 \in G
    <2>1. Same(k + 1)
      <3> SUFFICES ASSUME k + 1 \in 1 .. Len(l), k + 1 \in 1 .. Len(m)
                   PROVE  o[k + 1] = q[k + 1]
        OBVIOUS
      <3> DEFINE e == k + 1
      <3>0. e \in 1 .. Len(l) /\ e \in 1 .. Len(m)
        OBVIOUS
      <3>1. SameBefore(o, q, e) /\ SameBefore(q, o, e)
        BY <1>0, <1>2 DEF SameBefore
      <3> HIDE DEF e
      <3>2. Place(n, first, o[e]) <= Place(n, first, q[e])
        BY <3>0, <3>1, SameOrder
      <3>3. Place(n, first, q[e]) <= Place(n, first, o[e])
        BY <3>0, <3>1, SameOrder
      <3>4. o[e] \in 0 .. (n - 1) /\ q[e] \in 0 .. (n - 1)
        BY <3>0 DEF StandsFor, LaidOut
      <3>5. Place(n, first, o[e]) \in Int /\ Place(n, first, q[e]) \in Int
        BY <3>4 DEF Place
      <3>6. o[e] = q[e]
        BY <3>2, <3>3, <3>4, <3>5, OnePlaceEach
      <3> QED BY <3>6 DEF e
    <2>2. \A j \in 1 .. (k + 1) : j \in 1 .. k \/ j = k + 1
      OBVIOUS
    <2> QED BY <1>2, <2>1, <2>2
  <1>3. Nat \subseteq G
    <2> HIDE DEF G
    <2> QED BY <1>1, <1>2, SetInduction
  <1>4. \A j \in Nat \ {0} : Same(j)
    BY <1>3
  <1>5. \A k \in 1 .. Len(l) : k \in 1 .. Len(m) => o[k] = q[k] /\ q[k] = o[k]
    BY <1>4
  <1>6. Len(m) <= Len(l) /\ Len(l) <= Len(m)
    <2>1. Len(m) <= Len(l)
      BY <1>5, NoLonger
    <2>2. Len(l) <= Len(m)
      BY <1>5, <1>0, NoLonger
    <2> QED BY <2>1, <2>2
  <1>7. Len(l) = Len(m)
    BY <1>0, <1>6
  <1>8. \A k \in 1 .. Len(l) : l[k] = m[k]
    <2>1. \A k \in 1 .. Len(l) : l[k] = Saved(cells[o[k]])
      BY DEF StandsFor, LaidOut
    <2>2. \A k \in 1 .. Len(m) : m[k] = Saved(cells[q[k]])
      BY DEF StandsFor, LaidOut
    <2>3. \A k \in 1 .. Len(l) : k \in 1 .. Len(m) /\ o[k] = q[k]
      BY <1>5, <1>7
    <2> QED BY <2>1, <2>2, <2>3
  <1> HIDE DEF G, Same
  <1>9. l \in Seq(Held) /\ m \in Seq(Held)
    BY <1>0
  <1> QED BY <1>7, <1>8, <1>9, SeqEqual

-----------------------------------------------------------------------------
(***************************************************************************)
(* ListOf is that list: by induction over the places.                      *)
(***************************************************************************)
\* The list of the k oldest cells, from the list of one cell less.
WithPlace(cells, n, first, list, k) ==
    IF ~Live(cells, CellAt(n, first + k - 1)) THEN list
    ELSE Append(list, Saved(cells[CellAt(n, first + k - 1)]))

Oldest(cells, n, first, h) ==
    \A k \in 0 .. n : h[k] = IF k = 0 THEN <<>> ELSE WithPlace(cells, n, first, h[k - 1], k)

LEMMA OldestExists ==
  ASSUME NEW n \in Nat, NEW first, NEW cells
  PROVE  \E h : Oldest(cells, n, first, h) /\ ListOf(cells, n, first) = h[n]
  <1> DEFINE Until(k, g) ==
               \A j \in 0 .. k : g[j] = IF j = 0 THEN <<>> ELSE WithPlace(cells, n, first, g[j - 1], j)
             G == {k \in Nat : \E g : Until(k, g)}
             h == CHOOSE g : g = [k \in 0 .. n |->
                                    IF k = 0 THEN <<>> ELSE WithPlace(cells, n, first, g[k - 1], k)]
  <1>1. 0 \in G
    <2>1. Until(0, [j \in 0 .. 0 |-> <<>>])
      OBVIOUS
    <2> QED BY <2>1
  <1>2. ASSUME NEW k \in Nat, k \in G PROVE k + 1 \in G
    <2>1. PICK g : Until(k, g)
      BY <1>2
    <2> DEFINE f == [j \in 0 .. k + 1 |-> IF j = k + 1 THEN WithPlace(cells, n, first, g[k], k + 1) ELSE g[j]]
    <2>2. Until(k + 1, f)
      <3>1. \A j \in 0 .. k : f[j] = g[j]
        OBVIOUS
      <3>2. f[k + 1] = WithPlace(cells, n, first, g[k], k + 1) /\ k + 1 - 1 = k
        OBVIOUS
      <3> HIDE DEF f
      <3> SUFFICES ASSUME NEW j \in 0 .. k + 1
                   PROVE  f[j] = IF j = 0 THEN <<>> ELSE WithPlace(cells, n, first, f[j - 1], j)
        OBVIOUS
      <3>3. CASE j = k + 1
        BY <3>1, <3>2, <3>3
      <3>4. CASE j \in 0 .. k
        <4>1. f[j] = g[j] /\ (j # 0 => f[j - 1] = g[j - 1])
          BY <3>1, <3>4
        <4> QED BY <2>1, <3>4, <4>1
      <3> QED BY <3>3, <3>4
    <2> HIDE DEF f
    <2>3. k + 1 \in Nat
      OBVIOUS
    <2>4. \E e : Until(k + 1, e)
      BY <2>2
    <2> QED BY <2>3, <2>4
  <1>3. Nat \subseteq G
    <2> HIDE DEF G
    <2> QED BY <1>1, <1>2, SetInduction
  <1>4. \E g : g = [k \in 0 .. n |->
                      IF k = 0 THEN <<>> ELSE WithPlace(cells, n, first, g[k - 1], k)]
    <2>1. PICK f : Until(n, f)
      BY <1>3
    <2> DEFINE g == [k \in 0 .. n |-> f[k]]
    <2>2. \A k \in 0 .. n : g[k] = IF k = 0 THEN <<>> ELSE WithPlace(cells, n, first, g[k - 1], k)
      BY <2>1
    <2>3. g = [k \in 0 .. n |-> IF k = 0 THEN <<>> ELSE WithPlace(cells, n, first, g[k - 1], k)]
      BY <2>2
    <2> QED BY <2>3
  <1>5. h = [k \in 0 .. n |-> IF k = 0 THEN <<>> ELSE WithPlace(cells, n, first, h[k - 1], k)]
    BY <1>4
  <1>6. ListOf(cells, n, first) = h[n]
    BY DEF ListOf, WithPlace
  <1> HIDE DEF h
  <1>7. Oldest(cells, n, first, h)
    BY <1>5 DEF Oldest
  <1> QED BY <1>6, <1>7

LEMMA OldestLaidOut ==
  ASSUME NEW n \in Nat, NEW cells \in [0 .. (n - 1) -> Cell], NEW first \in 0 .. n,
         NEW h, Oldest(cells, n, first, h)
  PROVE  \E order : StandsFor(cells, n, first, h[n], order)
  <1> DEFINE G == {k \in Nat : k <= n => \E order : LaidOut(cells, n, first, first + k, h[k], order)}
  <1>1. 0 \in G
    <2>1. h[0] = <<>>
      <3>1. 0 \in 0 .. n
        OBVIOUS
      <3> QED BY <3>1 DEF Oldest
    <2>2. LaidOut(cells, n, first, first, <<>>, [k \in 1 .. 0 |-> 0])
      <3>1. \A i \in 0 .. (n - 1) : ~(Place(n, first, i) < first)
        BY DEF Place
      <3> QED BY <3>1 DEF LaidOut
    <2> QED BY <2>1, <2>2
  <1>2. ASSUME NEW k \in Nat, k \in G PROVE k + 1 \in G
    <2> SUFFICES ASSUME k + 1 <= n
                 PROVE  \E order : LaidOut(cells, n, first, first + k + 1, h[k + 1], order)
      OBVIOUS
    <2>1. PICK order : LaidOut(cells, n, first, first + k, h[k], order)
      BY <1>2
    <2> DEFINE p == first + k
               c == CellAt(n, p)
               l == h[k]
    <2>2. p \in first .. (first + n - 1) /\ first + (k + 1) - 1 = p /\ first + k + 1 = p + 1
      OBVIOUS
    <2>3. c \in 0 .. (n - 1) /\ Place(n, first, c) = p
      BY <2>2, CellOfPlace
    <2>4. h[k + 1] = IF ~Live(cells, c) THEN l ELSE Append(l, Saved(cells[c]))
      <3>1. k + 1 \in 0 .. n /\ k + 1 # 0 /\ k + 1 - 1 = k
        OBVIOUS
      <3>2. h[k + 1] = WithPlace(cells, n, first, h[k], k + 1)
        BY <3>1 DEF Oldest
      <3> QED BY <2>2, <3>2 DEF WithPlace
    <2>5. LaidOut(cells, n, first, p, l, order)
      BY <2>1
    <2>6. \A i \in 0 .. (n - 1) : Place(n, first, i) < p + 1 => Place(n, first, i) < p \/ i = c
      <3> SUFFICES ASSUME NEW i \in 0 .. (n - 1), Place(n, first, i) < p + 1, ~(Place(n, first, i) < p)
                   PROVE  i = c
        OBVIOUS
      <3>1. Place(n, first, i) \in Int
        BY DEF Place
      <3>2. Place(n, first, i) = Place(n, first, c)
        BY <2>2, <2>3, <3>1
      <3> QED BY <2>3, <3>2, OnePlaceEach
    <2>7. \A i \in 0 .. (n - 1) : Place(n, first, i) < p => Place(n, first, i) < p + 1
      BY DEF Place
    <2> HIDE DEF c, l
    <2>8. CASE ~Live(cells, c)
      <3>1. LaidOut(cells, n, first, p + 1, l, order)
        BY <2>5, <2>6, <2>7, <2>8 DEF LaidOut
      <3> QED BY <2>2, <2>4, <2>8, <3>1
    <2>9. CASE Live(cells, c)
      <3> DEFINE m == Append(l, Saved(cells[c]))
                 o == [j \in 1 .. Len(l) + 1 |-> IF j = Len(l) + 1 THEN c ELSE order[j]]
      <3>1. l \in Seq(Held) /\ Len(l) \in Nat
        BY <2>5 DEF LaidOut
      <3>2. Saved(cells[c]) \in Held
        BY <2>3, <2>9 DEF Saved, Held, Live, Cell
      <3>3. /\ m \in Seq(Held) /\ Len(m) = Len(l) + 1 /\ m[Len(l) + 1] = Saved(cells[c])
            /\ \A j \in 1 .. Len(l) : m[j] = l[j]
        BY <3>1, <3>2
      <3>4. /\ o[Len(l) + 1] = c
            /\ \A j \in 1 .. Len(l) : o[j] = order[j]
        BY <3>1
      <3>5. o \in [1 .. Len(m) -> 0 .. (n - 1)]
        BY <2>3, <2>5, <3>1, <3>3 DEF LaidOut
      <3> HIDE DEF m, o
      <3>6. \A j \in 1 .. Len(m) : /\ Live(cells, o[j])
                                   /\ m[j] = Saved(cells[o[j]])
                                   /\ Place(n, first, o[j]) < p + 1
        <4> SUFFICES ASSUME NEW j \in 1 .. Len(m)
                     PROVE  /\ Live(cells, o[j])
                            /\ m[j] = Saved(cells[o[j]])
                            /\ Place(n, first, o[j]) < p + 1
          OBVIOUS
        <4>1. CASE j = Len(l) + 1
          BY <2>2, <2>3, <2>9, <3>3, <3>4, <4>1
        <4>2. CASE j \in 1 .. Len(l)
          <5>1. order[j] \in 0 .. (n - 1) /\ Live(cells, order[j]) /\ l[j] = Saved(cells[order[j]])
                /\ Place(n, first, order[j]) < p
            BY <2>5, <4>2 DEF LaidOut
          <5> QED BY <2>7, <3>3, <3>4, <4>2, <5>1
        <4> QED BY <3>1, <3>3, <4>1, <4>2
      <3>7. \A j, e \in 1 .. Len(m) : j < e => Place(n, first, o[j]) < Place(n, first, o[e])
        <4> SUFFICES ASSUME NEW j \in 1 .. Len(m), NEW e \in 1 .. Len(m), j < e
                     PROVE  Place(n, first, o[j]) < Place(n, first, o[e])
          OBVIOUS
        <4>0. j \in 1 .. Len(l)
          BY <3>1, <3>3
        <4>1. CASE e = Len(l) + 1
          BY <2>3, <2>5, <3>4, <4>0, <4>1 DEF LaidOut
        <4>2. CASE e \in 1 .. Len(l)
          BY <2>5, <3>4, <4>0, <4>2 DEF LaidOut
        <4> QED BY <3>1, <3>3, <4>1, <4>2
      <3>8. \A i \in 0 .. (n - 1) :
              Live(cells, i) /\ Place(n, first, i) < p + 1 => \E j \in 1 .. Len(m) : o[j] = i
        <4> SUFFICES ASSUME NEW i \in 0 .. (n - 1), Live(cells, i), Place(n, first, i) < p + 1
                     PROVE  \E j \in 1 .. Len(m) : o[j] = i
          OBVIOUS
        <4>1. CASE i = c
          BY <3>1, <3>3, <3>4, <4>1
        <4>2. CASE i # c
          <5>1. PICK j \in 1 .. Len(l) : order[j] = i
            BY <2>5, <2>6, <4>2 DEF LaidOut
          <5>2. j \in 1 .. Len(m)
            BY <3>1, <3>3
          <5> QED BY <3>4, <5>1, <5>2
        <4> QED BY <4>1, <4>2
      <3>9. LaidOut(cells, n, first, p + 1, m, o)
        BY <3>3, <3>5, <3>6, <3>7, <3>8 DEF LaidOut
      <3>10. h[k + 1] = m
        BY <2>4, <2>9 DEF m
      <3> QED BY <2>2, <3>9, <3>10
    <2> QED BY <2>8, <2>9
  <1>3. Nat \subseteq G
    <2> HIDE DEF G
    <2> QED BY <1>1, <1>2, SetInduction
  <1>4. \E order : LaidOut(cells, n, first, first + n, h[n], order)
    BY <1>3
  <1> QED BY <1>4 DEF StandsFor

\* There is a layout of ListOf.
LEMMA ListIsLaidOut ==
  ASSUME NEW n \in Nat, NEW cells \in [0 .. (n - 1) -> Cell], NEW first \in 0 .. n
  PROVE  \E order : StandsFor(cells, n, first, ListOf(cells, n, first), order)
  <1>1. PICK h : Oldest(cells, n, first, h) /\ ListOf(cells, n, first) = h[n]
    BY OldestExists
  <1>2. \E order : StandsFor(cells, n, first, h[n], order)
    BY <1>1, OldestLaidOut
  <1> QED BY <1>1, <1>2

\* And it is the only list with one.
LEMMA ListIs ==
  ASSUME NEW n \in Nat, NEW cells \in [0 .. (n - 1) -> Cell], NEW first \in 0 .. n,
         NEW l, NEW o, StandsFor(cells, n, first, l, o)
  PROVE  ListOf(cells, n, first) = l
  BY ListIsLaidOut, OneList

-----------------------------------------------------------------------------
(***************************************************************************)
(* How the list follows the cells: another numbering of the places, a cell *)
(* freed, a cell filled.                                                   *)
(***************************************************************************)
\* The cells kept by new, of those of old, hold what they held.
Keeps(old, new, n, kept) ==
    /\ \A i \in 0 .. (n - 1) : Live(new, i) <=> i \in kept
    /\ \A i \in kept : Saved(new[i]) = Saved(old[i])

LiveOf(cells, n) == {i \in 0 .. (n - 1) : Live(cells, i)}

\* Cells that keep their order stand for the same list.
LEMMA Renumbered ==
  ASSUME NEW n \in Nat, NEW cells, NEW first \in 0 .. n, NEW l, NEW o,
         StandsFor(cells, n, first, l, o),
         NEW to \in Nat, n <= to, NEW start \in 0 .. to, NEW new,
         \/ n = 0
         \/ start = first
         \/ start = 0 /\ first = n /\ to = n,
         Keeps(cells, new, to, LiveOf(cells, n))
  PROVE  StandsFor(new, to, start, l, o)
  <1>1. \A i, j \in 0 .. (n - 1) :
          Place(n, first, i) < Place(n, first, j) => Place(to, start, i) < Place(to, start, j)
    BY DEF Place
  <1>2. \A i \in 0 .. (to - 1) : Place(to, start, i) < start + to
    BY DEF Place
  <1>3. \A i \in 0 .. (n - 1) : i \in 0 .. (to - 1) /\ Place(n, first, i) < first + n
    BY DEF Place
  <1>4. \A i \in 0 .. (to - 1) : Live(new, i) => i \in 0 .. (n - 1) /\ Live(cells, i)
    BY DEF Keeps, LiveOf
  <1>5. \A i \in 0 .. (n - 1) : Live(cells, i) => Live(new, i) /\ Saved(new[i]) = Saved(cells[i])
    BY <1>3 DEF Keeps, LiveOf
  <1>6. /\ l \in Seq(Held)
        /\ o \in [1 .. Len(l) -> 0 .. (n - 1)]
        /\ \A k \in 1 .. Len(l) : Live(cells, o[k]) /\ l[k] = Saved(cells[o[k]])
        /\ \A j, k \in 1 .. Len(l) : j < k => Place(n, first, o[j]) < Place(n, first, o[k])
        /\ \A i \in 0 .. (n - 1) :
             Live(cells, i) /\ Place(n, first, i) < first + n => \E k \in 1 .. Len(l) : o[k] = i
    BY DEF StandsFor, LaidOut
  <1>7. \A k \in 1 .. Len(l) : o[k] \in 0 .. (n - 1) /\ o[k] \in 0 .. (to - 1)
    BY <1>3, <1>6
  <1>8. o \in [1 .. Len(l) -> 0 .. (to - 1)]
    BY <1>6, <1>7
  <1>9. \A k \in 1 .. Len(l) : /\ Live(new, o[k])
                               /\ l[k] = Saved(new[o[k]])
                               /\ Place(to, start, o[k]) < start + to
    BY <1>2, <1>5, <1>6, <1>7
  <1>10. \A j, k \in 1 .. Len(l) : j < k => Place(to, start, o[j]) < Place(to, start, o[k])
    BY <1>1, <1>6, <1>7
  <1>11. \A i \in 0 .. (to - 1) :
           Live(new, i) /\ Place(to, start, i) < start + to => \E k \in 1 .. Len(l) : o[k] = i
    BY <1>3, <1>4, <1>6
  <1> QED BY <1>6, <1>8, <1>9, <1>10, <1>11 DEF StandsFor, LaidOut

\* A freed cell takes its entry out of the list.
LEMMA CellFreed ==
  ASSUME NEW n \in Nat, NEW cells, NEW first \in 0 .. n, NEW l, NEW o,
         StandsFor(cells, n, first, l, o),
         NEW k \in 1 .. Len(l), NEW new,
         Keeps(cells, new, n, LiveOf(cells, n) \ {o[k]})
  PROVE  \E q : StandsFor(new, n, first, RemoveAt(l, k), q)
  <1> DEFINE m == RemoveAt(l, k)
             L == Len(l)
             At(e) == IF e < k THEN e ELSE e + 1
             q == [e \in 1 .. L - 1 |-> o[At(e)]]
  <1>1. /\ l \in Seq(Held) /\ L \in Nat
        /\ o \in [1 .. L -> 0 .. (n - 1)]
        /\ \A e \in 1 .. L : /\ Live(cells, o[e]) /\ l[e] = Saved(cells[o[e]])
                             /\ Place(n, first, o[e]) < first + n
        /\ \A d, e \in 1 .. L : d < e => Place(n, first, o[d]) < Place(n, first, o[e])
        /\ \A i \in 0 .. (n - 1) :
             Live(cells, i) /\ Place(n, first, i) < first + n => \E e \in 1 .. L : o[e] = i
    BY DEF StandsFor, LaidOut
  <1>2. /\ m \in Seq(Held) /\ Len(m) = L - 1
        /\ \A e \in 1 .. L - 1 : m[e] = IF e < k THEN l[e] ELSE l[e + 1]
    BY <1>1, RemovedAt
  <1>3. \A e \in 1 .. L - 1 : At(e) \in 1 .. L /\ At(e) # k /\ m[e] = l[At(e)] /\ q[e] = o[At(e)]
    BY <1>1, <1>2
  <1>4. \A d, e \in 1 .. L - 1 : d < e => At(d) < At(e)
    BY <1>1
  <1>5. \A e \in 1 .. L : e # k => \E d \in 1 .. L - 1 : At(d) = e
    <2> SUFFICES ASSUME NEW e \in 1 .. L, e # k PROVE \E d \in 1 .. L - 1 : At(d) = e
      OBVIOUS
    <2>1. CASE e < k
      <3>1. e \in 1 .. L - 1 /\ At(e) = e
        BY <1>1, <2>1
      <3> QED BY <3>1
    <2>2. CASE k < e
      <3>1. e - 1 \in 1 .. L - 1 /\ At(e - 1) = e
        BY <1>1, <2>2
      <3> QED BY <3>1
    <2> QED BY <1>1, <2>1, <2>2
  <1>6. \A d, e \in 1 .. L : d # e => o[d] # o[e]
    <2> SUFFICES ASSUME NEW d \in 1 .. L, NEW e \in 1 .. L, d # e, o[d] = o[e] PROVE FALSE
      OBVIOUS
    <2>1. Place(n, first, o[d]) \in Int
      BY <1>1 DEF Place
    <2>2. d < e \/ e < d
      BY <1>1
    <2> QED BY <1>1, <2>1, <2>2
  <1>7. q \in [1 .. L - 1 -> 0 .. (n - 1)]
    BY <1>1, <1>3
  <1> HIDE DEF m, q, At
  <1>8. \A e \in 1 .. L - 1 : /\ Live(new, q[e])
                              /\ m[e] = Saved(new[q[e]])
                              /\ Place(n, first, q[e]) < first + n
    <2> SUFFICES ASSUME NEW e \in 1 .. L - 1
                 PROVE  /\ Live(new, q[e])
                        /\ m[e] = Saved(new[q[e]])
                        /\ Place(n, first, q[e]) < first + n
      OBVIOUS
    <2>1. At(e) \in 1 .. L /\ q[e] = o[At(e)] /\ q[e] # o[k] /\ m[e] = l[At(e)]
      BY <1>3, <1>6
    <2>2. q[e] \in LiveOf(cells, n) \ {o[k]}
      BY <1>1, <2>1 DEF LiveOf
    <2> QED BY <1>1, <2>1, <2>2 DEF Keeps, LiveOf
  <1>9. \A d, e \in 1 .. L - 1 : d < e => Place(n, first, q[d]) < Place(n, first, q[e])
    BY <1>1, <1>3, <1>4
  <1>10. \A i \in 0 .. (n - 1) :
           Live(new, i) /\ Place(n, first, i) < first + n => \E e \in 1 .. L - 1 : q[e] = i
    <2> SUFFICES ASSUME NEW i \in 0 .. (n - 1), Live(new, i), Place(n, first, i) < first + n
                 PROVE  \E e \in 1 .. L - 1 : q[e] = i
      OBVIOUS
    <2>1. Live(cells, i) /\ i # o[k]
      BY DEF Keeps, LiveOf
    <2>2. PICK d \in 1 .. L : o[d] = i
      BY <1>1, <2>1
    <2>3. PICK e \in 1 .. L - 1 : At(e) = d
      BY <1>5, <2>1, <2>2
    <2> QED BY <1>3, <2>2, <2>3
  <1>11. StandsFor(new, n, first, m, q)
    BY <1>2, <1>7, <1>8, <1>9, <1>10 DEF StandsFor, LaidOut
  <1> QED BY <1>11 DEF m

\* The cell at head, filled and passed, adds its entry to the end.
LEMMA CellFilled ==
  ASSUME NEW n \in Nat, NEW cells, NEW first \in 0 .. (n - 1), NEW l, NEW o,
         StandsFor(cells, n, first, l, o), ~Live(cells, first),
         NEW new, Live(new, first), Saved(new[first]) \in Held,
         \A i \in 0 .. (n - 1) : i # first => (Live(new, i) <=> Live(cells, i)),
         \A i \in LiveOf(cells, n) : Saved(new[i]) = Saved(cells[i])
  PROVE  \E q : StandsFor(new, n, first + 1, Append(l, Saved(new[first])), q)
  <1> DEFINE e == Saved(new[first])
             m == Append(l, e)
             L == Len(l)
             q == [k \in 1 .. L + 1 |-> IF k = L + 1 THEN first ELSE o[k]]
  <1>1. /\ l \in Seq(Held) /\ L \in Nat
        /\ o \in [1 .. L -> 0 .. (n - 1)]
        /\ \A k \in 1 .. L : Live(cells, o[k]) /\ l[k] = Saved(cells[o[k]])
        /\ \A j, k \in 1 .. L : j < k => Place(n, first, o[j]) < Place(n, first, o[k])
        /\ \A i \in 0 .. (n - 1) :
             Live(cells, i) /\ Place(n, first, i) < first + n => \E k \in 1 .. L : o[k] = i
    BY DEF StandsFor, LaidOut
  <1>2. /\ m \in Seq(Held) /\ Len(m) = L + 1 /\ m[L + 1] = e
        /\ \A k \in 1 .. L : m[k] = l[k]
    BY <1>1
  <1>3. q[L + 1] = first /\ \A k \in 1 .. L : q[k] = o[k]
    BY <1>1
  <1>4. q \in [1 .. L + 1 -> 0 .. (n - 1)]
    BY <1>1
  <1> HIDE DEF m, q
  <1>5. /\ \A i \in 0 .. (n - 1) : i # first => /\ Place(n, first + 1, i) = Place(n, first, i)
                                                /\ Place(n, first + 1, i) < first + n
        /\ Place(n, first + 1, first) = first + n
        /\ \A i \in 0 .. (n - 1) : Place(n, first, i) < first + n
    BY DEF Place
  <1>6. \A k \in 1 .. L : /\ q[k] \in 0 .. (n - 1) /\ q[k] # first
                          /\ Live(new, q[k]) /\ m[k] = Saved(new[q[k]])
    <2> SUFFICES ASSUME NEW k \in 1 .. L
                 PROVE  /\ q[k] \in 0 .. (n - 1) /\ q[k] # first
                        /\ Live(new, q[k]) /\ m[k] = Saved(new[q[k]])
      OBVIOUS
    <2>1. q[k] = o[k] /\ m[k] = l[k]
      BY <1>2, <1>3
    <2>2. o[k] \in 0 .. (n - 1) /\ Live(cells, o[k]) /\ l[k] = Saved(cells[o[k]])
      BY <1>1
    <2>3. o[k] # first /\ o[k] \in LiveOf(cells, n)
      BY <2>2 DEF LiveOf
    <2> QED BY <2>1, <2>2, <2>3
  <1>7. \A k \in 1 .. L + 1 : k \in 1 .. L \/ k = L + 1
    <2>1. \A x \in Nat : \A k \in 1 .. x + 1 : k \in 1 .. x \/ k = x + 1
      OBVIOUS
    <2> QED BY <1>1, <2>1
  <1>8. \A k \in 1 .. L + 1 : /\ Live(new, q[k])
                              /\ m[k] = Saved(new[q[k]])
                              /\ Place(n, first + 1, q[k]) < first + 1 + n
    <2> SUFFICES ASSUME NEW k \in 1 .. L + 1
                 PROVE  /\ Live(new, q[k])
                        /\ m[k] = Saved(new[q[k]])
                        /\ Place(n, first + 1, q[k]) < first + 1 + n
      OBVIOUS
    <2>1. CASE k = L + 1
      BY <1>2, <1>3, <1>5, <2>1
    <2>2. CASE k \in 1 .. L
      <3>1. Place(n, first + 1, q[k]) < first + n /\ Place(n, first + 1, q[k]) \in Int
        BY <1>5, <1>6, <2>2 DEF Place
      <3> QED BY <1>6, <2>2, <3>1
    <2> QED BY <1>7, <2>1, <2>2
  <1>9. \A j, k \in 1 .. L + 1 : j < k => Place(n, first + 1, q[j]) < Place(n, first + 1, q[k])
    <2> SUFFICES ASSUME NEW j \in 1 .. L + 1, NEW k \in 1 .. L + 1, j < k
                 PROVE  Place(n, first + 1, q[j]) < Place(n, first + 1, q[k])
      OBVIOUS
    <2>0. j \in 1 .. L
      BY <1>1
    <2>1. CASE k = L + 1
      BY <1>3, <1>5, <1>6, <2>0, <2>1
    <2>2. CASE k \in 1 .. L
      <3>1. Place(n, first, q[j]) < Place(n, first, q[k])
        BY <1>1, <1>3, <2>0, <2>2
      <3>2. /\ Place(n, first + 1, q[j]) = Place(n, first, q[j])
            /\ Place(n, first + 1, q[k]) = Place(n, first, q[k])
        BY <1>5, <1>6, <2>0, <2>2
      <3> QED BY <3>1, <3>2
    <2> QED BY <1>7, <2>1, <2>2
  <1>10. \A i \in 0 .. (n - 1) :
           Live(new, i) /\ Place(n, first + 1, i) < first + 1 + n => \E k \in 1 .. L + 1 : q[k] = i
    <2> SUFFICES ASSUME NEW i \in 0 .. (n - 1), Live(new, i)
                 PROVE  \E k \in 1 .. L + 1 : q[k] = i
      OBVIOUS
    <2>1. CASE i = first
      <3>1. L + 1 \in 1 .. L + 1
        BY <1>1
      <3> QED BY <1>3, <2>1, <3>1
    <2>2. CASE i # first
      <3>1. PICK k \in 1 .. L : o[k] = i
        BY <1>1, <1>5, <2>2
      <3>2. k \in 1 .. L + 1
        BY <1>1
      <3> QED BY <1>3, <3>1, <3>2
    <2> QED BY <2>1, <2>2
  <1>11. StandsFor(new, n, first + 1, m, q)
    BY <1>2, <1>4, <1>8, <1>9, <1>10 DEF StandsFor, LaidOut
  <1> QED BY <1>11 DEF m

-----------------------------------------------------------------------------
(***************************************************************************)
(* The chains run from the newest status of their bucket to the oldest.    *)
(***************************************************************************)
Descending(cells, n, first) ==
    \A i \in 0 .. (n - 1) :
      Live(cells, i) /\ cells[i].next # NoPidStat =>
        Place(n, first, cells[i].next) < Place(n, first, i)

LEMMA GrowDescends ==
  ASSUME TypeOK, Linked, Descending(storage, nalloc, head)
  PROVE  Descending(NewCells, NewAlloc, GetIndex)
  <1>1. /\ NewAlloc \in nalloc .. MAX_CHILD_MAX /\ nalloc \in Nat /\ head \in 0 .. nalloc
        /\ GetIndex \in 0 .. (NewAlloc - 1)
    BY NewAllocType, SizeAssumption DEF TypeOK
  <1>2. NewAlloc \in Nat
    BY <1>1, SizeAssumption
  <1>3. nalloc = 0 \/ GetIndex = head \/ (GetIndex = 0 /\ head = nalloc /\ NewAlloc = nalloc)
    BY <1>1 DEF GetIndex, NewAlloc
  <1>4. \A i, j \in 0 .. (nalloc - 1) :
          Place(nalloc, head, i) < Place(nalloc, head, j)
            => Place(NewAlloc, GetIndex, i) < Place(NewAlloc, GetIndex, j)
    <2> DEFINE n == nalloc
               t == NewAlloc
               g == GetIndex
    <2>1. n \in Nat /\ t \in Nat /\ n <= t /\ g \in 0 .. t - 1 /\ head \in 0 .. n
          /\ (n = 0 \/ g = head \/ (g = 0 /\ head = n /\ t = n))
      BY <1>1, <1>2, <1>3
    <2> HIDE DEF n, t, g
    <2>2. \A i, j \in 0 .. (n - 1) : Place(n, head, i) < Place(n, head, j) => Place(t, g, i) < Place(t, g, j)
      BY <2>1 DEF Place
    <2> QED BY <2>2 DEF n, t, g
  <1> SUFFICES ASSUME NEW i \in 0 .. (NewAlloc - 1), Live(NewCells, i), NewCells[i].next # NoPidStat
               PROVE  Place(NewAlloc, GetIndex, NewCells[i].next) < Place(NewAlloc, GetIndex, i)
    BY DEF Descending
  <1>5. i \in 0 .. (nalloc - 1) /\ Live(storage, i) /\ NewCells[i] = storage[i]
    BY <1>1, <1>2, GrowOK DEF NewCells
  <1>6. NextOK(storage, i) /\ DOMAIN storage = 0 .. (nalloc - 1)
    BY <1>5 DEF Linked, LinksOK, TypeOK
  <1>7. storage[i].next \in 0 .. (nalloc - 1)
    BY <1>5, <1>6 DEF NextOK
  <1>8. Place(nalloc, head, storage[i].next) < Place(nalloc, head, i)
    BY <1>5 DEF Descending
  <1> QED BY <1>4, <1>5, <1>7, <1>8

LEMMA UnlinkDescends ==
  ASSUME NEW n \in 0 .. MAX_CHILD_MAX,
         NEW cells \in [0 .. (n - 1) -> Cell],
         NEW table \in TableType,
         LinksOK(cells, table),
         NEW i \in 0 .. (n - 1),
         NEW first \in 0 .. n,
         Descending(cells, n, first)
  PROVE  Descending(UnlinkCells(cells, i), n, first)
  <1>1. CASE ~Live(cells, i)
    BY <1>1 DEF UnlinkCells
  <1>2. CASE Live(cells, i)
    <2> DEFINE C == UnlinkCells(cells, i)
    <2> SUFFICES ASSUME NEW j \in 0 .. (n - 1), Live(C, j), C[j].next # NoPidStat
                 PROVE  Place(n, first, C[j].next) < Place(n, first, j)
      BY DEF Descending
    <2>1. Live(cells, j) /\ j # i
      BY UnlinkOK
    <2>2. C[j].next = IF j = cells[i].prev THEN cells[i].next ELSE cells[j].next
      BY <1>2, <2>1 DEF UnlinkCells
    <2> HIDE DEF C
    <2>3. CASE j # cells[i].prev
      BY <2>1, <2>2, <2>3 DEF Descending
    <2>4. CASE j = cells[i].prev
      <3>1. PrevOK(cells, table, i) /\ NextOK(cells, i) /\ j # NoPidStat
        BY <1>2 DEF LinksOK, NoPidStat
      <3>2. cells[j].next = i /\ i # NoPidStat
        BY <2>4, <3>1 DEF PrevOK, NoPidStat
      <3>3. Place(n, first, i) < Place(n, first, j)
        BY <2>1, <3>2 DEF Descending
      <3>4. cells[i].next # NoPidStat /\ C[j].next = cells[i].next
        BY <2>2, <2>4
      <3>5. Place(n, first, cells[i].next) < Place(n, first, i)
        BY <1>2, <3>4 DEF Descending
      <3>6. cells[i].next \in 0 .. (n - 1)
        BY <3>1, <3>4 DEF NextOK
      <3> QED BY <3>3, <3>4, <3>5, <3>6, SizeAssumption DEF Place
    <2> QED BY <2>3, <2>4
  <1> QED BY <1>1, <1>2

LEMMA LinkDescends ==
  ASSUME NEW n \in 0 .. MAX_CHILD_MAX,
         NEW cells \in [0 .. (n - 1) -> Cell],
         NEW table \in TableType,
         LinksOK(cells, table),
         NEW i \in 0 .. (n - 1),
         ~Live(cells, i),
         Descending(cells, n, i),
         NEW pid \in Pids, NEW status \in Statuses
  PROVE  Descending(LinkCells(cells, table, i, pid, status), n, i + 1)
  <1> DEFINE C == LinkCells(cells, table, i, pid, status)
  <1>0. n \in Nat /\ i \in Nat
    BY SizeAssumption
  <1> SUFFICES ASSUME NEW j \in 0 .. (n - 1), Live(C, j), C[j].next # NoPidStat
               PROVE  Place(n, i + 1, C[j].next) < Place(n, i + 1, j)
    BY DEF Descending
  <1>1. /\ \A k \in 0 .. (n - 1) : k # i => /\ Place(n, i + 1, k) = Place(n, i, k)
                                            /\ Place(n, i + 1, k) < i + n
        /\ Place(n, i + 1, i) = i + n
    BY <1>0 DEF Place
  <1>2. CASE j = i
    <2>1. C[j].next = table[Hash[pid]] /\ Hash[pid] \in Buckets
      BY <1>2, DataAssumption DEF LinkCells
    <2>2. FirstOK(cells, table, Hash[pid])
      BY <2>1 DEF LinksOK
    <2>3. C[j].next \in 0 .. (n - 1) /\ C[j].next # i
      BY <2>1, <2>2 DEF FirstOK
    <2> QED BY <1>1, <1>2, <2>3
  <1>3. CASE j # i
    <2>1. C[j].next = cells[j].next
      BY <1>3 DEF LinkCells
    <2>2. Live(cells, j)
      BY <1>3 DEF LinkCells, Live
    <2>3. NextOK(cells, j)
      BY <2>2 DEF LinksOK
    <2>4. cells[j].next \in 0 .. (n - 1) /\ cells[j].next # i
      BY <2>1, <2>3 DEF NextOK
    <2>5. Place(n, i, cells[j].next) < Place(n, i, j)
      BY <2>1, <2>2 DEF Descending
    <2> QED BY <1>1, <1>3, <2>1, <2>4, <2>5
  <1> QED BY <1>2, <1>3

-----------------------------------------------------------------------------
(***************************************************************************)
(* The walk along a chain.                                                 *)
(***************************************************************************)
Hops(h, pid) ==
    \A k \in 0 .. nalloc :
      h[k] = IF k = 0 THEN pidstat_table[Hash[pid]]
             ELSE IF h[k - 1] = NoPidStat THEN NoPidStat
             ELSE storage[h[k - 1]].next

LEMMA ChainHops ==
  ASSUME nalloc \in Nat, NEW pid
  PROVE  Hops(Chain(pid), pid)
  <1> DEFINE Hop(k, g) == IF k = 0 THEN pidstat_table[Hash[pid]]
                          ELSE IF g[k - 1] = NoPidStat THEN NoPidStat
                          ELSE storage[g[k - 1]].next
             Until(k, g) == \A j \in 0 .. k : g[j] = Hop(j, g)
             G == {k \in Nat : \E g : Until(k, g)}
             h == CHOOSE g : g = [k \in 0 .. nalloc |->
                                    IF k = 0 THEN pidstat_table[Hash[pid]]
                                    ELSE IF g[k - 1] = NoPidStat THEN NoPidStat
                                    ELSE storage[g[k - 1]].next]
  <1>1. 0 \in G
    <2> DEFINE f == [j \in 0 .. 0 |-> pidstat_table[Hash[pid]]]
    <2>1. Until(0, f)
      OBVIOUS
    <2> HIDE DEF f
    <2>2. \E e : Until(0, e)
      BY <2>1
    <2> QED BY <2>2
  <1>2. ASSUME NEW k \in Nat, k \in G PROVE k + 1 \in G
    <2>1. PICK g : Until(k, g)
      BY <1>2
    <2> DEFINE f == [j \in 0 .. k + 1 |-> IF j = k + 1 THEN Hop(k + 1, g) ELSE g[j]]
    <2>2. \A j \in 0 .. k : f[j] = g[j]
      OBVIOUS
    <2>3. f[k + 1] = Hop(k + 1, g) /\ k + 1 - 1 = k /\ k + 1 # 0
      OBVIOUS
    <2> HIDE DEF f
    <2>4. Until(k + 1, f)
      <3> SUFFICES ASSUME NEW j \in 0 .. k + 1 PROVE f[j] = Hop(j, f)
        OBVIOUS
      <3>3. CASE j = k + 1
        BY <2>2, <2>3, <3>3
      <3>4. CASE j \in 0 .. k
        <4>1. f[j] = g[j] /\ (j # 0 => f[j - 1] = g[j - 1])
          BY <2>2, <3>4
        <4> QED BY <2>1, <3>4, <4>1
      <3> QED BY <3>3, <3>4
    <2>5. k + 1 \in Nat
      OBVIOUS
    <2>6. \E e : Until(k + 1, e)
      BY <2>4
    <2> QED BY <2>5, <2>6
  <1>3. Nat \subseteq G
    <2> HIDE DEF G
    <2> QED BY <1>1, <1>2, SetInduction
  <1>4. \E g : g = [k \in 0 .. nalloc |->
                      IF k = 0 THEN pidstat_table[Hash[pid]]
                      ELSE IF g[k - 1] = NoPidStat THEN NoPidStat
                      ELSE storage[g[k - 1]].next]
    <2>1. PICK f : Until(nalloc, f)
      BY <1>3
    <2> DEFINE g == [k \in 0 .. nalloc |-> f[k]]
    <2>2. \A k \in 0 .. nalloc : g[k] = Hop(k, g)
      BY <2>1
    <2>3. g = [k \in 0 .. nalloc |-> IF k = 0 THEN pidstat_table[Hash[pid]]
                                     ELSE IF g[k - 1] = NoPidStat THEN NoPidStat
                                     ELSE storage[g[k - 1]].next]
      BY <2>2
    <2> QED BY <2>3
  <1>5. h = [k \in 0 .. nalloc |-> IF k = 0 THEN pidstat_table[Hash[pid]]
                                   ELSE IF h[k - 1] = NoPidStat THEN NoPidStat
                                   ELSE storage[h[k - 1]].next]
    BY <1>4
  <1>6. Chain(pid) = h
    BY DEF Chain
  <1> HIDE DEF h
  <1> QED BY <1>5, <1>6 DEF Hops

InBucket(i, pid) == i \in 0 .. (nalloc - 1) /\ Live(storage, i) /\ BucketOf(storage, i) = Hash[pid]

\* Each hop but the last leads to an older cell of the bucket.
Passed(h, pid, k) ==
    h[k] # NoPidStat =>
      /\ InBucket(h[k], pid)
      /\ Place(nalloc, head, h[k]) + k < head + nalloc
      /\ \A m \in 0 .. (k - 1) : /\ h[m] \in 0 .. (nalloc - 1)
                                 /\ Place(nalloc, head, h[k]) < Place(nalloc, head, h[m])

LEMMA WalkDescends ==
  ASSUME Inv, nalloc # 0, Descending(storage, nalloc, head),
         NEW pid \in Pids, NEW h, Hops(h, pid)
  PROVE  \A k \in 0 .. nalloc : Passed(h, pid, k)
  <1>0. /\ nalloc \in Nat /\ head \in 0 .. nalloc /\ Hash[pid] \in Buckets
        /\ DOMAIN storage = 0 .. (nalloc - 1) /\ LinksOK(storage, pidstat_table)
    BY DataAssumption, SizeAssumption DEF Inv, TypeOK, Linked
  <1> DEFINE G == {k \in Nat : k <= nalloc => Passed(h, pid, k)}
  <1>1. 0 \in G
    <2>1. h[0] = pidstat_table[Hash[pid]]
      <3>1. 0 \in 0 .. nalloc
        BY <1>0
      <3> QED BY <3>1 DEF Hops
    <2>2. FirstOK(storage, pidstat_table, Hash[pid])
      BY <1>0 DEF LinksOK
    <2>3. h[0] # NoPidStat => InBucket(h[0], pid)
      BY <1>0, <2>1, <2>2 DEF FirstOK, InBucket
    <2>4. h[0] # NoPidStat => Place(nalloc, head, h[0]) + 0 < head + nalloc
      BY <1>0, <2>3 DEF InBucket, Place
    <2>5. Passed(h, pid, 0)
      BY <2>3, <2>4 DEF Passed
    <2> QED BY <2>5
  <1>2. ASSUME NEW k \in Nat, k \in G PROVE k + 1 \in G
    <2> SUFFICES ASSUME k + 1 <= nalloc, h[k + 1] # NoPidStat PROVE Passed(h, pid, k + 1)
      BY DEF Passed
    <2>0. k \in 0 .. nalloc /\ k + 1 \in 0 .. nalloc /\ k + 1 - 1 = k /\ k + 1 # 0 /\ Passed(h, pid, k)
      BY <1>0, <1>2
    <2> DEFINE i == h[k]
               j == h[k + 1]
    <2>1. h[k + 1] = IF h[k] = NoPidStat THEN NoPidStat ELSE storage[h[k]].next
      BY <2>0 DEF Hops
    <2>2. i # NoPidStat /\ j = storage[i].next
      BY <2>1
    <2>3. /\ InBucket(i, pid)
          /\ Place(nalloc, head, i) + k < head + nalloc
          /\ \A m \in 0 .. (k - 1) : /\ h[m] \in 0 .. (nalloc - 1)
                                     /\ Place(nalloc, head, i) < Place(nalloc, head, h[m])
      BY <2>0, <2>2 DEF Passed
    <2>4. NextOK(storage, i)
      BY <1>0, <2>3 DEF LinksOK, InBucket
    <2>5. InBucket(j, pid)
      BY <1>0, <2>2, <2>3, <2>4 DEF NextOK, InBucket
    <2>6. Place(nalloc, head, j) < Place(nalloc, head, i)
      BY <2>2, <2>3 DEF Descending, InBucket
    <2>7. \A c \in 0 .. (nalloc - 1) : Place(nalloc, head, c) \in Int
      BY <1>0 DEF Place
    <2>8. Place(nalloc, head, i) \in Int /\ Place(nalloc, head, j) \in Int
      BY <2>3, <2>5, <2>7 DEF InBucket
    <2>9. Place(nalloc, head, j) + (k + 1) < head + nalloc
      BY <1>0, <2>3, <2>6, <2>8
    <2>10. \A m \in 0 .. k : h[m] \in 0 .. (nalloc - 1) /\ Place(nalloc, head, j) < Place(nalloc, head, h[m])
      <3> SUFFICES ASSUME NEW m \in 0 .. k
                   PROVE  h[m] \in 0 .. (nalloc - 1) /\ Place(nalloc, head, j) < Place(nalloc, head, h[m])
        OBVIOUS
      <3>1. CASE m = k
        BY <2>3, <2>6, <3>1 DEF InBucket
      <3>2. CASE m \in 0 .. (k - 1)
        <4>1. h[m] \in 0 .. (nalloc - 1) /\ Place(nalloc, head, i) < Place(nalloc, head, h[m])
          BY <2>3, <3>2
        <4>2. Place(nalloc, head, h[m]) \in Int
          BY <2>7, <4>1
        <4> QED BY <2>6, <2>8, <4>1, <4>2
      <3> QED BY <3>1, <3>2
    <2>11. Passed(h, pid, k + 1)
      BY <2>0, <2>5, <2>9, <2>10 DEF Passed
    <2> QED BY <2>11
  <1>3. Nat \subseteq G
    <2> HIDE DEF G
    <2> QED BY <1>1, <1>2, SetInduction
  <1> QED BY <1>0, <1>3

LEMMA WalkReaches ==
  ASSUME Inv, nalloc # 0, Descending(storage, nalloc, head),
         NEW pid \in Pids, NEW h, Hops(h, pid), NEW c, InBucket(c, pid)
  PROVE  \E k \in 0 .. nalloc : h[k] = c
  <1>0. /\ nalloc \in Nat /\ head \in 0 .. nalloc
        /\ DOMAIN storage = 0 .. (nalloc - 1) /\ LinksOK(storage, pidstat_table)
    BY SizeAssumption DEF Inv, TypeOK, Linked
  <1> DEFINE Depth(i) == head + nalloc - Place(nalloc, head, i)
             G == {d \in Nat : \A i : InBucket(i, pid) /\ Depth(i) <= d => \E k \in 0 .. nalloc : h[k] = i}
  <1>1. \A i : InBucket(i, pid) => Depth(i) \in 1 .. nalloc
    BY <1>0 DEF InBucket, Place
  <1>2. 0 \in G
    BY <1>1
  <1>3. ASSUME NEW d \in Nat, d \in G PROVE d + 1 \in G
    <2> SUFFICES ASSUME NEW i, InBucket(i, pid), Depth(i) <= d + 1
                 PROVE  \E k \in 0 .. nalloc : h[k] = i
      OBVIOUS
    <2>1. PrevOK(storage, pidstat_table, i)
      BY <1>0 DEF LinksOK, InBucket
    <2>2. CASE storage[i].prev = NoPidStat
      <3>1. pidstat_table[Hash[pid]] = i
        BY <2>1, <2>2 DEF PrevOK, InBucket
      <3>2. 0 \in 0 .. nalloc
        BY <1>0
      <3>3. h[0] = i
        BY <3>1, <3>2 DEF Hops
      <3> QED BY <3>2, <3>3
    <2>3. CASE storage[i].prev # NoPidStat
      <3> DEFINE p == storage[i].prev
      <3>1. p \in 0 .. (nalloc - 1) /\ Live(storage, p) /\ storage[p].next = i
        BY <1>0, <2>1, <2>3 DEF PrevOK
      <3>2. NextOK(storage, p) /\ i # NoPidStat
        BY <1>0, <3>1 DEF LinksOK, InBucket, NoPidStat
      <3>3. InBucket(p, pid)
        BY <3>1, <3>2 DEF NextOK, InBucket
      <3>4. Place(nalloc, head, i) < Place(nalloc, head, p)
        BY <3>1, <3>2 DEF Descending
      <3>5. Place(nalloc, head, i) \in Int /\ Place(nalloc, head, p) \in Int
        BY <1>0, <3>1 DEF InBucket, Place
      <3>6. Depth(p) <= d
        BY <1>0, <3>4, <3>5
      <3>7. PICK k \in 0 .. nalloc : h[k] = p
        BY <1>3, <3>3, <3>6
      <3>8. Passed(h, pid, k)
        BY WalkDescends
      <3>9. Place(nalloc, head, p) + k < head + nalloc
        BY <2>3, <3>7, <3>8 DEF Passed
      <3>10. head <= Place(nalloc, head, i)
        BY <1>0, <3>5 DEF InBucket, Place
      <3>11. k + 1 \in 0 .. nalloc /\ k + 1 # 0 /\ k + 1 - 1 = k
        BY <1>0, <3>4, <3>5, <3>9, <3>10
      <3>12. h[k + 1] = i
        BY <2>3, <3>1, <3>7, <3>11 DEF Hops
      <3> QED BY <3>11, <3>12
    <2> QED BY <2>2, <2>3
  <1>4. Nat \subseteq G
    <2> HIDE DEF G
    <2> QED BY <1>2, <1>3, SetInduction
  <1>5. Depth(c) \in Nat
    BY <1>0, <1>1
  <1> HIDE DEF Depth
  <1> QED BY <1>4, <1>5

\* The newest cell of a pid: the one no other comes after.
IsNewest(i, pid) ==
    /\ i \in 0 .. (nalloc - 1)
    /\ storage[i].pid = pid
    /\ \A j \in 0 .. (nalloc - 1) :
         storage[j].pid = pid => Place(nalloc, head, j) <= Place(nalloc, head, i)

\* The walk finds the newest cell of the pid, and no other.
LEMMA FoundIsNewest ==
  ASSUME Inv, nalloc # 0, Descending(storage, nalloc, head), NEW pid \in Pids, NEW i
  PROVE  i \in Found(pid) <=> IsNewest(i, pid)
  <1> DEFINE h == Chain(pid)
  <1>0. /\ nalloc \in Nat /\ head \in 0 .. nalloc /\ pid # NoPid
        /\ DOMAIN storage = 0 .. (nalloc - 1) /\ LinksOK(storage, pidstat_table)
    BY DataAssumption, SizeAssumption DEF Inv, TypeOK, Linked
  <1>1. Hops(h, pid)
    BY <1>0, ChainHops
  <1>2. i \in Found(pid) <=>
          /\ i \in 0 .. (nalloc - 1) /\ storage[i].pid = pid
          /\ \E k \in 0 .. nalloc : h[k] = i /\ \A m \in 0 .. (k - 1) : ~Stop(h[m], pid)
    BY DEF Found
  <1> HIDE DEF h
  <1>3. \A j \in 0 .. (nalloc - 1) : storage[j].pid = pid => InBucket(j, pid)
    BY <1>0 DEF InBucket, Live, BucketOf
  <1>4. \A k \in 0 .. nalloc : Passed(h, pid, k)
    BY <1>1, WalkDescends
  <1>5. \A j \in 0 .. (nalloc - 1) : Place(nalloc, head, j) \in Int
    BY <1>0 DEF Place
  <1>6. ASSUME i \in Found(pid) PROVE IsNewest(i, pid)
    <2>1. PICK k \in 0 .. nalloc : h[k] = i /\ \A m \in 0 .. (k - 1) : ~Stop(h[m], pid)
      BY <1>2, <1>6
    <2>2. i \in 0 .. (nalloc - 1) /\ storage[i].pid = pid
      BY <1>2, <1>6
    <2> SUFFICES ASSUME NEW j \in 0 .. (nalloc - 1), storage[j].pid = pid,
                        ~(Place(nalloc, head, j) <= Place(nalloc, head, i))
                 PROVE  FALSE
      BY <2>2 DEF IsNewest
    <2>3. PICK e \in 0 .. nalloc : h[e] = j
      BY <1>1, <1>3, WalkReaches
    <2>4. ~(e < k)
      <3> SUFFICES ASSUME e < k PROVE FALSE
        OBVIOUS
      <3>1. e \in 0 .. (k - 1)
        OBVIOUS
      <3>2. Stop(h[e], pid)
        BY <2>3 DEF Stop
      <3> QED BY <2>1, <3>1, <3>2
    <2>5. e # k
      BY <1>5, <2>1, <2>2, <2>3
    <2>6. k \in 0 .. (e - 1)
      BY <2>4, <2>5
    <2>7. Passed(h, pid, e) /\ h[e] # NoPidStat
      BY <1>4, <2>3 DEF NoPidStat
    <2>8. Place(nalloc, head, j) < Place(nalloc, head, i)
      BY <2>1, <2>3, <2>6, <2>7 DEF Passed
    <2> QED BY <1>5, <2>2, <2>8
  <1>7. ASSUME IsNewest(i, pid) PROVE i \in Found(pid)
    <2>1. i \in 0 .. (nalloc - 1) /\ storage[i].pid = pid
          /\ \A j \in 0 .. (nalloc - 1) :
               storage[j].pid = pid => Place(nalloc, head, j) <= Place(nalloc, head, i)
      BY <1>7 DEF IsNewest
    <2>2. PICK k \in 0 .. nalloc : h[k] = i
      BY <1>1, <1>3, <2>1, WalkReaches
    <2>3. Passed(h, pid, k) /\ i # NoPidStat
      BY <1>4, <2>1 DEF NoPidStat
    <2>4. ASSUME NEW m \in 0 .. (k - 1) PROVE ~Stop(h[m], pid)
      <3>1. m \in 0 .. nalloc /\ h[m] \in 0 .. (nalloc - 1) /\ Place(nalloc, head, i) < Place(nalloc, head, h[m])
        BY <1>0, <2>2, <2>3 DEF Passed
      <3>2. h[m] # NoPidStat
        BY <3>1 DEF NoPidStat
      <3>3. storage[h[m]].pid # pid
        BY <1>5, <2>1, <3>1
      <3>4. storage[h[m]].next # pidstat_table[Hash[pid]]
        <4>1. InBucket(h[m], pid)
          BY <1>4, <3>1, <3>2 DEF Passed
        <4>2. NextOK(storage, h[m]) /\ FirstOK(storage, pidstat_table, Hash[pid])
          BY <1>0, <4>1, DataAssumption DEF LinksOK, InBucket
        <4>3. storage[h[m]].next # NoPidStat
          <5>1. m + 1 \in 0 .. nalloc /\ m + 1 # 0 /\ m + 1 - 1 = m
            BY <1>0
          <5>2. h[m + 1] = storage[h[m]].next
            BY <1>1, <3>2, <5>1 DEF Hops
          <5>3. CASE m + 1 = k
            BY <2>2, <2>3, <5>2, <5>3
          <5>4. CASE m + 1 \in 0 .. (k - 1)
            <6>1. h[m + 1] \in 0 .. (nalloc - 1)
              BY <2>2, <2>3, <5>4 DEF Passed
            <6> QED BY <5>2, <6>1 DEF NoPidStat
          <5> QED BY <5>3, <5>4
        <4>4. storage[h[m]].next = pidstat_table[Hash[pid]] => FALSE
          <5> SUFFICES ASSUME storage[h[m]].next = pidstat_table[Hash[pid]] PROVE FALSE
            OBVIOUS
          <5>1. storage[storage[h[m]].next].prev = h[m]
            BY <4>2, <4>3 DEF NextOK
          <5>2. storage[storage[h[m]].next].prev = NoPidStat
            BY <4>2, <4>3 DEF FirstOK
          <5> QED BY <3>2, <5>1, <5>2
        <4> QED BY <4>4
      <3> QED BY <3>2, <3>3, <3>4 DEF Stop
    <2> QED BY <1>2, <2>1, <2>2, <2>4
  <1> QED BY <1>6, <1>7

-----------------------------------------------------------------------------
(***************************************************************************)
(* The newest cell is the newest entry of the list.                        *)
(***************************************************************************)
LEMMA NewestEntry ==
  ASSUME NEW S, NEW list \in Seq(S), NEW pid, Abs!Positions(list, pid) # {}
  PROVE  /\ Abs!Newest(list, pid) \in 1 .. Len(list)
         /\ list[Abs!Newest(list, pid)].pid = pid
         /\ \A m \in 1 .. Len(list) : list[m].pid = pid => m <= Abs!Newest(list, pid)
  <1> DEFINE P == Abs!Positions(list, pid)
  <1>1. P = {k \in 1 .. Len(list) : list[k].pid = pid} /\ Len(list) \in Nat
    BY DEF Abs!Positions
  <1>2. IsFiniteSet(1 .. Len(list))
    BY <1>1, FS_Interval
  <1>3. P \in SUBSET Int /\ IsFiniteSet(P)
    <2>1. P \subseteq 1 .. Len(list)
      BY <1>1
    <2>2. IsFiniteSet(P)
      BY <1>2, <2>1, FS_Subset
    <2> QED BY <2>1, <2>2
  <1> HIDE DEF P
  <1>4. Max(P) \in P /\ \A m \in P : m <= Max(P)
    BY <1>3, LargestElement DEF P
  <1>5. Abs!Newest(list, pid) \in P /\ \A m \in P : m <= Abs!Newest(list, pid)
    BY <1>4 DEF Abs!Newest, P
  <1> QED BY <1>1, <1>5

\* The cells of a pid in the list and in the storage.
LEMMA LocateIsNewest ==
  ASSUME Inv, Descending(storage, nalloc, head), NEW pid \in Pids,
         NEW l, NEW o, StandsFor(storage, nalloc, head, l, o)
  PROVE  Locate(pid) = IF Abs!Positions(l, pid) = {} THEN NoPidStat ELSE o[Abs!Newest(l, pid)]
  <1>0. nalloc \in Nat /\ head \in 0 .. nalloc /\ pid # NoPid
    BY DataAssumption, SizeAssumption DEF Inv, TypeOK
  <1>1. /\ l \in Seq(Held) /\ Len(l) \in Nat
        /\ o \in [1 .. Len(l) -> 0 .. (nalloc - 1)]
        /\ \A k \in 1 .. Len(l) : Live(storage, o[k]) /\ l[k] = Saved(storage[o[k]])
        /\ \A j, k \in 1 .. Len(l) : j < k => Place(nalloc, head, o[j]) < Place(nalloc, head, o[k])
        /\ \A i \in 0 .. (nalloc - 1) :
             Live(storage, i) /\ Place(nalloc, head, i) < head + nalloc => \E k \in 1 .. Len(l) : o[k] = i
    BY DEF StandsFor, LaidOut
  <1>2. \A k \in 1 .. Len(l) : l[k].pid = storage[o[k]].pid
    <2> TAKE k \in 1 .. Len(l)
    <2>1. l[k] = Saved(storage[o[k]])
      BY <1>1
    <2> QED BY <2>1, SavedFields
  <1>3. \A i \in 0 .. (nalloc - 1) : storage[i].pid = pid => \E k \in 1 .. Len(l) : o[k] = i
    <2> SUFFICES ASSUME NEW i \in 0 .. (nalloc - 1), storage[i].pid = pid
                 PROVE  \E k \in 1 .. Len(l) : o[k] = i
      OBVIOUS
    <2>1. Live(storage, i)
      BY <1>0 DEF Live
    <2>2. Place(nalloc, head, i) < head + nalloc
      BY <1>0 DEF Place
    <2> QED BY <1>1, <2>1, <2>2
  <1>4. \A i : i \in Found(pid) => i \in 0 .. (nalloc - 1) /\ storage[i].pid = pid
    BY DEF Found
  <1>5. CASE Abs!Positions(l, pid) = {}
    <2>1. \A k \in 1 .. Len(l) : l[k].pid # pid
      BY <1>1, <1>5 DEF Abs!Positions
    <2>2. Found(pid) = {}
      BY <1>2, <1>3, <1>4, <2>1
    <2> QED BY <1>5, <2>2 DEF Locate
  <1>6. CASE Abs!Positions(l, pid) # {}
    <2> DEFINE k == Abs!Newest(l, pid)
    <2>1. k \in 1 .. Len(l) /\ l[k].pid = pid /\ \A m \in 1 .. Len(l) : l[m].pid = pid => m <= k
      BY <1>1, <1>6, NewestEntry
    <2> HIDE DEF k
    <2>2. o[k] \in 0 .. (nalloc - 1) /\ storage[o[k]].pid = pid
      BY <1>1, <1>2, <2>1
    <2>3. ASSUME NEW j \in 0 .. (nalloc - 1), storage[j].pid = pid
          PROVE  Place(nalloc, head, j) <= Place(nalloc, head, o[k])
      <3>1. PICK m \in 1 .. Len(l) : o[m] = j
        BY <1>3, <2>3
      <3>2. m <= k
        BY <1>2, <2>1, <2>3, <3>1
      <3>3. Place(nalloc, head, j) \in Int /\ Place(nalloc, head, o[k]) \in Int
        BY <1>0, <2>2 DEF Place
      <3>4. CASE m = k
        BY <3>1, <3>3, <3>4
      <3>5. CASE m < k
        BY <1>1, <2>1, <3>1, <3>3, <3>5
      <3> QED BY <1>1, <2>1, <3>2, <3>4, <3>5
    <2>4. IsNewest(o[k], pid) /\ nalloc # 0
      BY <1>0, <2>2, <2>3 DEF IsNewest
    <2>5. o[k] \in Found(pid)
      BY <2>4, FoundIsNewest
    <2>6. \A i \in Found(pid) : i = o[k]
      <3> SUFFICES ASSUME NEW i \in Found(pid) PROVE i = o[k]
        OBVIOUS
      <3>1. IsNewest(i, pid)
        BY <2>4, FoundIsNewest
      <3>2. Place(nalloc, head, i) <= Place(nalloc, head, o[k]) /\ i \in 0 .. (nalloc - 1)
            /\ Place(nalloc, head, o[k]) <= Place(nalloc, head, i)
        BY <2>2, <2>4, <3>1 DEF IsNewest
      <3>3. Place(nalloc, head, i) \in Int /\ Place(nalloc, head, o[k]) \in Int
        BY <1>0, <2>2, <3>2 DEF Place
      <3> QED BY <1>0, <2>2, <3>2, <3>3, OnePlaceEach
    <2>7. Locate(pid) = o[k]
      BY <2>5, <2>6 DEF Locate
    <2> QED BY <1>6, <2>7 DEF k
  <1> QED BY <1>5, <1>6

-----------------------------------------------------------------------------
(***************************************************************************)
(* The invariant: the chains are linked, run from newest to oldest, and    *)
(* npid does not fall short.                                               *)
(***************************************************************************)
RInv == Inv /\ NpidCovers /\ Descending(storage, nalloc, head)

\* What bgp_add does to the cells, in its three parts.
LEMMA AddParts ==
  ASSUME RInv, NEW pid \in Pids, NEW status \in Statuses, Add(pid, status)
  PROVE  LET i     == GetIndex
             grown == NewCells
             freed == UnlinkCells(NewCells, i)
         IN  /\ NewAlloc \in Nat /\ NewAlloc \in 0 .. MAX_CHILD_MAX /\ nalloc <= NewAlloc
             /\ i \in 0 .. (NewAlloc - 1)
             /\ grown \in [0 .. (NewAlloc - 1) -> Cell]
             /\ freed \in [0 .. (NewAlloc - 1) -> Cell]
             /\ Keeps(storage, grown, NewAlloc, LiveOf(storage, nalloc))
             /\ Keeps(grown, freed, NewAlloc, LiveOf(grown, NewAlloc) \ {i})
             /\ \A j \in 0 .. (NewAlloc - 1) : j # i => (Live(storage', j) <=> Live(freed, j))
             /\ \A j \in LiveOf(freed, NewAlloc) : Saved(storage'[j]) = Saved(freed[j])
             /\ Live(storage', i)
             /\ Saved(storage'[i]) = [pid |-> pid, status |-> status]
             /\ Descending(storage', nalloc', head')
  <1> DEFINE i == GetIndex
             grown == NewCells
             freed == UnlinkCells(NewCells, i)
             table == UnlinkTable(NewCells, NewTable, i)
  <1>1. /\ NewAlloc \in 0 .. MAX_CHILD_MAX /\ NewAlloc \in Nat /\ nalloc \in Nat /\ nalloc <= NewAlloc
        /\ i \in 0 .. (NewAlloc - 1) /\ i \in 0 .. NewAlloc
    BY NewAllocType, SizeAssumption DEF RInv, Inv, TypeOK
  <1>2. /\ grown \in [0 .. (NewAlloc - 1) -> Cell]
        /\ NewTable \in TableType
        /\ LinksOK(grown, NewTable)
        /\ \A j \in 0 .. (NewAlloc - 1) :
             Live(grown, j) <=> j < nalloc /\ Live(storage, j)
    BY GrowOK DEF RInv, Inv
  <1>3. /\ freed \in [0 .. (NewAlloc - 1) -> Cell]
        /\ table \in TableType
        /\ LinksOK(freed, table)
        /\ ~Live(freed, i)
        /\ \A j \in 0 .. (NewAlloc - 1) : Live(freed, j) <=> Live(grown, j) /\ j # i
    BY <1>1, <1>2, UnlinkOK
  <1>4. \A j \in 0 .. (NewAlloc - 1) :
          Live(LinkCells(freed, table, i, pid, status), j) <=> Live(freed, j) \/ j = i
    BY <1>1, <1>3, LinkOK
  <1>5. storage' = LinkCells(freed, table, i, pid, status) /\ nalloc' = NewAlloc /\ head' = i + 1
    BY DEF Add
  <1>6. Keeps(storage, grown, NewAlloc, LiveOf(storage, nalloc))
    <2>1. \A j \in 0 .. (NewAlloc - 1) : Live(grown, j) <=> j \in LiveOf(storage, nalloc)
      BY <1>1, <1>2 DEF LiveOf
    <2>2. \A j \in LiveOf(storage, nalloc) : grown[j] = storage[j]
      BY <1>1 DEF LiveOf, NewCells
    <2> HIDE DEF grown
    <2> QED BY <2>1, <2>2 DEF Keeps
  <1>7. Keeps(grown, freed, NewAlloc, LiveOf(grown, NewAlloc) \ {i})
    <2>1. \A j \in 0 .. (NewAlloc - 1) : Live(freed, j) <=> j \in LiveOf(grown, NewAlloc) \ {i}
      BY <1>3 DEF LiveOf
    <2>2. \A j \in LiveOf(grown, NewAlloc) \ {i} : Saved(freed[j]) = Saved(grown[j])
      BY <1>2 DEF LiveOf, UnlinkCells, Saved
    <2> HIDE DEF grown, freed
    <2> QED BY <2>1, <2>2 DEF Keeps
  <1>8. Descending(storage', nalloc', head')
    <2>1. Descending(grown, NewAlloc, i)
      BY GrowDescends DEF RInv, Inv
    <2>2. Descending(freed, NewAlloc, i)
      BY <1>1, <1>2, <2>1, UnlinkDescends
    <2> HIDE DEF freed, table, i
    <2> QED BY <1>1, <1>3, <1>5, <2>2, LinkDescends
  <1>9. \A j \in 0 .. (NewAlloc - 1) : j # i => (Live(storage', j) <=> Live(freed, j))
    BY <1>4, <1>5
  <1>10. \A j \in LiveOf(freed, NewAlloc) : Saved(storage'[j]) = Saved(freed[j])
    BY <1>3, <1>5 DEF LiveOf, LinkCells, Saved
  <1>11. Live(storage', i) /\ Saved(storage'[i]) = [pid |-> pid, status |-> status]
    <2>1. Live(storage', i)
      BY <1>1, <1>4, <1>5
    <2>2. storage'[i] = [pid |-> pid, status |-> status, next |-> table[Hash[pid]], prev |-> NoPidStat]
      BY <1>1, <1>3, <1>5 DEF LinkCells
    <2>3. storage'[i].pid = pid /\ storage'[i].status = status
      BY <2>2
    <2> QED BY <2>1, <2>3 DEF Saved
  <1> QED BY <1>1, <1>2, <1>3, <1>6, <1>7, <1>8, <1>9, <1>10, <1>11

\* What bgp_delete does to them.
LEMMA DeleteParts ==
  ASSUME RInv, NEW pid \in Pids, Delete(pid)
  PROVE  /\ Locate(pid) \in 0 .. (nalloc - 1)
         /\ Keeps(storage, storage', nalloc, LiveOf(storage, nalloc) \ {Locate(pid)})
         /\ Descending(storage', nalloc', head')
  <1> DEFINE c == Locate(pid)
  <1>1. c \in 0 .. (nalloc - 1)
    <2>1. Found(pid) \subseteq 0 .. (nalloc - 1)
      BY DEF Found
    <2> QED BY <2>1 DEF Delete, Locate
  <1>2. nalloc # 0 /\ nalloc \in 0 .. MAX_CHILD_MAX /\ head \in 0 .. nalloc
    BY DEF Delete, Empty, RInv, Inv, TypeOK
  <1>3. storage \in [0 .. (nalloc - 1) -> Cell] /\ LinksOK(storage, pidstat_table) /\ pidstat_table \in TableType
    BY <1>2 DEF RInv, Inv, Linked, TypeOK, TableType
  <1>4. storage' = UnlinkCells(storage, c) /\ nalloc' = nalloc /\ head' = head
    BY DEF Delete
  <1> HIDE DEF c
  <1>5. \A j \in 0 .. (nalloc - 1) : Live(storage', j) <=> Live(storage, j) /\ j # c
    BY <1>1, <1>2, <1>3, <1>4, UnlinkOK
  <1>6. Descending(storage', nalloc', head')
    BY <1>1, <1>2, <1>3, <1>4, UnlinkDescends DEF RInv
  <1>7. \A j \in LiveOf(storage, nalloc) \ {c} : Saved(storage'[j]) = Saved(storage[j])
    BY <1>3, <1>4 DEF LiveOf, UnlinkCells, Saved
  <1>8. Keeps(storage, storage', nalloc, LiveOf(storage, nalloc) \ {c})
    <2>1. \A j \in 0 .. (nalloc - 1) : Live(storage', j) <=> j \in LiveOf(storage, nalloc) \ {c}
      BY <1>5 DEF LiveOf
    <2> QED BY <1>7, <2>1 DEF Keeps
  <1> QED BY <1>1, <1>6, <1>8 DEF c

\* bgp_findone returns a live cell.
LEMMA FoundOne ==
  ASSUME TypeOK, FindOne # NoPidStat
  PROVE  FindOne \in 0 .. (nalloc - 1) /\ storage[FindOne].pid \in Pids
  <1> DEFINE live == {i \in 0 .. (nalloc - 1) : Live(storage, i)}
  <1>1. live # {} /\ FindOne = CHOOSE i \in live : \A j \in live : i <= j
    BY DEF FindOne
  <1>2. live \in SUBSET Nat
    BY DEF TypeOK
  <1> HIDE DEF live
  <1>3. Min(live) \in live /\ \A j \in live : Min(live) <= j
    BY <1>1, <1>2, LeastElement
  <1>4. FindOne \in live
    BY <1>1, <1>3
  <1> QED BY <1>4 DEF live, Live, TypeOK, Cell

LEMMA RInvInit == Init => RInv
  <1> SUFFICES ASSUME Init PROVE RInv
    OBVIOUS
  <1>1. Inv /\ NpidCovers
    BY InitInv, NpidInit
  <1>2. Descending(storage, nalloc, head)
    BY DEF Init, Descending
  <1> QED BY <1>1, <1>2 DEF RInv

LEMMA RInvNext == RInv /\ [Next]_vars => RInv'
  <1> SUFFICES ASSUME RInv, [Next]_vars PROVE RInv'
    OBVIOUS
  <1>1. Inv' /\ NpidCovers'
    BY NextInv, NpidNext DEF RInv
  <1>2. ASSUME NEW pid \in Pids, NEW status \in Statuses, Add(pid, status)
        PROVE  Descending(storage', nalloc', head')
    BY <1>2, AddParts
  <1>3. ASSUME NEW pid \in Pids, Delete(pid)
        PROVE  Descending(storage', nalloc', head')
    BY <1>3, DeleteParts
  <1>4. ASSUME DeleteOne PROVE Descending(storage', nalloc', head')
    BY <1>3, <1>4, FoundOne DEF DeleteOne, RInv, Inv
  <1>5. ASSUME Clear PROVE Descending(storage', nalloc', head')
    BY <1>5 DEF Clear, Descending
  <1>6. ASSUME UNCHANGED <<storage, nalloc, head>> PROVE Descending(storage', nalloc', head')
    BY <1>6 DEF RInv
  <1>7. ASSUME NEW n \in Requests, SetMaxChild(n) PROVE UNCHANGED <<storage, nalloc, head>>
    BY <1>7 DEF SetMaxChild
  <1>8. UNCHANGED vars => UNCHANGED <<storage, nalloc, head>>
    BY DEF vars
  <1>9. Descending(storage', nalloc', head')
    BY <1>2, <1>3, <1>4, <1>5, <1>6, <1>7, <1>8 DEF Next
  <1> QED BY <1>1, <1>9 DEF RInv

LEMMA HStep == [HNext]_hvars => [Next]_vars
  BY DEF HNext, HAdd, HDelete, HDeleteOne, HClear, HSetMaxChild, hvars, vars, Next

LEMMA HSpecRInv == HSpec => []RInv
  <1>1. HInit => RInv
    BY RInvInit DEF HInit
  <1>2. RInv /\ [HNext]_hvars => RInv'
    BY RInvNext, HStep
  <1> QED BY <1>1, <1>2, PTL DEF HSpec

-----------------------------------------------------------------------------
LEMMA SavedListIs ==
  ASSUME RInv
  PROVE  \E o : StandsFor(storage, nalloc, head, SavedList, o)
  <1>1. nalloc \in Nat /\ storage \in [0 .. (nalloc - 1) -> Cell] /\ head \in 0 .. nalloc
    BY SizeAssumption DEF RInv, Inv, TypeOK
  <1> QED BY <1>1, ListIsLaidOut DEF SavedList

LEMMA EmptyIsEmpty ==
  ASSUME RInv, Empty
  PROVE  \A i \in 0 .. (nalloc - 1) : ~Live(storage, i)
  <1>1. CASE nalloc = 0
    BY <1>1
  <1>2. CASE npid = 0
    <2>1. Cardinality(LiveSet) <= 0 /\ IsFiniteSet(LiveSet) /\ Cardinality(LiveSet) \in Nat
      BY <1>2, LiveSetFinite DEF RInv, Inv, NpidCovers, LiveSet
    <2>2. Cardinality(LiveSet) = 0
      BY <2>1
    <2>3. LiveSet = {}
      BY <2>1, <2>2, FS_EmptySet
    <2> QED BY <2>3 DEF LiveSet
  <1> QED BY <1>1, <1>2 DEF Empty

\* bgp_search finds the newest status of a pid, and -1 only if there is none.
THEOREM SearchIsLookup == HSpec => []SearchFindsNewest
  <1>1. RInv => SearchFindsNewest
    <2> SUFFICES ASSUME RInv, NEW pid \in Pids
                 PROVE  Search(pid) = Abs!Lookup(SavedList, pid)
      BY DEF SearchFindsNewest
    <2> DEFINE l == SavedList
               P == Abs!Positions(l, pid)
    <2>1. PICK o : StandsFor(storage, nalloc, head, l, o)
      BY SavedListIs
    <2>2. Locate(pid) = IF P = {} THEN NoPidStat ELSE o[Abs!Newest(l, pid)]
      BY <2>1, LocateIsNewest DEF RInv
    <2>3. /\ l \in Seq(Held)
          /\ o \in [1 .. Len(l) -> 0 .. (nalloc - 1)]
          /\ \A k \in 1 .. Len(l) : Live(storage, o[k]) /\ l[k] = Saved(storage[o[k]])
      BY <2>1 DEF StandsFor, LaidOut
    <2> HIDE DEF l
    <2>4. CASE P = {}
      BY <2>2, <2>4 DEF Search, Abs!Lookup, NoStatus, l
    <2>5. CASE P # {}
      <3> DEFINE k == Abs!Newest(l, pid)
      <3>1. k \in 1 .. Len(l)
        BY <2>3, <2>5, NewestEntry
      <3> HIDE DEF k
      <3>2. o[k] \in 0 .. (nalloc - 1) /\ Live(storage, o[k]) /\ l[k] = Saved(storage[o[k]])
        BY <2>3, <3>1
      <3>3. ~Empty
        BY <3>2, EmptyIsEmpty
      <3>4. o[k] # NoPidStat
        BY <3>2 DEF NoPidStat
      <3>5. Search(pid) = storage[o[k]].status
        BY <2>2, <2>5, <3>3, <3>4 DEF Search, k
      <3>6. l[k].status = storage[o[k]].status
        BY <3>2, SavedFields
      <3>7. Abs!Lookup(l, pid) = l[k].status
        BY <2>5 DEF Abs!Lookup, k
      <3> QED BY <3>5, <3>6, <3>7 DEF l
    <2> QED BY <2>4, <2>5
  <1> QED BY <1>1, HSpecRInv, PTL

\* bgp_findone finds a status exactly when one is saved.
THEOREM FindOneIsRight == HSpec => []FindOneFinds
  <1>1. RInv => FindOneFinds
    <2> SUFFICES ASSUME RInv PROVE FindOneFinds
      OBVIOUS
    <2> DEFINE live == {i \in 0 .. (nalloc - 1) : Live(storage, i)}
    <2>1. PICK o : StandsFor(storage, nalloc, head, SavedList, o)
      BY SavedListIs
    <2>2. /\ SavedList \in Seq(Held) /\ Len(SavedList) \in Nat
          /\ \A k \in 1 .. Len(SavedList) : o[k] \in 0 .. (nalloc - 1) /\ Live(storage, o[k])
          /\ \A i \in 0 .. (nalloc - 1) :
               Live(storage, i) /\ Place(nalloc, head, i) < head + nalloc
                 => \E k \in 1 .. Len(SavedList) : o[k] = i
      BY <2>1 DEF StandsFor, LaidOut
    <2>3. SavedList = <<>> <=> live = {}
      <3>1. \A i \in 0 .. (nalloc - 1) : Place(nalloc, head, i) < head + nalloc
        BY DEF Place, RInv, Inv, TypeOK
      <3>2. CASE SavedList = <<>>
        BY <2>2, <3>1, <3>2
      <3>3. CASE SavedList # <<>>
        <4>1. 1 \in 1 .. Len(SavedList)
          BY <2>2, <3>3
        <4> QED BY <2>2, <3>3, <4>1
      <3> QED BY <3>2, <3>3
    <2>4. CASE live = {}
      BY <2>3, <2>4 DEF FindOneFinds, FindOne
    <2>5. CASE live # {}
      <3>1. ~Empty
        BY <2>5, EmptyIsEmpty
      <3>2. FindOne = CHOOSE i \in live : \A j \in live : i <= j
        BY <2>5, <3>1 DEF FindOne
      <3>3. live \in SUBSET Nat
        BY DEF RInv, Inv, TypeOK
      <3>4. Min(live) \in live /\ \A j \in live : Min(live) <= j
        <4> HIDE DEF live
        <4> QED BY <2>5, <3>3, LeastElement
      <3>5. FindOne \in live
        <4> HIDE DEF live
        <4> QED BY <3>2, <3>4
      <3>6. FindOne # NoPidStat
        BY <3>3, <3>5 DEF NoPidStat
      <3> QED BY <2>3, <2>5, <3>6 DEF FindOneFinds
    <2> QED BY <2>4, <2>5
  <1> QED BY <1>1, HSpecRInv, PTL

-----------------------------------------------------------------------------
(***************************************************************************)
(* The refinement of SavedStatus.                                          *)
(***************************************************************************)
LEMMA SavedNoneLost ==
  ASSUME NEW S, NEW l \in Seq(S), NEW e \in S
  PROVE  Abs!WithSaved(l, <<e>>, 0) = Append(l, e)
  <1> DEFINE a == l \o <<e>>
             n == Len(l) + 1
             w == SubSeq(a, 1, n)
             b == Append(l, e)
  <1>1. /\ a \in Seq(S) /\ Len(a) = n /\ n \in Nat /\ a[n] = e
        /\ \A k \in 1 .. Len(l) : a[k] = l[k]
    BY ConcatProperties
  <1>2. b \in Seq(S) /\ Len(b) = n /\ b[n] = e /\ \A k \in 1 .. Len(l) : b[k] = l[k]
    OBVIOUS
  <1>3. \A k \in 1 .. n : k \in 1 .. Len(l) \/ k = n
    OBVIOUS
  <1>4. Abs!WithSaved(l, <<e>>, 0) = w
    BY DEF Abs!WithSaved
  <1> HIDE DEF a, b, n
  <1>5. \A k \in 1 .. n : a[k] = b[k] /\ a[k] \in S
    BY <1>1, <1>2, <1>3
  <1>6. /\ w \in Seq(S)
        /\ Len(w) = IF 1 <= n THEN n - 1 + 1 ELSE 0
        /\ \A k \in 1 .. n - 1 + 1 : w[k] = a[1 + k - 1]
    BY <1>1, <1>5, SubSeqProperties
  <1>7. 1 <= n /\ n - 1 + 1 = n /\ \A k \in 1 .. n : 1 + k - 1 = k
    BY <1>1 DEF n
  <1> HIDE DEF w
  <1>8. w \in Seq(S) /\ Len(w) = n /\ \A k \in 1 .. n : w[k] = b[k]
    BY <1>5, <1>6, <1>7
  <1>9. w = b
    BY <1>2, <1>8, SeqEqual
  <1> QED BY <1>4, <1>9 DEF b

LEMMA SavedOneLost ==
  ASSUME NEW S, NEW l \in Seq(S), l # <<>>, NEW e \in S
  PROVE  Abs!WithSaved(l, <<e>>, 1) = Append(RemoveAt(l, 1), e)
  <1> DEFINE a == l \o <<e>>
             n == Len(l)
             t == n + 1
             w == SubSeq(a, 2, t)
             r == RemoveAt(l, 1)
             b == Append(r, e)
  <1>0. n \in Nat \ {0} /\ 1 \in 1 .. n
    OBVIOUS
  <1>1. /\ a \in Seq(S) /\ Len(a) = n + 1 /\ a[n + 1] = e
        /\ \A k \in 1 .. n : a[k] = l[k]
    BY ConcatProperties
  <1>2. r \in Seq(S) /\ Len(r) = n - 1 /\ \A k \in 1 .. n - 1 : r[k] = l[k + 1]
    <2>1. /\ r \in Seq(S) /\ Len(r) = n - 1
          /\ \A k \in 1 .. n - 1 : r[k] = IF k < 1 THEN l[k] ELSE l[k + 1]
      BY <1>0, RemovedAt
    <2> HIDE DEF r
    <2>2. \A k \in 1 .. n - 1 : ~(k < 1)
      BY <1>0
    <2> QED BY <2>1, <2>2
  <1>3. Abs!WithSaved(l, <<e>>, 1) = w
    BY DEF Abs!WithSaved
  <1> HIDE DEF r, a
  <1>4. b \in Seq(S) /\ Len(b) = n /\ b[n] = e /\ \A k \in 1 .. n - 1 : b[k] = l[k + 1]
    BY <1>0, <1>2
  <1> HIDE DEF b, n
  <1>5. \A k \in 1 .. n : k \in 1 .. n - 1 \/ k = n
    BY <1>0
  <1>6. \A k \in 1 .. n : b[k] = a[k + 1] /\ a[k + 1] \in S
    <2>1. \A k \in 1 .. n - 1 : k + 1 \in 1 .. n
      BY <1>0
    <2>2. \A k \in 1 .. n : b[k] = a[k + 1]
      BY <1>1, <1>4, <1>5, <2>1
    <2>3. \A k \in 1 .. n : k + 1 \in 1 .. n + 1
      BY <1>0
    <2> QED BY <1>1, <2>2, <2>3
  <1>7. t \in Int /\ 2 \in Int /\ \A k \in 2 .. t : a[k] \in S
    BY <1>0, <1>1
  <1>8. 2 <= t /\ t - 2 + 1 = n /\ \A k \in 1 .. n : 2 + k - 1 = k + 1
    BY <1>0
  <1> HIDE DEF t
  <1>9. /\ w \in Seq(S)
        /\ Len(w) = IF 2 <= t THEN t - 2 + 1 ELSE 0
        /\ \A k \in 1 .. t - 2 + 1 : w[k] = a[2 + k - 1]
    BY <1>7, SubSeqProperties
  <1> HIDE DEF w
  <1>10. w \in Seq(S) /\ Len(w) = n /\ \A k \in 1 .. n : w[k] = b[k]
    BY <1>6, <1>8, <1>9
  <1>11. w = b
    BY <1>4, <1>10, SeqEqual
  <1> QED BY <1>3, <1>11 DEF b, r

LEMMA EmptyList == ListOf(<<>>, 0, 0) = <<>>
  <1> DEFINE l == ListOf(<<>>, 0, 0)
  <1>1. 0 \in Nat /\ 0 \in 0 .. 0 /\ <<>> \in [0 .. (0 - 1) -> Cell]
    OBVIOUS
  <1>2. PICK o : StandsFor(<<>>, 0, 0, l, o)
    BY <1>1, ListIsLaidOut
  <1>3. l \in Seq(Held) /\ o \in [1 .. Len(l) -> 0 .. (0 - 1)]
    BY <1>2 DEF StandsFor, LaidOut
  <1> HIDE DEF l
  <1>4. \A k \in 1 .. Len(l) : FALSE
    BY <1>3
  <1>5. l = <<>>
    BY <1>3, <1>4
  <1> QED BY <1>5 DEF l

\* bgp_add saves one entry at the end, and loses the oldest at the most.
LEMMA AddSaves ==
  ASSUME RInv, RInv', NEW pid \in Pids, NEW status \in Statuses, Add(pid, status)
  PROVE  Abs!Save([pid |-> pid, status |-> status])
  <1> DEFINE e == [pid |-> pid, status |-> status]
             i == GetIndex
             n == NewAlloc
             grown == NewCells
             freed == UnlinkCells(NewCells, i)
             l == SavedList
  <1>1. /\ n \in Nat /\ nalloc \in Nat /\ nalloc <= n /\ i \in 0 .. (n - 1) /\ i \in 0 .. n
        /\ head \in 0 .. nalloc
        /\ grown \in [0 .. (n - 1) -> Cell] /\ freed \in [0 .. (n - 1) -> Cell]
        /\ Keeps(storage, grown, n, LiveOf(storage, nalloc))
        /\ Keeps(grown, freed, n, LiveOf(grown, n) \ {i})
        /\ \A j \in 0 .. (n - 1) : j # i => (Live(storage', j) <=> Live(freed, j))
        /\ \A j \in LiveOf(freed, n) : Saved(storage'[j]) = Saved(freed[j])
        /\ Live(storage', i)
        /\ Saved(storage'[i]) = e
    <2>1. nalloc \in Nat /\ head \in 0 .. nalloc
      BY SizeAssumption DEF RInv, Inv, TypeOK
    <2>2. /\ n \in Nat /\ nalloc <= n /\ i \in 0 .. (n - 1)
          /\ grown \in [0 .. (n - 1) -> Cell] /\ freed \in [0 .. (n - 1) -> Cell]
          /\ Keeps(storage, grown, n, LiveOf(storage, nalloc))
          /\ Keeps(grown, freed, n, LiveOf(grown, n) \ {i})
          /\ \A j \in 0 .. (n - 1) : j # i => (Live(storage', j) <=> Live(freed, j))
          /\ \A j \in LiveOf(freed, n) : Saved(storage'[j]) = Saved(freed[j])
          /\ Live(storage', i)
          /\ Saved(storage'[i]) = e
      BY AddParts
    <2>3. i \in 0 .. n
      <3> HIDE DEF i, n
      <3> QED BY <2>2
    <2> HIDE DEF i, n, grown, freed, e
    <2> QED BY <2>1, <2>2, <2>3
  <1>2. nalloc = 0 \/ i = head \/ (i = 0 /\ head = nalloc /\ n = nalloc)
    BY <1>1 DEF GetIndex, NewAlloc
  <1>3. nalloc' = n /\ head' = i + 1
    BY DEF Add
  <1>4. storage' \in [0 .. (n - 1) -> Cell] /\ i + 1 \in 0 .. n
    BY <1>1, <1>3 DEF RInv, Inv, TypeOK
  <1>5. SavedList' = ListOf(storage', n, i + 1)
    BY <1>3 DEF SavedList
  <1>6. PICK o : StandsFor(storage, nalloc, head, l, o)
    BY SavedListIs
  <1>7. l \in Seq(Held) /\ e \in Held /\ e \in Abs!Entry /\ Len(l) \in Nat
    BY <1>6 DEF StandsFor, LaidOut, Held, Abs!Entry
  <1> HIDE DEF i, n, grown, freed, l, e
  <1>8. StandsFor(grown, n, i, l, o)
    BY <1>1, <1>2, <1>6, Renumbered
  <1>9. ~Live(freed, i)
    BY <1>1 DEF Keeps
  <1>10. ASSUME NEW m, m \in Seq(Held), NEW q, StandsFor(freed, n, i, m, q)
         PROVE  SavedList' = Append(m, e)
    <2>1. \A j \in LiveOf(freed, n) : Saved(storage'[j]) = Saved(freed[j])
      BY <1>1
    <2>2. Saved(storage'[i]) \in Held
      BY <1>1, <1>7
    <2>3. \E p : StandsFor(storage', n, i + 1, Append(m, Saved(storage'[i])), p)
      BY <1>1, <1>9, <1>10, <2>1, <2>2, CellFilled
    <2>4. ListOf(storage', n, i + 1) = Append(m, Saved(storage'[i]))
      BY <1>1, <1>4, <2>3, ListIs
    <2> QED BY <1>1, <1>5, <2>4
  <1>11. CASE ~Live(grown, i)
    <2>1. LiveOf(grown, n) \ {i} = LiveOf(grown, n)
      BY <1>11 DEF LiveOf
    <2>2. n <= n /\ Keeps(grown, freed, n, LiveOf(grown, n))
      <3>1. n <= n
        BY <1>1
      <3>2. Keeps(grown, freed, n, LiveOf(grown, n) \ {i})
        BY <1>1
      <3> QED BY <2>1, <3>1, <3>2, Zenon
    <2>6. StandsFor(freed, n, i, l, o)
      BY <1>1, <1>8, <2>2, Renumbered
    <2>3. SavedList' = Append(l, e)
      BY <1>7, <1>10, <2>6
    <2>4. SavedList' = Abs!WithSaved(l, <<e>>, 0)
      BY <1>7, <2>3, SavedNoneLost
    <2>5. 0 \in Abs!MayLose(l, <<e>>)
      BY <1>7 DEF Abs!MayLose
    <2> QED BY <2>4, <2>5 DEF Abs!Save, l, e
  <1>12. CASE Live(grown, i)
    <2>1. /\ o \in [1 .. Len(l) -> 0 .. (n - 1)]
          /\ \A j, k \in 1 .. Len(l) : j < k => Place(n, i, o[j]) < Place(n, i, o[k])
          /\ \A j \in 0 .. (n - 1) :
               Live(grown, j) /\ Place(n, i, j) < i + n => \E k \in 1 .. Len(l) : o[k] = j
      BY <1>8 DEF StandsFor, LaidOut
    <2>2. Place(n, i, i) = i /\ Place(n, i, i) < i + n
      BY <1>1 DEF Place
    <2>3. PICK k \in 1 .. Len(l) : o[k] = i
      BY <1>1, <1>12, <2>1, <2>2
    <2>4. 1 \in 1 .. Len(l) /\ k = 1
      <3>1. 1 \in 1 .. Len(l) /\ o[1] \in 0 .. (n - 1)
        BY <1>7, <2>1
      <3>2. i <= Place(n, i, o[1]) /\ Place(n, i, o[1]) \in Int
        BY <1>1, <3>1 DEF Place
      <3>3. 1 < k => FALSE
        BY <1>1, <2>1, <2>2, <2>3, <3>1, <3>2
      <3> QED BY <1>7, <3>1, <3>3
    <2>5. Keeps(grown, freed, n, LiveOf(grown, n) \ {o[1]})
      BY <1>1, <2>3, <2>4
    <2>6. PICK q : StandsFor(freed, n, i, RemoveAt(l, 1), q)
      BY <1>1, <1>8, <2>4, <2>5, CellFreed
    <2>7. RemoveAt(l, 1) \in Seq(Held)
      BY <2>6 DEF StandsFor, LaidOut
    <2>8. SavedList' = Append(RemoveAt(l, 1), e)
      BY <1>10, <2>6, <2>7
    <2>9. l # <<>>
      BY <2>4
    <2>10. SavedList' = Abs!WithSaved(l, <<e>>, 1)
      BY <1>7, <2>8, <2>9, SavedOneLost
    <2>11. 1 \in Abs!MayLose(l, <<e>>)
      BY <1>7, <2>4 DEF Abs!MayLose
    <2> QED BY <2>10, <2>11 DEF Abs!Save, l, e
  <1> QED BY <1>11, <1>12

\* bgp_delete takes out the newest entry of its pid.
LEMMA DeleteDiscards ==
  ASSUME RInv, RInv', NEW pid \in Pids, Delete(pid)
  PROVE  Abs!Discard(pid)
  <1> DEFINE l == SavedList
             k == Abs!Newest(l, pid)
  <1>1. PICK o : StandsFor(storage, nalloc, head, l, o)
    BY SavedListIs
  <1>2. /\ nalloc \in Nat /\ head \in 0 .. nalloc
        /\ nalloc' = nalloc /\ head' = head /\ Locate(pid) # NoPidStat
    BY SizeAssumption DEF Delete, RInv, Inv, TypeOK
  <1>3. storage' \in [0 .. (nalloc - 1) -> Cell]
    BY <1>2 DEF RInv, Inv, TypeOK
  <1>4. SavedList' = ListOf(storage', nalloc, head)
    BY <1>2 DEF SavedList
  <1>5. Abs!Positions(l, pid) # {} /\ Locate(pid) = o[k]
    BY <1>1, <1>2, LocateIsNewest DEF RInv
  <1>6. l \in Seq(Held)
    BY <1>1 DEF StandsFor, LaidOut
  <1>7. k \in 1 .. Len(l)
    BY <1>5, <1>6, NewestEntry
  <1>8. Keeps(storage, storage', nalloc, LiveOf(storage, nalloc) \ {o[k]})
    BY <1>5, DeleteParts
  <1> HIDE DEF l, k
  <1>9. \E q : StandsFor(storage', nalloc, head, RemoveAt(l, k), q)
    BY <1>1, <1>2, <1>7, <1>8, CellFreed
  <1>10. ListOf(storage', nalloc, head) = RemoveAt(l, k)
    BY <1>2, <1>3, <1>9, ListIs
  <1>11. SavedList' = Abs!Without(l, pid)
    BY <1>4, <1>5, <1>10 DEF Abs!Without, Abs!RemoveAt, RemoveAt, k
  <1> QED BY <1>5, <1>11 DEF Abs!Discard, l

\* The circular buffer with its hash chains implements the ordered list.
THEOREM Refines == HSpec => RefinesSavedStatus
  <1>1. HInit => Abs!Init
    BY EmptyList DEF HInit, Init, SavedList, Abs!Init
  <1>2. ASSUME RInv, RInv', [HNext]_hvars
        PROVE  [Abs!Next]_SavedList
    <2>1. ASSUME NEW pid \in Pids, NEW status \in Statuses, HAdd(pid, status)
          PROVE  Abs!Next
      <3>1. Abs!Save([pid |-> pid, status |-> status])
        BY <1>2, <2>1, AddSaves DEF HAdd
      <3>2. [pid |-> pid, status |-> status] \in Abs!Entry
        BY DEF Abs!Entry
      <3> QED BY <3>1, <3>2 DEF Abs!Next
    <2>2. ASSUME NEW pid \in Pids, Delete(pid)
          PROVE  Abs!Next
      BY <1>2, <2>2, DeleteDiscards DEF Abs!Next
    <2>3. CASE HDeleteOne
      BY <1>2, <2>2, <2>3, FoundOne DEF HDeleteOne, DeleteOne, RInv, Inv
    <2>4. CASE HClear
      <3>1. storage' = <<>> /\ nalloc' = 0 /\ head' = 0
        BY <2>4 DEF HClear, Clear
      <3>2. SavedList' = <<>>
        BY <3>1, EmptyList DEF SavedList
      <3> QED BY <3>2 DEF Abs!Next, Abs!ForgetAll
    <2>5. ASSUME UNCHANGED <<storage, nalloc, head>> PROVE UNCHANGED SavedList
      BY <2>5 DEF SavedList
    <2>6. ASSUME NEW n \in Requests, HSetMaxChild(n) PROVE UNCHANGED SavedList
      BY <2>5, <2>6 DEF HSetMaxChild, SetMaxChild
    <2>7. CASE UNCHANGED hvars
      BY <2>5, <2>7 DEF hvars
    <2> QED BY <1>2, <2>1, <2>2, <2>3, <2>4, <2>6, <2>7 DEF HNext, HDelete
  <1>3. HSpec => []RInv
    BY HSpecRInv
  <1> QED BY <1>1, <1>2, <1>3, PTL DEF HSpec, RefinesSavedStatus, Abs!Spec

-----------------------------------------------------------------------------
(***************************************************************************)
(* How long a status stays.                                                *)
(***************************************************************************)
\* Since a cell was filled, head has moved to where it is now: at the least
\* from the next cell on, or round past the end as it was then.
AgeInv ==
    /\ later \in [0 .. (nalloc - 1) -> Nat]
    /\ \A i \in 0 .. (nalloc - 1) :
         Live(storage, i) => /\ room[i] \in 0 .. nalloc
                             /\ later[i] >= IF i < head THEN head - 1 - i
                                            ELSE room[i] - 1 - i + head

LEMMA AgeAdd ==
  ASSUME RInv, AgeInv, NEW pid \in Pids, NEW status \in Statuses, HAdd(pid, status)
  PROVE  AgeInv'
  <1> DEFINE g == GetIndex
             n == NewAlloc
  <1>1. /\ n \in Nat /\ nalloc \in Nat /\ nalloc <= n /\ g \in 0 .. (n - 1) /\ head \in 0 .. nalloc
        /\ \A j \in 0 .. (n - 1) : Live(storage', j) /\ j # g => j \in 0 .. (nalloc - 1) /\ Live(storage, j)
    <2>1. Add(pid, status)
      BY DEF HAdd
    <2>2. /\ n \in Nat /\ nalloc \in Nat /\ nalloc <= n /\ g \in 0 .. (n - 1) /\ head \in 0 .. nalloc
          /\ Keeps(storage, NewCells, n, LiveOf(storage, nalloc))
          /\ Keeps(NewCells, UnlinkCells(NewCells, g), n, LiveOf(NewCells, n) \ {g})
          /\ \A j \in 0 .. (n - 1) : j # g => (Live(storage', j) <=> Live(UnlinkCells(NewCells, g), j))
      <3>1. nalloc \in Nat /\ head \in 0 .. nalloc
        BY SizeAssumption DEF RInv, Inv, TypeOK
      <3>2. /\ n \in Nat /\ nalloc <= n /\ g \in 0 .. (n - 1)
            /\ Keeps(storage, NewCells, n, LiveOf(storage, nalloc))
            /\ Keeps(NewCells, UnlinkCells(NewCells, g), n, LiveOf(NewCells, n) \ {g})
            /\ \A j \in 0 .. (n - 1) : j # g => (Live(storage', j) <=> Live(UnlinkCells(NewCells, g), j))
        BY <2>1, AddParts
      <3> HIDE DEF n, g
      <3> QED BY <3>1, <3>2
    <2> HIDE DEF n, g
    <2> QED BY <2>2 DEF Keeps, LiveOf
  <1>2. nalloc = 0 \/ g = head \/ (g = 0 /\ head = nalloc /\ n = nalloc)
    BY <1>1 DEF GetIndex, NewAlloc
  <1>3. nalloc' = n /\ head' = g + 1
    BY DEF HAdd, Add
  <1>4. /\ later' = [j \in 0 .. (n - 1) |-> IF j = g THEN 0 ELSE Age(j)]
        /\ room' = [j \in 0 .. (n - 1) |-> IF j = g THEN n ELSE RoomOf(j)]
    <2>1. \A j \in 0 .. (n - 1) : j + 1 = g + 1 <=> j = g
      BY <1>1
    <2> HIDE DEF n, g
    <2> QED BY <1>3, <2>1 DEF HAdd
  <1> HIDE DEF n, g
  <1>5. \A j \in 0 .. (n - 1) : Age(j) \in Nat
    BY <1>1 DEF Age, AgeInv
  <1>6. later' \in [0 .. (n - 1) -> Nat]
    BY <1>4, <1>5
  <1>7. ASSUME NEW j \in 0 .. (nalloc' - 1), Live(storage', j)
        PROVE  /\ room'[j] \in 0 .. nalloc'
               /\ later'[j] >= IF j < head' THEN head' - 1 - j ELSE room'[j] - 1 - j + head'
    <2>0. j \in 0 .. (n - 1) /\ nalloc' \in Nat /\ head' \in Nat
      BY <1>1, <1>3
    <2>1. CASE j = g
      <3>1. later'[j] = 0 /\ room'[j] = n
        BY <1>4, <2>0, <2>1
      <3> QED BY <1>1, <1>3, <2>0, <2>1, <3>1
    <2>2. CASE j # g
      <3>1. j \in 0 .. (nalloc - 1) /\ Live(storage, j)
        BY <1>1, <1>7, <2>0, <2>2
      <3>2. later'[j] = later[j] + 1 /\ room'[j] = room[j]
        BY <1>1, <1>4, <2>0, <2>2, <3>1 DEF Age, RoomOf
      <3>3. /\ later[j] \in Nat /\ room[j] \in 0 .. nalloc
            /\ later[j] >= IF j < head THEN head - 1 - j ELSE room[j] - 1 - j + head
        BY <3>1 DEF AgeInv
      <3> QED BY <1>1, <1>2, <1>3, <2>0, <2>2, <3>1, <3>2, <3>3
    <2> QED BY <2>1, <2>2
  <1>8. later' \in [0 .. (nalloc' - 1) -> Nat]
    BY <1>3, <1>6
  <1> QED BY <1>7, <1>8 DEF AgeInv, Live

LEMMA AgeDelete ==
  ASSUME RInv, AgeInv, NEW pid \in Pids, Delete(pid), UNCHANGED <<later, room>>
  PROVE  AgeInv'
  <1>1. nalloc' = nalloc /\ head' = head
    BY DEF Delete
  <1>2. Keeps(storage, storage', nalloc, LiveOf(storage, nalloc) \ {Locate(pid)})
    BY DeleteParts
  <1>3. \A j \in 0 .. (nalloc - 1) : Live(storage', j) => Live(storage, j)
    BY <1>2 DEF Keeps, LiveOf
  <1> QED BY <1>1, <1>3 DEF AgeInv

LEMMA AgeInit == HInit => AgeInv
  BY DEF HInit, Init, AgeInv

LEMMA AgeNext == RInv /\ AgeInv /\ [HNext]_hvars => AgeInv'
  <1> SUFFICES ASSUME RInv, AgeInv, [HNext]_hvars PROVE AgeInv'
    OBVIOUS
  <1>1. ASSUME NEW pid \in Pids, NEW status \in Statuses, HAdd(pid, status) PROVE AgeInv'
    BY <1>1, AgeAdd
  <1>2. ASSUME NEW pid \in Pids, HDelete(pid) PROVE AgeInv'
    BY <1>2, AgeDelete DEF HDelete
  <1>3. CASE HDeleteOne
    BY <1>3, AgeDelete, FoundOne DEF HDeleteOne, DeleteOne, RInv, Inv
  <1>4. CASE HClear
    BY <1>4 DEF HClear, Clear, AgeInv
  <1>5. ASSUME UNCHANGED <<storage, nalloc, head, later, room>> PROVE AgeInv'
    BY <1>5 DEF AgeInv, Live
  <1>6. ASSUME NEW n \in Requests, HSetMaxChild(n) PROVE AgeInv'
    BY <1>5, <1>6 DEF HSetMaxChild, SetMaxChild
  <1>7. CASE UNCHANGED hvars
    BY <1>5, <1>7 DEF hvars
  <1> QED BY <1>1, <1>2, <1>3, <1>4, <1>6, <1>7 DEF HNext

\* A status that is overwritten has seen as many later ones saved as the
\* storage had cells when it was saved.
THEOREM StatusesOutlive == HSpec => OutlivesItsRoom
  <1> DEFINE Fair == \A i \in 0 .. (nalloc - 1) : Overwritten(i) => later[i] + 1 >= room[i]
  <1>1. HSpec => [](RInv /\ AgeInv)
    <2>1. HInit => RInv /\ AgeInv
      BY RInvInit, AgeInit DEF HInit
    <2>2. (RInv /\ AgeInv) /\ [HNext]_hvars => (RInv /\ AgeInv)'
      BY RInvNext, AgeNext, HStep
    <2> QED BY <2>1, <2>2, PTL DEF HSpec
  <1>2. ASSUME RInv, AgeInv, HNext PROVE Fair
    <2> SUFFICES ASSUME NEW i \in 0 .. (nalloc - 1), Overwritten(i)
                 PROVE  later[i] + 1 >= room[i]
      OBVIOUS
    <2>1. npid' > npid /\ head' = i + 1 /\ Live(storage, i) /\ npid \in Nat
      BY <1>2, SizeAssumption DEF Overwritten, RInv, Inv, TypeOK
    <2>2. \E pid \in Pids, status \in Statuses : HAdd(pid, status)
      <3>1. ASSUME NEW pid \in Pids, Delete(pid) PROVE FALSE
        BY <2>1, <3>1 DEF Delete
      <3>2. ~HDeleteOne
        BY <1>2, <3>1, FoundOne DEF HDeleteOne, DeleteOne, RInv, Inv
      <3>3. ~HClear
        BY <2>1 DEF HClear, Clear
      <3>4. ASSUME NEW n \in Requests, HSetMaxChild(n) PROVE FALSE
        BY <2>1, <3>4 DEF HSetMaxChild, SetMaxChild
      <3> QED BY <1>2, <3>1, <3>2, <3>3, <3>4 DEF HNext, HDelete
    <2> DEFINE g == GetIndex
    <2>3. head' = g + 1 /\ g \in Nat /\ nalloc \in Nat /\ head \in 0 .. nalloc
          /\ (nalloc = 0 \/ g = head \/ (g = 0 /\ head = nalloc))
      <3>1. g \in Nat /\ nalloc \in Nat /\ head \in 0 .. nalloc
        BY <1>2, NewAllocType, SizeAssumption DEF RInv, Inv, TypeOK
      <3>2. nalloc = 0 \/ g = head \/ (g = 0 /\ head = nalloc)
        BY <3>1 DEF GetIndex
      <3> QED BY <2>2, <3>1, <3>2 DEF HAdd, Add
    <2>4. /\ later[i] \in Nat /\ room[i] \in 0 .. nalloc
          /\ later[i] >= IF i < head THEN head - 1 - i ELSE room[i] - 1 - i + head
      BY <1>2, <2>1 DEF AgeInv
    <2> HIDE DEF g
    <2> QED BY <2>1, <2>3, <2>4
  <1>3. RInv /\ AgeInv /\ [HNext]_hvars => [Fair]_hvars
    BY <1>2
  <1> QED BY <1>1, <1>3, PTL DEF HSpec, OutlivesItsRoom
=============================================================================
