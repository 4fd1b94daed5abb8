----------------------------- MODULE RedirProofs -----------------------------
(***************************************************************************)
(* Proofs about RedirProperties, for any numbers, files and bounds.        *)
(* - The types, in every execution.                                        *)
(* - While two numbers from SHELL_FD_BASE on are free: saved copies stay   *)
(*   intact, none is leaked, and every command that ends puts back what it *)
(*   redirected.                                                           *)
(* The second part needs that room: without it add_undo_redirect takes any *)
(* free number for its copy, a number that a later redirection may name.   *)
(***************************************************************************)
EXTENDS RedirProperties, DataTheorems

-----------------------------------------------------------------------------
(***************************************************************************)
(* The types.  What the type invariant needs besides itself: an entry that *)
(* restores has a copy, and a command that is inside open is redirecting.  *)
(***************************************************************************)
Entry == {e \in UndoEntry : e.ri = "dup" => e.redir_fd \in Numbers}
Tables == [Numbers -> Desc]
Redirs == [ok : BOOLEAN, fds : Tables, undo : Seq(Entry), exec : Seq(Entry)]

Frame == [phase : {"redirecting", "opening", "body"}, next : Opens \cup {NoRedirect},
          done : 0 .. MaxRedirs, undo : Seq(Entry)]
Promises == UNION {[S -> Desc] : S \in SUBSET UserNumbers}

Opening(frame) == frame.phase = "opening" => frame.next \in Opens /\ frame.done < MaxRedirs

TypedAt(t, u, x, st, pr, lap) ==
    /\ t \in Tables
    /\ u \in Seq(Entry)
    /\ x \in Seq(Entry)
    /\ st \in Seq(Frame)
    /\ \A d \in DOMAIN st : Opening(st[d])
    /\ pr \in Seq(Promises) /\ Len(pr) = Len(st)
    /\ lap \in Seq(SUBSET UserNumbers) /\ Len(lap) = Len(st)

Typed == TypedAt(fds, redirection_undo_list, exec_redirection_undo_list, stack, promises, lapsed)

LEMMA Bounds ==
    /\ Base \in Nat /\ Base > 3 /\ Limit \in Nat /\ Limit >= Base
    /\ Numbers \subseteq Nat /\ UserNumbers \subseteq Numbers
    /\ 1 \in UserNumbers /\ 2 \in UserNumbers /\ NoNumber \notin Numbers
    /\ MaxRedirs \in Nat /\ MaxDepth \in Nat /\ Closed \notin Files
  BY RedirAssumption DEF Numbers, UserNumbers, NoNumber

LEMMA LowestFree ==
  ASSUME NEW t, NEW from \in Nat
  PROVE  \/ /\ Lowest(t, from) = NoNumber
            /\ \A n \in Numbers : n >= from => IsOpen(t, n)
         \/ /\ Lowest(t, from) \in Numbers /\ Lowest(t, from) # NoNumber
            /\ Lowest(t, from) >= from
            /\ ~IsOpen(t, Lowest(t, from))
  <1> DEFINE free == {n \in Numbers : n >= from /\ ~IsOpen(t, n)}
  <1>1. Lowest(t, from) = IF free = {} THEN NoNumber ELSE Min(free)
    BY DEF Lowest
  <1>2. free \in SUBSET Nat
    BY Bounds
  <1>3. CASE free = {}
    BY <1>1, <1>3
  <1>4. CASE free # {}
    <2> HIDE DEF free
    <2>1. Min(free) \in free
      BY <1>2, <1>4, LeastElement
    <2> QED BY <1>1, <1>4, <2>1, Bounds DEF free
  <1> QED BY <1>3, <1>4

LEMMA DescType ==
    /\ Nothing \in Desc
    /\ \A file \in Files : Opened(file) \in Desc
    /\ \A t \in Tables, n \in Numbers : t[n].file \in Files \cup {Closed} /\ t[n].cloexec \in BOOLEAN
  BY DEF Nothing, Desc, Opened, Tables

LEMMA SetType ==
  ASSUME NEW t \in Tables, NEW n \in Numbers, NEW d \in Desc
  PROVE  /\ [t EXCEPT ![n] = d] \in Tables
         /\ [t EXCEPT ![n] = d][n] = d
         /\ \A m \in Numbers : m # n => [t EXCEPT ![n] = d][m] = t[m]
  BY DEF Tables

LEMMA DuplicatedType ==
  ASSUME NEW t \in Tables, NEW from \in Numbers, NEW to \in Numbers, NEW b \in BOOLEAN
  PROVE  Duplicated(t, from, to, b) \in Tables
  <1>1. to \in Nat
    BY Bounds
  <1>2. [file |-> t[from].file, cloexec |-> to > 2 /\ t[from].cloexec /\ ~b] \in Desc
    BY <1>1, DescType DEF Desc
  <1> QED BY <1>2, SetType DEF Duplicated

LEMMA EntryType ==
    /\ \A fd \in Numbers : Closer(fd) \in Entry
    /\ \A fd, saved \in Numbers, b \in BOOLEAN : Restore(fd, saved, b) \in Entry
  BY DEF Closer, Restore, Entry, UndoEntry

LEMMA PushOne ==
  ASSUME NEW S, NEW list \in Seq(S), NEW e \in S
  PROVE  /\ <<e>> \o list \in Seq(S)
         /\ Len(<<e>> \o list) = Len(list) + 1
         /\ (<<e>> \o list)[1] = e
         /\ \A i \in 1 .. Len(list) : (<<e>> \o list)[i + 1] = list[i]
  <1>1. <<e>> \in Seq(S) /\ Len(<<e>>) = 1 /\ <<e>>[1] = e
    OBVIOUS
  <1>2. Len(list) \in Nat
    OBVIOUS
  <1> DEFINE s == <<e>>
  <1> HIDE DEF s
  <1>3. /\ s \o list \in Seq(S)
        /\ Len(s \o list) = 1 + Len(list)
        /\ \A i \in 1 .. 1 + Len(list) : (s \o list)[i] = IF i <= 1 THEN s[i] ELSE list[i - 1]
    BY <1>1, ConcatProperties DEF s
  <1>4. \A i \in 1 .. Len(list) : (s \o list)[i + 1] = list[i]
    <2> TAKE i \in 1 .. Len(list)
    <2>1. i + 1 \in 1 .. 1 + Len(list) /\ ~(i + 1 <= 1) /\ i + 1 - 1 = i
      BY <1>2
    <2> QED BY <1>3, <2>1
  <1> QED BY <1>1, <1>2, <1>3, <1>4 DEF s

LEMMA PushTwo ==
  ASSUME NEW S, NEW list \in Seq(S), NEW e \in S, NEW f \in S
  PROVE  /\ <<e, f>> \o list \in Seq(S)
         /\ Len(<<e, f>> \o list) = Len(list) + 2
         /\ (<<e, f>> \o list)[1] = e /\ (<<e, f>> \o list)[2] = f
         /\ \A i \in 1 .. Len(list) : (<<e, f>> \o list)[i + 2] = list[i]
  <1>1. <<e, f>> \in Seq(S) /\ Len(<<e, f>>) = 2 /\ <<e, f>>[1] = e /\ <<e, f>>[2] = f
    OBVIOUS
  <1>2. Len(list) \in Nat
    OBVIOUS
  <1> DEFINE s == <<e, f>>
  <1> HIDE DEF s
  <1>3. /\ s \o list \in Seq(S)
        /\ Len(s \o list) = 2 + Len(list)
        /\ \A i \in 1 .. 2 + Len(list) : (s \o list)[i] = IF i <= 2 THEN s[i] ELSE list[i - 2]
    BY <1>1, ConcatProperties DEF s
  <1>4. \A i \in 1 .. Len(list) : (s \o list)[i + 2] = list[i]
    <2> TAKE i \in 1 .. Len(list)
    <2>1. i + 2 \in 1 .. 2 + Len(list) /\ ~(i + 2 <= 2) /\ i + 2 - 2 = i
      BY <1>2
    <2> QED BY <1>3, <2>1
  <1> QED BY <1>1, <1>2, <1>3, <1>4 DEF s

\* The fields of a state of redirections; states with the same fields are equal.
LEMMA RedirsFields ==
    /\ \A s \in Redirs : /\ s.ok \in BOOLEAN /\ s.fds \in Tables
                         /\ s.undo \in Seq(Entry) /\ s.exec \in Seq(Entry)
                         /\ s = [ok |-> s.ok, fds |-> s.fds, undo |-> s.undo, exec |-> s.exec]
    /\ \A b \in BOOLEAN, t \in Tables, u, x \in Seq(Entry) :
         [ok |-> b, fds |-> t, undo |-> u, exec |-> x] \in Redirs
  BY DEF Redirs

-----------------------------------------------------------------------------
(***************************************************************************)
(* The operations on a state of redirections, field by field.              *)
(***************************************************************************)
WithTable(s, t) == [ok |-> s.ok, fds |-> t, undo |-> s.undo, exec |-> s.exec]

Recorded(s, fd) ==
    [ok |-> s.ok, fds |-> s.fds, undo |-> <<Closer(fd)>> \o s.undo, exec |-> s.exec]

Copy(t, fd) == [file |-> t[fd].file, cloexec |-> TRUE]
Saved(s, fd, k) ==
    [ok |-> s.ok, fds |-> [s.fds EXCEPT ![k] = Copy(s.fds, fd)],
     undo |-> <<Restore(fd, k, fd >= 3 /\ ~s.fds[fd].cloexec), Closer(k)>> \o s.undo,
     exec |-> <<Closer(k)>> \o s.exec]

LEMMA FieldsOf ==
  ASSUME NEW s \in Redirs
  PROVE  /\ \A t \in Tables : [s EXCEPT !.fds = t] = WithTable(s, t)
         /\ Fail(s) = [ok |-> FALSE, fds |-> s.fds, undo |-> s.undo, exec |-> s.exec]
         /\ [s EXCEPT !.ok = TRUE] = [ok |-> TRUE, fds |-> s.fds, undo |-> s.undo, exec |-> s.exec]
         /\ \A fd \in Numbers : AddUndoClose(s, fd) = Recorded(s, fd)
  <1> DEFINE o == s.ok
             t == s.fds
             u == s.undo
             x == s.exec
  <1>1. s = [ok |-> o, fds |-> t, undo |-> u, exec |-> x]
    BY RedirsFields
  <1> HIDE DEF o, t, u, x
  <1>2. o = s.ok /\ t = s.fds /\ u = s.undo /\ x = s.exec
    BY DEF o, t, u, x
  <1>3. \A v \in Tables : [s EXCEPT !.fds = v] = WithTable(s, v)
    BY <1>1 DEF WithTable
  <1>5. ASSUME NEW b PROVE [s EXCEPT !.ok = b] = [ok |-> b, fds |-> t, undo |-> u, exec |-> x]
    <2> DEFINE z == [s EXCEPT !.ok = b]
    <2>1. z = [[ok |-> o, fds |-> t, undo |-> u, exec |-> x] EXCEPT !.ok = b]
      BY <1>1, Zenon
    <2> HIDE DEF z
    <2>2. z = [ok |-> b, fds |-> t, undo |-> u, exec |-> x]
      BY <2>1
    <2> QED BY <2>2 DEF z
  <1>6. /\ Fail(s) = [ok |-> FALSE, fds |-> s.fds, undo |-> s.undo, exec |-> s.exec]
        /\ [s EXCEPT !.ok = TRUE] = [ok |-> TRUE, fds |-> s.fds, undo |-> s.undo, exec |-> s.exec]
    BY <1>2, <1>5, Zenon DEF Fail
  <1>7. ASSUME NEW fd \in Numbers PROVE AddUndoClose(s, fd) = Recorded(s, fd)
    <2> DEFINE z == AddUndoClose(s, fd)
               c == <<Closer(fd)>>
    <2>1. z = [s EXCEPT !.undo = c \o @]
      BY DEF AddUndoClose
    <2> HIDE DEF z, c
    <2>2. z = [ok |-> o, fds |-> t, undo |-> c \o u, exec |-> x]
      BY <1>1, <2>1
    <2> QED BY <1>2, <2>2 DEF z, c, Recorded
  <1> QED BY <1>3, <1>6, <1>7

LEMMA CopyType ==
  ASSUME NEW t \in Tables, NEW fd \in Numbers
  PROVE  Copy(t, fd) \in Desc /\ (fd >= 3 /\ ~t[fd].cloexec) \in BOOLEAN
  BY DescType DEF Copy, Desc

LEMMA RecordedType ==
  ASSUME NEW s \in Redirs, NEW fd \in Numbers
  PROVE  Recorded(s, fd) \in Redirs
  <1>1. <<Closer(fd)>> \o s.undo \in Seq(Entry)
    BY EntryType, RedirsFields, PushOne
  <1> QED BY <1>1, RedirsFields DEF Recorded

LEMMA SavedType ==
  ASSUME NEW s \in Redirs, NEW fd \in Numbers, NEW k \in Numbers
  PROVE  Saved(s, fd, k) \in Redirs
  <1> DEFINE b == fd >= 3 /\ ~s.fds[fd].cloexec
             t == [s.fds EXCEPT ![k] = Copy(s.fds, fd)]
             u == <<Restore(fd, k, b), Closer(k)>> \o s.undo
             x == <<Closer(k)>> \o s.exec
  <1>1. b \in BOOLEAN /\ Copy(s.fds, fd) \in Desc
    BY RedirsFields, CopyType
  <1>2. Saved(s, fd, k) = [ok |-> s.ok, fds |-> t, undo |-> u, exec |-> x]
    BY DEF Saved
  <1> HIDE DEF b
  <1>3. t \in Tables
    BY <1>1, RedirsFields, SetType
  <1>4. Restore(fd, k, b) \in Entry /\ Closer(k) \in Entry
    BY <1>1, EntryType
  <1>5. u \in Seq(Entry) /\ x \in Seq(Entry)
    BY <1>4, RedirsFields, PushOne, PushTwo
  <1> HIDE DEF t, u, x
  <1> QED BY <1>2, <1>3, <1>5, RedirsFields

\* What add_undo_redirect comes to.
LEMMA AddUndoRedirectIs ==
  ASSUME NEW s \in Redirs, NEW fd \in Numbers
  PROVE  \/ /\ AddUndoRedirect(s, fd) = Fail(s)
            /\ IsOpen(s.fds, fd) => \A n \in Numbers : n >= Base => IsOpen(s.fds, n)
         \/ \E k \in Numbers :
              /\ IsOpen(s.fds, fd) /\ ~IsOpen(s.fds, k)
              /\ k >= Base \/ \A n \in Numbers : n >= Base => IsOpen(s.fds, n)
              /\ AddUndoRedirect(s, fd) = Saved(s, fd, k)
  <1> DEFINE high == Lowest(s.fds, Base)
             k == IF high # NoNumber THEN high ELSE Lowest(s.fds, 1)
             o == s.ok
             t == s.fds
             u == s.undo
             x == s.exec
  <1>1. \/ high = NoNumber /\ \A n \in Numbers : n >= Base => IsOpen(s.fds, n)
        \/ high \in Numbers /\ high # NoNumber /\ high >= Base /\ ~IsOpen(s.fds, high)
    BY Bounds, LowestFree
  <1>2. \/ Lowest(s.fds, 1) = NoNumber
        \/ Lowest(s.fds, 1) \in Numbers /\ ~IsOpen(s.fds, Lowest(s.fds, 1))
    BY LowestFree
  <1>3. \/ k = NoNumber /\ high = NoNumber
        \/ k \in Numbers /\ k # NoNumber /\ ~IsOpen(s.fds, k) /\ (k >= Base \/ high = NoNumber)
    BY <1>1, <1>2, Bounds
  <1>4. s = [ok |-> o, fds |-> t, undo |-> u, exec |-> x]
    BY RedirsFields
  <1>5. AddUndoRedirect(s, fd) =
          IF ~IsOpen(s.fds, fd) \/ k = NoNumber THEN Fail(s)
          ELSE [s EXCEPT !.fds[k] = [file |-> s.fds[fd].file, cloexec |-> TRUE],
                         !.undo = <<Restore(fd, k, fd >= 3 /\ ~s.fds[fd].cloexec), Closer(k)>> \o @,
                         !.exec = <<Closer(k)>> \o @]
    BY DEF AddUndoRedirect
  <1> HIDE DEF high, k
  <1>6. CASE ~IsOpen(s.fds, fd) \/ k = NoNumber
    BY <1>1, <1>3, <1>5, <1>6
  <1>7. CASE IsOpen(s.fds, fd) /\ k # NoNumber
    <2>1. t = s.fds /\ u = s.undo /\ x = s.exec /\ o = s.ok
      OBVIOUS
    <2> HIDE DEF t, u, x, o
    <2>2. AddUndoRedirect(s, fd) = Saved(s, fd, k)
      BY <1>4, <1>5, <1>7, <2>1 DEF Saved, Copy
    <2> QED BY <1>1, <1>3, <1>7, <2>2
  <1> QED BY <1>6, <1>7

LEMMA FailType == ASSUME NEW s \in Redirs PROVE Fail(s) \in Redirs
  <1> DEFINE b == FALSE
  <1>1. Fail(s) = [ok |-> b, fds |-> s.fds, undo |-> s.undo, exec |-> s.exec]
    BY FieldsOf, Zenon
  <1>2. b \in BOOLEAN
    OBVIOUS
  <1> HIDE DEF b
  <1> QED BY <1>1, <1>2, RedirsFields

LEMMA AddUndoRedirectType ==
  ASSUME NEW s \in Redirs, NEW fd \in Numbers
  PROVE  AddUndoRedirect(s, fd) \in Redirs
  BY AddUndoRedirectIs, FailType, SavedType

LEMMA RememberType ==
  ASSUME NEW s \in Redirs, NEW fd \in Numbers
  PROVE  Remember(s, fd) \in Redirs
  BY AddUndoRedirectType, FieldsOf, RecordedType DEF Remember

LEMMA WithTableType ==
  ASSUME NEW s \in Redirs, NEW t \in Tables
  PROVE  WithTable(s, t) \in Redirs
  BY RedirsFields DEF WithTable

\* The operations on descriptors.
OpenedAt(s, n, file) == WithTable(s, [s.fds EXCEPT ![n] = Opened(file)])
ClosedAt(s, n) == WithTable(s, [s.fds EXCEPT ![n] = Nothing])
CopiedTo(s, from, to) == WithTable(s, Duplicated(s.fds, from, to, FALSE))

LEMMA SettersType ==
  ASSUME NEW s \in Redirs, NEW n \in Numbers, NEW m \in Numbers, NEW file \in Files
  PROVE  OpenedAt(s, n, file) \in Redirs /\ ClosedAt(s, n) \in Redirs /\ CopiedTo(s, m, n) \in Redirs
  <1> DEFINE b == FALSE
  <1>1. b \in BOOLEAN
    OBVIOUS
  <1> HIDE DEF b
  <1>2. Duplicated(s.fds, m, n, b) \in Tables
    BY <1>1, RedirsFields, DuplicatedType
  <1>3. Duplicated(s.fds, m, n, FALSE) \in Tables
    BY <1>2 DEF b
  <1>4. [s.fds EXCEPT ![n] = Opened(file)] \in Tables /\ [s.fds EXCEPT ![n] = Nothing] \in Tables
    BY RedirsFields, DescType, SetType
  <1> QED BY <1>3, <1>4, WithTableType DEF OpenedAt, ClosedAt, CopiedTo

OpenFileSaved(s, fd, file, temp) ==
    IF temp = fd THEN AddUndoClose(OpenedAt(s, temp, file), fd) ELSE Remember(OpenedAt(s, temp, file), fd)

LEMMA OpenFileIs ==
  ASSUME NEW s \in Redirs, NEW fd \in Numbers, NEW file \in Files, NEW temp, NEW saved,
         temp = Lowest(s.fds, 1), saved = OpenFileSaved(s, fd, file, temp)
  PROVE  OpenFile(s, fd, file) =
           IF temp = NoNumber THEN Fail(s)
           ELSE IF ~saved.ok THEN ClosedAt(saved, temp)
           ELSE IF temp = fd THEN saved
           ELSE ClosedAt(CopiedTo(saved, temp, fd), temp)
  <1>1. CASE temp = NoNumber
    BY <1>1 DEF OpenFile
  <1>2. CASE temp # NoNumber
    <2>1. temp \in Numbers
      BY <1>2, LowestFree
    <2>2. [s EXCEPT !.fds[temp] = Opened(file)] = OpenedAt(s, temp, file)
      <3>1. s = [ok |-> s.ok, fds |-> s.fds, undo |-> s.undo, exec |-> s.exec]
        BY RedirsFields
      <3> QED BY <3>1 DEF OpenedAt, WithTable
    <2>3. OpenedAt(s, temp, file) \in Redirs
      BY <2>1, SettersType
    <2>4. saved \in Redirs
      BY <2>3, FieldsOf, RecordedType, RememberType DEF OpenFileSaved
    <2>5. [saved EXCEPT !.fds[temp] = Nothing] = ClosedAt(saved, temp)
      <3>1. saved = [ok |-> saved.ok, fds |-> saved.fds, undo |-> saved.undo, exec |-> saved.exec]
        BY <2>4, RedirsFields
      <3> QED BY <3>1 DEF ClosedAt, WithTable
    <2>6. CopiedTo(saved, temp, fd) \in Redirs
      BY <2>1, <2>4, SettersType
    <2>7. Duplicated(saved.fds, temp, fd, FALSE) = CopiedTo(saved, temp, fd).fds
      BY DEF CopiedTo, WithTable
    <2>8. [CopiedTo(saved, temp, fd).fds EXCEPT ![temp] = Nothing] \in Tables
      BY <2>1, <2>6, RedirsFields, DescType, SetType
    <2>9. [saved EXCEPT !.fds = [Duplicated(saved.fds, temp, fd, FALSE) EXCEPT ![temp] = Nothing]]
             = ClosedAt(CopiedTo(saved, temp, fd), temp)
      <3> DEFINE t == [CopiedTo(saved, temp, fd).fds EXCEPT ![temp] = Nothing]
      <3>1. WithTable(saved, t) = ClosedAt(CopiedTo(saved, temp, fd), temp)
        BY DEF ClosedAt, CopiedTo, WithTable
      <3>2. [saved EXCEPT !.fds = t] = WithTable(saved, t)
        <4> HIDE DEF t
        <4>1. t \in Tables
          BY <2>8 DEF t
        <4> QED BY <2>4, <4>1, FieldsOf
      <3> QED BY <2>7, <3>1, <3>2
    <2> DEFINE open == [s EXCEPT !.fds[temp] = Opened(file)]
               sv == IF temp = fd THEN AddUndoClose(open, fd) ELSE Remember(open, fd)
    <2>10. sv = saved
      BY <2>2 DEF OpenFileSaved
    <2>11. OpenFile(s, fd, file) =
             IF ~sv.ok THEN [sv EXCEPT !.fds[temp] = Nothing]
             ELSE IF temp = fd THEN sv
             ELSE [sv EXCEPT !.fds = [Duplicated(@, temp, fd, FALSE) EXCEPT ![temp] = Nothing]]
      BY <1>2 DEF OpenFile
    <2> HIDE DEF sv
    <2> QED BY <1>2, <2>5, <2>9, <2>10, <2>11
  <1> QED BY <1>1, <1>2

LEMMA OpenFileType ==
  ASSUME NEW s \in Redirs, NEW fd \in Numbers, NEW file \in Files
  PROVE  OpenFile(s, fd, file) \in Redirs
  <1> DEFINE temp == Lowest(s.fds, 1)
             saved == OpenFileSaved(s, fd, file, temp)
  <1>1. temp \in Numbers \/ temp = NoNumber
    BY LowestFree
  <1>2. OpenFile(s, fd, file) = IF temp = NoNumber THEN Fail(s)
                                ELSE IF ~saved.ok THEN ClosedAt(saved, temp)
                                ELSE IF temp = fd THEN saved
                                ELSE ClosedAt(CopiedTo(saved, temp, fd), temp)
    BY OpenFileIs
  <1> HIDE DEF temp
  <1>3. ASSUME temp \in Numbers PROVE saved \in Redirs
    <2>1. OpenedAt(s, temp, file) \in Redirs
      BY <1>3, SettersType
    <2> QED BY <2>1, FieldsOf, RecordedType, RememberType DEF OpenFileSaved
  <1> HIDE DEF saved
  <1> QED BY <1>1, <1>2, <1>3, SettersType, FailType

LEMMA OpenBothIs ==
  ASSUME NEW s \in Redirs, NEW file \in Files, NEW out, out = OpenFile(s, 1, file)
  PROVE  OpenBoth(s, file) =
           IF ~out.ok THEN out
           ELSE CopiedTo([AddUndoRedirect(out, 2) EXCEPT !.ok = TRUE], 1, 2)
  <1> DEFINE saved == [AddUndoRedirect(out, 2) EXCEPT !.ok = TRUE]
             ok == TRUE
  <1>1. out \in Redirs
    BY OpenFileType, Bounds
  <1>2. AddUndoRedirect(out, 2) \in Redirs
    BY <1>1, AddUndoRedirectType, Bounds
  <1>3. ok \in BOOLEAN
    OBVIOUS
  <1>4. saved = [ok |-> ok, fds |-> AddUndoRedirect(out, 2).fds, undo |-> AddUndoRedirect(out, 2).undo,
                 exec |-> AddUndoRedirect(out, 2).exec]
    BY <1>2, FieldsOf
  <1> HIDE DEF ok
  <1>5. saved \in Redirs
    BY <1>2, <1>3, <1>4, RedirsFields
  <1>6. OpenBoth(s, file) = IF ~out.ok THEN out
                            ELSE [saved EXCEPT !.fds = Duplicated(saved.fds, 1, 2, FALSE)]
    BY DEF OpenBoth
  <1> HIDE DEF saved
  <1>7. CopiedTo(saved, 1, 2) \in Redirs
    BY <1>5, SettersType, Bounds
  <1>8. Duplicated(saved.fds, 1, 2, FALSE) \in Tables
    <2>1. Duplicated(saved.fds, 1, 2, FALSE) = CopiedTo(saved, 1, 2).fds
      BY DEF CopiedTo, WithTable
    <2> QED BY <1>7, <2>1, RedirsFields
  <1>9. [saved EXCEPT !.fds = Duplicated(saved.fds, 1, 2, FALSE)] = CopiedTo(saved, 1, 2)
    BY <1>5, <1>8, FieldsOf DEF CopiedTo
  <1> QED BY <1>6, <1>9 DEF saved

LEMMA DroppedFailure ==
  ASSUME NEW s \in Redirs PROVE [s EXCEPT !.ok = TRUE] \in Redirs
  <1> DEFINE ok == TRUE
  <1>1. ok \in BOOLEAN
    OBVIOUS
  <1>2. [s EXCEPT !.ok = TRUE] = [ok |-> ok, fds |-> s.fds, undo |-> s.undo, exec |-> s.exec]
    BY FieldsOf
  <1> HIDE DEF ok
  <1> QED BY <1>1, <1>2, RedirsFields

LEMMA OpenBothType ==
  ASSUME NEW s \in Redirs, NEW file \in Files PROVE OpenBoth(s, file) \in Redirs
  <1> DEFINE out == OpenFile(s, 1, file)
  <1>1. out \in Redirs
    BY OpenFileType, Bounds
  <1>2. [AddUndoRedirect(out, 2) EXCEPT !.ok = TRUE] \in Redirs
    BY <1>1, AddUndoRedirectType, DroppedFailure, Bounds
  <1>3. CopiedTo([AddUndoRedirect(out, 2) EXCEPT !.ok = TRUE], 1, 2) \in Redirs
    BY <1>2, SettersType, Bounds, DescType
  <1> HIDE DEF out
  <1> QED BY <1>1, <1>3, OpenBothIs DEF out

LEMMA DuplicateIs ==
  ASSUME NEW s \in Redirs, NEW fd \in Numbers, NEW from \in Numbers,
         NEW saved, saved = Remember(s, fd)
  PROVE  /\ saved \in Redirs
         /\ Duplicate(s, fd, from) =
              IF fd = from THEN s
              ELSE IF ~saved.ok \/ ~IsOpen(saved.fds, from) THEN Fail(saved)
              ELSE CopiedTo(saved, from, fd)
         /\ Duplicate(s, fd, from) \in Redirs
  <1>1. saved \in Redirs
    BY RememberType
  <1>2. Duplicate(s, fd, from) =
          IF fd = from THEN s
          ELSE IF ~saved.ok \/ ~IsOpen(saved.fds, from) THEN Fail(saved)
          ELSE [saved EXCEPT !.fds = Duplicated(@, from, fd, FALSE)]
    BY DEF Duplicate
  <1>3. [saved EXCEPT !.fds = Duplicated(@, from, fd, FALSE)] = CopiedTo(saved, from, fd)
    <2> DEFINE t == Duplicated(saved.fds, from, fd, FALSE)
    <2>1. saved = [ok |-> saved.ok, fds |-> saved.fds, undo |-> saved.undo, exec |-> saved.exec]
      BY <1>1, RedirsFields
    <2>2. CopiedTo(saved, from, fd) = WithTable(saved, t)
      BY DEF CopiedTo
    <2> HIDE DEF t
    <2>3. [saved EXCEPT !.fds = t] = WithTable(saved, t)
      BY <2>1 DEF WithTable
    <2> QED BY <2>2, <2>3 DEF t
  <1>4. CopiedTo(saved, from, fd) \in Redirs /\ Fail(saved) \in Redirs
    BY <1>1, WithTableType, DuplicatedType, RedirsFields, FailType DEF CopiedTo
  <1> QED BY <1>1, <1>2, <1>3, <1>4, Zenon

MoveSaved(s, fd, from, saved) ==
    IF IsOpen(s.fds, fd) THEN AddUndoRedirect(saved, from) ELSE saved

LEMMA MoveIs ==
  ASSUME NEW s \in Redirs, NEW fd \in Numbers, NEW from \in Numbers,
         NEW saved, saved = Remember(s, fd),
         NEW both, both = MoveSaved(s, fd, from, saved)
  PROVE  /\ saved \in Redirs /\ both \in Redirs
         /\ Move(s, fd, from) =
              IF fd = from THEN s
              ELSE IF ~saved.ok THEN saved
              ELSE IF ~both.ok \/ ~IsOpen(both.fds, from) THEN Fail(both)
              ELSE ClosedAt(CopiedTo(both, from, fd), from)
         /\ Move(s, fd, from) \in Redirs
  <1>1. saved \in Redirs
    BY RememberType
  <1>2. both \in Redirs
    BY <1>1, AddUndoRedirectType DEF MoveSaved
  <1>3. Move(s, fd, from) =
          IF fd = from THEN s
          ELSE IF ~saved.ok THEN saved
          ELSE IF ~both.ok \/ ~IsOpen(both.fds, from) THEN Fail(both)
          ELSE [both EXCEPT !.fds = [Duplicated(@, from, fd, FALSE) EXCEPT ![from] = Nothing]]
    BY DEF Move, MoveSaved
  <1>4. [both EXCEPT !.fds = [Duplicated(@, from, fd, FALSE) EXCEPT ![from] = Nothing]]
           = ClosedAt(CopiedTo(both, from, fd), from)
    <2> DEFINE t == [Duplicated(both.fds, from, fd, FALSE) EXCEPT ![from] = Nothing]
    <2>1. both = [ok |-> both.ok, fds |-> both.fds, undo |-> both.undo, exec |-> both.exec]
      BY <1>2, RedirsFields
    <2>2. ClosedAt(CopiedTo(both, from, fd), from) = WithTable(both, t)
      BY DEF CopiedTo, ClosedAt, WithTable
    <2> HIDE DEF t
    <2>3. [both EXCEPT !.fds = t] = WithTable(both, t)
      BY <2>1 DEF WithTable
    <2> QED BY <2>2, <2>3 DEF t
  <1>5. CopiedTo(both, from, fd) \in Redirs /\ Fail(both) \in Redirs
    BY <1>2, WithTableType, DuplicatedType, RedirsFields, FailType DEF CopiedTo
  <1>6. ClosedAt(CopiedTo(both, from, fd), from) \in Redirs
    BY <1>5, WithTableType, SetType, DescType, RedirsFields DEF ClosedAt
  <1> QED BY <1>1, <1>2, <1>3, <1>4, <1>5, <1>6, Zenon

LEMMA CloseIs ==
  ASSUME NEW s \in Redirs, NEW fd \in Numbers
  PROVE  /\ Remember(s, fd) \in Redirs
         /\ Close(s, fd) = ClosedAt(Remember(s, fd), fd)
         /\ Close(s, fd) \in Redirs
  <1>1. Remember(s, fd) \in Redirs
    BY RememberType
  <1>2. Close(s, fd) = ClosedAt(Remember(s, fd), fd)
    <2> DEFINE r == Remember(s, fd)
    <2>1. r = [ok |-> r.ok, fds |-> r.fds, undo |-> r.undo, exec |-> r.exec]
      BY <1>1, RedirsFields
    <2> HIDE DEF r
    <2>2. [r EXCEPT !.fds[fd] = Nothing] = ClosedAt(r, fd)
      BY <2>1 DEF ClosedAt, WithTable
    <2> QED BY <2>2 DEF r, Close
  <1>3. ClosedAt(Remember(s, fd), fd) \in Redirs
    BY <1>1, WithTableType, SetType, DescType, RedirsFields DEF ClosedAt
  <1> QED BY <1>1, <1>2, <1>3

-----------------------------------------------------------------------------
(***************************************************************************)
(* Undo lists and the unwind-protect list, as recursive functions.         *)
(***************************************************************************)
Partial == [ok : BOOLEAN, fds : Tables]

\* One entry, and its table.
LEMMA UndoneIs ==
  ASSUME NEW s \in Partial, NEW e \in Entry
  PROVE  /\ ~s.ok => Undone(s, e) = s
         /\ s.ok /\ e.ri = "close" =>
              Undone(s, e) = [ok |-> TRUE, fds |-> [s.fds EXCEPT ![e.redirector] = Nothing]]
         /\ s.ok /\ e.ri = "dup" /\ IsOpen(s.fds, e.redir_fd) =>
              Undone(s, e) = [ok |-> TRUE, fds |-> Duplicated(s.fds, e.redir_fd, e.redirector, e.savclexec)]
         /\ Undone(s, e) \in Partial
  <1> DEFINE o == s.ok
             t == s.fds
             w == Duplicated(t, e.redir_fd, e.redirector, e.savclexec)
             c == [t EXCEPT ![e.redirector] = Nothing]
             z == Undone(s, e)
             no == FALSE
  <1>1. s = [ok |-> o, fds |-> t] /\ o \in BOOLEAN /\ t \in Tables
    BY DEF Partial
  <1>2. e.ri \in {"dup", "close"} /\ e.redirector \in Numbers /\ e.savclexec \in BOOLEAN
        /\ (e.ri = "dup" => e.redir_fd \in Numbers)
    BY DEF Entry, UndoEntry
  <1>3. c \in Tables /\ (e.ri = "dup" => w \in Tables)
    BY <1>1, <1>2, SetType, DescType, DuplicatedType
  <1>4. z = IF ~o THEN s
            ELSE IF e.ri = "close" THEN [s EXCEPT !.fds[e.redirector] = Nothing]
            ELSE IF ~IsOpen(t, e.redir_fd) THEN [s EXCEPT !.ok = no]
            ELSE [s EXCEPT !.fds = w]
    BY DEF Undone, Fail
  <1>5. no \in BOOLEAN
    OBVIOUS
  <1> HIDE DEF o, t, z, no
  <1>6. [s EXCEPT !.fds[e.redirector] = Nothing] = [ok |-> o, fds |-> c]
    BY <1>1
  <1>7. [s EXCEPT !.ok = no] = [ok |-> no, fds |-> t]
    BY <1>1
  <1> HIDE DEF w, c
  <1>8. [s EXCEPT !.fds = w] = [ok |-> o, fds |-> w]
    BY <1>1
  <1>9. ~o => z = s
    BY <1>4
  <1>10. o /\ e.ri = "close" => z = [ok |-> o, fds |-> c]
    BY <1>4, <1>6
  <1>11. o /\ e.ri = "dup" /\ IsOpen(t, e.redir_fd) => z = [ok |-> o, fds |-> w]
    BY <1>4, <1>8
  <1>12. o /\ e.ri = "dup" /\ ~IsOpen(t, e.redir_fd) => z = [ok |-> no, fds |-> t]
    BY <1>4, <1>7
  <1>13. z \in Partial
    BY <1>1, <1>2, <1>3, <1>5, <1>9, <1>10, <1>11, <1>12 DEF Partial
  <1>14. o => o = TRUE
    BY <1>1
  <1> QED BY <1>9, <1>10, <1>11, <1>13, <1>14, Zenon DEF o, t, w, c, z

\* The tables that an undo list goes through.
Steps(t, list, h) ==
    \A n \in 0 .. Len(list) :
       /\ h[n] = IF n = 0 THEN [ok |-> TRUE, fds |-> t] ELSE Undone(h[n - 1], list[n])
       /\ h[n] \in Partial

LEMMA UndoExists ==
  ASSUME NEW t \in Tables, NEW list \in Seq(Entry)
  PROVE  \E h : Steps(t, list, h) /\ Undo(t, list) = h[Len(list)].fds
  <1> DEFINE ok == TRUE
             start == [ok |-> ok, fds |-> t]
             N == Len(list)
             h == CHOOSE g : g = [n \in 0 .. N |->
                                    IF n = 0 THEN start ELSE Undone(g[n - 1], list[n])]
             F == [n \in 1 .. N |-> [s \in Partial |-> Undone(s, list[n])]]
  <1>1. Undo(t, list) = h[N].fds
    BY DEF Undo
  <1>2. (\A n \in 0 .. N : h[n] = IF n = 0 THEN start ELSE Undone(h[n - 1], list[n]))
          /\ (\A n \in 0 .. N : h[n] \in Partial) => Steps(t, list, h)
    BY DEF Steps
  <1>3. start \in Partial
    <2>1. ok \in BOOLEAN
      OBVIOUS
    <2> HIDE DEF ok
    <2> QED BY <2>1 DEF Partial
  <1> HIDE DEF start
  <1>4. N \in Nat /\ \A n \in 1 .. N : list[n] \in Entry
    OBVIOUS
  <1> HIDE DEF N
  <1>5. AreSteps(F, N, Partial)
    BY <1>4, UndoneIs DEF AreSteps
  <1>6. \A n \in 1 .. N, s \in Partial : F[n][s] = Undone(s, list[n])
    OBVIOUS
  <1> HIDE DEF F, h
  <1>7. PICK g : Iterates(g, F, N, Partial, start)
    BY <1>3, <1>4, <1>5, IteratedFunction
  <1>8. \A n \in 0 .. N : g[n] = IF n = 0 THEN start ELSE Undone(g[n - 1], list[n])
    <2> TAKE n \in 0 .. N
    <2>1. n # 0 => n - 1 \in 0 .. N /\ n \in 1 .. N
      BY <1>4
    <2> QED BY <1>6, <1>7, <2>1 DEF Iterates
  <1>9. g = [n \in 0 .. N |-> IF n = 0 THEN start ELSE Undone(g[n - 1], list[n])]
    BY <1>7, <1>8 DEF Iterates
  <1>10. h = [n \in 0 .. N |-> IF n = 0 THEN start ELSE Undone(h[n - 1], list[n])]
    BY <1>9 DEF h
  <1>11. \A n \in 0 .. N : h[n] = IF n = 0 THEN start ELSE Undone(h[n - 1], list[n])
    BY <1>10
  <1> DEFINE P == {n \in Nat : n <= N => h[n] \in Partial}
  <1>12. 0 \in P
    BY <1>3, <1>4, <1>11
  <1>13. ASSUME NEW n \in Nat, n \in P PROVE n + 1 \in P
    <2> SUFFICES ASSUME n + 1 <= N PROVE h[n + 1] \in Partial
      OBVIOUS
    <2>1. n + 1 \in 0 .. N /\ n + 1 \in 1 .. N /\ n + 1 # 0 /\ n + 1 - 1 = n
      BY <1>4
    <2>2. h[n] \in Partial
      BY <1>4, <1>13
    <2>3. h[n + 1] = Undone(h[n], list[n + 1])
      BY <1>11, <2>1
    <2> QED BY <1>4, <2>1, <2>2, <2>3, UndoneIs
  <1>14. Nat \subseteq P
    <2> HIDE DEF P
    <2> QED BY <1>12, <1>13, SetInduction
  <1>15. Steps(t, list, h)
    BY <1>2, <1>4, <1>11, <1>14
  <1> QED BY <1>1, <1>15 DEF N

\* Whatever the list, the table stays one.
LEMMA UndoType ==
  ASSUME NEW t \in Tables, NEW list \in Seq(Entry)
  PROVE  Undo(t, list) \in Tables
  <1>1. PICK h : Steps(t, list, h) /\ Undo(t, list) = h[Len(list)].fds
    BY UndoExists
  <1>2. Len(list) \in 0 .. Len(list)
    OBVIOUS
  <1>3. h[Len(list)] \in Partial
    BY <1>1, <1>2 DEF Steps
  <1> QED BY <1>1, <1>3 DEF Partial

\* The same for the unwind-protect list, from the innermost command down to
\* those that stay.
Unwindings(t, depth, h) ==
    \A n \in 0 .. Depth - depth :
       /\ h[n] = IF n = 0 THEN t ELSE Undo(h[n - 1], stack[Depth - n + 1].undo)
       /\ h[n] \in Tables

LEMMA UnwoundExists ==
  ASSUME NEW t \in Tables, stack \in Seq(Frame), NEW depth \in 0 .. Depth
  PROVE  \E h : Unwindings(t, depth, h) /\ Unwound(t, depth) = h[Depth - depth]
  <1> DEFINE N == Depth - depth
             h == CHOOSE g : g = [n \in 0 .. N |->
                                    IF n = 0 THEN t ELSE Undo(g[n - 1], stack[Depth - n + 1].undo)]
             F == [n \in 1 .. N |-> [s \in Tables |-> Undo(s, stack[Depth - n + 1].undo)]]
  <1>1. Unwound(t, depth) = h[N]
    BY DEF Unwound
  <1>2. (\A n \in 0 .. N : h[n] = IF n = 0 THEN t ELSE Undo(h[n - 1], stack[Depth - n + 1].undo))
          /\ (\A n \in 0 .. N : h[n] \in Tables) => Unwindings(t, depth, h)
    BY DEF Unwindings
  <1>3. N \in Nat /\ \A n \in 1 .. N : stack[Depth - n + 1].undo \in Seq(Entry)
    <2>1. Depth \in Nat /\ \A d \in 1 .. Depth : stack[d] \in Frame
      BY DEF Depth
    <2>2. N \in Nat /\ \A n \in 1 .. N : Depth - n + 1 \in 1 .. Depth
      BY <2>1
    <2> QED BY <2>1, <2>2 DEF Frame
  <1> HIDE DEF N
  <1>5. AreSteps(F, N, Tables)
    BY <1>3, UndoType DEF AreSteps
  <1>6. \A n \in 1 .. N, s \in Tables : F[n][s] = Undo(s, stack[Depth - n + 1].undo)
    OBVIOUS
  <1> HIDE DEF F, h
  <1>7. PICK g : Iterates(g, F, N, Tables, t)
    BY <1>3, <1>5, IteratedFunction
  <1>8. \A n \in 0 .. N : g[n] = IF n = 0 THEN t ELSE Undo(g[n - 1], stack[Depth - n + 1].undo)
    <2> TAKE n \in 0 .. N
    <2>1. n # 0 => n - 1 \in 0 .. N /\ n \in 1 .. N
      BY <1>3
    <2> QED BY <1>6, <1>7, <2>1 DEF Iterates
  <1>9. g = [n \in 0 .. N |-> IF n = 0 THEN t ELSE Undo(g[n - 1], stack[Depth - n + 1].undo)]
    BY <1>7, <1>8 DEF Iterates
  <1>10. h = [n \in 0 .. N |-> IF n = 0 THEN t ELSE Undo(h[n - 1], stack[Depth - n + 1].undo)]
    BY <1>9 DEF h
  <1>11. \A n \in 0 .. N : h[n] = IF n = 0 THEN t ELSE Undo(h[n - 1], stack[Depth - n + 1].undo)
    BY <1>10
  <1> DEFINE P == {n \in Nat : n <= N => h[n] \in Tables}
  <1>12. 0 \in P
    BY <1>3, <1>11
  <1>13. ASSUME NEW n \in Nat, n \in P PROVE n + 1 \in P
    <2> SUFFICES ASSUME n + 1 <= N PROVE h[n + 1] \in Tables
      OBVIOUS
    <2>1. n + 1 \in 0 .. N /\ n + 1 \in 1 .. N /\ n + 1 # 0 /\ n + 1 - 1 = n
      BY <1>3
    <2>2. h[n] \in Tables
      BY <1>3, <1>13
    <2>3. h[n + 1] = Undo(h[n], stack[Depth - (n + 1) + 1].undo)
      BY <1>11, <2>1
    <2> QED BY <1>3, <2>1, <2>2, <2>3, UndoType
  <1>14. Nat \subseteq P
    <2> HIDE DEF P
    <2> QED BY <1>12, <1>13, SetInduction
  <1>15. Unwindings(t, depth, h)
    BY <1>2, <1>3, <1>11, <1>14
  <1> QED BY <1>1, <1>15 DEF N

LEMMA UnwoundType ==
  ASSUME NEW t \in Tables, stack \in Seq(Frame), NEW depth \in 0 .. Depth
  PROVE  Unwound(t, depth) \in Tables
  <1>1. PICK h : Unwindings(t, depth, h) /\ Unwound(t, depth) = h[Depth - depth]
    BY UnwoundExists
  <1>2. Depth - depth \in 0 .. Depth - depth
    BY DEF Depth
  <1> QED BY <1>1, <1>2 DEF Unwindings

-----------------------------------------------------------------------------
(***************************************************************************)
(* The steps.  A step begins a command, changes the top of the stack, or   *)
(* ends commands.                                                          *)
(***************************************************************************)
Ending(k) ==
    /\ k \in 0 .. Depth - 1
    /\ stack' = SubSeq(stack, 1, k)
    /\ promises' = SubSeq(promises, 1, k)
    /\ lapsed' = SubSeq(lapsed, 1, k)
    /\ lost' = lost

Topped(frame) == stack # <<>> /\ stack' = [stack EXCEPT ![Depth] = frame]

LEMMA EndingIs ==
  ASSUME Typed, NEW k, Ending(k)
  PROVE  /\ stack' \in Seq(Frame) /\ Len(stack') = k
         /\ promises' \in Seq(Promises) /\ Len(promises') = k
         /\ lapsed' \in Seq(SUBSET UserNumbers) /\ Len(lapsed') = k
         /\ \A d \in 1 .. k : /\ d \in 1 .. Depth /\ stack'[d] = stack[d]
                              /\ promises'[d] = promises[d] /\ lapsed'[d] = lapsed[d]
         /\ k \in Nat /\ Depth \in Nat /\ k < Depth
  <1>1. /\ stack \in Seq(Frame) /\ promises \in Seq(Promises) /\ lapsed \in Seq(SUBSET UserNumbers)
        /\ Depth \in Nat /\ Len(stack) = Depth /\ Len(promises) = Depth /\ Len(lapsed) = Depth
    BY DEF Typed, TypedAt, Depth
  <1>2. k \in 0 .. Depth /\ k \in Nat /\ k < Depth
    BY <1>1 DEF Ending
  <1>3. /\ stack' \in Seq(Frame) /\ Len(stack') = k
        /\ \A d \in 1 .. k : stack'[d] = stack[d]
    BY <1>1, <1>2, ShorterStack DEF Ending
  <1>4. /\ promises' \in Seq(Promises) /\ Len(promises') = k
        /\ \A d \in 1 .. k : promises'[d] = promises[d]
    BY <1>1, <1>2, ShorterStack DEF Ending
  <1>5. /\ lapsed' \in Seq(SUBSET UserNumbers) /\ Len(lapsed') = k
        /\ \A d \in 1 .. k : lapsed'[d] = lapsed[d]
    BY <1>1, <1>2, ShorterStack DEF Ending
  <1>6. \A d \in 1 .. k : d \in 1 .. Depth
    BY <1>1, <1>2
  <1> QED BY <1>1, <1>2, <1>3, <1>4, <1>5, <1>6

LEMMA EndingTyped ==
  ASSUME Typed, NEW k, Ending(k), fds' \in Tables, redirection_undo_list' \in Seq(Entry),
         exec_redirection_undo_list' \in Seq(Entry)
  PROVE  Typed'
  <1>1. \A d \in 1 .. Depth : Opening(stack[d])
    <2>1. stack \in Seq(Frame) /\ \A d \in DOMAIN stack : Opening(stack[d])
      BY DEF Typed, TypedAt
    <2> QED BY <2>1 DEF Depth
  <1>2. \A d \in DOMAIN stack' : d \in 1 .. k
    BY EndingIs
  <1>3. \A d \in DOMAIN stack' : Opening(stack'[d])
    BY <1>1, <1>2, EndingIs
  <1> QED BY <1>3, EndingIs DEF Typed, TypedAt

LEMMA ToppedIs ==
  ASSUME Typed, NEW frame \in Frame, Topped(frame)
  PROVE  /\ stack' \in Seq(Frame) /\ Len(stack') = Depth /\ Depth \in Nat \ {0}
         /\ stack'[Depth] = frame
         /\ \A d \in 1 .. Depth : d # Depth => stack'[d] = stack[d]
  <1>1. stack \in Seq(Frame) /\ Depth \in 1 .. Len(stack) /\ Len(stack) = Depth
    BY DEF Typed, TypedAt, Topped, Depth
  <1> QED BY <1>1, ExceptSeq DEF Topped

LEMMA ToppedTyped ==
  ASSUME Typed, NEW frame \in Frame, Opening(frame), Topped(frame),
         fds' \in Tables, redirection_undo_list' \in Seq(Entry), exec_redirection_undo_list' \in Seq(Entry),
         promises' \in Seq(Promises), Len(promises') = Depth,
         lapsed' \in Seq(SUBSET UserNumbers), Len(lapsed') = Depth
  PROVE  Typed'
  <1>1. \A d \in 1 .. Depth : Opening(stack[d])
    <2>1. stack \in Seq(Frame) /\ \A d \in DOMAIN stack : Opening(stack[d])
      BY DEF Typed, TypedAt
    <2> QED BY <2>1 DEF Depth
  <1>2. \A d \in DOMAIN stack' : d \in 1 .. Depth
    BY ToppedIs
  <1>3. \A d \in DOMAIN stack' : Opening(stack'[d])
    BY <1>1, <1>2, ToppedIs
  <1> QED BY <1>3, ToppedIs DEF Typed, TypedAt

LEMMA PopIs ==
  ASSUME Typed, stack # <<>>, Pop
  PROVE  /\ stack' = SubSeq(stack, 1, Depth - 1)
         /\ Len(stack') = Depth - 1 /\ Depth - 1 \in 0 .. Depth - 1
  <1>1. stack \in Seq(Frame) /\ Depth \in Nat \ {0} /\ Len(stack) = Depth
    BY DEF Typed, TypedAt, Depth
  <1>2. Depth - 1 \in 0 .. Len(stack) /\ Depth - 1 \in 0 .. Depth - 1
    BY <1>1
  <1>3. stack' = SubSeq(stack, 1, Depth - 1)
    BY <1>1 DEF Pop, Front
  <1> QED BY <1>1, <1>2, <1>3, ShorterStack

LEMMA PoppingEnds ==
  ASSUME Typed, stack # <<>>, Pop, Shorten(Len(stack')), UNCHANGED lost
  PROVE  Ending(Depth - 1)
  BY PopIs DEF Ending, Shorten

LEMMA TopType ==
  ASSUME Typed, stack # <<>>
  PROVE  /\ Depth \in Nat \ {0} /\ Depth \in DOMAIN stack /\ DOMAIN stack = 1 .. Depth
         /\ Len(promises) = Depth /\ Len(lapsed) = Depth
         /\ Top \in Frame /\ Opening(Top) /\ Top = stack[Depth]
  BY DEF Typed, TypedAt, Depth, Top

\* The frame after a redirection.
Advanced == [Top EXCEPT !.phase = "redirecting", !.next = NoRedirect, !.done = @ + 1]

LEMMA AdvancedType ==
  ASSUME Typed, stack # <<>>, Top.done < MaxRedirs
  PROVE  Advanced \in Frame /\ Opening(Advanced) /\ Advanced.phase = "redirecting" /\ Advanced.undo = Top.undo
  <1> DEFINE f == Top
  <1>1. f = [phase |-> f.phase, next |-> f.next, done |-> f.done, undo |-> f.undo]
    BY TopType DEF Frame
  <1>2. f.done \in 0 .. MaxRedirs /\ f.undo \in Seq(Entry)
    BY TopType DEF Frame
  <1>3. f.done + 1 \in 0 .. MaxRedirs
    BY <1>2, Bounds
  <1>4. Advanced = [f EXCEPT !.phase = "redirecting", !.next = NoRedirect, !.done = @ + 1]
    BY DEF Advanced
  <1> HIDE DEF f
  <1>5. Advanced = [phase |-> "redirecting", next |-> NoRedirect, done |-> f.done + 1, undo |-> f.undo]
    BY <1>1, <1>4
  <1>6. Advanced \in Frame
    BY <1>2, <1>3, <1>5 DEF Frame
  <1> QED BY <1>5, <1>6 DEF f, Opening

\* While a redirection begins, fewer than the bound have been performed.
LEMMA MayRedirectIs ==
  ASSUME Typed, MayRedirect
  PROVE  stack # <<>> /\ Top.phase = "redirecting" /\ Top.done < MaxRedirs
  <1>1. stack # <<>> /\ Top.phase = "redirecting"
    BY DEF MayRedirect, InPhase
  <1> DEFINE counts == [d \in DOMAIN stack |-> stack[d].done]
  <1>2. DOMAIN stack = 1 .. Depth /\ Depth \in Nat \ {0} /\ \A d \in 1 .. Depth : stack[d].done \in Nat
    <2>1. \A d \in 1 .. Depth : stack[d] \in Frame
      BY DEF Typed, TypedAt, Depth
    <2>2. \A d \in 1 .. Depth : stack[d].done \in 0 .. MaxRedirs
      BY <2>1 DEF Frame
    <2> QED BY <1>1, <2>2, TopType
  <1>3. counts \in Seq(Nat) /\ Len(counts) = Depth
    BY <1>2
  <1>4. counts[Depth] = Top.done /\ Total(counts) < MaxRedirs
    BY <1>1, <1>2, TopType DEF MayRedirect
  <1> HIDE DEF counts
  <1>5. counts # <<>>
    BY <1>2, <1>3
  <1>6. Total(counts) \in Int /\ counts[Depth] <= Total(counts)
    BY <1>3, <1>5, LastOfTotal
  <1>7. Top.done \in Nat
    BY <1>1, <1>2, TopType
  <1> QED BY <1>1, <1>4, <1>6, <1>7, Bounds

LEMMA NowType == ASSUME Typed PROVE Now \in Redirs
  <1> DEFINE ok == TRUE
  <1>1. ok \in BOOLEAN
    OBVIOUS
  <1>2. Now = [ok |-> ok, fds |-> fds, undo |-> redirection_undo_list, exec |-> exec_redirection_undo_list]
    BY DEF Now
  <1> HIDE DEF ok
  <1> QED BY <1>1, <1>2, RedirsFields DEF Typed, TypedAt

LEMMA RedirectedType ==
  ASSUME Typed
  PROVE  /\ \A r \in Others : Redirected(r) \in Redirs
         /\ \A r \in Opens, file \in Files : RedirectedTo(r, file) \in Redirs
  <1>1. Now \in Redirs
    BY NowType
  <1>2. ASSUME NEW r \in Others PROVE Redirected(r) \in Redirs
    <2>1. r.redirector \in Numbers
      BY Bounds DEF Others
    <2>2. CASE r.ri = "dup"
      <3>1. r.redir_fd \in Numbers
        BY <2>2, Bounds DEF Others
      <3>2. Duplicate(Now, r.redirector, r.redir_fd) \in Redirs
        BY <1>1, <2>1, <3>1, DuplicateIs
      <3> QED BY <2>2, <3>2 DEF Redirected
    <2>3. CASE r.ri = "move"
      <3>1. r.redir_fd \in Numbers
        BY <2>3, Bounds DEF Others
      <3>2. Move(Now, r.redirector, r.redir_fd) \in Redirs
        BY <1>1, <2>1, <3>1, MoveIs
      <3> QED BY <2>3, <3>2 DEF Redirected
    <2>4. CASE r.ri = "close"
      <3>1. Close(Now, r.redirector) \in Redirs
        BY <1>1, <2>1, CloseIs
      <3> QED BY <2>4, <3>1 DEF Redirected
    <2> QED BY <2>2, <2>3, <2>4 DEF Others
  <1>3. ASSUME NEW r \in Opens, NEW file \in Files PROVE RedirectedTo(r, file) \in Redirs
    <2>1. r.redirector \in Numbers
      BY Bounds DEF Opens
    <2> QED BY <1>1, <2>1, OpenFileType, OpenBothType DEF RedirectedTo
  <1> QED BY <1>2, <1>3

NewlyTouched(r) == Touched(r) \ DOMAIN Promise
Extended(r) ==
    [n \in DOMAIN Promise \cup NewlyTouched(r) |-> IF n \in NewlyTouched(r) THEN fds[n] ELSE Promise[n]]

LEMMA RecordIs ==
  ASSUME Typed, stack # <<>>, NEW r \in Others \cup Opens, Record(r)
  PROVE  /\ promises' \in Seq(Promises) /\ Len(promises') = Depth
         /\ promises'[Depth] = Extended(r)
         /\ \A d \in 1 .. Depth : d # Depth => promises'[d] = promises[d]
         /\ lapsed' \in Seq(SUBSET UserNumbers) /\ Len(lapsed') = Depth
         /\ lapsed'[Depth] = lapsed[Depth] \cup (Unrecorded(r) \cap NewlyTouched(r))
         /\ \A d \in 1 .. Depth : d # Depth => lapsed'[d] = lapsed[d]
         /\ Touched(r) \subseteq UserNumbers /\ DOMAIN Promise \subseteq UserNumbers
  <1>1. Touched(r) \subseteq UserNumbers
    BY Bounds DEF Touched, Others, Opens
  <1>2. /\ promises \in Seq(Promises) /\ Len(promises) = Depth /\ Depth \in 1 .. Depth
        /\ lapsed \in Seq(SUBSET UserNumbers) /\ Len(lapsed) = Depth /\ fds \in Tables
    BY TopType DEF Typed, TypedAt, Depth
  <1>3. Promise \in Promises /\ lapsed[Depth] \in SUBSET UserNumbers
    BY <1>2 DEF Promise
  <1>4. PICK S \in SUBSET UserNumbers : Promise \in [S -> Desc]
    BY <1>3 DEF Promises
  <1>5. \A n \in UserNumbers : fds[n] \in Desc
    BY <1>2, Bounds DEF Tables
  <1>6. Extended(r) \in Promises
    <2> DEFINE R == DOMAIN Promise \cup NewlyTouched(r)
    <2>1. R \in SUBSET UserNumbers
      BY <1>1, <1>4 DEF NewlyTouched
    <2>2. \A n \in R : n \in NewlyTouched(r) \/ n \in S
      BY <1>4
    <2>3. Extended(r) \in [R -> Desc]
      BY <1>4, <1>5, <2>1, <2>2 DEF Extended
    <2> QED BY <2>1, <2>3 DEF Promises
  <1>7. promises' = [promises EXCEPT ![Depth] = Extended(r)]
    BY DEF Record, Extended, NewlyTouched, Promise
  <1> DEFINE L == lapsed[Depth] \cup (Unrecorded(r) \cap NewlyTouched(r))
  <1>8. lapsed' = [lapsed EXCEPT ![Depth] = L]
    BY DEF Record, NewlyTouched
  <1>9. L \in SUBSET UserNumbers
    BY <1>1, <1>3 DEF NewlyTouched
  <1> HIDE DEF L
  <1>10. /\ promises' \in Seq(Promises) /\ Len(promises') = Depth
         /\ \A d \in 1 .. Depth : promises'[d] = IF d = Depth THEN Extended(r) ELSE promises[d]
    BY <1>2, <1>6, <1>7, ExceptSeq
  <1>11. /\ lapsed' \in Seq(SUBSET UserNumbers) /\ Len(lapsed') = Depth
         /\ \A d \in 1 .. Depth : lapsed'[d] = IF d = Depth THEN L ELSE lapsed[d]
    BY <1>2, <1>8, <1>9, ExceptSeq
  <1> QED BY <1>1, <1>2, <1>4, <1>10, <1>11 DEF L

\* What a redirection comes to, if it is one of those that the code performs.
Advances(r, s) ==
    /\ stack # <<>> /\ Top.phase # "body" /\ Top.done < MaxRedirs /\ s \in Redirs
    /\ \/ /\ r \in Others /\ Top.phase = "redirecting" /\ s = Redirected(r)
       \/ /\ r \in Opens /\ \E file \in Files : s = RedirectedTo(r, file)

Succeeds(r, s) ==
    /\ s.ok /\ Topped(Advanced)
    /\ fds' = s.fds /\ redirection_undo_list' = s.undo /\ exec_redirection_undo_list' = s.exec
    /\ Record(r) /\ lost' = lost

Fails(s) == ~s.ok /\ Refused(s) /\ Ending(Depth - 1)

LEMMA Performs ==
  ASSUME Typed, NEW r, NEW s, Advances(r, s), HPerform(Performed(s), r)
  PROVE  Succeeds(r, s) \/ Fails(s)
  <1>1. stack # <<>> /\ Top.done < MaxRedirs
    BY DEF Advances
  <1>2. CASE s.ok
    <2>1. /\ fds' = s.fds /\ redirection_undo_list' = s.undo /\ exec_redirection_undo_list' = s.exec
          /\ Topped(Advanced)
      BY <1>1, <1>2 DEF HPerform, Performed, SetTop, Topped, Advanced
    <2>2. Len(stack') = Depth
      BY <1>1, <2>1, ToppedIs, AdvancedType
    <2>3. ~(Len(stack') < Depth)
      BY <1>1, <2>2, TopType
    <2> QED BY <1>2, <2>1, <2>3 DEF HPerform, Succeeds
  <1>3. CASE ~s.ok
    <2>1. Refused(s) /\ Pop
      BY <1>3 DEF HPerform, Performed, Refused
    <2>2. Len(stack') = Depth - 1 /\ Depth \in Nat
      BY <1>1, <2>1, PopIs, TopType
    <2>3. Len(stack') < Depth
      BY <2>2
    <2>4. Shorten(Len(stack')) /\ UNCHANGED lost
      BY <2>2, <2>3 DEF HPerform
    <2> QED BY <1>1, <1>3, <2>1, <2>4, PoppingEnds DEF Fails
  <1> QED BY <1>2, <1>3

LEMMA RedirectIs ==
  ASSUME Typed, NEW r \in Others, HPerform(Redirect(r), r)
  PROVE  Advances(r, Redirected(r)) /\ (Succeeds(r, Redirected(r)) \/ Fails(Redirected(r)))
  <1>1. MayRedirect /\ HPerform(Performed(Redirected(r)), r)
    BY DEF HPerform, Redirect
  <1>2. Redirected(r) \in Redirs
    BY RedirectedType
  <1>3. Advances(r, Redirected(r))
    BY <1>1, <1>2, MayRedirectIs DEF Advances
  <1> QED BY <1>1, <1>3, Performs

LEMMA FinishOpenIs ==
  ASSUME Typed, NEW file \in Files, HPerform(FinishOpen(file), Top.next)
  PROVE  LET s == RedirectedTo(Top.next, file)
         IN  Advances(Top.next, s) /\ (Succeeds(Top.next, s) \/ Fails(s))
  <1> DEFINE s == RedirectedTo(Top.next, file)
  <1>1. stack # <<>> /\ Top.phase = "opening" /\ HPerform(Performed(s), Top.next)
    BY DEF HPerform, FinishOpen, InPhase
  <1>2. Top.next \in Opens /\ Top.done < MaxRedirs
    BY <1>1, TopType DEF Opening
  <1>3. s \in Redirs
    BY <1>2, RedirectedType
  <1>4. Advances(Top.next, s)
    BY <1>1, <1>2, <1>3 DEF Advances
  <1> QED BY <1>1, <1>4, Performs

\* The record of a redirection that failed is undone whatever it holds.
LEMMA RefusedTyped ==
  ASSUME Typed, NEW s \in Redirs, Refused(s), NEW k, Ending(k)
  PROVE  Typed'
  <1>1. fds' \in Tables /\ <<>> \in Seq(Entry)
    BY RedirsFields, UndoType DEF Refused
  <1>2. redirection_undo_list' \in Seq(Entry) /\ exec_redirection_undo_list' \in Seq(Entry)
    BY <1>1, RedirsFields DEF Refused
  <1> QED BY <1>1, <1>2, EndingTyped

LEMMA AdvancesTyped ==
  ASSUME Typed, NEW r, NEW s, Advances(r, s), Succeeds(r, s) \/ Fails(s)
  PROVE  Typed'
  <1>0. stack # <<>> /\ Top.done < MaxRedirs /\ s \in Redirs /\ r \in Others \cup Opens
    BY DEF Advances
  <1>1. CASE Succeeds(r, s)
    <2>1. /\ fds' \in Tables /\ redirection_undo_list' \in Seq(Entry)
          /\ exec_redirection_undo_list' \in Seq(Entry)
      BY <1>0, <1>1, RedirsFields DEF Succeeds
    <2>2. /\ promises' \in Seq(Promises) /\ Len(promises') = Depth
          /\ lapsed' \in Seq(SUBSET UserNumbers) /\ Len(lapsed') = Depth
      BY <1>0, <1>1, RecordIs DEF Succeeds
    <2>3. Advanced \in Frame /\ Opening(Advanced) /\ Topped(Advanced)
      BY <1>0, <1>1, AdvancedType DEF Succeeds
    <2> QED BY <2>1, <2>2, <2>3, ToppedTyped
  <1>2. CASE Fails(s)
    BY <1>0, <1>2, RefusedTyped DEF Fails
  <1> QED BY <1>1, <1>2

\* The ending steps but that of a redirection that fails.
EndsOne ==
    \/ HEnd(OpenFails) \/ HEnd(LeaveBody) \/ HEnd(NullCommand) \/ HEnd(ExecKeeps) \/ HEnd(ExecFails)

LEMMA EndsOneIs ==
  ASSUME Typed, EndsOne PROVE stack # <<>> /\ Ending(Depth - 1)
  <1>1. stack # <<>> /\ Pop /\ Shorten(Len(stack')) /\ UNCHANGED lost
    BY DEF EndsOne, HEnd, OpenFails, Refused, LeaveBody, NullCommand, ExecKeeps, ExecFails, InPhase
  <1> QED BY <1>1, PoppingEnds

LEMMA EndsOneTyped ==
  ASSUME Typed, EndsOne PROVE Typed'
  <1>0. stack # <<>> /\ Ending(Depth - 1)
    BY EndsOneIs
  <1>1. /\ fds \in Tables /\ redirection_undo_list \in Seq(Entry)
        /\ exec_redirection_undo_list \in Seq(Entry) /\ <<>> \in Seq(Entry)
    BY DEF Typed, TypedAt
  <1>2. Top.undo \in Seq(Entry)
    BY <1>0, TopType DEF Frame
  <1>3. CASE HEnd(OpenFails)
    <2>1. Now \in Redirs /\ Refused(Now)
      BY <1>3, NowType DEF HEnd, OpenFails
    <2> QED BY <1>0, <2>1, RefusedTyped
  <1>4. ASSUME NEW list \in Seq(Entry), fds' = Undo(fds, list),
               redirection_undo_list' \in {<<>>, redirection_undo_list},
               exec_redirection_undo_list' \in {<<>>, exec_redirection_undo_list}
        PROVE  Typed'
    <2>1. fds' \in Tables
      BY <1>1, <1>4, UndoType
    <2>2. redirection_undo_list' \in Seq(Entry) /\ exec_redirection_undo_list' \in Seq(Entry)
      BY <1>1, <1>4
    <2> QED BY <1>0, <2>1, <2>2, EndingTyped
  <1>5. CASE HEnd(LeaveBody)
    BY <1>2, <1>4, <1>5 DEF HEnd, LeaveBody, UnchangedLists
  <1>6. CASE HEnd(NullCommand)
    BY <1>1, <1>4, <1>6 DEF HEnd, NullCommand
  <1>7. CASE HEnd(ExecKeeps)
    BY <1>1, <1>4, <1>7 DEF HEnd, ExecKeeps
  <1>8. CASE HEnd(ExecFails)
    BY <1>1, <1>4, <1>8 DEF HEnd, ExecFails
  <1> QED BY <1>3, <1>5, <1>6, <1>7, <1>8 DEF EndsOne

LEMMA InterruptEnds ==
  ASSUME Typed, HEnd(Interrupt) PROVE stack # <<>> /\ Ending(0)
  <1>1. stack # <<>> /\ stack' = <<>> /\ Shorten(Len(stack')) /\ lost' = lost
    BY DEF HEnd, Interrupt
  <1>2. <<>> = SubSeq(stack, 1, 0)
    BY SubSeqEmpty
  <1>3. 0 \in 0 .. Depth - 1 /\ Len(stack') = 0
    BY <1>1, TopType
  <1> QED BY <1>1, <1>2, <1>3 DEF Ending, Shorten

LEMMA CatchesType ==
  ASSUME Typed, stack # <<>>, NEW depth \in Catches PROVE depth \in 0 .. Depth - 1
  <1>1. Depth \in Nat \ {0} /\ Sheltered \subseteq 1 .. Depth - 1
    BY TopType DEF Sheltered
  <1>2. CASE Sheltered = {}
    BY <1>1, <1>2 DEF Catches
  <1>3. CASE Sheltered # {}
    <2>1. 1 \in Int /\ Depth - 1 \in Int
      BY <1>1
    <2>2. IsFiniteSet(1 .. Depth - 1)
      BY <2>1, FS_Interval
    <2>3. IsFiniteSet(Sheltered)
      BY <1>1, <2>2, FS_Subset
    <2>4. Sheltered \in SUBSET Int
      BY <1>1
    <2>5. Max(Sheltered) \in Sheltered
      BY <1>3, <2>3, <2>4, LargestElement
    <2>6. Max(Sheltered) \in 1 .. Depth - 1
      BY <1>1, <2>5
    <2>7. depth \in Max(Sheltered) .. Depth - 1
      BY <1>3 DEF Catches
    <2> QED BY <1>1, <2>6, <2>7
  <1> QED BY <1>2, <1>3

LEMMA ErrorEnds ==
  ASSUME Typed, NEW depth \in Catches, HEnd(ExpansionError(depth))
  PROVE  stack # <<>> /\ Ending(depth)
  <1>1. /\ stack # <<>> /\ stack' = SubSeq(stack, 1, depth)
        /\ Shorten(Len(stack')) /\ lost' = lost
    BY DEF HEnd, ExpansionError, InPhase
  <1>2. depth \in 0 .. Depth - 1
    BY <1>1, CatchesType
  <1>3. stack \in Seq(Frame) /\ depth \in 0 .. Len(stack)
    BY <1>2 DEF Typed, TypedAt, Depth
  <1>4. Len(stack') = depth
    BY <1>1, <1>3, ShorterStack
  <1> QED BY <1>1, <1>2, <1>4 DEF Ending, Shorten

LEMMA JumpsTyped ==
  ASSUME Typed, HEnd(Interrupt) \/ \E depth \in Catches : HEnd(ExpansionError(depth))
  PROVE  Typed'
  <1>1. /\ fds \in Tables /\ redirection_undo_list \in Seq(Entry) /\ stack \in Seq(Frame)
        /\ exec_redirection_undo_list \in Seq(Entry) /\ <<>> \in Seq(Entry)
    BY DEF Typed, TypedAt
  <1>2. CASE HEnd(Interrupt)
    <2>1. Ending(0) /\ 0 \in 0 .. Depth
      BY <1>2, InterruptEnds, TopType
    <2>2. fds' \in Tables
      BY <1>1, <1>2, <2>1, UnwoundType DEF HEnd, Interrupt
    <2>3. redirection_undo_list' \in Seq(Entry) /\ exec_redirection_undo_list' \in Seq(Entry)
      BY <1>1, <1>2 DEF HEnd, Interrupt, UnchangedLists
    <2> QED BY <2>1, <2>2, <2>3, EndingTyped
  <1>3. ASSUME NEW depth \in Catches, HEnd(ExpansionError(depth)) PROVE Typed'
    <2>1. Ending(depth) /\ stack # <<>>
      BY <1>3, ErrorEnds
    <2>2. depth \in 0 .. Depth
      BY <2>1, TopType DEF Ending
    <2>3. Undo(fds, redirection_undo_list) \in Tables
      BY <1>1, UndoType
    <2>4. fds' \in Tables
      BY <1>1, <1>3, <2>2, <2>3, UnwoundType DEF HEnd, ExpansionError
    <2>5. redirection_undo_list' \in Seq(Entry) /\ exec_redirection_undo_list' \in Seq(Entry)
      BY <1>1, <1>3 DEF HEnd, ExpansionError
    <2> QED BY <2>1, <2>4, <2>5, EndingTyped
  <1> QED BY <1>2, <1>3

\* The frames of a command that starts to open and of one whose body starts.
Waiting(r) == [Top EXCEPT !.phase = "opening", !.next = r]
Entered == [Top EXCEPT !.phase = "body", !.next = NoRedirect, !.undo = redirection_undo_list]

LEMMA WaitingType ==
  ASSUME Typed, NEW r \in Opens, HSame(StartOpen(r))
  PROVE  /\ stack # <<>> /\ Top.phase = "redirecting" /\ Topped(Waiting(r))
         /\ Waiting(r) \in Frame /\ Opening(Waiting(r))
         /\ Waiting(r).phase = "opening" /\ Waiting(r).undo = Top.undo
  <1>1. stack # <<>> /\ Top.phase = "redirecting" /\ Top.done < MaxRedirs
    BY MayRedirectIs DEF HSame, StartOpen
  <1>2. Topped(Waiting(r))
    BY <1>1 DEF HSame, StartOpen, SetTop, Topped, Waiting
  <1> DEFINE f == Top
  <1>3. f = [phase |-> f.phase, next |-> f.next, done |-> f.done, undo |-> f.undo]
    BY <1>1, TopType DEF Frame
  <1>4. f.done \in 0 .. MaxRedirs /\ f.undo \in Seq(Entry) /\ f.done < MaxRedirs
    BY <1>1, TopType DEF Frame
  <1>5. Waiting(r) = [f EXCEPT !.phase = "opening", !.next = r]
    BY DEF Waiting
  <1> HIDE DEF f
  <1>6. Waiting(r) = [phase |-> "opening", next |-> r, done |-> f.done, undo |-> f.undo]
    BY <1>3, <1>5
  <1>7. Waiting(r) \in Frame /\ Opening(Waiting(r))
    BY <1>4, <1>6 DEF Frame, Opening
  <1> QED BY <1>1, <1>2, <1>6, <1>7 DEF f

LEMMA EnteredType ==
  ASSUME Typed, HSame(EnterBody)
  PROVE  /\ stack # <<>> /\ Top.phase = "redirecting" /\ Topped(Entered)
         /\ Entered \in Frame /\ Opening(Entered)
         /\ Entered.phase = "body" /\ Entered.undo = redirection_undo_list
  <1>1. stack # <<>> /\ Top.phase = "redirecting"
    BY DEF HSame, EnterBody, InPhase
  <1>2. Topped(Entered)
    BY <1>1 DEF HSame, EnterBody, SetTop, Topped, Entered
  <1> DEFINE f == Top
  <1>3. f = [phase |-> f.phase, next |-> f.next, done |-> f.done, undo |-> f.undo]
    BY <1>1, TopType DEF Frame
  <1>4. f.done \in 0 .. MaxRedirs /\ redirection_undo_list \in Seq(Entry)
    BY <1>1, TopType DEF Frame, Typed, TypedAt
  <1>5. Entered = [f EXCEPT !.phase = "body", !.next = NoRedirect, !.undo = redirection_undo_list]
    BY DEF Entered
  <1> HIDE DEF f
  <1>6. Entered = [phase |-> "body", next |-> NoRedirect, done |-> f.done,
                   undo |-> redirection_undo_list]
    BY <1>3, <1>5
  <1>7. Entered \in Frame /\ Opening(Entered)
    BY <1>4, <1>6 DEF Frame, Opening
  <1> QED BY <1>1, <1>2, <1>6, <1>7

LEMMA SameTyped ==
  ASSUME Typed, (\E r \in Opens : HSame(StartOpen(r))) \/ HSame(EnterBody)
  PROVE  Typed'
  <1>1. /\ fds \in Tables /\ redirection_undo_list \in Seq(Entry)
        /\ exec_redirection_undo_list \in Seq(Entry) /\ <<>> \in Seq(Entry)
        /\ promises \in Seq(Promises) /\ Len(promises) = Depth
        /\ lapsed \in Seq(SUBSET UserNumbers) /\ Len(lapsed) = Depth
    BY DEF Typed, TypedAt, Depth
  <1>2. ASSUME NEW r \in Opens, HSame(StartOpen(r)) PROVE Typed'
    <2>1. /\ Waiting(r) \in Frame /\ Opening(Waiting(r)) /\ Topped(Waiting(r))
      BY <1>2, WaitingType
    <2>2. /\ fds' = fds /\ promises' = promises /\ lapsed' = lapsed
          /\ redirection_undo_list' = redirection_undo_list
          /\ exec_redirection_undo_list' = exec_redirection_undo_list
      BY <1>2 DEF HSame, StartOpen, UnchangedLists
    <2> QED BY <1>1, <2>1, <2>2, ToppedTyped
  <1>3. CASE HSame(EnterBody)
    <2>1. Entered \in Frame /\ Opening(Entered) /\ Topped(Entered)
      BY <1>3, EnteredType
    <2>2. /\ fds' = fds /\ promises' = promises /\ lapsed' = lapsed
          /\ redirection_undo_list' = <<>> /\ exec_redirection_undo_list' = <<>>
      BY <1>3 DEF HSame, EnterBody
    <2> QED BY <1>1, <2>1, <2>2, ToppedTyped
  <1> QED BY <1>2, <1>3

LEMMA NoPromise == <<>> \in Promises /\ DOMAIN <<>> = {}
  <1>1. <<>> \in Seq(Desc) /\ Len(<<>>) = 0
    OBVIOUS
  <1>2. <<>> \in [1 .. 0 -> Desc] /\ DOMAIN <<>> = 1 .. 0
    BY <1>1, LenProperties
  <1>3. 1 .. 0 = {} /\ {} \in SUBSET UserNumbers
    OBVIOUS
  <1> QED BY <1>2, <1>3 DEF Promises

\* What begins is on top, and the numbers of a command that it cuts short lapse.
LapsedAtBegin(d) ==
    IF stack[d].phase = "opening" /\ d = Depth THEN DOMAIN promises[d] ELSE lapsed[d]

LEMMA BeginIs ==
  ASSUME Typed, HBegin
  PROVE  /\ stack' \in Seq(Frame) /\ Len(stack') = Depth + 1
         /\ promises' \in Seq(Promises) /\ Len(promises') = Depth + 1
         /\ lapsed' \in Seq(SUBSET UserNumbers) /\ Len(lapsed') = Depth + 1
         /\ \A d \in 1 .. Depth : /\ stack'[d] = stack[d] /\ promises'[d] = promises[d]
                                  /\ lapsed'[d] = LapsedAtBegin(d)
         /\ stack'[Depth + 1] = NewFrame /\ promises'[Depth + 1] = <<>> /\ lapsed'[Depth + 1] = {}
         /\ Depth \in Nat
  <1>1. /\ stack \in Seq(Frame) /\ promises \in Seq(Promises) /\ lapsed \in Seq(SUBSET UserNumbers)
        /\ Depth \in Nat /\ Len(stack) = Depth /\ Len(promises) = Depth /\ Len(lapsed) = Depth
    BY DEF Typed, TypedAt, Depth
  <1>2. NewFrame \in Frame
    BY Bounds DEF NewFrame, Frame
  <1>3. stack' = Append(stack, NewFrame) /\ promises' = Append(promises, <<>>)
    BY DEF HBegin, Begin
  <1> DEFINE L == [d \in DOMAIN lapsed |-> LapsedAtBegin(d)]
  <1>4. lapsed' = Append(L, {})
    BY DEF HBegin, LapsedAtBegin
  <1>5. \A d \in 1 .. Depth : promises[d] \in Promises /\ lapsed[d] \in SUBSET UserNumbers
    BY <1>1
  <1>6. \A p \in Promises : DOMAIN p \in SUBSET UserNumbers
    BY DEF Promises
  <1>7. \A d \in 1 .. Depth : LapsedAtBegin(d) \in SUBSET UserNumbers
    BY <1>5, <1>6 DEF LapsedAtBegin
  <1>8. DOMAIN lapsed = 1 .. Depth
    BY <1>1
  <1>9. /\ L \in Seq(SUBSET UserNumbers) /\ Len(L) = Depth
        /\ \A d \in 1 .. Depth : L[d] = LapsedAtBegin(d)
    BY <1>1, <1>7, <1>8
  <1> HIDE DEF L
  <1>10. /\ lapsed' \in Seq(SUBSET UserNumbers) /\ Len(lapsed') = Depth + 1
         /\ lapsed'[Depth + 1] = {} /\ \A d \in 1 .. Depth : lapsed'[d] = LapsedAtBegin(d)
    BY <1>1, <1>4, <1>9
  <1>11. /\ stack' \in Seq(Frame) /\ Len(stack') = Depth + 1
         /\ stack'[Depth + 1] = NewFrame /\ \A d \in 1 .. Depth : stack'[d] = stack[d]
    BY <1>1, <1>2, <1>3
  <1>12. /\ promises' \in Seq(Promises) /\ Len(promises') = Depth + 1
         /\ promises'[Depth + 1] = <<>> /\ \A d \in 1 .. Depth : promises'[d] = promises[d]
    BY <1>1, <1>3, NoPromise
  <1> QED BY <1>1, <1>10, <1>11, <1>12

LEMMA BeginTyped ==
  ASSUME Typed, HBegin PROVE Typed'
  <1>1. stack \in Seq(Frame) /\ \A d \in DOMAIN stack : Opening(stack[d])
    BY DEF Typed, TypedAt
  <1>2. \A d \in 1 .. Depth : Opening(stack[d])
    BY <1>1 DEF Depth
  <1>3. Opening(NewFrame)
    BY DEF Opening, NewFrame
  <1>4. \A d \in DOMAIN stack' : d \in 1 .. Depth \/ d = Depth + 1
    BY BeginIs
  <1>5. \A d \in DOMAIN stack' : Opening(stack'[d])
    BY <1>2, <1>3, <1>4, BeginIs
  <1>6. /\ fds' \in Tables /\ redirection_undo_list' \in Seq(Entry)
        /\ exec_redirection_undo_list' \in Seq(Entry)
    BY DEF HBegin, Begin, Typed, TypedAt
  <1> QED BY <1>5, <1>6, BeginIs DEF Typed, TypedAt

LEMMA TypedInit == HInit => Typed
  <1> SUFFICES ASSUME HInit PROVE Typed
    OBVIOUS
  <1>1. PICK inherited \in [UserNumbers -> Files] :
          fds = [n \in Numbers |-> IF n < Base THEN Opened(inherited[n]) ELSE Nothing]
    BY DEF HInit, Init
  <1>2. \A n \in Numbers : n < Base => n \in UserNumbers
    BY Bounds DEF Numbers, UserNumbers
  <1>3. \A n \in Numbers : n < Base => Opened(inherited[n]) \in Desc
    BY <1>2, DescType
  <1>4. fds \in Tables
    BY <1>1, <1>3, DescType DEF Tables
  <1> QED BY <1>4 DEF HInit, Init, Typed, TypedAt

LEMMA TypedNext ==
  ASSUME Typed, [HNext]_hvars PROVE Typed'
  <1>1. CASE HBegin
    BY <1>1, BeginTyped
  <1>2. ASSUME NEW r \in Others, HPerform(Redirect(r), r) PROVE Typed'
    BY <1>2, RedirectIs, AdvancesTyped
  <1>3. ASSUME NEW file \in Files, HPerform(FinishOpen(file), Top.next) PROVE Typed'
    BY <1>3, FinishOpenIs, AdvancesTyped
  <1>4. CASE (\E r \in Opens : HSame(StartOpen(r))) \/ HSame(EnterBody)
    BY <1>4, SameTyped
  <1>5. CASE EndsOne
    BY <1>5, EndsOneTyped
  <1>6. CASE HEnd(Interrupt) \/ \E depth \in Catches : HEnd(ExpansionError(depth))
    BY <1>6, JumpsTyped
  <1>7. CASE UNCHANGED hvars
    BY <1>7 DEF hvars, vars, Typed, TypedAt
  <1> QED BY <1>1, <1>2, <1>3, <1>4, <1>5, <1>6, <1>7 DEF HNext, EndsOne

THEOREM AlwaysTyped == HSpec => []Typed
  <1> QED BY TypedInit, TypedNext, PTL DEF HSpec

\* The types of the table, of the undo lists and of the frames (redir.c,
\* execute_cmd.c).
THEOREM RedirTypes == HSpec => []TypeOK
  <1>1. Typed => TypeOK
    <2> SUFFICES ASSUME Typed PROVE TypeOK
      OBVIOUS
    <2>1. \A list \in Seq(Entry) : list \in Seq(UndoEntry)
      BY SeqMonotonic DEF Entry
    <2>2. \A d \in DOMAIN stack : stack[d] \in Frame
      BY DEF Typed, TypedAt
    <2>3. \A d \in DOMAIN stack :
            /\ stack[d].phase \in {"redirecting", "opening", "body"}
            /\ stack[d].next \in Opens \cup {NoRedirect}
            /\ stack[d].done \in 0 .. MaxRedirs
            /\ stack[d].undo \in Seq(UndoEntry)
      BY <2>1, <2>2 DEF Frame
    <2> QED BY <2>1, <2>3 DEF TypeOK, Typed, TypedAt, Tables, Depth
  <1> QED BY <1>1, AlwaysTyped, PTL

-----------------------------------------------------------------------------
(***************************************************************************)
(* Undo lists.  Each save is followed by the entry that closes its copy,   *)
(* and no two entries close the same copy.                                 *)
(***************************************************************************)
High == Base .. Limit

\* What is closed has no flag, and numbers up to 2 never have it.
Clean(t) == \A n \in Numbers : (~IsOpen(t, n) => t[n] = Nothing) /\ (n <= 2 => ~t[n].cloexec)

Saving(list, i) ==
    /\ list[i].redirector \in UserNumbers /\ list[i].redir_fd \in High
    /\ i + 1 \in DOMAIN list /\ list[i + 1] = Closer(list[i].redir_fd)

WellFormed(list) ==
    /\ list \in Seq(Entry)
    /\ \A i \in DOMAIN list : list[i].ri = "dup" => Saving(list, i)
    /\ \A i, j \in DOMAIN list :
         list[i].redirector \in High /\ list[i].redirector = list[j].redirector => i = j

\* A list that closes copies only.
Closes(list) ==
    /\ list \in Seq(Entry)
    /\ \A i \in DOMAIN list : list[i].ri = "close" /\ list[i].redirector \in High

Intact(t, list) == \A n \in Copies(list) : IsOpen(t, n) /\ t[n].cloexec

\* The last entry of a list for a number decides what it refers to afterwards.
Mentions(list, n) == \E i \in DOMAIN list : list[i].redirector = n
Ends(list, n, e) ==
    \E i \in DOMAIN list : /\ e = list[i] /\ e.redirector = n
                           /\ \A j \in DOMAIN list : j > i => list[j].redirector # n
Value(t, e) ==
    IF e.ri = "close" THEN Nothing
    ELSE [file |-> t[e.redir_fd].file, cloexec |-> e.redirector > 2 /\ ~e.savclexec]

Undid(t, list, t2) ==
    /\ t2 \in Tables /\ Clean(t2)
    /\ \A n \in High : t2[n] = IF n \in Copies(list) THEN Nothing ELSE t[n]
    /\ \A n \in UserNumbers : ~Mentions(list, n) => t2[n] = t[n]
    /\ \A n \in UserNumbers : \A e : Ends(list, n, e) => t2[n] = Value(t, e)

LEMMA Kinds ==
    /\ High \subseteq Numbers /\ Numbers = UserNumbers \cup High /\ UserNumbers \cap High = {}
    /\ \A n \in Numbers : n >= Base <=> n \in High
    /\ \A n \in UserNumbers : n \in Nat
    /\ \A n \in High : n \in Nat /\ n > 2
  BY Bounds DEF High, Numbers, UserNumbers

LEMMA CopiesAre ==
  ASSUME NEW list \in Seq(Entry)
  PROVE  /\ Copies(list) \subseteq High
         /\ \A n : n \in Copies(list) <=> n \in High /\ Mentions(list, n)
  <1>1. \A i \in DOMAIN list : list[i].redirector \in Numbers
    BY DEF Entry, UndoEntry
  <1>2. \A i \in DOMAIN list : list[i].redirector >= Base <=> list[i].redirector \in High
    BY <1>1, Kinds
  <1> QED BY <1>2 DEF Copies, Mentions

LEMMA CopyIsClosed ==
  ASSUME NEW list, WellFormed(list), NEW i \in DOMAIN list, list[i].ri = "dup"
  PROVE  /\ list[i].redirector \in UserNumbers /\ list[i].redir_fd \in Copies(list)
         /\ i \in Nat /\ i + 1 \in DOMAIN list /\ list[i + 1].redirector = list[i].redir_fd
         /\ \A j \in DOMAIN list : list[j].redirector = list[i].redir_fd => j = i + 1
  <1>1. Saving(list, i) /\ list \in Seq(Entry)
    BY DEF WellFormed
  <1>2. list[i + 1].redirector = list[i].redir_fd /\ i + 1 \in DOMAIN list /\ list[i].redir_fd \in High
    BY <1>1 DEF Saving, Closer
  <1>3. Mentions(list, list[i].redir_fd)
    BY <1>2 DEF Mentions
  <1>4. \A j \in DOMAIN list : list[j].redirector = list[i].redir_fd => j = i + 1
    BY <1>2 DEF WellFormed
  <1>5. i \in Nat
    BY <1>1
  <1> QED BY <1>1, <1>2, <1>3, <1>4, <1>5, CopiesAre DEF Saving

\* A list that can be performed from end to end.
Runnable(t, list) ==
    /\ list \in Seq(Entry)
    /\ \A i \in DOMAIN list : list[i].ri = "dup" =>
         /\ list[i].redirector \in UserNumbers /\ list[i].redir_fd \in High
         /\ IsOpen(t, list[i].redir_fd) /\ t[list[i].redir_fd].cloexec
         /\ \A j \in DOMAIN list : j < i => list[j].redirector # list[i].redir_fd

LEMMA IntactIsRunnable ==
  ASSUME NEW t, NEW list, WellFormed(list), Intact(t, list) PROVE Runnable(t, list)
  <1>1. list \in Seq(Entry)
    BY DEF WellFormed
  <1>2. ASSUME NEW i \in DOMAIN list, list[i].ri = "dup"
        PROVE  /\ list[i].redirector \in UserNumbers /\ list[i].redir_fd \in High
               /\ IsOpen(t, list[i].redir_fd) /\ t[list[i].redir_fd].cloexec
               /\ \A j \in DOMAIN list : j < i => list[j].redirector # list[i].redir_fd
    <2>1. /\ list[i].redirector \in UserNumbers /\ list[i].redir_fd \in Copies(list) /\ i \in Nat
          /\ \A j \in DOMAIN list : list[j].redirector = list[i].redir_fd => j = i + 1
      BY <1>2, CopyIsClosed
    <2>2. \A j \in DOMAIN list : j \in Nat
      BY <1>1
    <2>3. \A j \in DOMAIN list : j < i => list[j].redirector # list[i].redir_fd
      BY <2>1, <2>2
    <2> QED BY <1>1, <2>1, <2>3, CopiesAre DEF Intact
  <1> QED BY <1>1, <1>2 DEF Runnable

LEMMA ClosesIsRunnable ==
  ASSUME NEW t, NEW list, Closes(list) PROVE Runnable(t, list)
  BY DEF Closes, Runnable

\* The table after the first n entries.
Hit(list, n, m) == \E i \in 1 .. n : list[i].redirector = m
Reached(t, list, n, t2) ==
    /\ t2 \in Tables /\ Clean(t2)
    /\ \A m \in High : t2[m] = IF Hit(list, n, m) THEN Nothing ELSE t[m]
    /\ \A m \in UserNumbers : ~Hit(list, n, m) => t2[m] = t[m]
    /\ \A m \in UserNumbers : \A i \in 1 .. n :
         list[i].redirector = m /\ (\A j \in i + 1 .. n : list[j].redirector # m) =>
           t2[m] = Value(t, list[i])

\* One more entry changes what its number refers to.
LEMMA ReachedStep ==
  ASSUME NEW t \in Tables, NEW list \in Seq(Entry), NEW n \in Nat, n + 1 <= Len(list),
         NEW v, Reached(t, list, n, v),
         NEW d \in Desc, NEW w, w = [v EXCEPT ![list[n + 1].redirector] = d],
         d = Value(t, list[n + 1]), list[n + 1].redirector \in High => d = Nothing,
         d.file = Closed => d = Nothing, list[n + 1].redirector <= 2 => ~d.cloexec
  PROVE  Reached(t, list, n + 1, w)
  <1> DEFINE r == list[n + 1].redirector
  <1>1. r \in Numbers
    <2>1. n + 1 \in 1 .. Len(list)
      OBVIOUS
    <2>2. list[n + 1] \in Entry
      BY <2>1
    <2> QED BY <2>2 DEF Entry, UndoEntry
  <1>2. /\ w \in Tables /\ w[r] = d /\ \A m \in Numbers : m # r => w[m] = v[m]
    <2>1. v \in Tables /\ w = [v EXCEPT ![r] = d]
      BY DEF Reached
    <2> HIDE DEF r
    <2> DEFINE x == [v EXCEPT ![r] = d]
    <2>2. x \in Tables /\ x[r] = d /\ \A m \in Numbers : m # r => x[m] = v[m]
      BY <1>1, <2>1 DEF Tables
    <2>3. w = x
      BY <2>1
    <2> HIDE DEF x
    <2> QED BY <2>2, <2>3
  <1>3. Clean(w)
    BY <1>2 DEF Clean, Reached, IsOpen
  <1>4. \A m : Hit(list, n + 1, m) <=> Hit(list, n, m) \/ m = r
    <2>1. \A i \in 1 .. n + 1 : i \in 1 .. n \/ i = n + 1
      OBVIOUS
    <2>2. n + 1 \in 1 .. n + 1 /\ \A i \in 1 .. n : i \in 1 .. n + 1
      OBVIOUS
    <2> QED BY <2>1, <2>2 DEF Hit
  <1>5. \A m \in High : w[m] = IF Hit(list, n + 1, m) THEN Nothing ELSE t[m]
    BY <1>2, <1>4, Kinds DEF Reached
  <1>6. \A m \in UserNumbers : ~Hit(list, n + 1, m) => w[m] = t[m]
    BY <1>2, <1>4, Kinds DEF Reached
  <1>7. ASSUME NEW m \in UserNumbers, NEW i \in 1 .. n + 1, list[i].redirector = m,
               \A j \in i + 1 .. n + 1 : list[j].redirector # m
        PROVE  w[m] = Value(t, list[i])
    <2>1. CASE i = n + 1
      BY <1>2, <1>7, <2>1
    <2>2. CASE i \in 1 .. n
      <3>1. n + 1 \in i + 1 .. n + 1 /\ \A j \in i + 1 .. n : j \in i + 1 .. n + 1
        BY <2>2
      <3>2. m # r /\ \A j \in i + 1 .. n : list[j].redirector # m
        BY <1>7, <3>1
      <3>3. v[m] = Value(t, list[i])
        BY <1>7, <2>2, <3>2 DEF Reached
      <3> QED BY <1>2, <3>2, <3>3, Bounds
    <2> QED BY <2>1, <2>2
  <1> QED BY <1>2, <1>3, <1>5, <1>6, <1>7 DEF Reached

LEMMA UndoneReaches ==
  ASSUME NEW t \in Tables, NEW list, Runnable(t, list), NEW n \in Nat, n + 1 <= Len(list),
         NEW s \in Partial, s.ok, Reached(t, list, n, s.fds)
  PROVE  LET next == Undone(s, list[n + 1])
         IN  next \in Partial /\ next.ok /\ Reached(t, list, n + 1, next.fds)
  <1> DEFINE e == list[n + 1]
             next == Undone(s, e)
  <1>1. list \in Seq(Entry) /\ n + 1 \in DOMAIN list /\ e \in Entry
    BY DEF Runnable
  <1>2. next \in Partial
    BY <1>1, UndoneIs
  <1>3. s.fds \in Tables /\ e.redirector \in Numbers /\ e.savclexec \in BOOLEAN
    BY <1>1 DEF Partial, Entry, UndoEntry
  <1>4. CASE e.ri = "close"
    <2>1. next = [ok |-> TRUE, fds |-> [s.fds EXCEPT ![e.redirector] = Nothing]]
      BY <1>1, <1>4, UndoneIs, Zenon
    <2>2. next.ok /\ next.fds = [s.fds EXCEPT ![e.redirector] = Nothing]
      BY <2>1
    <2>3. Nothing = Value(t, e)
      BY <1>4 DEF Value
    <2>4. ~Nothing.cloexec
      BY DEF Nothing
    <2> HIDE DEF next
    <2>5. Reached(t, list, n + 1, next.fds)
      BY <1>1, <2>2, <2>3, <2>4, ReachedStep, DescType
    <2> QED BY <1>2, <2>2, <2>5 DEF next
  <1>5. CASE e.ri = "dup"
    <2>1. /\ e.redirector \in UserNumbers /\ e.redir_fd \in High
          /\ IsOpen(t, e.redir_fd) /\ t[e.redir_fd].cloexec
          /\ \A j \in DOMAIN list : j < n + 1 => list[j].redirector # e.redir_fd
      BY <1>1, <1>5 DEF Runnable
    <2>2. ~Hit(list, n, e.redir_fd)
      <3>1. \A j \in 1 .. n : j \in DOMAIN list /\ j < n + 1
        BY <1>1
      <3> QED BY <2>1, <3>1 DEF Hit
    <2>3. s.fds[e.redir_fd] = t[e.redir_fd]
      BY <2>1, <2>2 DEF Reached
    <2>4. IsOpen(s.fds, e.redir_fd)
      BY <2>1, <2>3 DEF IsOpen
    <2> DEFINE d == [file |-> s.fds[e.redir_fd].file,
                     cloexec |-> e.redirector > 2 /\ s.fds[e.redir_fd].cloexec /\ ~e.savclexec]
    <2>5. next = [ok |-> TRUE, fds |-> Duplicated(s.fds, e.redir_fd, e.redirector, e.savclexec)]
      BY <1>1, <1>5, <2>4, UndoneIs, Zenon
    <2>6. next.ok /\ next.fds = [s.fds EXCEPT ![e.redirector] = d]
      BY <2>5 DEF Duplicated
    <2>7. d = Value(t, e)
      BY <1>5, <2>1, <2>3 DEF Value
    <2>8. e.redirector \in Nat /\ e.redirector \notin High
      BY <2>1, Kinds
    <2>9. d \in Desc /\ d.file # Closed /\ (e.redirector <= 2 => ~d.cloexec)
      <3>1. s.fds[e.redir_fd].file \in Files \cup {Closed} /\ s.fds[e.redir_fd].cloexec \in BOOLEAN
        BY <1>3, <2>1, Kinds, DescType
      <3>2. d.file = s.fds[e.redir_fd].file
        OBVIOUS
      <3>3. e.redirector <= 2 => ~(e.redirector > 2)
        BY <2>8
      <3>4. d \in Desc
        BY <1>3, <2>8, <3>1 DEF Desc
      <3> QED BY <2>4, <3>2, <3>3, <3>4 DEF IsOpen
    <2> HIDE DEF d, next
    <2>10. Reached(t, list, n + 1, next.fds)
      BY <1>1, <2>6, <2>7, <2>8, <2>9, ReachedStep
    <2> QED BY <1>2, <2>6, <2>10 DEF next
  <1>6. e.ri = "close" \/ e.ri = "dup"
    BY <1>1 DEF Entry, UndoEntry
  <1> QED BY <1>4, <1>5, <1>6

\* cleanup_redirects does what a list says, if the copies are there.
LEMMA UndoFacts ==
  ASSUME NEW t \in Tables, Clean(t), NEW list, Runnable(t, list)
  PROVE  Undid(t, list, Undo(t, list))
  <1>0. list \in Seq(Entry) /\ Len(list) \in Nat /\ DOMAIN list = 1 .. Len(list)
    BY DEF Runnable
  <1>1. PICK h : Steps(t, list, h) /\ Undo(t, list) = h[Len(list)].fds
    BY <1>0, UndoExists
  <1> DEFINE G == {n \in Nat : n <= Len(list) => h[n].ok /\ Reached(t, list, n, h[n].fds)}
  <1>2. 0 \in G
    <2> DEFINE start == [ok |-> TRUE, fds |-> t]
    <2>1. h[0] = IF 0 = 0 THEN start ELSE Undone(h[0 - 1], list[0])
      <3>1. 0 \in 0 .. Len(list)
        BY <1>0
      <3> QED BY <1>1, <3>1, Zenon DEF Steps
    <2>2. start.ok /\ start.fds = t
      OBVIOUS
    <2> HIDE DEF start
    <2>3. h[0].ok /\ h[0].fds = t
      BY <2>1, <2>2
    <2>4. Reached(t, list, 0, t)
      BY DEF Reached, Hit
    <2> QED BY <2>3, <2>4
  <1>3. ASSUME NEW n \in Nat, n \in G PROVE n + 1 \in G
    <2> SUFFICES ASSUME n + 1 <= Len(list)
                 PROVE  h[n + 1].ok /\ Reached(t, list, n + 1, h[n + 1].fds)
      OBVIOUS
    <2>1. n + 1 \in 0 .. Len(list) /\ n \in 0 .. Len(list) /\ n + 1 # 0 /\ n + 1 - 1 = n
      BY <1>0
    <2>2. h[n + 1] = Undone(h[n], list[n + 1])
      BY <1>1, <2>1 DEF Steps
    <2>3. h[n] \in Partial /\ h[n].ok /\ Reached(t, list, n, h[n].fds)
      BY <1>1, <1>3, <2>1 DEF Steps
    <2> QED BY <2>2, <2>3, UndoneReaches
  <1>4. Nat \subseteq G
    <2> HIDE DEF G
    <2> QED BY <1>2, <1>3, SetInduction
  <1>5. Reached(t, list, Len(list), Undo(t, list))
    BY <1>0, <1>1, <1>4
  <1>6. \A m : Hit(list, Len(list), m) <=> Mentions(list, m)
    BY <1>0 DEF Hit, Mentions
  <1>7. \A m \in High : m \in Copies(list) <=> Hit(list, Len(list), m)
    BY <1>0, <1>6, CopiesAre
  <1>8. ASSUME NEW m \in UserNumbers, NEW e, Ends(list, m, e)
        PROVE  Undo(t, list)[m] = Value(t, e)
    <2>1. PICK i \in 1 .. Len(list) :
             /\ e = list[i] /\ e.redirector = m
             /\ \A j \in DOMAIN list : j > i => list[j].redirector # m
      BY <1>0, <1>8 DEF Ends
    <2>2. \A j \in i + 1 .. Len(list) : list[j].redirector # m
      BY <1>0, <2>1
    <2> QED BY <1>5, <2>1, <2>2 DEF Reached
  <1> QED BY <1>5, <1>6, <1>7, <1>8 DEF Reached, Undid

-----------------------------------------------------------------------------
(***************************************************************************)
(* A list that something is put in front of.                               *)
(***************************************************************************)
Shifted(list, new, m) ==
    /\ list \in Seq(Entry) /\ new \in Seq(Entry) /\ m \in Nat
    /\ Len(new) = Len(list) + m
    /\ \A i \in 1 .. Len(list) : new[i + m] = list[i]

LEMMA ShiftedFacts ==
  ASSUME NEW list, NEW new, NEW m, Shifted(list, new, m)
  PROVE  /\ DOMAIN list = 1 .. Len(list) /\ DOMAIN new = 1 .. Len(list) + m /\ Len(list) \in Nat
         /\ \A i \in DOMAIN list : i \in Nat /\ i + m \in DOMAIN new /\ new[i + m] = list[i]
         /\ \A i \in DOMAIN new : i \in Nat /\ (i > m => i - m \in DOMAIN list /\ new[i] = list[i - m])
         /\ \A n, e : Ends(list, n, e) => Ends(new, n, e)
         /\ \A n : Mentions(list, n) => Mentions(new, n)
  <1>1. /\ DOMAIN list = 1 .. Len(list) /\ DOMAIN new = 1 .. Len(list) + m
        /\ Len(list) \in Nat /\ m \in Nat
    BY DEF Shifted
  <1>2. \A i \in DOMAIN list : i \in Nat /\ i + m \in DOMAIN new /\ new[i + m] = list[i]
    BY <1>1 DEF Shifted
  <1>3. ASSUME NEW i \in DOMAIN new
        PROVE  i \in Nat /\ (i > m => i - m \in DOMAIN list /\ new[i] = list[i - m])
    <2>1. i \in Nat /\ (i > m => i - m \in DOMAIN list /\ i - m + m = i)
      BY <1>1
    <2> QED BY <1>2, <2>1
  <1>4. ASSUME NEW n, NEW e, Ends(list, n, e) PROVE Ends(new, n, e)
    <2>1. PICK i \in DOMAIN list : /\ e = list[i] /\ e.redirector = n
                                   /\ \A j \in DOMAIN list : j > i => list[j].redirector # n
      BY <1>4 DEF Ends
    <2>2. i + m \in DOMAIN new /\ new[i + m] = e /\ i \in Nat
      BY <1>2, <2>1
    <2>3. ASSUME NEW j \in DOMAIN new, j > i + m PROVE new[j].redirector # n
      <3>1. j - m \in DOMAIN list /\ new[j] = list[j - m] /\ j - m > i
        BY <1>1, <1>3, <2>2, <2>3
      <3> QED BY <2>1, <3>1
    <2> QED BY <2>1, <2>2, <2>3 DEF Ends
  <1>5. \A n : Mentions(list, n) => Mentions(new, n)
    BY <1>2 DEF Mentions
  <1> QED BY <1>1, <1>2, <1>3, <1>4, <1>5

LEMMA PushedClose ==
  ASSUME NEW list, WellFormed(list), NEW fd \in UserNumbers,
         NEW new, new = <<Closer(fd)>> \o list
  PROVE  /\ WellFormed(new) /\ Copies(new) = Copies(list)
         /\ \A n : Mentions(new, n) <=> Mentions(list, n) \/ n = fd
         /\ \A n, e : Ends(list, n, e) => Ends(new, n, e)
         /\ ~Mentions(list, fd) => Ends(new, fd, Closer(fd))
  <1>1. list \in Seq(Entry) /\ fd \in Numbers /\ Closer(fd) \in Entry
    BY Bounds, EntryType DEF WellFormed
  <1>2. Shifted(list, new, 1) /\ new[1] = Closer(fd) /\ new \in Seq(Entry)
    BY <1>1, PushOne DEF Shifted
  <1>3. /\ DOMAIN list = 1 .. Len(list) /\ DOMAIN new = 1 .. Len(list) + 1 /\ Len(list) \in Nat
        /\ \A i \in DOMAIN list : i \in Nat /\ i + 1 \in DOMAIN new /\ new[i + 1] = list[i]
        /\ \A i \in DOMAIN new : i \in Nat /\ (i > 1 => i - 1 \in DOMAIN list /\ new[i] = list[i - 1])
        /\ \A n, e : Ends(list, n, e) => Ends(new, n, e)
    BY <1>2, ShiftedFacts
  <1>4. 1 \in DOMAIN new /\ new[1].ri = "close" /\ new[1].redirector = fd
    BY <1>2, <1>3 DEF Closer
  <1>5. \A i \in DOMAIN new : i = 1 \/ i > 1
    BY <1>3
  <1>6. ASSUME NEW i \in DOMAIN new, new[i].ri = "dup" PROVE Saving(new, i)
    <2>1. i > 1 /\ i - 1 \in DOMAIN list /\ new[i] = list[i - 1] /\ i - 1 + 1 = i /\ i \in Nat
      BY <1>3, <1>4, <1>5, <1>6
    <2>2. Saving(list, i - 1)
      BY <1>6, <2>1 DEF WellFormed
    <2>3. i \in DOMAIN list /\ list[i] = Closer(new[i].redir_fd)
      BY <2>1, <2>2 DEF Saving
    <2>4. i + 1 \in DOMAIN new /\ new[i + 1] = list[i]
      BY <1>3, <2>3
    <2> QED BY <2>1, <2>2, <2>3, <2>4 DEF Saving
  <1>7. ASSUME NEW i \in DOMAIN new, NEW j \in DOMAIN new,
               new[i].redirector \in High, new[i].redirector = new[j].redirector
        PROVE  i = j
    <2>1. i > 1 /\ j > 1
      BY <1>4, <1>5, <1>7, Kinds
    <2>2. /\ i - 1 \in DOMAIN list /\ new[i] = list[i - 1] /\ i \in Nat
          /\ j - 1 \in DOMAIN list /\ new[j] = list[j - 1] /\ j \in Nat
      BY <1>3, <2>1
    <2>3. i - 1 = j - 1
      BY <1>7, <2>2 DEF WellFormed
    <2> QED BY <2>2, <2>3
  <1>8. \A n : Mentions(new, n) <=> Mentions(list, n) \/ n = fd
    BY <1>3, <1>4, <1>5 DEF Mentions
  <1>9. Copies(new) = Copies(list)
    BY <1>1, <1>2, <1>8, CopiesAre, Kinds
  <1>10. ASSUME ~Mentions(list, fd) PROVE Ends(new, fd, Closer(fd))
    <2>1. \A j \in DOMAIN new : j > 1 => new[j].redirector # fd
      BY <1>3, <1>10 DEF Mentions
    <2> QED BY <1>2, <1>4, <2>1 DEF Ends
  <1>11. WellFormed(new)
    BY <1>2, <1>6, <1>7 DEF WellFormed
  <1> QED BY <1>3, <1>8, <1>9, <1>10, <1>11

PushesSave(list, new, fd, k, e) ==
    /\ WellFormed(new) /\ Copies(new) = Copies(list) \cup {k}
    /\ \A n \in UserNumbers : Mentions(new, n) <=> Mentions(list, n) \/ n = fd
    /\ \A n, f : Ends(list, n, f) => Ends(new, n, f)
    /\ ~Mentions(list, fd) => Ends(new, fd, e)

LEMMA PushedSave ==
  ASSUME NEW list, WellFormed(list), NEW fd \in UserNumbers, NEW k \in High, k \notin Copies(list),
         NEW e \in Entry, e.ri = "dup", e.redirector = fd, e.redir_fd = k,
         NEW new, new = <<e, Closer(k)>> \o list
  PROVE  PushesSave(list, new, fd, k, e)
  <1>1. /\ list \in Seq(Entry) /\ fd \in Numbers /\ k \in Numbers
        /\ Closer(k) \in Entry
    BY Bounds, Kinds, EntryType DEF WellFormed
  <1>2. Shifted(list, new, 2) /\ new[1] = e /\ new[2] = Closer(k) /\ new \in Seq(Entry)
    BY <1>1, PushTwo DEF Shifted
  <1>3. /\ DOMAIN list = 1 .. Len(list) /\ DOMAIN new = 1 .. Len(list) + 2 /\ Len(list) \in Nat
        /\ \A i \in DOMAIN list : i \in Nat /\ i + 2 \in DOMAIN new /\ new[i + 2] = list[i]
        /\ \A i \in DOMAIN new : i \in Nat /\ (i > 2 => i - 2 \in DOMAIN list /\ new[i] = list[i - 2])
        /\ \A n, f : Ends(list, n, f) => Ends(new, n, f)
    BY <1>2, ShiftedFacts
  <1>4. /\ 1 \in DOMAIN new /\ new[1].ri = "dup" /\ new[1].redirector = fd /\ new[1].redir_fd = k
        /\ 2 \in DOMAIN new /\ new[2].ri = "close" /\ new[2].redirector = k
    BY <1>2, <1>3 DEF Closer
  <1>5. \A i \in DOMAIN new : i = 1 \/ i = 2 \/ i > 2
    BY <1>3
  <1>6. ASSUME NEW i \in DOMAIN new, new[i].ri = "dup" PROVE Saving(new, i)
    <2>1. CASE i = 1
      BY <1>2, <1>4, <2>1 DEF Saving
    <2>2. CASE i > 2
      <3>1. i - 2 \in DOMAIN list /\ new[i] = list[i - 2] /\ i \in Nat
        BY <1>3, <2>2
      <3>2. Saving(list, i - 2)
        BY <1>6, <3>1 DEF WellFormed
      <3>3. i - 2 + 1 = i - 1 /\ i - 1 + 2 = i + 1
        BY <3>1
      <3>4. i - 1 \in DOMAIN list /\ list[i - 1] = Closer(new[i].redir_fd)
        BY <3>1, <3>2, <3>3 DEF Saving
      <3>5. i + 1 \in DOMAIN new /\ new[i + 1] = list[i - 1]
        BY <1>3, <3>3, <3>4
      <3> QED BY <3>1, <3>2, <3>4, <3>5 DEF Saving
    <2> QED BY <1>4, <1>5, <1>6, <2>1, <2>2
  <1>7. \A i \in DOMAIN list : list[i].redirector # k
    BY <1>1, CopiesAre DEF Mentions
  <1>8. ASSUME NEW i \in DOMAIN new, NEW j \in DOMAIN new,
               new[i].redirector \in High, new[i].redirector = new[j].redirector
        PROVE  i = j
    <2>1. i # 1 /\ j # 1
      BY <1>4, <1>8, Kinds
    <2>2. CASE i > 2 /\ j > 2
      <3>1. /\ i - 2 \in DOMAIN list /\ new[i] = list[i - 2] /\ i \in Nat
            /\ j - 2 \in DOMAIN list /\ new[j] = list[j - 2] /\ j \in Nat
        BY <1>3, <2>2
      <3>2. i - 2 = j - 2
        BY <1>8, <3>1 DEF WellFormed
      <3> QED BY <3>1, <3>2
    <2>3. ASSUME NEW l \in DOMAIN new, l > 2 PROVE new[l].redirector # k
      BY <1>3, <1>7, <2>3
    <2> QED BY <1>4, <1>5, <1>8, <2>1, <2>2, <2>3
  <1>9. ASSUME NEW n PROVE Mentions(new, n) <=> Mentions(list, n) \/ n = fd \/ n = k
    <2>1. Mentions(list, n) \/ n = fd \/ n = k => Mentions(new, n)
      <3>1. Mentions(list, n) => Mentions(new, n)
        BY <1>2, ShiftedFacts
      <3>2. n = fd \/ n = k => Mentions(new, n)
        BY <1>4 DEF Mentions
      <3> QED BY <3>1, <3>2
    <2>2. ASSUME NEW i \in DOMAIN new, new[i].redirector = n
          PROVE  Mentions(list, n) \/ n = fd \/ n = k
      <3>1. CASE i = 1 \/ i = 2
        BY <1>4, <2>2, <3>1
      <3>2. CASE i > 2
        BY <1>3, <2>2, <3>2 DEF Mentions
      <3> QED BY <1>5, <3>1, <3>2
    <2> QED BY <2>1, <2>2 DEF Mentions
  <1>10. Copies(new) = Copies(list) \cup {k}
    BY <1>1, <1>2, <1>9, CopiesAre, Kinds
  <1>11. ASSUME ~Mentions(list, fd) PROVE Ends(new, fd, e)
    <2>1. \A j \in DOMAIN new : j > 1 => new[j].redirector # fd
      <3> TAKE j \in DOMAIN new
      <3>1. CASE j = 2
        BY <1>4, <3>1, Kinds
      <3>2. CASE j > 2
        BY <1>3, <1>11, <3>2 DEF Mentions
      <3> QED BY <1>5, <3>1, <3>2
    <2> QED BY <1>2, <1>4, <2>1 DEF Ends
  <1>12. WellFormed(new)
    BY <1>2, <1>6, <1>8 DEF WellFormed
  <1> QED BY <1>3, <1>9, <1>10, <1>11, <1>12, Kinds DEF PushesSave

LEMMA PushedCloser ==
  ASSUME NEW list, Closes(list), NEW k \in High, NEW new, new = <<Closer(k)>> \o list
  PROVE  Closes(new) /\ Copies(new) = Copies(list) \cup {k}
  <1>1. list \in Seq(Entry) /\ k \in Numbers /\ Closer(k) \in Entry
    BY Kinds, EntryType DEF Closes
  <1>2. Shifted(list, new, 1) /\ new[1] = Closer(k) /\ new \in Seq(Entry)
    BY <1>1, PushOne DEF Shifted
  <1>3. /\ DOMAIN new = 1 .. Len(list) + 1 /\ Len(list) \in Nat
        /\ \A i \in DOMAIN list : i \in Nat /\ i + 1 \in DOMAIN new /\ new[i + 1] = list[i]
        /\ \A i \in DOMAIN new : i \in Nat /\ (i > 1 => i - 1 \in DOMAIN list /\ new[i] = list[i - 1])
    BY <1>2, ShiftedFacts
  <1>4. 1 \in DOMAIN new /\ new[1].ri = "close" /\ new[1].redirector = k
    BY <1>2, <1>3 DEF Closer
  <1>5. \A i \in DOMAIN new : i = 1 \/ i > 1
    BY <1>3
  <1>6. \A n : Mentions(new, n) <=> Mentions(list, n) \/ n = k
    BY <1>3, <1>4, <1>5 DEF Mentions
  <1>7. Closes(new)
    BY <1>2, <1>3, <1>4, <1>5 DEF Closes
  <1> QED BY <1>1, <1>2, <1>6, <1>7, CopiesAre

LEMMA NoEntries ==
  /\ WellFormed(<<>>) /\ Closes(<<>>) /\ Copies(<<>>) = {}
  /\ \A n : ~Mentions(<<>>, n)
  /\ \A t : Intact(t, <<>>)
  <1>1. <<>> \in Seq(Entry) /\ DOMAIN <<>> = {}
    BY NoPromise
  <1> QED BY <1>1 DEF WellFormed, Closes, Copies, Mentions, Intact

-----------------------------------------------------------------------------
(***************************************************************************)
(* The redirections of one command.  s0 is the state before a redirection, *)
(* s one that it leads to, and T has the numbers that it may redirect.     *)
(***************************************************************************)
OneFree(t) == \E a \in High : ~IsOpen(t, a)

Sound(s) ==
    /\ s \in Redirs /\ Clean(s.fds)
    /\ WellFormed(s.undo) /\ Intact(s.fds, s.undo)
    /\ Closes(s.exec) /\ Copies(s.undo) \subseteq Copies(s.exec)

\* Numbers from Base on change only for new copies, at numbers that were free.
NewCopies(s0, s) ==
    /\ \A n \in High : s.fds[n] = s0.fds[n] \/ n \in Copies(s.undo)
    /\ Copies(s0.undo) \subseteq Copies(s.undo)
    /\ \A n \in Copies(s.undo) \ Copies(s0.undo) : ~IsOpen(s0.fds, n)
    /\ \A n \in Copies(s.exec) \ Copies(s0.exec) : ~IsOpen(s0.fds, n)

\* An older entry prevails, and a new one has what its number referred to.
Remembers(s0, s, T) ==
    /\ \A n \in UserNumbers : \A e : Ends(s0.undo, n, e) => Ends(s.undo, n, e)
    /\ \A n \in UserNumbers : Mentions(s.undo, n) /\ ~Mentions(s0.undo, n) =>
         n \in T /\ \E e : Ends(s.undo, n, e) /\ Value(s.fds, e) = s0.fds[n]

Progress(s0, s, T) ==
    /\ Sound(s0) /\ Sound(s) /\ T \subseteq UserNumbers
    /\ NewCopies(s0, s) /\ Remembers(s0, s, T)
    /\ \A n \in Copies(s0.undo) : s.fds[n] = s0.fds[n]

LEMMA ValueKept ==
  ASSUME NEW list, WellFormed(list), NEW n, NEW e, Ends(list, n, e), NEW t, NEW t2,
         \A c \in Copies(list) : t2[c] = t[c]
  PROVE  Value(t2, e) = Value(t, e)
  <1>1. PICK i \in DOMAIN list : e = list[i]
    BY DEF Ends
  <1>2. list[i] \in Entry
    BY DEF WellFormed
  <1>3. CASE e.ri = "close"
    BY <1>3 DEF Value
  <1>4. CASE e.ri = "dup"
    <2>1. e.redir_fd \in Copies(list)
      BY <1>1, <1>4, CopyIsClosed
    <2> QED BY <1>4, <2>1 DEF Value
  <1> QED BY <1>1, <1>2, <1>3, <1>4 DEF Entry, UndoEntry

LEMMA NoProgress ==
  ASSUME NEW s, Sound(s), NEW T \in SUBSET UserNumbers PROVE Progress(s, s, T)
  BY DEF Progress, NewCopies, Remembers

LEMMA MoreTouched ==
  ASSUME NEW s0, NEW s, NEW T, Progress(s0, s, T), NEW V \in SUBSET UserNumbers, T \subseteq V
  PROVE  Progress(s0, s, V)
  BY DEF Progress, Remembers

\* Another table with the same numbers from Base on; the record stays.
LEMMA SetProgress ==
  ASSUME NEW s0, NEW s, NEW T, Progress(s0, s, T), NEW r \in Redirs,
         r.undo = s.undo, r.exec = s.exec, Clean(r.fds), \A n \in High : r.fds[n] = s.fds[n]
  PROVE  Progress(s0, r, T)
  <1>1. s.undo \in Seq(Entry) /\ Copies(s.undo) \subseteq High
    BY CopiesAre DEF Progress, Sound, WellFormed
  <1>2. Intact(r.fds, r.undo)
    BY <1>1 DEF Progress, Sound, Intact, IsOpen
  <1>3. Sound(r)
    BY <1>2 DEF Progress, Sound
  <1>4. NewCopies(s0, r)
    BY DEF Progress, NewCopies
  <1>5. Remembers(s0, r, T)
    <2>1. \A n \in UserNumbers : \A e : Ends(r.undo, n, e) => Value(r.fds, e) = Value(s.fds, e)
      BY <1>1, ValueKept DEF Progress, Sound
    <2> QED BY <2>1 DEF Progress, Remembers
  <1>6. \A n \in Copies(s0.undo) : r.fds[n] = s0.fds[n]
    BY <1>1 DEF Progress, NewCopies
  <1> QED BY <1>3, <1>4, <1>5, <1>6 DEF Progress

\* A closed number is recorded.
LEMMA RecordedProgress ==
  ASSUME NEW s0, NEW s, NEW T, Progress(s0, s, T), NEW fd \in T, s0.fds[fd] = Nothing
  PROVE  /\ Progress(s0, Recorded(s, fd), T)
         /\ Mentions(Recorded(s, fd).undo, fd)
  <1> DEFINE r == Recorded(s, fd)
  <1>1. fd \in UserNumbers /\ fd \in Numbers /\ s \in Redirs
    BY Bounds DEF Progress, Sound
  <1>2. r \in Redirs /\ r.fds = s.fds /\ r.exec = s.exec /\ r.undo = <<Closer(fd)>> \o s.undo
    BY <1>1, RecordedType DEF Recorded
  <1> HIDE DEF r
  <1>3. WellFormed(s.undo)
    BY DEF Progress, Sound
  <1>4. /\ WellFormed(r.undo) /\ Copies(r.undo) = Copies(s.undo)
        /\ \A n : Mentions(r.undo, n) <=> Mentions(s.undo, n) \/ n = fd
        /\ \A n, e : Ends(s.undo, n, e) => Ends(r.undo, n, e)
        /\ ~Mentions(s.undo, fd) => Ends(r.undo, fd, Closer(fd))
    BY <1>1, <1>2, <1>3, PushedClose
  <1>5. Sound(r)
    BY <1>2, <1>4 DEF Progress, Sound, Intact
  <1>6. NewCopies(s0, r)
    BY <1>2, <1>4 DEF Progress, NewCopies
  <1>7. Value(r.fds, Closer(fd)) = s0.fds[fd]
    BY DEF Value, Closer
  <1>8. Remembers(s0, r, T)
    <2>1. \A n \in UserNumbers : \A e : Ends(s0.undo, n, e) => Ends(r.undo, n, e)
      BY <1>4 DEF Progress, Remembers
    <2>2. ASSUME NEW n \in UserNumbers, Mentions(r.undo, n), ~Mentions(s0.undo, n)
          PROVE  n \in T /\ \E e : Ends(r.undo, n, e) /\ Value(r.fds, e) = s0.fds[n]
      <3>1. CASE Mentions(s.undo, n)
        BY <1>2, <1>4, <2>2, <3>1 DEF Progress, Remembers
      <3>2. CASE ~Mentions(s.undo, n)
        BY <1>4, <1>7, <2>2, <3>2
      <3> QED BY <3>1, <3>2
    <2> QED BY <2>1, <2>2 DEF Remembers
  <1> QED BY <1>2, <1>4, <1>5, <1>6, <1>8 DEF Progress, r

\* An open number is saved, at a free number from Base on.
LEMMA SavedProgress ==
  ASSUME NEW s0, NEW s, NEW T, Progress(s0, s, T), NEW fd \in T, s.fds[fd] = s0.fds[fd],
         IsOpen(s.fds, fd), NEW k \in High, ~IsOpen(s.fds, k)
  PROVE  LET r == Saved(s, fd, k)
         IN  /\ Progress(s0, r, T) /\ Mentions(r.undo, fd) /\ r.ok = s.ok
             /\ \A n : Mentions(s.undo, n) => Mentions(r.undo, n)
             /\ \A n \in Numbers : n # k => r.fds[n] = s.fds[n]
  <1> DEFINE r == Saved(s, fd, k)
             b == fd >= 3 /\ ~s.fds[fd].cloexec
             e0 == Restore(fd, k, b)
             t == [s.fds EXCEPT ![k] = Copy(s.fds, fd)]
  <1>1. /\ fd \in UserNumbers /\ fd \in Numbers /\ k \in Numbers /\ fd \in Nat
        /\ s \in Redirs /\ s.fds \in Tables
    BY Bounds, Kinds, RedirsFields DEF Progress, Sound
  <1>2. b \in BOOLEAN /\ Copy(s.fds, fd) \in Desc
    BY <1>1, CopyType
  <1>3. /\ r \in Redirs /\ r.fds = t /\ r.ok = s.ok
        /\ r.undo = <<e0, Closer(k)>> \o s.undo /\ r.exec = <<Closer(k)>> \o s.exec
    BY <1>1, SavedType DEF Saved
  <1>4. /\ t[k] = Copy(s.fds, fd) /\ \A n \in Numbers : n # k => t[n] = s.fds[n]
    BY <1>1, <1>2 DEF Tables
  <1>5. b = (fd >= 3 /\ ~s.fds[fd].cloexec) /\ e0 = Restore(fd, k, b)
    OBVIOUS
  <1> HIDE DEF r, t, b, e0
  <1>6. WellFormed(s.undo) /\ Intact(s.fds, s.undo) /\ Copies(s.undo) \subseteq High
    BY CopiesAre DEF Progress, Sound, WellFormed
  <1>7. k \notin Copies(s.undo)
    BY <1>6 DEF Intact
  <1>8. /\ WellFormed(r.undo) /\ Copies(r.undo) = Copies(s.undo) \cup {k}
        /\ \A n \in UserNumbers : Mentions(r.undo, n) <=> Mentions(s.undo, n) \/ n = fd
        /\ \A n, e : Ends(s.undo, n, e) => Ends(r.undo, n, e)
        /\ ~Mentions(s.undo, fd) => Ends(r.undo, fd, e0)
    <2> DEFINE list == s.undo
               new == r.undo
    <2>1. WellFormed(list) /\ k \notin Copies(list) /\ new = <<e0, Closer(k)>> \o list
      BY <1>3, <1>6, <1>7
    <2>2. e0 \in Entry
      BY <1>1, <1>2, <1>5, EntryType
    <2>3. e0.ri = "dup" /\ e0.redirector = fd /\ e0.redir_fd = k
      BY <1>5 DEF Restore
    <2> HIDE DEF list, new
    <2>4. PushesSave(list, new, fd, k, e0)
      BY <1>1, <2>1, <2>2, <2>3, PushedSave
    <2> QED BY <2>4 DEF list, new, PushesSave
  <1>9. Closes(r.exec) /\ Copies(r.exec) = Copies(s.exec) \cup {k}
    BY <1>3, PushedCloser DEF Progress, Sound
  <1>10. IsOpen(t, k) /\ t[k].cloexec /\ t[k].file = s.fds[fd].file
    BY <1>4 DEF Copy, IsOpen
  <1>11. Intact(t, r.undo)
    <2>1. ASSUME NEW n \in Copies(s.undo) PROVE IsOpen(t, n) /\ t[n].cloexec
      <3>1. n # k /\ n \in Numbers
        BY <1>6, <1>7, Kinds
      <3>2. t[n] = s.fds[n]
        BY <1>4, <3>1
      <3> QED BY <1>6, <3>2 DEF Intact, IsOpen
    <2> QED BY <1>8, <1>10, <2>1 DEF Intact
  <1>12. Clean(t)
    <2>1. ~(k <= 2)
      BY Kinds
    <2>2. Clean(s.fds)
      BY DEF Progress, Sound
    <2>3. ASSUME NEW n \in Numbers PROVE (~IsOpen(t, n) => t[n] = Nothing) /\ (n <= 2 => ~t[n].cloexec)
      <3>1. CASE n = k
        BY <1>10, <2>1, <3>1
      <3>2. CASE n # k
        <4>1. t[n] = s.fds[n]
          BY <1>4, <3>2
        <4> QED BY <2>2, <4>1 DEF Clean, IsOpen
      <3> QED BY <3>1, <3>2
    <2> QED BY <2>3 DEF Clean
  <1>13. Sound(r)
    BY <1>3, <1>8, <1>9, <1>11, <1>12 DEF Progress, Sound
  <1>14. ~IsOpen(s0.fds, k)
    BY <1>7 DEF Progress, NewCopies, IsOpen
  <1>15. NewCopies(s0, r)
    <2>1. \A n \in High : r.fds[n] = s0.fds[n] \/ n \in Copies(r.undo)
      BY <1>3, <1>4, <1>8, Kinds DEF Progress, NewCopies
    <2> QED BY <1>8, <1>9, <1>14, <2>1 DEF Progress, NewCopies
  <1>16. Value(t, e0) = s0.fds[fd]
    <2>1. Value(t, e0) = [file |-> s.fds[fd].file, cloexec |-> fd > 2 /\ ~b]
      BY <1>5, <1>10 DEF Value, Restore
    <2>2. s.fds[fd] = [file |-> s.fds[fd].file, cloexec |-> s.fds[fd].cloexec]
          /\ s.fds[fd].cloexec \in BOOLEAN
      BY <1>1 DEF Tables, Desc
    <2>3. fd <= 2 => ~s.fds[fd].cloexec
      BY <1>1 DEF Progress, Sound, Clean
    <2>4. (fd > 2 /\ ~b) <=> s.fds[fd].cloexec
      <3>1. CASE fd <= 2
        BY <1>1, <2>3, <3>1
      <3>2. CASE ~(fd <= 2)
        <4>1. fd >= 3 /\ fd > 2
          BY <1>1, <3>2
        <4>2. b <=> ~s.fds[fd].cloexec
          BY <1>5, <4>1
        <4> QED BY <4>1, <4>2
      <3> QED BY <3>1, <3>2
    <2>5. (fd > 2 /\ ~b) = s.fds[fd].cloexec
      BY <2>2, <2>4
    <2> QED BY <2>1, <2>2, <2>5
  <1>17. \A n \in UserNumbers : \A e : Ends(s.undo, n, e) => Value(t, e) = Value(s.fds, e)
    <2>1. \A c \in Copies(s.undo) : t[c] = s.fds[c]
      BY <1>4, <1>6, <1>7, Kinds
    <2> QED BY <1>6, <2>1, ValueKept
  <1>18. Remembers(s0, r, T)
    <2>1. \A n \in UserNumbers : \A e : Ends(s0.undo, n, e) => Ends(r.undo, n, e)
      BY <1>8 DEF Progress, Remembers
    <2>2. ASSUME NEW n \in UserNumbers, Mentions(r.undo, n), ~Mentions(s0.undo, n)
          PROVE  n \in T /\ \E e : Ends(r.undo, n, e) /\ Value(r.fds, e) = s0.fds[n]
      <3>1. CASE Mentions(s.undo, n)
        <4>1. n \in T /\ \E e : Ends(s.undo, n, e) /\ Value(s.fds, e) = s0.fds[n]
          BY <2>2, <3>1 DEF Progress, Remembers
        <4> QED BY <1>3, <1>8, <1>17, <4>1
      <3>2. CASE ~Mentions(s.undo, n)
        BY <1>3, <1>8, <1>16, <2>2, <3>2
      <3> QED BY <3>1, <3>2
    <2> QED BY <2>1, <2>2 DEF Remembers
  <1>19. \A n \in Copies(s0.undo) : r.fds[n] = s0.fds[n]
    <2>1. \A n \in Copies(s0.undo) : n \in Copies(s.undo)
      BY DEF Progress, NewCopies
    <2> QED BY <1>3, <1>4, <1>6, <1>7, <2>1, Kinds DEF Progress
  <1>20. \A n : Mentions(s.undo, n) => Mentions(r.undo, n)
    <2>1. ASSUME NEW n, Mentions(s.undo, n) PROVE Mentions(r.undo, n)
      <3>1. n \in Numbers
        <4>1. \A i \in DOMAIN s.undo : s.undo[i].redirector \in Numbers
          BY <1>6 DEF WellFormed, Entry, UndoEntry
        <4> QED BY <2>1, <4>1 DEF Mentions
      <3>2. CASE n \in UserNumbers
        BY <1>8, <2>1, <3>2
      <3>3. CASE n \in High
        BY <1>6, <1>8, <2>1, <3>3, CopiesAre DEF WellFormed
      <3> QED BY <3>1, <3>2, <3>3, Kinds
    <2> QED BY <2>1
  <1>21. Progress(s0, r, T)
    BY <1>13, <1>15, <1>18, <1>19 DEF Progress
  <1>22. Mentions(r.undo, fd)
    BY <1>1, <1>8
  <1> QED BY <1>3, <1>4, <1>20, <1>21, <1>22 DEF r

\* The hypothesis: two numbers from Base on are free, enough for any one
\* redirection, so that add_undo_redirect does not fall back to a number that a
\* later one may name.  A shell that drops lists often enough leaves it.
Roomy(t) == \E a, b \in High : a # b /\ ~IsOpen(t, a) /\ ~IsOpen(t, b)
HasRoom == Roomy(fds)

OneTaken(t, t2) == \E c \in High : \A n \in High : n # c => t2[n] = t[n]

LEMMA RoomLeft ==
    /\ \A t : Roomy(t) => OneFree(t)
    /\ \A t, t2 : Roomy(t) /\ OneTaken(t, t2) => OneFree(t2)
  BY DEF Roomy, OneFree, OneTaken, IsOpen

\* What recording a number adds to a state.
Records(s, r, fd) ==
    /\ r.ok = s.ok /\ Mentions(r.undo, fd)
    /\ \A n : Mentions(s.undo, n) => Mentions(r.undo, n)
    /\ \A n \in UserNumbers : r.fds[n] = s.fds[n]
    /\ OneTaken(s.fds, r.fds)

LEMMA SavesOpen ==
  ASSUME NEW s0, NEW s, NEW T, Progress(s0, s, T), NEW fd \in T, s.fds[fd] = s0.fds[fd],
         IsOpen(s.fds, fd), OneFree(s.fds), NEW r, r = AddUndoRedirect(s, fd)
  PROVE  Progress(s0, r, T) /\ Records(s, r, fd)
  <1>1. fd \in Numbers /\ s \in Redirs
    BY Bounds DEF Progress, Sound
  <1>2. \E a \in Numbers : a >= Base /\ ~IsOpen(s.fds, a)
    BY Kinds DEF OneFree
  <1>3. PICK k \in Numbers : k >= Base /\ ~IsOpen(s.fds, k) /\ r = Saved(s, fd, k)
    BY <1>1, <1>2, AddUndoRedirectIs
  <1>4. k \in High
    BY <1>3, Kinds
  <1>5. /\ Progress(s0, r, T) /\ Mentions(r.undo, fd) /\ r.ok = s.ok
        /\ \A n : Mentions(s.undo, n) => Mentions(r.undo, n)
        /\ \A n \in Numbers : n # k => r.fds[n] = s.fds[n]
    BY <1>3, <1>4, SavedProgress
  <1>6. OneTaken(s.fds, r.fds)
    BY <1>4, <1>5, Kinds DEF OneTaken
  <1>7. \A n \in UserNumbers : n \in Numbers /\ n # k
    BY <1>4, Kinds
  <1> QED BY <1>5, <1>6, <1>7 DEF Records

LEMMA Remembered ==
  ASSUME NEW s0, NEW s, NEW T, Progress(s0, s, T), NEW fd \in T, s.fds[fd] = s0.fds[fd],
         OneFree(s.fds), NEW r, r = Remember(s, fd)
  PROVE  Progress(s0, r, T) /\ Records(s, r, fd)
  <1>1. CASE IsOpen(s.fds, fd)
    BY <1>1, SavesOpen DEF Remember
  <1>2. CASE ~IsOpen(s.fds, fd)
    <2>1. fd \in Numbers /\ s \in Redirs /\ fd \in UserNumbers
      BY Bounds DEF Progress, Sound
    <2>2. r = Recorded(s, fd)
      BY <1>2, <2>1, FieldsOf DEF Remember
    <2>3. s0.fds[fd] = Nothing
      BY <1>2, <2>1 DEF Progress, Sound, Clean
    <2>4. Progress(s0, r, T) /\ Mentions(r.undo, fd)
      BY <2>2, <2>3, RecordedProgress
    <2>5. r.ok = s.ok /\ r.fds = s.fds /\ r.undo = <<Closer(fd)>> \o s.undo
      BY <2>2 DEF Recorded
    <2>6. WellFormed(s.undo)
      BY DEF Progress, Sound
    <2>7. \A n : Mentions(s.undo, n) => Mentions(r.undo, n)
      BY <2>1, <2>5, <2>6, PushedClose
    <2>8. OneTaken(s.fds, r.fds)
      BY <2>5, Bounds DEF OneTaken, OneFree
    <2> QED BY <2>4, <2>5, <2>7, <2>8 DEF Records
  <1> QED BY <1>1, <1>2

\* dup2 keeps a table clean, and so does opening or closing a number.
LEMMA StaysClean ==
  ASSUME NEW t \in Tables, Clean(t), NEW n \in Numbers
  PROVE  /\ \A m \in Numbers : Clean(Duplicated(t, m, n, FALSE))
         /\ \A file \in Files : Clean([t EXCEPT ![n] = Opened(file)])
         /\ Clean([t EXCEPT ![n] = Nothing])
  <1>1. ASSUME NEW d \in Desc, d.file = Closed => d = Nothing, n <= 2 => ~d.cloexec
        PROVE  Clean([t EXCEPT ![n] = d])
    <2> DEFINE w == [t EXCEPT ![n] = d]
    <2>1. w[n] = d /\ \A m \in Numbers : m # n => w[m] = t[m]
      BY DEF Tables
    <2> HIDE DEF w
    <2>2. Clean(w)
      BY <1>1, <2>1 DEF Clean, IsOpen
    <2> QED BY <2>2 DEF w
  <1>2. Clean([t EXCEPT ![n] = Nothing])
    <2>1. ~Nothing.cloexec
      BY DEF Nothing
    <2> QED BY <1>1, <2>1, DescType
  <1>3. ASSUME NEW file \in Files PROVE Clean([t EXCEPT ![n] = Opened(file)])
    <2>1. ~Opened(file).cloexec /\ Opened(file).file # Closed
      BY Bounds DEF Opened
    <2> QED BY <1>1, <2>1, DescType
  <1>4. ASSUME NEW m \in Numbers PROVE Clean(Duplicated(t, m, n, FALSE))
    <2> DEFINE c == n > 2 /\ t[m].cloexec /\ ~FALSE
               d == [file |-> t[m].file, cloexec |-> c]
    <2>1. Duplicated(t, m, n, FALSE) = [t EXCEPT ![n] = d]
      BY DEF Duplicated
    <2>2. n \in Nat /\ t[m].file \in Files \cup {Closed} /\ c \in BOOLEAN
      BY Bounds, DescType
    <2>3. t[m].file = Closed => t[m] = Nothing
      BY DEF Clean, IsOpen
    <2>4. t[m] = Nothing => c = FALSE
      BY <2>2 DEF Nothing
    <2>5. n <= 2 => ~c
      BY <2>2
    <2> HIDE DEF c
    <2>6. d \in Desc /\ d.file = t[m].file /\ d.cloexec = c
      BY <2>2 DEF Desc
    <2>7. d.file = Closed => d = Nothing
      BY <2>3, <2>4 DEF Nothing
    <2>8. n <= 2 => ~d.cloexec
      BY <2>5, <2>6
    <2> HIDE DEF d
    <2>9. Clean([t EXCEPT ![n] = d])
      BY <1>1, <2>6, <2>7, <2>8
    <2> QED BY <2>1, <2>9
  <1> QED BY <1>2, <1>3, <1>4

\* The number that dup2 gives another meaning, seen from the others.
LEMMA DuplicatedOthers ==
  ASSUME NEW t \in Tables, NEW m \in Numbers, NEW n \in Numbers
  PROVE  /\ Duplicated(t, m, n, FALSE) \in Tables
         /\ \A i \in Numbers : i # n => Duplicated(t, m, n, FALSE)[i] = t[i]
  <1> DEFINE b == FALSE
             c == n > 2 /\ t[m].cloexec /\ ~b
             d == [file |-> t[m].file, cloexec |-> c]
  <1>1. Duplicated(t, m, n, b) = [t EXCEPT ![n] = d]
    BY DEF Duplicated
  <1>2. b \in BOOLEAN /\ c \in BOOLEAN
    BY Bounds, DescType
  <1>3. b = FALSE
    OBVIOUS
  <1> HIDE DEF b, c
  <1>4. d \in Desc
    BY <1>2, DescType DEF Desc
  <1> HIDE DEF d
  <1>5. Duplicated(t, m, n, b) \in Tables /\ \A i \in Numbers : i # n => Duplicated(t, m, n, b)[i] = t[i]
    BY <1>1, <1>4 DEF Tables
  <1> QED BY <1>3, <1>5

\* The open file stands at a number of its own, temp, until it is moved.
HasOpened(s, open, temp, file) ==
    /\ Sound(open) /\ open \in Redirs
    /\ open.ok = s.ok /\ open.undo = s.undo /\ open.exec = s.exec
    /\ open.fds[temp] = Opened(file) /\ IsOpen(open.fds, temp)
    /\ \A n \in Numbers : n # temp => open.fds[n] = s.fds[n]
    /\ temp \notin Copies(s.undo)

LEMMA OpenedIsSound ==
  ASSUME NEW s, Sound(s), NEW temp \in Numbers, ~IsOpen(s.fds, temp), NEW file \in Files,
         NEW open, open = OpenedAt(s, temp, file)
  PROVE  HasOpened(s, open, temp, file)
  <1>1. s \in Redirs /\ s.fds \in Tables /\ Clean(s.fds) /\ WellFormed(s.undo) /\ Intact(s.fds, s.undo)
    BY RedirsFields DEF Sound
  <1>2. open \in Redirs
    BY <1>1, SettersType
  <1>3. /\ open.ok = s.ok /\ open.undo = s.undo /\ open.exec = s.exec
        /\ open.fds = [s.fds EXCEPT ![temp] = Opened(file)]
    BY DEF OpenedAt, WithTable
  <1>4. open.fds[temp] = Opened(file) /\ \A n \in Numbers : n # temp => open.fds[n] = s.fds[n]
    BY <1>1, <1>3 DEF Tables
  <1>5. temp \notin Copies(s.undo)
    BY <1>1 DEF Intact
  <1>6. Clean(open.fds)
    BY <1>1, <1>3, StaysClean
  <1>7. Copies(s.undo) \subseteq Numbers
    BY <1>1, CopiesAre, Kinds DEF WellFormed
  <1>8. Intact(open.fds, open.undo)
    <2>1. \A n \in Copies(s.undo) : open.fds[n] = s.fds[n]
      BY <1>4, <1>5, <1>7
    <2> QED BY <1>1, <1>3, <2>1 DEF Intact, IsOpen
  <1>9. Sound(open)
    BY <1>2, <1>3, <1>6, <1>8 DEF Sound
  <1>10. IsOpen(open.fds, temp)
    BY <1>4, Bounds DEF IsOpen, Opened
  <1> QED BY <1>2, <1>3, <1>4, <1>5, <1>9, <1>10 DEF HasOpened

LEMMA ViaTemp ==
  ASSUME NEW s, Sound(s), NEW temp \in Numbers, ~IsOpen(s.fds, temp), NEW file \in Files,
         NEW open, open = OpenedAt(s, temp, file),
         NEW T, temp \notin T, NEW r, Progress(open, r, T),
         NEW q \in Redirs, q.undo = r.undo, q.exec = r.exec, Clean(q.fds), q.fds[temp] = Nothing,
         \A n \in High : n # temp => q.fds[n] = r.fds[n]
  PROVE  Progress(s, q, T)
  <1>1. /\ open.undo = s.undo /\ open.exec = s.exec /\ IsOpen(open.fds, temp)
        /\ \A n \in Numbers : n # temp => open.fds[n] = s.fds[n]
        /\ temp \notin Copies(s.undo)
    BY OpenedIsSound DEF HasOpened
  <1>2. temp \notin Copies(r.undo)
    BY <1>1 DEF Progress, NewCopies
  <1>3. WellFormed(r.undo) /\ Intact(r.fds, r.undo) /\ Copies(r.undo) \subseteq High
    BY CopiesAre DEF Progress, Sound, WellFormed
  <1>4. \A n \in Copies(r.undo) : q.fds[n] = r.fds[n]
    BY <1>2, <1>3
  <1>5. Sound(q)
    <2>1. Intact(q.fds, q.undo)
      BY <1>3, <1>4 DEF Intact, IsOpen
    <2> QED BY <2>1 DEF Progress, Sound
  <1>6. s.fds[temp] = Nothing
    BY DEF Sound, Clean
  <1>7. ASSUME NEW n, n \in Numbers, ~IsOpen(open.fds, n) PROVE ~IsOpen(s.fds, n)
    BY <1>1, <1>7 DEF IsOpen
  <1>8. NewCopies(s, q)
    <2>1. ASSUME NEW n \in High PROVE q.fds[n] = s.fds[n] \/ n \in Copies(q.undo)
      <3>1. CASE n = temp
        BY <1>6, <3>1
      <3>2. CASE n # temp
        BY <1>1, <3>2, Kinds DEF Progress, NewCopies
      <3> QED BY <3>1, <3>2
    <2>2. Copies(q.exec) \subseteq High
      BY CopiesAre DEF Progress, Sound, Closes
    <2>3. \A n \in Copies(q.undo) \ Copies(s.undo) : ~IsOpen(s.fds, n)
      BY <1>1, <1>3, <1>7, Kinds DEF Progress, NewCopies
    <2>4. \A n \in Copies(q.exec) \ Copies(s.exec) : ~IsOpen(s.fds, n)
      BY <1>1, <1>7, <2>2, Kinds DEF Progress, NewCopies
    <2>5. Copies(s.undo) \subseteq Copies(q.undo)
      BY <1>1 DEF Progress, NewCopies
    <2> QED BY <2>1, <2>3, <2>4, <2>5 DEF NewCopies
  <1>9. Remembers(s, q, T)
    <2>1. \A n \in UserNumbers : \A e : Ends(r.undo, n, e) => Value(q.fds, e) = Value(r.fds, e)
      BY <1>3, <1>4, ValueKept
    <2>2. \A n \in T : open.fds[n] = s.fds[n]
      BY <1>1, Bounds DEF Progress
    <2>3. ASSUME NEW n \in UserNumbers, Mentions(q.undo, n), ~Mentions(s.undo, n)
          PROVE  n \in T /\ \E e : Ends(q.undo, n, e) /\ Value(q.fds, e) = s.fds[n]
      <3>1. Mentions(r.undo, n) /\ ~Mentions(open.undo, n)
        BY <1>1, <2>3
      <3>2. n \in T /\ \E e : Ends(r.undo, n, e) /\ Value(r.fds, e) = open.fds[n]
        BY <3>1 DEF Progress, Remembers
      <3> QED BY <2>1, <2>2, <3>2
    <2>4. \A n \in UserNumbers : \A e : Ends(s.undo, n, e) => Ends(q.undo, n, e)
      BY <1>1 DEF Progress, Remembers
    <2> QED BY <2>3, <2>4 DEF Remembers
  <1>10. \A n \in Copies(s.undo) : q.fds[n] = s.fds[n]
    <2>1. ASSUME NEW n \in Copies(s.undo) PROVE q.fds[n] = s.fds[n]
      <3>1. n # temp /\ n \in Copies(r.undo) /\ n \in Copies(open.undo)
        BY <1>1, <2>1 DEF Progress, NewCopies
      <3>2. q.fds[n] = r.fds[n] /\ n \in Numbers
        BY <1>3, <1>4, <3>1, Kinds
      <3>3. r.fds[n] = open.fds[n]
        BY <3>1 DEF Progress
      <3> QED BY <1>1, <3>1, <3>2, <3>3
    <2> QED BY <2>1
  <1> QED BY <1>5, <1>8, <1>9, <1>10 DEF Progress

\* What the redirections of one command come to, each in its way.
Redirecting(s, r, T) ==
    /\ Progress(s, r, T)
    /\ OneTaken(s.fds, r.fds)
    /\ \A n \in UserNumbers \ T : r.fds[n] = s.fds[n]

LEMMA OpenFileProgress ==
  ASSUME NEW s, Sound(s), s.ok, Roomy(s.fds), NEW fd \in UserNumbers, NEW file \in Files,
         NEW r, r = OpenFile(s, fd, file)
  PROVE  Redirecting(s, r, {fd}) /\ r.ok /\ Mentions(r.undo, fd)
  <1> DEFINE temp == Lowest(s.fds, 1)
             open == OpenedAt(s, temp, file)
             saved == OpenFileSaved(s, fd, file, temp)
  <1>0. s \in Redirs /\ s.fds \in Tables /\ fd \in Numbers /\ {fd} \in SUBSET UserNumbers
    BY RedirsFields, Bounds DEF Sound
  <1>1. temp \in Numbers /\ temp # NoNumber /\ ~IsOpen(s.fds, temp)
    <2>1. \E n \in Numbers : n >= 1 /\ ~IsOpen(s.fds, n)
      BY Kinds DEF Roomy
    <2> QED BY <2>1, LowestFree
  <1>2. r = IF temp = NoNumber THEN Fail(s)
            ELSE IF ~saved.ok THEN ClosedAt(saved, temp)
            ELSE IF temp = fd THEN saved
            ELSE ClosedAt(CopiedTo(saved, temp, fd), temp)
    BY <1>0, OpenFileIs
  <1>3. saved = IF temp = fd THEN AddUndoClose(open, fd) ELSE Remember(open, fd)
    BY DEF OpenFileSaved
  <1> HIDE DEF temp, saved
  <1>4. open = OpenedAt(s, temp, file)
    OBVIOUS
  <1> HIDE DEF open
  <1>5. /\ Sound(open) /\ open \in Redirs
        /\ open.ok = s.ok /\ open.undo = s.undo /\ open.exec = s.exec
        /\ open.fds[temp] = Opened(file) /\ IsOpen(open.fds, temp)
        /\ \A n \in Numbers : n # temp => open.fds[n] = s.fds[n]
    <2>1. HasOpened(s, open, temp, file)
      BY <1>1, <1>4, OpenedIsSound
    <2> QED BY <2>1 DEF HasOpened
  <1>6. CASE temp = fd
    <2>1. saved = Recorded(open, fd)
      BY <1>0, <1>3, <1>5, <1>6, FieldsOf
    <2>2. saved.ok = s.ok /\ saved.fds = open.fds
      BY <1>5, <2>1 DEF Recorded
    <2>3. r = saved
      BY <1>1, <1>2, <1>6, <2>2
    <2> DEFINE b == Recorded(s, fd)
    <2>4. r.undo = b.undo /\ r.exec = b.exec /\ b.fds = s.fds /\ r.fds = open.fds
      BY <1>5, <2>1, <2>3 DEF Recorded
    <2>5. s.fds[fd] = Nothing
      BY <1>0, <1>1, <1>6 DEF Sound, Clean
    <2>6. Progress(s, b, {fd}) /\ Mentions(b.undo, fd)
      BY <1>0, <2>5, NoProgress, RecordedProgress
    <2> HIDE DEF b
    <2>7. r \in Redirs
      BY <1>0, <1>5, <2>1, <2>3, RecordedType
    <2>8. \A n \in High : r.fds[n] = s.fds[n]
      BY <1>5, <1>6, <2>4, Kinds
    <2>9. Progress(s, r, {fd})
      BY <1>5, <2>4, <2>6, <2>7, <2>8, SetProgress DEF Sound
    <2>10. OneTaken(s.fds, r.fds)
      BY <2>8, RoomLeft DEF OneTaken, OneFree
    <2>11. \A n \in UserNumbers \ {fd} : r.fds[n] = s.fds[n]
      BY <1>5, <1>6, <2>4, Bounds
    <2> QED BY <2>2, <2>3, <2>4, <2>6, <2>9, <2>10, <2>11 DEF Redirecting
  <1>7. CASE temp # fd
    <2>1. OneFree(open.fds)
      <3>1. PICK a \in High, c \in High : a # c /\ ~IsOpen(s.fds, a) /\ ~IsOpen(s.fds, c)
        BY DEF Roomy
      <3>2. (a # temp => ~IsOpen(open.fds, a)) /\ (c # temp => ~IsOpen(open.fds, c))
        BY <1>5, <3>1, Kinds DEF IsOpen
      <3> QED BY <3>1, <3>2 DEF OneFree
    <2>2. Progress(open, open, {fd})
      BY <1>0, <1>5, NoProgress
    <2>3. Progress(open, saved, {fd}) /\ Records(open, saved, fd)
      BY <1>3, <1>7, <2>1, <2>2, Remembered
    <2>4. saved \in Redirs /\ saved.ok
      BY <1>5, <2>3 DEF Progress, Sound, Records
    <2>5. r = ClosedAt(CopiedTo(saved, temp, fd), temp)
      BY <1>1, <1>2, <1>7, <2>4
    <2> DEFINE v == Duplicated(saved.fds, temp, fd, FALSE)
               w == [v EXCEPT ![temp] = Nothing]
    <2>6. r.ok = saved.ok /\ r.undo = saved.undo /\ r.exec = saved.exec /\ r.fds = w
      BY <2>5 DEF ClosedAt, CopiedTo, WithTable
    <2>7. saved.fds \in Tables /\ Clean(saved.fds)
      BY <2>3, <2>4, RedirsFields DEF Progress, Sound
    <2>8. v \in Tables /\ Clean(v) /\ \A n \in Numbers : n # fd => v[n] = saved.fds[n]
      BY <1>0, <1>1, <2>7, StaysClean, DuplicatedOthers
    <2> HIDE DEF v
    <2>9. w \in Tables /\ Clean(w) /\ w[temp] = Nothing /\ \A n \in Numbers : n # temp => w[n] = v[n]
      BY <1>1, <2>8, StaysClean, DescType DEF Tables
    <2>10. r \in Redirs
      BY <1>0, <1>1, <2>4, <2>5, SettersType
    <2> HIDE DEF w
    <2>11. \A n \in High : n # temp => r.fds[n] = saved.fds[n]
      BY <1>0, <2>6, <2>8, <2>9, Kinds
    <2>12. temp \notin {fd}
      BY <1>7
    <2>13. Progress(s, r, {fd})
      BY <1>1, <1>4, <2>3, <2>6, <2>9, <2>10, <2>11, <2>12, ViaTemp
    <2>14. OneTaken(s.fds, r.fds)
      <3>1. PICK c \in High : \A n \in High : n # c => saved.fds[n] = open.fds[n]
        BY <2>3 DEF Records, OneTaken
      <3>2. s.fds[temp] = Nothing
        BY <1>1 DEF Sound, Clean
      <3>3. ASSUME NEW n \in High, n # c PROVE r.fds[n] = s.fds[n]
        BY <1>5, <2>6, <2>9, <2>11, <3>1, <3>2, <3>3, Kinds
      <3> QED BY <3>3 DEF OneTaken
    <2>15. ASSUME NEW n \in UserNumbers \ {fd} PROVE r.fds[n] = s.fds[n]
      <3>1. CASE n = temp
        BY <1>1, <2>6, <2>9, <3>1 DEF Sound, Clean
      <3>2. CASE n # temp
        <4>1. n \in Numbers /\ n # fd
          BY Bounds
        <4>2. r.fds[n] = saved.fds[n]
          BY <2>6, <2>8, <2>9, <3>2, <4>1
        <4> QED BY <1>5, <2>3, <3>2, <4>1, <4>2 DEF Records
      <3> QED BY <3>1, <3>2
    <2>16. Mentions(r.undo, fd)
      BY <2>3, <2>6 DEF Records
    <2> QED BY <2>4, <2>6, <2>13, <2>14, <2>15, <2>16 DEF Redirecting
  <1> QED BY <1>6, <1>7


\* Closing a number below Base, copying one to another, and a failure or its
\* neglect leave the record alone.
Unrecording(s, r) == r.undo = s.undo /\ r.exec = s.exec

Follows(s0, s, r, T) == Progress(s0, r, T) /\ r.undo = s.undo /\ r.ok = s.ok

LEMMA SettersProgress ==
  ASSUME NEW s0, NEW s, NEW T, Progress(s0, s, T), NEW n \in UserNumbers, NEW m \in UserNumbers
  PROVE  Follows(s0, s, CopiedTo(s, m, n), T) /\ Follows(s0, s, ClosedAt(s, n), T)
  <1>1. n \in Numbers /\ m \in Numbers /\ s \in Redirs /\ s.fds \in Tables /\ Clean(s.fds)
    BY Bounds, RedirsFields DEF Progress, Sound
  <1> DEFINE c == CopiedTo(s, m, n)
             z == ClosedAt(s, n)
             t == Duplicated(s.fds, m, n, FALSE)
             w == [s.fds EXCEPT ![n] = Nothing]
  <1>2. c.ok = s.ok /\ c.undo = s.undo /\ c.exec = s.exec /\ c.fds = t
    BY DEF CopiedTo, WithTable
  <1>3. z.ok = s.ok /\ z.undo = s.undo /\ z.exec = s.exec /\ z.fds = w
    BY DEF ClosedAt, WithTable
  <1>4. c \in Redirs /\ z \in Redirs
    <2>1. c \in Redirs
      <3>1. t \in Tables
        BY <1>1, DuplicatedOthers
      <3> QED BY <1>1, <3>1, WithTableType DEF CopiedTo
    <2>2. z \in Redirs
      <3>1. w \in Tables
        BY <1>1, SetType, DescType
      <3> QED BY <1>1, <3>1, WithTableType DEF ClosedAt
    <2> QED BY <2>1, <2>2
  <1>5. Clean(t) /\ \A i \in Numbers : i # n => t[i] = s.fds[i]
    BY <1>1, StaysClean, DuplicatedOthers
  <1>6. Clean(w) /\ \A i \in Numbers : i # n => w[i] = s.fds[i]
    BY <1>1, StaysClean DEF Tables
  <1> HIDE DEF t, w, c, z
  <1>7. (\A i \in High : t[i] = s.fds[i]) /\ (\A i \in High : w[i] = s.fds[i])
    BY <1>5, <1>6, Kinds
  <1>8. Progress(s0, c, T)
    BY <1>2, <1>4, <1>5, <1>7, SetProgress
  <1>9. Progress(s0, z, T)
    BY <1>3, <1>4, <1>6, <1>7, SetProgress
  <1> QED BY <1>2, <1>3, <1>8, <1>9 DEF c, z, Follows

LEMMA CopiedProgress ==
  ASSUME NEW s0, NEW s, NEW T, Progress(s0, s, T), NEW n \in UserNumbers, NEW m \in UserNumbers,
         NEW r, r = CopiedTo(s, m, n)
  PROVE  Follows(s0, s, r, T)
  BY SettersProgress

LEMMA ClosedProgress ==
  ASSUME NEW s0, NEW s, NEW T, Progress(s0, s, T), NEW n \in UserNumbers, NEW r, r = ClosedAt(s, n)
  PROVE  Follows(s0, s, r, T)
  <1>1. 1 \in UserNumbers
    BY Bounds
  <1> QED BY <1>1, SettersProgress

LEMMA OutcomeProgress ==
  ASSUME NEW s0, NEW s, NEW T, Progress(s0, s, T)
  PROVE  /\ Progress(s0, Fail(s), T) /\ Unrecording(s, Fail(s))
         /\ Fail(s).fds = s.fds /\ ~Fail(s).ok
         /\ Progress(s0, [s EXCEPT !.ok = TRUE], T) /\ Unrecording(s, [s EXCEPT !.ok = TRUE])
         /\ [s EXCEPT !.ok = TRUE].fds = s.fds /\ [s EXCEPT !.ok = TRUE].ok
  <1>1. s \in Redirs /\ Clean(s.fds)
    BY DEF Progress, Sound
  <1> DEFINE f == Fail(s)
             g == [s EXCEPT !.ok = TRUE]
  <1>2. f = [ok |-> FALSE, fds |-> s.fds, undo |-> s.undo, exec |-> s.exec]
        /\ g = [ok |-> TRUE, fds |-> s.fds, undo |-> s.undo, exec |-> s.exec]
    BY <1>1, FieldsOf
  <1>3. f \in Redirs /\ g \in Redirs
    BY <1>1, FailType, DroppedFailure
  <1>4. f.fds = s.fds /\ f.undo = s.undo /\ f.exec = s.exec /\ ~f.ok
    BY <1>2
  <1>5. g.fds = s.fds /\ g.undo = s.undo /\ g.exec = s.exec /\ g.ok
    BY <1>2
  <1> HIDE DEF f, g
  <1>6. Progress(s0, f, T)
    BY <1>1, <1>3, <1>4, SetProgress
  <1>7. Progress(s0, g, T)
    BY <1>1, <1>3, <1>5, SetProgress
  <1> QED BY <1>4, <1>5, <1>6, <1>7 DEF f, g, Unrecording

FailedAt(s0, s, r, T) == Progress(s0, r, T) /\ r.undo = s.undo /\ ~r.ok /\ r.fds = s.fds

LEMMA FailedProgress ==
  ASSUME NEW s0, NEW s, NEW T, Progress(s0, s, T), NEW r, r = Fail(s)
  PROVE  FailedAt(s0, s, r, T)
  BY OutcomeProgress DEF FailedAt, Unrecording

\* What a redirection of the numbers T comes to: what it records, but for U,
\* and nothing that needs to be undone if it fails.
Outcome(s, r, T, U) ==
    /\ Progress(s, r, T)
    /\ r.ok => \A n \in T \ U : Mentions(r.undo, n)
    /\ ~r.ok => \A n \in UserNumbers : r.fds[n] = s.fds[n]

LEMMA NoOutcome == ASSUME NEW s, Sound(s), NEW U PROVE Outcome(s, s, {}, U)
  <1>1. {} \in SUBSET UserNumbers
    OBVIOUS
  <1> QED BY <1>1, NoProgress DEF Outcome

\* The record that a redirection begins with.
LEMMA FirstRemembered ==
  ASSUME NEW s, Sound(s), s.ok, Roomy(s.fds), NEW fd, NEW T \in SUBSET UserNumbers, fd \in T,
         NEW saved, saved = Remember(s, fd)
  PROVE  /\ Progress(s, saved, T) /\ saved.ok /\ Mentions(saved.undo, fd)
         /\ OneFree(saved.fds) /\ \A n \in UserNumbers : saved.fds[n] = s.fds[n]
  <1>1. Progress(s, s, T) /\ OneFree(s.fds)
    BY NoProgress, RoomLeft
  <1>2. Progress(s, saved, T) /\ Records(s, saved, fd)
    BY <1>1, Remembered
  <1>3. OneFree(saved.fds)
    BY <1>2, RoomLeft DEF Records
  <1> QED BY <1>2, <1>3 DEF Records

LEMMA DuplicateOutcome ==
  ASSUME NEW s, Sound(s), s.ok, Roomy(s.fds), NEW fd \in UserNumbers, NEW from \in UserNumbers,
         fd # from, NEW r, r = Duplicate(s, fd, from)
  PROVE  Outcome(s, r, {fd}, {})
  <1> DEFINE saved == Remember(s, fd)
  <1>1. s \in Redirs /\ fd \in Numbers /\ from \in Numbers /\ {fd} \in SUBSET UserNumbers
    BY Bounds DEF Sound
  <1>2. r = IF ~saved.ok \/ ~IsOpen(saved.fds, from) THEN Fail(saved) ELSE CopiedTo(saved, from, fd)
    BY <1>1, DuplicateIs
  <1>3. /\ Progress(s, saved, {fd}) /\ saved.ok /\ Mentions(saved.undo, fd)
        /\ \A n \in UserNumbers : saved.fds[n] = s.fds[n]
    BY <1>1, FirstRemembered
  <1> HIDE DEF saved
  <1>4. CASE ~IsOpen(saved.fds, from)
    <2>1. r = Fail(saved)
      BY <1>2, <1>4
    <2>2. FailedAt(s, saved, r, {fd})
      BY <1>3, <2>1, FailedProgress
    <2> QED BY <1>3, <2>2 DEF Outcome, FailedAt
  <1>5. CASE IsOpen(saved.fds, from)
    <2>1. r = CopiedTo(saved, from, fd)
      BY <1>2, <1>3, <1>5
    <2>2. Follows(s, saved, r, {fd})
      BY <1>3, <2>1, CopiedProgress
    <2> QED BY <1>3, <2>2 DEF Outcome, Follows
  <1> QED BY <1>4, <1>5

LEMMA CloseOutcome ==
  ASSUME NEW s, Sound(s), s.ok, Roomy(s.fds), NEW fd \in UserNumbers, NEW r, r = Close(s, fd)
  PROVE  Outcome(s, r, {fd}, {})
  <1> DEFINE saved == Remember(s, fd)
  <1>1. s \in Redirs /\ fd \in Numbers /\ {fd} \in SUBSET UserNumbers
    BY Bounds DEF Sound
  <1>2. r = ClosedAt(saved, fd)
    BY <1>1, CloseIs
  <1>3. Progress(s, saved, {fd}) /\ saved.ok /\ Mentions(saved.undo, fd)
    BY <1>1, FirstRemembered
  <1> HIDE DEF saved
  <1>4. Follows(s, saved, r, {fd})
    BY <1>2, <1>3, ClosedProgress
  <1> QED BY <1>3, <1>4 DEF Outcome, Follows

LEMMA MoveOutcome ==
  ASSUME NEW s, Sound(s), s.ok, Roomy(s.fds), NEW fd \in UserNumbers, NEW from \in UserNumbers,
         fd # from, NEW r, r = Move(s, fd, from)
  PROVE  Outcome(s, r, {fd, from}, IF IsOpen(s.fds, fd) THEN {} ELSE {from})
  <1> DEFINE saved == Remember(s, fd)
             both == MoveSaved(s, fd, from, saved)
             T == {fd, from}
  <1>1. s \in Redirs /\ fd \in Numbers /\ from \in Numbers /\ T \in SUBSET UserNumbers
    BY Bounds DEF Sound
  <1>2. r = IF ~saved.ok THEN saved
            ELSE IF ~both.ok \/ ~IsOpen(both.fds, from) THEN Fail(both)
            ELSE ClosedAt(CopiedTo(both, from, fd), from)
    BY <1>1, MoveIs
  <1>3. fd \in T /\ from \in T
    OBVIOUS
  <1>4. /\ Progress(s, saved, T) /\ saved.ok /\ Mentions(saved.undo, fd)
        /\ OneFree(saved.fds) /\ \A n \in UserNumbers : saved.fds[n] = s.fds[n]
    BY <1>1, <1>3, FirstRemembered
  <1>5. both = IF IsOpen(s.fds, fd) THEN AddUndoRedirect(saved, from) ELSE saved
    BY DEF MoveSaved
  <1>6. saved \in Redirs
    BY <1>4 DEF Progress, Sound
  <1> HIDE DEF saved, both, T
  <1>7. /\ Progress(s, both, T) /\ \A n \in UserNumbers : both.fds[n] = s.fds[n]
        /\ both.ok => /\ Mentions(both.undo, fd)
                      /\ IsOpen(s.fds, fd) => Mentions(both.undo, from)
    <2>1. CASE ~IsOpen(s.fds, fd)
      BY <1>4, <1>5, <2>1
    <2>2. CASE IsOpen(s.fds, fd) /\ IsOpen(saved.fds, from)
      <3>1. both = AddUndoRedirect(saved, from) /\ saved.fds[from] = s.fds[from]
        BY <1>4, <1>5, <2>2
      <3>2. Progress(s, both, T) /\ Records(saved, both, from)
        BY <1>3, <1>4, <2>2, <3>1, SavesOpen
      <3> QED BY <1>4, <3>2 DEF Records
    <2>3. CASE IsOpen(s.fds, fd) /\ ~IsOpen(saved.fds, from)
      <3>1. both = Fail(saved)
        BY <1>1, <1>5, <1>6, <2>3, AddUndoRedirectIs
      <3>2. Progress(s, both, T) /\ ~both.ok /\ both.fds = saved.fds
        BY <1>4, <3>1, OutcomeProgress
      <3> QED BY <1>4, <3>2
    <2> QED BY <2>1, <2>2, <2>3
  <1> DEFINE U == IF IsOpen(s.fds, fd) THEN {} ELSE {from}
  <1>8. CASE ~both.ok \/ ~IsOpen(both.fds, from)
    <2>1. r = Fail(both)
      BY <1>2, <1>4, <1>8
    <2>2. FailedAt(s, both, r, T)
      BY <1>7, <2>1, FailedProgress
    <2>3. Outcome(s, r, T, U)
      BY <1>7, <2>2 DEF Outcome, FailedAt
    <2> QED BY <2>3 DEF T
  <1>9. CASE both.ok /\ IsOpen(both.fds, from)
    <2> DEFINE c == CopiedTo(both, from, fd)
    <2>1. r = ClosedAt(c, from)
      BY <1>2, <1>4, <1>9
    <2>2. Follows(s, both, c, T)
      BY <1>7, CopiedProgress
    <2> HIDE DEF c
    <2>3. Follows(s, c, r, T)
      BY <2>1, <2>2, ClosedProgress DEF Follows
    <2>4. r.ok /\ r.undo = both.undo
      BY <1>9, <2>2, <2>3 DEF Follows
    <2>5. \A n \in T \ U : n = fd \/ (n = from /\ IsOpen(s.fds, fd))
      BY DEF T
    <2>6. Outcome(s, r, T, U)
      BY <1>7, <1>9, <2>3, <2>4, <2>5 DEF Outcome, Follows
    <2> QED BY <2>6 DEF T
  <1> QED BY <1>8, <1>9

LEMMA OpenFileOutcome ==
  ASSUME NEW s, Sound(s), s.ok, Roomy(s.fds), NEW fd \in UserNumbers, NEW file \in Files,
         NEW r, r = OpenFile(s, fd, file)
  PROVE  Outcome(s, r, {fd}, {})
  <1>1. Redirecting(s, r, {fd}) /\ r.ok /\ Mentions(r.undo, fd)
    BY OpenFileProgress
  <1> QED BY <1>1 DEF Redirecting, Outcome

LEMMA OpenBothOutcome ==
  ASSUME NEW s, Sound(s), s.ok, Roomy(s.fds), NEW file \in Files, NEW r, r = OpenBoth(s, file)
  PROVE  Outcome(s, r, {1, 2}, {n \in {2} : ~IsOpen(s.fds, n)})
  <1> DEFINE out == OpenFile(s, 1, file)
             tried == AddUndoRedirect(out, 2)
             saved == [tried EXCEPT !.ok = TRUE]
             T == {1, 2}
  <1>1. s \in Redirs /\ 1 \in UserNumbers /\ 2 \in UserNumbers /\ 2 \in Numbers
    BY Bounds DEF Sound
  <1>2. Redirecting(s, out, {1}) /\ out.ok /\ Mentions(out.undo, 1)
    BY <1>1, OpenFileProgress
  <1>3. r = CopiedTo(saved, 1, 2)
    BY <1>1, <1>2, OpenBothIs
  <1>4. {1} \subseteq T /\ T \in SUBSET UserNumbers /\ 2 \in T /\ 2 \in UserNumbers \ {1}
    BY <1>1
  <1> HIDE DEF out, T
  <1>5. /\ Progress(s, out, T) /\ OneTaken(s.fds, out.fds) /\ out.fds[2] = s.fds[2] /\ out \in Redirs
    BY <1>2, <1>4, MoreTouched DEF Redirecting, Progress, Sound
  <1>6. OneFree(out.fds)
    BY <1>5, RoomLeft
  <1>7. tried = AddUndoRedirect(out, 2)
    OBVIOUS
  <1> HIDE DEF tried
  <1>8. Progress(s, tried, T) /\ Mentions(tried.undo, 1) /\ (IsOpen(s.fds, 2) => Mentions(tried.undo, 2))
    <2>1. CASE IsOpen(out.fds, 2)
      <3>1. Progress(s, tried, T) /\ Records(out, tried, 2)
        BY <1>4, <1>5, <1>6, <1>7, <2>1, SavesOpen
      <3> QED BY <1>2, <3>1 DEF Records
    <2>2. CASE ~IsOpen(out.fds, 2)
      <3>1. tried = Fail(out)
        BY <1>1, <1>5, <1>7, <2>2, AddUndoRedirectIs
      <3>2. Progress(s, tried, T) /\ Unrecording(out, tried)
        BY <1>5, <3>1, OutcomeProgress
      <3>3. ~IsOpen(s.fds, 2)
        BY <1>5, <2>2 DEF IsOpen
      <3> QED BY <1>2, <3>2, <3>3 DEF Unrecording
    <2> QED BY <2>1, <2>2
  <1>9. Progress(s, saved, T) /\ Unrecording(tried, saved) /\ saved.ok
    BY <1>8, OutcomeProgress
  <1> HIDE DEF saved
  <1>10. Follows(s, saved, r, T)
    BY <1>1, <1>3, <1>9, CopiedProgress
  <1> DEFINE U == {n \in {2} : ~IsOpen(s.fds, n)}
  <1>11. \A n \in T \ U : n = 1 \/ (n = 2 /\ IsOpen(s.fds, 2))
    BY DEF T
  <1>12. r.undo = tried.undo /\ r.ok
    BY <1>9, <1>10 DEF Unrecording, Follows
  <1>13. Outcome(s, r, T, U)
    BY <1>8, <1>10, <1>11, <1>12 DEF Outcome, Follows
  <1> QED BY <1>13 DEF T

\* A redirection, whichever it is.
LEMMA RedirectionOutcome ==
  ASSUME Sound(Now), HasRoom, NEW r, NEW s, Advances(r, s)
  PROVE  Outcome(Now, s, Touched(r), Unrecorded(r))
  <1>1. Now.ok /\ Now.fds = fds
    BY DEF Now
  <1>2. Roomy(Now.fds)
    BY <1>1 DEF HasRoom
  <1> DEFINE now == Now
  <1>3. Sound(now) /\ now.ok /\ Roomy(now.fds) /\ now.fds = fds
    BY <1>1, <1>2
  <1>4. CASE r \in Others /\ s = Redirected(r)
    <2>1. r.redirector \in UserNumbers
      BY <1>4 DEF Others
    <2>2. CASE r.ri = "dup"
      <3>1. r.redir_fd \in UserNumbers /\ s = Duplicate(now, r.redirector, r.redir_fd)
        BY <1>4, <2>2 DEF Others, Redirected
      <3>2. CASE r.redirector = r.redir_fd
        <4>1. Touched(r) = {} /\ s = now
          BY <3>1, <3>2 DEF Touched, Duplicate
        <4> HIDE DEF now
        <4> QED BY <1>3, <4>1, NoOutcome DEF now
      <3>3. CASE r.redirector # r.redir_fd
        <4>1. Touched(r) = {r.redirector} /\ Unrecorded(r) = {}
          BY <2>2, <3>3 DEF Touched, Unrecorded
        <4> HIDE DEF now
        <4>2. Outcome(now, s, {r.redirector}, {})
          BY <1>3, <2>1, <3>1, <3>3, DuplicateOutcome
        <4> QED BY <4>1, <4>2 DEF now
      <3> QED BY <3>2, <3>3
    <2>3. CASE r.ri = "move"
      <3>1. r.redir_fd \in UserNumbers /\ s = Move(now, r.redirector, r.redir_fd)
        BY <1>4, <2>3 DEF Others, Redirected
      <3>2. CASE r.redirector = r.redir_fd
        <4>1. Touched(r) = {} /\ s = now
          BY <3>1, <3>2 DEF Touched, Move
        <4> HIDE DEF now
        <4> QED BY <1>3, <4>1, NoOutcome DEF now
      <3>3. CASE r.redirector # r.redir_fd
        <4>1. /\ Touched(r) = {r.redirector, r.redir_fd}
              /\ Unrecorded(r) = IF IsOpen(fds, r.redirector) THEN {} ELSE {r.redir_fd}
          BY <2>3, <3>3 DEF Touched, Unrecorded
        <4> HIDE DEF now
        <4>2. Outcome(now, s, {r.redirector, r.redir_fd},
                      IF IsOpen(now.fds, r.redirector) THEN {} ELSE {r.redir_fd})
          BY <1>3, <2>1, <3>1, <3>3, MoveOutcome
        <4> QED BY <1>3, <4>1, <4>2 DEF now
      <3> QED BY <3>2, <3>3
    <2>4. CASE r.ri = "close"
      <3>1. r.redir_fd = NoNumber /\ s = Close(now, r.redirector)
        BY <1>4, <2>4 DEF Others, Redirected
      <3>2. r.redirector # r.redir_fd
        BY <2>1, <3>1, Bounds
      <3>3. Touched(r) = {r.redirector} /\ Unrecorded(r) = {}
        BY <2>4, <3>2 DEF Touched, Unrecorded
      <3> HIDE DEF now
      <3>4. Outcome(now, s, {r.redirector}, {})
        BY <1>3, <2>1, <3>1, CloseOutcome
      <3> QED BY <3>3, <3>4 DEF now
    <2> QED BY <1>4, <2>2, <2>3, <2>4 DEF Others
  <1>5. ASSUME r \in Opens, NEW file \in Files, s = RedirectedTo(r, file)
        PROVE  Outcome(Now, s, Touched(r), Unrecorded(r))
    <2>1. r.redirector \in UserNumbers /\ r.redir_fd = NoNumber
      BY <1>5, Bounds DEF Opens
    <2>2. r.redirector # r.redir_fd
      BY <2>1, Bounds
    <2>3. CASE r.ri = "open"
      <3>1. s = OpenFile(now, r.redirector, file)
        BY <1>5, <2>3 DEF RedirectedTo
      <3>2. Touched(r) = {r.redirector} /\ Unrecorded(r) = {}
        BY <2>2, <2>3 DEF Touched, Unrecorded
      <3> HIDE DEF now
      <3>3. Outcome(now, s, {r.redirector}, {})
        BY <1>3, <2>1, <3>1, OpenFileOutcome
      <3> QED BY <3>2, <3>3 DEF now
    <2>4. CASE r.ri = "both"
      <3>1. s = OpenBoth(now, file)
        BY <1>5, <2>4 DEF RedirectedTo
      <3>2. Touched(r) = {1, 2} /\ Unrecorded(r) = {n \in {2} : ~IsOpen(fds, n)}
        BY <2>2, <2>4 DEF Touched, Unrecorded
      <3> HIDE DEF now
      <3>3. Outcome(now, s, {1, 2}, {n \in {2} : ~IsOpen(now.fds, n)})
        BY <1>3, <3>1, OpenBothOutcome
      <3> QED BY <1>3, <3>2, <3>3 DEF now
    <2> QED BY <1>5, <2>3, <2>4 DEF Opens
  <1> QED BY <1>4, <1>5 DEF Advances

-----------------------------------------------------------------------------
(***************************************************************************)
(* The invariant.  The lists of the commands that are running are well     *)
(* formed and share no copy; a command whose redirections are under way    *)
(* has the shell's list, the others their own; each list restores what its *)
(* command promised, but for what has lapsed; and every open number from   *)
(* Base on is the copy of a list, or lost.                                 *)
(***************************************************************************)
Phases(st, u, pr, lap) ==
    /\ \A d \in 1 .. Len(st) : st[d].phase # "body" => st[d].undo = <<>>
    /\ \A d \in 1 .. Len(st) : d < Len(st) => st[d].phase # "redirecting"
    /\ \A d \in 1 .. Len(st) : d < Len(st) /\ st[d].phase = "opening" => lap[d] = DOMAIN pr[d]
    /\ st # <<>> /\ st[Len(st)].phase = "body" => u = <<>>

Current(t, u, x) ==
    /\ WellFormed(u) /\ Intact(t, u)
    /\ Closes(x) /\ Copies(u) \subseteq Copies(x)

Stacked(t, x, st) ==
    /\ \A d \in 1 .. Len(st) : /\ WellFormed(st[d].undo) /\ Intact(t, st[d].undo)
                               /\ Copies(st[d].undo) \cap Copies(x) = {}
    /\ \A d, e \in 1 .. Len(st) : d # e => Copies(st[d].undo) \cap Copies(st[e].undo) = {}

\* The list restores what was promised, and touches nothing else.
Owes(t, list, promise, lap) ==
    /\ \A n \in UserNumbers : Mentions(list, n) => n \in DOMAIN promise
    /\ \A n \in DOMAIN promise \ lap : \E e : Ends(list, n, e) /\ Value(t, e) = promise[n]

Mine(st, u, d) == IF d = Len(st) /\ st[d].phase # "body" THEN u ELSE st[d].undo

KeepsPromises(t, u, st, pr, lap) ==
    \A d \in 1 .. Len(st) : Owes(t, Mine(st, u, d), pr[d], lap[d])

InStack(st, n) == \E d \in 1 .. Len(st) : n \in Copies(st[d].undo)

Known(t, u, st, gone) ==
    \A n \in High : IsOpen(t, n) => n \in gone \cup Copies(u) \/ InStack(st, n)

InvAt(t, u, x, st, pr, lap, gone) ==
    /\ Clean(t) /\ Phases(st, u, pr, lap)
    /\ Current(t, u, x) /\ Stacked(t, x, st)
    /\ KeepsPromises(t, u, st, pr, lap) /\ Known(t, u, st, gone)

Inv == InvAt(fds, redirection_undo_list, exec_redirection_undo_list, stack, promises, lapsed, lost)

LEMMA StillOwes ==
  ASSUME NEW list, WellFormed(list), NEW t, NEW t2, \A c \in Copies(list) : t2[c] = t[c],
         NEW promise, NEW lap, Owes(t, list, promise, lap)
  PROVE  Owes(t2, list, promise, lap)
  <1>1. \A n, e : Ends(list, n, e) => Value(t2, e) = Value(t, e)
    BY ValueKept
  <1> QED BY <1>1 DEF Owes

LEMMA SoundNow ==
  ASSUME Typed, Inv
  PROVE  /\ Sound(Now) /\ Now.ok /\ Now.fds = fds
         /\ Now.undo = redirection_undo_list /\ Now.exec = exec_redirection_undo_list
  <1>1. /\ Now.ok /\ Now.fds = fds
        /\ Now.undo = redirection_undo_list /\ Now.exec = exec_redirection_undo_list
    BY DEF Now
  <1>2. Now \in Redirs
    BY NowType
  <1> QED BY <1>1, <1>2 DEF Inv, InvAt, Current, Sound

\* Unwinding: what it makes of the table t that it begins with.
Cleared(t, k, t2) ==
    /\ t2 \in Tables /\ Clean(t2)
    /\ \A n \in High : t2[n] = IF \E d \in k + 1 .. Depth : n \in Copies(stack[d].undo)
                               THEN Nothing ELSE t[n]
    /\ \A n \in UserNumbers : (\A d \in k + 1 .. Depth : ~Mentions(stack[d].undo, n)) => t2[n] = t[n]
    /\ \A n \in UserNumbers, d \in k + 1 .. Depth : \A e :
         /\ Ends(stack[d].undo, n, e)
         /\ \A c \in k + 1 .. d - 1 : ~Mentions(stack[c].undo, n)
         => t2[n] = Value(t, e)

\* The copies of the stack are where they were.
SameCopies(t) == \A d \in 1 .. Depth : \A n \in Copies(stack[d].undo) : t[n] = fds[n]

LEMMA ClearedNothing ==
  ASSUME NEW t \in Tables, Clean(t), NEW k \in Nat, Depth \in Nat,
         \A d \in k + 1 .. Depth : stack[d].undo = <<>>
  PROVE  Cleared(t, k, t)
  <1>1. \A d \in k + 1 .. Depth : Copies(stack[d].undo) = {} /\ \A n : ~Mentions(stack[d].undo, n)
    BY NoEntries
  <1>2. \A d \in k + 1 .. Depth : \A n, e : ~Ends(stack[d].undo, n, e)
    BY <1>1 DEF Ends, Mentions
  <1> QED BY <1>1, <1>2 DEF Cleared

LEMMA ClearedStep ==
  ASSUME Stacked(fds, exec_redirection_undo_list, stack), Depth \in Nat, NEW t \in Tables, SameCopies(t),
         NEW c \in 1 .. Depth, NEW v, Cleared(t, c, v), NEW w, w = Undo(v, stack[c].undo)
  PROVE  Cleared(t, c - 1, w)
  <1> DEFINE list == stack[c].undo
  <1>1. /\ WellFormed(list) /\ Intact(fds, list) /\ list \in Seq(Entry) /\ Copies(list) \subseteq High
        /\ \A d \in c + 1 .. Depth : Copies(list) \cap Copies(stack[d].undo) = {}
        /\ \A n \in Copies(list) : t[n] = fds[n]
    <2>1. WellFormed(list) /\ Intact(fds, list) /\ c \in 1 .. Len(stack)
      BY DEF Stacked, Depth
    <2>2. \A d \in c + 1 .. Depth : d \in 1 .. Len(stack) /\ d # c
      BY DEF Depth
    <2> QED BY <2>1, <2>2, CopiesAre DEF Stacked, SameCopies, WellFormed
  <1>2. c \in Nat /\ c - 1 + 1 = c /\ \A d \in c .. Depth : d = c \/ d \in c + 1 .. Depth
    OBVIOUS
  <1>3. w = Undo(v, list)
    OBVIOUS
  <1> HIDE DEF list
  <1>4. \A n \in Copies(list) : v[n] = t[n]
    BY <1>1 DEF Cleared
  <1>5. Intact(v, list)
    BY <1>1, <1>4 DEF Intact, IsOpen
  <1>6. Undid(v, list, w)
    BY <1>1, <1>3, <1>5, IntactIsRunnable, UndoFacts DEF Cleared
  <1>7. \A n, e : Ends(list, n, e) => Value(v, e) = Value(t, e)
    BY <1>1, <1>4, ValueKept
  <1>8. ASSUME NEW n \in High
        PROVE  w[n] = IF \E d \in c .. Depth : n \in Copies(stack[d].undo) THEN Nothing ELSE t[n]
    <2>1. (\E d \in c .. Depth : n \in Copies(stack[d].undo))
            <=> n \in Copies(list) \/ \E d \in c + 1 .. Depth : n \in Copies(stack[d].undo)
      <3>1. c \in c .. Depth /\ \A d \in c + 1 .. Depth : d \in c .. Depth
        OBVIOUS
      <3> QED BY <1>2, <3>1 DEF list
    <2> QED BY <1>6, <2>1 DEF Cleared, Undid
  <1>9. ASSUME NEW n \in UserNumbers, \A d \in c .. Depth : ~Mentions(stack[d].undo, n)
        PROVE  w[n] = t[n]
    <2>1. c \in c .. Depth /\ \A d \in c + 1 .. Depth : d \in c .. Depth
      OBVIOUS
    <2>2. ~Mentions(list, n) /\ \A d \in c + 1 .. Depth : ~Mentions(stack[d].undo, n)
      BY <1>9, <2>1 DEF list
    <2> QED BY <1>6, <2>2 DEF Cleared, Undid
  <1>10. ASSUME NEW n \in UserNumbers, NEW d \in c .. Depth, NEW e, Ends(stack[d].undo, n, e),
                \A m \in c .. d - 1 : ~Mentions(stack[m].undo, n)
         PROVE  w[n] = Value(t, e)
    <2>1. CASE d = c
      <3>1. Ends(list, n, e)
        BY <1>10, <2>1 DEF list
      <3> QED BY <1>6, <1>7, <3>1 DEF Undid
    <2>2. CASE d \in c + 1 .. Depth
      <3>1. c \in c .. d - 1 /\ \A m \in c + 1 .. d - 1 : m \in c .. d - 1
        BY <2>2
      <3>2. ~Mentions(list, n) /\ \A m \in c + 1 .. d - 1 : ~Mentions(stack[m].undo, n)
        BY <1>10, <3>1 DEF list
      <3>3. v[n] = Value(t, e)
        BY <1>10, <2>2, <3>2 DEF Cleared
      <3> QED BY <1>6, <3>2, <3>3 DEF Undid
    <2> QED BY <1>2, <2>1, <2>2
  <1> QED BY <1>2, <1>6, <1>8, <1>9, <1>10 DEF Cleared, Undid

LEMMA UnwoundClears ==
  ASSUME Typed, Stacked(fds, exec_redirection_undo_list, stack), NEW t \in Tables, Clean(t), SameCopies(t),
         NEW k \in 0 .. Depth
  PROVE  Cleared(t, k, Unwound(t, k))
  <1>0. stack \in Seq(Frame) /\ Depth \in Nat /\ k \in Nat /\ Depth - k \in Nat
    BY DEF Typed, TypedAt, Depth
  <1>1. PICK h : Unwindings(t, k, h) /\ Unwound(t, k) = h[Depth - k]
    BY <1>0, UnwoundExists
  <1> DEFINE P == {n \in Nat : n <= Depth - k => Cleared(t, Depth - n, h[n])}
  <1>2. 0 \in P
    <2>1. 0 \in 0 .. Depth - k
      BY <1>0
    <2>2. h[0] = t
      BY <1>1, <2>1 DEF Unwindings
    <2>3. Depth - 0 = Depth /\ Depth + 1 .. Depth = {}
      BY <1>0
    <2>4. Cleared(t, Depth, t)
      BY <1>0, <2>3, ClearedNothing
    <2> QED BY <2>2, <2>3, <2>4
  <1>3. ASSUME NEW n \in Nat, n \in P PROVE n + 1 \in P
    <2> SUFFICES ASSUME n + 1 <= Depth - k PROVE Cleared(t, Depth - (n + 1), h[n + 1])
      OBVIOUS
    <2> DEFINE c == Depth - n
    <2>1. n + 1 \in 0 .. Depth - k /\ n + 1 # 0 /\ n + 1 - 1 = n /\ Depth - (n + 1) + 1 = c
      BY <1>0
    <2>2. h[n + 1] = Undo(h[n], stack[c].undo)
      BY <1>1, <2>1 DEF Unwindings
    <2>3. c \in 1 .. Depth /\ Depth - (n + 1) = c - 1
      BY <1>0
    <2>4. Cleared(t, c, h[n])
      BY <1>0, <1>3
    <2> HIDE DEF c
    <2>5. Cleared(t, c - 1, h[n + 1])
      BY <1>0, <2>2, <2>3, <2>4, ClearedStep
    <2> QED BY <2>3, <2>5
  <1>4. Nat \subseteq P
    <2> HIDE DEF P
    <2> QED BY <1>2, <1>3, SetInduction
  <1>5. Depth - k \in P /\ Depth - (Depth - k) = k
    BY <1>0, <1>4
  <1> QED BY <1>0, <1>1, <1>5

-----------------------------------------------------------------------------
(***************************************************************************)
(* Steps that end commands: t is the table before the unwind-protect list  *)
(* is run, and the commands up to k stay.                                  *)
(***************************************************************************)
EndsAfter(t, k) ==
    /\ Ending(k) /\ Cleared(t, k, fds') /\ SameCopies(t)
    /\ \A n \in High : IsOpen(t, n) =>
         n \in lost \cup Copies(redirection_undo_list') \/ InStack(stack, n)
    /\ Closes(exec_redirection_undo_list')
    /\ \A d \in 1 .. Depth : Copies(stack[d].undo) \cap Copies(exec_redirection_undo_list') = {}
    /\ \/ redirection_undo_list' = <<>>
       \/ /\ k = 0 /\ t = fds /\ redirection_undo_list' = redirection_undo_list
          /\ exec_redirection_undo_list' = exec_redirection_undo_list

LEMMA EndKeepsInv ==
  ASSUME Typed, Inv, NEW t, NEW k, EndsAfter(t, k) PROVE Inv'
  <1> DEFINE u == redirection_undo_list
             x == exec_redirection_undo_list
  <1>1. /\ Len(stack') = k /\ Len(lapsed') = k /\ k \in Nat /\ Depth \in Nat /\ k < Depth
        /\ \A d \in 1 .. k : /\ d \in 1 .. Depth /\ stack'[d] = stack[d]
                             /\ promises'[d] = promises[d] /\ lapsed'[d] = lapsed[d]
        /\ stack' \in Seq(Frame) /\ lost' = lost
    BY EndingIs DEF EndsAfter, Ending
  <1>2. /\ Phases(stack, u, promises, lapsed) /\ Current(fds, u, x) /\ Stacked(fds, x, stack)
        /\ KeepsPromises(fds, u, stack, promises, lapsed) /\ Depth = Len(stack)
    BY DEF Inv, InvAt, Depth
  <1>3. \A d \in 1 .. k : WellFormed(stack[d].undo) /\ Intact(fds, stack[d].undo)
                          /\ Copies(stack[d].undo) \subseteq High
    BY <1>1, <1>2, CopiesAre DEF Stacked, WellFormed
  <1>4. ASSUME NEW d \in 1 .. k, NEW n \in Copies(stack[d].undo) PROVE fds'[n] = fds[n]
    <2>1. \A e \in k + 1 .. Depth : e \in 1 .. Depth /\ e # d
      BY <1>1
    <2>2. \A e \in k + 1 .. Depth : n \notin Copies(stack[e].undo)
      BY <1>1, <1>2, <1>4, <2>1 DEF Stacked
    <2>3. n \in High /\ t[n] = fds[n]
      BY <1>1, <1>3, <1>4 DEF EndsAfter, SameCopies
    <2>4. fds'[n] = t[n]
      BY <2>2, <2>3 DEF EndsAfter, Cleared
    <2> QED BY <2>3, <2>4
  <1>5. Clean(fds')
    BY DEF EndsAfter, Cleared
  <1>6. ASSUME NEW n \in High, IsOpen(fds', n)
        PROVE  n \in lost \cup Copies(u') \/ \E d \in 1 .. k : n \in Copies(stack[d].undo)
    <2>1. fds'[n] # Nothing
      BY <1>6 DEF IsOpen, Nothing
    <2>2. fds'[n] = t[n] /\ \A d \in k + 1 .. Depth : n \notin Copies(stack[d].undo)
      BY <2>1 DEF EndsAfter, Cleared
    <2>3. IsOpen(t, n)
      BY <1>6, <2>2 DEF IsOpen
    <2>4. n \in lost \cup Copies(u') \/ \E d \in 1 .. Depth : n \in Copies(stack[d].undo)
      BY <1>2, <2>3 DEF EndsAfter, InStack
    <2>5. \A d \in 1 .. Depth : d \in 1 .. k \/ d \in k + 1 .. Depth
      BY <1>1
    <2> QED BY <2>2, <2>4, <2>5
  <1>7. Current(fds', u', x')
    <2>1. CASE u' = <<>>
      BY <2>1, NoEntries DEF EndsAfter, Current
    <2>2. CASE k = 0 /\ t = fds /\ u' = u /\ x' = x
      <3>1. ASSUME NEW n \in Copies(u) PROVE fds'[n] = fds[n]
        <4>1. n \in High /\ n \in Copies(x)
          BY <1>2, CopiesAre DEF Current, WellFormed
        <4>2. \A d \in k + 1 .. Depth : n \notin Copies(stack[d].undo)
          BY <1>1, <1>2, <4>1 DEF Stacked
        <4> QED BY <2>2, <4>1, <4>2 DEF EndsAfter, Cleared
      <3>2. Intact(fds', u)
        BY <1>2, <3>1 DEF Current, Intact, IsOpen
      <3> QED BY <1>2, <2>2, <3>2 DEF Current
    <2> QED BY <2>1, <2>2 DEF EndsAfter
  <1>8. Stacked(fds', x', stack')
    <2>1. ASSUME NEW d \in 1 .. k
          PROVE  /\ WellFormed(stack[d].undo) /\ Intact(fds', stack[d].undo)
                 /\ Copies(stack[d].undo) \cap Copies(x') = {}
      <3>1. Intact(fds', stack[d].undo)
        BY <1>3, <1>4 DEF Intact, IsOpen
      <3> QED BY <1>1, <1>3, <3>1 DEF EndsAfter
    <2>2. \A d, e \in 1 .. k : d # e => Copies(stack[d].undo) \cap Copies(stack[e].undo) = {}
      BY <1>1, <1>2 DEF Stacked
    <2> QED BY <1>1, <2>1, <2>2 DEF Stacked
  <1>9. Phases(stack', u', promises', lapsed')
    <2>1. \A d \in 1 .. k : d < Len(stack)
      BY <1>1, <1>2
    <2>2. stack' # <<>> => k \in 1 .. k /\ k # 0
      BY <1>1
    <2>3. stack' # <<>> => u' = <<>>
      BY <2>2 DEF EndsAfter
    <2> QED BY <1>1, <1>2, <2>1, <2>3 DEF Phases
  <1>10. KeepsPromises(fds', u', stack', promises', lapsed')
    <2> SUFFICES ASSUME NEW d \in 1 .. k
                 PROVE  Owes(fds', Mine(stack', u', d), promises[d], lapsed[d])
      BY <1>1 DEF KeepsPromises
    <2>1. d \in 1 .. Len(stack) /\ d # Len(stack) /\ d < Len(stack) /\ k # 0
      BY <1>1, <1>2
    <2>2. u' = <<>>
      BY <2>1 DEF EndsAfter
    <2>3. Mine(stack', u', d) = stack[d].undo
      BY <1>1, <1>2, <2>1, <2>2 DEF Mine, Phases
    <2>4. Owes(fds, stack[d].undo, promises[d], lapsed[d])
      BY <1>2, <2>1 DEF KeepsPromises, Mine
    <2>5. \A c \in Copies(stack[d].undo) : fds'[c] = fds[c]
      BY <1>4
    <2>6. WellFormed(stack[d].undo)
      BY <1>3
    <2> QED BY <2>3, <2>4, <2>5, <2>6, StillOwes
  <1>11. Known(fds', u', stack', lost')
    BY <1>1, <1>6 DEF Known, InStack
  <1> QED BY <1>5, <1>7, <1>8, <1>9, <1>10, <1>11 DEF Inv, InvAt

\* What each number refers to after commands have ended.
LEMMA EndRestores ==
  ASSUME Typed, Inv, NEW t, NEW k, EndsAfter(t, k), NEW n \in UserNumbers,
         Top.phase = "body" \/ n \notin DOMAIN Promise => t[n] = fds[n]
  PROVE  \/ fds'[n] \in Owed(n)
         \/ /\ Ended(n) = {Depth} /\ Top.phase # "body" /\ n \in DOMAIN Promise \ lapsed[Depth]
            /\ Owed(n) = {Promise[n]} /\ fds'[n] = t[n]
  <1> DEFINE u == redirection_undo_list
             E == Ended(n)
  <1>1. /\ Len(stack') = k /\ k \in Nat /\ Depth \in Nat /\ k < Depth /\ Depth = Len(stack)
        /\ stack # <<>>
    <2>1. Len(stack') = k /\ k \in Nat /\ Depth \in Nat /\ k < Depth
      BY EndingIs DEF EndsAfter
    <2> QED BY <2>1 DEF Depth
  <1>2. E = {d \in k + 1 .. Depth : n \in DOMAIN promises[d]}
    BY <1>1 DEF Ended
  <1> HIDE DEF E
  <1>3. /\ Phases(stack, u, promises, lapsed) /\ Stacked(fds, exec_redirection_undo_list, stack)
        /\ KeepsPromises(fds, u, stack, promises, lapsed)
    BY DEF Inv, InvAt
  <1>4. Top = stack[Depth] /\ Promise = promises[Depth] /\ n \in Numbers
    BY Bounds DEF Top, Promise
  <1>5. ASSUME NEW d \in k + 1 .. Depth, d # Depth \/ Top.phase = "body"
        PROVE  /\ WellFormed(stack[d].undo) /\ Owes(fds, stack[d].undo, promises[d], lapsed[d])
               /\ \A c \in Copies(stack[d].undo) : t[c] = fds[c]
    <2>1. d \in 1 .. Depth /\ d \in 1 .. Len(stack)
      BY <1>1
    <2>2. Mine(stack, u, d) = stack[d].undo
      BY <1>1, <1>4, <1>5 DEF Mine
    <2> QED BY <1>3, <2>1, <2>2 DEF KeepsPromises, Stacked, EndsAfter, SameCopies
  <1>6. ASSUME NEW d \in k + 1 .. Depth, n \notin DOMAIN promises[d] PROVE ~Mentions(stack[d].undo, n)
    <2>1. CASE d # Depth \/ Top.phase = "body"
      BY <1>5, <1>6, <2>1 DEF Owes
    <2>2. CASE d = Depth /\ Top.phase # "body"
      <3>1. stack[d].undo = <<>>
        BY <1>1, <1>3, <1>4, <2>2 DEF Phases
      <3> QED BY <3>1, NoEntries
    <2> QED BY <2>1, <2>2
  <1>7. CASE E = {}
    <2>1. \A d \in k + 1 .. Depth : n \notin DOMAIN promises[d]
      BY <1>2, <1>7
    <2>2. Depth \in k + 1 .. Depth
      BY <1>1
    <2>3. fds'[n] = t[n]
      BY <1>6, <2>1 DEF EndsAfter, Cleared
    <2>4. t[n] = fds[n]
      BY <1>4, <2>1, <2>2
    <2> QED BY <1>7, <2>3, <2>4 DEF Owed, E
  <1>8. CASE E # {}
    <2> DEFINE m == Min(E)
    <2>1. m \in E /\ \A d \in E : m <= d
      <3>1. E \in SUBSET Nat
        BY <1>1, <1>2
      <3> QED BY <1>8, <3>1, LeastElement
    <2>2. Owed(n) = IF n \in lapsed[m] THEN Desc ELSE {promises[m][n]}
      BY <1>8 DEF Owed, E
    <2> HIDE DEF m
    <2>3. m \in k + 1 .. Depth /\ m \in Nat /\ n \in DOMAIN promises[m]
      BY <1>1, <1>2, <2>1
    <2>4. \A d \in k + 1 .. m - 1 : d \in k + 1 .. Depth /\ ~(m <= d)
      BY <1>1, <2>3
    <2>5. \A d \in k + 1 .. m - 1 : n \notin DOMAIN promises[d]
      BY <1>2, <2>1, <2>4
    <2>6. \A d \in k + 1 .. m - 1 : ~Mentions(stack[d].undo, n)
      BY <1>6, <2>4, <2>5
    <2>7. CASE n \in lapsed[m]
      <3>1. fds' \in Tables
        BY DEF EndsAfter, Cleared
      <3>2. fds'[n] \in Desc
        BY <1>4, <3>1 DEF Tables
      <3> QED BY <2>2, <2>7, <3>2
    <2>8. CASE n \notin lapsed[m] /\ (m # Depth \/ Top.phase = "body")
      <3>1. /\ WellFormed(stack[m].undo) /\ Owes(fds, stack[m].undo, promises[m], lapsed[m])
            /\ \A c \in Copies(stack[m].undo) : t[c] = fds[c]
        BY <1>5, <2>3, <2>8
      <3>2. PICK e : Ends(stack[m].undo, n, e) /\ Value(fds, e) = promises[m][n]
        BY <2>3, <2>8, <3>1 DEF Owes
      <3>3. Value(t, e) = Value(fds, e)
        BY <3>1, <3>2, ValueKept
      <3>4. fds'[n] = Value(t, e)
        BY <2>3, <2>6, <3>2 DEF EndsAfter, Cleared
      <3> QED BY <2>2, <2>8, <3>2, <3>3, <3>4
    <2>9. CASE n \notin lapsed[m] /\ m = Depth /\ Top.phase # "body"
      <3>1. E = {Depth}
        <4>1. \A d \in E : d \in k + 1 .. Depth /\ Depth <= d
          BY <1>2, <2>1, <2>9
        <4>2. \A d \in E : d = Depth
          BY <1>1, <4>1
        <4> QED BY <2>1, <2>9, <4>2
      <3>2. stack[Depth].undo = <<>>
        BY <1>1, <1>3, <1>4, <2>9 DEF Phases
      <3>3. \A d \in k + 1 .. Depth : ~Mentions(stack[d].undo, n)
        <4>1. \A d \in k + 1 .. Depth : d = Depth \/ d \in k + 1 .. m - 1
          BY <1>1, <2>9
        <4> QED BY <2>6, <3>2, <4>1, NoEntries
      <3>4. fds'[n] = t[n]
        BY <3>3 DEF EndsAfter, Cleared
      <3> QED BY <1>4, <2>2, <2>3, <2>9, <3>1, <3>4 DEF E
    <2> QED BY <2>7, <2>8, <2>9
  <1> QED BY <1>7, <1>8

-----------------------------------------------------------------------------
(***************************************************************************)
(* The commands that end by undoing what is recorded.                      *)
(***************************************************************************)
Disjoint(x) == \A d \in 1 .. Depth : Copies(stack[d].undo) \cap Copies(x) = {}

\* The table t has what the innermost command redirected as it was.
SetBack(t) ==
    /\ t \in Tables /\ Clean(t) /\ SameCopies(t)
    /\ \A n \in High : IsOpen(t, n) => n \in lost \/ InStack(stack, n)
    /\ \A n \in UserNumbers :
         /\ Top.phase = "body" \/ n \notin DOMAIN Promise => t[n] = fds[n]
         /\ Top.phase # "body" /\ n \in DOMAIN Promise \ lapsed[Depth] => t[n] = Promise[n]

\* The copies of a redirection that is performed are none of the stack's.
LEMMA NewCopiesApart ==
  ASSUME Typed, Inv, NEW s, NEW T, Progress(Now, s, T), NEW d \in 1 .. Depth
  PROVE  /\ Copies(stack[d].undo) \subseteq High
         /\ Copies(stack[d].undo) \cap Copies(s.undo) = {}
         /\ Copies(stack[d].undo) \cap Copies(s.exec) = {}
         /\ \A n \in Copies(stack[d].undo) : s.fds[n] = fds[n]
  <1> DEFINE list == stack[d].undo
  <1>1. /\ WellFormed(list) /\ Intact(fds, list)
        /\ Copies(list) \cap Copies(exec_redirection_undo_list) = {}
    BY DEF Inv, InvAt, Stacked, Depth
  <1>2. /\ Now.fds = fds /\ Now.undo = redirection_undo_list /\ Now.exec = exec_redirection_undo_list
        /\ Copies(redirection_undo_list) \subseteq Copies(exec_redirection_undo_list)
    BY SoundNow DEF Inv, InvAt, Current
  <1> HIDE DEF list
  <1>3. Copies(list) \subseteq High
    BY <1>1, CopiesAre DEF WellFormed
  <1>4. \A n \in Copies(list) : n \notin Copies(s.undo) /\ n \notin Copies(s.exec)
    BY <1>1, <1>2 DEF Progress, NewCopies, Intact
  <1>5. \A n \in Copies(list) : s.fds[n] = fds[n]
    BY <1>2, <1>3, <1>4 DEF Progress, NewCopies
  <1> QED BY <1>3, <1>4, <1>5 DEF list

LEMMA Undoing ==
  ASSUME Typed, Inv, stack # <<>>, NEW s, NEW T, Progress(Now, s, T),
         \A n \in UserNumbers : s.fds[n] = fds[n], Top.phase = "body" => s.undo = <<>>,
         NEW t, t = Undo(s.fds, s.undo)
  PROVE  SetBack(t) /\ Closes(s.exec) /\ Disjoint(s.exec)
  <1> DEFINE u == redirection_undo_list
             x == exec_redirection_undo_list
  <1>1. /\ s \in Redirs /\ s.fds \in Tables /\ Clean(s.fds) /\ WellFormed(s.undo) /\ Intact(s.fds, s.undo)
        /\ Closes(s.exec) /\ Now.fds = fds /\ Now.undo = u /\ Now.exec = x
    BY SoundNow, RedirsFields DEF Progress, Sound
  <1>2. Undid(s.fds, s.undo, t)
    BY <1>1, IntactIsRunnable, UndoFacts
  <1>3. /\ WellFormed(u) /\ Known(fds, u, stack, lost)
        /\ KeepsPromises(fds, u, stack, promises, lapsed)
    BY DEF Inv, InvAt, Current
  <1>4. Depth \in 1 .. Depth /\ Depth = Len(stack) /\ Top = stack[Depth] /\ Promise = promises[Depth]
    BY TopType DEF Top, Promise, Depth
  <1>5. SameCopies(t)
    <2>1. ASSUME NEW d \in 1 .. Depth, NEW n \in Copies(stack[d].undo) PROVE t[n] = fds[n]
      <3>1. n \in High /\ n \notin Copies(s.undo) /\ s.fds[n] = fds[n]
        BY <2>1, NewCopiesApart
      <3> QED BY <1>2, <3>1 DEF Undid
    <2> QED BY <2>1 DEF SameCopies
  <1>6. Disjoint(s.exec)
    BY NewCopiesApart DEF Disjoint
  <1>7. ASSUME NEW n \in High, IsOpen(t, n) PROVE n \in lost \/ InStack(stack, n)
    <2>1. t[n] # Nothing
      BY <1>7 DEF IsOpen, Nothing
    <2>2. n \notin Copies(s.undo) /\ t[n] = s.fds[n]
      BY <1>2, <2>1 DEF Undid
    <2>3. s.fds[n] = fds[n] /\ n \notin Copies(u)
      BY <1>1, <2>2 DEF Progress, NewCopies
    <2>4. IsOpen(fds, n)
      BY <1>7, <2>2, <2>3 DEF IsOpen
    <2> QED BY <1>3, <2>3, <2>4 DEF Known
  <1>8. CASE Top.phase = "body"
    <2>1. \A n \in UserNumbers : t[n] = s.fds[n]
      BY <1>2, <1>8, NoEntries DEF Undid
    <2> QED BY <1>1, <1>2, <1>5, <1>6, <1>7, <1>8, <2>1 DEF SetBack, Undid
  <1>9. CASE Top.phase # "body"
    <2>1. Owes(fds, u, Promise, lapsed[Depth])
      BY <1>3, <1>4, <1>9 DEF KeepsPromises, Mine
    <2>2. ASSUME NEW n \in UserNumbers, n \notin DOMAIN Promise PROVE t[n] = fds[n]
      <3>1. ~Mentions(u, n)
        BY <2>1, <2>2 DEF Owes
      <3>2. CASE Mentions(s.undo, n)
        <4>1. PICK e : Ends(s.undo, n, e) /\ Value(s.fds, e) = fds[n]
          BY <1>1, <3>1, <3>2 DEF Progress, Remembers
        <4> QED BY <1>2, <4>1 DEF Undid
      <3>3. CASE ~Mentions(s.undo, n)
        BY <1>2, <3>3 DEF Undid
      <3> QED BY <3>2, <3>3
    <2>3. ASSUME NEW n \in UserNumbers, n \in DOMAIN Promise \ lapsed[Depth] PROVE t[n] = Promise[n]
      <3>1. PICK e : Ends(u, n, e) /\ Value(fds, e) = Promise[n]
        BY <2>1, <2>3 DEF Owes
      <3>2. Value(s.fds, e) = Value(fds, e)
        <4>1. \A c \in Copies(u) : s.fds[c] = fds[c]
          BY <1>1 DEF Progress
        <4> QED BY <1>3, <3>1, <4>1, ValueKept
      <3>3. Ends(s.undo, n, e)
        BY <1>1, <3>1 DEF Progress, Remembers
      <3> QED BY <1>2, <3>1, <3>2, <3>3 DEF Undid
    <2> QED BY <1>1, <1>2, <1>5, <1>6, <1>7, <1>9, <2>2, <2>3 DEF SetBack, Undid
  <1> QED BY <1>8, <1>9

RestoresAll == \A n \in UserNumbers : fds'[n] \in Owed(n)

LEMMA SetBackEnds ==
  ASSUME Typed, Inv, NEW t, SetBack(t), NEW k, Ending(k), Cleared(t, k, fds'),
         redirection_undo_list' = <<>>, Closes(exec_redirection_undo_list'),
         Disjoint(exec_redirection_undo_list')
  PROVE  Inv' /\ RestoresAll
  <1>1. EndsAfter(t, k)
    BY DEF SetBack, EndsAfter, Disjoint
  <1>2. ASSUME NEW n \in UserNumbers PROVE fds'[n] \in Owed(n)
    <2>1. Top.phase = "body" \/ n \notin DOMAIN Promise => t[n] = fds[n]
      BY DEF SetBack
    <2>2. \/ fds'[n] \in Owed(n)
          \/ /\ Ended(n) = {Depth} /\ Top.phase # "body" /\ n \in DOMAIN Promise \ lapsed[Depth]
             /\ Owed(n) = {Promise[n]} /\ fds'[n] = t[n]
      BY <1>1, <2>1, EndRestores
    <2> QED BY <2>2 DEF SetBack
  <1> QED BY <1>1, <1>2, EndKeepsInv DEF RestoresAll

\* The undo list of a command whose redirections are under way is empty.
LEMMA NothingOfItsOwn ==
  ASSUME Typed, Inv, stack # <<>>, Top.phase # "body", NEW t \in Tables, Clean(t)
  PROVE  Cleared(t, Depth - 1, t)
  <1>1. Depth \in Nat \ {0} /\ Depth = Len(stack) /\ Top = stack[Depth]
    BY TopType DEF Top, Depth
  <1>2. stack[Depth].undo = <<>>
    BY <1>1 DEF Inv, InvAt, Phases
  <1>3. \A d \in Depth - 1 + 1 .. Depth : d = Depth
    BY <1>1
  <1> QED BY <1>1, <1>2, <1>3, ClearedNothing

LEMMA RefusedEnds ==
  ASSUME Typed, Inv, stack # <<>>, Top.phase # "body", Ending(Depth - 1),
         NEW s, NEW T, Progress(Now, s, T), \A n \in UserNumbers : s.fds[n] = fds[n],
         fds' = Undo(s.fds, s.undo), redirection_undo_list' = <<>>,
         exec_redirection_undo_list' \in {<<>>, s.exec}
  PROVE  Inv' /\ RestoresAll
  <1>1. SetBack(fds') /\ Closes(s.exec) /\ Disjoint(s.exec)
    BY Undoing
  <1>2. Cleared(fds', Depth - 1, fds')
    BY <1>1, NothingOfItsOwn DEF SetBack
  <1>3. Closes(exec_redirection_undo_list') /\ Disjoint(exec_redirection_undo_list')
    BY <1>1, NoEntries DEF Disjoint
  <1> QED BY <1>1, <1>2, <1>3, SetBackEnds

\* A redirection that fails.
LEMMA FailsEnds ==
  ASSUME Typed, Inv, HasRoom, NEW r, NEW s, Advances(r, s), Fails(s)
  PROVE  Inv' /\ RestoresAll
  <1>1. Outcome(Now, s, Touched(r), Unrecorded(r)) /\ Now.fds = fds
    BY SoundNow, RedirectionOutcome
  <1>2. Progress(Now, s, Touched(r)) /\ \A n \in UserNumbers : s.fds[n] = fds[n]
    BY <1>1 DEF Outcome, Fails
  <1>3. stack # <<>> /\ Top.phase # "body" /\ Ending(Depth - 1)
    BY DEF Advances, Fails
  <1> QED BY <1>2, <1>3, RefusedEnds DEF Fails, Refused

\* OpenFails, NullCommand and ExecFails.
LEMMA EndsWithAll ==
  ASSUME Typed, Inv, EndsOne, HEnd(OpenFails) \/ HEnd(NullCommand) \/ HEnd(ExecFails)
  PROVE  Inv' /\ RestoresAll
  <1>1. stack # <<>> /\ Ending(Depth - 1)
    BY EndsOneIs
  <1>2. Top.phase # "body"
    BY DEF HEnd, OpenFails, NullCommand, ExecFails, InPhase
  <1>3. Sound(Now) /\ {} \in SUBSET UserNumbers /\ Now.fds = fds
        /\ Now.undo = redirection_undo_list /\ Now.exec = exec_redirection_undo_list
    BY SoundNow
  <1>4. Progress(Now, Now, {})
    BY <1>3, NoProgress
  <1>5. /\ fds' = Undo(fds, redirection_undo_list) /\ redirection_undo_list' = <<>>
        /\ exec_redirection_undo_list' \in {<<>>, exec_redirection_undo_list}
    BY <1>3 DEF HEnd, OpenFails, Refused, NullCommand, ExecFails
  <1> QED BY <1>1, <1>2, <1>3, <1>4, <1>5, RefusedEnds

LEMMA LeaveBodyEnds ==
  ASSUME Typed, Inv, HEnd(LeaveBody) PROVE Inv' /\ RestoresAll
  <1> DEFINE u == redirection_undo_list
             x == exec_redirection_undo_list
  <1>1. stack # <<>> /\ Ending(Depth - 1)
    BY EndsOneIs DEF EndsOne
  <1>2. /\ Top.phase = "body" /\ fds' = Undo(fds, Top.undo) /\ u' = u /\ x' = x
    BY DEF HEnd, LeaveBody, InPhase, UnchangedLists
  <1>3. Depth \in Nat \ {0} /\ Depth = Len(stack) /\ Top = stack[Depth]
    BY TopType, <1>1 DEF Top, Depth
  <1>4. /\ u = <<>> /\ Clean(fds) /\ fds \in Tables /\ Closes(x) /\ Disjoint(x)
        /\ Stacked(fds, x, stack) /\ Known(fds, u, stack, lost)
    BY <1>1, <1>2, <1>3 DEF Inv, InvAt, Phases, Current, Stacked, Disjoint, Typed, TypedAt
  <1>5. SetBack(fds)
    <2>1. Known(fds, <<>>, stack, lost)
      BY <1>4
    <2>2. \A n \in High : IsOpen(fds, n) => n \in lost \/ InStack(stack, n)
      BY <2>1, NoEntries DEF Known
    <2> QED BY <1>2, <1>4, <2>2 DEF SetBack, SameCopies
  <1>6. Cleared(fds, Depth - 1, fds')
    <2>1. Cleared(fds, Depth, fds)
      <3>1. Depth + 1 .. Depth = {}
        BY <1>3
      <3> QED BY <1>3, <1>4, <3>1, ClearedNothing
    <2>2. Depth \in 1 .. Depth /\ SameCopies(fds)
      BY <1>3 DEF SameCopies
    <2> QED BY <1>2, <1>3, <1>4, <2>1, <2>2, ClearedStep
  <1> QED BY <1>1, <1>2, <1>4, <1>5, <1>6, SetBackEnds

\* exec without a command keeps what it redirected, and closes the copies.
LEMMA ExecKeepsEnds ==
  ASSUME Typed, Inv, HEnd(ExecKeeps)
  PROVE  Inv' /\ \A n \in UserNumbers : fds'[n] = fds[n]
  <1> DEFINE u == redirection_undo_list
             x == exec_redirection_undo_list
  <1>1. stack # <<>> /\ Ending(Depth - 1)
    BY EndsOneIs DEF EndsOne
  <1>2. Top.phase # "body" /\ fds' = Undo(fds, x) /\ u' = <<>> /\ x' = <<>>
    BY DEF HEnd, ExecKeeps, InPhase
  <1>3. /\ Clean(fds) /\ fds \in Tables /\ Closes(x) /\ x \in Seq(Entry) /\ Copies(u) \subseteq Copies(x)
        /\ Stacked(fds, x, stack) /\ Known(fds, u, stack, lost) /\ Depth = Len(stack)
    BY DEF Inv, InvAt, Current, Typed, TypedAt, Depth, Closes
  <1>4. Undid(fds, x, fds')
    BY <1>2, <1>3, ClosesIsRunnable, UndoFacts
  <1>5. \A n \in UserNumbers : ~Mentions(x, n)
    BY <1>3, Kinds DEF Closes, Mentions
  <1>6. \A n \in UserNumbers : fds'[n] = fds[n]
    BY <1>4, <1>5 DEF Undid
  <1>7. SameCopies(fds')
    <2>1. ASSUME NEW d \in 1 .. Depth, NEW n \in Copies(stack[d].undo) PROVE fds'[n] = fds[n]
      <3>1. WellFormed(stack[d].undo) /\ n \notin Copies(x)
        BY <1>3, <2>1 DEF Stacked
      <3>2. n \in High
        BY <2>1, <3>1, CopiesAre DEF WellFormed
      <3> QED BY <1>4, <3>1, <3>2 DEF Undid
    <2> QED BY <2>1 DEF SameCopies
  <1>8. ASSUME NEW n \in High, IsOpen(fds', n) PROVE InStack(stack, n) \/ n \in lost
    <2>1. fds'[n] # Nothing
      BY <1>8 DEF IsOpen, Nothing
    <2>2. n \notin Copies(x) /\ fds'[n] = fds[n]
      BY <1>4, <2>1 DEF Undid
    <2>3. IsOpen(fds, n) /\ n \notin Copies(u)
      BY <1>3, <1>8, <2>2 DEF IsOpen
    <2> QED BY <1>3, <2>3 DEF Known
  <1>9. fds' \in Tables /\ Clean(fds')
    BY <1>4 DEF Undid
  <1>10. Cleared(fds', Depth - 1, fds')
    BY <1>1, <1>2, <1>9, NothingOfItsOwn
  <1>11. EndsAfter(fds', Depth - 1)
    BY <1>1, <1>2, <1>7, <1>8, <1>10, NoEntries DEF EndsAfter
  <1> QED BY <1>6, <1>11, EndKeepsInv

LEMMA ErrorKeeps ==
  ASSUME Typed, Inv, NEW depth \in Catches, HEnd(ExpansionError(depth))
  PROVE  Inv' /\ RestoresAll
  <1> DEFINE u == redirection_undo_list
             x == exec_redirection_undo_list
             t == Undo(fds, u)
  <1>1. stack # <<>> /\ Ending(depth)
    BY ErrorEnds
  <1>2. fds' = Unwound(t, depth) /\ u' = <<>> /\ x' = x
    BY DEF HEnd, ExpansionError
  <1>3. Sound(Now) /\ {} \in SUBSET UserNumbers /\ Now.fds = fds /\ Now.undo = u /\ Now.exec = x
    BY SoundNow
  <1>4. Progress(Now, Now, {})
    BY <1>3, NoProgress
  <1>5. Top.phase = "body" => u = <<>>
    <2>1. Top = stack[Len(stack)]
      BY DEF Top, Depth
    <2> QED BY <1>1, <2>1 DEF Inv, InvAt, Phases
  <1>6. t = Undo(Now.fds, Now.undo)
    BY <1>3
  <1> HIDE DEF t
  <1>7. SetBack(t) /\ Closes(x) /\ Disjoint(x)
    BY <1>1, <1>3, <1>4, <1>5, <1>6, Undoing
  <1>8. depth \in 0 .. Depth
    BY <1>1, TopType DEF Ending
  <1>9. t \in Tables /\ Clean(t) /\ SameCopies(t) /\ Stacked(fds, x, stack)
    BY <1>7 DEF SetBack, Inv, InvAt
  <1>10. Cleared(t, depth, fds')
    BY <1>2, <1>8, <1>9, UnwoundClears
  <1> QED BY <1>1, <1>2, <1>7, <1>10, SetBackEnds

CutShort(n) == Ended(n) = {Depth} /\ Top.phase # "body"

LEMMA InterruptKeeps ==
  ASSUME Typed, Inv, HEnd(Interrupt)
  PROVE  Inv' /\ \A n \in UserNumbers : fds'[n] \in Owed(n) \/ CutShort(n)
  <1> DEFINE u == redirection_undo_list
             x == exec_redirection_undo_list
  <1>1. stack # <<>> /\ Ending(0)
    BY InterruptEnds
  <1>2. fds' = Unwound(fds, 0) /\ u' = u /\ x' = x
    BY DEF HEnd, Interrupt, UnchangedLists
  <1>3. /\ Clean(fds) /\ fds \in Tables /\ Closes(x) /\ Stacked(fds, x, stack)
        /\ Known(fds, u, stack, lost) /\ Depth = Len(stack)
    BY DEF Inv, InvAt, Current, Typed, TypedAt, Depth
  <1>4. SameCopies(fds) /\ 0 \in 0 .. Depth
    BY <1>1, TopType DEF SameCopies
  <1>5. Cleared(fds, 0, fds')
    BY <1>2, <1>3, <1>4, UnwoundClears
  <1>6. EndsAfter(fds, 0)
    BY <1>1, <1>2, <1>3, <1>4, <1>5 DEF EndsAfter, Known, Stacked
  <1>7. ASSUME NEW n \in UserNumbers PROVE fds'[n] \in Owed(n) \/ CutShort(n)
    BY <1>6, EndRestores DEF CutShort
  <1> QED BY <1>6, <1>7, EndKeepsInv

-----------------------------------------------------------------------------
(***************************************************************************)
(* Steps that end nothing.                                                 *)
(***************************************************************************)
LEMMA SucceedsKeeps ==
  ASSUME Typed, Inv, HasRoom, NEW r, NEW s, Advances(r, s), Succeeds(r, s)
  PROVE  Inv' /\ Len(stack') = Depth
  <1> DEFINE u == redirection_undo_list
             x == exec_redirection_undo_list
             T == Touched(r)
  <1>1. stack # <<>> /\ Top.phase # "body" /\ Top.done < MaxRedirs /\ r \in Others \cup Opens
    BY DEF Advances
  <1>2. /\ s.ok /\ Topped(Advanced) /\ fds' = s.fds /\ u' = s.undo /\ x' = s.exec
        /\ Record(r) /\ lost' = lost
    BY DEF Succeeds
  <1>3. Advanced \in Frame /\ Advanced.phase = "redirecting" /\ Advanced.undo = Top.undo
    BY <1>1, AdvancedType
  <1>4. /\ Len(stack') = Depth /\ Depth \in Nat \ {0} /\ stack'[Depth] = Advanced
        /\ \A d \in 1 .. Depth : d # Depth => stack'[d] = stack[d]
        /\ Depth = Len(stack) /\ Top = stack[Depth] /\ Promise = promises[Depth]
    BY <1>2, <1>3, ToppedIs DEF Depth, Top, Promise
  <1>5. /\ promises'[Depth] = Extended(r)
        /\ \A d \in 1 .. Depth : d # Depth => promises'[d] = promises[d]
        /\ lapsed'[Depth] = lapsed[Depth] \cup (Unrecorded(r) \cap NewlyTouched(r))
        /\ \A d \in 1 .. Depth : d # Depth => lapsed'[d] = lapsed[d]
        /\ Touched(r) \subseteq UserNumbers /\ DOMAIN Promise \subseteq UserNumbers
    BY <1>1, <1>2, RecordIs
  <1>6. /\ Now.fds = fds /\ Now.undo = u /\ Now.exec = x
        /\ Phases(stack, u, promises, lapsed) /\ Stacked(fds, x, stack)
        /\ KeepsPromises(fds, u, stack, promises, lapsed) /\ Known(fds, u, stack, lost)
        /\ WellFormed(u)
    BY SoundNow DEF Inv, InvAt, Current
  <1>7. Progress(Now, s, T) /\ \A n \in T \ Unrecorded(r) : Mentions(s.undo, n)
    BY <1>2, SoundNow, RedirectionOutcome DEF Outcome
  <1> HIDE DEF T
  <1>8. \A d \in 1 .. Depth : stack'[d].undo = stack[d].undo
    BY <1>3, <1>4
  <1>9. Clean(s.fds) /\ Current(s.fds, s.undo, s.exec)
    BY <1>7 DEF Progress, Sound, Current
  <1>10. Phases(stack', s.undo, promises', lapsed')
    BY <1>1, <1>3, <1>4, <1>5, <1>6, <1>8 DEF Phases
  <1>11. ASSUME NEW d \in 1 .. Depth
         PROVE  /\ WellFormed(stack[d].undo) /\ Intact(s.fds, stack[d].undo)
                /\ Copies(stack[d].undo) \cap Copies(s.exec) = {}
                /\ \A n \in Copies(stack[d].undo) : s.fds[n] = fds[n]
    <2>1. WellFormed(stack[d].undo) /\ Intact(fds, stack[d].undo)
      BY <1>4, <1>6 DEF Stacked
    <2>2. /\ Copies(stack[d].undo) \cap Copies(s.exec) = {}
          /\ \A n \in Copies(stack[d].undo) : s.fds[n] = fds[n]
      BY <1>7, NewCopiesApart
    <2> QED BY <2>1, <2>2 DEF Intact, IsOpen
  <1>12. Stacked(s.fds, s.exec, stack')
    <2>1. \A d, e \in 1 .. Depth : d # e => Copies(stack[d].undo) \cap Copies(stack[e].undo) = {}
      BY <1>4, <1>6 DEF Stacked
    <2> QED BY <1>4, <1>8, <1>11, <2>1 DEF Stacked
  <1>13. Owes(s.fds, s.undo, Extended(r), lapsed'[Depth])
    <2>1. Owes(fds, u, Promise, lapsed[Depth])
      BY <1>1, <1>4, <1>6 DEF KeepsPromises, Mine
    <2>2. /\ DOMAIN Extended(r) = DOMAIN Promise \cup NewlyTouched(r)
          /\ \A n \in NewlyTouched(r) : Extended(r)[n] = fds[n]
          /\ \A n \in DOMAIN Promise : Extended(r)[n] = Promise[n]
          /\ NewlyTouched(r) = T \ DOMAIN Promise /\ T \subseteq UserNumbers
      BY <1>5 DEF Extended, NewlyTouched, T
    <2>3. ASSUME NEW n \in UserNumbers, Mentions(s.undo, n) PROVE n \in DOMAIN Extended(r)
      <3>1. CASE Mentions(u, n)
        BY <2>1, <2>2, <3>1 DEF Owes
      <3>2. CASE ~Mentions(u, n)
        <4>1. n \in T
          BY <1>6, <1>7, <2>3, <3>2 DEF Progress, Remembers
        <4> QED BY <2>2, <4>1
      <3> QED BY <3>1, <3>2
    <2>4. ASSUME NEW n \in DOMAIN Extended(r) \ lapsed'[Depth]
          PROVE  \E e : Ends(s.undo, n, e) /\ Value(s.fds, e) = Extended(r)[n]
      <3>1. n \in UserNumbers
        BY <1>5, <2>2
      <3>2. CASE n \in DOMAIN Promise
        <4>1. n \notin lapsed[Depth]
          BY <1>5, <2>4
        <4>2. PICK e : Ends(u, n, e) /\ Value(fds, e) = Promise[n]
          BY <2>1, <3>2, <4>1 DEF Owes
        <4>3. Ends(s.undo, n, e)
          BY <1>6, <1>7, <3>1, <4>2 DEF Progress, Remembers
        <4>4. \A c \in Copies(u) : s.fds[c] = fds[c]
          BY <1>6, <1>7 DEF Progress
        <4>5. Value(s.fds, e) = Value(fds, e)
          BY <1>6, <4>2, <4>4, ValueKept
        <4> QED BY <2>2, <3>2, <4>2, <4>3, <4>5
      <3>3. CASE n \notin DOMAIN Promise
        <4>1. n \in NewlyTouched(r) /\ n \in T /\ n \notin Unrecorded(r)
          BY <1>5, <2>2, <2>4, <3>3
        <4>2. Mentions(s.undo, n) /\ ~Mentions(u, n)
          BY <1>7, <2>1, <3>1, <3>3, <4>1 DEF Owes
        <4>3. \E e : Ends(s.undo, n, e) /\ Value(s.fds, e) = fds[n]
          BY <1>6, <1>7, <3>1, <4>2 DEF Progress, Remembers
        <4> QED BY <2>2, <4>1, <4>3
      <3> QED BY <3>2, <3>3
    <2> QED BY <2>3, <2>4 DEF Owes
  <1>14. KeepsPromises(s.fds, s.undo, stack', promises', lapsed')
    <2>1. ASSUME NEW d \in 1 .. Depth, d # Depth
          PROVE  Owes(s.fds, Mine(stack', s.undo, d), promises'[d], lapsed'[d])
      <3>1. Mine(stack', s.undo, d) = stack[d].undo /\ Mine(stack, u, d) = stack[d].undo
        BY <1>4, <1>8, <2>1 DEF Mine
      <3>2. Owes(fds, stack[d].undo, promises[d], lapsed[d])
        BY <1>4, <1>6, <3>1 DEF KeepsPromises
      <3>3. Owes(s.fds, stack[d].undo, promises[d], lapsed[d])
        BY <1>11, <3>2, StillOwes
      <3> QED BY <1>5, <2>1, <3>1, <3>3
    <2>2. Mine(stack', s.undo, Depth) = s.undo
      BY <1>3, <1>4 DEF Mine
    <2> QED BY <1>4, <1>5, <1>13, <2>1, <2>2 DEF KeepsPromises
  <1>15. Known(s.fds, s.undo, stack', lost)
    <2>1. \A n : InStack(stack, n) => InStack(stack', n)
      BY <1>4, <1>8 DEF InStack
    <2>2. ASSUME NEW n \in High, IsOpen(s.fds, n)
          PROVE  n \in lost \cup Copies(s.undo) \/ InStack(stack', n)
      <3>1. CASE n \in Copies(s.undo)
        BY <3>1
      <3>2. CASE n \notin Copies(s.undo)
        <4>1. s.fds[n] = fds[n] /\ n \notin Copies(u)
          BY <1>6, <1>7, <3>2 DEF Progress, NewCopies
        <4>2. IsOpen(fds, n)
          BY <2>2, <4>1 DEF IsOpen
        <4> QED BY <1>6, <2>1, <4>1, <4>2 DEF Known
      <3> QED BY <3>1, <3>2
    <2> QED BY <2>2 DEF Known
  <1> QED BY <1>2, <1>4, <1>9, <1>10, <1>12, <1>14, <1>15 DEF Inv, InvAt

LEMMA WaitingKeeps ==
  ASSUME Typed, Inv, NEW r \in Opens, HSame(StartOpen(r))
  PROVE  Inv' /\ Len(stack') = Depth
  <1> DEFINE u == redirection_undo_list
             x == exec_redirection_undo_list
  <1>1. /\ stack # <<>> /\ Top.phase = "redirecting" /\ Topped(Waiting(r)) /\ Waiting(r) \in Frame
        /\ Waiting(r).phase = "opening" /\ Waiting(r).undo = Top.undo
    BY WaitingType
  <1>2. /\ fds' = fds /\ u' = u /\ x' = x
        /\ promises' = promises /\ lapsed' = lapsed /\ lost' = lost
    BY DEF HSame, StartOpen, UnchangedLists
  <1>3. /\ Len(stack') = Depth /\ Depth \in Nat \ {0} /\ stack'[Depth] = Waiting(r)
        /\ \A d \in 1 .. Depth : d # Depth => stack'[d] = stack[d]
        /\ Depth = Len(stack) /\ Top = stack[Depth]
    BY <1>1, ToppedIs DEF Depth, Top
  <1>4. \A d \in 1 .. Depth : stack'[d].undo = stack[d].undo
    BY <1>1, <1>3
  <1>5. /\ Phases(stack, u, promises, lapsed) /\ Stacked(fds, x, stack) /\ Clean(fds)
        /\ KeepsPromises(fds, u, stack, promises, lapsed) /\ Known(fds, u, stack, lost)
        /\ Current(fds, u, x)
    BY DEF Inv, InvAt
  <1>6. Phases(stack', u, promises, lapsed)
    BY <1>1, <1>3, <1>4, <1>5 DEF Phases
  <1>7. Stacked(fds, x, stack')
    BY <1>3, <1>4, <1>5 DEF Stacked
  <1>8. KeepsPromises(fds, u, stack', promises, lapsed)
    <2>1. \A d \in 1 .. Depth : Mine(stack', u, d) = Mine(stack, u, d)
      BY <1>1, <1>3, <1>4 DEF Mine
    <2> QED BY <1>3, <1>5, <2>1 DEF KeepsPromises
  <1>9. Known(fds, u, stack', lost)
    BY <1>3, <1>4, <1>5 DEF Known, InStack
  <1> QED BY <1>2, <1>3, <1>5, <1>6, <1>7, <1>8, <1>9 DEF Inv, InvAt

\* The list moves from the shell to the command, with all that it owes.
LEMMA EnteredKeeps ==
  ASSUME Typed, Inv, HSame(EnterBody)
  PROVE  Inv' /\ Len(stack') = Depth
  <1> DEFINE u == redirection_undo_list
             x == exec_redirection_undo_list
  <1>1. /\ stack # <<>> /\ Top.phase = "redirecting" /\ Topped(Entered) /\ Entered \in Frame
        /\ Entered.phase = "body" /\ Entered.undo = u
    BY EnteredType
  <1>2. /\ fds' = fds /\ u' = <<>> /\ x' = <<>>
        /\ promises' = promises /\ lapsed' = lapsed /\ lost' = lost
    BY DEF HSame, EnterBody
  <1>3. /\ Len(stack') = Depth /\ Depth \in Nat \ {0} /\ stack'[Depth] = Entered
        /\ \A d \in 1 .. Depth : d # Depth => stack'[d] = stack[d]
        /\ Depth = Len(stack) /\ Top = stack[Depth]
    BY <1>1, ToppedIs DEF Depth, Top
  <1>4. \A d \in 1 .. Depth : stack'[d].undo = IF d = Depth THEN u ELSE stack[d].undo
    BY <1>1, <1>3
  <1>5. /\ Phases(stack, u, promises, lapsed) /\ Stacked(fds, x, stack) /\ Clean(fds)
        /\ KeepsPromises(fds, u, stack, promises, lapsed) /\ Known(fds, u, stack, lost)
        /\ WellFormed(u) /\ Intact(fds, u) /\ Copies(u) \subseteq Copies(x)
    BY DEF Inv, InvAt, Current
  <1>6. Phases(stack', <<>>, promises, lapsed)
    BY <1>1, <1>3, <1>4, <1>5 DEF Phases
  <1>7. Stacked(fds, <<>>, stack')
    <2>1. \A d \in 1 .. Depth : d # Depth => Copies(stack[d].undo) \cap Copies(u) = {}
      BY <1>3, <1>5 DEF Stacked
    <2>2. \A d, e \in 1 .. Depth : d # e => Copies(stack'[d].undo) \cap Copies(stack'[e].undo) = {}
      BY <1>3, <1>4, <1>5, <2>1 DEF Stacked
    <2>3. \A d \in 1 .. Depth : WellFormed(stack'[d].undo) /\ Intact(fds, stack'[d].undo)
      BY <1>3, <1>4, <1>5 DEF Stacked
    <2> QED BY <1>3, <2>2, <2>3, NoEntries DEF Stacked
  <1>8. KeepsPromises(fds, <<>>, stack', promises, lapsed)
    <2>1. \A d \in 1 .. Depth : Mine(stack', <<>>, d) = Mine(stack, u, d)
      BY <1>1, <1>3, <1>4 DEF Mine
    <2> QED BY <1>3, <1>5, <2>1 DEF KeepsPromises
  <1>9. Known(fds, <<>>, stack', lost)
    <2>1. stack[Depth].undo = <<>>
      BY <1>1, <1>3, <1>5 DEF Phases
    <2>2. \A n : InStack(stack, n) => InStack(stack', n)
      BY <1>3, <1>4, <2>1, NoEntries DEF InStack
    <2>3. \A n : n \in Copies(u) => InStack(stack', n)
      BY <1>3, <1>4 DEF InStack
    <2> QED BY <1>5, <2>2, <2>3 DEF Known
  <1>10. Current(fds, <<>>, <<>>)
    BY NoEntries DEF Current
  <1> QED BY <1>2, <1>3, <1>5, <1>6, <1>7, <1>8, <1>9, <1>10 DEF Inv, InvAt

\* A command begins: what was recorded until then is lost, and has lapsed.
LEMMA BeginKeeps ==
  ASSUME Typed, Inv, HBegin
  PROVE  Inv' /\ Len(stack') = Depth + 1
  <1> DEFINE u == redirection_undo_list
             x == exec_redirection_undo_list
             none == {}
  <1>1. /\ fds' = fds /\ u' = <<>> /\ x' = <<>> /\ lost' = lost \cup Copies(u)
        /\ stack # <<>> => Top.phase \in {"body", "opening"}
    BY DEF HBegin, Begin
  <1>2. /\ Len(stack') = Depth + 1 /\ Depth \in Nat /\ stack'[Depth + 1] = NewFrame
        /\ promises'[Depth + 1] = <<>> /\ lapsed'[Depth + 1] = none
        /\ \A d \in 1 .. Depth : /\ stack'[d] = stack[d] /\ promises'[d] = promises[d]
                                 /\ lapsed'[d] = LapsedAtBegin(d)
        /\ Depth = Len(stack) /\ Top = stack[Depth]
        /\ stack # <<>> <=> Depth # 0
    <2>1. stack \in Seq(Frame)
      BY DEF Typed, TypedAt
    <2> QED BY <2>1, BeginIs DEF Depth, Top
  <1> HIDE DEF none
  <1>3. NewFrame.phase = "redirecting" /\ NewFrame.undo = <<>>
    BY DEF NewFrame
  <1>4. /\ Phases(stack, u, promises, lapsed) /\ Stacked(fds, x, stack) /\ Clean(fds)
        /\ KeepsPromises(fds, u, stack, promises, lapsed) /\ Known(fds, u, stack, lost)
    BY DEF Inv, InvAt
  <1>5. \A d \in 1 .. Depth + 1 : d \in 1 .. Depth \/ d = Depth + 1
    BY <1>2
  <1>6. \A d \in 1 .. Depth : d < Len(stack) \/ d = Depth
    BY <1>2
  <1>7. Phases(stack', <<>>, promises', lapsed')
    <2>1. \A d \in 1 .. Depth + 1 : stack'[d].phase # "body" => stack'[d].undo = <<>>
      BY <1>2, <1>3, <1>4, <1>5 DEF Phases
    <2>2. ASSUME NEW d \in 1 .. Depth PROVE stack[d].phase # "redirecting"
      <3>1. stack # <<>>
        BY <1>2
      <3> QED BY <1>1, <1>2, <1>4, <1>6, <3>1 DEF Phases
    <2>3. \A d \in 1 .. Depth : stack[d].phase = "opening" => LapsedAtBegin(d) = DOMAIN promises[d]
      BY <1>4, <1>6 DEF Phases, LapsedAtBegin
    <2>4. \A d \in 1 .. Depth + 1 : d < Depth + 1 => d \in 1 .. Depth
      BY <1>2
    <2> QED BY <1>2, <2>1, <2>2, <2>3, <2>4 DEF Phases
  <1>8. Stacked(fds, <<>>, stack')
    <2>1. \A d \in 1 .. Depth : WellFormed(stack'[d].undo) /\ Intact(fds, stack'[d].undo)
      BY <1>2, <1>4 DEF Stacked
    <2>2. \A d, e \in 1 .. Depth : d # e => Copies(stack'[d].undo) \cap Copies(stack'[e].undo) = {}
      BY <1>2, <1>4 DEF Stacked
    <2>3. stack'[Depth + 1].undo = <<>>
      BY <1>2, <1>3
    <2>4. \A d \in 1 .. Depth + 1 : WellFormed(stack'[d].undo) /\ Intact(fds, stack'[d].undo)
      BY <1>5, <2>1, <2>3, NoEntries
    <2>5. \A d, e \in 1 .. Depth + 1 : d # e => Copies(stack'[d].undo) \cap Copies(stack'[e].undo) = {}
      BY <1>5, <2>2, <2>3, NoEntries
    <2> QED BY <1>2, <2>4, <2>5, NoEntries DEF Stacked
  <1>9. KeepsPromises(fds, <<>>, stack', promises', lapsed')
    <2>1. Mine(stack', <<>>, Depth + 1) = <<>>
      BY <1>2, <1>3 DEF Mine
    <2>2. Owes(fds, <<>>, promises'[Depth + 1], lapsed'[Depth + 1])
      BY <1>2, NoEntries, NoPromise DEF Owes
    <2>3. ASSUME NEW d \in 1 .. Depth
          PROVE  Owes(fds, Mine(stack', <<>>, d), promises'[d], lapsed'[d])
      <3>1. Mine(stack', <<>>, d) = stack[d].undo
        BY <1>2 DEF Mine
      <3>2. Owes(fds, Mine(stack, u, d), promises[d], lapsed[d])
        BY <1>2, <1>4 DEF KeepsPromises
      <3>3. CASE stack[d].phase = "opening" /\ d = Depth
        <4>1. stack[d].undo = <<>> /\ lapsed'[d] = DOMAIN promises[d]
          BY <1>2, <1>4, <3>3 DEF Phases, LapsedAtBegin
        <4>2. promises'[d] = promises[d]
          BY <1>2
        <4> QED BY <3>1, <4>1, <4>2, NoEntries DEF Owes
      <3>4. CASE ~(stack[d].phase = "opening" /\ d = Depth)
        <4>1. lapsed'[d] = lapsed[d] /\ promises'[d] = promises[d]
          BY <1>2, <3>4 DEF LapsedAtBegin
        <4>2. d = Depth => stack[d].phase = "body"
          <5>1. d = Depth => stack # <<>>
            BY <1>2
          <5> QED BY <1>1, <1>2, <3>4, <5>1
        <4>3. Mine(stack, u, d) = stack[d].undo
          BY <1>2, <4>2 DEF Mine
        <4> QED BY <3>1, <3>2, <4>1, <4>3
      <3> QED BY <3>3, <3>4
    <2> QED BY <1>2, <1>5, <2>1, <2>2, <2>3 DEF KeepsPromises
  <1>10. Known(fds, <<>>, stack', lost')
    <2>1. \A n : InStack(stack, n) => InStack(stack', n)
      BY <1>2 DEF InStack
    <2> QED BY <1>1, <1>4, <2>1 DEF Known
  <1>11. Current(fds, <<>>, <<>>)
    BY NoEntries DEF Current
  <1> QED BY <1>1, <1>2, <1>4, <1>7, <1>8, <1>9, <1>10, <1>11 DEF Inv, InvAt

-----------------------------------------------------------------------------
(***************************************************************************)
(* Every step, and the theorems.                                           *)
(***************************************************************************)
LEMMA InvInit == HInit => Inv
  <1> SUFFICES ASSUME HInit PROVE Inv
    OBVIOUS
  <1>1. PICK inherited \in [UserNumbers -> Files] :
          fds = [n \in Numbers |-> IF n < Base THEN Opened(inherited[n]) ELSE Nothing]
    BY DEF HInit, Init
  <1>2. redirection_undo_list = <<>> /\ exec_redirection_undo_list = <<>> /\ stack = <<>>
    BY DEF HInit, Init
  <1>3. \A n \in Numbers : fds[n].cloexec = FALSE
    BY <1>1 DEF Opened, Nothing
  <1>4. \A n \in Numbers : n \in Nat /\ (n < Base => n \in UserNumbers)
    BY Bounds DEF Numbers, UserNumbers
  <1>5. \A n \in Numbers : n < Base => IsOpen(fds, n)
    BY <1>1, <1>4, Bounds DEF IsOpen, Opened
  <1>6. \A n \in Numbers : ~(n < Base) => fds[n] = Nothing
    BY <1>1
  <1>7. Clean(fds)
    BY <1>3, <1>5, <1>6 DEF Clean
  <1>8. Len(stack) = 0 /\ 1 .. 0 = {}
    BY <1>2
  <1>9. \A n \in High : ~IsOpen(fds, n)
    <2>1. \A n \in High : n \in Numbers /\ ~(n < Base)
      BY Bounds, Kinds DEF High
    <2> QED BY <1>6, <2>1 DEF IsOpen, Nothing
  <1>10. /\ Current(fds, <<>>, <<>>) /\ Stacked(fds, <<>>, stack)
         /\ Phases(stack, <<>>, promises, lapsed) /\ KeepsPromises(fds, <<>>, stack, promises, lapsed)
         /\ Known(fds, <<>>, stack, lost)
    BY <1>2, <1>8, <1>9, NoEntries DEF Current, Stacked, Phases, KeepsPromises, Known
  <1> QED BY <1>2, <1>7, <1>10 DEF Inv, InvAt

\* Restored, as an action.
PutsBack ==
    Len(stack') < Depth =>
      \A n \in UserNumbers :
         \/ fds'[n] \in Owed(n)
         \/ ExecKeeps /\ fds'[n] = fds[n]
         \/ Interrupt /\ Ended(n) = {Depth} /\ Top.phase # "body"

LEMMA InvNext ==
  ASSUME Typed, Inv, HasRoom, [HNext]_hvars
  PROVE  Inv' /\ PutsBack
  <1>1. RestoresAll => PutsBack
    BY DEF RestoresAll, PutsBack
  <1>2. Len(stack') = Depth \/ Len(stack') = Depth + 1 => PutsBack
    <2>1. Depth \in Nat
      BY DEF Typed, TypedAt, Depth
    <2>2. Len(stack') = Depth \/ Len(stack') = Depth + 1 => ~(Len(stack') < Depth)
      BY <2>1
    <2> QED BY <2>2 DEF PutsBack
  <1>3. CASE HBegin
    BY <1>2, <1>3, BeginKeeps
  <1>4. ASSUME NEW r, NEW s, Advances(r, s), Succeeds(r, s) \/ Fails(s) PROVE Inv' /\ PutsBack
    BY <1>1, <1>2, <1>4, SucceedsKeeps, FailsEnds
  <1>5. ASSUME NEW r \in Others, HPerform(Redirect(r), r) PROVE Inv' /\ PutsBack
    BY <1>4, <1>5, RedirectIs
  <1>6. ASSUME NEW file \in Files, HPerform(FinishOpen(file), Top.next) PROVE Inv' /\ PutsBack
    BY <1>4, <1>6, FinishOpenIs
  <1>7. ASSUME NEW r \in Opens, HSame(StartOpen(r)) PROVE Inv' /\ PutsBack
    BY <1>2, <1>7, WaitingKeeps
  <1>8. CASE HSame(EnterBody)
    BY <1>2, <1>8, EnteredKeeps
  <1>9. CASE HEnd(OpenFails) \/ HEnd(NullCommand) \/ HEnd(ExecFails)
    BY <1>1, <1>9, EndsWithAll DEF EndsOne
  <1>10. CASE HEnd(LeaveBody)
    BY <1>1, <1>10, LeaveBodyEnds
  <1>11. CASE HEnd(ExecKeeps)
    BY <1>11, ExecKeepsEnds DEF PutsBack, HEnd
  <1>12. CASE HEnd(Interrupt)
    BY <1>12, InterruptKeeps DEF PutsBack, CutShort, HEnd
  <1>13. ASSUME NEW depth \in Catches, HEnd(ExpansionError(depth)) PROVE Inv' /\ PutsBack
    BY <1>1, <1>13, ErrorKeeps
  <1>14. CASE UNCHANGED hvars
    BY <1>2, <1>14 DEF hvars, vars, Inv, Depth
  <1> QED BY <1>3, <1>5, <1>6, <1>7, <1>8, <1>9, <1>10, <1>11, <1>12, <1>13, <1>14 DEF HNext

LEMMA AlwaysInv == HSpec /\ []HasRoom => [](Typed /\ Inv)
  <1>1. HInit => Typed /\ Inv
    BY TypedInit, InvInit
  <1>2. Typed /\ Inv /\ HasRoom /\ [HNext]_hvars => Typed' /\ Inv'
    BY TypedNext, InvNext
  <1> QED BY <1>1, <1>2, PTL DEF HSpec

\* As long as there is room, every saved descriptor stays where its entry says,
\* open and closed on exec, until it is restored, and no two saves share a copy
\* (add_undo_redirect, redir.c).
THEOREM SavesKept == HSpec /\ []HasRoom => []SavesAreIntact
  <1>1. Typed /\ Inv => SavesAreIntact
    <2> SUFFICES ASSUME Typed, Inv PROVE SavesAreIntact
      OBVIOUS
    <2>1. stack \in Seq(Frame) /\ DOMAIN stack = 1 .. Len(stack)
      BY DEF Typed, TypedAt
    <2>2. ASSUME NEW list \in Pending PROVE WellFormed(list) /\ Intact(fds, list)
      <3>1. list = redirection_undo_list \/ \E d \in DOMAIN stack : list = stack[d].undo
        BY DEF Pending
      <3> QED BY <2>1, <3>1 DEF Inv, InvAt, Current, Stacked
    <2>3. ASSUME NEW list \in Pending, NEW i \in Saves(list)
          PROVE  /\ list[i].redir_fd \in Copies(list) /\ list[i].redir_fd >= Base
                 /\ IsOpen(fds, list[i].redir_fd) /\ fds[list[i].redir_fd].cloexec
      <3>1. WellFormed(list) /\ Intact(fds, list) /\ i \in DOMAIN list /\ list[i].ri = "dup"
        BY <2>2 DEF Saves
      <3>2. list[i].redir_fd \in Copies(list) /\ Copies(list) \subseteq High
        BY <3>1, CopyIsClosed, CopiesAre DEF WellFormed
      <3>3. list[i].redir_fd >= Base
        BY <3>2, Kinds
      <3> QED BY <3>1, <3>2, <3>3 DEF Intact
    <2>4. ASSUME NEW d \in DOMAIN stack, NEW e \in DOMAIN stack,
                 NEW i \in Saves(stack[d].undo), NEW j \in Saves(stack[e].undo),
                 stack[d].undo[i].redir_fd = stack[e].undo[j].redir_fd
          PROVE  <<d, i>> = <<e, j>>
      <3>1. stack[d].undo \in Pending /\ stack[e].undo \in Pending
        BY DEF Pending
      <3>2. d = e
        <4>1. stack[d].undo[i].redir_fd \in Copies(stack[d].undo) \cap Copies(stack[e].undo)
          BY <2>3, <2>4, <3>1
        <4> QED BY <2>1, <4>1 DEF Inv, InvAt, Stacked
      <3> DEFINE list == stack[d].undo
      <3>3. WellFormed(list) /\ i \in DOMAIN list /\ list[i].ri = "dup" /\ j \in DOMAIN list
            /\ list[j].ri = "dup" /\ list[i].redir_fd = list[j].redir_fd
        BY <2>2, <2>4, <3>1, <3>2 DEF Saves
      <3> HIDE DEF list
      <3>4. i + 1 = j + 1 /\ i \in Nat /\ j \in Nat
        <4>1. /\ i \in Nat /\ i + 1 \in DOMAIN list /\ list[i + 1].redirector = list[i].redir_fd
          BY <3>3, CopyIsClosed
        <4>2. j \in Nat /\ \A m \in DOMAIN list : list[m].redirector = list[j].redir_fd => m = j + 1
          BY <3>3, CopyIsClosed
        <4> QED BY <3>3, <4>1, <4>2
      <3> QED BY <3>2, <3>4
    <2> QED BY <2>3, <2>4 DEF SavesAreIntact
  <1> QED BY <1>1, AlwaysInv, PTL

\* As long as there is room, no copy stays open at the top level that an undo
\* list does not know, but for those that were lost with a list that a trap's
\* command threw away (do_redirections, redir.c).
THEOREM NothingLeaks == HSpec /\ []HasRoom => []NoLeak
  <1>1. Inv => NoLeak
    <2> SUFFICES ASSUME Inv, stack = <<>>, NEW n \in Numbers, n >= Base, IsOpen(fds, n)
                 PROVE  n \in lost \cup Copies(redirection_undo_list)
      BY DEF NoLeak
    <2>1. n \in High
      BY Kinds
    <2>2. ~InStack(stack, n)
      BY DEF InStack
    <2> QED BY <2>1, <2>2 DEF Inv, InvAt, Known
  <1> QED BY <1>1, AlwaysInv, PTL

\* As long as there is room, however a command ends, with all those that run
\* in it, every number that they redirected refers to what it did before, with
\* the flag it had, and every other one to what it does now: but for exec, the
\* numbers that have lapsed, and redirections that an interrupt cuts short
\* (execute_cmd.c; cleanup_redirects).
THEOREM RedirectionsEnd == HSpec /\ []HasRoom => Restored
  <1>1. Typed /\ Inv /\ HasRoom /\ [HNext]_hvars => [PutsBack]_hvars
    BY InvNext
  <1>2. HSpec /\ []HasRoom => [][PutsBack]_hvars
    BY <1>1, AlwaysInv, PTL DEF HSpec
  <1> QED BY <1>2, PTL DEF Restored, PutsBack

=============================================================================
