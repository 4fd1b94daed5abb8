----------------------------- MODULE JobsProofs -----------------------------
(***************************************************************************)
(* Proofs about the job table and the wait builtin (modules Jobs and       *)
(* JobsProperties), for every set of pids and of statuses, any CHILD_MAX   *)
(* and any length of pipelines.                                            *)
(*                                                                         *)
(* The invariant Inv says of each place a pid can be found in (the table,  *)
(* the pipeline being made, the saved statuses) what the kernel and the    *)
(* history say of that pid.  The lemmas up to "The steps" show what each   *)
(* change of one of these places keeps of it, whatever the shell is doing; *)
(* the lemmas Step... then take each action of the module apart into such  *)
(* changes.                                                                *)
(***************************************************************************)
EXTENDS JobsProperties, DataTheorems

Entry == [pid : Pids \cup {0}, status : Statuses \cup {0}]

-----------------------------------------------------------------------------
(***************************************************************************)
(* The invariant is a conjunction of predicates with the state as their    *)
(* parameters, so that a step may be taken apart into several changes of   *)
(* the table: js stands for jobs, pipe for the_pipeline or the processes   *)
(* of a job, list for saved, kd for kid, cd for code, tl for tail, an for  *)
(* answer, kn for known and dis for disowned.                              *)
(***************************************************************************)
PidsIn(pipe) == {pipe[k].pid : k \in DOMAIN pipe} \ {0}
LastOf(pipe) == pipe[Len(pipe)]

\* A process is recorded as running exactly while the kernel has it; one that
\* lost its pid has ended.
LiveOK(pipe, kd) ==
    \A k \in DOMAIN pipe :
        IF pipe[k].pid = 0 THEN ~pipe[k].running
        ELSE pipe[k].running <=> kd[pipe[k].pid] # "none"

OneEach(seq) ==
    \A k, m \in DOMAIN seq : seq[k].pid = seq[m].pid /\ seq[k].pid # 0 => k = m

\* What a wait must answer for a process is the status of the last process of
\* its pipeline, as soon as that has ended, and that status is recorded as soon
\* as it is reaped.
ToldOK(pipe, kd, cd, tl, an) ==
    \A p \in PidsIn(pipe) :
        /\ tl[p] = IF LastOf(pipe).pid = 0 THEN NoPid ELSE LastOf(pipe).pid
        /\ ~LastOf(pipe).running => an[p] = LastOf(pipe).status
        /\ LastOf(pipe).running /\ kd[LastOf(pipe).pid] = "zombie" => an[p] = cd[LastOf(pipe).pid]

PipeOK(pipe, kd, cd, tl, an) ==
    /\ pipe \in Seq(Proc)
    /\ LiveOK(pipe, kd)
    /\ OneEach(pipe)
    /\ ToldOK(pipe, kd, cd, tl, an)

JobOK(job, kd, cd, tl, an) ==
    /\ job \in Job /\ job.pipe # <<>>
    /\ job.state = PipeState(job.pipe)
    /\ PipeOK(job.pipe, kd, cd, tl, an)

IsTable(js) == DOMAIN js \subseteq Nat /\ IsFiniteSet(DOMAIN js) /\ js \in [DOMAIN js -> Job]

Disjoint(js) ==
    \A s, t \in DOMAIN js : s # t => PidsIn(js[s].pipe) \cap PidsIn(js[t].pipe) = {}

TableOK(js, kd, cd, tl, an) ==
    /\ IsTable(js)
    /\ \A s \in DOMAIN js : JobOK(js[s], kd, cd, tl, an)
    /\ Disjoint(js)

PipelineOK(js, pipe, kd, cd, tl, an) ==
    /\ PipeOK(pipe, kd, cd, tl, an)
    /\ \A k \in DOMAIN pipe : pipe[k].pid \in Pids
    /\ \A s \in DOMAIN js : PidsIn(js[s].pipe) \cap PidsIn(pipe) = {}

\* A saved status is the answer for its pid, whose process is gone, unless the
\* job was disowned; a pid with a saved status is in no job.
SavedOK(list, js, pipe, kd, tl, an, dis) ==
    /\ list \in Seq(Entry)
    /\ OneEach(list)
    /\ \A k \in DOMAIN list : list[k].pid # 0 =>
         /\ list[k].pid \notin PidsIn(pipe)
         /\ \A s \in DOMAIN js : list[k].pid \notin PidsIn(js[s].pipe)
         /\ list[k].pid \notin dis =>
              /\ an[list[k].pid] = list[k].status
              /\ tl[list[k].pid] = list[k].pid
              /\ kd[list[k].pid] = "none"

\* The status of a pid that must be known is to come or saved, and it will be
\* saved, since its job is an async one.
KnownOK(js, pipe, list, kn) ==
    /\ kn \subseteq Pids
    /\ \A p \in kn : \/ \E s \in DOMAIN js : LastProc(js[s]).pid = p
                     \/ \E k \in DOMAIN list : list[k].pid = p
    /\ \A s \in DOMAIN js : LastProc(js[s]).pid \in kn => js[s].async
    /\ kn \cap PidsIn(pipe) = {}

ChildrenOK(js, pipe, kd, dis) ==
    \A p \in Pids : kd[p] # "none" /\ p \notin dis =>
        AliveIn(pipe, p) \/ \E s \in DOMAIN js : AliveIn(js[s].pipe, p)

Core(js, pipe, list, kd, cd, tl, an, kn, dis) ==
    /\ TableOK(js, kd, cd, tl, an)
    /\ PipelineOK(js, pipe, kd, cd, tl, an)
    /\ SavedOK(list, js, pipe, kd, tl, an, dis)
    /\ KnownOK(js, pipe, list, kn)
    /\ ChildrenOK(js, pipe, kd, dis)

(***************************************************************************)
(* Where the shell is.  The pid it waits for is in a job; a job that is    *)
(* not asynchronous is the one that is waited for.                         *)
(***************************************************************************)
Places == {"idle", "making", "called", "wait_for", "all", "next", "any called", "wait_any", "scan"}
Callers == {"none", "async", "fg", "async pipe", "fg pipe", "pid", "all"}

PlaceOK(place, js, pipe) ==
    /\ place \in [at : Places, by : Callers, pid : Pids \cup {0, NoPid}]
    /\ pipe # <<>> <=> place.at = "making"
    /\ place.at = "making" =>
         /\ place.by \in {"async", "fg", "async pipe", "fg pipe"}
         /\ place.pid = LastOf(pipe).pid
         /\ place.by \in {"async pipe", "fg pipe"} => \A k \in DOMAIN pipe : pipe[k].running
    /\ place.at \in {"called", "wait_for"} =>
         place.pid # NoPid /\ \E s \in DOMAIN js : HasPid(js[s], place.pid)
    /\ \A s \in DOMAIN js : ~js[s].async =>
         /\ place.at \in {"called", "wait_for"} /\ place.by = "fg" /\ place.pid \in Pids
         /\ LastProc(js[s]).pid = place.pid

KernelOK ==
    /\ posix \in BOOLEAN
    /\ last_asynchronous_pid \in Pids \cup {NoPid}
    /\ kid \in [Pids -> {"none", "runs", "zombie"}]
    /\ code \in [Pids -> Statuses \cup {0}]
    /\ forks \in 0 .. MaxForks
    /\ tail \in [Pids -> Pids \cup {NoPid}]
    /\ answer \in [Pids -> Statuses \cup {NotYet}]
    /\ disowned \subseteq Pids

Inv ==
    /\ KernelOK
    /\ Core(jobs, the_pipeline, saved, kid, code, tail, answer, known, disowned)
    /\ PlaceOK(pc, jobs, the_pipeline)
    /\ AnswersAreTrue

-----------------------------------------------------------------------------
(***************************************************************************)
(* Lists of saved statuses.                                                *)
(***************************************************************************)
\* The list without a pid.
LEMMA WithoutFacts ==
  ASSUME NEW list \in Seq(Entry), OneEach(list), NEW pid
  PROVE  LET new == Saved!Without(list, pid)
         IN  /\ new \in Seq(Entry) /\ OneEach(new)
             /\ \A k \in DOMAIN new : \E j \in DOMAIN list : new[k] = list[j]
             /\ \A j \in DOMAIN list : list[j].pid # pid => \E k \in DOMAIN new : new[k] = list[j]
             /\ pid # 0 => \A k \in DOMAIN new : new[k].pid # pid
  <1> DEFINE new == Saved!Without(list, pid)
             places == Saved!Positions(list, pid)
  <1>1. CASE places = {}
    <2>1. new = list
      BY <1>1 DEF Saved!Without
    <2>2. \A k \in DOMAIN list : list[k].pid # pid
      BY <1>1 DEF Saved!Positions
    <2> QED BY <2>1, <2>2
  <1>2. CASE places # {}
    <2> DEFINE i == Saved!Newest(list, pid)
               n == Len(list)
    <2>1. places \subseteq 1 .. n /\ n \in Nat /\ \A k \in places : list[k].pid = pid
      BY DEF Saved!Positions
    <2>2. i \in places
      <3>1. IsFiniteSet(places) /\ places \in SUBSET Int
        <4>1. IsFiniteSet(1 .. n)
          BY <2>1, FS_Interval
        <4> QED BY <2>1, <4>1, FS_Subset
      <3>2. \E k \in places : \A m \in places : m <= k
        BY <1>2, <3>1, LargestElement
      <3> QED BY <3>2 DEF Saved!Newest
    <2>3. new = RemoveAt(list, i) /\ i \in 1 .. n /\ list[i].pid = pid
      <3>1. new = RemoveAt(list, i)
        BY <1>2 DEF Saved!Without, Saved!RemoveAt, RemoveAt
      <3> HIDE DEF places, i, new
      <3> QED BY <2>1, <2>2, <3>1
    <2> HIDE DEF places, i, new
    <2>4. /\ new \in Seq(Entry) /\ Len(new) = n - 1
          /\ \A k \in 1 .. n - 1 : new[k] = IF k < i THEN list[k] ELSE list[k + 1]
      BY <2>3, RemovedAt
    <2>5. DOMAIN new = 1 .. n - 1 /\ DOMAIN list = 1 .. n
      BY <2>1, <2>4
    <2>6. OneEach(new)
      <3> SUFFICES ASSUME NEW k \in 1 .. n - 1, NEW m \in 1 .. n - 1,
                          new[k].pid = new[m].pid, new[k].pid # 0
                   PROVE  k = m
        BY <2>5 DEF OneEach
      <3> DEFINE at(x) == IF x < i THEN x ELSE x + 1
      <3>1. at(k) \in 1 .. n /\ at(m) \in 1 .. n /\ (at(k) = at(m) => k = m)
        BY <2>1, <2>3
      <3>2. new[k] = list[at(k)] /\ new[m] = list[at(m)]
        BY <2>4
      <3> HIDE DEF at
      <3> QED BY <2>5, <3>1, <3>2 DEF OneEach
    <2>7. \A k \in DOMAIN new : \E j \in DOMAIN list : new[k] = list[j]
      <3> SUFFICES ASSUME NEW k \in 1 .. n - 1 PROVE \E j \in 1 .. n : new[k] = list[j]
        BY <2>5
      <3>1. k \in 1 .. n /\ k + 1 \in 1 .. n
        BY <2>1
      <3> QED BY <2>4, <3>1
    <2>8. ASSUME NEW j \in 1 .. n, j # i PROVE \E k \in 1 .. n - 1 : new[k] = list[j]
      <3>1. CASE j < i
        <4>1. j \in 1 .. n - 1
          BY <2>1, <2>3, <3>1
        <4> QED BY <2>4, <3>1, <4>1
      <3>2. CASE ~(j < i)
        <4>1. j - 1 \in 1 .. n - 1 /\ ~(j - 1 < i) /\ (j - 1) + 1 = j
          BY <2>1, <2>3, <2>8, <3>2
        <4> QED BY <2>4, <4>1
      <3> QED BY <3>1, <3>2
    <2>9. ASSUME pid # 0, NEW k \in 1 .. n - 1 PROVE new[k].pid # pid
      <3> DEFINE at == IF k < i THEN k ELSE k + 1
      <3>1. at \in 1 .. n /\ at # i /\ new[k] = list[at]
        BY <2>1, <2>3, <2>4
      <3> HIDE DEF at
      <3> QED BY <2>3, <2>5, <2>9, <3>1 DEF OneEach
    <2>10. \A j \in DOMAIN list : list[j].pid # pid => \E k \in DOMAIN new : new[k] = list[j]
      BY <2>3, <2>5, <2>8
    <2> QED BY <2>4, <2>5, <2>6, <2>7, <2>9, <2>10 DEF new
  <1> QED BY <1>1, <1>2

\* The list with more entries, whose pids are not in it.
LEMMA WithSavedFacts ==
  ASSUME NEW list \in Seq(Entry), OneEach(list), NEW entries \in Seq(Entry), OneEach(entries),
         \A k \in DOMAIN list, m \in DOMAIN entries :
            list[k].pid = entries[m].pid => list[k].pid = 0,
         NEW lost \in Saved!MayLose(list, entries)
  PROVE  LET new == Saved!WithSaved(list, entries, lost)
         IN  /\ new \in Seq(Entry) /\ OneEach(new)
             /\ \A k \in DOMAIN new : \/ \E j \in DOMAIN list : new[k] = list[j]
                                      \/ \E j \in DOMAIN entries : new[k] = entries[j]
             /\ \A j \in DOMAIN list : j \notin 1 .. lost => \E k \in DOMAIN new : new[k] = list[j]
             /\ \A j \in DOMAIN entries : \E k \in DOMAIN new : new[k] = entries[j]
  <1> DEFINE new == Saved!WithSaved(list, entries, lost)
             both == list \o entries
             a == Len(list)
             b == Len(entries)
  <1>1. a \in Nat /\ b \in Nat /\ DOMAIN list = 1 .. a /\ DOMAIN entries = 1 .. b
    OBVIOUS
  <1>2. lost \in 0 .. a
    BY <1>1 DEF Saved!MayLose
  <1>3. /\ both \in Seq(Entry) /\ Len(both) = a + b
        /\ \A k \in 1 .. a + b : both[k] = IF k <= a THEN list[k] ELSE entries[k - a]
    BY ConcatProperties
  <1>4. new = SubSeq(both, lost + 1, a + b)
    BY DEF Saved!WithSaved
  <1> HIDE DEF both, new
  <1>5. /\ new \in Seq(Entry) /\ Len(new) = (a + b) - lost
        /\ \A k \in 1 .. (a + b) - lost : new[k] = both[k + lost]
    <2>1. lost + 1 \in Int /\ a + b \in Int /\ (a + b) - (lost + 1) + 1 = (a + b) - lost
      BY <1>1, <1>2
    <2>2. \A k \in lost + 1 .. a + b : both[k] \in Entry
      BY <1>1, <1>2, <1>3
    <2>3. /\ new \in Seq(Entry)
          /\ Len(new) = IF lost + 1 <= a + b THEN (a + b) - (lost + 1) + 1 ELSE 0
          /\ \A k \in 1 .. (a + b) - (lost + 1) + 1 : new[k] = both[(lost + 1) + k - 1]
      BY <1>4, <2>1, <2>2, SubSeqProperties
    <2>4. \A k \in 1 .. (a + b) - lost : (lost + 1) + k - 1 = k + lost
      BY <1>1, <1>2
    <2>5. Len(new) = (a + b) - lost
      BY <1>1, <1>2, <2>1, <2>3
    <2> QED BY <2>1, <2>3, <2>4, <2>5
  <1>6. DOMAIN new = 1 .. (a + b) - lost
    BY <1>5
  <1>7. ASSUME NEW k \in 1 .. a + b
        PROVE  \/ k \in 1 .. a /\ both[k] = list[k]
               \/ k - a \in 1 .. b /\ both[k] = entries[k - a] /\ k > a
    BY <1>1, <1>3, <1>7
  <1>8. ASSUME NEW k \in 1 .. a + b, NEW m \in 1 .. a + b, both[k].pid = both[m].pid, both[k].pid # 0
        PROVE  k = m
    <2>1. CASE k \in 1 .. a /\ both[k] = list[k] /\ m \in 1 .. a /\ both[m] = list[m]
      BY <1>1, <1>8, <2>1 DEF OneEach
    <2>2. CASE k - a \in 1 .. b /\ both[k] = entries[k - a] /\ m - a \in 1 .. b /\ both[m] = entries[m - a]
      <3>1. k - a = m - a
        BY <1>1, <1>8, <2>2 DEF OneEach
      <3> QED BY <1>1, <1>8, <3>1
    <2>3. CASE k \in 1 .. a /\ both[k] = list[k] /\ m - a \in 1 .. b /\ both[m] = entries[m - a]
      BY <1>1, <1>8, <2>3
    <2>4. CASE m \in 1 .. a /\ both[m] = list[m] /\ k - a \in 1 .. b /\ both[k] = entries[k - a]
      BY <1>1, <1>8, <2>4
    <2> QED BY <1>7, <2>1, <2>2, <2>3, <2>4
  <1>9. ASSUME NEW k \in 1 .. (a + b) - lost PROVE k + lost \in 1 .. a + b
    BY <1>1, <1>2
  <1>10. OneEach(new)
    <2> SUFFICES ASSUME NEW k \in 1 .. (a + b) - lost, NEW m \in 1 .. (a + b) - lost,
                        new[k].pid = new[m].pid, new[k].pid # 0
                 PROVE  k = m
      BY <1>6 DEF OneEach
    <2>1. k + lost = m + lost
      BY <1>5, <1>8, <1>9
    <2> QED BY <1>2, <2>1
  <1>11. \A k \in DOMAIN new : \/ \E j \in DOMAIN list : new[k] = list[j]
                               \/ \E j \in DOMAIN entries : new[k] = entries[j]
    BY <1>1, <1>5, <1>6, <1>7, <1>9
  <1>12. ASSUME NEW j \in lost + 1 .. a + b PROVE \E k \in DOMAIN new : new[k] = both[j]
    <2>1. j - lost \in 1 .. (a + b) - lost /\ (j - lost) + lost = j
      BY <1>1, <1>2
    <2> QED BY <1>5, <1>6, <2>1
  <1>13. \A j \in DOMAIN list : j \notin 1 .. lost => \E k \in DOMAIN new : new[k] = list[j]
    <2> SUFFICES ASSUME NEW j \in 1 .. a, j \notin 1 .. lost
                 PROVE  \E k \in DOMAIN new : new[k] = list[j]
      BY <1>1
    <2>1. j \in lost + 1 .. a + b /\ j \in 1 .. a + b /\ j <= a
      BY <1>1, <1>2
    <2> QED BY <1>3, <1>12, <2>1
  <1>14. \A j \in DOMAIN entries : \E k \in DOMAIN new : new[k] = entries[j]
    <2> SUFFICES ASSUME NEW j \in 1 .. b PROVE \E k \in DOMAIN new : new[k] = entries[j]
      BY <1>1
    <2>1. j + a \in lost + 1 .. a + b /\ j + a \in 1 .. a + b /\ ~(j + a <= a) /\ (j + a) - a = j
      BY <1>1, <1>2
    <2> QED BY <1>3, <1>12, <2>1
  <1> QED BY <1>5, <1>10, <1>11, <1>13, <1>14 DEF new

-----------------------------------------------------------------------------
(***************************************************************************)
(* Tables some of whose jobs are deleted: what the deletions hand to       *)
(* bgp_add.                                                                *)
(***************************************************************************)
EntryOf(job) == [pid |-> LastProc(job).pid, status |-> ExitStatus(job)]

Fits(js) == IsTable(js) /\ Disjoint(js) /\ \A s \in DOMAIN js : js[s].pipe # <<>>

\* The table with some jobs gone and some flagged.
SubTable(new, old) ==
    /\ IsTable(new)
    /\ DOMAIN new \subseteq DOMAIN old
    /\ \A s \in DOMAIN new : /\ new[s].pipe = old[s].pipe
                             /\ new[s].state = old[s].state
                             /\ new[s].async = old[s].async

\* The entries stand for jobs of these slots, and for all async ones.
Given(js, slots, entries) ==
    /\ entries \in Seq(Entry)
    /\ OneEach(entries)
    /\ \A k \in DOMAIN entries : \E s \in slots : entries[k] = EntryOf(js[s])
    /\ \A s \in slots : js[s].async => \E k \in DOMAIN entries : entries[k] = EntryOf(js[s])

Cleared(js, new, entries) ==
    /\ SubTable(new, js)
    /\ \A s \in DOMAIN js \ DOMAIN new : Dead(js[s])
    /\ Given(js, DOMAIN js \ DOMAIN new, entries)

\* The last process of a job is one of its processes.
LEMMA LastFacts ==
  ASSUME NEW job \in Job, job.pipe # <<>>
  PROVE  /\ LastProc(job) = LastOf(job.pipe) /\ ExitStatus(job) = LastOf(job.pipe).status
         /\ Len(job.pipe) \in DOMAIN job.pipe /\ LastOf(job.pipe) \in Proc
         /\ EntryOf(job) \in Entry
         /\ LastProc(job).pid # 0 => LastProc(job).pid \in PidsIn(job.pipe)
  <1>1. job.pipe \in Seq(Proc)
    BY DEF Job
  <1>2. Len(job.pipe) \in DOMAIN job.pipe
    BY <1>1
  <1>3. LastProc(job) = LastOf(job.pipe) /\ ExitStatus(job) = LastOf(job.pipe).status
    BY DEF LastProc, LastOf, ExitStatus, Last
  <1>4. LastOf(job.pipe) \in Proc
    BY <1>1, <1>2 DEF LastOf
  <1>5. EntryOf(job) \in Entry
    BY <1>3, <1>4 DEF EntryOf, Entry, Proc
  <1>6. LastProc(job).pid # 0 => LastProc(job).pid \in PidsIn(job.pipe)
    BY <1>2, <1>3 DEF PidsIn, LastOf
  <1> QED BY <1>2, <1>3, <1>4, <1>5, <1>6

LEMMA TableFits ==
  ASSUME NEW js, NEW kd, NEW cd, NEW tl, NEW an, TableOK(js, kd, cd, tl, an)
  PROVE  Fits(js)
  BY DEF TableOK, JobOK, Fits

\* Deleting and flagging jobs leaves a table a table.
LEMMA SubTableFits ==
  ASSUME NEW js, NEW new, Fits(js), SubTable(new, js)
  PROVE  Fits(new)
  BY DEF Fits, SubTable, Disjoint

\* InOrder lists each slot once.
LEMMA InOrderFacts ==
  ASSUME NEW S \in SUBSET Int, IsFiniteSet(S)
  PROVE  /\ DOMAIN InOrder(S) = 1 .. Cardinality(S) /\ Cardinality(S) \in Nat
         /\ \A k \in DOMAIN InOrder(S) : InOrder(S)[k] \in S
         /\ \A k, m \in DOMAIN InOrder(S) : InOrder(S)[k] = InOrder(S)[m] => k = m
         /\ \A s \in S : \E k \in DOMAIN InOrder(S) : InOrder(S)[k] = s
  <1> DEFINE o == InOrder(S)
             n == Cardinality(S)
             at(k) == CHOOSE s \in S : Below(S, s) = k - 1
  <1>1. n \in Nat
    BY FS_CardinalityType
  <1>2. o = [k \in 1 .. n |-> at(k)]
    BY DEF InOrder, Below
  <1>3. ASSUME NEW k \in 1 .. n
        PROVE  o[k] \in S /\ Below(S, o[k]) = k - 1
    <2>1. \E s \in S : Below(S, s) = k - 1
      BY <1>3, EachRank
    <2>2. at(k) \in S /\ Below(S, at(k)) = k - 1
      BY <2>1
    <2>3. o[k] = at(k)
      BY <1>2, <1>3
    <2> HIDE DEF at, o
    <2> QED BY <2>2, <2>3
  <1>4. DOMAIN o = 1 .. n
    BY <1>2
  <1> HIDE DEF o, at
  <1>5. ASSUME NEW k \in 1 .. n, NEW m \in 1 .. n, o[k] = o[m]
        PROVE  k = m
    BY <1>1, <1>3, <1>5
  <1>6. ASSUME NEW s \in S
        PROVE  \E k \in 1 .. n : o[k] = s
    <2>1. Below(S, s) \in 0 .. n - 1
      BY BelowType
    <2> DEFINE k == Below(S, s) + 1
    <2>2. k \in 1 .. n /\ k - 1 = Below(S, s)
      BY <1>1, <2>1
    <2> HIDE DEF k
    <2>3. o[k] \in S /\ Below(S, o[k]) = Below(S, s)
      BY <1>3, <2>2
    <2>4. \A x, y \in S : Below(S, x) = Below(S, y) => x = y
      BY OneOfEachRank
    <2>5. o[k] = s
      BY <2>3, <2>4
    <2> QED BY <2>2, <2>5
  <1> QED BY <1>1, <1>3, <1>4, <1>5, <1>6 DEF o

\* delete_job saves the statuses of the async jobs it deletes, each once.
LEMMA StatusedGiven ==
  ASSUME NEW js, Fits(js), NEW slots \in SUBSET DOMAIN js
  PROVE  Given(js, slots, Statused(js, slots))
  <1> DEFINE S == {s \in slots : js[s].async}
             o == InOrder(S)
             e == Statused(js, slots)
  <1>1. S \in SUBSET Int /\ IsFiniteSet(S) /\ S \subseteq DOMAIN js
    <2>1. IsFiniteSet(DOMAIN js) /\ DOMAIN js \subseteq Nat /\ S \subseteq DOMAIN js
      BY DEF Fits, IsTable
    <2> QED BY <2>1, FS_Subset
  <1>2. e = [k \in DOMAIN o |-> EntryOf(js[o[k]])]
    BY DEF Statused, EntryOf
  <1>3. S \subseteq slots /\ \A s \in slots : js[s].async => s \in S
    OBVIOUS
  <1> HIDE DEF S, o, e
  <1>4. /\ DOMAIN o = 1 .. Cardinality(S) /\ Cardinality(S) \in Nat
        /\ \A k \in DOMAIN o : o[k] \in S
        /\ \A k, m \in DOMAIN o : o[k] = o[m] => k = m
        /\ \A s \in S : \E k \in DOMAIN o : o[k] = s
    BY <1>1, InOrderFacts DEF o
  <1>5. ASSUME NEW s \in DOMAIN js
        PROVE  js[s] \in Job /\ js[s].pipe # <<>>
    BY DEF Fits, IsTable
  <1>6. DOMAIN e = DOMAIN o /\ \A k \in DOMAIN o : e[k] = EntryOf(js[o[k]])
    BY <1>2
  <1>7. e \in Seq(Entry)
    <2>1. ASSUME NEW k \in DOMAIN o
          PROVE  EntryOf(js[o[k]]) \in Entry
      <3>1. o[k] \in DOMAIN js
        BY <1>1, <1>4
      <3> QED BY <1>5, <3>1, LastFacts
    <2> QED BY <1>2, <1>4, <2>1
  <1>8. OneEach(e)
    <2> SUFFICES ASSUME NEW k \in DOMAIN o, NEW m \in DOMAIN o, e[k].pid = e[m].pid, e[k].pid # 0
                 PROVE  k = m
      BY <1>6 DEF OneEach
    <2>1. o[k] \in DOMAIN js /\ o[m] \in DOMAIN js
      BY <1>1, <1>4
    <2>2. e[k].pid = LastProc(js[o[k]]).pid /\ e[m].pid = LastProc(js[o[m]]).pid
      BY <1>6 DEF EntryOf
    <2>3. e[k].pid \in PidsIn(js[o[k]].pipe) /\ e[k].pid \in PidsIn(js[o[m]].pipe)
      BY <1>5, <2>1, <2>2, LastFacts
    <2>4. o[k] = o[m]
      BY <2>1, <2>3 DEF Fits, Disjoint
    <2> QED BY <1>4, <2>4
  <1>9. \A k \in DOMAIN e : \E s \in slots : e[k] = EntryOf(js[s])
    BY <1>3, <1>4, <1>6
  <1>10. \A s \in slots : js[s].async => \E k \in DOMAIN e : e[k] = EntryOf(js[s])
    BY <1>3, <1>4, <1>6
  <1> QED BY <1>7, <1>8, <1>9, <1>10 DEF Given, e

\* The entries of two rounds of deletions together.
LEMMA GivenConcat ==
  ASSUME NEW js, Fits(js), NEW A \in SUBSET DOMAIN js, NEW B \in SUBSET DOMAIN js, A \cap B = {},
         NEW e, NEW f, Given(js, A, e), Given(js, B, f)
  PROVE  Given(js, A \cup B, e \o f)
  <1> DEFINE a == Len(e)
             b == Len(f)
             g == e \o f
  <1>1. e \in Seq(Entry) /\ f \in Seq(Entry)
    BY DEF Given
  <1>2. a \in Nat /\ b \in Nat /\ DOMAIN e = 1 .. a /\ DOMAIN f = 1 .. b
    BY <1>1
  <1>3. /\ g \in Seq(Entry) /\ Len(g) = a + b
        /\ \A k \in 1 .. a + b : g[k] = IF k <= a THEN e[k] ELSE f[k - a]
    BY <1>1, ConcatProperties
  <1> HIDE DEF g
  <1>4. DOMAIN g = 1 .. a + b
    BY <1>2, <1>3
  <1> HIDE DEF a, b
  <1>5. ASSUME NEW k \in 1 .. a + b
        PROVE  \/ k \in 1 .. a /\ g[k] = e[k]
               \/ k - a \in 1 .. b /\ g[k] = f[k - a]
    BY <1>2, <1>3, <1>5
  <1>6. ASSUME NEW k \in 1 .. a, NEW m \in 1 .. b, e[k].pid = f[m].pid
        PROVE  e[k].pid = 0
    <2>1. PICK s \in A : e[k] = EntryOf(js[s])
      BY <1>2 DEF Given
    <2>2. PICK t \in B : f[m] = EntryOf(js[t])
      BY <1>2 DEF Given
    <2>3. s \in DOMAIN js /\ t \in DOMAIN js /\ s # t
      OBVIOUS
    <2>4. js[s] \in Job /\ js[s].pipe # <<>> /\ js[t] \in Job /\ js[t].pipe # <<>>
      BY <2>3 DEF Fits, IsTable
    <2>5. e[k].pid = LastProc(js[s]).pid /\ f[m].pid = LastProc(js[t]).pid
      BY <2>1, <2>2 DEF EntryOf
    <2>6. PidsIn(js[s].pipe) \cap PidsIn(js[t].pipe) = {}
      BY <2>3 DEF Fits, Disjoint
    <2> QED BY <1>6, <2>4, <2>5, <2>6, LastFacts
  <1>7. OneEach(g)
    <2> SUFFICES ASSUME NEW k \in 1 .. a + b, NEW m \in 1 .. a + b, g[k].pid = g[m].pid, g[k].pid # 0
                 PROVE  k = m
      BY <1>4 DEF OneEach
    <2>1. CASE k \in 1 .. a /\ g[k] = e[k] /\ m \in 1 .. a /\ g[m] = e[m]
      BY <1>2, <2>1 DEF OneEach, Given
    <2>2. CASE k - a \in 1 .. b /\ g[k] = f[k - a] /\ m - a \in 1 .. b /\ g[m] = f[m - a]
      <3>1. k - a = m - a
        BY <1>2, <2>2 DEF OneEach, Given
      <3> QED BY <1>2, <3>1
    <2>3. CASE k \in 1 .. a /\ g[k] = e[k] /\ m - a \in 1 .. b /\ g[m] = f[m - a]
      BY <1>6, <2>3
    <2>4. CASE m \in 1 .. a /\ g[m] = e[m] /\ k - a \in 1 .. b /\ g[k] = f[k - a]
      BY <1>6, <2>4
    <2> QED BY <1>5, <2>1, <2>2, <2>3, <2>4
  <1>8. \A k \in DOMAIN g : \E s \in A \cup B : g[k] = EntryOf(js[s])
    <2> SUFFICES ASSUME NEW k \in 1 .. a + b
                 PROVE  \E s \in A \cup B : g[k] = EntryOf(js[s])
      BY <1>4
    <2>1. CASE k \in 1 .. a /\ g[k] = e[k]
      BY <1>2, <2>1 DEF Given
    <2>2. CASE k - a \in 1 .. b /\ g[k] = f[k - a]
      BY <1>2, <2>2 DEF Given
    <2> QED BY <1>5, <2>1, <2>2
  <1>9. ASSUME NEW s \in A \cup B, js[s].async
        PROVE  \E k \in DOMAIN g : g[k] = EntryOf(js[s])
    <2>1. CASE s \in A
      <3>1. PICK k \in 1 .. a : e[k] = EntryOf(js[s])
        BY <1>2, <1>9, <2>1 DEF Given
      <3>2. k \in 1 .. a + b /\ k <= a
        BY <1>2
      <3> QED BY <1>3, <1>4, <3>1, <3>2
    <2>2. CASE s \in B
      <3>1. PICK k \in 1 .. b : f[k] = EntryOf(js[s])
        BY <1>2, <1>9, <2>2 DEF Given
      <3>2. k + a \in 1 .. a + b /\ ~(k + a <= a) /\ (k + a) - a = k
        BY <1>2
      <3> QED BY <1>3, <1>4, <3>1, <3>2
    <2> QED BY <2>1, <2>2
  <1> QED BY <1>3, <1>7, <1>8, <1>9 DEF Given, g

LEMMA GivenNone ==
  ASSUME NEW js PROVE Given(js, {}, <<>>)
  <1>1. <<>> \in Seq(Entry) /\ DOMAIN <<>> = {}
    OBVIOUS
  <1> QED BY <1>1 DEF Given, OneEach

-----------------------------------------------------------------------------
(***************************************************************************)
(* The ways in which dead jobs go.                                         *)
(***************************************************************************)
LEMMA FlagIsSub ==
  ASSUME NEW js, IsTable(js), NEW slots
  PROVE  SubTable(Flag(js, slots), js) /\ DOMAIN Flag(js, slots) = DOMAIN js
  <1> DEFINE new == Flag(js, slots)
  <1>1. DOMAIN new = DOMAIN js
    BY DEF Flag
  <1>2. ASSUME NEW s \in DOMAIN js
        PROVE  /\ new[s] \in Job /\ new[s].pipe = js[s].pipe
               /\ new[s].state = js[s].state /\ new[s].async = js[s].async
    <2>1. js[s] \in Job
      BY DEF IsTable
    <2>2. new[s] = IF s \in slots THEN [js[s] EXCEPT !.notified = TRUE] ELSE js[s]
      BY DEF Flag
    <2> QED BY <2>1, <2>2 DEF Job
  <1>3. new \in [DOMAIN js -> Job]
    BY <1>1, <1>2 DEF Flag
  <1> HIDE DEF new
  <1>4. IsTable(new)
    BY <1>1, <1>3 DEF IsTable
  <1> QED BY <1>1, <1>2, <1>4 DEF SubTable, new

LEMMA WithoutIsSub ==
  ASSUME NEW js, IsTable(js), NEW slots
  PROVE  SubTable(Without(js, slots), js) /\ DOMAIN Without(js, slots) = DOMAIN js \ slots
  <1> DEFINE new == Without(js, slots)
  <1>1. DOMAIN new = DOMAIN js \ slots /\ \A s \in DOMAIN new : new[s] = js[s]
    BY DEF Without
  <1>2. new \in [DOMAIN new -> Job]
    BY <1>1 DEF Without, IsTable
  <1> HIDE DEF new
  <1>3. IsTable(new)
    <2>1. IsFiniteSet(DOMAIN new)
      BY <1>1, FS_Subset DEF IsTable
    <2> QED BY <1>1, <1>2, <2>1 DEF IsTable
  <1> QED BY <1>1, <1>3 DEF SubTable, new

LEMMA SubTableTrans ==
  ASSUME NEW js, NEW mid, NEW new, SubTable(mid, js), SubTable(new, mid)
  PROVE  SubTable(new, js)
  BY DEF SubTable

\* A table that jobs were deleted from, their statuses saved: it may be flagged, and
\* cleanup_dead_jobs may delete more.
LEMMA ClearedFlag ==
  ASSUME NEW js, NEW new, NEW e, Cleared(js, new, e), NEW slots
  PROVE  Cleared(js, Flag(new, slots), e)
  <1>1. SubTable(Flag(new, slots), new) /\ DOMAIN Flag(new, slots) = DOMAIN new
    BY FlagIsSub DEF Cleared, SubTable
  <1>2. SubTable(Flag(new, slots), js)
    BY <1>1, SubTableTrans DEF Cleared
  <1> QED BY <1>1, <1>2 DEF Cleared

LEMMA ClearedStart ==
  ASSUME NEW js, Fits(js) PROVE Cleared(js, js, <<>>)
  <1>1. DOMAIN js \ DOMAIN js = {}
    OBVIOUS
  <1>2. SubTable(js, js)
    BY DEF SubTable, Fits
  <1> QED BY <1>1, <1>2, GivenNone DEF Cleared

LEMMA ClearedStep ==
  ASSUME NEW js, Fits(js), NEW new, NEW e, Cleared(js, new, e)
  PROVE  Cleared(js, CleanedUp(new), e \o CleanedStatuses(new))
  <1> DEFINE F == Finished(new)
             last == CleanedUp(new)
             f == CleanedStatuses(new)
  <1>1. SubTable(new, js) /\ IsTable(new) /\ F \subseteq DOMAIN new /\ DOMAIN new \subseteq DOMAIN js
    BY DEF Cleared, SubTable, Finished
  <1>2. SubTable(last, new) /\ DOMAIN last = DOMAIN new \ F
    BY <1>1, WithoutIsSub DEF CleanedUp
  <1>3. SubTable(last, js)
    BY <1>1, <1>2, SubTableTrans
  <1>4. Given(new, F, f)
    <2>1. Fits(new)
      BY <1>1, SubTableFits
    <2> QED BY <1>1, <2>1, StatusedGiven DEF CleanedStatuses
  <1>5. \A s \in F : Dead(new[s])
    BY DEF Finished
  <1> HIDE DEF F, last, f
  <1>6. \A s \in F : new[s].pipe = js[s].pipe /\ new[s].state = js[s].state /\ new[s].async = js[s].async
    BY <1>1 DEF SubTable
  <1>7. \A s \in F : EntryOf(new[s]) = EntryOf(js[s])
    BY <1>6 DEF EntryOf, LastProc, ExitStatus
  <1>8. Given(js, F, f)
    BY <1>4, <1>6, <1>7 DEF Given
  <1>9. DOMAIN js \ DOMAIN last = (DOMAIN js \ DOMAIN new) \cup F
    BY <1>1, <1>2
  <1>10. Given(js, (DOMAIN js \ DOMAIN new) \cup F, e \o f)
    <2>1. (DOMAIN js \ DOMAIN new) \cap F = {} /\ F \in SUBSET DOMAIN js
      BY <1>1
    <2> QED BY <1>8, <2>1, GivenConcat DEF Cleared
  <1>11. \A s \in DOMAIN js \ DOMAIN last : Dead(js[s])
    BY <1>5, <1>6, <1>9 DEF Cleared, Dead
  <1> QED BY <1>3, <1>9, <1>10, <1>11 DEF Cleared, last, f

-----------------------------------------------------------------------------
(***************************************************************************)
(* The invariant when jobs are deleted and their statuses saved.           *)
(***************************************************************************)
LEMMA DeadFacts ==
  ASSUME NEW job, NEW kd, NEW cd, NEW tl, NEW an, JobOK(job, kd, cd, tl, an)
  PROVE  /\ job \in Job /\ job.pipe # <<>> /\ job.pipe \in Seq(Proc)
         /\ Dead(job) <=> ~Running(job)
         /\ Dead(job) => \A k \in DOMAIN job.pipe : ~job.pipe[k].running
         /\ \A k \in DOMAIN job.pipe : job.pipe[k].running => Running(job)
  <1>1. job \in Job /\ job.pipe # <<>> /\ job.pipe \in Seq(Proc) /\ job.state = PipeState(job.pipe)
    BY DEF JobOK, PipeOK
  <1>2. CASE \E k \in DOMAIN job.pipe : job.pipe[k].running
    <2>1. job.state = "running"
      BY <1>1, <1>2 DEF PipeState
    <2> QED BY <1>1, <2>1 DEF Dead, Running
  <1>3. CASE ~ \E k \in DOMAIN job.pipe : job.pipe[k].running
    <2>1. job.state = "dead"
      BY <1>1, <1>3 DEF PipeState
    <2> QED BY <1>1, <1>3, <2>1 DEF Dead, Running
  <1> QED BY <1>2, <1>3

\* What a dead job says of its processes.
LEMMA DeadAnswer ==
  ASSUME NEW job, NEW kd, NEW cd, NEW tl, NEW an, JobOK(job, kd, cd, tl, an), Dead(job),
         NEW p \in PidsIn(job.pipe)
  PROVE  an[p] = ExitStatus(job)
  <1>1. job \in Job /\ job.pipe # <<>> /\ \A k \in DOMAIN job.pipe : ~job.pipe[k].running
    BY DeadFacts
  <1>2. /\ ExitStatus(job) = LastOf(job.pipe).status
        /\ Len(job.pipe) \in DOMAIN job.pipe
    BY <1>1, LastFacts
  <1>3. ~LastOf(job.pipe).running
    BY <1>1, <1>2 DEF LastOf
  <1> QED BY <1>2, <1>3 DEF JobOK, PipeOK, ToldOK

\* What a dead job hands to bgp_add is the answer for its pid.
LEMMA DeadEntry ==
  ASSUME NEW job, NEW kd, NEW cd, NEW tl, NEW an, JobOK(job, kd, cd, tl, an), Dead(job),
         LastProc(job).pid # 0
  PROVE  /\ an[EntryOf(job).pid] = EntryOf(job).status
         /\ tl[EntryOf(job).pid] = EntryOf(job).pid
         /\ kd[EntryOf(job).pid] = "none"
  <1>1. job \in Job /\ job.pipe # <<>> /\ \A k \in DOMAIN job.pipe : ~job.pipe[k].running
    BY DeadFacts
  <1>2. /\ LastProc(job) = LastOf(job.pipe)
        /\ LastProc(job).pid \in PidsIn(job.pipe)
        /\ Len(job.pipe) \in DOMAIN job.pipe
    BY <1>1, LastFacts
  <1>3. EntryOf(job).pid = LastProc(job).pid /\ EntryOf(job).status = ExitStatus(job)
    BY DEF EntryOf
  <1>4. an[EntryOf(job).pid] = EntryOf(job).status
    BY <1>2, <1>3, DeadAnswer
  <1>5. tl[EntryOf(job).pid] = EntryOf(job).pid
    BY <1>2, <1>3 DEF JobOK, PipeOK, ToldOK
  <1>6. kd[EntryOf(job).pid] = "none"
    BY <1>1, <1>2, <1>3 DEF JobOK, PipeOK, LiveOK, LastOf
  <1> QED BY <1>4, <1>5, <1>6

\* What is said of the jobs does not depend on there being others.
LEMMA ShrunkTable ==
  ASSUME NEW js, NEW new, NEW pipe, NEW kd, NEW cd, NEW tl, NEW an,
         TableOK(js, kd, cd, tl, an), PipelineOK(js, pipe, kd, cd, tl, an), SubTable(new, js)
  PROVE  TableOK(new, kd, cd, tl, an) /\ PipelineOK(new, pipe, kd, cd, tl, an)
  <1>1. IsTable(new) /\ DOMAIN new \subseteq DOMAIN js
    BY DEF SubTable
  <1>2. ASSUME NEW s \in DOMAIN new
        PROVE  new[s] \in Job /\ new[s].pipe = js[s].pipe /\ new[s].state = js[s].state
               /\ JobOK(js[s], kd, cd, tl, an)
    BY <1>1 DEF SubTable, IsTable, TableOK
  <1>3. \A s \in DOMAIN new : JobOK(new[s], kd, cd, tl, an)
    BY <1>2 DEF JobOK
  <1>4. Disjoint(new)
    BY <1>1, <1>2 DEF TableOK, Disjoint
  <1>5. PipelineOK(new, pipe, kd, cd, tl, an)
    BY <1>1, <1>2 DEF PipelineOK
  <1> QED BY <1>1, <1>3, <1>4, <1>5 DEF TableOK

\* Deleting jobs that are dead or disowned forgets no child.
LEMMA ShrunkChildren ==
  ASSUME NEW js, NEW new, NEW pipe, NEW kd, NEW cd, NEW tl, NEW an, NEW dis, NEW dis2,
         TableOK(js, kd, cd, tl, an), SubTable(new, js),
         ChildrenOK(js, pipe, kd, dis), dis \subseteq dis2,
         \A s \in DOMAIN js \ DOMAIN new :
            Dead(js[s]) \/ \A p \in Pids : HasPid(js[s], p) => p \in dis2
  PROVE  ChildrenOK(new, pipe, kd, dis2)
  <1> SUFFICES ASSUME NEW p \in Pids, kd[p] # "none", p \notin dis2
               PROVE  AliveIn(pipe, p) \/ \E s \in DOMAIN new : AliveIn(new[s].pipe, p)
    BY DEF ChildrenOK
  <1>1. CASE AliveIn(pipe, p)
    BY <1>1
  <1>2. CASE ~AliveIn(pipe, p)
    <2>1. PICK s \in DOMAIN js : AliveIn(js[s].pipe, p)
      BY <1>2 DEF ChildrenOK
    <2>2. PICK k \in DOMAIN js[s].pipe : js[s].pipe[k].pid = p /\ js[s].pipe[k].running
      BY <2>1 DEF AliveIn
    <2>3. ~Dead(js[s])
      BY <2>2, DeadFacts DEF TableOK
    <2>4. HasPid(js[s], p)
      BY <2>2 DEF HasPid
    <2>5. s \in DOMAIN new
      BY <2>3, <2>4
    <2> QED BY <2>1, <2>5 DEF SubTable
  <1> QED BY <1>1, <1>2

\* What Store makes of the saved statuses and of the pids to be known.
Stored(list, entries, lost, forget) ==
    Saved!Without(Saved!WithSaved(list, entries, lost), forget)
LeftOver(list, kn, lost, forget) == kn \ ({list[k].pid : k \in 1 .. lost} \cup {forget})

Apart(list, entries) ==
    \A k \in DOMAIN list, m \in DOMAIN entries : list[k].pid = entries[m].pid => list[k].pid = 0

StoredFrom(new, list, entries, lost, forget) ==
    /\ new \in Seq(Entry) /\ OneEach(new)
    /\ \A k \in DOMAIN new : \/ \E j \in DOMAIN list : new[k] = list[j]
                             \/ \E j \in DOMAIN entries : new[k] = entries[j]
    /\ \A j \in DOMAIN list : list[j].pid # forget /\ j \notin 1 .. lost =>
         \E k \in DOMAIN new : new[k] = list[j]
    /\ \A j \in DOMAIN entries : entries[j].pid # forget =>
         \E k \in DOMAIN new : new[k] = entries[j]

\* The list after entries were saved, the oldest lost and one dropped.
LEMMA StoredFacts ==
  ASSUME NEW list \in Seq(Entry), OneEach(list), NEW entries \in Seq(Entry), OneEach(entries),
         Apart(list, entries), NEW lost \in Saved!MayLose(list, entries), NEW forget
  PROVE  StoredFrom(Stored(list, entries, lost, forget), list, entries, lost, forget)
  <1> DEFINE mid == Saved!WithSaved(list, entries, lost)
             new == Stored(list, entries, lost, forget)
  <1>1. /\ mid \in Seq(Entry) /\ OneEach(mid)
        /\ \A k \in DOMAIN mid : \/ \E j \in DOMAIN list : mid[k] = list[j]
                                 \/ \E j \in DOMAIN entries : mid[k] = entries[j]
        /\ \A j \in DOMAIN list : j \notin 1 .. lost => \E k \in DOMAIN mid : mid[k] = list[j]
        /\ \A j \in DOMAIN entries : \E k \in DOMAIN mid : mid[k] = entries[j]
    BY WithSavedFacts DEF Apart
  <1>2. new = Saved!Without(mid, forget)
    BY DEF Stored
  <1> HIDE DEF mid, new
  <1>3. /\ new \in Seq(Entry) /\ OneEach(new)
        /\ \A k \in DOMAIN new : \E j \in DOMAIN mid : new[k] = mid[j]
        /\ \A j \in DOMAIN mid : mid[j].pid # forget => \E k \in DOMAIN new : new[k] = mid[j]
    BY <1>1, <1>2, WithoutFacts
  <1>4. ASSUME NEW k \in DOMAIN new
        PROVE  \/ \E j \in DOMAIN list : new[k] = list[j]
               \/ \E j \in DOMAIN entries : new[k] = entries[j]
    <2>1. PICK j \in DOMAIN mid : new[k] = mid[j]
      BY <1>3
    <2> QED BY <1>1, <2>1
  <1>5. ASSUME NEW j \in DOMAIN list, list[j].pid # forget, j \notin 1 .. lost
        PROVE  \E k \in DOMAIN new : new[k] = list[j]
    <2>1. PICK i \in DOMAIN mid : mid[i] = list[j]
      BY <1>1, <1>5
    <2> QED BY <1>3, <1>5, <2>1
  <1>6. ASSUME NEW j \in DOMAIN entries, entries[j].pid # forget
        PROVE  \E k \in DOMAIN new : new[k] = entries[j]
    <2>1. PICK i \in DOMAIN mid : mid[i] = entries[j]
      BY <1>1
    <2> QED BY <1>3, <1>6, <2>1
  <1> QED BY <1>3, <1>4, <1>5, <1>6 DEF new, StoredFrom

\* Jobs are deleted that are dead or disowned; entries stand for some of them,
\* and for all that are async but the one whose status is to be forgotten.
LEMMA ShrunkSaved ==
  ASSUME NEW js, NEW new, NEW pipe, NEW list, NEW kd, NEW cd, NEW tl, NEW an, NEW kn,
         NEW dis, NEW dis2,
         Core(js, pipe, list, kd, cd, tl, an, kn, dis), SubTable(new, js), dis \subseteq dis2,
         \A s \in DOMAIN js \ DOMAIN new :
            Dead(js[s]) \/ \A p \in Pids : HasPid(js[s], p) => p \in dis2,
         NEW entries \in Seq(Entry), OneEach(entries),
         \A k \in DOMAIN entries : \E s \in DOMAIN js \ DOMAIN new : entries[k] = EntryOf(js[s]),
         NEW forget,
         \A s \in DOMAIN js \ DOMAIN new : js[s].async =>
            LastProc(js[s]).pid = forget \/ \E k \in DOMAIN entries : entries[k] = EntryOf(js[s]),
         NEW lost \in Saved!MayLose(list, entries)
  PROVE  /\ SavedOK(Stored(list, entries, lost, forget), new, pipe, kd, tl, an, dis2)
         /\ KnownOK(new, pipe, Stored(list, entries, lost, forget), LeftOver(list, kn, lost, forget))
  <1> DEFINE list2 == Stored(list, entries, lost, forget)
             kn2 == LeftOver(list, kn, lost, forget)
             gone == DOMAIN js \ DOMAIN new
  <1>0. /\ TableOK(js, kd, cd, tl, an) /\ PipelineOK(js, pipe, kd, cd, tl, an)
        /\ SavedOK(list, js, pipe, kd, tl, an, dis) /\ KnownOK(js, pipe, list, kn)
    BY DEF Core
  <1>1. ASSUME NEW s \in DOMAIN js
        PROVE  js[s] \in Job /\ js[s].pipe # <<>> /\ JobOK(js[s], kd, cd, tl, an)
    BY <1>0 DEF TableOK, JobOK
  <1>2. DOMAIN new \subseteq DOMAIN js
        /\ \A s \in DOMAIN new : new[s].pipe = js[s].pipe /\ new[s].async = js[s].async
    BY DEF SubTable
  <1>3. list \in Seq(Entry) /\ OneEach(list)
    BY <1>0 DEF SavedOK
  <1>4. ASSUME NEW s \in DOMAIN js, EntryOf(js[s]).pid # 0
        PROVE  /\ EntryOf(js[s]).pid \in PidsIn(js[s].pipe)
               /\ EntryOf(js[s]).pid = LastProc(js[s]).pid
               /\ EntryOf(js[s]).pid \in Pids /\ HasPid(js[s], EntryOf(js[s]).pid)
    <2>1. EntryOf(js[s]).pid = LastProc(js[s]).pid
      BY DEF EntryOf
    <2>2. /\ LastProc(js[s]).pid \in PidsIn(js[s].pipe)
          /\ LastProc(js[s]) = LastOf(js[s].pipe)
          /\ Len(js[s].pipe) \in DOMAIN js[s].pipe /\ LastOf(js[s].pipe) \in Proc
      BY <1>1, <1>4, <2>1, LastFacts
    <2> QED BY <1>4, <2>1, <2>2 DEF HasPid, LastOf, Proc
  <1>5. Apart(list, entries)
    <2> SUFFICES ASSUME NEW k \in DOMAIN list, NEW m \in DOMAIN entries,
                        list[k].pid = entries[m].pid, list[k].pid # 0
                 PROVE  FALSE
      BY DEF Apart
    <2>1. PICK s \in gone : entries[m] = EntryOf(js[s])
      OBVIOUS
    <2>2. list[k].pid \in PidsIn(js[s].pipe)
      BY <1>4, <2>1
    <2> QED BY <1>0, <2>2 DEF SavedOK
  <1>6. /\ list2 \in Seq(Entry) /\ OneEach(list2)
        /\ \A k \in DOMAIN list2 : \/ \E j \in DOMAIN list : list2[k] = list[j]
                                   \/ \E j \in DOMAIN entries : list2[k] = entries[j]
        /\ \A j \in DOMAIN list : list[j].pid # forget /\ j \notin 1 .. lost =>
             \E k \in DOMAIN list2 : list2[k] = list[j]
        /\ \A j \in DOMAIN entries : entries[j].pid # forget =>
             \E k \in DOMAIN list2 : list2[k] = entries[j]
    <2>1. StoredFrom(list2, list, entries, lost, forget)
      BY <1>3, <1>5, StoredFacts
    <2> HIDE DEF list2
    <2> QED BY <2>1 DEF StoredFrom
  <1>7. kn2 \subseteq kn /\ forget \notin kn2 /\ \A k \in 1 .. lost : list[k].pid \notin kn2
    BY DEF LeftOver
  <1> HIDE DEF list2, kn2
  <1>8. SavedOK(list2, new, pipe, kd, tl, an, dis2)
    <2> DEFINE Fine(e) == /\ e.pid \notin PidsIn(pipe)
                          /\ \A s \in DOMAIN new : e.pid \notin PidsIn(new[s].pipe)
                          /\ e.pid \notin dis2 =>
                               /\ an[e.pid] = e.status
                               /\ tl[e.pid] = e.pid
                               /\ kd[e.pid] = "none"
    <2>1. ASSUME NEW j \in DOMAIN list, list[j].pid # 0
          PROVE  Fine(list[j])
      BY <1>0, <1>2, <2>1 DEF SavedOK
    <2>2. ASSUME NEW j \in DOMAIN entries, entries[j].pid # 0
          PROVE  Fine(entries[j])
      <3>1. PICK s \in gone : entries[j] = EntryOf(js[s])
        OBVIOUS
      <3> DEFINE e == EntryOf(js[s])
      <3>2. /\ e.pid \in PidsIn(js[s].pipe) /\ e.pid \in Pids /\ HasPid(js[s], e.pid)
            /\ LastProc(js[s]).pid # 0
        BY <1>4, <2>2, <3>1
      <3>3. e.pid \notin PidsIn(pipe)
        BY <1>0, <3>2 DEF PipelineOK
      <3>4. ASSUME NEW t \in DOMAIN new PROVE e.pid \notin PidsIn(new[t].pipe)
        <4>1. t # s /\ t \in DOMAIN js /\ new[t].pipe = js[t].pipe
          BY <1>2
        <4>2. PidsIn(js[s].pipe) \cap PidsIn(js[t].pipe) = {}
          BY <1>0, <4>1 DEF TableOK, Disjoint
        <4> QED BY <3>2, <4>1, <4>2
      <3>5. ASSUME e.pid \notin dis2
            PROVE  an[e.pid] = e.status /\ tl[e.pid] = e.pid /\ kd[e.pid] = "none"
        <4>1. Dead(js[s])
          BY <3>2, <3>5
        <4> QED BY <1>1, <3>2, <4>1, DeadEntry
      <3> QED BY <3>1, <3>3, <3>4, <3>5
    <2>3. \A k \in DOMAIN list2 : list2[k].pid # 0 => Fine(list2[k])
      <3> HIDE DEF Fine
      <3> QED BY <1>6, <2>1, <2>2
    <2> QED BY <1>6, <2>3 DEF SavedOK
  <1>9. KnownOK(new, pipe, list2, kn2)
    <2>1. kn \subseteq Pids /\ kn2 \subseteq Pids /\ kn2 \cap PidsIn(pipe) = {}
      BY <1>0, <1>7 DEF KnownOK
    <2>2. ASSUME NEW p \in kn2
          PROVE  \/ \E s \in DOMAIN new : LastProc(new[s]).pid = p
                 \/ \E k \in DOMAIN list2 : list2[k].pid = p
      <3>1. p \in kn /\ p # forget
        BY <1>7
      <3>2. CASE \E s \in DOMAIN js : LastProc(js[s]).pid = p
        <4>1. PICK s \in DOMAIN js : LastProc(js[s]).pid = p
          BY <3>2
        <4>2. CASE s \in DOMAIN new
          <5>1. LastProc(new[s]) = LastProc(js[s])
            BY <1>2, <4>2 DEF LastProc
          <5> QED BY <4>1, <4>2, <5>1
        <4>3. CASE s \notin DOMAIN new
          <5>1. js[s].async
            BY <1>0, <3>1, <4>1 DEF KnownOK
          <5>2. PICK k \in DOMAIN entries : entries[k] = EntryOf(js[s])
            BY <3>1, <4>1, <4>3, <5>1
          <5>3. entries[k].pid = p
            BY <4>1, <5>2 DEF EntryOf
          <5> QED BY <1>6, <3>1, <5>3
        <4> QED BY <4>2, <4>3
      <3>3. CASE \E k \in DOMAIN list : list[k].pid = p
        <4>1. PICK k \in DOMAIN list : list[k].pid = p
          BY <3>3
        <4>2. k \notin 1 .. lost
          BY <1>7, <4>1
        <4> QED BY <1>6, <3>1, <4>1, <4>2
      <3> QED BY <1>0, <3>1, <3>2, <3>3 DEF KnownOK
    <2>3. ASSUME NEW s \in DOMAIN new, LastProc(new[s]).pid \in kn2
          PROVE  new[s].async
      <3>1. s \in DOMAIN js /\ LastProc(new[s]) = LastProc(js[s]) /\ new[s].async = js[s].async
        BY <1>2 DEF LastProc
      <3> QED BY <1>0, <1>7, <2>3, <3>1 DEF KnownOK
    <2> QED BY <2>1, <2>2, <2>3 DEF KnownOK
  <1> QED BY <1>8, <1>9 DEF list2, kn2

\* The whole of it, where all that is deleted is dead.
LEMMA ClearedCore ==
  ASSUME NEW js, NEW new, NEW pipe, NEW list, NEW kd, NEW cd, NEW tl, NEW an, NEW kn, NEW dis,
         Core(js, pipe, list, kd, cd, tl, an, kn, dis),
         NEW entries, Cleared(js, new, entries), NEW forget,
         NEW lost \in Saved!MayLose(list, entries)
  PROVE  Core(new, pipe, Stored(list, entries, lost, forget), kd, cd, tl, an,
              LeftOver(list, kn, lost, forget), dis)
  <1>1. /\ TableOK(js, kd, cd, tl, an) /\ PipelineOK(js, pipe, kd, cd, tl, an)
        /\ ChildrenOK(js, pipe, kd, dis)
    BY DEF Core
  <1>2. /\ SubTable(new, js) /\ entries \in Seq(Entry) /\ OneEach(entries)
        /\ \A s \in DOMAIN js \ DOMAIN new : Dead(js[s])
        /\ \A k \in DOMAIN entries : \E s \in DOMAIN js \ DOMAIN new : entries[k] = EntryOf(js[s])
        /\ \A s \in DOMAIN js \ DOMAIN new : js[s].async =>
             \E k \in DOMAIN entries : entries[k] = EntryOf(js[s])
    BY DEF Cleared, Given
  <1>3. TableOK(new, kd, cd, tl, an) /\ PipelineOK(new, pipe, kd, cd, tl, an)
    BY <1>1, <1>2, ShrunkTable
  <1>4. ChildrenOK(new, pipe, kd, dis)
    BY <1>1, <1>2, ShrunkChildren
  <1>5. /\ SavedOK(Stored(list, entries, lost, forget), new, pipe, kd, tl, an, dis)
        /\ KnownOK(new, pipe, Stored(list, entries, lost, forget), LeftOver(list, kn, lost, forget))
    BY <1>2, ShrunkSaved
  <1> QED BY <1>3, <1>4, <1>5 DEF Core

-----------------------------------------------------------------------------
(***************************************************************************)
(* The invariant when a child exits, and when it is reaped.                *)
(***************************************************************************)
LEMMA PidsInPids ==
  ASSUME NEW pipe \in Seq(Proc)
  PROVE  /\ PidsIn(pipe) \subseteq Pids
         /\ \A k \in DOMAIN pipe : pipe[k] \in Proc /\ pipe[k].pid \in Pids \cup {0}
  <1>1. \A k \in DOMAIN pipe : pipe[k] \in Proc
    OBVIOUS
  <1>2. \A x \in Proc : x.pid \in Pids \cup {0}
    BY DEF Proc
  <1>3. \A k \in DOMAIN pipe : pipe[k].pid \in Pids \cup {0}
    BY <1>1, <1>2
  <1>4. PidsIn(pipe) \subseteq Pids
    BY <1>3 DEF PidsIn
  <1> QED BY <1>1, <1>3, <1>4

LEMMA EntryPids ==
  ASSUME NEW list \in Seq(Entry), NEW k \in DOMAIN list, list[k].pid # 0
  PROVE  list[k].pid \in Pids
  <1>1. list[k] \in Entry
    OBVIOUS
  <1> QED BY <1>1 DEF Entry

KernelExit(q, st, kd, cd, tl, an, kd2, cd2, an2) ==
    /\ kd[q] = "runs"
    /\ \A p \in Pids : kd2[p] = IF p = q THEN "zombie" ELSE kd[p]
    /\ \A p \in Pids : cd2[p] = IF p = q THEN st ELSE cd[p]
    /\ \A p \in Pids : an2[p] = IF tl[p] = q THEN st ELSE an[p]

\* A process is found alive exactly if the kernel has it.
LEMMA AliveFacts ==
  ASSUME NEW pipe, NEW kd, NEW cd, NEW tl, NEW an, PipeOK(pipe, kd, cd, tl, an), NEW q \in Pids
  PROVE  AliveIn(pipe, q) <=> q \in PidsIn(pipe) /\ kd[q] # "none"
  <1>1. q # 0
    BY PidAssumption
  <1> QED BY <1>1 DEF AliveIn, PidsIn, PipeOK, LiveOK

\* A child exits: its answer is known now, and no record changes.
LEMMA ExitPipe ==
  ASSUME NEW pipe, NEW kd, NEW cd, NEW tl, NEW an, PipeOK(pipe, kd, cd, tl, an),
         NEW q \in Pids, NEW st, NEW kd2, NEW cd2, NEW an2,
         KernelExit(q, st, kd, cd, tl, an, kd2, cd2, an2)
  PROVE  PipeOK(pipe, kd2, cd2, tl, an2)
  <1>0. /\ kd[q] = "runs"
        /\ \A p \in Pids : kd2[p] = IF p = q THEN "zombie" ELSE kd[p]
        /\ \A p \in Pids : cd2[p] = IF p = q THEN st ELSE cd[p]
        /\ \A p \in Pids : an2[p] = IF tl[p] = q THEN st ELSE an[p]
    BY DEF KernelExit
  <1>1. pipe \in Seq(Proc) /\ LiveOK(pipe, kd) /\ OneEach(pipe) /\ ToldOK(pipe, kd, cd, tl, an)
    BY DEF PipeOK
  <1>2. PidsIn(pipe) \subseteq Pids /\ q # NoPid /\ q # 0
    BY <1>1, PidsInPids, PidAssumption
  <1>3. \A k \in DOMAIN pipe : pipe[k].pid \in Pids \cup {0}
    BY <1>1, PidsInPids
  <1>4. LiveOK(pipe, kd2)
    <2> SUFFICES ASSUME NEW k \in DOMAIN pipe, pipe[k].pid # 0
                 PROVE  pipe[k].running <=> kd2[pipe[k].pid] # "none"
      BY <1>1 DEF LiveOK
    <2>1. pipe[k].pid \in Pids /\ (pipe[k].running <=> kd[pipe[k].pid] # "none")
      BY <1>1, <1>3 DEF LiveOK
    <2>2. kd2[pipe[k].pid] # "none" <=> kd[pipe[k].pid] # "none"
      BY <1>0, <2>1
    <2> QED BY <2>1, <2>2
  <1>5. ToldOK(pipe, kd2, cd2, tl, an2)
    <2> SUFFICES ASSUME NEW p \in PidsIn(pipe)
                 PROVE  /\ ~LastOf(pipe).running => an2[p] = LastOf(pipe).status
                        /\ LastOf(pipe).running /\ kd2[LastOf(pipe).pid] = "zombie" =>
                             an2[p] = cd2[LastOf(pipe).pid]
      BY <1>1 DEF ToldOK
    <2> DEFINE last == LastOf(pipe)
    <2>1. p \in Pids /\ tl[p] = IF last.pid = 0 THEN NoPid ELSE last.pid
      BY <1>1, <1>2 DEF ToldOK
    <2>2. (~last.running => an[p] = last.status)
          /\ (last.running /\ kd[last.pid] = "zombie" => an[p] = cd[last.pid])
      BY <1>1 DEF ToldOK
    <2>3. IF last.pid = 0 THEN ~last.running ELSE last.running <=> kd[last.pid] # "none"
      <3>1. pipe # <<>>
        BY DEF PidsIn
      <3>2. Len(pipe) \in DOMAIN pipe
        BY <1>1, <3>1
      <3> QED BY <1>1, <3>2 DEF LiveOK, LastOf
    <2>4. last.pid \in Pids \cup {0}
      <3>1. pipe # <<>>
        BY DEF PidsIn
      <3>2. Len(pipe) \in DOMAIN pipe
        BY <1>1, <3>1
      <3> QED BY <1>3, <3>2 DEF LastOf
    <2> HIDE DEF last
    <2>5. CASE last.pid = q
      <3>1. last.running /\ tl[p] = q
        BY <1>0, <1>2, <2>1, <2>3, <2>5
      <3>2. an2[p] = st /\ cd2[last.pid] = st
        BY <1>0, <1>2, <2>1, <2>5, <3>1
      <3> QED BY <3>1, <3>2 DEF last
    <2>6. CASE last.pid # q
      <3>1. tl[p] # q
        BY <1>2, <2>1, <2>6
      <3>2. an2[p] = an[p]
        BY <1>0, <2>1, <3>1
      <3>3. last.running => last.pid \in Pids /\ kd2[last.pid] = kd[last.pid] /\ cd2[last.pid] = cd[last.pid]
        BY <1>0, <2>3, <2>4, <2>6
      <3> QED BY <2>2, <3>2, <3>3 DEF last
    <2> QED BY <2>5, <2>6
  <1> QED BY <1>1, <1>4, <1>5 DEF PipeOK

LEMMA ExitCore ==
  ASSUME NEW js, NEW pipe, NEW list, NEW kd, NEW cd, NEW tl, NEW an, NEW kn, NEW dis,
         Core(js, pipe, list, kd, cd, tl, an, kn, dis),
         NEW q \in Pids, NEW st, NEW kd2, NEW cd2, NEW an2,
         KernelExit(q, st, kd, cd, tl, an, kd2, cd2, an2)
  PROVE  Core(js, pipe, list, kd2, cd2, tl, an2, kn, dis)
  <1>0. /\ kd[q] = "runs"
        /\ \A p \in Pids : kd2[p] = IF p = q THEN "zombie" ELSE kd[p]
        /\ \A p \in Pids : cd2[p] = IF p = q THEN st ELSE cd[p]
        /\ \A p \in Pids : an2[p] = IF tl[p] = q THEN st ELSE an[p]
    BY DEF KernelExit
  <1>1. /\ TableOK(js, kd, cd, tl, an) /\ PipelineOK(js, pipe, kd, cd, tl, an)
        /\ SavedOK(list, js, pipe, kd, tl, an, dis) /\ KnownOK(js, pipe, list, kn)
        /\ ChildrenOK(js, pipe, kd, dis)
    BY DEF Core
  <1>2. TableOK(js, kd2, cd2, tl, an2)
    <2>1. ASSUME NEW s \in DOMAIN js PROVE JobOK(js[s], kd2, cd2, tl, an2)
      <3>1. JobOK(js[s], kd, cd, tl, an)
        BY <1>1 DEF TableOK
      <3>2. PipeOK(js[s].pipe, kd2, cd2, tl, an2)
        BY <3>1, ExitPipe DEF JobOK
      <3> QED BY <3>1, <3>2 DEF JobOK
    <2> QED BY <1>1, <2>1 DEF TableOK
  <1>3. PipelineOK(js, pipe, kd2, cd2, tl, an2)
    <2>1. PipeOK(pipe, kd2, cd2, tl, an2)
      BY <1>1, ExitPipe DEF PipelineOK
    <2> QED BY <1>1, <2>1 DEF PipelineOK
  <1>4. SavedOK(list, js, pipe, kd2, tl, an2, dis)
    <2>1. ASSUME NEW k \in DOMAIN list, list[k].pid # 0, list[k].pid \notin dis
          PROVE  an2[list[k].pid] = list[k].status /\ kd2[list[k].pid] = "none"
      <3> DEFINE p == list[k].pid
      <3>1. an[p] = list[k].status /\ tl[p] = p /\ kd[p] = "none"
        BY <1>1, <2>1 DEF SavedOK
      <3>2. p \in Pids
        BY <1>1, <2>1, EntryPids DEF SavedOK
      <3> HIDE DEF p
      <3>3. p # q
        BY <1>0, <3>1
      <3>4. an2[p] = list[k].status /\ kd2[p] = "none"
        BY <1>0, <3>1, <3>2, <3>3
      <3> QED BY <3>4 DEF p
    <2> QED BY <1>1, <2>1 DEF SavedOK
  <1>5. ChildrenOK(js, pipe, kd2, dis)
    BY <1>0, <1>1 DEF ChildrenOK
  <1> QED BY <1>1, <1>2, <1>3, <1>4, <1>5 DEF Core

LEMMA MarkIdle ==
  ASSUME NEW pipe \in Seq(Proc), NEW q, NEW st, ~AliveIn(pipe, q)
  PROVE  Mark(pipe, q, st) = pipe
  <1> DEFINE new == Mark(pipe, q, st)
  <1>1. \A k \in DOMAIN pipe : new[k] = pipe[k]
    BY DEF Mark, AliveIn
  <1>2. new = [k \in DOMAIN pipe |-> new[k]]
    BY DEF Mark
  <1>3. pipe = [k \in DOMAIN pipe |-> pipe[k]]
    OBVIOUS
  <1> HIDE DEF new
  <1>4. new = pipe
    BY <1>1, <1>2, <1>3
  <1> QED BY <1>4 DEF new

KernelReap(q, kd, cd, kd2, cd2) ==
    /\ kd[q] = "zombie" /\ cd[q] \in Statuses \cup {0}
    /\ \A p \in Pids : kd2[p] = IF p = q THEN "none" ELSE kd[p]
    /\ \A p \in Pids : cd2[p] = IF p = q THEN 0 ELSE cd[p]

\* The table with the status of q marked in every job that has it.
MarkedTable(new, js, q, st) ==
    /\ IsTable(new)
    /\ DOMAIN new = DOMAIN js
    /\ \A s \in DOMAIN js : /\ new[s].pipe = Mark(js[s].pipe, q, st)
                            /\ new[s].state = PipeState(new[s].pipe)
                            /\ new[s].async = js[s].async

\* A child is reaped: the process with its pid is marked, and no other.
LEMMA MarkPipe ==
  ASSUME NEW pipe, NEW kd, NEW cd, NEW tl, NEW an, PipeOK(pipe, kd, cd, tl, an),
         NEW q \in Pids, NEW kd2, NEW cd2, KernelReap(q, kd, cd, kd2, cd2)
  PROVE  /\ PipeOK(Mark(pipe, q, cd[q]), kd2, cd2, tl, an)
         /\ DOMAIN Mark(pipe, q, cd[q]) = DOMAIN pipe
         /\ \A k \in DOMAIN pipe : Mark(pipe, q, cd[q])[k].pid = pipe[k].pid
         /\ PidsIn(Mark(pipe, q, cd[q])) = PidsIn(pipe)
         /\ pipe # <<>> => /\ Mark(pipe, q, cd[q]) # <<>>
                           /\ LastOf(Mark(pipe, q, cd[q])).pid = LastOf(pipe).pid
  <1> DEFINE new == Mark(pipe, q, cd[q])
             n == Len(pipe)
  <1>0. /\ kd[q] = "zombie" /\ cd[q] \in Statuses \cup {0}
        /\ \A p \in Pids : kd2[p] = IF p = q THEN "none" ELSE kd[p]
        /\ \A p \in Pids : cd2[p] = IF p = q THEN 0 ELSE cd[p]
    BY DEF KernelReap
  <1> USE <1>0
  <1>1. pipe \in Seq(Proc) /\ LiveOK(pipe, kd) /\ OneEach(pipe) /\ ToldOK(pipe, kd, cd, tl, an)
    BY DEF PipeOK
  <1>2. q # NoPid /\ q # 0
    BY PidAssumption
  <1>3. n \in Nat /\ DOMAIN pipe = 1 .. n /\ \A k \in 1 .. n : pipe[k] \in Proc
    BY <1>1
  <1>4. DOMAIN new = 1 .. n
    BY <1>3 DEF Mark
  <1>5. ASSUME NEW k \in 1 .. n
        PROVE  new[k] = IF pipe[k].pid = q THEN [pid |-> q, running |-> FALSE, status |-> cd[q]]
                        ELSE pipe[k]
    <2>1. pipe[k].pid = q => pipe[k].running
      BY <1>1, <1>2, <1>3 DEF LiveOK
    <2> QED BY <1>3, <2>1 DEF Mark
  <1>6. new \in Seq(Proc)
    <2>1. ASSUME NEW k \in 1 .. n PROVE new[k] \in Proc
      <3>1. [pid |-> q, running |-> FALSE, status |-> cd[q]] \in Proc
        BY DEF Proc
      <3> QED BY <1>3, <1>5, <3>1
    <2>2. new = [k \in 1 .. n |-> new[k]]
      BY <1>3 DEF Mark
    <2> HIDE DEF new
    <2> QED BY <1>3, <1>4, <2>1, <2>2
  <1> HIDE DEF new
  <1>7. \A k \in 1 .. n : new[k].pid = pipe[k].pid
    BY <1>5
  <1>8. PidsIn(new) = PidsIn(pipe)
    BY <1>3, <1>4, <1>7 DEF PidsIn
  <1>9. OneEach(new)
    BY <1>1, <1>3, <1>4, <1>7 DEF OneEach
  <1>10. LiveOK(new, kd2)
    <2> SUFFICES ASSUME NEW k \in 1 .. n
                 PROVE  IF new[k].pid = 0 THEN ~new[k].running
                        ELSE new[k].running <=> kd2[new[k].pid] # "none"
      BY <1>4 DEF LiveOK
    <2>1. pipe[k].pid \in Pids \cup {0}
      BY <1>3 DEF Proc
    <2>2. IF pipe[k].pid = 0 THEN ~pipe[k].running ELSE pipe[k].running <=> kd[pipe[k].pid] # "none"
      BY <1>1, <1>3 DEF LiveOK
    <2>3. CASE pipe[k].pid = q
      <3>1. new[k].running = FALSE /\ new[k].pid = q /\ kd2[q] = "none"
        BY <1>5, <2>3
      <3> QED BY <1>2, <3>1
    <2>4. CASE pipe[k].pid # q
      <3>1. new[k] = pipe[k] /\ (pipe[k].pid # 0 => kd2[pipe[k].pid] = kd[pipe[k].pid])
        BY <1>5, <2>1, <2>4
      <3> QED BY <2>2, <3>1
    <2> QED BY <2>3, <2>4
  <1>11. Len(new) = n
    BY <1>3, <1>4, <1>6
  <1>12. pipe # <<>> => n \in 1 .. n
    BY <1>1, <1>3
  <1>13. pipe # <<>> => new # <<>> /\ LastOf(new).pid = LastOf(pipe).pid
    BY <1>3, <1>4, <1>7, <1>11, <1>12 DEF LastOf
  <1>14. ToldOK(new, kd2, cd2, tl, an)
    <2> SUFFICES ASSUME NEW p \in PidsIn(pipe)
                 PROVE  /\ tl[p] = IF LastOf(new).pid = 0 THEN NoPid ELSE LastOf(new).pid
                        /\ ~LastOf(new).running => an[p] = LastOf(new).status
                        /\ LastOf(new).running /\ kd2[LastOf(new).pid] = "zombie" =>
                             an[p] = cd2[LastOf(new).pid]
      BY <1>8 DEF ToldOK
    <2> DEFINE last == LastOf(pipe)
    <2>1. pipe # <<>>
      BY DEF PidsIn
    <2>2. LastOf(new) = IF last.pid = q THEN [pid |-> q, running |-> FALSE, status |-> cd[q]]
                        ELSE last
      BY <1>5, <1>11, <1>12, <2>1 DEF LastOf
    <2>3. tl[p] = IF LastOf(new).pid = 0 THEN NoPid ELSE LastOf(new).pid
      BY <1>1, <1>13, <2>1 DEF ToldOK
    <2>4. (~last.running => an[p] = last.status)
          /\ (last.running /\ kd[last.pid] = "zombie" => an[p] = cd[last.pid])
      BY <1>1 DEF ToldOK
    <2>5. last \in Proc /\ (last.pid = q => last.running) /\ (last.running => last.pid # 0)
      BY <1>1, <1>2, <1>3, <1>12, <2>1 DEF LastOf, LiveOK
    <2>6. last.running => last.pid \in Pids
      BY <2>5 DEF Proc
    <2> HIDE DEF last
    <2>7. CASE last.pid = q
      BY <2>2, <2>3, <2>4, <2>5, <2>7
    <2>8. CASE last.pid # q
      <3>1. LastOf(new) = last
        BY <2>2, <2>8
      <3>2. last.running => kd2[last.pid] = kd[last.pid] /\ cd2[last.pid] = cd[last.pid]
        BY <2>6, <2>8
      <3> QED BY <2>3, <2>4, <3>1, <3>2
    <2> QED BY <2>7, <2>8
  <1>15. PipeOK(new, kd2, cd2, tl, an)
    BY <1>6, <1>9, <1>10, <1>14 DEF PipeOK
  <1> QED BY <1>3, <1>4, <1>7, <1>8, <1>13, <1>15 DEF new

\* waitchld, for the pipeline being made and all jobs.
LEMMA MarkCore ==
  ASSUME NEW js, NEW pipe, NEW list, NEW kd, NEW cd, NEW tl, NEW an, NEW kn, NEW dis,
         Core(js, pipe, list, kd, cd, tl, an, kn, dis),
         NEW q \in Pids, NEW kd2, NEW cd2, KernelReap(q, kd, cd, kd2, cd2),
         NEW js2, MarkedTable(js2, js, q, cd[q])
  PROVE  Core(js2, Mark(pipe, q, cd[q]), list, kd2, cd2, tl, an, kn, dis)
  <1> DEFINE pipe2 == Mark(pipe, q, cd[q])
  <1>0. /\ \A p \in Pids : kd2[p] = IF p = q THEN "none" ELSE kd[p]
        /\ IsTable(js2) /\ DOMAIN js2 = DOMAIN js
        /\ \A s \in DOMAIN js : /\ js2[s].pipe = Mark(js[s].pipe, q, cd[q])
                                /\ js2[s].state = PipeState(js2[s].pipe)
                                /\ js2[s].async = js[s].async
    BY DEF KernelReap, MarkedTable
  <1> USE <1>0
  <1>1. /\ TableOK(js, kd, cd, tl, an) /\ PipelineOK(js, pipe, kd, cd, tl, an)
        /\ SavedOK(list, js, pipe, kd, tl, an, dis) /\ KnownOK(js, pipe, list, kn)
        /\ ChildrenOK(js, pipe, kd, dis)
    BY DEF Core
  <1>2. ASSUME NEW s \in DOMAIN js
        PROVE  /\ JobOK(js2[s], kd2, cd2, tl, an)
               /\ PidsIn(js2[s].pipe) = PidsIn(js[s].pipe)
               /\ LastProc(js2[s]).pid = LastProc(js[s]).pid
               /\ PipeOK(js[s].pipe, kd, cd, tl, an)
    <2>1. JobOK(js[s], kd, cd, tl, an) /\ js2[s] \in Job
      BY <1>1 DEF TableOK, IsTable
    <2>2. PipeOK(js[s].pipe, kd, cd, tl, an) /\ js[s].pipe # <<>> /\ js[s] \in Job
      BY <2>1 DEF JobOK
    <2>3. /\ PipeOK(js2[s].pipe, kd2, cd2, tl, an) /\ js2[s].pipe # <<>>
          /\ PidsIn(js2[s].pipe) = PidsIn(js[s].pipe)
          /\ LastOf(js2[s].pipe).pid = LastOf(js[s].pipe).pid
      BY <2>2, MarkPipe
    <2>4. LastProc(js2[s]) = LastOf(js2[s].pipe) /\ LastProc(js[s]) = LastOf(js[s].pipe)
      BY <2>1, <2>2, <2>3, LastFacts
    <2> QED BY <2>1, <2>2, <2>3, <2>4 DEF JobOK
  <1>3. /\ PipeOK(pipe2, kd2, cd2, tl, an) /\ DOMAIN pipe2 = DOMAIN pipe
        /\ \A k \in DOMAIN pipe : pipe2[k].pid = pipe[k].pid
        /\ PidsIn(pipe2) = PidsIn(pipe)
    BY <1>1, MarkPipe DEF PipelineOK
  <1> HIDE DEF pipe2
  <1>4. TableOK(js2, kd2, cd2, tl, an)
    <2>1. Disjoint(js2)
      BY <1>1, <1>2 DEF TableOK, Disjoint
    <2> QED BY <1>2, <2>1 DEF TableOK
  <1>5. PipelineOK(js2, pipe2, kd2, cd2, tl, an)
    BY <1>1, <1>2, <1>3 DEF PipelineOK
  <1>6. SavedOK(list, js2, pipe2, kd2, tl, an, dis)
    <2>1. list \in Seq(Entry) /\ OneEach(list)
      BY <1>1 DEF SavedOK
    <2>2. ASSUME NEW k \in DOMAIN list, list[k].pid # 0
          PROVE  /\ list[k].pid \notin PidsIn(pipe2)
                 /\ \A s \in DOMAIN js2 : list[k].pid \notin PidsIn(js2[s].pipe)
                 /\ list[k].pid \notin dis =>
                      /\ an[list[k].pid] = list[k].status
                      /\ tl[list[k].pid] = list[k].pid
                      /\ kd2[list[k].pid] = "none"
      <3>1. list[k].pid \in Pids
        BY <2>1, <2>2, EntryPids
      <3>2. /\ list[k].pid \notin PidsIn(pipe)
            /\ \A s \in DOMAIN js : list[k].pid \notin PidsIn(js[s].pipe)
            /\ list[k].pid \notin dis =>
                      /\ an[list[k].pid] = list[k].status
                      /\ tl[list[k].pid] = list[k].pid
                      /\ kd[list[k].pid] = "none"
        BY <1>1, <2>2 DEF SavedOK
      <3>3. kd[list[k].pid] = "none" => kd2[list[k].pid] = "none"
        BY <3>1
      <3> QED BY <1>2, <1>3, <3>2, <3>3
    <2> QED BY <2>1, <2>2 DEF SavedOK
  <1>7. KnownOK(js2, pipe2, list, kn)
    BY <1>1, <1>2, <1>3 DEF KnownOK
  <1>8. ChildrenOK(js2, pipe2, kd2, dis)
    <2> SUFFICES ASSUME NEW p \in Pids, kd2[p] # "none", p \notin dis
                 PROVE  AliveIn(pipe2, p) \/ \E s \in DOMAIN js2 : AliveIn(js2[s].pipe, p)
      BY DEF ChildrenOK
    <2>1. kd[p] # "none"
      OBVIOUS
    <2>2. CASE AliveIn(pipe, p)
      <3>1. p \in PidsIn(pipe2)
        BY <1>1, <1>3, <2>2, AliveFacts DEF PipelineOK
      <3> QED BY <1>3, <3>1, AliveFacts
    <2>3. CASE \E s \in DOMAIN js : AliveIn(js[s].pipe, p)
      <3>1. PICK s \in DOMAIN js : AliveIn(js[s].pipe, p)
        BY <2>3
      <3>2. p \in PidsIn(js2[s].pipe)
        BY <1>2, <3>1, AliveFacts
      <3>3. AliveIn(js2[s].pipe, p)
        BY <1>2, <3>2, AliveFacts DEF JobOK
      <3> QED BY <3>3
    <2> QED BY <1>1, <2>1, <2>2, <2>3 DEF ChildrenOK
  <1> QED BY <1>4, <1>5, <1>6, <1>7, <1>8 DEF Core, pipe2

-----------------------------------------------------------------------------
(***************************************************************************)
(* The invariant when a child is made.                                     *)
(***************************************************************************)
Members(pipe, q) == {pipe[k].pid : k \in DOMAIN pipe} \cup {q}

\* The kernel and the history before and after the fork of q into pipe.
KernelFork(q, pipe, kd, tl, an, kd2, tl2, an2) ==
    /\ kd[q] = "none"
    /\ \A p \in Pids : kd2[p] = IF p = q THEN "runs" ELSE kd[p]
    /\ \A p \in Pids : tl2[p] = IF p \in Members(pipe, q) THEN q
                                ELSE IF tl[p] = q THEN NoPid ELSE tl[p]
    /\ \A p \in Pids : an2[p] = IF p \in Members(pipe, q) THEN NotYet ELSE an[p]

Zeroed(pipe, q) ==
    [k \in DOMAIN pipe |-> IF pipe[k].pid = q THEN [pipe[k] EXCEPT !.pid = 0] ELSE pipe[k]]

\* A process of a running job whose pid is reused has ended; it loses its pid.
LEMMA ZeroedPipe ==
  ASSUME NEW pipe, NEW kd, NEW cd, NEW tl, NEW an, PipeOK(pipe, kd, cd, tl, an),
         NEW q \in Pids, NEW making, NEW kd2, NEW tl2, NEW an2,
         KernelFork(q, making, kd, tl, an, kd2, tl2, an2),
         PidsIn(pipe) \cap PidsIn(making) = {}
  PROVE  /\ PipeOK(Zeroed(pipe, q), kd2, cd, tl2, an2)
         /\ DOMAIN Zeroed(pipe, q) = DOMAIN pipe
         /\ \A k \in DOMAIN pipe : /\ Zeroed(pipe, q)[k].running = pipe[k].running
                                   /\ Zeroed(pipe, q)[k].pid = IF pipe[k].pid = q THEN 0
                                                               ELSE pipe[k].pid
         /\ PidsIn(Zeroed(pipe, q)) = PidsIn(pipe) \ {q}
         /\ pipe # <<>> =>
              /\ Zeroed(pipe, q) # <<>>
              /\ LastOf(Zeroed(pipe, q)).pid = IF LastOf(pipe).pid = q THEN 0 ELSE LastOf(pipe).pid
  <1> DEFINE new == Zeroed(pipe, q)
             n == Len(pipe)
  <1>0. /\ kd[q] = "none"
        /\ \A p \in Pids : kd2[p] = IF p = q THEN "runs" ELSE kd[p]
        /\ \A p \in Pids : tl2[p] = IF p \in Members(making, q) THEN q
                                    ELSE IF tl[p] = q THEN NoPid ELSE tl[p]
        /\ \A p \in Pids : an2[p] = IF p \in Members(making, q) THEN NotYet ELSE an[p]
    BY DEF KernelFork
  <1>1. pipe \in Seq(Proc) /\ LiveOK(pipe, kd) /\ OneEach(pipe) /\ ToldOK(pipe, kd, cd, tl, an)
    BY DEF PipeOK
  <1>2. q # NoPid /\ q # 0 /\ NoPid # 0 /\ NoPid \notin Pids /\ 0 \notin Pids
    BY PidAssumption DEF NoPid
  <1>3. /\ n \in Nat /\ DOMAIN pipe = 1 .. n
        /\ \A k \in 1 .. n : pipe[k] \in Proc /\ pipe[k].pid \in Pids \cup {0}
    BY <1>1, PidsInPids
  <1>4. DOMAIN new = 1 .. n
    BY <1>3 DEF Zeroed
  <1>5. ASSUME NEW k \in 1 .. n
        PROVE  /\ new[k] \in Proc
               /\ new[k].pid = IF pipe[k].pid = q THEN 0 ELSE pipe[k].pid
               /\ new[k].running = pipe[k].running
               /\ new[k].status = pipe[k].status
    <2>1. pipe[k] \in Proc
      BY <1>3
    <2>2. new[k] = IF pipe[k].pid = q THEN [pipe[k] EXCEPT !.pid = 0] ELSE pipe[k]
      BY <1>3 DEF Zeroed
    <2> QED BY <2>1, <2>2 DEF Proc
  <1>6. new \in Seq(Proc) /\ Len(new) = n
    <2>1. new = [k \in 1 .. n |-> new[k]]
      BY <1>3 DEF Zeroed
    <2> HIDE DEF new
    <2>2. new \in Seq(Proc)
      BY <1>3, <1>4, <1>5, <2>1
    <2> QED BY <1>3, <1>4, <2>2
  <1> HIDE DEF new
  <1>7. PidsIn(new) = PidsIn(pipe) \ {q}
    <2>1. ASSUME NEW p PROVE p \in PidsIn(new) => p \in PidsIn(pipe) \ {q}
      <3> SUFFICES ASSUME p \in PidsIn(new) PROVE p \in PidsIn(pipe) \ {q}
        OBVIOUS
      <3>1. PICK k \in 1 .. n : new[k].pid = p
        BY <1>4 DEF PidsIn
      <3>2. p # 0
        BY DEF PidsIn
      <3>3. pipe[k].pid = p /\ p # q
        BY <1>5, <3>1, <3>2
      <3> QED BY <1>3, <3>2, <3>3 DEF PidsIn
    <2>2. ASSUME NEW p PROVE p \in PidsIn(pipe) \ {q} => p \in PidsIn(new)
      <3> SUFFICES ASSUME p \in PidsIn(pipe) \ {q} PROVE p \in PidsIn(new)
        OBVIOUS
      <3>1. PICK k \in 1 .. n : pipe[k].pid = p
        BY <1>3 DEF PidsIn
      <3>2. p # 0 /\ p # q
        BY DEF PidsIn
      <3>3. new[k].pid = p
        BY <1>5, <3>1, <3>2
      <3> QED BY <1>4, <3>2, <3>3 DEF PidsIn
    <2> QED BY <2>1, <2>2
  <1>8. OneEach(new)
    <2> SUFFICES ASSUME NEW k \in 1 .. n, NEW m \in 1 .. n, new[k].pid = new[m].pid, new[k].pid # 0
                 PROVE  k = m
      BY <1>4 DEF OneEach
    <2>1. pipe[k].pid = new[k].pid /\ pipe[m].pid = new[m].pid
      BY <1>5
    <2> QED BY <1>1, <1>3, <2>1 DEF OneEach
  <1>9. ASSUME NEW k \in 1 .. n
        PROVE  IF new[k].pid = 0 THEN ~new[k].running
               ELSE new[k].running <=> kd2[new[k].pid] # "none"
    <2>1. IF pipe[k].pid = 0 THEN ~pipe[k].running ELSE pipe[k].running <=> kd[pipe[k].pid] # "none"
      BY <1>1, <1>3 DEF LiveOK
    <2>2. CASE pipe[k].pid = q
      <3>1. new[k].pid = 0 /\ new[k].running = pipe[k].running
        BY <1>5, <2>2
      <3>2. ~pipe[k].running
        BY <1>0, <1>2, <2>1, <2>2
      <3> QED BY <3>1, <3>2
    <2>3. CASE pipe[k].pid # q
      <3>1. new[k].pid = pipe[k].pid /\ new[k].running = pipe[k].running
        BY <1>5, <2>3
      <3>2. pipe[k].pid # 0 => kd2[pipe[k].pid] = kd[pipe[k].pid]
        BY <1>0, <1>3, <2>3
      <3> QED BY <2>1, <3>1, <3>2
    <2> QED BY <2>2, <2>3
  <1>10. LiveOK(new, kd2)
    BY <1>4, <1>9 DEF LiveOK
  <1>11. pipe # <<>> =>
           /\ n \in 1 .. n /\ LastOf(pipe) = pipe[n] /\ LastOf(new) = new[n]
           /\ new # <<>>
    BY <1>1, <1>3, <1>4, <1>6 DEF LastOf
  <1>12. pipe # <<>> =>
           /\ LastOf(new).pid = IF LastOf(pipe).pid = q THEN 0 ELSE LastOf(pipe).pid
           /\ LastOf(new).running = LastOf(pipe).running
           /\ LastOf(new).status = LastOf(pipe).status
    BY <1>5, <1>11
  <1>13. ToldOK(new, kd2, cd, tl2, an2)
    <2> SUFFICES ASSUME NEW p \in PidsIn(pipe), p # q
                 PROVE  /\ tl2[p] = IF LastOf(new).pid = 0 THEN NoPid ELSE LastOf(new).pid
                        /\ ~LastOf(new).running => an2[p] = LastOf(new).status
                        /\ LastOf(new).running /\ kd2[LastOf(new).pid] = "zombie" =>
                             an2[p] = cd[LastOf(new).pid]
      BY <1>7 DEF ToldOK
    <2> DEFINE last == LastOf(pipe)
               last2 == LastOf(new)
    <2>1. pipe # <<>> /\ p \in Pids /\ p # 0
      BY <1>1, PidsInPids DEF PidsIn
    <2>2. p \notin Members(making, q)
      BY <2>1 DEF Members, PidsIn
    <2>3. tl2[p] = (IF tl[p] = q THEN NoPid ELSE tl[p]) /\ an2[p] = an[p]
      BY <1>0, <2>1, <2>2
    <2>4. /\ tl[p] = IF last.pid = 0 THEN NoPid ELSE last.pid
          /\ ~last.running => an[p] = last.status
          /\ last.running /\ kd[last.pid] = "zombie" => an[p] = cd[last.pid]
      BY <1>1 DEF ToldOK
    <2>5. /\ last2.pid = IF last.pid = q THEN 0 ELSE last.pid
          /\ last2.running = last.running
          /\ last2.status = last.status
          /\ last2.running => last2.pid # 0
      BY <1>9, <1>11, <1>12, <2>1
    <2>6. last.pid \in Pids \cup {0}
      BY <1>3, <1>11, <2>1
    <2> HIDE DEF last, last2
    <2>7. tl2[p] = IF last2.pid = 0 THEN NoPid ELSE last2.pid
      <3>1. CASE last.pid = q
        BY <1>2, <2>3, <2>4, <2>5, <3>1
      <3>2. CASE last.pid # q
        BY <1>2, <2>3, <2>4, <2>5, <3>2
      <3> QED BY <3>1, <3>2
    <2>8. ~last2.running => an2[p] = last2.status
      BY <2>3, <2>4, <2>5
    <2>9. last2.running /\ kd2[last2.pid] = "zombie" => an2[p] = cd[last2.pid]
      <3> SUFFICES ASSUME last2.running, kd2[last2.pid] = "zombie" PROVE an2[p] = cd[last2.pid]
        OBVIOUS
      <3>1. last2.pid = last.pid /\ last.pid # q /\ last.pid \in Pids
        BY <2>5, <2>6
      <3>2. kd[last.pid] = "zombie"
        BY <1>0, <3>1
      <3> QED BY <2>3, <2>4, <2>5, <3>1, <3>2
    <2> QED BY <2>7, <2>8, <2>9 DEF last2
  <1>14. PipeOK(new, kd2, cd, tl2, an2)
    BY <1>6, <1>8, <1>10, <1>13 DEF PipeOK
  <1> QED BY <1>3, <1>4, <1>5, <1>7, <1>11, <1>12, <1>14 DEF new

\* The pipeline being made with one more process.
Longer(pipe, q) == Append(pipe, [pid |-> q, running |-> TRUE, status |-> 0])

\* The pipeline that is being made, with the new child.
LEMMA LongerPipe ==
  ASSUME NEW pipe, NEW kd, NEW cd, NEW tl, NEW an, PipeOK(pipe, kd, cd, tl, an),
         \A k \in DOMAIN pipe : pipe[k].pid \in Pids,
         NEW q \in Pids, q \notin PidsIn(pipe), NEW kd2, NEW tl2, NEW an2,
         KernelFork(q, pipe, kd, tl, an, kd2, tl2, an2)
  PROVE  LET new == Longer(pipe, q)
         IN  /\ PipeOK(new, kd2, cd, tl2, an2)
             /\ \A k \in DOMAIN new : new[k].pid \in Pids
             /\ PidsIn(new) = PidsIn(pipe) \cup {q}
             /\ \A k \in DOMAIN pipe : k \in DOMAIN new /\ new[k] = pipe[k]
             /\ AliveIn(new, q)
  <1> DEFINE n == Len(pipe)
             new == Longer(pipe, q)
             proc == [pid |-> q, running |-> TRUE, status |-> 0]
  <1>0. /\ kd[q] = "none"
        /\ \A p \in Pids : kd2[p] = IF p = q THEN "runs" ELSE kd[p]
        /\ \A p \in Pids : tl2[p] = IF p \in Members(pipe, q) THEN q
                                    ELSE IF tl[p] = q THEN NoPid ELSE tl[p]
        /\ \A p \in Pids : an2[p] = IF p \in Members(pipe, q) THEN NotYet ELSE an[p]
    BY DEF KernelFork
  <1>1. pipe \in Seq(Proc) /\ LiveOK(pipe, kd) /\ OneEach(pipe)
    BY DEF PipeOK
  <1>2. q # 0
    BY PidAssumption
  <1>3. proc \in Proc
    BY DEF Proc
  <1>4. n \in Nat /\ DOMAIN pipe = 1 .. n
    BY <1>1
  <1>5. /\ new \in Seq(Proc) /\ Len(new) = n + 1 /\ DOMAIN new = 1 .. n + 1
        /\ \A k \in 1 .. n : new[k] = pipe[k]
        /\ new[n + 1] = proc
    BY <1>1, <1>3, AppendProperties DEF Longer
  <1>6. proc.pid = q /\ proc.running
    OBVIOUS
  <1> HIDE DEF proc, n, new
  <1>7. ASSUME NEW k \in 1 .. n + 1
        PROVE  (k \in 1 .. n /\ new[k] = pipe[k]) \/ (k = n + 1 /\ new[k] = proc)
    BY <1>4, <1>5
  <1>8. n + 1 \in 1 .. n + 1 /\ \A k \in 1 .. n : k \in 1 .. n + 1
    BY <1>4
  <1>9. ASSUME NEW k \in 1 .. n
        PROVE  pipe[k].pid \in Pids /\ pipe[k].pid # q /\ pipe[k].pid # 0
    <2>1. pipe[k].pid \in Pids /\ pipe[k].pid # 0
      BY <1>4, PidAssumption
    <2> QED BY <1>4, <2>1 DEF PidsIn
  <1>10. PidsIn(new) = PidsIn(pipe) \cup {q}
    <2>1. {new[k].pid : k \in 1 .. n + 1} = {pipe[k].pid : k \in 1 .. n} \cup {q}
      BY <1>5, <1>6, <1>7, <1>8
    <2> QED BY <1>2, <1>4, <1>5, <2>1 DEF PidsIn
  <1>11. LastOf(new) = proc /\ new # <<>>
    BY <1>4, <1>5, <1>8 DEF LastOf
  <1>12. OneEach(new)
    <2> SUFFICES ASSUME NEW k \in 1 .. n + 1, NEW m \in 1 .. n + 1, new[k].pid = new[m].pid,
                        new[k].pid # 0
                 PROVE  k = m
      BY <1>5 DEF OneEach
    <2>1. CASE k \in 1 .. n /\ m \in 1 .. n
      BY <1>1, <1>4, <1>5, <2>1 DEF OneEach
    <2>2. CASE k = n + 1 \/ m = n + 1
      <3>1. ASSUME NEW j \in 1 .. n + 1, new[j].pid = q PROVE j = n + 1
        BY <1>5, <1>7, <1>9, <3>1
      <3>2. new[k].pid = q
        BY <1>5, <1>6, <2>2
      <3>3. k = n + 1 /\ m = n + 1
        BY <3>1, <3>2
      <3> QED BY <3>3
    <2> QED BY <1>7, <2>1, <2>2
  <1>13. LiveOK(new, kd2)
    <2> SUFFICES ASSUME NEW k \in 1 .. n + 1
                 PROVE  IF new[k].pid = 0 THEN ~new[k].running
                        ELSE new[k].running <=> kd2[new[k].pid] # "none"
      BY <1>5 DEF LiveOK
    <2>1. CASE k \in 1 .. n /\ new[k] = pipe[k]
      <3>1. pipe[k].running <=> kd[pipe[k].pid] # "none"
        BY <1>1, <1>4, <1>9, <2>1 DEF LiveOK
      <3>2. kd2[pipe[k].pid] = kd[pipe[k].pid]
        BY <1>0, <1>9, <2>1
      <3> QED BY <1>9, <2>1, <3>1, <3>2
    <2>2. CASE new[k] = proc
      <3>1. kd2[q] = "runs"
        BY <1>0
      <3> QED BY <1>2, <1>6, <2>2, <3>1
    <2> QED BY <1>7, <2>1, <2>2
  <1>14. ToldOK(new, kd2, cd, tl2, an2)
    <2> SUFFICES ASSUME NEW p \in PidsIn(pipe) \cup {q}
                 PROVE  tl2[p] = q /\ kd2[q] # "zombie"
      BY <1>2, <1>6, <1>10, <1>11 DEF ToldOK
    <2>1. p \in Pids /\ p \in Members(pipe, q)
      BY <1>1, PidsInPids DEF PidsIn, Members
    <2> QED BY <1>0, <2>1
  <1>15. PipeOK(new, kd2, cd, tl2, an2)
    BY <1>5, <1>12, <1>13, <1>14 DEF PipeOK
  <1>16. \A k \in DOMAIN new : new[k].pid \in Pids
    BY <1>5, <1>6, <1>7, <1>9
  <1>17. AliveIn(new, q)
    BY <1>5, <1>6, <1>8 DEF AliveIn
  <1>18. \A k \in DOMAIN pipe : k \in DOMAIN new /\ new[k] = pipe[k]
    BY <1>4, <1>5, <1>8
  <1> QED BY <1>10, <1>15, <1>16, <1>17, <1>18 DEF new

\* Its last process, and that it is in order if the others were.
LEMMA LongerLast ==
  ASSUME NEW pipe \in Seq(Proc), NEW q \in Pids
  PROVE  LET new == Longer(pipe, q)
         IN  /\ new # <<>> /\ LastOf(new).pid = q
             /\ \A k \in DOMAIN new :
                  (k \in DOMAIN pipe /\ new[k] = pipe[k]) \/ new[k].running
  <1> DEFINE new == Longer(pipe, q)
             n == Len(pipe)
  <1>1. n \in Nat /\ DOMAIN pipe = 1 .. n
    OBVIOUS
  <1>2. /\ Len(new) = n + 1 /\ DOMAIN new = 1 .. n + 1
        /\ \A k \in 1 .. n : new[k] = pipe[k]
        /\ new[n + 1] = [pid |-> q, running |-> TRUE, status |-> 0]
    BY DEF Longer
  <1> HIDE DEF new
  <1>3. LastOf(new).pid = q
    BY <1>2 DEF LastOf
  <1>4. new # <<>>
    BY <1>1, <1>2
  <1>5. ASSUME NEW k \in DOMAIN new
        PROVE  (k \in DOMAIN pipe /\ new[k] = pipe[k]) \/ new[k].running
    <2>1. k \in 1 .. n \/ k = n + 1
      BY <1>1, <1>2
    <2> QED BY <1>1, <1>2, <2>1
  <1> QED BY <1>3, <1>4, <1>5 DEF new

LEMMA FindFacts ==
  ASSUME NEW js, IsTable(js), NEW p
  PROVE  /\ FindJob(js, p) = NoJob <=> ~ \E s \in DOMAIN js : HasPid(js[s], p)
         /\ FindJob(js, p) # NoJob => FindJob(js, p) \in DOMAIN js /\ HasPid(js[FindJob(js, p)], p)
  <1> DEFINE found == {s \in DOMAIN js : HasPid(js[s], p)}
  <1>1. found \in SUBSET Nat
    BY DEF IsTable
  <1>2. CASE found = {}
    <2>1. FindJob(js, p) = NoJob
      BY <1>2 DEF FindJob
    <2> QED BY <1>2, <2>1
  <1>3. CASE found # {}
    <2>1. FindJob(js, p) = Min(found)
      BY <1>3 DEF FindJob
    <2>2. Min(found) \in found
      BY <1>1, <1>3, LeastElement
    <2>3. Min(found) # NoJob
      BY <1>1, <2>2 DEF NoJob
    <2> QED BY <2>1, <2>2, <2>3
  <1> QED BY <1>2, <1>3

\* A pid is found in one job only.
LEMMA FoundOnce ==
  ASSUME NEW js, Fits(js), NEW s \in DOMAIN js, NEW p, p # 0, HasPid(js[s], p)
  PROVE  FindJob(js, p) = s
  <1>1. FindJob(js, p) \in DOMAIN js /\ HasPid(js[FindJob(js, p)], p)
    BY FindFacts DEF Fits
  <1>2. \A t \in DOMAIN js : HasPid(js[t], p) => p \in PidsIn(js[t].pipe)
    BY DEF HasPid, PidsIn
  <1> QED BY <1>1, <1>2 DEF Fits, Disjoint

LEMMA ZeroedIdle ==
  ASSUME NEW pipe \in Seq(Proc), NEW q, \A k \in DOMAIN pipe : pipe[k].pid # q
  PROVE  Zeroed(pipe, q) = pipe
  <1> DEFINE new == Zeroed(pipe, q)
  <1>1. \A k \in DOMAIN pipe : new[k] = pipe[k]
    BY DEF Zeroed
  <1>2. new = [k \in DOMAIN pipe |-> new[k]]
    BY DEF Zeroed
  <1>3. pipe = [k \in DOMAIN pipe |-> pipe[k]]
    OBVIOUS
  <1> HIDE DEF new
  <1>4. new = pipe
    BY <1>1, <1>2, <1>3
  <1> QED BY <1>4 DEF new

\* delete_old_job takes the pid from the process that had it, or deletes its job.
LEMMA DeleteOldFacts ==
  ASSUME NEW js, Fits(js), NEW q \in Pids
  PROVE  LET new == DeleteOldJob(js, q)
         IN  /\ IsTable(new) /\ DOMAIN new \subseteq DOMAIN js
             /\ \A s \in DOMAIN new : /\ new[s].pipe = Zeroed(js[s].pipe, q)
                                      /\ new[s].state = js[s].state
                                      /\ new[s].async = js[s].async
             /\ \A s \in DOMAIN js \ DOMAIN new :
                  Dead(js[s]) /\ LastProc(js[s]).pid \in LostWith(js, q)
  <1> DEFINE new == DeleteOldJob(js, q)
             f == FindJob(js, q)
  <1>1. IsTable(js) /\ q # 0
    BY PidAssumption DEF Fits
  <1>2. \A s \in DOMAIN js : js[s] \in Job /\ js[s].pipe \in Seq(Proc)
    BY <1>1 DEF IsTable, Job
  <1>3. ASSUME NEW s \in DOMAIN js, s # f
        PROVE  js[s].pipe = Zeroed(js[s].pipe, q)
    <2>1. ~HasPid(js[s], q)
      BY <1>1, <1>3, FoundOnce
    <2> QED BY <1>2, <2>1, ZeroedIdle DEF HasPid
  <1>4. CASE f = NoJob
    <2>1. new = js
      BY <1>4 DEF DeleteOldJob
    <2>2. \A s \in DOMAIN js : s # f
      BY <1>1, <1>4 DEF IsTable, NoJob
    <2> HIDE DEF new, f
    <2> QED BY <1>1, <1>3, <2>1, <2>2 DEF new
  <1>5. CASE f # NoJob /\ Dead(js[f])
    <2>1. new = Without(js, {f})
      BY <1>5 DEF DeleteOldJob
    <2>2. SubTable(new, js) /\ DOMAIN new = DOMAIN js \ {f}
      BY <1>1, <2>1, WithoutIsSub
    <2>3. LostWith(js, q) = {LastProc(js[f]).pid}
      BY <1>5 DEF LostWith
    <2> HIDE DEF new, f
    <2>4. ASSUME NEW s \in DOMAIN new
          PROVE  /\ new[s].pipe = Zeroed(js[s].pipe, q)
                 /\ new[s].state = js[s].state
                 /\ new[s].async = js[s].async
      BY <1>3, <2>2 DEF SubTable
    <2>5. \A s \in DOMAIN js \ DOMAIN new : Dead(js[s]) /\ LastProc(js[s]).pid \in LostWith(js, q)
      BY <1>5, <2>2, <2>3
    <2>6. IsTable(new)
      BY <2>2 DEF SubTable
    <2> QED BY <2>2, <2>4, <2>5, <2>6 DEF new
  <1>6. CASE f # NoJob /\ ~Dead(js[f])
    <2>1. f \in DOMAIN js
      BY <1>1, <1>6, FindFacts
    <2>2. new = [js EXCEPT ![f].pipe =
                   [k \in DOMAIN @ |-> IF @[k].pid = q THEN [@[k] EXCEPT !.pid = 0] ELSE @[k]]]
      BY <1>6 DEF DeleteOldJob
    <2>3. new = [js EXCEPT ![f] = [js[f] EXCEPT !.pipe = Zeroed(js[f].pipe, q)]]
      BY <2>2 DEF Zeroed
    <2>4. Zeroed(js[f].pipe, q) \in Seq(Proc)
      <3> DEFINE pipe == js[f].pipe
                 zeroed == Zeroed(pipe, q)
      <3>1. pipe \in Seq(Proc) /\ Len(pipe) \in Nat /\ DOMAIN pipe = 1 .. Len(pipe)
        BY <1>2, <2>1
      <3>2. ASSUME NEW k \in 1 .. Len(pipe) PROVE zeroed[k] \in Proc
        <4>1. pipe[k] \in Proc
          BY <3>1
        <4>2. zeroed[k] = IF pipe[k].pid = q THEN [pipe[k] EXCEPT !.pid = 0] ELSE pipe[k]
          BY <3>1 DEF Zeroed
        <4> QED BY <4>1, <4>2 DEF Proc
      <3>3. zeroed = [k \in 1 .. Len(pipe) |-> zeroed[k]]
        BY <3>1 DEF Zeroed
      <3> HIDE DEF pipe, zeroed
      <3>4. zeroed \in Seq(Proc)
        BY <3>1, <3>2, <3>3
      <3> QED BY <3>4 DEF zeroed, pipe
    <2> DEFINE z == Zeroed(js[f].pipe, q)
               job == [js[f] EXCEPT !.pipe = z]
    <2>5. js[f] \in Job
      BY <1>2, <2>1
    <2> HIDE DEF new, f, z
    <2>6. job \in Job /\ job.pipe = z /\ job.state = js[f].state /\ job.async = js[f].async
      BY <2>4, <2>5 DEF Job, z
    <2> HIDE DEF job
    <2>7. new = [js EXCEPT ![f] = job]
      BY <2>3 DEF job, z
    <2>8. DOMAIN new = DOMAIN js /\ new[f] = job /\ \A s \in DOMAIN js : s # f => new[s] = js[s]
      BY <2>1, <2>7
    <2>9. IsTable(new)
      BY <1>1, <2>1, <2>6, <2>7, <2>8 DEF IsTable
    <2>10. ASSUME NEW s \in DOMAIN js
           PROVE  /\ new[s].pipe = Zeroed(js[s].pipe, q)
                  /\ new[s].state = js[s].state
                  /\ new[s].async = js[s].async
      BY <1>3, <2>6, <2>8 DEF z
    <2> QED BY <2>8, <2>9, <2>10 DEF new
  <1> QED BY <1>4, <1>5, <1>6

\* make_child, with delete_old_job and bgp_delete.
LEMMA MakeCore ==
  ASSUME NEW js, NEW pipe, NEW list, NEW kd, NEW cd, NEW tl, NEW an, NEW kn, NEW dis,
         Core(js, pipe, list, kd, cd, tl, an, kn, dis),
         NEW q \in Pids, \A k \in DOMAIN pipe : pipe[k].pid # q,
         NEW kd2, NEW tl2, NEW an2, KernelFork(q, pipe, kd, tl, an, kd2, tl2, an2)
  PROVE  Core(DeleteOldJob(js, q), Longer(pipe, q),
              Saved!Without(list, q), kd2, cd, tl2, an2,
              kn \ ({q} \cup LostWith(js, q)), dis \ {q})
  <1> DEFINE new == DeleteOldJob(js, q)
             pipe2 == Longer(pipe, q)
             list2 == Saved!Without(list, q)
             kn2 == kn \ ({q} \cup LostWith(js, q))
             dis2 == dis \ {q}
  <1>0. q # NoPid /\ q # 0 /\ 0 \notin Pids
    BY PidAssumption
  <1>1. /\ TableOK(js, kd, cd, tl, an) /\ PipelineOK(js, pipe, kd, cd, tl, an)
        /\ SavedOK(list, js, pipe, kd, tl, an, dis) /\ KnownOK(js, pipe, list, kn)
        /\ ChildrenOK(js, pipe, kd, dis)
    BY DEF Core
  <1>2. Fits(js)
    BY <1>1, TableFits
  <1>3. /\ kd[q] = "none"
        /\ \A p \in Pids : kd2[p] = IF p = q THEN "runs" ELSE kd[p]
        /\ \A p \in Pids : tl2[p] = IF p \in Members(pipe, q) THEN q
                                    ELSE IF tl[p] = q THEN NoPid ELSE tl[p]
        /\ \A p \in Pids : an2[p] = IF p \in Members(pipe, q) THEN NotYet ELSE an[p]
    BY DEF KernelFork
  <1>4. /\ IsTable(new) /\ DOMAIN new \subseteq DOMAIN js
        /\ \A s \in DOMAIN new : /\ new[s].pipe = Zeroed(js[s].pipe, q)
                                 /\ new[s].state = js[s].state
                                 /\ new[s].async = js[s].async
        /\ \A s \in DOMAIN js \ DOMAIN new : Dead(js[s]) /\ LastProc(js[s]).pid \in LostWith(js, q)
    BY <1>2, DeleteOldFacts
  <1>5. q \notin PidsIn(pipe)
    BY DEF PidsIn
  <1>6. /\ PipeOK(pipe2, kd2, cd, tl2, an2)
        /\ \A k \in DOMAIN pipe2 : pipe2[k].pid \in Pids
        /\ PidsIn(pipe2) = PidsIn(pipe) \cup {q}
        /\ \A k \in DOMAIN pipe : k \in DOMAIN pipe2 /\ pipe2[k] = pipe[k]
        /\ AliveIn(pipe2, q)
    BY <1>1, <1>5, LongerPipe DEF PipelineOK
  <1>7. list \in Seq(Entry) /\ OneEach(list)
    BY <1>1 DEF SavedOK
  <1>8. /\ list2 \in Seq(Entry) /\ OneEach(list2)
        /\ \A k \in DOMAIN list2 : \E j \in DOMAIN list : list2[k] = list[j]
        /\ \A j \in DOMAIN list : list[j].pid # q => \E k \in DOMAIN list2 : list2[k] = list[j]
        /\ \A k \in DOMAIN list2 : list2[k].pid # q
    BY <1>0, <1>7, WithoutFacts
  <1>9. kn2 \subseteq kn /\ q \notin kn2 /\ kn2 \cap LostWith(js, q) = {}
        /\ \A p \in kn : p # q /\ p \notin LostWith(js, q) => p \in kn2
    OBVIOUS
  <1>10. dis2 \subseteq dis /\ \A p \in dis : p # q => p \in dis2
    OBVIOUS
  <1> HIDE DEF new, pipe2, list2, kn2, dis2
  <1>11. ASSUME NEW s \in DOMAIN new
         PROVE  /\ JobOK(new[s], kd2, cd, tl2, an2)
                /\ PidsIn(new[s].pipe) = PidsIn(js[s].pipe) \ {q}
                /\ LastProc(new[s]).pid = IF LastProc(js[s]).pid = q THEN 0 ELSE LastProc(js[s]).pid
    <2>1. JobOK(js[s], kd, cd, tl, an) /\ js[s] \in Job /\ js[s].pipe # <<>> /\ new[s] \in Job
      BY <1>1, <1>4 DEF TableOK, IsTable, JobOK
    <2>2. PidsIn(js[s].pipe) \cap PidsIn(pipe) = {}
      BY <1>1, <1>4 DEF PipelineOK
    <2>3. new[s].pipe = Zeroed(js[s].pipe, q) /\ new[s].state = js[s].state
      BY <1>4
    <2>4. /\ PipeOK(new[s].pipe, kd2, cd, tl2, an2)
          /\ DOMAIN new[s].pipe = DOMAIN js[s].pipe
          /\ \A k \in DOMAIN js[s].pipe : new[s].pipe[k].running = js[s].pipe[k].running
          /\ PidsIn(new[s].pipe) = PidsIn(js[s].pipe) \ {q}
          /\ new[s].pipe # <<>>
          /\ LastOf(new[s].pipe).pid = IF LastOf(js[s].pipe).pid = q THEN 0 ELSE LastOf(js[s].pipe).pid
      BY <2>1, <2>2, <2>3, ZeroedPipe DEF JobOK
    <2>5. PipeState(new[s].pipe) = PipeState(js[s].pipe)
      BY <2>4 DEF PipeState
    <2>6. LastProc(new[s]) = LastOf(new[s].pipe) /\ LastProc(js[s]) = LastOf(js[s].pipe)
      BY <2>1, <2>4, LastFacts
    <2> QED BY <2>1, <2>3, <2>4, <2>5, <2>6 DEF JobOK
  <1>12. TableOK(new, kd2, cd, tl2, an2)
    <2>1. Disjoint(new)
      <3> SUFFICES ASSUME NEW s \in DOMAIN new, NEW t \in DOMAIN new, s # t
                   PROVE  PidsIn(new[s].pipe) \cap PidsIn(new[t].pipe) = {}
        BY DEF Disjoint
      <3>1. PidsIn(js[s].pipe) \cap PidsIn(js[t].pipe) = {}
        BY <1>1, <1>4 DEF TableOK, Disjoint
      <3>2. PidsIn(new[s].pipe) = PidsIn(js[s].pipe) \ {q}
        BY <1>11
      <3>3. PidsIn(new[t].pipe) = PidsIn(js[t].pipe) \ {q}
        BY <1>11
      <3> QED BY <3>1, <3>2, <3>3
    <2> QED BY <1>4, <1>11, <2>1 DEF TableOK
  <1>13. PipelineOK(new, pipe2, kd2, cd, tl2, an2)
    <2>1. ASSUME NEW s \in DOMAIN new PROVE PidsIn(new[s].pipe) \cap PidsIn(pipe2) = {}
      <3>1. PidsIn(js[s].pipe) \cap PidsIn(pipe) = {}
        BY <1>1, <1>4 DEF PipelineOK
      <3> QED BY <1>6, <1>11, <3>1
    <2> QED BY <1>6, <2>1 DEF PipelineOK
  <1>14. SavedOK(list2, new, pipe2, kd2, tl2, an2, dis2)
    <2>1. ASSUME NEW k \in DOMAIN list2, list2[k].pid # 0
          PROVE  /\ list2[k].pid \notin PidsIn(pipe2)
                 /\ \A s \in DOMAIN new : list2[k].pid \notin PidsIn(new[s].pipe)
                 /\ list2[k].pid \notin dis2 =>
                      /\ an2[list2[k].pid] = list2[k].status
                      /\ tl2[list2[k].pid] = list2[k].pid
                      /\ kd2[list2[k].pid] = "none"
      <3> DEFINE e == list2[k]
      <3>1. PICK j \in DOMAIN list : e = list[j]
        BY <1>8
      <3>2. e.pid \in Pids /\ e.pid # q /\ e.pid # 0
        BY <1>8, <2>1, EntryPids
      <3>3. /\ e.pid \notin PidsIn(pipe)
            /\ \A s \in DOMAIN js : e.pid \notin PidsIn(js[s].pipe)
            /\ e.pid \notin dis => an[e.pid] = e.status /\ tl[e.pid] = e.pid /\ kd[e.pid] = "none"
        BY <1>1, <3>1, <3>2 DEF SavedOK
      <3> HIDE DEF e
      <3>4. e.pid \notin PidsIn(pipe2)
        BY <1>6, <3>2, <3>3
      <3>5. \A s \in DOMAIN new : e.pid \notin PidsIn(new[s].pipe)
        BY <1>4, <1>11, <3>3
      <3>6. ASSUME e.pid \notin dis2
            PROVE  an2[e.pid] = e.status /\ tl2[e.pid] = e.pid /\ kd2[e.pid] = "none"
        <4>1. e.pid \notin dis
          BY <1>10, <3>2, <3>6
        <4>2. e.pid \notin Members(pipe, q)
          BY <3>2, <3>3 DEF Members, PidsIn
        <4> QED BY <1>3, <3>2, <3>3, <4>1, <4>2
      <3> QED BY <3>4, <3>5, <3>6 DEF e
    <2> QED BY <1>8, <2>1 DEF SavedOK
  <1>15. KnownOK(new, pipe2, list2, kn2)
    <2>1. kn \subseteq Pids /\ kn \cap PidsIn(pipe) = {}
      BY <1>1 DEF KnownOK
    <2>2. kn2 \subseteq Pids /\ kn2 \cap PidsIn(pipe2) = {}
      BY <1>6, <1>9, <2>1
    <2>3. ASSUME NEW p \in kn2
          PROVE  \/ \E s \in DOMAIN new : LastProc(new[s]).pid = p
                 \/ \E k \in DOMAIN list2 : list2[k].pid = p
      <3>1. p \in kn /\ p # q /\ p \notin LostWith(js, q)
        BY <1>9
      <3>2. CASE \E s \in DOMAIN js : LastProc(js[s]).pid = p
        <4>1. PICK s \in DOMAIN js : LastProc(js[s]).pid = p
          BY <3>2
        <4>2. s \in DOMAIN new
          BY <1>4, <3>1, <4>1
        <4> QED BY <1>11, <3>1, <4>1, <4>2
      <3>3. CASE \E k \in DOMAIN list : list[k].pid = p
        BY <1>8, <3>1, <3>3
      <3> QED BY <1>1, <3>1, <3>2, <3>3 DEF KnownOK
    <2>4. ASSUME NEW s \in DOMAIN new, LastProc(new[s]).pid \in kn2
          PROVE  new[s].async
      <3>1. s \in DOMAIN js /\ new[s].async = js[s].async
        BY <1>4
      <3>2. LastProc(js[s]).pid \in kn
        BY <1>0, <1>9, <1>11, <2>2, <2>4
      <3> QED BY <1>1, <3>1, <3>2 DEF KnownOK
    <2> QED BY <2>2, <2>3, <2>4 DEF KnownOK
  <1>16. ChildrenOK(new, pipe2, kd2, dis2)
    <2> SUFFICES ASSUME NEW p \in Pids, kd2[p] # "none", p \notin dis2
                 PROVE  AliveIn(pipe2, p) \/ \E s \in DOMAIN new : AliveIn(new[s].pipe, p)
      BY DEF ChildrenOK
    <2>1. CASE p = q
      BY <1>6, <2>1
    <2>2. CASE p # q /\ AliveIn(pipe, p)
      BY <1>6, <2>2 DEF AliveIn
    <2>3. CASE p # q /\ \E s \in DOMAIN js : AliveIn(js[s].pipe, p)
      <3>1. PICK s \in DOMAIN js : AliveIn(js[s].pipe, p)
        BY <2>3
      <3>2. JobOK(js[s], kd, cd, tl, an)
        BY <1>1 DEF TableOK
      <3>3. ~Dead(js[s])
        BY <3>1, <3>2, DeadFacts DEF AliveIn
      <3>4. s \in DOMAIN new
        BY <1>4, <3>3
      <3>5. p \in PidsIn(js[s].pipe)
        BY <3>1, <3>2, AliveFacts DEF JobOK
      <3>6. p \in PidsIn(new[s].pipe)
        BY <1>11, <2>3, <3>4, <3>5
      <3>7. AliveIn(new[s].pipe, p)
        BY <1>11, <3>4, <3>6, AliveFacts DEF JobOK
      <3> QED BY <3>4, <3>7
    <2>4. p # q => kd[p] # "none" /\ p \notin dis
      BY <1>3, <1>10
    <2> QED BY <1>1, <2>1, <2>2, <2>3, <2>4 DEF ChildrenOK
  <1> QED BY <1>12, <1>13, <1>14, <1>15, <1>16 DEF Core, new, pipe2, list2, kn2, dis2

-----------------------------------------------------------------------------
(***************************************************************************)
(* The invariant when the pipeline becomes a job.                          *)
(***************************************************************************)
Joined(js, slot, pipe, async) ==
    [s \in DOMAIN js \cup {slot} |-> IF s = slot THEN NewJob(pipe, async) ELSE js[s]]

\* stop_pipeline: the pipeline becomes a job.
LEMMA MoveCore ==
  ASSUME NEW js, NEW pipe, NEW list, NEW kd, NEW cd, NEW tl, NEW an, NEW kn, NEW dis,
         Core(js, pipe, list, kd, cd, tl, an, kn, dis), pipe # <<>>,
         NEW slot \in Nat, slot \notin DOMAIN js, NEW async \in BOOLEAN,
         NEW learn, learn = IF async THEN {LastOf(pipe).pid} ELSE {}
  PROVE  Core(Joined(js, slot, pipe, async), <<>>, list, kd, cd, tl, an, kn \cup learn, dis)
  <1> DEFINE job == NewJob(pipe, async)
             new == Joined(js, slot, pipe, async)
             kn2 == kn \cup learn
  <1>1. /\ TableOK(js, kd, cd, tl, an) /\ PipelineOK(js, pipe, kd, cd, tl, an)
        /\ SavedOK(list, js, pipe, kd, tl, an, dis) /\ KnownOK(js, pipe, list, kn)
        /\ ChildrenOK(js, pipe, kd, dis)
    BY DEF Core
  <1>2. /\ IsTable(js) /\ PipeOK(pipe, kd, cd, tl, an) /\ pipe \in Seq(Proc)
        /\ \A k \in DOMAIN pipe : pipe[k].pid \in Pids
    BY <1>1 DEF TableOK, PipelineOK, PipeOK
  <1>3. /\ job \in Job /\ job.pipe = pipe /\ job.state = PipeState(pipe) /\ job.async = async
    <2>1. PipeState(pipe) \in {"running", "dead"}
      BY DEF PipeState
    <2> QED BY <1>2, <2>1 DEF NewJob, Job
  <1>4. JobOK(job, kd, cd, tl, an)
    BY <1>2, <1>3 DEF JobOK
  <1> HIDE DEF job
  <1>5. DOMAIN new = DOMAIN js \cup {slot} /\ new[slot] = job
        /\ \A s \in DOMAIN js : new[s] = js[s]
    BY DEF Joined, job
  <1>6. IsTable(new)
    <2>1. new \in [DOMAIN new -> Job]
      BY <1>2, <1>3 DEF IsTable, Joined, job
    <2>2. IsFiniteSet(DOMAIN js \cup {slot})
      BY <1>2, FS_AddElement DEF IsTable
    <2> HIDE DEF new
    <2> QED BY <1>2, <1>5, <2>1, <2>2 DEF IsTable
  <1> HIDE DEF new
  <1>7. ASSUME NEW s \in DOMAIN js PROVE PidsIn(new[s].pipe) \cap PidsIn(pipe) = {}
    BY <1>1, <1>5 DEF PipelineOK
  <1>8. TableOK(new, kd, cd, tl, an)
    <2>1. \A s \in DOMAIN new : JobOK(new[s], kd, cd, tl, an)
      BY <1>1, <1>4, <1>5 DEF TableOK
    <2>2. Disjoint(new)
      <3> SUFFICES ASSUME NEW s \in DOMAIN new, NEW t \in DOMAIN new, s # t
                   PROVE  PidsIn(new[s].pipe) \cap PidsIn(new[t].pipe) = {}
        BY DEF Disjoint
      <3>1. CASE s \in DOMAIN js /\ t \in DOMAIN js
        BY <1>1, <1>5, <3>1 DEF TableOK, Disjoint
      <3>2. CASE s = slot /\ t \in DOMAIN js
        BY <1>3, <1>5, <1>7, <3>2
      <3>3. CASE s \in DOMAIN js /\ t = slot
        BY <1>3, <1>5, <1>7, <3>3
      <3> QED BY <1>5, <3>1, <3>2, <3>3
    <2> QED BY <1>6, <2>1, <2>2 DEF TableOK
  <1>9. PipelineOK(new, <<>>, kd, cd, tl, an)
    <2>1. <<>> \in Seq(Proc) /\ DOMAIN <<>> = {}
      OBVIOUS
    <2>2. PidsIn(<<>>) = {}
      BY <2>1 DEF PidsIn
    <2>3. PipeOK(<<>>, kd, cd, tl, an)
      BY <2>1, <2>2 DEF PipeOK, LiveOK, OneEach, ToldOK
    <2> QED BY <2>1, <2>2, <2>3 DEF PipelineOK
  <1>10. DOMAIN <<>> = {} /\ PidsIn(<<>>) = {}
    BY DEF PidsIn
  <1>11. SavedOK(list, new, <<>>, kd, tl, an, dis)
    <2>1. ASSUME NEW k \in DOMAIN list, list[k].pid # 0, NEW s \in DOMAIN new
          PROVE  list[k].pid \notin PidsIn(new[s].pipe)
      <3>1. CASE s = slot
        BY <1>1, <1>3, <1>5, <2>1, <3>1 DEF SavedOK
      <3>2. CASE s \in DOMAIN js
        BY <1>1, <1>5, <2>1, <3>2 DEF SavedOK
      <3> QED BY <1>5, <3>1, <3>2
    <2> QED BY <1>1, <1>10, <2>1 DEF SavedOK
  <1>12. LastProc(job) = LastOf(pipe) /\ LastOf(pipe).pid \in Pids /\ LastOf(pipe).pid \in PidsIn(pipe)
    <2>1. LastProc(job) = LastOf(pipe) /\ Len(pipe) \in DOMAIN pipe
      BY <1>3, LastFacts
    <2>2. LastOf(pipe).pid \in Pids /\ LastOf(pipe).pid # 0
      BY <1>2, <2>1, PidAssumption DEF LastOf
    <2> QED BY <2>1, <2>2 DEF PidsIn, LastOf
  <1>13. KnownOK(new, <<>>, list, kn2)
    <2>1. kn \subseteq Pids /\ kn \cap PidsIn(pipe) = {}
      BY <1>1 DEF KnownOK
    <2>2. kn2 \subseteq Pids
      BY <1>12, <2>1
    <2>3. ASSUME NEW p \in kn2
          PROVE  \/ \E s \in DOMAIN new : LastProc(new[s]).pid = p
                 \/ \E k \in DOMAIN list : list[k].pid = p
      <3>1. CASE p \in kn
        BY <1>1, <1>5, <3>1 DEF KnownOK
      <3>2. CASE p = LastOf(pipe).pid
        BY <1>5, <1>12, <3>2
      <3> QED BY <3>1, <3>2
    <2>4. ASSUME NEW s \in DOMAIN new, LastProc(new[s]).pid \in kn2
          PROVE  new[s].async
      <3>1. CASE s = slot
        <4>1. LastOf(pipe).pid \notin kn
          BY <1>12, <2>1
        <4>2. async
          BY <1>5, <1>12, <2>4, <3>1, <4>1
        <4> QED BY <1>3, <1>5, <3>1, <4>2
      <3>2. CASE s \in DOMAIN js
        <4>1. js[s] \in Job /\ js[s].pipe # <<>> /\ new[s] = js[s]
          BY <1>1, <1>5, <3>2 DEF TableOK, JobOK
        <4>2. LastProc(js[s]).pid # 0 => LastProc(js[s]).pid \in PidsIn(js[s].pipe)
          BY <4>1, LastFacts
        <4>3. LastProc(js[s]).pid # LastOf(pipe).pid
          BY <1>7, <1>12, <3>2, <4>1, <4>2, PidAssumption
        <4>4. LastProc(js[s]).pid \in kn
          BY <2>4, <4>1, <4>3
        <4> QED BY <1>1, <3>2, <4>1, <4>4 DEF KnownOK
      <3> QED BY <1>5, <3>1, <3>2
    <2> QED BY <1>10, <2>2, <2>3, <2>4 DEF KnownOK
  <1>14. ChildrenOK(new, <<>>, kd, dis)
    <2> SUFFICES ASSUME NEW p \in Pids, kd[p] # "none", p \notin dis
                 PROVE  \E s \in DOMAIN new : AliveIn(new[s].pipe, p)
      BY DEF ChildrenOK
    <2> QED BY <1>1, <1>3, <1>5 DEF ChildrenOK
  <1> QED BY <1>8, <1>9, <1>11, <1>13, <1>14 DEF Core, new, job

\* The slot behind the last one is free.
LEMMA NewSlotIsNew ==
  ASSUME NEW js, IsTable(js)
  PROVE  NewSlot(js) \in Nat /\ NewSlot(js) \notin DOMAIN js
  <1>1. CASE DOMAIN js = {}
    BY <1>1 DEF NewSlot
  <1>2. CASE DOMAIN js # {}
    <2>1. DOMAIN js \in SUBSET Nat /\ IsFiniteSet(DOMAIN js)
      BY DEF IsTable
    <2>2. DOMAIN js \in SUBSET Int
      BY <2>1
    <2>3. Max(DOMAIN js) \in DOMAIN js /\ \A s \in DOMAIN js : s <= Max(DOMAIN js)
      BY <1>2, <2>1, <2>2, LargestElement
    <2>4. NewSlot(js) = Max(DOMAIN js) + 1
      BY <1>2 DEF NewSlot
    <2> QED BY <2>1, <2>3, <2>4
  <1> QED BY <1>1, <1>2

-----------------------------------------------------------------------------
(***************************************************************************)
(* Places.                                                                 *)
(***************************************************************************)
LEMMA PlaceAny ==
  ASSUME NEW at \in Places \ {"making", "called", "wait_for"}, NEW by \in Callers,
         NEW pid \in Pids \cup {0, NoPid}, NEW js, \A s \in DOMAIN js : js[s].async
  PROVE  PlaceOK(At(at, by, pid), js, <<>>)
  <1> DEFINE place == At(at, by, pid)
  <1>1. /\ place \in [at : Places, by : Callers, pid : Pids \cup {0, NoPid}]
        /\ place.at = at
    BY DEF At
  <1> HIDE DEF place
  <1>2. PlaceOK(place, js, <<>>)
    BY <1>1 DEF PlaceOK
  <1> QED BY <1>2 DEF place

LEMMA IdleIsPlace == Idle = At("idle", "none", NoPid)
  BY DEF Idle, At

\* No foreground job but while it is waited for.
LEMMA NoForeground ==
  ASSUME NEW place, NEW js, NEW pipe, PlaceOK(place, js, pipe),
         place.at \notin {"called", "wait_for"}
  PROVE  \A s \in DOMAIN js : js[s].async
  BY DEF PlaceOK

LEMMA PipeEmpty ==
  ASSUME NEW place, NEW js, NEW pipe, PlaceOK(place, js, pipe)
  PROVE  /\ pipe = <<>> <=> place.at # "making"
         /\ place.pid \in Pids \cup {0, NoPid} /\ place.at \in Places /\ place.by \in Callers
  BY DEF PlaceOK

LEMMA LenIn ==
  ASSUME NEW S, NEW s \in Seq(S), s # <<>> PROVE Len(s) \in DOMAIN s
  OBVIOUS

LEMMA NoPipeline ==
  ASSUME NEW place, NEW js, NEW pipe, PlaceOK(place, js, pipe), place.at # "making"
  PROVE  pipe = <<>> /\ DOMAIN pipe = {}
  <1>1. pipe = <<>>
    BY PipeEmpty
  <1> QED BY <1>1

\* Answers: none, a job's, a saved one, or that the pid is not known.
LEMMA NoAnswer ==
  ASSUME ret' = NoRet PROVE AnswersAreTrue'
  <1>1. ret'.by = "none"
    BY DEF NoRet
  <1> QED BY <1>1 DEF AnswersAreTrue

\* An answer for a pid of a dead job, and one from the saved statuses.
LEMMA JobAnswer ==
  ASSUME Inv, NEW s \in DOMAIN jobs, Dead(jobs[s]), NEW p, p = 0 \/ HasPid(jobs[s], p),
         NEW by, NEW asked, Report(by, p, asked, ExitStatus(jobs[s])),
         UNCHANGED answer, disowned \subseteq disowned'
  PROVE  AnswersAreTrue'
  <1>1. JobOK(jobs[s], kid, code, tail, answer)
    BY DEF Inv, Core, TableOK
  <1>2. p # 0 => p \in PidsIn(jobs[s].pipe)
    BY DEF HasPid, PidsIn
  <1>3. p # 0 => answer[p] = ExitStatus(jobs[s])
    BY <1>1, <1>2, DeadAnswer
  <1>4. ret'.pid = p /\ ret'.status = ExitStatus(jobs[s])
    BY DEF Report
  <1> QED BY <1>3, <1>4 DEF AnswersAreTrue

LEMMA SavedAnswer ==
  ASSUME Inv, NEW k \in DOMAIN saved, NEW by, NEW asked,
         Report(by, saved[k].pid, asked, saved[k].status), UNCHANGED <<answer, disowned>>
  PROVE  AnswersAreTrue'
  <1>1. SavedOK(saved, jobs, the_pipeline, kid, tail, answer, disowned)
    BY DEF Inv, Core
  <1>2. saved[k].pid \notin disowned \cup {0} => answer[saved[k].pid] = saved[k].status
    BY <1>1 DEF SavedOK
  <1>3. ret'.pid = saved[k].pid /\ ret'.status = saved[k].status
    BY DEF Report
  <1> QED BY <1>2, <1>3 DEF AnswersAreTrue

LEMMA UnknownAnswer ==
  ASSUME NEW by, NEW p, NEW asked, Report(by, p, asked, Unknown)
  PROVE  AnswersAreTrue'
  <1>1. ret'.status = Unknown
    BY DEF Report
  <1> QED BY <1>1 DEF AnswersAreTrue

-----------------------------------------------------------------------------
(***************************************************************************)
(* The steps.                                                              *)
(***************************************************************************)
LEMMA InvInit == Init => Inv
  <1> SUFFICES ASSUME Init PROVE Inv
    OBVIOUS
  <1>1. /\ jobs = <<>> /\ the_pipeline = <<>> /\ saved = <<>> /\ pc = Idle
        /\ kid = [p \in Pids |-> "none"] /\ code = [p \in Pids |-> 0]
        /\ tail = [p \in Pids |-> NoPid] /\ answer = [p \in Pids |-> NotYet]
        /\ known = {} /\ disowned = {} /\ ret = NoRet
        /\ posix \in BOOLEAN /\ last_asynchronous_pid = NoPid /\ forks = 0
    BY DEF Init
  <1>2. KernelOK
    BY <1>1, BoundAssumption DEF KernelOK
  <1>3. DOMAIN <<>> = {} /\ <<>> \in Seq(Proc) /\ <<>> \in Seq(Entry) /\ PidsIn(<<>>) = {}
        /\ <<>> \in [{} -> Job]
    BY DEF PidsIn
  <1>4. TableOK(<<>>, kid, code, tail, answer)
    <2>1. IsTable(<<>>)
      BY <1>3, FS_EmptySet DEF IsTable
    <2> QED BY <1>3, <2>1 DEF TableOK, Disjoint
  <1>5. PipelineOK(<<>>, <<>>, kid, code, tail, answer)
    BY <1>3 DEF PipelineOK, PipeOK, LiveOK, OneEach, ToldOK
  <1>6. SavedOK(<<>>, <<>>, <<>>, kid, tail, answer, disowned)
    BY <1>3 DEF SavedOK, OneEach
  <1>7. KnownOK(<<>>, <<>>, <<>>, {})
    BY <1>3 DEF KnownOK
  <1>8. ChildrenOK(<<>>, <<>>, kid, disowned)
    BY <1>1 DEF ChildrenOK
  <1>9. Core(jobs, the_pipeline, saved, kid, code, tail, answer, known, disowned)
    BY <1>1, <1>4, <1>5, <1>6, <1>7, <1>8 DEF Core
  <1>10. PlaceOK(pc, jobs, the_pipeline)
    <2>1. "idle" \in Places \ {"making", "called", "wait_for"} /\ "none" \in Callers
      BY DEF Places, Callers
    <2>2. PlaceOK(At("idle", "none", NoPid), <<>>, <<>>)
      BY <1>3, <2>1, PlaceAny
    <2> QED BY <1>1, <2>2, IdleIsPlace
  <1>11. AnswersAreTrue
    BY <1>1 DEF AnswersAreTrue, NoRet
  <1> QED BY <1>2, <1>9, <1>10, <1>11 DEF Inv

LEMMA StepExit ==
  ASSUME Inv, NEW q \in Pids, NEW st \in Statuses, Exit(q, st)
  PROVE  Inv'
  <1>1. /\ kid[q] = "runs" /\ kid' = [kid EXCEPT ![q] = "zombie"]
        /\ code' = [code EXCEPT ![q] = st]
        /\ answer' = [p \in Pids |-> IF tail[p] = q THEN st ELSE answer[p]]
        /\ ret' = NoRet
        /\ UNCHANGED <<posix, jobs, the_pipeline, saved, last_asynchronous_pid, pc,
                       forks, tail, known, disowned>>
    BY DEF Exit, shellVars
  <1>2. KernelOK
    BY DEF Inv
  <1>3. /\ kid \in [Pids -> {"none", "runs", "zombie"}] /\ code \in [Pids -> Statuses \cup {0}]
        /\ answer \in [Pids -> Statuses \cup {NotYet}]
    BY <1>2 DEF KernelOK
  <1>4. /\ kid' \in [Pids -> {"none", "runs", "zombie"}]
        /\ code' \in [Pids -> Statuses \cup {0}]
        /\ answer' \in [Pids -> Statuses \cup {NotYet}]
    BY <1>1, <1>3
  <1>5. KernelOK'
    BY <1>1, <1>2, <1>4 DEF KernelOK
  <1>6. KernelExit(q, st, kid, code, tail, answer, kid', code', answer')
    BY <1>1, <1>3 DEF KernelExit
  <1>7. Core(jobs, the_pipeline, saved, kid', code', tail, answer', known, disowned)
    BY <1>6, ExitCore DEF Inv
  <1>8. Core(jobs', the_pipeline', saved', kid', code', tail', answer', known', disowned')
    BY <1>1, <1>7
  <1>9. PlaceOK(pc', jobs', the_pipeline')
    BY <1>1 DEF Inv
  <1> QED BY <1>1, <1>5, <1>8, <1>9, NoAnswer DEF Inv

\* What reaping does, but for the place the shell is in.
LEMMA Reap ==
  ASSUME Inv, NEW q \in Pids, WaitChld(q)
  PROVE  /\ KernelOK' /\ AnswersAreTrue'
         /\ Core(jobs', the_pipeline', saved', kid', code', tail', answer', known', disowned')
         /\ \A place : /\ PlaceOK(place, jobs, the_pipeline)
                       /\ place.at = "making" => place.by \notin {"async pipe", "fg pipe"}
                       => PlaceOK(place, jobs', the_pipeline')
         /\ \A s \in DOMAIN jobs' : s \in DOMAIN jobs /\ jobs'[s].async = jobs[s].async
  <1> DEFINE st == code[q]
  <1>1. /\ kid[q] = "zombie" /\ kid' = [kid EXCEPT ![q] = "none"]
        /\ code' = [code EXCEPT ![q] = 0]
        /\ ret' = NoRet
        /\ UNCHANGED <<posix, saved, last_asynchronous_pid, forks, tail, answer, known, disowned>>
    BY DEF WaitChld
  <1>2. KernelOK
    BY DEF Inv
  <1>3. /\ kid \in [Pids -> {"none", "runs", "zombie"}] /\ code \in [Pids -> Statuses \cup {0}]
    BY <1>2 DEF KernelOK
  <1>4. KernelOK'
    <2>1. /\ kid' \in [Pids -> {"none", "runs", "zombie"}]
          /\ code' \in [Pids -> Statuses \cup {0}]
      BY <1>1, <1>3
    <2> QED BY <1>1, <1>2, <2>1 DEF KernelOK
  <1>5. Core(jobs, the_pipeline, saved, kid, code, tail, answer, known, disowned)
    BY DEF Inv
  <1>6. /\ TableOK(jobs, kid, code, tail, answer)
        /\ PipelineOK(jobs, the_pipeline, kid, code, tail, answer)
    BY <1>5 DEF Core
  <1>7. PipeOK(the_pipeline, kid, code, tail, answer) /\ the_pipeline \in Seq(Proc)
    BY <1>6 DEF PipelineOK, PipeOK
  <1>8. ASSUME NEW s \in DOMAIN jobs
        PROVE  /\ jobs[s] \in Job /\ jobs[s].pipe # <<>>
               /\ jobs[s].state = PipeState(jobs[s].pipe)
               /\ PipeOK(jobs[s].pipe, kid, code, tail, answer) /\ jobs[s].pipe \in Seq(Proc)
    BY <1>6 DEF TableOK, JobOK, PipeOK
  <1>9. the_pipeline' = Mark(the_pipeline, q, st)
    <2>1. CASE AliveIn(the_pipeline, q)
      BY <2>1 DEF WaitChld
    <2>2. CASE ~AliveIn(the_pipeline, q)
      <3>1. the_pipeline' = the_pipeline
        BY <2>2 DEF WaitChld
      <3>2. Mark(the_pipeline, q, st) = the_pipeline
        BY <1>7, <2>2, MarkIdle
      <3> QED BY <3>1, <3>2
    <2> QED BY <2>1, <2>2
  <1>10. KernelReap(q, kid, code, kid', code')
    BY <1>1, <1>3 DEF KernelReap
  <1>11. ASSUME NEW s \in DOMAIN jobs
         PROVE  /\ Mark(jobs[s].pipe, q, st) \in Seq(Proc)
                /\ DOMAIN Mark(jobs[s].pipe, q, st) = DOMAIN jobs[s].pipe
                /\ \A k \in DOMAIN jobs[s].pipe :
                     Mark(jobs[s].pipe, q, st)[k].pid = jobs[s].pipe[k].pid
                /\ Mark(jobs[s].pipe, q, st) # <<>>
                /\ LastOf(Mark(jobs[s].pipe, q, st)).pid = LastOf(jobs[s].pipe).pid
    <2>1. /\ PipeOK(Mark(jobs[s].pipe, q, st), kid', code', tail, answer)
          /\ DOMAIN Mark(jobs[s].pipe, q, st) = DOMAIN jobs[s].pipe
          /\ \A k \in DOMAIN jobs[s].pipe :
               Mark(jobs[s].pipe, q, st)[k].pid = jobs[s].pipe[k].pid
          /\ Mark(jobs[s].pipe, q, st) # <<>>
          /\ LastOf(Mark(jobs[s].pipe, q, st)).pid = LastOf(jobs[s].pipe).pid
      BY <1>8, <1>10, MarkPipe
    <2> QED BY <2>1 DEF PipeOK
  <1>12. /\ DOMAIN jobs' = DOMAIN jobs /\ jobs' \in [DOMAIN jobs -> Job]
         /\ \A s \in DOMAIN jobs : /\ jobs'[s].pipe = Mark(jobs[s].pipe, q, st)
                                   /\ jobs'[s].state = PipeState(jobs'[s].pipe)
                                   /\ jobs'[s].async = jobs[s].async
    <2>0. IsTable(jobs)
      BY <1>6 DEF TableOK
    <2>1. CASE AliveIn(the_pipeline, q)
      <3>1. jobs' = jobs
        BY <2>1 DEF WaitChld
      <3>2. q \in PidsIn(the_pipeline)
        BY <1>7, <2>1, AliveFacts
      <3>3. ASSUME NEW s \in DOMAIN jobs PROVE Mark(jobs[s].pipe, q, st) = jobs[s].pipe
        <4>1. q \notin PidsIn(jobs[s].pipe)
          BY <1>6, <3>2 DEF PipelineOK
        <4>2. ~AliveIn(jobs[s].pipe, q)
          BY <1>8, <4>1, AliveFacts
        <4> QED BY <1>8, <4>2, MarkIdle
      <3> QED BY <1>8, <2>0, <3>1, <3>3 DEF IsTable
    <2>2. CASE ~AliveIn(the_pipeline, q)
      <3>1. jobs' = [s \in DOMAIN jobs |->
                       IF AliveIn(jobs[s].pipe, q) THEN Reaped(jobs[s], q, st) ELSE jobs[s]]
        BY <2>2 DEF WaitChld
      <3>2. ASSUME NEW s \in DOMAIN jobs
            PROVE  /\ jobs'[s] \in Job
                   /\ jobs'[s].pipe = Mark(jobs[s].pipe, q, st)
                   /\ jobs'[s].state = PipeState(jobs'[s].pipe)
                   /\ jobs'[s].async = jobs[s].async
        <4>1. CASE AliveIn(jobs[s].pipe, q)
          <5> DEFINE pipe == Mark(jobs[s].pipe, q, st)
          <5>1. jobs'[s] = Reaped(jobs[s], q, st)
            BY <3>1, <4>1
          <5>2. jobs'[s] = [pipe |-> pipe, state |-> PipeState(pipe), async |-> jobs[s].async,
                            notified |-> FALSE]
            BY <5>1 DEF Reaped
          <5>3. pipe \in Seq(Proc) /\ jobs[s].async \in BOOLEAN
            BY <1>8, <1>11 DEF Job
          <5>4. PipeState(pipe) \in {"running", "dead"}
            BY DEF PipeState
          <5> HIDE DEF pipe
          <5>5. jobs'[s] \in Job
            BY <5>2, <5>3, <5>4 DEF Job
          <5>6. /\ jobs'[s].pipe = pipe /\ jobs'[s].state = PipeState(pipe)
                /\ jobs'[s].async = jobs[s].async
            BY <5>2
          <5> QED BY <5>5, <5>6 DEF pipe
        <4>2. CASE ~AliveIn(jobs[s].pipe, q)
          <5>1. jobs'[s] = jobs[s]
            BY <3>1, <4>2
          <5>2. Mark(jobs[s].pipe, q, st) = jobs[s].pipe
            BY <1>8, <4>2, MarkIdle
          <5> QED BY <1>8, <5>1, <5>2
        <4> QED BY <4>1, <4>2
      <3>3. DOMAIN jobs' = DOMAIN jobs
        BY <3>1
      <3>4. jobs' = [s \in DOMAIN jobs |-> jobs'[s]]
        BY <3>1
      <3>5. jobs' \in [DOMAIN jobs -> Job]
        BY <3>2, <3>4
      <3> QED BY <3>2, <3>3, <3>5
    <2> QED BY <2>1, <2>2
  <1> HIDE DEF st
  <1>13. MarkedTable(jobs', jobs, q, st)
    BY <1>6, <1>12 DEF TableOK, IsTable, MarkedTable
  <1>14. Core(jobs', the_pipeline', saved, kid', code', tail, answer, known, disowned)
    BY <1>1, <1>5, <1>9, <1>10, <1>13, MarkCore DEF st
  <1>15. Core(jobs', the_pipeline', saved', kid', code', tail', answer', known', disowned')
    BY <1>1, <1>14
  <1>16. /\ the_pipeline' # <<>> <=> the_pipeline # <<>>
         /\ the_pipeline # <<>> => LastOf(the_pipeline').pid = LastOf(the_pipeline).pid
    <2>1. /\ DOMAIN Mark(the_pipeline, q, st) = DOMAIN the_pipeline
          /\ the_pipeline # <<>> =>
               /\ Mark(the_pipeline, q, st) # <<>>
               /\ LastOf(Mark(the_pipeline, q, st)).pid = LastOf(the_pipeline).pid
      BY <1>7, <1>10, MarkPipe DEF st
    <2>2. the_pipeline = <<>> => the_pipeline' = <<>>
      <3>1. ~AliveIn(<<>>, q)
        BY DEF AliveIn
      <3> QED BY <1>7, <1>9, <3>1, MarkIdle
    <2> QED BY <1>9, <2>1, <2>2
  <1>17. ASSUME NEW s \in DOMAIN jobs
         PROVE  /\ LastProc(jobs'[s]).pid = LastProc(jobs[s]).pid
                /\ \A p : HasPid(jobs[s], p) => HasPid(jobs'[s], p)
    <2>1. jobs'[s] \in Job /\ jobs'[s].pipe # <<>>
      BY <1>11, <1>12
    <2>2. LastProc(jobs'[s]) = LastOf(jobs'[s].pipe) /\ LastProc(jobs[s]) = LastOf(jobs[s].pipe)
      BY <1>8, <2>1, LastFacts
    <2>3. \A p : HasPid(jobs[s], p) => HasPid(jobs'[s], p)
      BY <1>11, <1>12 DEF HasPid
    <2> QED BY <1>11, <1>12, <2>2, <2>3
  <1>18. ASSUME NEW place, PlaceOK(place, jobs, the_pipeline),
                place.at = "making" => place.by \notin {"async pipe", "fg pipe"}
         PROVE  PlaceOK(place, jobs', the_pipeline')
    <2>1. place.at = "making" =>
            /\ place.by \in {"async", "fg", "async pipe", "fg pipe"}
            /\ place.pid = LastOf(the_pipeline').pid
      BY <1>16, <1>18 DEF PlaceOK
    <2>2. the_pipeline' # <<>> <=> place.at = "making"
      BY <1>16, <1>18 DEF PlaceOK
    <2>3. place.at \in {"called", "wait_for"} =>
            place.pid # NoPid /\ \E s \in DOMAIN jobs' : HasPid(jobs'[s], place.pid)
      BY <1>12, <1>17, <1>18 DEF PlaceOK
    <2>4. \A s \in DOMAIN jobs' : ~jobs'[s].async =>
            /\ place.at \in {"called", "wait_for"} /\ place.by = "fg" /\ place.pid \in Pids
            /\ LastProc(jobs'[s]).pid = place.pid
      BY <1>12, <1>17, <1>18 DEF PlaceOK
    <2>5. place \in [at : Places, by : Callers, pid : Pids \cup {0, NoPid}]
      BY <1>18 DEF PlaceOK
    <2> QED BY <1>18, <2>1, <2>2, <2>3, <2>4, <2>5 DEF PlaceOK
  <1>19. \A s \in DOMAIN jobs' : s \in DOMAIN jobs /\ jobs'[s].async = jobs[s].async
    BY <1>12
  <1>20. AnswersAreTrue'
    BY <1>1, NoAnswer
  <1> QED BY <1>4, <1>15, <1>18, <1>19, <1>20

LEMMA StepHandler ==
  ASSUME Inv, NEW q \in Pids, Handler(q)
  PROVE  Inv'
  <1>1. WaitChld(q) /\ pc' = pc /\ (pc.at = "making" => pc.by \notin {"async pipe", "fg pipe"})
    BY DEF Handler, Unblocked
  <1>2. PlaceOK(pc, jobs', the_pipeline')
    BY <1>1, Reap DEF Inv
  <1> QED BY <1>1, <1>2, Reap DEF Inv

LEMMA StepReapBlocking ==
  ASSUME Inv, NEW q \in Pids, ReapBlocking(q)
  PROVE  Inv'
  <1>1. WaitChld(q) /\ pc' = pc /\ pc.at = "wait_for"
    BY DEF ReapBlocking
  <1>2. PlaceOK(pc, jobs', the_pipeline')
    BY <1>1, Reap DEF Inv
  <1> QED BY <1>1, <1>2, Reap DEF Inv

LEMMA StepReapAny ==
  ASSUME Inv, NEW q \in Pids, ReapAny(q)
  PROVE  Inv'
  <1>1. WaitChld(q) /\ pc' = At("scan", "none", pc.pid) /\ pc.at = "wait_any"
    BY DEF ReapAny
  <1>2. PlaceOK(pc, jobs, the_pipeline)
    BY DEF Inv
  <1>3. PlaceOK(pc, jobs', the_pipeline')
    BY <1>1, <1>2, Reap
  <1>4. the_pipeline' = <<>> /\ \A s \in DOMAIN jobs' : jobs'[s].async
    BY <1>1, <1>3, NoForeground, PipeEmpty
  <1>5. /\ "scan" \in Places \ {"making", "called", "wait_for"} /\ "none" \in Callers
        /\ pc.pid \in Pids \cup {0, NoPid}
    BY <1>2, PipeEmpty DEF Places, Callers
  <1>6. PlaceOK(pc', jobs', the_pipeline')
    BY <1>1, <1>4, <1>5, PlaceAny
  <1> QED BY <1>1, <1>6, Reap DEF Inv

\* make_child, but for the place the shell is in.
LEMMA Make ==
  ASSUME Inv, NEW q \in Pids, NEW async, MakeChild(q, async),
         \A k \in DOMAIN the_pipeline : the_pipeline[k].running
  PROVE  /\ KernelOK' /\ AnswersAreTrue'
         /\ Core(jobs', the_pipeline', saved', kid', code', tail', answer', known', disowned')
         /\ the_pipeline' # <<>> /\ LastOf(the_pipeline').pid = q
         /\ \A k \in DOMAIN the_pipeline' : the_pipeline'[k].running
         /\ \A s \in DOMAIN jobs' : s \in DOMAIN jobs /\ jobs'[s].async = jobs[s].async
  <1>1. /\ kid[q] = "none" /\ forks < MaxForks
        /\ the_pipeline' = Longer(the_pipeline, q)
        /\ jobs' = DeleteOldJob(jobs, q)
        /\ saved' = Saved!Without(saved, q)
        /\ last_asynchronous_pid' = IF async THEN q ELSE last_asynchronous_pid
        /\ kid' = [kid EXCEPT ![q] = "runs"]
        /\ forks' = forks + 1
        /\ tail' = [p \in Pids |-> IF p \in Members(the_pipeline, q) THEN q
                                   ELSE IF tail[p] = q THEN NoPid ELSE tail[p]]
        /\ answer' = [p \in Pids |-> IF p \in Members(the_pipeline, q) THEN NotYet ELSE answer[p]]
        /\ known' = known \ ({q} \cup LostWith(jobs, q))
        /\ disowned' = disowned \ {q}
        /\ ret' = NoRet
        /\ UNCHANGED <<posix, code>>
    BY DEF MakeChild, Members, Longer
  <1>2. KernelOK
    BY DEF Inv
  <1>3. /\ kid \in [Pids -> {"none", "runs", "zombie"}]
        /\ tail \in [Pids -> Pids \cup {NoPid}]
        /\ answer \in [Pids -> Statuses \cup {NotYet}]
        /\ forks \in 0 .. MaxForks /\ disowned \subseteq Pids
        /\ last_asynchronous_pid \in Pids \cup {NoPid}
    BY <1>2 DEF KernelOK
  <1>4. KernelOK'
    <2>1. kid' \in [Pids -> {"none", "runs", "zombie"}]
      BY <1>1, <1>3
    <2>2. tail' \in [Pids -> Pids \cup {NoPid}]
      BY <1>1, <1>3
    <2>3. answer' \in [Pids -> Statuses \cup {NotYet}]
      BY <1>1, <1>3
    <2>4. forks' \in 0 .. MaxForks
      BY <1>1, <1>3, BoundAssumption
    <2>5. disowned' \subseteq Pids
      BY <1>1, <1>3
    <2>6. last_asynchronous_pid' \in Pids \cup {NoPid}
      BY <1>1, <1>3
    <2> QED BY <1>1, <1>2, <2>1, <2>2, <2>3, <2>4, <2>5, <2>6 DEF KernelOK
  <1>5. Core(jobs, the_pipeline, saved, kid, code, tail, answer, known, disowned)
    BY DEF Inv
  <1>6. /\ PipelineOK(jobs, the_pipeline, kid, code, tail, answer)
        /\ TableOK(jobs, kid, code, tail, answer)
    BY <1>5 DEF Core
  <1>7. the_pipeline \in Seq(Proc)
    BY <1>6 DEF PipelineOK, PipeOK
  <1>8. \A k \in DOMAIN the_pipeline : the_pipeline[k].pid # q
    BY <1>1, <1>6, PidAssumption DEF PipelineOK, PipeOK, LiveOK
  <1>9. KernelFork(q, the_pipeline, kid, tail, answer, kid', tail', answer')
    BY <1>1, <1>3 DEF KernelFork
  <1>10. Core(DeleteOldJob(jobs, q), Longer(the_pipeline, q), Saved!Without(saved, q),
              kid', code, tail', answer', known \ ({q} \cup LostWith(jobs, q)), disowned \ {q})
    BY <1>5, <1>8, <1>9, MakeCore
  <1>11. Core(jobs', the_pipeline', saved', kid', code', tail', answer', known', disowned')
    BY <1>1, <1>10
  <1>12. /\ the_pipeline' # <<>> /\ LastOf(the_pipeline').pid = q
         /\ \A k \in DOMAIN the_pipeline' : the_pipeline'[k].running
    BY <1>1, <1>7, LongerLast
  <1>13. \A s \in DOMAIN jobs' : s \in DOMAIN jobs /\ jobs'[s].async = jobs[s].async
    BY <1>1, <1>6, TableFits, DeleteOldFacts
  <1> QED BY <1>1, <1>4, <1>11, <1>12, <1>13, NoAnswer

\* A pipeline is only made while no foreground job is in the table.
LEMMA PlaceMaking ==
  ASSUME NEW by \in {"async", "fg", "async pipe", "fg pipe"}, NEW q \in Pids,
         NEW js, \A s \in DOMAIN js : js[s].async,
         NEW pipe, pipe # <<>>, LastOf(pipe).pid = q, \A k \in DOMAIN pipe : pipe[k].running
  PROVE  PlaceOK(At("making", by, q), js, pipe)
  <1> DEFINE place == At("making", by, q)
  <1>1. /\ place \in [at : Places, by : Callers, pid : Pids \cup {0, NoPid}]
        /\ place.at = "making" /\ place.by = by /\ place.pid = q
    BY DEF At, Places, Callers
  <1> HIDE DEF place
  <1>2. PlaceOK(place, js, pipe)
    BY <1>1 DEF PlaceOK
  <1> QED BY <1>2 DEF place

LEMMA StepMake ==
  ASSUME Inv, NEW q \in Pids, NEW by \in {"async", "fg", "async pipe", "fg pipe"},
         NEW async, MakeChild(q, async), pc' = At("making", by, q),
         pc.at = "idle" \/ (pc.at = "making" /\ pc.by \in {"async pipe", "fg pipe"})
  PROVE  Inv'
  <1>1. PlaceOK(pc, jobs, the_pipeline)
    BY DEF Inv
  <1>2. \A k \in DOMAIN the_pipeline : the_pipeline[k].running
    <2>1. CASE pc.at = "idle"
      <3>1. pc.at # "making"
        BY <2>1
      <3>2. DOMAIN the_pipeline = {}
        BY <1>1, <3>1, NoPipeline
      <3> QED BY <3>2
    <2>2. CASE pc.at = "making" /\ pc.by \in {"async pipe", "fg pipe"}
      BY <1>1, <2>2 DEF PlaceOK
    <2> QED BY <2>1, <2>2
  <1>3. /\ KernelOK' /\ AnswersAreTrue'
        /\ Core(jobs', the_pipeline', saved', kid', code', tail', answer', known', disowned')
        /\ the_pipeline' # <<>> /\ LastOf(the_pipeline').pid = q
        /\ \A k \in DOMAIN the_pipeline' : the_pipeline'[k].running
        /\ \A s \in DOMAIN jobs' : s \in DOMAIN jobs /\ jobs'[s].async = jobs[s].async
    BY <1>2, Make
  <1>4. \A s \in DOMAIN jobs : jobs[s].async
    BY <1>1, NoForeground
  <1>5. \A s \in DOMAIN jobs' : jobs'[s].async
    BY <1>3, <1>4
  <1>6. PlaceOK(pc', jobs', the_pipeline')
    BY <1>3, <1>5, PlaceMaking
  <1> QED BY <1>3, <1>6 DEF Inv

-----------------------------------------------------------------------------
\* A table that is cleaned up after some of its jobs were flagged, or not.
LEMMA ClearedFirst ==
  ASSUME NEW js, Fits(js), NEW new, Cleared(js, new, <<>>)
  PROVE  Cleared(js, CleanedUp(new), CleanedStatuses(new))
  <1>1. Cleared(js, CleanedUp(new), <<>> \o CleanedStatuses(new))
    BY ClearedStep
  <1>2. Fits(new) /\ Finished(new) \subseteq DOMAIN new
    BY SubTableFits DEF Cleared, Finished
  <1>3. CleanedStatuses(new) \in Seq(Entry)
    BY <1>2, StatusedGiven DEF CleanedStatuses, Given
  <1>4. <<>> \o CleanedStatuses(new) = CleanedStatuses(new)
    BY <1>3, ConcatEmptySeq
  <1> QED BY <1>1, <1>4

LEMMA StoreFacts ==
  ASSUME NEW entries, NEW forget, NEW learn, Store(entries, forget, learn)
  PROVE  \E lost \in Saved!MayLose(saved, entries) :
            /\ saved' = Stored(saved, entries, lost, forget)
            /\ known' = LeftOver(saved, known \cup learn, lost, forget)
  BY DEF Store, Stored, LeftOver

\* Deletions of dead jobs.
LEMMA ClearingCore ==
  ASSUME Inv, NEW entries, Cleared(jobs, jobs', entries), NEW forget, Store(entries, forget, {}),
         UNCHANGED <<the_pipeline, kid, code, tail, answer, disowned>>
  PROVE  Core(jobs', the_pipeline', saved', kid', code', tail', answer', known', disowned')
  <1>1. PICK lost \in Saved!MayLose(saved, entries) :
            /\ saved' = Stored(saved, entries, lost, forget)
            /\ known' = LeftOver(saved, known \cup {}, lost, forget)
    BY StoreFacts
  <1>2. known \cup {} = known
    OBVIOUS
  <1>3. Core(jobs', the_pipeline, Stored(saved, entries, lost, forget), kid, code, tail, answer,
             LeftOver(saved, known, lost, forget), disowned)
    BY ClearedCore DEF Inv
  <1> QED BY <1>1, <1>2, <1>3

LEMMA TableIsFit == Inv => Fits(jobs) /\ IsTable(jobs)
  <1> SUFFICES ASSUME Inv PROVE Fits(jobs) /\ IsTable(jobs)
    OBVIOUS
  <1>1. TableOK(jobs, kid, code, tail, answer)
    BY DEF Inv, Core
  <1> QED BY <1>1, TableFits DEF TableOK

LEMMA StepStopPipeline ==
  ASSUME Inv, StopPipeline
  PROVE  Inv'
  <1> DEFINE async == pc.by \in {"async", "async pipe"}
             kept == CleanedUp(jobs)
             slot == NewSlot(kept)
             entries == CleanedStatuses(jobs)
             learn == IF async THEN {pc.pid} ELSE {}
  <1>1. /\ pc.at = "making"
        /\ jobs' = [s \in DOMAIN kept \cup {slot} |->
                      IF s = slot THEN NewJob(the_pipeline, async) ELSE kept[s]]
        /\ the_pipeline' = <<>>
        /\ Store(entries, NoPid, learn)
        /\ pc' = IF async THEN Idle
                 ELSE IF pc.by = "fg" THEN At("called", "fg", pc.pid)
                 ELSE At("wait_for", "fg", pc.pid)
        /\ ret' = NoRet
        /\ UNCHANGED <<posix, last_asynchronous_pid, kid, code, forks, tail, answer, disowned>>
    BY DEF StopPipeline, kernelVars
  <1>2. /\ PlaceOK(pc, jobs, the_pipeline)
        /\ Core(jobs, the_pipeline, saved, kid, code, tail, answer, known, disowned)
    BY DEF Inv
  <1>3. the_pipeline # <<>> /\ pc.pid = LastOf(the_pipeline).pid
        /\ pc.by \in {"async", "fg", "async pipe", "fg pipe"}
    BY <1>1, <1>2 DEF PlaceOK
  <1>4. /\ PipelineOK(jobs, the_pipeline, kid, code, tail, answer)
        /\ SavedOK(saved, jobs, the_pipeline, kid, tail, answer, disowned)
    BY <1>2 DEF Core
  <1>5. /\ the_pipeline \in Seq(Proc) /\ Len(the_pipeline) \in DOMAIN the_pipeline
        /\ pc.pid \in Pids /\ pc.pid \in PidsIn(the_pipeline)
    <2>1. the_pipeline \in Seq(Proc)
      BY <1>4 DEF PipelineOK, PipeOK
    <2>2. Len(the_pipeline) \in DOMAIN the_pipeline
      BY <1>3, <2>1, LenIn
    <2>3. pc.pid \in Pids /\ pc.pid # 0
      BY <1>3, <1>4, <2>2, PidAssumption DEF PipelineOK, LastOf
    <2> QED BY <1>3, <2>1, <2>2, <2>3 DEF PidsIn, LastOf
  <1>6. Cleared(jobs, kept, entries)
    BY TableIsFit, ClearedStart, ClearedFirst
  <1>7. SubTable(kept, jobs) /\ IsTable(kept)
    BY <1>6 DEF Cleared, SubTable
  <1>8. slot \in Nat /\ slot \notin DOMAIN kept
    BY <1>7, NewSlotIsNew
  <1> HIDE DEF async, kept, slot, entries
  <1>9. PICK lost \in Saved!MayLose(saved, entries) :
            /\ saved' = Stored(saved, entries, lost, NoPid)
            /\ known' = LeftOver(saved, known \cup learn, lost, NoPid)
    <2> HIDE DEF learn
    <2> QED BY <1>1, StoreFacts
  <1>10. Core(kept, the_pipeline, saved', kid, code, tail, answer,
              LeftOver(saved, known, lost, NoPid), disowned)
    BY <1>2, <1>6, <1>9, ClearedCore
  <1>11. Core(jobs', <<>>, saved', kid, code, tail, answer,
              LeftOver(saved, known, lost, NoPid) \cup learn, disowned)
    <2>1. async \in BOOLEAN
      BY DEF async
    <2>2. learn = IF async THEN {LastOf(the_pipeline).pid} ELSE {}
      BY <1>3
    <2> HIDE DEF learn
    <2>3. Core(Joined(kept, slot, the_pipeline, async), <<>>, saved', kid, code, tail, answer,
               LeftOver(saved, known, lost, NoPid) \cup learn, disowned)
      BY <1>3, <1>8, <1>10, <2>1, <2>2, MoveCore
    <2> QED BY <1>1, <2>3 DEF Joined
  <1>12. known' = LeftOver(saved, known, lost, NoPid) \cup learn
    <2>1. pc.pid # NoPid /\ pc.pid # 0
      BY <1>5, PidAssumption
    <2>2. saved \in Seq(Entry) /\ lost \in 0 .. Len(saved)
      <3>1. saved \in Seq(Entry)
        BY <1>4 DEF SavedOK
      <3>2. entries \in Seq(Entry)
        BY <1>6 DEF Cleared, Given
      <3> QED BY <3>1, <3>2 DEF Saved!MayLose
    <2>3. pc.pid \notin {saved[k].pid : k \in 1 .. lost}
      <3> SUFFICES ASSUME NEW k \in 1 .. lost, saved[k].pid = pc.pid PROVE FALSE
        OBVIOUS
      <3>1. k \in DOMAIN saved
        BY <2>2
      <3> QED BY <1>4, <1>5, <2>1, <3>1 DEF SavedOK
    <2> QED BY <1>9, <2>1, <2>3 DEF LeftOver
  <1>13. Core(jobs', the_pipeline', saved', kid', code', tail', answer', known', disowned')
    BY <1>1, <1>11, <1>12
  <1>14. /\ DOMAIN jobs' = DOMAIN kept \cup {slot}
         /\ jobs'[slot] = NewJob(the_pipeline, async)
         /\ \A s \in DOMAIN kept : jobs'[s].async
    <2>1. \A s \in DOMAIN kept : kept[s].async
      BY <1>1, <1>2, <1>7, NoForeground DEF SubTable
    <2> QED BY <1>1, <1>8, <2>1
  <1>15. /\ jobs'[slot].async = async /\ jobs'[slot].pipe = the_pipeline
         /\ LastProc(jobs'[slot]).pid = pc.pid /\ HasPid(jobs'[slot], pc.pid)
    <2>1. jobs'[slot].async = async /\ jobs'[slot].pipe = the_pipeline
      BY <1>14 DEF NewJob
    <2>2. LastProc(jobs'[slot]) = LastOf(the_pipeline)
      BY <2>1 DEF LastProc, LastOf, Last
    <2> QED BY <1>3, <1>5, <2>1, <2>2 DEF HasPid, LastOf
  <1>16. PlaceOK(pc', jobs', <<>>)
    <2>1. CASE async
      <3>1. \A s \in DOMAIN jobs' : jobs'[s].async
        BY <1>14, <1>15, <2>1
      <3>2. "idle" \in Places \ {"making", "called", "wait_for"} /\ "none" \in Callers
            /\ NoPid \in Pids \cup {0, NoPid}
        BY DEF Places, Callers
      <3>3. PlaceOK(Idle, jobs', <<>>)
        BY <3>1, <3>2, PlaceAny, IdleIsPlace
      <3> QED BY <1>1, <2>1, <3>3
    <2>2. CASE ~async
      <3>1. PICK at \in {"called", "wait_for"} : pc' = At(at, "fg", pc.pid)
        BY <1>1, <2>2
      <3>2. /\ pc' \in [at : Places, by : Callers, pid : Pids \cup {0, NoPid}]
            /\ pc'.at = at /\ pc'.by = "fg" /\ pc'.pid = pc.pid
        BY <1>5, <3>1 DEF At, Places, Callers
      <3>3. pc'.pid # NoPid /\ \E s \in DOMAIN jobs' : HasPid(jobs'[s], pc'.pid)
        BY <1>5, <1>14, <1>15, <3>2, PidAssumption
      <3>4. \A s \in DOMAIN jobs' : ~jobs'[s].async =>
              pc'.pid \in Pids /\ LastProc(jobs'[s]).pid = pc'.pid
        BY <1>5, <1>14, <1>15, <3>2
      <3> QED BY <3>2, <3>3, <3>4 DEF PlaceOK
    <2> QED BY <2>1, <2>2
  <1>17. KernelOK'
    BY <1>1 DEF Inv, KernelOK
  <1> QED BY <1>1, <1>13, <1>16, <1>17, NoAnswer DEF Inv

LEMMA StepFinishWaitFor ==
  ASSUME Inv, FinishWaitFor
  PROVE  Inv'
  <1> DEFINE w == FindJob(jobs, pc.pid)
             told == Notified(jobs, {w})
             cleaned == CleanedUp(told)
             flagged == Flag(cleaned, {w} \cap DOMAIN cleaned)
             single == pc.by # "fg"
             first == CleanedStatuses(told)
             second == IF single /\ posix THEN CleanedStatuses(flagged) ELSE <<>>
             forget == IF single /\ posix THEN pc.pid ELSE NoPid
  <1>1. /\ pc.at = "wait_for" /\ ~Running(jobs[w])
        /\ jobs' = IF ~single THEN cleaned
                   ELSE IF posix THEN CleanedUp(flagged) ELSE flagged
        /\ Store(first \o second, forget, {})
        /\ Report(pc.by, pc.pid, pc.pid, ExitStatus(jobs[w]))
        /\ pc' = IF pc.by = "all" THEN At("all", "none", NoPid) ELSE Idle
        /\ UNCHANGED <<posix, the_pipeline, last_asynchronous_pid, kid, code, forks,
                       tail, answer, disowned>>
    BY DEF FinishWaitFor, Waited, kernelVars
  <1>2. PlaceOK(pc, jobs, the_pipeline) /\ Fits(jobs) /\ IsTable(jobs)
    BY TableIsFit DEF Inv
  <1>3. w \in DOMAIN jobs /\ HasPid(jobs[w], pc.pid)
    <2>1. \E s \in DOMAIN jobs : HasPid(jobs[s], pc.pid)
      BY <1>1, <1>2 DEF PlaceOK
    <2> QED BY <1>2, <2>1, FindFacts
  <1>4. Dead(jobs[w])
    <2>1. JobOK(jobs[w], kid, code, tail, answer)
      BY <1>3 DEF Inv, Core, TableOK
    <2> QED BY <1>1, <2>1, DeadFacts
  <1>5. Cleared(jobs, told, <<>>)
    BY <1>2, ClearedStart, ClearedFlag DEF Notified
  <1>6. Cleared(jobs, cleaned, first)
    BY <1>2, <1>5, ClearedFirst
  <1>7. first \in Seq(Entry)
    BY <1>6 DEF Cleared, Given
  <1>8. first \o <<>> = first
    BY <1>7, ConcatEmptySeq
  <1>9. Cleared(jobs, flagged, first)
    BY <1>6, ClearedFlag
  <1>10. Cleared(jobs, CleanedUp(flagged), first \o CleanedStatuses(flagged))
    BY <1>2, <1>9, ClearedStep
  <1>11. SubTable(cleaned, jobs) /\ w \in DOMAIN told
    <2>1. DOMAIN told = DOMAIN jobs
      BY <1>2, FlagIsSub DEF Notified
    <2> QED BY <1>3, <1>6, <2>1 DEF Cleared
  <1>12. ~jobs[w].async => w \notin DOMAIN cleaned
    <2> SUFFICES ASSUME ~jobs[w].async PROVE w \notin DOMAIN cleaned
      OBVIOUS
    <2>1. told[w] = [jobs[w] EXCEPT !.notified = TRUE]
      BY <1>3, <1>4 DEF Notified, Flag
    <2>2. jobs[w] \in Job
      BY <1>2, <1>3 DEF IsTable
    <2>3. told[w].notified /\ Dead(told[w])
      BY <1>4, <2>1, <2>2 DEF Job, Dead
    <2>4. w \in Finished(told)
      BY <1>11, <2>3 DEF Finished
    <2> QED BY <2>4 DEF CleanedUp, Without
  <1>13. \A s \in DOMAIN cleaned : cleaned[s].async
    <2> SUFFICES ASSUME NEW s \in DOMAIN cleaned, ~cleaned[s].async PROVE FALSE
      OBVIOUS
    <2>1. s \in DOMAIN jobs /\ ~jobs[s].async
      BY <1>11 DEF SubTable
    <2>2. pc.pid \in Pids /\ LastProc(jobs[s]).pid = pc.pid
      BY <1>2, <2>1 DEF PlaceOK
    <2>3. pc.pid # 0
      BY <2>2, PidAssumption
    <2>4. jobs[s] \in Job /\ jobs[s].pipe # <<>>
      BY <1>2, <2>1 DEF Fits, IsTable
    <2>5. HasPid(jobs[s], pc.pid)
      BY <2>2, <2>4, LastFacts DEF HasPid, LastOf
    <2>6. w = s
      BY <1>2, <2>1, <2>3, <2>5, FoundOnce
    <2> QED BY <1>12, <2>1, <2>6
  <1> HIDE DEF w, told, cleaned, flagged, first, forget
  <1>14. Cleared(jobs, jobs', first \o second) /\ SubTable(jobs', cleaned)
    <2>1. SubTable(flagged, cleaned) /\ IsTable(cleaned)
      BY <1>11, FlagIsSub DEF flagged, SubTable
    <2>2. SubTable(cleaned, cleaned)
      BY <2>1 DEF SubTable
    <2>3. CASE ~single
      <3>1. jobs' = cleaned /\ first \o second = first
        BY <1>1, <1>8, <2>3
      <3> QED BY <1>6, <2>2, <3>1
    <2>4. CASE single /\ posix
      <3>1. jobs' = CleanedUp(flagged) /\ first \o second = first \o CleanedStatuses(flagged)
        BY <1>1, <2>4
      <3>2. SubTable(CleanedUp(flagged), flagged)
        BY <2>1, WithoutIsSub DEF CleanedUp, SubTable
      <3>3. SubTable(CleanedUp(flagged), cleaned)
        BY <2>1, <3>2, SubTableTrans
      <3> QED BY <1>10, <3>1, <3>3
    <2>5. CASE single /\ ~posix
      <3>1. jobs' = flagged /\ first \o second = first
        BY <1>1, <1>8, <2>5
      <3> QED BY <1>9, <2>1, <3>1
    <2> QED BY <2>3, <2>4, <2>5
  <1>15. Core(jobs', the_pipeline', saved', kid', code', tail', answer', known', disowned')
    <2> HIDE DEF second
    <2> QED BY <1>1, <1>14, ClearingCore
  <1>16. \A s \in DOMAIN jobs' : jobs'[s].async
    BY <1>13, <1>14 DEF SubTable
  <1>17. PlaceOK(pc', jobs', the_pipeline')
    <2>1. the_pipeline' = <<>>
      <3>1. pc.at # "making"
        BY <1>1
      <3> QED BY <1>1, <1>2, <3>1, NoPipeline
    <2>2. /\ "idle" \in Places \ {"making", "called", "wait_for"}
          /\ "all" \in Places \ {"making", "called", "wait_for"}
          /\ "none" \in Callers /\ NoPid \in Pids \cup {0, NoPid}
      BY DEF Places, Callers
    <2>3. PlaceOK(Idle, jobs', <<>>) /\ PlaceOK(At("all", "none", NoPid), jobs', <<>>)
      BY <1>16, <2>2, PlaceAny, IdleIsPlace
    <2> QED BY <1>1, <2>1, <2>3
  <1>18. KernelOK'
    BY <1>1 DEF Inv, KernelOK
  <1>19. AnswersAreTrue'
    BY <1>1, <1>3, <1>4, JobAnswer
  <1> QED BY <1>15, <1>17, <1>18, <1>19 DEF Inv

-----------------------------------------------------------------------------
\* Steps between the places where the shell neither makes a pipeline nor waits
\* for a job.
Rests == Places \ {"making", "called", "wait_for"}

\* Where no command is waited for, all jobs are asynchronous; so it does not
\* matter which are deleted.
LEMMA PlaceRest ==
  ASSUME Inv, pc.at \in Rests, NEW at \in Rests, NEW pid \in Pids \cup {0, NoPid},
         \A s \in DOMAIN jobs' : s \in DOMAIN jobs /\ jobs'[s].async = jobs[s].async,
         the_pipeline' = the_pipeline
  PROVE  /\ pc' = At(at, "none", pid) => PlaceOK(pc', jobs', the_pipeline')
         /\ pc' = Idle => PlaceOK(pc', jobs', the_pipeline')
         /\ pc' = pc => PlaceOK(pc', jobs', the_pipeline')
  <1>1. PlaceOK(pc, jobs, the_pipeline) /\ pc.at \notin {"making", "called", "wait_for"}
    BY DEF Inv, Rests
  <1>2. the_pipeline' = <<>>
    <2>1. pc.at # "making"
      BY <1>1
    <2> QED BY <1>1, <2>1, NoPipeline
  <1>3. \A s \in DOMAIN jobs' : jobs'[s].async
    BY <1>1, NoForeground
  <1>4. "none" \in Callers /\ NoPid \in Pids \cup {0, NoPid} /\ "idle" \in Rests
    BY DEF Callers, Places, Rests
  <1>5. PlaceOK(At(at, "none", pid), jobs', <<>>)
    BY <1>3, <1>4, PlaceAny DEF Rests
  <1>6. PlaceOK(Idle, jobs', <<>>)
    BY <1>3, <1>4, PlaceAny, IdleIsPlace DEF Rests
  <1>7. PlaceOK(pc, jobs', <<>>)
    BY <1>1, <1>2, <1>3 DEF PlaceOK
  <1> QED BY <1>2, <1>5, <1>6, <1>7

LEMMA PidOfPlace == Inv => pc.pid \in Pids \cup {0, NoPid}
  BY DEF Inv, PlaceOK

LEMMA RestsFacts ==
  /\ "idle" \in Rests /\ "all" \in Rests /\ "next" \in Rests /\ "any called" \in Rests
  /\ "wait_any" \in Rests /\ "scan" \in Rests
  BY DEF Rests, Places

\* A step that changes no more than the place and the answer.
LEMMA StepQuiet ==
  ASSUME Inv, UNCHANGED <<posix, jobs, the_pipeline, saved, last_asynchronous_pid, kernelVars,
                          tail, answer, known, disowned>>,
         AnswersAreTrue', PlaceOK(pc', jobs', the_pipeline')
  PROVE  Inv'
  <1>1. UNCHANGED <<posix, jobs, the_pipeline, saved, last_asynchronous_pid, kid, code, forks,
                    tail, answer, known, disowned>>
    BY DEF kernelVars
  <1>2. KernelOK'
    BY <1>1 DEF Inv, KernelOK
  <1>3. Core(jobs', the_pipeline', saved', kid', code', tail', answer', known', disowned')
    BY <1>1 DEF Inv
  <1> QED BY <1>2, <1>3 DEF Inv

LEMMA StepEnterWaitFor ==
  ASSUME Inv, EnterWaitFor
  PROVE  Inv'
  <1>1. /\ pc.at = "called" /\ pc' = At("wait_for", pc.by, pc.pid) /\ ret' = NoRet
        /\ UNCHANGED <<posix, jobs, the_pipeline, saved, last_asynchronous_pid, kernelVars,
                       tail, answer, known, disowned>>
    BY DEF EnterWaitFor
  <1>2. PlaceOK(pc, jobs, the_pipeline)
    BY DEF Inv
  <1>3. /\ pc' \in [at : Places, by : Callers, pid : Pids \cup {0, NoPid}]
        /\ pc'.at = "wait_for" /\ pc'.by = pc.by /\ pc'.pid = pc.pid
    BY <1>1, <1>2 DEF At, Places, PlaceOK
  <1>4. PlaceOK(pc', jobs, the_pipeline)
    BY <1>1, <1>2, <1>3 DEF PlaceOK
  <1>5. PlaceOK(pc', jobs', the_pipeline')
    BY <1>1, <1>4
  <1> QED BY <1>1, <1>5, NoAnswer, StepQuiet

\* Going to wait for a pid of a job.
LEMMA PlaceCalled ==
  ASSUME Inv, pc.at \in Rests, NEW by \in Callers, NEW p \in Pids \cup {0},
         NEW s \in DOMAIN jobs, HasPid(jobs[s], p)
  PROVE  PlaceOK(At("called", by, p), jobs, the_pipeline)
  <1> DEFINE place == At("called", by, p)
  <1>1. /\ place \in [at : Places, by : Callers, pid : Pids \cup {0, NoPid}]
        /\ place.at = "called" /\ place.pid = p
    BY DEF At, Places
  <1>2. PlaceOK(pc, jobs, the_pipeline) /\ pc.at \notin {"making", "called", "wait_for"}
    BY DEF Inv, Rests
  <1>3. the_pipeline = <<>> /\ \A t \in DOMAIN jobs : jobs[t].async
    <2>1. pc.at # "making"
      BY <1>2
    <2> QED BY <1>2, <2>1, NoPipeline, NoForeground
  <1>4. p # NoPid
    BY PidAssumption DEF NoPid
  <1> HIDE DEF place
  <1>5. PlaceOK(place, jobs, the_pipeline)
    BY <1>1, <1>3, <1>4 DEF PlaceOK
  <1> QED BY <1>5 DEF place

LEMMA StepWaitKnownPid ==
  ASSUME Inv, NEW p \in Pids, WaitKnownPid(p)
  PROVE  Inv'
  <1>1. /\ pc.at = "idle" /\ FindJob(jobs, p) # NoJob
        /\ pc' = At("called", "pid", p) /\ ret' = NoRet
        /\ UNCHANGED <<posix, jobs, the_pipeline, saved, last_asynchronous_pid, kernelVars,
                       tail, answer, known, disowned>>
    BY DEF WaitKnownPid
  <1>2. FindJob(jobs, p) \in DOMAIN jobs /\ HasPid(jobs[FindJob(jobs, p)], p)
    BY <1>1, TableIsFit, FindFacts
  <1>3. "pid" \in Callers /\ pc.at \in Rests
    BY <1>1, RestsFacts DEF Callers
  <1>4. PlaceOK(At("called", "pid", p), jobs, the_pipeline)
    BY <1>2, <1>3, PlaceCalled
  <1>5. PlaceOK(pc', jobs', the_pipeline')
    BY <1>1, <1>4
  <1> QED BY <1>1, <1>5, NoAnswer, StepQuiet

LEMMA BackgroundMin ==
  ASSUME Inv, NEW S \in SUBSET DOMAIN jobs, S # {}
  PROVE  Min(S) \in S
  <1>1. S \in SUBSET Nat
    BY TableIsFit DEF IsTable
  <1> QED BY <1>1, LeastElement

LEMMA JobFacts ==
  ASSUME Inv, NEW s \in DOMAIN jobs
  PROVE  /\ jobs[s] \in Job /\ jobs[s].pipe # <<>>
         /\ JobOK(jobs[s], kid, code, tail, answer)
         /\ HasPid(jobs[s], LastProc(jobs[s]).pid) /\ LastProc(jobs[s]).pid \in Pids \cup {0}
  <1>1. JobOK(jobs[s], kid, code, tail, answer)
    BY DEF Inv, Core, TableOK
  <1>2. jobs[s] \in Job /\ jobs[s].pipe # <<>>
    BY <1>1 DEF JobOK
  <1>3. HasPid(jobs[s], LastProc(jobs[s]).pid) /\ LastProc(jobs[s]).pid \in Pids \cup {0}
    <2>1. /\ LastProc(jobs[s]) = LastOf(jobs[s].pipe) /\ LastOf(jobs[s].pipe) \in Proc
          /\ Len(jobs[s].pipe) \in DOMAIN jobs[s].pipe
      BY <1>2, LastFacts
    <2> QED BY <2>1 DEF HasPid, LastOf, Proc
  <1> QED BY <1>1, <1>2, <1>3

LEMMA StepWaitAllNext ==
  ASSUME Inv, WaitAllNext
  PROVE  Inv'
  <1> DEFINE s == Min(Background)
             p == LastProc(jobs[s]).pid
  <1>1. /\ pc.at = "all" /\ Background # {}
        /\ pc' = At("called", "all", p) /\ ret' = NoRet
        /\ UNCHANGED <<posix, jobs, the_pipeline, saved, last_asynchronous_pid, kernelVars,
                       tail, answer, known, disowned>>
    BY DEF WaitAllNext
  <1>2. s \in DOMAIN jobs
    <2>1. Background \in SUBSET DOMAIN jobs
      BY DEF Background
    <2>2. s \in Background
      BY <1>1, <2>1, BackgroundMin
    <2> QED BY <2>1, <2>2
  <1>3. HasPid(jobs[s], p) /\ p \in Pids \cup {0}
    BY <1>2, JobFacts
  <1>4. "all" \in Callers /\ pc.at \in Rests
    BY <1>1, RestsFacts DEF Callers
  <1> HIDE DEF s, p
  <1>5. PlaceOK(At("called", "all", p), jobs, the_pipeline)
    BY <1>2, <1>3, <1>4, PlaceCalled
  <1>6. PlaceOK(pc', jobs', the_pipeline')
    BY <1>1, <1>5
  <1> QED BY <1>1, <1>6, NoAnswer, StepQuiet

\* Going from one place of rest to another.
LEMMA StepToRest ==
  ASSUME Inv, pc.at \in Rests, NEW at \in Rests, NEW p \in Pids \cup {0, NoPid},
         pc' = At(at, "none", p) \/ pc' = Idle \/ pc' = pc, AnswersAreTrue',
         UNCHANGED <<posix, jobs, the_pipeline, saved, last_asynchronous_pid, kernelVars,
                     tail, answer, known, disowned>>
  PROVE  Inv'
  <1>1. \A s \in DOMAIN jobs' : s \in DOMAIN jobs /\ jobs'[s].async = jobs[s].async
    OBVIOUS
  <1>2. PlaceOK(pc', jobs', the_pipeline')
    BY <1>1, PlaceRest
  <1> QED BY <1>2, StepQuiet

LEMMA StepGoTo ==
  ASSUME Inv, pc.at \in Rests, NEW at \in Rests, GoTo(at)
  PROVE  Inv'
  <1>1. /\ pc' = At(at, "none", pc.pid) /\ ret' = NoRet
        /\ UNCHANGED <<posix, jobs, the_pipeline, saved, last_asynchronous_pid, kernelVars,
                       tail, answer, known, disowned>>
    BY DEF GoTo
  <1> QED BY <1>1, PidOfPlace, NoAnswer, StepToRest

LEMMA StepReturnUnknown ==
  ASSUME Inv, pc.at \in Rests, NEW asked, ReturnUnknown(asked)
  PROVE  Inv'
  <1>1. /\ Report("next", NoPid, asked, Unknown) /\ pc' = Idle
        /\ UNCHANGED <<posix, jobs, the_pipeline, saved, last_asynchronous_pid, kernelVars,
                       tail, answer, known, disowned>>
    BY DEF ReturnUnknown
  <1>2. AnswersAreTrue'
    BY <1>1, UnknownAnswer
  <1> QED BY <1>1, <1>2, PidOfPlace, RestsFacts, StepToRest

LEMMA StepWaitUnknownPid ==
  ASSUME Inv, NEW p \in Pids, WaitUnknownPid(p)
  PROVE  Inv'
  <1>1. /\ pc.at = "idle" /\ Report("pid", p, p, Unknown) /\ pc' = pc
        /\ UNCHANGED <<posix, jobs, the_pipeline, saved, last_asynchronous_pid, kernelVars,
                       tail, answer, known, disowned>>
    BY DEF WaitUnknownPid, shellVars
  <1>2. AnswersAreTrue'
    BY <1>1, UnknownAnswer
  <1> QED BY <1>1, <1>2, PidOfPlace, RestsFacts, StepToRest

LEMMA StepWaitAll ==
  ASSUME Inv, WaitAll
  PROVE  Inv'
  <1>1. /\ pc.at = "idle" /\ pc' = At("all", "none", NoPid) /\ ret' = NoRet
        /\ UNCHANGED <<posix, jobs, the_pipeline, saved, last_asynchronous_pid, kernelVars,
                       tail, answer, known, disowned>>
    BY DEF WaitAll
  <1>2. NoPid \in Pids \cup {0, NoPid}
    OBVIOUS
  <1> QED BY <1>1, <1>2, RestsFacts, NoAnswer, StepToRest

LEMMA StepNextLoop ==
  ASSUME Inv, NEW asked \in Pids \cup {NoPid}, NextLoop(asked)
  PROVE  Inv'
  <1>1. /\ pc.at = "idle" /\ pc' = At("next", "none", asked) /\ ret' = NoRet
        /\ UNCHANGED <<posix, jobs, the_pipeline, saved, last_asynchronous_pid, kernelVars,
                       tail, answer, known, disowned>>
    BY DEF NextLoop, Asks
  <1>2. asked \in Pids \cup {0, NoPid}
    OBVIOUS
  <1> QED BY <1>1, <1>2, RestsFacts, NoAnswer, StepToRest

LEMMA StepNextUnlisted ==
  ASSUME Inv, NEW asked, NextUnlisted(asked)
  PROVE  Inv'
  <1>1. pc.at = "idle" /\ ReturnUnknown(asked)
    BY DEF NextUnlisted
  <1> QED BY <1>1, RestsFacts, StepReturnUnknown

LEMMA StepEnterWaitAny ==
  ASSUME Inv, EnterWaitAny
  PROVE  Inv'
  <1>1. pc.at = "any called" /\ GoTo("wait_any")
    BY DEF EnterWaitAny
  <1> QED BY <1>1, RestsFacts, StepGoTo

\* mark_all_jobs_as_dead finds them dead: no child is left.
LEMMA StepWaitAnyEchild ==
  ASSUME Inv, WaitAnyEchild
  PROVE  Inv'
  <1>1. /\ pc.at = "wait_any" /\ \A p \in Pids : kid[p] = "none"
        /\ jobs' = [s \in DOMAIN jobs |-> [jobs[s] EXCEPT !.state = "dead"]]
        /\ pc' = At("scan", "none", pc.pid) /\ ret' = NoRet
        /\ UNCHANGED <<posix, the_pipeline, saved, last_asynchronous_pid, kernelVars,
                       tail, answer, known, disowned>>
    BY DEF WaitAnyEchild
  <1>2. ASSUME NEW s \in DOMAIN jobs
        PROVE  jobs'[s] = jobs[s]
    <2>1. jobs[s] \in Job /\ JobOK(jobs[s], kid, code, tail, answer)
      BY JobFacts
    <2>2. \A k \in DOMAIN jobs[s].pipe : ~jobs[s].pipe[k].running
      <3> SUFFICES ASSUME NEW k \in DOMAIN jobs[s].pipe, jobs[s].pipe[k].running PROVE FALSE
        OBVIOUS
      <3>1. /\ jobs[s].pipe \in Seq(Proc)
            /\ IF jobs[s].pipe[k].pid = 0 THEN ~jobs[s].pipe[k].running
               ELSE jobs[s].pipe[k].running <=> kid[jobs[s].pipe[k].pid] # "none"
        BY <2>1 DEF JobOK, PipeOK, LiveOK
      <3>2. jobs[s].pipe[k].pid \in Pids \cup {0}
        BY <3>1, PidsInPids
      <3> QED BY <1>1, <3>1, <3>2
    <2>3. jobs[s].state = "dead"
      BY <2>1, <2>2 DEF JobOK, PipeState
    <2>4. [jobs[s] EXCEPT !.state = "dead"] = jobs[s]
      BY <2>1, <2>3 DEF Job
    <2> QED BY <1>1, <2>4
  <1>3. jobs' = jobs
    <2>1. jobs = [s \in DOMAIN jobs |-> jobs[s]]
      BY TableIsFit DEF IsTable
    <2>2. jobs' = [s \in DOMAIN jobs |-> jobs'[s]]
      BY <1>1
    <2> QED BY <1>2, <2>1, <2>2
  <1> QED BY <1>1, <1>3, PidOfPlace, RestsFacts, NoAnswer, StepToRest

-----------------------------------------------------------------------------
\* One job is deleted, dead or to be disowned.
LEMMA DropCore ==
  ASSUME Inv, NEW s \in DOMAIN jobs, NEW dis, disowned \subseteq dis,
         Dead(jobs[s]) \/ \A p \in Pids : HasPid(jobs[s], p) => p \in dis,
         NEW entries, NEW forget, Store(entries, forget, {}),
         \/ entries = Statused(jobs, {s})
         \/ entries = <<>> /\ forget = LastProc(jobs[s]).pid,
         jobs' = Without(jobs, {s}), disowned' = dis,
         UNCHANGED <<the_pipeline, kid, code, tail, answer>>
  PROVE  Core(jobs', the_pipeline', saved', kid', code', tail', answer', known', disowned')
  <1> DEFINE new == Without(jobs, {s})
  <1>1. Fits(jobs) /\ IsTable(jobs)
    BY TableIsFit
  <1>2. SubTable(new, jobs) /\ DOMAIN new = DOMAIN jobs \ {s}
    BY <1>1, WithoutIsSub
  <1>3. DOMAIN jobs \ DOMAIN new = {s}
    BY <1>2
  <1>4. /\ entries \in Seq(Entry) /\ OneEach(entries)
        /\ \A k \in DOMAIN entries : entries[k] = EntryOf(jobs[s])
        /\ jobs[s].async =>
             LastProc(jobs[s]).pid = forget \/ \E k \in DOMAIN entries : entries[k] = EntryOf(jobs[s])
    <2>1. CASE entries = Statused(jobs, {s})
      <3>1. {s} \in SUBSET DOMAIN jobs
        OBVIOUS
      <3>2. Given(jobs, {s}, entries)
        BY <1>1, <2>1, <3>1, StatusedGiven
      <3> QED BY <3>2 DEF Given
    <2>2. CASE entries = <<>> /\ forget = LastProc(jobs[s]).pid
      <3>1. Given(jobs, {}, entries)
        BY <2>2, GivenNone
      <3> QED BY <2>2, <3>1 DEF Given
    <2> QED BY <2>1, <2>2
  <1>5. PICK lost \in Saved!MayLose(saved, entries) :
            /\ saved' = Stored(saved, entries, lost, forget)
            /\ known' = LeftOver(saved, known \cup {}, lost, forget)
    BY StoreFacts
  <1> HIDE DEF new
  <1>6. /\ Core(jobs, the_pipeline, saved, kid, code, tail, answer, known, disowned)
        /\ TableOK(jobs, kid, code, tail, answer)
        /\ PipelineOK(jobs, the_pipeline, kid, code, tail, answer)
        /\ ChildrenOK(jobs, the_pipeline, kid, disowned)
    BY DEF Inv, Core
  <1>7. /\ \A k \in DOMAIN entries : \E t \in DOMAIN jobs \ DOMAIN new : entries[k] = EntryOf(jobs[t])
        /\ \A t \in DOMAIN jobs \ DOMAIN new : jobs[t].async =>
             LastProc(jobs[t]).pid = forget \/ \E k \in DOMAIN entries : entries[k] = EntryOf(jobs[t])
        /\ \A t \in DOMAIN jobs \ DOMAIN new :
             Dead(jobs[t]) \/ \A p \in Pids : HasPid(jobs[t], p) => p \in dis
    BY <1>3, <1>4
  <1>8. /\ SavedOK(Stored(saved, entries, lost, forget), new, the_pipeline, kid, tail, answer, dis)
        /\ KnownOK(new, the_pipeline, Stored(saved, entries, lost, forget),
                   LeftOver(saved, known, lost, forget))
    BY <1>2, <1>4, <1>6, <1>7, ShrunkSaved
  <1>9. TableOK(new, kid, code, tail, answer) /\ PipelineOK(new, the_pipeline, kid, code, tail, answer)
    BY <1>2, <1>6, ShrunkTable
  <1>10. ChildrenOK(new, the_pipeline, kid, dis)
    BY <1>2, <1>6, <1>7, ShrunkChildren
  <1>11. Core(new, the_pipeline, Stored(saved, entries, lost, forget), kid, code, tail, answer,
              LeftOver(saved, known, lost, forget), dis)
    BY <1>8, <1>9, <1>10 DEF Core
  <1>12. jobs' = new /\ known \cup {} = known
    BY DEF new
  <1> QED BY <1>5, <1>11, <1>12

LEMMA StepReturnJob ==
  ASSUME Inv, pc.at \in Rests, NEW s \in DOMAIN jobs, Dead(jobs[s]), NEW asked, ReturnJob(s, asked)
  PROVE  Inv'
  <1> DEFINE entries == IF posix THEN <<>> ELSE Statused(jobs, {s})
             forget == IF posix THEN LastProc(jobs[s]).pid ELSE NoPid
  <1>1. /\ jobs' = Without(jobs, {s})
        /\ Store(entries, forget, {})
        /\ Report("next", LastProc(jobs[s]).pid, asked, ExitStatus(jobs[s]))
        /\ pc' = Idle
        /\ UNCHANGED <<posix, the_pipeline, last_asynchronous_pid, kid, code, forks,
                       tail, answer, disowned>>
    BY DEF ReturnJob, kernelVars
  <1>2. \/ entries = Statused(jobs, {s})
        \/ entries = <<>> /\ forget = LastProc(jobs[s]).pid
    OBVIOUS
  <1> HIDE DEF entries, forget
  <1>3. Core(jobs', the_pipeline', saved', kid', code', tail', answer', known', disowned')
    BY <1>1, <1>2, DropCore
  <1>4. AnswersAreTrue'
    BY <1>1, JobFacts, JobAnswer
  <1>5. \A t \in DOMAIN jobs' : t \in DOMAIN jobs /\ jobs'[t].async = jobs[t].async
    <2>1. IsTable(jobs)
      BY TableIsFit
    <2>2. SubTable(Without(jobs, {s}), jobs)
      BY <2>1, WithoutIsSub
    <2>3. SubTable(jobs', jobs)
      BY <1>1, <2>2
    <2> QED BY <2>3 DEF SubTable
  <1>6. PlaceOK(pc', jobs', the_pipeline')
    BY <1>1, <1>5, PidOfPlace, RestsFacts, PlaceRest
  <1>7. KernelOK'
    BY <1>1 DEF Inv, KernelOK
  <1> QED BY <1>3, <1>4, <1>6, <1>7 DEF Inv

LEMMA StepNextDead ==
  ASSUME Inv, NEW asked, NextDead(asked)
  PROVE  Inv'
  <1> DEFINE s == Min(Fresh(asked))
  <1>1. pc.at = "idle" /\ Fresh(asked) # {} /\ ReturnJob(s, asked)
    BY DEF NextDead, Asks
  <1>2. Fresh(asked) \in SUBSET DOMAIN jobs /\ \A t \in Fresh(asked) : Dead(jobs[t])
    BY DEF Fresh
  <1>3. s \in Fresh(asked)
    BY <1>1, <1>2, BackgroundMin
  <1> HIDE DEF s
  <1> QED BY <1>1, <1>2, <1>3, RestsFacts, StepReturnJob

LEMMA StepLoopHead ==
  ASSUME Inv, LoopHead
  PROVE  Inv'
  <1> DEFINE first == Background \cup Fresh(pc.pid)
             s == Min(first)
  <1>1. pc.at = "next" /\ pc.at \in Rests /\ "any called" \in Rests
    BY RestsFacts DEF LoopHead
  <1>2. CASE first = {}
    <2>1. ReturnUnknown(pc.pid)
      BY <1>2 DEF LoopHead
    <2> QED BY <1>1, <2>1, StepReturnUnknown
  <1>3. CASE first # {} /\ s \in Background
    <2>1. GoTo("any called")
      BY <1>3 DEF LoopHead
    <2> QED BY <1>1, <2>1, StepGoTo
  <1>4. CASE first # {} /\ s \notin Background
    <2>1. ReturnJob(s, pc.pid)
      BY <1>4 DEF LoopHead
    <2>2. first \in SUBSET DOMAIN jobs /\ \A t \in Fresh(pc.pid) : Dead(jobs[t])
      BY DEF Background, Fresh
    <2>3. s \in first
      BY <1>4, <2>2, BackgroundMin
    <2>4. s \in DOMAIN jobs /\ Dead(jobs[s])
      BY <1>4, <2>2, <2>3
    <2> HIDE DEF s, first
    <2> QED BY <1>1, <2>1, <2>4, StepReturnJob
  <1> QED BY <1>2, <1>3, <1>4

LEMMA StepScan ==
  ASSUME Inv, Scan
  PROVE  Inv'
  <1> DEFINE dead == {s \in DOMAIN jobs : Listed(s, pc.pid) /\ Dead(jobs[s])}
             s == Min(dead)
  <1>1. pc.at = "scan" /\ pc.at \in Rests /\ "next" \in Rests
    BY RestsFacts DEF Scan
  <1>2. CASE dead = {}
    <2>1. GoTo("next")
      BY <1>2 DEF Scan
    <2> QED BY <1>1, <2>1, StepGoTo
  <1>3. CASE dead # {}
    <2>1. ReturnJob(s, pc.pid)
      BY <1>3 DEF Scan
    <2>2. dead \in SUBSET DOMAIN jobs /\ \A t \in dead : Dead(jobs[t])
      OBVIOUS
    <2>3. s \in dead
      BY <1>3, <2>2, BackgroundMin
    <2> HIDE DEF s, dead
    <2> QED BY <1>1, <2>1, <2>2, <2>3, StepReturnJob
  <1> QED BY <1>2, <1>3

\* Forgetting a saved status changes no job.
LEMMA ForgetCore ==
  ASSUME Inv, NEW forget, Store(<<>>, forget, {}),
         UNCHANGED <<jobs, the_pipeline, kid, code, tail, answer, disowned>>
  PROVE  Core(jobs', the_pipeline', saved', kid', code', tail', answer', known', disowned')
  <1>1. Cleared(jobs, jobs', <<>>)
    BY TableIsFit, ClearedStart
  <1> QED BY <1>1, ClearingCore

LEMMA StepForget ==
  ASSUME Inv, pc.at \in Rests, NEW forget, Store(<<>>, forget, {}), AnswersAreTrue',
         pc' = Idle \/ pc' = pc,
         UNCHANGED <<posix, jobs, the_pipeline, last_asynchronous_pid, kernelVars,
                     tail, answer, disowned>>
  PROVE  Inv'
  <1>1. UNCHANGED <<posix, jobs, the_pipeline, last_asynchronous_pid, kid, code, forks,
                    tail, answer, disowned>>
    BY DEF kernelVars
  <1>2. Core(jobs', the_pipeline', saved', kid', code', tail', answer', known', disowned')
    BY <1>1, ForgetCore
  <1>3. KernelOK'
    BY <1>1 DEF Inv, KernelOK
  <1>4. PlaceOK(pc', jobs', the_pipeline')
    BY <1>1, PidOfPlace, RestsFacts, PlaceRest
  <1> QED BY <1>2, <1>3, <1>4 DEF Inv

\* A status that is found is that of an entry for the pid.
LEMMA LookupFacts ==
  ASSUME Inv, NEW p, Saved!Lookup(saved, p) # NotYet
  PROVE  /\ Saved!Newest(saved, p) \in DOMAIN saved
         /\ saved[Saved!Newest(saved, p)].pid = p
         /\ Saved!Lookup(saved, p) = saved[Saved!Newest(saved, p)].status
  <1> DEFINE places == Saved!Positions(saved, p)
             i == Saved!Newest(saved, p)
  <1>1. places # {}
    BY DEF Saved!Lookup, NotYet
  <1>2. saved \in Seq(Entry)
    BY DEF Inv, Core, SavedOK
  <1>3. /\ places \subseteq 1 .. Len(saved) /\ Len(saved) \in Nat /\ DOMAIN saved = 1 .. Len(saved)
        /\ \A k \in places : saved[k].pid = p
    BY <1>2 DEF Saved!Positions
  <1>4. IsFiniteSet(places) /\ places \in SUBSET Int
    <2>1. IsFiniteSet(1 .. Len(saved))
      BY <1>3, FS_Interval
    <2> QED BY <1>3, <2>1, FS_Subset
  <1>5. \E k \in places : \A m \in places : m <= k
    BY <1>1, <1>4, LargestElement
  <1>6. i \in places
    BY <1>5 DEF Saved!Newest
  <1>7. Saved!Lookup(saved, p) = saved[i].status
    BY <1>1 DEF Saved!Lookup
  <1> HIDE DEF places, i
  <1>8. i \in DOMAIN saved /\ saved[i].pid = p /\ Saved!Lookup(saved, p) = saved[i].status
    BY <1>3, <1>6, <1>7
  <1> QED BY <1>8 DEF i

LEMMA StepWaitSavedPid ==
  ASSUME Inv, NEW p \in Pids, WaitSavedPid(p)
  PROVE  Inv'
  <1> DEFINE k == Saved!Newest(saved, p)
             forget == IF posix THEN p ELSE NoPid
  <1>1. /\ pc.at = "idle" /\ Saved!Lookup(saved, p) # NotYet
        /\ Store(<<>>, forget, {})
        /\ Report("pid", p, p, Saved!Lookup(saved, p)) /\ pc' = pc
        /\ UNCHANGED <<posix, jobs, the_pipeline, last_asynchronous_pid, kernelVars,
                       tail, answer, disowned>>
    BY DEF WaitSavedPid
  <1>2. k \in DOMAIN saved /\ saved[k].pid = p /\ Saved!Lookup(saved, p) = saved[k].status
    BY <1>1, LookupFacts
  <1> HIDE DEF k, forget
  <1>3. Report("pid", saved[k].pid, p, saved[k].status)
    BY <1>1, <1>2
  <1>4. AnswersAreTrue'
    BY <1>1, <1>2, <1>3, SavedAnswer
  <1> QED BY <1>1, <1>4, RestsFacts, StepForget

LEMMA StepReturnSaved ==
  ASSUME Inv, pc.at \in Rests, NEW k \in DOMAIN saved, NEW asked, ReturnSaved(k, asked)
  PROVE  Inv'
  <1> DEFINE forget == IF posix THEN saved[k].pid ELSE NoPid
  <1>1. /\ Store(<<>>, forget, {})
        /\ Report("next", saved[k].pid, asked, saved[k].status) /\ pc' = Idle
        /\ UNCHANGED <<posix, jobs, the_pipeline, last_asynchronous_pid, kernelVars,
                       tail, answer, disowned>>
    BY DEF ReturnSaved
  <1> HIDE DEF forget
  <1>2. AnswersAreTrue'
    BY <1>1, SavedAnswer
  <1> QED BY <1>1, <1>2, StepForget

LEMMA StepNextSaved ==
  ASSUME Inv, NEW asked, NextSaved(asked)
  PROVE  Inv'
  <1>1. pc.at = "idle" /\ Saved!Lookup(saved, asked) # NotYet
        /\ ReturnSaved(Saved!Newest(saved, asked), asked)
    BY DEF NextSaved
  <1>2. Saved!Newest(saved, asked) \in DOMAIN saved
    BY <1>1, LookupFacts
  <1> QED BY <1>1, <1>2, RestsFacts, StepReturnSaved

LEMMA StepNextFindOne ==
  ASSUME Inv, NEW asked, NextFindOne(asked)
  PROVE  Inv'
  <1>1. pc.at = "idle" /\ \E k \in DOMAIN saved : ReturnSaved(k, asked)
    BY DEF NextFindOne, Asks
  <1>2. pc.at \in Rests
    BY <1>1, RestsFacts
  <1> QED BY <1>1, <1>2, StepReturnSaved

\* Cleaning up at a place of rest.
LEMMA StepClearing ==
  ASSUME Inv, pc.at \in Rests, NEW entries, Cleared(jobs, jobs', entries),
         Store(entries, NoPid, {}), ret' = NoRet,
         UNCHANGED <<posix, the_pipeline, last_asynchronous_pid, pc, kernelVars,
                     tail, answer, disowned>>
  PROVE  Inv'
  <1>1. UNCHANGED <<posix, the_pipeline, last_asynchronous_pid, kid, code, forks,
                    tail, answer, disowned>>
    BY DEF kernelVars
  <1>2. Core(jobs', the_pipeline', saved', kid', code', tail', answer', known', disowned')
    BY <1>1, ClearingCore
  <1>3. KernelOK'
    BY <1>1 DEF Inv, KernelOK
  <1>4. \A s \in DOMAIN jobs' : s \in DOMAIN jobs /\ jobs'[s].async = jobs[s].async
    BY DEF Cleared, SubTable
  <1>5. PlaceOK(pc', jobs', the_pipeline')
    BY <1>1, <1>4, PidOfPlace, RestsFacts, PlaceRest
  <1> QED BY <1>2, <1>3, <1>5, NoAnswer DEF Inv

LEMMA StepTidy ==
  ASSUME Inv, NEW slots, Tidy(Flag(jobs, slots))
  PROVE  Inv'
  <1> DEFINE new == Flag(jobs, slots)
  <1>1. /\ pc.at = "idle" /\ jobs' = CleanedUp(new)
        /\ Store(CleanedStatuses(new), NoPid, {}) /\ ret' = NoRet
        /\ UNCHANGED <<posix, the_pipeline, last_asynchronous_pid, pc, kernelVars,
                       tail, answer, disowned>>
    BY DEF Tidy
  <1>2. Cleared(jobs, new, <<>>)
    BY TableIsFit, ClearedStart, ClearedFlag
  <1> HIDE DEF new
  <1>3. Cleared(jobs, jobs', CleanedStatuses(new))
    BY <1>1, <1>2, TableIsFit, ClearedFirst
  <1> QED BY <1>1, <1>3, RestsFacts, StepClearing

LEMMA StepReadCommand ==
  ASSUME Inv, ReadCommand
  PROVE  Inv'
  BY StepTidy DEF ReadCommand, Notified

LEMMA StepLoopRound ==
  ASSUME Inv, LoopRound
  PROVE  Inv'
  <1>1. \E slots : Tidy(Flag(jobs, slots))
    BY DEF LoopRound, MarkedDead
  <1> QED BY <1>1, StepTidy

LEMMA StepJobsBuiltin ==
  ASSUME Inv, JobsBuiltin
  PROVE  Inv'
  <1> DEFINE clean == CleanedUp(jobs)
             new == Flag(clean, DOMAIN clean)
             first == CleanedStatuses(jobs)
             second == CleanedStatuses(new)
  <1>1. /\ pc.at = "idle" /\ jobs' = CleanedUp(new)
        /\ Store(first \o second, NoPid, {}) /\ ret' = NoRet
        /\ UNCHANGED <<posix, the_pipeline, last_asynchronous_pid, pc, kernelVars,
                       tail, answer, disowned>>
    BY DEF JobsBuiltin
  <1>2. Cleared(jobs, clean, first)
    BY TableIsFit, ClearedStart, ClearedFirst
  <1>3. Cleared(jobs, new, first)
    BY <1>2, ClearedFlag
  <1>4. Cleared(jobs, CleanedUp(new), first \o second)
    BY <1>3, TableIsFit, ClearedStep
  <1> HIDE DEF new, first, second
  <1>5. Cleared(jobs, jobs', first \o second)
    BY <1>1, <1>4
  <1> QED BY <1>1, <1>5, RestsFacts, StepClearing

LEMMA StepDisown ==
  ASSUME Inv, NEW p \in Pids, Disown(p)
  PROVE  Inv'
  <1> DEFINE s == FindJob(jobs, p)
             dis == disowned \cup {r \in Pids : HasPid(jobs[s], r)}
  <1>1. /\ pc.at = "idle" /\ s # NoJob /\ jobs' = Without(jobs, {s})
        /\ Store(Statused(jobs, {s}), NoPid, {})
        /\ disowned' = dis /\ ret' = NoRet
        /\ UNCHANGED <<posix, the_pipeline, last_asynchronous_pid, pc, kid, code, forks,
                       tail, answer>>
    BY DEF Disown, kernelVars
  <1>2. s \in DOMAIN jobs
    BY <1>1, TableIsFit, FindFacts
  <1>3. disowned \subseteq dis /\ \A r \in Pids : HasPid(jobs[s], r) => r \in dis
    OBVIOUS
  <1>4. KernelOK'
    <2>1. disowned' \subseteq Pids
      BY <1>1 DEF Inv, KernelOK
    <2> QED BY <1>1, <2>1 DEF Inv, KernelOK
  <1> HIDE DEF s, dis
  <1>5. Core(jobs', the_pipeline', saved', kid', code', tail', answer', known', disowned')
    <2> DEFINE entries == Statused(jobs, {s})
    <2>1. Store(entries, NoPid, {}) /\ entries = Statused(jobs, {s})
      BY <1>1
    <2> HIDE DEF entries
    <2> QED BY <1>1, <1>2, <1>3, <2>1, DropCore
  <1>6. \A t \in DOMAIN jobs' : t \in DOMAIN jobs /\ jobs'[t].async = jobs[t].async
    <2>1. IsTable(jobs)
      BY TableIsFit
    <2>2. SubTable(Without(jobs, {s}), jobs)
      BY <2>1, WithoutIsSub
    <2>3. SubTable(jobs', jobs)
      BY <1>1, <2>2
    <2> QED BY <2>3 DEF SubTable
  <1>7. PlaceOK(pc', jobs', the_pipeline')
    BY <1>1, <1>6, PidOfPlace, RestsFacts, PlaceRest
  <1> QED BY <1>1, <1>4, <1>5, <1>7, NoAnswer DEF Inv

LEMMA StepWaitAllDone ==
  ASSUME Inv, WaitAllDone
  PROVE  Inv'
  <1> DEFINE new == MarkedDead(jobs, TRUE)
  <1>1. /\ pc.at = "all" /\ jobs' = CleanedUp(new) /\ saved' = <<>> /\ known' = {}
        /\ pc' = Idle /\ ret' = NoRet
        /\ UNCHANGED <<posix, the_pipeline, last_asynchronous_pid, kid, code, forks,
                       tail, answer, disowned>>
    BY DEF WaitAllDone, kernelVars
  <1>2. Cleared(jobs, new, <<>>)
    BY TableIsFit, ClearedStart, ClearedFlag DEF MarkedDead
  <1> HIDE DEF new
  <1>3. Cleared(jobs, jobs', CleanedStatuses(new))
    BY <1>1, <1>2, TableIsFit, ClearedFirst
  <1>4. SubTable(jobs', jobs) /\ \A s \in DOMAIN jobs \ DOMAIN jobs' : Dead(jobs[s])
    BY <1>3 DEF Cleared
  <1>5. /\ TableOK(jobs, kid, code, tail, answer)
        /\ PipelineOK(jobs, the_pipeline, kid, code, tail, answer)
        /\ ChildrenOK(jobs, the_pipeline, kid, disowned)
    BY DEF Inv, Core
  <1>6. /\ TableOK(jobs', kid, code, tail, answer)
        /\ PipelineOK(jobs', the_pipeline, kid, code, tail, answer)
    BY <1>4, <1>5, ShrunkTable
  <1>7. ChildrenOK(jobs', the_pipeline, kid, disowned)
    BY <1>4, <1>5, ShrunkChildren
  <1>8. SavedOK(<<>>, jobs', the_pipeline, kid, tail, answer, disowned)
    <2>1. <<>> \in Seq(Entry) /\ DOMAIN <<>> = {}
      OBVIOUS
    <2> QED BY <2>1 DEF SavedOK, OneEach
  <1>9. KnownOK(jobs', the_pipeline, <<>>, {})
    BY DEF KnownOK
  <1>10. Core(jobs', the_pipeline, <<>>, kid, code, tail, answer, {}, disowned)
    BY <1>6, <1>7, <1>8, <1>9 DEF Core
  <1>11. Core(jobs', the_pipeline', saved', kid', code', tail', answer', known', disowned')
    BY <1>1, <1>10
  <1>12. \A s \in DOMAIN jobs' : s \in DOMAIN jobs /\ jobs'[s].async = jobs[s].async
    BY <1>4 DEF SubTable
  <1>13. PlaceOK(pc', jobs', the_pipeline')
    BY <1>1, <1>12, PidOfPlace, RestsFacts, PlaceRest
  <1>14. KernelOK'
    BY <1>1 DEF Inv, KernelOK
  <1> QED BY <1>1, <1>11, <1>13, <1>14, NoAnswer DEF Inv

-----------------------------------------------------------------------------
(***************************************************************************)
(* All steps keep the invariant.                                           *)
(***************************************************************************)
LEMMA ShellKeepsInv ==
  ASSUME Inv, ShellStep
  PROVE  Inv'
  <1>1. CASE StopPipeline
    BY <1>1, StepStopPipeline
  <1>2. CASE EnterWaitFor
    BY <1>2, StepEnterWaitFor
  <1>3. ASSUME NEW q \in Pids, ReapBlocking(q) PROVE Inv'
    BY <1>3, StepReapBlocking
  <1>4. CASE FinishWaitFor
    BY <1>4, StepFinishWaitFor
  <1>5. CASE WaitAllNext
    BY <1>5, StepWaitAllNext
  <1>6. CASE WaitAllDone
    BY <1>6, StepWaitAllDone
  <1>7. CASE LoopHead
    BY <1>7, StepLoopHead
  <1>8. CASE EnterWaitAny
    BY <1>8, StepEnterWaitAny
  <1>9. ASSUME NEW q \in Pids, ReapAny(q) PROVE Inv'
    BY <1>9, StepReapAny
  <1>10. CASE WaitAnyEchild
    BY <1>10, StepWaitAnyEchild
  <1>11. CASE Scan
    BY <1>11, StepScan
  <1> QED
    BY <1>1, <1>2, <1>3, <1>4, <1>5, <1>6, <1>7, <1>8, <1>9, <1>10, <1>11 DEF ShellStep

LEMMA ForkKeepsInv ==
  ASSUME Inv, NEW q \in Pids
  PROVE  /\ \A by \in {"async", "fg"} : Simple(q, by) => Inv'
         /\ \A by \in {"async pipe", "fg pipe"} : Piped(q, by) => Inv'
         /\ PipedNext(q) => Inv'
  <1>1. ASSUME NEW by \in {"async", "fg"}, Simple(q, by) PROVE Inv'
    <2>1. pc.at = "idle" /\ MakeChild(q, by = "async") /\ pc' = At("making", by, q)
      BY <1>1 DEF Simple
    <2> QED BY <2>1, StepMake
  <1>2. ASSUME NEW by \in {"async pipe", "fg pipe"}, Piped(q, by) PROVE Inv'
    <2>1. pc.at = "idle" /\ MakeChild(q, by = "async pipe") /\ pc' = At("making", by, q)
      BY <1>2 DEF Piped
    <2> QED BY <2>1, StepMake
  <1>3. ASSUME PipedNext(q) PROVE Inv'
    <2>1. /\ pc.at = "making" /\ pc.by \in {"async pipe", "fg pipe"}
          /\ MakeChild(q, pc.by = "async pipe") /\ pc' = At("making", pc.by, q)
      BY <1>3 DEF PipedNext
    <2> QED BY <2>1, StepMake
  <1> QED BY <1>1, <1>2, <1>3

LEMMA WaitKeepsInv ==
  ASSUME Inv, NEW q \in Pids
  PROVE  WaitKnownPid(q) \/ WaitSavedPid(q) \/ WaitUnknownPid(q)
         \/ NextSaved(q) \/ NextUnlisted(q) \/ Disown(q) => Inv'
  BY StepWaitKnownPid, StepWaitSavedPid, StepWaitUnknownPid, StepNextSaved,
     StepNextUnlisted, StepDisown

LEMMA NextKeepsInv ==
  ASSUME Inv, NEW asked \in Pids \cup {NoPid}
  PROVE  NextDead(asked) \/ NextFindOne(asked) \/ NextLoop(asked) => Inv'
  BY StepNextDead, StepNextFindOne, StepNextLoop

\* The first steps of the commands.
LEMMA CommandKeepsInv ==
  ASSUME Inv, Command
  PROVE  Inv'
  <1>1. CASE \E q \in Pids : \/ \E by \in {"async", "fg"} : Simple(q, by)
                             \/ \E by \in {"async pipe", "fg pipe"} : Piped(q, by)
                             \/ PipedNext(q)
    BY <1>1, ForkKeepsInv
  <1>2. CASE \E q \in Pids : WaitKnownPid(q) \/ WaitSavedPid(q) \/ WaitUnknownPid(q)
                             \/ NextSaved(q) \/ NextUnlisted(q) \/ Disown(q)
    <2>1. PICK q \in Pids : WaitKnownPid(q) \/ WaitSavedPid(q) \/ WaitUnknownPid(q)
                            \/ NextSaved(q) \/ NextUnlisted(q) \/ Disown(q)
      BY <1>2
    <2> QED BY <2>1, WaitKeepsInv
  <1>3. CASE \E asked \in Pids \cup {NoPid} :
               NextDead(asked) \/ NextFindOne(asked) \/ NextLoop(asked)
    BY <1>3, NextKeepsInv
  <1>4. CASE WaitAll \/ ReadCommand \/ LoopRound \/ JobsBuiltin
    BY <1>4, StepWaitAll, StepReadCommand, StepLoopRound, StepJobsBuiltin
  <1> QED BY <1>1, <1>2, <1>3, <1>4 DEF Command

LEMMA InvNext == Inv /\ [Next]_vars => Inv'
  <1> SUFFICES ASSUME Inv, [Next]_vars PROVE Inv'
    OBVIOUS
  <1>1. CASE SomeExit
    BY <1>1, StepExit DEF SomeExit
  <1>2. ASSUME NEW q \in Pids, Handler(q) PROVE Inv'
    BY <1>2, StepHandler
  <1>3. CASE ShellStep
    BY <1>3, ShellKeepsInv
  <1>4. CASE Command
    BY <1>4, CommandKeepsInv
  <1>5. CASE UNCHANGED vars
    BY <1>5 DEF vars, shellVars, kernelVars, historyVars, Inv, KernelOK, AnswersAreTrue
  <1> QED BY <1>1, <1>2, <1>3, <1>4, <1>5 DEF Next

LEMMA SpecInv == Spec => []Inv
  BY InvInit, InvNext, PTL DEF Spec

-----------------------------------------------------------------------------
(***************************************************************************)
(* What the invariant says.                                                *)
(***************************************************************************)
LEMMA InvParts ==
  ASSUME Inv
  PROVE  /\ TableOK(jobs, kid, code, tail, answer)
         /\ PipelineOK(jobs, the_pipeline, kid, code, tail, answer)
         /\ SavedOK(saved, jobs, the_pipeline, kid, tail, answer, disowned)
         /\ KnownOK(jobs, the_pipeline, saved, known)
         /\ ChildrenOK(jobs, the_pipeline, kid, disowned)
  BY DEF Inv, Core

LEMMA InvTypeOK == Inv => TypeOK
  <1> SUFFICES ASSUME Inv PROVE TypeOK
    OBVIOUS
  <1>1. DOMAIN jobs \subseteq Nat
    BY TableIsFit DEF IsTable
  <1>2. \A s \in DOMAIN jobs : jobs[s] \in Job /\ jobs[s].pipe # <<>>
    BY JobFacts
  <1>3. the_pipeline \in Seq(Proc)
    BY InvParts DEF PipelineOK, PipeOK
  <1>4. Saved!TypeOK
    BY InvParts DEF SavedOK, Saved!TypeOK, Saved!Entry, Entry
  <1>5. known \subseteq Pids
    BY InvParts DEF KnownOK
  <1>6. the_pipeline # <<>> <=> pc.at = "making"
    BY PipeEmpty DEF Inv
  <1>7. KernelOK
    BY DEF Inv
  <1> QED BY <1>1, <1>2, <1>3, <1>4, <1>5, <1>6, <1>7 DEF TypeOK, KernelOK

LEMMA InvRecordsMatchKernel == Inv => RecordsMatchKernel
  <1> SUFFICES ASSUME Inv PROVE RecordsMatchKernel
    OBVIOUS
  <1>1. ASSUME NEW s \in DOMAIN jobs PROVE jobs[s].state = PipeState(jobs[s].pipe)
    BY JobFacts DEF JobOK
  <1>2. ASSUME NEW s \in DOMAIN jobs, NEW k \in DOMAIN jobs[s].pipe, jobs[s].pipe[k].running
        PROVE  jobs[s].pipe[k].pid \in Pids /\ kid[jobs[s].pipe[k].pid] # "none"
    <2>1. LiveOK(jobs[s].pipe, kid) /\ jobs[s].pipe \in Seq(Proc)
      BY JobFacts DEF JobOK, PipeOK
    <2>2. jobs[s].pipe[k] \in Proc
      BY <2>1
    <2>3. jobs[s].pipe[k].pid \in Pids \cup {0}
      BY <2>2 DEF Proc
    <2> QED BY <1>2, <2>1, <2>3 DEF LiveOK
  <1>3. ASSUME NEW k \in DOMAIN the_pipeline, the_pipeline[k].running
        PROVE  kid[the_pipeline[k].pid] # "none"
    BY <1>3, InvParts DEF PipelineOK, PipeOK, LiveOK
  <1> QED BY <1>1, <1>2, <1>3 DEF RecordsMatchKernel

LEMMA InvKnownIsFound == Inv => KnownIsFound
  <1> SUFFICES ASSUME Inv, NEW p \in known, NEW k \in DOMAIN saved, saved[k].pid = p
               PROVE  Saved!Lookup(saved, p) # NotYet
    BY InvParts DEF KnownIsFound, KnownOK
  <1>1. p \in Pids /\ p # 0
    BY InvParts, PidAssumption DEF KnownOK
  <1>2. Saved!Positions(saved, p) = {k}
    BY <1>1, InvParts DEF SavedOK, OneEach, Saved!Positions
  <1>3. saved[k] \in Entry
    BY InvParts DEF SavedOK
  <1>4. saved[k].status \in Nat
    <2>1. saved[k].status \in Statuses \cup {0}
      BY <1>3 DEF Entry
    <2>2. \A x \in Statuses \cup {0} : x \in Nat
      BY StatusAssumption
    <2> QED BY <2>1, <2>2
  <1>5. k \in Int
    BY InvParts DEF SavedOK
  <1>6. Saved!Newest(saved, p) = k
    BY <1>2, <1>5 DEF Saved!Newest
  <1>7. Saved!Lookup(saved, p) = saved[k].status
    BY <1>2, <1>6 DEF Saved!Lookup
  <1> QED BY <1>4, <1>7 DEF NotYet

LEMMA InvForegroundIsGone == Inv => ForegroundIsGone
  BY NoForeground DEF Inv, ForegroundIsGone

LEMMA InvChildrenRecorded == Inv => ChildrenRecorded
  BY InvParts DEF ChildrenOK, ChildrenRecorded

\* A set whose elements are all the same has none or one.
LEMMA AtMostOne ==
  ASSUME NEW S, \A a, b \in S : a = b
  PROVE  \/ S = {} /\ Cardinality(S) = 0
         \/ S # {} /\ Cardinality(S) = 1
  <1>1. CASE S = {}
    BY <1>1, FS_EmptySet
  <1>2. CASE S # {}
    <2>1. PICK a \in S : TRUE
      BY <1>2
    <2>2. S = {a}
      BY <2>1
    <2>3. Cardinality({a}) = 1
      BY FS_Singleton
    <2> QED BY <1>2, <2>2, <2>3
  <1> QED BY <1>1, <1>2

LEMMA InvPidsUnique == Inv => PidsUnique
  <1> SUFFICES ASSUME Inv, NEW p \in Pids
               PROVE  Cardinality(Records(p)) + Cardinality(Saved!Positions(saved, p)) <= 1
    BY DEF PidsUnique
  <1>1. p # 0
    BY PidAssumption
  <1> DEFINE inTable == {r \in (DOMAIN jobs) \X (1 .. MaxPipe) :
                           r[2] \in DOMAIN jobs[r[1]].pipe /\ jobs[r[1]].pipe[r[2]].pid = p}
             inPipeline == {k \in DOMAIN the_pipeline : the_pipeline[k].pid = p}
  <1>2. Records(p) = inTable \cup {NoJob} \X inPipeline
    BY DEF Records
  <1>3. ASSUME NEW a \in inTable, NEW b \in inTable PROVE a = b
    <2>1. PICK s \in DOMAIN jobs, k \in 1 .. MaxPipe : a = <<s, k>>
      OBVIOUS
    <2>2. PICK t \in DOMAIN jobs, m \in 1 .. MaxPipe : b = <<t, m>>
      OBVIOUS
    <2>3. k \in DOMAIN jobs[s].pipe /\ jobs[s].pipe[k].pid = p
      BY <2>1
    <2>4. m \in DOMAIN jobs[t].pipe /\ jobs[t].pipe[m].pid = p
      BY <2>2
    <2>5. p \in PidsIn(jobs[s].pipe) /\ p \in PidsIn(jobs[t].pipe)
      BY <1>1, <2>3, <2>4 DEF PidsIn
    <2>6. s = t
      BY <2>5, InvParts DEF TableOK, Disjoint
    <2>7. OneEach(jobs[s].pipe)
      BY JobFacts DEF JobOK, PipeOK
    <2>8. k = m
      BY <1>1, <2>3, <2>4, <2>6, <2>7 DEF OneEach
    <2> QED BY <2>1, <2>2, <2>6, <2>8
  <1>4. ASSUME NEW k \in inPipeline, NEW m \in inPipeline PROVE k = m
    BY <1>1, InvParts DEF PipelineOK, PipeOK, OneEach
  <1>5. ASSUME NEW a \in inTable, NEW k \in inPipeline PROVE FALSE
    <2>1. PICK s \in DOMAIN jobs, m \in 1 .. MaxPipe : a = <<s, m>>
      OBVIOUS
    <2>2. p \in PidsIn(jobs[s].pipe) /\ p \in PidsIn(the_pipeline)
      BY <1>1, <2>1 DEF PidsIn
    <2> QED BY <2>2, InvParts DEF PipelineOK
  <1> HIDE DEF inTable, inPipeline
  <1>6. ASSUME NEW a \in Records(p), NEW b \in Records(p) PROVE a = b
    <2>1. CASE a \in inTable /\ b \in inTable
      BY <1>3, <2>1
    <2>2. CASE a \in {NoJob} \X inPipeline /\ b \in {NoJob} \X inPipeline
      BY <1>4, <2>2
    <2>3. CASE a \in inTable /\ b \in {NoJob} \X inPipeline
      BY <1>5, <2>3
    <2>4. CASE a \in {NoJob} \X inPipeline /\ b \in inTable
      BY <1>5, <2>4
    <2> QED BY <1>2, <2>1, <2>2, <2>3, <2>4
  <1>7. \A k, m \in Saved!Positions(saved, p) : k = m
    BY <1>1, InvParts DEF SavedOK, OneEach, Saved!Positions
  <1>8. ASSUME NEW r \in Records(p), NEW k \in Saved!Positions(saved, p) PROVE FALSE
    <2>1. k \in DOMAIN saved /\ saved[k].pid = p
      BY DEF Saved!Positions
    <2>2. /\ p \notin PidsIn(the_pipeline)
          /\ \A s \in DOMAIN jobs : p \notin PidsIn(jobs[s].pipe)
      BY <1>1, <2>1, InvParts DEF SavedOK
    <2>3. CASE r \in inTable
      BY <1>1, <2>2, <2>3 DEF PidsIn, inTable
    <2>4. CASE r \in {NoJob} \X inPipeline
      BY <1>1, <2>2, <2>4 DEF PidsIn, inPipeline
    <2> QED BY <1>2, <2>3, <2>4
  <1>9. \/ Cardinality(Records(p)) = 0 /\ Records(p) = {}
        \/ Cardinality(Records(p)) = 1 /\ Records(p) # {}
    BY <1>6, AtMostOne
  <1>10. \/ Cardinality(Saved!Positions(saved, p)) = 0 /\ Saved!Positions(saved, p) = {}
         \/ Cardinality(Saved!Positions(saved, p)) = 1 /\ Saved!Positions(saved, p) # {}
    BY <1>7, AtMostOne
  <1> QED BY <1>8, <1>9, <1>10

-----------------------------------------------------------------------------
(***************************************************************************)
(* The theorems.                                                           *)
(***************************************************************************)
\* Whatever is forked, reaped, waited for and disowned, in any order: the table
\* holds jobs of at least one process, and a pipeline is being made exactly
\* while the shell is in execute_pipeline.
THEOREM SpecTypeOK == Spec => []TypeOK
  BY SpecInv, InvTypeOK, PTL

\* make_child keeps a reused pid from meeting its former owner: no two processes
\* of the table and of the pipeline being made, and no process and saved status,
\* have the same pid, although the kernel reuses pids as soon as it can.
THEOREM SpecPidsUnique == Spec => []PidsUnique
  BY SpecInv, InvPidsUnique, PTL

\* The handler and wait_for mark every process they reap, and the right one: a
\* process is recorded as running only while it can still be waited for, and
\* the state of a job is that of its processes.
THEOREM SpecRecordsMatchKernel == Spec => []RecordsMatchKernel
  BY SpecInv, InvRecordsMatchKernel, PTL

\* No child is lost sight of, except by disown.
THEOREM SpecChildrenRecorded == Spec => []ChildrenRecorded
  BY SpecInv, InvChildrenRecorded, PTL

\* A foreground command, "wait pid" and "wait -n" report the status that the
\* pipeline really ended with, from the table or from the saved statuses.
THEOREM SpecAnswersAreTrue == Spec => []AnswersAreTrue
  <1>1. Inv => AnswersAreTrue
    BY DEF Inv
  <1> QED BY <1>1, SpecInv, PTL

\* The status of $! is to be found, in the table or in the saved statuses,
\* whatever notify, cleanup_dead_jobs and delete_job did meanwhile.
THEOREM SpecKnownIsFound == Spec => []KnownIsFound
  BY SpecInv, InvKnownIsFound, PTL

\* wait_for leaves no foreground job in the table, not even one that died of a
\* signal.
THEOREM SpecForegroundIsGone == Spec => []ForegroundIsGone
  BY SpecInv, InvForegroundIsGone, PTL
=============================================================================
