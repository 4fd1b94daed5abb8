-------------------------- MODULE CurrentJobProofs --------------------------
(***************************************************************************)
(* Proofs about the current and the previous job (module CurrentJob), for  *)
(* every size of the table.                                                *)
(*                                                                         *)
(* TableOK and the two predicates on the indices take the table as their   *)
(* parameter, so that a command that deletes several jobs is reasoned      *)
(* about one deletion at a time.                                           *)
(***************************************************************************)
EXTENDS CurrentJob, DataTheorems

Held(t) == DOMAIN t.jobs

IsTable(t) ==
    /\ t = [jobs |-> t.jobs, current |-> t.current, previous |-> t.previous,
            first |-> t.first, last |-> t.last, njobs |-> t.njobs]
    /\ Held(t) \subseteq Slots
    /\ t.jobs \in [Held(t) -> Job]

IndicesExist(t) ==
    /\ {t.current, t.previous} \subseteq Held(t) \cup {NoJob}
    /\ t.current = NoJob <=> t.previous = NoJob

Brackets(t) ==
    /\ t.njobs = Cardinality(Held(t))
    /\ Held(t) = {} => t.first = 0 /\ t.last = 0
    /\ Held(t) # {} => t.first = Min(Held(t)) /\ t.last = Max(Held(t))

TableOK(t) == IsTable(t) /\ IndicesExist(t) /\ Brackets(t)

Reported(t) == \A s \in In(t, "dead") : ~t.jobs[s].notified

\* CurrentIsGood at the prompt, and PreviousIsGood.
CurrentGood(t) ==
    In(t, "stopped") # {} => t.current \in In(t, "stopped") \cup In(t, "dead")
PreviousGood(t) ==
    t.current \in In(t, "stopped") /\ (\E s \in In(t, "stopped") : s < t.current) =>
        t.previous \in (In(t, "stopped") \ {t.current}) \cup In(t, "dead")

\* The same jobs and the same slots in use; the indices may differ.
SameJobs(t, u) ==
    /\ IsTable(u)
    /\ u.jobs = t.jobs /\ u.first = t.first /\ u.last = t.last /\ u.njobs = t.njobs

-----------------------------------------------------------------------------
(***************************************************************************)
(* The choice of the current and the previous job.                         *)
(***************************************************************************)
LEMMA FiniteSlots ==
  ASSUME NEW S, S \subseteq Slots
  PROVE  IsFiniteSet(S) /\ S \in SUBSET Nat /\ S \in SUBSET Int /\ NoJob \notin S
  <1>1. IsFiniteSet(Slots)
    BY MaxJobsAssumption, FS_Interval DEF Slots
  <1>2. IsFiniteSet(S)
    BY <1>1, FS_Subset
  <1> QED BY <1>2, MaxJobsAssumption DEF Slots, NoJob

LEMMA InSlots == \A t, state : IsTable(t) => In(t, state) \subseteq Slots /\ In(t, state) \subseteq Held(t)
  BY DEF IsTable, In, Held

LEMMA MostRecentIs ==
  ASSUME NEW t, IsTable(t), NEW slot \in Int, NEW state
  PROVE  LET m == MostRecent(t, slot, state)
         IN  \/ m = NoJob /\ \A s \in In(t, state) : ~(s < slot)
             \/ m \in In(t, state) /\ m # NoJob /\ m < slot
  <1> DEFINE older == {s \in In(t, state) : s < slot}
  <1>1. CASE older = {}
    BY <1>1 DEF MostRecent
  <1>2. CASE older # {}
    <2>1. older \subseteq Slots
      BY InSlots
    <2>2. IsFiniteSet(older) /\ older \in SUBSET Int /\ NoJob \notin older
      <3> HIDE DEF older
      <3> QED BY <2>1, FiniteSlots
    <2>3. Max(older) \in older
      <3> HIDE DEF older
      <3> QED BY <1>2, <2>2, LargestElement
    <2>4. MostRecent(t, slot, state) = Max(older)
      BY <1>2 DEF MostRecent
    <2> QED BY <2>2, <2>3, <2>4
  <1> QED BY <1>1, <1>2

\* set_current_job leaves two jobs of the table behind, whatever the indices
\* were, and the previous job is an older stopped one if there is one.
LEMMA SetCurrentFacts ==
  ASSUME NEW t, IsTable(t), NEW job \in Held(t)
  PROVE  LET u == SetCurrent(t, job)
         IN  /\ SameJobs(t, u)
             /\ u.current = job /\ u.previous \in Held(t)
             /\ PreviousGood(u)
  <1> DEFINE u == SetCurrent(t, job)
             moved == IF t.current = job THEN t
                      ELSE [t EXCEPT !.current = job, !.previous = t.current]
             stopped == IF IsStopped(t, job) THEN MostRecent(t, job, "stopped") ELSE NoJob
             running == MostRecent(t, IF t.jobs[job].state = "running" THEN job ELSE MaxJobs, "running")
             choice == IF stopped # NoJob THEN stopped
                       ELSE IF running # NoJob THEN running ELSE job
  <1>1. u = IF moved.previous # job /\ IsStopped(t, moved.previous) THEN moved
            ELSE [moved EXCEPT !.previous = choice]
    BY DEF SetCurrent
  <1>2. SameJobs(t, moved) /\ moved.current = job
    <2>1. CASE t.current = job
      BY <2>1 DEF SameJobs
    <2>2. CASE t.current # job
      <3>1. moved = [jobs |-> t.jobs, current |-> job, previous |-> t.current,
                     first |-> t.first, last |-> t.last, njobs |-> t.njobs]
        BY <2>2 DEF IsTable
      <3> HIDE DEF moved
      <3> QED BY <3>1 DEF SameJobs, IsTable, Held
    <2> QED BY <2>1, <2>2
  <1>3. job \in Int /\ MaxJobs \in Int /\ job \in Slots
    BY MaxJobsAssumption DEF IsTable, Slots
  <1>4. \/ stopped = NoJob /\ (IsStopped(t, job) => \A s \in In(t, "stopped") : ~(s < job))
        \/ stopped \in In(t, "stopped") /\ stopped # NoJob /\ stopped < job
    BY <1>3, MostRecentIs
  <1>5. running = NoJob \/ running \in In(t, "running")
    <2>1. (IF t.jobs[job].state = "running" THEN job ELSE MaxJobs) \in Int
      BY <1>3
    <2> QED BY <2>1, MostRecentIs
  <1> HIDE DEF moved, stopped, running
  <1>6. choice \in Held(t)
    BY <1>4, <1>5, InSlots
  <1>7. \A s : IsStopped(t, s) => s \in In(t, "stopped") /\ s \in Held(t)
    BY InSlots DEF IsStopped
  <1>8. CASE moved.previous # job /\ IsStopped(t, moved.previous)
    <2>1. u = moved
      BY <1>1, <1>8
    <2>2. In(u, "stopped") = In(t, "stopped")
      BY <1>2, <2>1 DEF SameJobs, In
    <2>3. PreviousGood(u)
      BY <1>2, <1>7, <1>8, <2>1, <2>2 DEF PreviousGood
    <2> QED BY <1>2, <1>7, <1>8, <2>1, <2>3
  <1>9. CASE ~(moved.previous # job /\ IsStopped(t, moved.previous))
    <2> HIDE DEF choice
    <2>1. u = [jobs |-> t.jobs, current |-> job, previous |-> choice,
               first |-> t.first, last |-> t.last, njobs |-> t.njobs]
      BY <1>1, <1>2, <1>9 DEF SameJobs, IsTable
    <2> HIDE DEF u
    <2>2. SameJobs(t, u) /\ u.current = job /\ u.previous = choice
      BY <2>1 DEF SameJobs, IsTable, Held
    <2>3. In(u, "stopped") = In(t, "stopped")
      BY <2>2 DEF SameJobs, In
    <2>4. PreviousGood(u)
      <3> SUFFICES ASSUME job \in In(t, "stopped"), NEW s \in In(t, "stopped"), s < job
                   PROVE  choice \in In(t, "stopped") \ {job}
        BY <2>2, <2>3 DEF PreviousGood
      <3>1. IsStopped(t, job)
        BY DEF IsStopped
      <3>2. stopped \in In(t, "stopped") /\ stopped # NoJob /\ stopped < job
        BY <1>4, <3>1
      <3>3. choice = stopped
        BY <3>2 DEF choice
      <3> QED BY <1>3, <3>2, <3>3
    <2> QED BY <1>6, <2>2, <2>4 DEF u
  <1> QED BY <1>8, <1>9

\* reset_current finds a stopped job if there is one, and only if no job is
\* stopped or running there is no current job.
LEMMA ResetCurrentFacts ==
  ASSUME NEW t, IsTable(t)
  PROVE  LET u == ResetCurrent(t)
         IN  SameJobs(t, u) /\ IndicesExist(u) /\ CurrentGood(u) /\ PreviousGood(u)
  <1> DEFINE u == ResetCurrent(t)
             stopped == MostRecent(t, MaxJobs, "stopped")
             running == MostRecent(t, MaxJobs, "running")
             job == IF IsStopped(t, t.current) THEN t.current
                    ELSE IF IsStopped(t, t.previous) THEN t.previous
                    ELSE IF stopped # NoJob THEN stopped
                    ELSE running
  <1>1. u = IF job # NoJob THEN SetCurrent(t, job)
            ELSE [t EXCEPT !.current = NoJob, !.previous = NoJob]
    BY DEF ResetCurrent
  <1>2. MaxJobs \in Int /\ \A s \in In(t, "stopped") : s < MaxJobs
    BY MaxJobsAssumption, InSlots DEF Slots
  <1>3. \/ stopped = NoJob /\ In(t, "stopped") = {}
        \/ stopped \in In(t, "stopped") /\ stopped # NoJob
    BY <1>2, MostRecentIs
  <1>4. running = NoJob \/ running \in In(t, "running")
    BY <1>2, MostRecentIs
  <1> HIDE DEF stopped, running
  <1>5. /\ job = NoJob \/ job \in Held(t)
        /\ In(t, "stopped") # {} => job \in In(t, "stopped")
    BY <1>3, <1>4, InSlots DEF IsStopped
  <1>6. NoJob \notin Held(t)
    BY FiniteSlots DEF IsTable
  <1> HIDE DEF job
  <1>7. CASE job # NoJob
    <2>1. /\ SameJobs(t, u) /\ u.current = job /\ u.previous \in Held(t) /\ PreviousGood(u)
      BY <1>1, <1>5, <1>7, SetCurrentFacts
    <2> HIDE DEF u
    <2>2. In(u, "stopped") = In(t, "stopped") /\ Held(u) = Held(t)
      BY <2>1 DEF SameJobs, In, Held
    <2>3. IndicesExist(u)
      BY <1>5, <1>6, <1>7, <2>1, <2>2 DEF IndicesExist
    <2>4. CurrentGood(u)
      BY <1>5, <2>1, <2>2 DEF CurrentGood
    <2> QED BY <2>1, <2>3, <2>4 DEF u
  <1>8. CASE job = NoJob
    <2>1. u = [jobs |-> t.jobs, current |-> NoJob, previous |-> NoJob,
               first |-> t.first, last |-> t.last, njobs |-> t.njobs]
      BY <1>1, <1>8 DEF IsTable
    <2> HIDE DEF u
    <2>2. SameJobs(t, u) /\ u.current = NoJob /\ u.previous = NoJob
      BY <2>1 DEF SameJobs, IsTable, Held
    <2>3. In(u, "stopped") = In(t, "stopped") /\ In(t, "stopped") = {}
      <3>1. In(t, "stopped") = {}
        BY <1>5, <1>6, <1>8, InSlots
      <3> QED BY <2>2, <3>1 DEF SameJobs, In
    <2>4. IndicesExist(u) /\ CurrentGood(u) /\ PreviousGood(u)
      BY <2>2, <2>3 DEF IndicesExist, CurrentGood, PreviousGood
    <2> QED BY <2>2, <2>4 DEF u
  <1> QED BY <1>7, <1>8

-----------------------------------------------------------------------------
(***************************************************************************)
(* Deletions.                                                              *)
(***************************************************************************)
Without(t, slots) == [s \in Held(t) \ slots |-> t.jobs[s]]

LEMMA WithoutJobs ==
  ASSUME NEW t, IsTable(t), NEW slots
  PROVE  /\ DOMAIN Without(t, slots) = Held(t) \ slots
         /\ Without(t, slots) \in [Held(t) \ slots -> Job]
         /\ \A s \in Held(t) \ slots : Without(t, slots)[s] = t.jobs[s]
  BY DEF Without, IsTable

\* The slot that becomes free is the first, the last, or one between; the next
\* one in use is the new first or last.
LEMMA Freed ==
  ASSUME NEW S, S \subseteq Slots, NEW s \in S, NEW R, R = S \ {s}, R # {}
  PROVE  /\ (IF Min(S) \in R THEN Min(S) ELSE After(R, Min(S))) = Min(R)
         /\ (IF Max(S) \in R THEN Max(S) ELSE Before(R, Max(S))) = Max(R)
  <1>1. /\ IsFiniteSet(S) /\ S \in SUBSET Nat /\ S \in SUBSET Int
        /\ IsFiniteSet(R) /\ R \in SUBSET Nat /\ R \in SUBSET Int
    BY FiniteSlots
  <1>2. Min(S) \in S /\ \A r \in S : Min(S) <= r
    BY <1>1, LeastElement
  <1>3. Min(R) \in R /\ \A r \in R : Min(R) <= r
    BY <1>1, LeastElement
  <1>4. Max(S) \in S /\ \A r \in S : r <= Max(S)
    BY <1>1, LargestElement
  <1>5. Max(R) \in R /\ \A r \in R : r <= Max(R)
    BY <1>1, LargestElement
  <1>6. (IF Min(S) \in R THEN Min(S) ELSE After(R, Min(S))) = Min(R)
    <2>1. CASE Min(S) \in R
      <3>1. Min(S) <= Min(R) /\ Min(R) <= Min(S) /\ Min(S) \in Int /\ Min(R) \in Int
        BY <1>1, <1>2, <1>3, <2>1
      <3>2. Min(S) = Min(R)
        BY <3>1
      <3> QED BY <2>1, <3>2
    <2>2. CASE Min(S) \notin R
      <3>1. \A r \in R : r > Min(S)
        <4> SUFFICES ASSUME NEW r \in R PROVE r > Min(S)
          OBVIOUS
        <4>1. r \in S /\ r # Min(S) /\ r \in Int /\ Min(S) \in Int /\ Min(S) <= r
          BY <1>1, <1>2, <2>2
        <4> QED BY <4>1
      <3>2. {r \in R : r > Min(S)} = R
        BY <3>1
      <3>3. \E r \in R : r > Min(S)
        BY <3>1
      <3> QED BY <2>2, <3>2, <3>3 DEF After
    <2> QED BY <2>1, <2>2
  <1>7. (IF Max(S) \in R THEN Max(S) ELSE Before(R, Max(S))) = Max(R)
    <2>1. CASE Max(S) \in R
      <3>1. Max(S) <= Max(R) /\ Max(R) <= Max(S) /\ Max(S) \in Int /\ Max(R) \in Int
        BY <1>1, <1>4, <1>5, <2>1
      <3>2. Max(S) = Max(R)
        BY <3>1
      <3> QED BY <2>1, <3>2
    <2>2. CASE Max(S) \notin R
      <3>1. \A r \in R : r < Max(S)
        <4> SUFFICES ASSUME NEW r \in R PROVE r < Max(S)
          OBVIOUS
        <4>1. r \in S /\ r # Max(S) /\ r \in Int /\ Max(S) \in Int /\ r <= Max(S)
          BY <1>1, <1>4, <2>2
        <4> QED BY <4>1
      <3>2. {r \in R : r < Max(S)} = R
        BY <3>1
      <3>3. \E r \in R : r < Max(S)
        BY <3>1
      <3> QED BY <2>2, <3>2, <3>3 DEF Before
    <2> QED BY <2>1, <2>2
  <1> QED BY <1>6, <1>7

LEMMA RemovedFacts ==
  ASSUME NEW t, TableOK(t), NEW slot \in Held(t)
  PROVE  LET u == Removed(t, slot)
         IN  /\ IsTable(u) /\ Brackets(u)
             /\ u.jobs = Without(t, {slot})
             /\ u.current = t.current /\ u.previous = t.previous
  <1> DEFINE u == Removed(t, slot)
             R == Held(t) \ {slot}
             js == Without(t, {slot})
             kept == [t EXCEPT !.jobs = [s \in DOMAIN t.jobs \ {slot} |-> t.jobs[s]], !.njobs = @ - 1]
             n == t.njobs - 1
             with(first, last) == [jobs |-> js, current |-> t.current, previous |-> t.previous,
                                   first |-> first, last |-> last, njobs |-> n]
  <1>0. IsTable(t) /\ Brackets(t) /\ Held(t) \subseteq Slots
    BY DEF TableOK, IsTable
  <1>1. DOMAIN js = R /\ js \in [R -> Job]
    BY <1>0, WithoutJobs
  <1>2. kept = with(t.first, t.last)
    <2> DEFINE left == [s \in DOMAIN t.jobs \ {slot} |-> t.jobs[s]]
    <2>1. js = left
      BY DEF Without, Held
    <2> HIDE DEF js, left
    <2>2. kept = [t EXCEPT !.jobs = left, !.njobs = n]
      BY DEF left
    <2> HIDE DEF kept, n
    <2> QED BY <1>0, <2>1, <2>2 DEF IsTable
  <1>3. n = Cardinality(R) /\ (n = 0 <=> R = {})
    <2>1. IsFiniteSet(Held(t))
      BY <1>0, FiniteSlots
    <2>2. IsFiniteSet(R) /\ Cardinality(R) = Cardinality(Held(t)) - 1
      BY <2>1, FS_RemoveElement
    <2>3. Cardinality(R) = 0 <=> R = {}
      BY <2>2, FS_EmptySet
    <2> QED BY <1>0, <2>2, <2>3 DEF Brackets
  <1>4. t.first = Min(Held(t)) /\ t.last = Max(Held(t))
    BY <1>0 DEF Brackets
  <1> HIDE DEF js, n, kept
  <1>5. u = IF n = 0 THEN [kept EXCEPT !.first = 0, !.last = 0]
            ELSE IF {t.first, t.last} \subseteq R THEN kept
            ELSE ResetJobIndices(kept)
    <2>1. kept.njobs = n /\ kept.first = t.first /\ kept.last = t.last /\ DOMAIN kept.jobs = R
      BY <1>1, <1>2
    <2> QED BY <2>1 DEF Removed, kept
  <1>6. ResetJobIndices(kept) =
          with(IF t.first \in R THEN t.first ELSE After(R, t.first),
               IF t.last \in R THEN t.last ELSE Before(R, t.last))
    <2>1. kept.first = t.first /\ kept.last = t.last /\ DOMAIN kept.jobs = R
      BY <1>1, <1>2
    <2>2. ResetJobIndices(kept) =
            [kept EXCEPT !.first = IF t.first \in R THEN t.first ELSE After(R, t.first),
                         !.last = IF t.last \in R THEN t.last ELSE Before(R, t.last)]
      <3> HIDE DEF R
      <3> QED BY <2>1 DEF ResetJobIndices
    <2>3. ASSUME NEW a, NEW b, NEW w, w = [kept EXCEPT !.first = a, !.last = b]
          PROVE  w = with(a, b)
      BY <1>2, <2>3
    <2> HIDE DEF R, with
    <2> QED BY <2>2, <2>3
  <1>7. u = IF R = {} THEN with(0, 0) ELSE with(Min(R), Max(R))
    <2>1. CASE R = {}
      BY <1>2, <1>3, <1>5, <2>1
    <2>2. CASE R # {}
      <3> DEFINE first == IF t.first \in R THEN t.first ELSE After(R, t.first)
                 last == IF t.last \in R THEN t.last ELSE Before(R, t.last)
      <3>1. first = Min(R) /\ last = Max(R)
        BY <1>0, <1>4, <2>2, Freed
      <3>2. u = with(first, last)
        <4>1. CASE {t.first, t.last} \subseteq R
          BY <1>2, <1>3, <1>5, <2>2, <4>1
        <4>2. CASE ~({t.first, t.last} \subseteq R)
          BY <1>3, <1>5, <1>6, <2>2, <4>2
        <4> QED BY <4>1, <4>2
      <3> HIDE DEF first, last
      <3> QED BY <2>2, <3>1, <3>2
    <2> QED BY <2>1, <2>2
  <1>8. \A first, last : LET w == with(first, last)
                         IN  /\ IsTable(w) /\ Held(w) = R /\ w.jobs = js /\ w.njobs = n
                             /\ w.first = first /\ w.last = last
                             /\ w.current = t.current /\ w.previous = t.previous
    BY <1>0, <1>1 DEF IsTable, Held
  <1>9. IsTable(u) /\ Held(u) = R /\ u.jobs = js /\ u.njobs = n
    BY <1>7, <1>8
  <1>10. u.current = t.current /\ u.previous = t.previous
    BY <1>7, <1>8
  <1>11. Brackets(u)
    <2>1. CASE R = {}
      <3>1. u.first = 0 /\ u.last = 0
        BY <1>7, <1>8, <2>1
      <3> HIDE DEF u
      <3> QED BY <1>3, <1>9, <2>1, <3>1 DEF Brackets
    <2>2. CASE R # {}
      <3>1. u.first = Min(R) /\ u.last = Max(R)
        BY <1>7, <1>8, <2>2
      <3> HIDE DEF u, R
      <3> QED BY <1>3, <1>9, <2>2, <3>1 DEF Brackets
    <2> QED BY <2>1, <2>2
  <1> QED BY <1>9, <1>10, <1>11 DEF js

\* The table u is t without these jobs, by deletions.
Shrunk(t, u, slots) ==
    /\ TableOK(u)
    /\ u.jobs = Without(t, slots)
    /\ t.current = NoJob => u.current = NoJob
    /\ CurrentGood(t) => CurrentGood(u)
    /\ PreviousGood(t) => PreviousGood(u)

LEMMA DeleteJobFacts ==
  ASSUME NEW t, TableOK(t), NEW slot \in Held(t)
  PROVE  Shrunk(t, DeleteJob(t, slot), {slot})
  <1> DEFINE u == DeleteJob(t, slot)
             w == Removed(t, slot)
  <1>1. /\ IsTable(w) /\ Brackets(w) /\ w.jobs = Without(t, {slot})
        /\ w.current = t.current /\ w.previous = t.previous
    BY RemovedFacts
  <1>2. IsTable(t) /\ IndicesExist(t) /\ NoJob \notin Held(t)
    BY FiniteSlots DEF TableOK, IsTable
  <1>3. /\ Held(w) = Held(t) \ {slot}
        /\ \A state : In(w, state) = In(t, state) \ {slot}
    <2>0. /\ DOMAIN Without(t, {slot}) = Held(t) \ {slot}
          /\ \A s \in Held(t) \ {slot} : Without(t, {slot})[s] = t.jobs[s]
      BY <1>2, WithoutJobs
    <2>1. DOMAIN w.jobs = Held(t) \ {slot} /\ \A s \in Held(t) \ {slot} : w.jobs[s] = t.jobs[s]
      BY <1>1, <2>0
    <2> QED BY <2>1 DEF In, Held
  <1>4. CASE slot \in {t.current, t.previous}
    <2>1. u = ResetCurrent(w)
      BY <1>4 DEF DeleteJob
    <2> HIDE DEF w
    <2>2. SameJobs(w, u) /\ IndicesExist(u) /\ CurrentGood(u) /\ PreviousGood(u)
      BY <1>1, <2>1, ResetCurrentFacts
    <2> HIDE DEF u
    <2>3. u.jobs = Without(t, {slot}) /\ TableOK(u)
      BY <1>1, <2>2 DEF SameJobs, TableOK, Brackets, Held
    <2>4. t.current # NoJob
      BY <1>2, <1>4 DEF IndicesExist
    <2> QED BY <2>2, <2>3, <2>4 DEF Shrunk, u
  <1>5. CASE slot \notin {t.current, t.previous}
    <2>1. u = w
      BY <1>5 DEF DeleteJob
    <2> HIDE DEF u, w
    <2>2. IndicesExist(w)
      BY <1>1, <1>2, <1>3, <1>5 DEF IndicesExist
    <2>3. CurrentGood(t) => CurrentGood(w)
      BY <1>1, <1>3, <1>5 DEF CurrentGood
    <2>4. PreviousGood(t) => PreviousGood(w)
      BY <1>1, <1>3, <1>5 DEF PreviousGood
    <2> QED BY <1>1, <2>1, <2>2, <2>3, <2>4 DEF Shrunk, TableOK, u
  <1> QED BY <1>4, <1>5

LEMMA ShrunkBy ==
  ASSUME NEW t, IsTable(t), NEW slots, NEW u, Shrunk(t, u, slots),
         NEW slot \in Held(t) \ slots
  PROVE  Shrunk(t, DeleteJob(u, slot), slots \cup {slot})
  <1> DEFINE w == DeleteJob(u, slot)
  <1>1. TableOK(u) /\ u.jobs = Without(t, slots)
    BY DEF Shrunk
  <1>2. Held(u) = Held(t) \ slots /\ \A s \in Held(t) \ slots : u.jobs[s] = t.jobs[s]
    <2>1. /\ DOMAIN Without(t, slots) = Held(t) \ slots
          /\ \A s \in Held(t) \ slots : Without(t, slots)[s] = t.jobs[s]
      BY WithoutJobs
    <2> QED BY <1>1, <2>1 DEF Held
  <1>3. Shrunk(u, w, {slot})
    BY <1>1, <1>2, DeleteJobFacts
  <1> HIDE DEF w
  <1>4. Without(u, {slot}) = Without(t, slots \cup {slot})
    <2>1. Held(u) \ {slot} = Held(t) \ (slots \cup {slot})
      BY <1>2
    <2>2. \A s \in Held(u) \ {slot} : u.jobs[s] = t.jobs[s]
      BY <1>2
    <2> QED BY <2>1, <2>2 DEF Without
  <1>5. Shrunk(t, w, slots \cup {slot})
    BY <1>3, <1>4 DEF Shrunk
  <1> QED BY <1>5 DEF w

-----------------------------------------------------------------------------
(***************************************************************************)
(* The loop over the slots.  h[n] is the table after the first n of them.  *)
(***************************************************************************)
Passed(t, slots, n) == IF n - 1 \in slots THEN DeleteJob(t, n - 1) ELSE t

Passes(t, slots, h) ==
    \A n \in 0 .. MaxJobs : h[n] = IF n = 0 THEN t ELSE Passed(h[n - 1], slots, n)

LEMMA LoopExists ==
  ASSUME NEW t, NEW slots
  PROVE  \E h : Passes(t, slots, h) /\ Deleted(t, slots) = h[MaxJobs]
  <1> DEFINE Until(k, g) ==
               \A j \in 0 .. k : g[j] = IF j = 0 THEN t ELSE Passed(g[j - 1], slots, j)
             G == {k \in Nat : \E g : Until(k, g)}
             h == CHOOSE g : g = [n \in 0 .. MaxJobs |->
                                    IF n = 0 THEN t ELSE Passed(g[n - 1], slots, n)]
  <1>0. MaxJobs \in Nat
    BY MaxJobsAssumption
  <1>1. 0 \in G
    <2>1. Until(0, [j \in 0 .. 0 |-> t])
      OBVIOUS
    <2> QED BY <2>1
  <1>2. ASSUME NEW k \in Nat, k \in G PROVE k + 1 \in G
    <2>1. PICK g : Until(k, g)
      BY <1>2
    <2> DEFINE f == [j \in 0 .. k + 1 |-> IF j = k + 1 THEN Passed(g[k], slots, k + 1) ELSE g[j]]
    <2>2. Until(k + 1, f)
      <3>1. \A j \in 0 .. k : f[j] = g[j]
        OBVIOUS
      <3>2. f[k + 1] = Passed(g[k], slots, k + 1) /\ k + 1 - 1 = k
        OBVIOUS
      <3> HIDE DEF f
      <3> SUFFICES ASSUME NEW j \in 0 .. k + 1
                   PROVE  f[j] = IF j = 0 THEN t ELSE Passed(f[j - 1], slots, j)
        OBVIOUS
      <3>3. CASE j = k + 1
        BY <3>1, <3>2, <3>3
      <3>4. CASE j \in 0 .. k
        <4>1. f[j] = g[j] /\ (j # 0 => f[j - 1] = g[j - 1])
          BY <3>1, <3>4
        <4> QED BY <2>1, <3>4, <4>1
      <3> QED BY <3>3, <3>4
    <2> HIDE DEF f
    <2>3. k + 1 \in Nat
      OBVIOUS
    <2>4. \E e : Until(k + 1, e)
      BY <2>2
    <2> QED BY <2>3, <2>4
  <1>3. Nat \subseteq G
    <2> HIDE DEF G
    <2> QED BY <1>1, <1>2, SetInduction
  <1>4. \E g : g = [n \in 0 .. MaxJobs |-> IF n = 0 THEN t ELSE Passed(g[n - 1], slots, n)]
    <2>1. PICK f : Until(MaxJobs, f)
      BY <1>0, <1>3
    <2> DEFINE g == [n \in 0 .. MaxJobs |-> f[n]]
    <2>2. \A n \in 0 .. MaxJobs : g[n] = IF n = 0 THEN t ELSE Passed(g[n - 1], slots, n)
      BY <1>0, <2>1
    <2>3. g = [n \in 0 .. MaxJobs |-> IF n = 0 THEN t ELSE Passed(g[n - 1], slots, n)]
      BY <2>2
    <2> QED BY <2>3
  <1>5. h = [n \in 0 .. MaxJobs |-> IF n = 0 THEN t ELSE Passed(h[n - 1], slots, n)]
    BY <1>4
  <1>6. Deleted(t, slots) = h[MaxJobs]
    BY DEF Deleted, Passed
  <1> HIDE DEF h
  <1>7. Passes(t, slots, h)
    BY <1>5 DEF Passes
  <1> QED BY <1>6, <1>7

LEMMA ShrunkByNone ==
  ASSUME NEW t, TableOK(t) PROVE Shrunk(t, t, {})
  <1>1. t.jobs = Without(t, {})
    BY DEF TableOK, IsTable, Without
  <1> QED BY <1>1 DEF Shrunk

LEMMA DeletedFacts ==
  ASSUME NEW t, TableOK(t), NEW slots, slots \subseteq Held(t)
  PROVE  Shrunk(t, Deleted(t, slots), slots)
  <1> DEFINE Lower(n) == {s \in slots : s < n}
  <1>0. MaxJobs \in Nat /\ IsTable(t)
    BY MaxJobsAssumption DEF TableOK
  <1>7. \A s \in slots : s \in Nat /\ s < MaxJobs
    BY <1>0 DEF IsTable, Slots
  <1>1. PICK h : Passes(t, slots, h) /\ Deleted(t, slots) = h[MaxJobs]
    BY LoopExists
  <1> DEFINE G == {n \in Nat : n <= MaxJobs => Shrunk(t, h[n], Lower(n))}
  <1>2. 0 \in G
    <2>1. Lower(0) = {}
      BY <1>7
    <2>2. h[0] = t
      BY <1>0, <1>1 DEF Passes
    <2> HIDE DEF Lower
    <2> QED BY <2>1, <2>2, ShrunkByNone
  <1>3. ASSUME NEW n \in Nat, n \in G PROVE n + 1 \in G
    <2> SUFFICES ASSUME n + 1 <= MaxJobs PROVE Shrunk(t, h[n + 1], Lower(n + 1))
      OBVIOUS
    <2>1. Shrunk(t, h[n], Lower(n))
      BY <1>0, <1>3
    <2>2. h[n + 1] = IF n \in slots THEN DeleteJob(h[n], n) ELSE h[n]
      <3>1. n + 1 \in 0 .. MaxJobs /\ n + 1 # 0 /\ n + 1 - 1 = n
        BY <1>0
      <3> QED BY <1>1, <3>1 DEF Passes, Passed
    <2>3. CASE n \in slots
      <3>1. Lower(n + 1) = Lower(n) \cup {n}
        <4>1. \A s \in slots : s < n + 1 <=> s < n \/ s = n
          BY <1>7
        <4> QED BY <2>3, <4>1
      <3>3. n \in Held(t) \ Lower(n)
        BY <2>3
      <3> HIDE DEF Lower
      <3>2. Shrunk(t, DeleteJob(h[n], n), Lower(n) \cup {n})
        BY <1>0, <2>1, <3>3, ShrunkBy
      <3> QED BY <2>2, <2>3, <3>1, <3>2
    <2>4. CASE n \notin slots
      <3>1. Lower(n + 1) = Lower(n)
        BY <1>7, <2>4
      <3> HIDE DEF Lower
      <3> QED BY <2>1, <2>2, <2>4, <3>1
    <2> QED BY <2>3, <2>4
  <1>4. Nat \subseteq G
    <2> HIDE DEF G
    <2> QED BY <1>2, <1>3, SetInduction
  <1>5. Shrunk(t, h[MaxJobs], Lower(MaxJobs))
    <2> HIDE DEF Lower
    <2> QED BY <1>0, <1>4
  <1>6. Lower(MaxJobs) = slots
    BY <1>7
  <1> HIDE DEF Lower
  <1> QED BY <1>1, <1>5, <1>6

\* No finished job that the user knows of is left.
Finished(t) == {s \in In(t, "dead") : t.jobs[s].notified \/ t.jobs[s].foreground}

LEMMA ShrunkJobs ==
  ASSUME NEW t, IsTable(t), NEW u, NEW slots, Shrunk(t, u, slots)
  PROVE  /\ Held(u) = Held(t) \ slots
         /\ \A s \in Held(u) : u.jobs[s] = t.jobs[s]
  <1>1. /\ DOMAIN Without(t, slots) = Held(t) \ slots
        /\ \A s \in Held(t) \ slots : Without(t, slots)[s] = t.jobs[s]
    BY WithoutJobs
  <1> QED BY <1>1 DEF Shrunk, Held

LEMMA CleanedFacts ==
  ASSUME NEW t, TableOK(t)
  PROVE  Shrunk(t, CleanedUp(t), Finished(t)) /\ Reported(CleanedUp(t))
  <1> DEFINE u == CleanedUp(t)
  <1>1. IsTable(t) /\ Finished(t) \subseteq Held(t)
    BY InSlots DEF TableOK, Finished
  <1>2. u = Deleted(t, Finished(t))
    BY DEF CleanedUp, Finished
  <1>3. Shrunk(t, u, Finished(t))
    BY <1>1, <1>2, DeletedFacts
  <1> HIDE DEF u
  <1>4. Held(u) = Held(t) \ Finished(t) /\ \A s \in Held(u) : u.jobs[s] = t.jobs[s]
    BY <1>1, <1>3, ShrunkJobs
  <1>5. \A s \in In(u, "dead") : s \in Held(u) /\ u.jobs[s].state = "dead"
    BY DEF In, Held
  <1>6. \A s \in Held(t) : t.jobs[s].state = "dead" /\ t.jobs[s].notified => s \in Finished(t)
    BY DEF Finished, In, Held
  <1>7. Reported(u)
    BY <1>4, <1>5, <1>6 DEF Reported
  <1> QED BY <1>3, <1>7 DEF u

-----------------------------------------------------------------------------
(***************************************************************************)
(* Changes of the jobs' states and flags, and new jobs.                    *)
(***************************************************************************)
LEMMA WithJobsFacts ==
  ASSUME NEW t, TableOK(t), NEW js \in [Held(t) -> Job]
  PROVE  LET u == WithJobs(t, js)
         IN  /\ TableOK(u) /\ u.jobs = js /\ Held(u) = Held(t)
             /\ u.current = t.current /\ u.previous = t.previous
  <1> DEFINE u == WithJobs(t, js)
  <1>0. IsTable(t) /\ IndicesExist(t) /\ Brackets(t)
    BY DEF TableOK
  <1>1. u = [t EXCEPT !.jobs = js]
    BY DEF WithJobs
  <1> HIDE DEF u
  <1>2. u = [jobs |-> js, current |-> t.current, previous |-> t.previous,
             first |-> t.first, last |-> t.last, njobs |-> t.njobs]
    BY <1>0, <1>1 DEF IsTable
  <1>3. /\ u.jobs = js /\ u.current = t.current /\ u.previous = t.previous
        /\ u.first = t.first /\ u.last = t.last /\ u.njobs = t.njobs
    BY <1>2
  <1>4. Held(u) = Held(t)
    BY <1>3 DEF Held
  <1>5. IsTable(u)
    BY <1>0, <1>2, <1>3, <1>4 DEF IsTable
  <1>6. IndicesExist(u)
    BY <1>0, <1>3, <1>4 DEF IndicesExist
  <1>7. Brackets(u)
    BY <1>0, <1>3, <1>4 DEF Brackets
  <1> QED BY <1>3, <1>4, <1>5, <1>6, <1>7 DEF TableOK, u

\* The same jobs in the same states.
SameStates(t, u) ==
    /\ Held(u) = Held(t)
    /\ \A s \in Held(t) : u.jobs[s].state = t.jobs[s].state
    /\ u.current = t.current /\ u.previous = t.previous

LEMMA StatesDecide ==
  ASSUME NEW t, NEW u, SameStates(t, u)
  PROVE  /\ \A state : In(u, state) = In(t, state)
         /\ CurrentGood(t) <=> CurrentGood(u)
         /\ PreviousGood(t) <=> PreviousGood(u)
  <1>1. \A state : In(u, state) = In(t, state)
    BY DEF SameStates, In, Held
  <1> QED BY <1>1 DEF SameStates, CurrentGood, PreviousGood

LEMMA ShownFacts ==
  ASSUME NEW t, TableOK(t), NEW slots
  PROVE  TableOK(Shown(t, slots)) /\ SameStates(t, Shown(t, slots))
  <1> DEFINE js == [s \in DOMAIN t.jobs |->
                      IF s \in slots THEN [t.jobs[s] EXCEPT !.notified = TRUE] ELSE t.jobs[s]]
  <1>1. \A s \in Held(t) : t.jobs[s] \in Job
    BY DEF TableOK, IsTable
  <1>2. ASSUME NEW job \in Job
        PROVE  /\ [job EXCEPT !.notified = TRUE] \in Job
               /\ [job EXCEPT !.notified = TRUE].state = job.state
    BY DEF Job
  <1>3. js \in [Held(t) -> Job] /\ \A s \in Held(t) : js[s].state = t.jobs[s].state
    BY <1>1, <1>2 DEF Held
  <1>4. Shown(t, slots) = WithJobs(t, js)
    BY DEF Shown
  <1> HIDE DEF js
  <1>5. /\ TableOK(WithJobs(t, js)) /\ WithJobs(t, js).jobs = js /\ Held(WithJobs(t, js)) = Held(t)
        /\ WithJobs(t, js).current = t.current /\ WithJobs(t, js).previous = t.previous
    BY <1>3, WithJobsFacts
  <1> QED BY <1>3, <1>4, <1>5 DEF SameStates

LEMMA NotifiedFacts ==
  ASSUME NEW t, TableOK(t), NEW slots
  PROVE  TableOK(Notified(t, slots)) /\ SameStates(t, Notified(t, slots))
  BY ShownFacts DEF Notified

\* A new job takes the slot after the last one.
LEMMA NewSlotIs ==
  ASSUME NEW t, TableOK(t)
  PROVE  /\ NewSlot(t) \in Nat /\ NewSlot(t) \notin Held(t)
         /\ \A s \in Held(t) : s < NewSlot(t)
         /\ Held(t) = {} => NewSlot(t) = 0
  <1> DEFINE S == Held(t)
  <1>1. S \subseteq Slots
    BY DEF TableOK, IsTable
  <1>2. IsFiniteSet(S) /\ S \in SUBSET Nat /\ S \in SUBSET Int
    <2> HIDE DEF S
    <2> QED BY <1>1, FiniteSlots
  <1>3. NewSlot(t) = IF S = {} THEN 0 ELSE Max(S) + 1
    BY DEF NewSlot, Held
  <1> HIDE DEF S
  <1>4. CASE S = {}
    BY <1>3, <1>4 DEF S
  <1>5. CASE S # {}
    <2>1. Max(S) \in S /\ \A s \in S : s <= Max(S)
      BY <1>2, <1>5, LargestElement
    <2>2. Max(S) \in Nat /\ NewSlot(t) = Max(S) + 1
      BY <1>2, <1>3, <1>5, <2>1
    <2>3. \A s \in S : s < NewSlot(t)
      <3> SUFFICES ASSUME NEW s \in S PROVE s < NewSlot(t)
        OBVIOUS
      <3>1. s \in Nat /\ s <= Max(S)
        BY <1>2, <2>1
      <3> QED BY <2>2, <3>1
    <2>4. NewSlot(t) \notin S
      BY <1>2, <2>2, <2>3
    <2> QED BY <1>5, <2>2, <2>3, <2>4 DEF S
  <1> QED BY <1>4, <1>5

LEMMA StartedFacts ==
  ASSUME NEW t, TableOK(t), NewSlot(t) \in Slots,
         NEW foreground \in BOOLEAN, NEW state \in {"running", "stopped", "dead"}
  PROVE  LET u   == Started(t, foreground, state)
             new == NewSlot(t)
         IN  /\ TableOK(u)
             /\ Held(u) = Held(t) \cup {new}
             /\ \A s \in Held(t) : u.jobs[s] = t.jobs[s]
             /\ u.jobs[new].state = state /\ ~u.jobs[new].notified
             /\ state # "stopped" => (CurrentGood(t) => CurrentGood(u))
             /\ PreviousGood(t) => PreviousGood(u)
  <1> DEFINE u == Started(t, foreground, state)
             new == NewSlot(t)
             D == Held(t) \cup {new}
             job == [state |-> state, foreground |-> foreground, notified |-> FALSE]
             js == [s \in D |-> IF s = new THEN job ELSE t.jobs[s]]
             n == t.njobs + 1
  <1>0. IsTable(t) /\ IndicesExist(t) /\ Brackets(t) /\ Held(t) \subseteq Slots
    BY DEF TableOK, IsTable
  <1>1. /\ new \in Nat /\ new \notin Held(t)
        /\ \A s \in Held(t) : s < new
        /\ Held(t) = {} => new = 0
    BY NewSlotIs
  <1>2. u = [t EXCEPT !.jobs = js, !.last = new, !.njobs = n]
    BY DEF Started, Held
  <1>3. job \in Job
    BY DEF Job
  <1>4. js \in [D -> Job]
    BY <1>0, <1>3 DEF IsTable
  <1>5. DOMAIN js = D /\ js[new] = job /\ \A s \in Held(t) : js[s] = t.jobs[s]
    BY <1>1
  <1>6. job.state = state /\ job.notified = FALSE
    OBVIOUS
  <1> HIDE DEF u, js, n, job, new
  <1>7. u = [jobs |-> js, current |-> t.current, previous |-> t.previous,
             first |-> t.first, last |-> new, njobs |-> n]
    BY <1>0, <1>2 DEF IsTable
  <1>8. /\ u.jobs = js /\ u.current = t.current /\ u.previous = t.previous
        /\ u.first = t.first /\ u.last = new /\ u.njobs = n
    BY <1>7
  <1>9. Held(u) = D
    BY <1>5, <1>8 DEF Held
  <1>10. IsTable(u)
    <2>1. D \subseteq Slots
      BY <1>0 DEF new
    <2> HIDE DEF D
    <2> QED BY <1>4, <1>7, <1>8, <1>9, <2>1 DEF IsTable
  <1>11. IndicesExist(u)
    BY <1>0, <1>8, <1>9 DEF IndicesExist
  <1>12. Brackets(u)
    <2>1. n = Cardinality(D)
      <3>1. IsFiniteSet(Held(t))
        BY <1>0, FiniteSlots
      <3>2. Cardinality(D) = Cardinality(Held(t)) + 1
        BY <1>1, <3>1, FS_AddElement
      <3> QED BY <1>0, <3>2 DEF Brackets, n
    <2>2. /\ IsFiniteSet(D) /\ D \in SUBSET Nat /\ D \in SUBSET Int /\ D # {}
          /\ IsFiniteSet(Held(t)) /\ Held(t) \in SUBSET Nat
      BY <1>0, <1>9, <1>10, FiniteSlots DEF IsTable
    <2>3. Max(D) = new
      <3>1. Max(D) \in D /\ new <= Max(D)
        <4> HIDE DEF D
        <4>1. Max(D) \in D /\ \A s \in D : s <= Max(D)
          BY <2>2, LargestElement
        <4> QED BY <4>1 DEF D
      <3> QED BY <1>1, <2>2, <3>1
    <2>4. t.first = Min(D)
      <3>1. Min(D) \in D /\ \A s \in D : Min(D) <= s
        <4> HIDE DEF D
        <4> QED BY <2>2, LeastElement
      <3>2. CASE Held(t) = {}
        <4>1. t.first = 0 /\ new = 0
          BY <1>0, <1>1, <3>2 DEF Brackets
        <4> QED BY <3>1, <3>2, <4>1
      <3>3. CASE Held(t) # {}
        <4>1. Min(Held(t)) \in Held(t) /\ \A s \in Held(t) : Min(Held(t)) <= s
          BY <2>2, <3>3, LeastElement
        <4>2. Min(D) <= Min(Held(t)) /\ Min(Held(t)) < new
          BY <1>1, <3>1, <4>1
        <4>3. Min(D) \in Held(t)
          BY <1>1, <2>2, <3>1, <4>1, <4>2
        <4>4. Min(D) = Min(Held(t))
          BY <2>2, <4>1, <4>2, <4>3
        <4> QED BY <1>0, <3>3, <4>4 DEF Brackets
      <3> QED BY <3>2, <3>3
    <2> HIDE DEF D
    <2> QED BY <1>8, <1>9, <2>1, <2>2, <2>3, <2>4 DEF Brackets
  <1>13. \A st : In(u, st) = In(t, st) \cup (IF state = st THEN {new} ELSE {})
    BY <1>1, <1>5, <1>6, <1>8 DEF In, Held
  <1>14. state # "stopped" => (CurrentGood(t) => CurrentGood(u))
    BY <1>8, <1>13 DEF CurrentGood
  <1>15. PreviousGood(t) => PreviousGood(u)
    <2> SUFFICES ASSUME PreviousGood(t), t.current \in In(u, "stopped"),
                        NEW s \in In(u, "stopped"), s < t.current
                 PROVE  t.previous \in (In(u, "stopped") \ {t.current}) \cup In(u, "dead")
      BY <1>8 DEF PreviousGood
    <2>1. t.current # new
      <3>1. t.current \in Held(t) \cup {NoJob}
        BY <1>0 DEF IndicesExist
      <3> QED BY <1>1, <3>1 DEF NoJob
    <2>2. t.current \in In(t, "stopped") /\ t.current \in Held(t)
      BY <1>13, <2>1 DEF In, Held
    <2>3. t.current < new /\ t.current \in Nat /\ new \in Nat
      BY <1>0, <1>1, <2>2, FiniteSlots
    <2>4. s # new
      BY <2>3
    <2>5. s \in In(t, "stopped")
      BY <1>13, <2>4
    <2> QED BY <1>13, <2>2, <2>5 DEF PreviousGood
  <1> QED BY <1>5, <1>6, <1>8, <1>9, <1>10, <1>11, <1>12, <1>14, <1>15 DEF TableOK, u, new

-----------------------------------------------------------------------------
(***************************************************************************)
(* The invariant.  A job that counts as dead has a dead process, of which  *)
(* nothing more will be heard.                                             *)
(***************************************************************************)
ProcsOK(js, pr, nw) ==
    /\ pr \in [DOMAIN js -> {"running", "stopped", "dead"}]
    /\ nw \in [DOMAIN js -> {NoNews, "stopped", "continued", "exited"}]
    /\ \A s \in DOMAIN js :
         /\ js[s].state = "dead" => pr[s] = "dead" /\ nw[s] = NoNews
         /\ nw[s] = "exited" => pr[s] = "dead"

PlaceOK(p, js) ==
    /\ p \in [at : {"prompt", "called", "wait_for"}, job : Slots \cup {NoJob}]
    /\ \/ p = AtPrompt
       \/ p.at # "prompt" /\ p.job \in DOMAIN js

Inv ==
    /\ TableOK(Table) /\ Reported(Table)
    /\ ProcsOK(jobs, proc, news)
    /\ PlaceOK(pc, jobs)

\* CurrentIsGood, of the table and the place of the shell.
CurrentIs(t, p) == CurrentGood(t) \/ (t.current = p.job /\ p # AtPrompt)

LEMMA TableIs ==
  /\ Table.jobs = jobs /\ Table.current = j_current /\ Table.previous = j_previous
  /\ Table.first = j_firstj /\ Table.last = j_lastj /\ Table.njobs = j_njobs
  /\ Held(Table) = DOMAIN jobs
  BY DEF Table, Held

\* What a step leaves behind is the invariant of the table it assigns.
LEMMA Landed ==
  ASSUME NEW u, SetTo(u), TableOK(u), Reported(u),
         ProcsOK(u.jobs, proc', news'), PlaceOK(pc', u.jobs)
  PROVE  Inv' /\ Table' = u
  <1>1. u = [jobs |-> u.jobs, current |-> u.current, previous |-> u.previous,
             first |-> u.first, last |-> u.last, njobs |-> u.njobs]
    BY DEF TableOK, IsTable
  <1>2. /\ jobs' = u.jobs /\ j_current' = u.current /\ j_previous' = u.previous
        /\ j_firstj' = u.first /\ j_lastj' = u.last /\ j_njobs' = u.njobs
    BY DEF SetTo
  <1>3. Table' = u
    <2>1. Table' = [jobs |-> jobs', current |-> j_current', previous |-> j_previous',
                    first |-> j_firstj', last |-> j_lastj', njobs |-> j_njobs']
      BY DEF Table
    <2> HIDE DEF Table
    <2> QED BY <1>1, <1>2, <2>1
  <1> QED BY <1>2, <1>3 DEF Inv

LEMMA TableStays ==
  ASSUME UNCHANGED table PROVE Table' = Table
  BY DEF table, Table

\* The processes of the jobs that stay.
LEMMA ProcsLeft ==
  ASSUME NEW js, NEW pr, NEW nw, ProcsOK(js, pr, nw),
         NEW new, DOMAIN new \subseteq DOMAIN js,
         \A s \in DOMAIN new : new[s].state = js[s].state
  PROVE  ProcsOK(new, [s \in DOMAIN new |-> pr[s]], [s \in DOMAIN new |-> nw[s]])
  BY DEF ProcsOK

LEMMA AtPromptIs ==
  /\ AtPrompt.at = "prompt"
  /\ AtPrompt \in [at : {"prompt", "called", "wait_for"}, job : Slots \cup {NoJob}]
  BY DEF AtPrompt

LEMMA InvInit == Init => Inv
  <1> SUFFICES ASSUME Init PROVE Inv
    OBVIOUS
  <1>1. /\ jobs = <<>> /\ proc = <<>> /\ news = <<>> /\ pc = AtPrompt
        /\ j_current = NoJob /\ j_previous = NoJob /\ j_firstj = 0 /\ j_lastj = 0 /\ j_njobs = 0
    BY DEF Init
  <1>2. DOMAIN jobs = {} /\ Held(Table) = {}
    BY <1>1, TableIs
  <1>3. jobs \in [{} -> Job] /\ proc = jobs /\ news = jobs
    BY <1>1, <1>2
  <1>4. IsTable(Table)
    <2>1. Table = [jobs |-> Table.jobs, current |-> Table.current, previous |-> Table.previous,
                   first |-> Table.first, last |-> Table.last, njobs |-> Table.njobs]
      BY DEF Table
    <2> QED BY <1>2, <1>3, <2>1, TableIs DEF IsTable
  <1>5. IndicesExist(Table)
    BY <1>1, TableIs DEF IndicesExist
  <1>6. Brackets(Table)
    BY <1>1, <1>2, TableIs, FS_EmptySet DEF Brackets
  <1>7. Reported(Table)
    BY <1>2, TableIs DEF Reported, In
  <1>8. ProcsOK(jobs, proc, news)
    BY <1>2, <1>3 DEF ProcsOK
  <1>9. PlaceOK(pc, jobs)
    BY <1>1, AtPromptIs DEF PlaceOK
  <1> QED BY <1>4, <1>5, <1>6, <1>7, <1>8, <1>9 DEF Inv, TableOK

-----------------------------------------------------------------------------
(***************************************************************************)
(* The steps.                                                              *)
(***************************************************************************)
\* What every step but the three named ones does to the two indices.
KeepsCurrent == CurrentIs(Table, pc) => CurrentIs(Table', pc')
KeepsPrevious == PreviousGood(Table) => PreviousGood(Table')
Keeps == Inv' /\ KeepsCurrent /\ KeepsPrevious

LEMMA QuietStep ==
  ASSUME Inv, UNCHANGED table, ProcsOK(jobs, proc', news'), PlaceOK(pc', jobs),
         pc' = pc \/ (pc'.job = pc.job /\ pc # AtPrompt /\ pc' # AtPrompt)
  PROVE  Keeps
  <1>1. Table' = Table /\ jobs' = jobs
    BY TableStays DEF table
  <1>2. Inv'
    BY <1>1 DEF Inv
  <1>3. KeepsPrevious
    BY <1>1 DEF KeepsPrevious
  <1>4. KeepsCurrent
    BY <1>1 DEF KeepsCurrent, CurrentIs
  <1> QED BY <1>2, <1>3, <1>4 DEF Keeps

LEMMA StepChange ==
  ASSUME Inv, NEW s \in DOMAIN jobs, NEW from, NEW to \in {"running", "stopped", "dead"},
         NEW report \in {"stopped", "continued", "exited"}, Change(s, from, to, report),
         "dead" \notin from, report = "exited" => to = "dead"
  PROVE  Keeps
  <1>1. /\ proc[s] \in from
        /\ proc' = [proc EXCEPT ![s] = to] /\ news' = [news EXCEPT ![s] = report]
        /\ UNCHANGED table /\ pc' = pc
    BY DEF Change
  <1>2. ProcsOK(jobs, proc, news)
    BY DEF Inv
  <1>3. jobs[s].state # "dead"
    BY <1>1, <1>2 DEF ProcsOK
  <1>4. ProcsOK(jobs, proc', news')
    BY <1>1, <1>2, <1>3 DEF ProcsOK
  <1>5. PlaceOK(pc', jobs)
    BY <1>1 DEF Inv
  <1> QED BY <1>1, <1>4, <1>5, QuietStep

LEMMA StepEnterWaitFor == Inv /\ EnterWaitFor => Keeps
  <1> SUFFICES ASSUME Inv, EnterWaitFor PROVE Keeps
    OBVIOUS
  <1>1. /\ pc.at = "called" /\ pc' = [pc EXCEPT !.at = "wait_for"]
        /\ UNCHANGED table /\ proc' = proc /\ news' = news
    BY DEF EnterWaitFor
  <1>2. PlaceOK(pc, jobs) /\ ProcsOK(jobs, proc', news')
    BY <1>1 DEF Inv
  <1>3. pc # AtPrompt
    BY <1>1, AtPromptIs
  <1>4. /\ pc' \in [at : {"prompt", "called", "wait_for"}, job : Slots \cup {NoJob}]
        /\ pc'.at = "wait_for" /\ pc'.job = pc.job
    BY <1>1, <1>2 DEF PlaceOK
  <1>5. pc' # AtPrompt
    BY <1>4, AtPromptIs
  <1>6. PlaceOK(pc', jobs)
    BY <1>2, <1>3, <1>4 DEF PlaceOK
  <1> QED BY <1>1, <1>2, <1>3, <1>4, <1>5, <1>6, QuietStep

LEMMA Lands ==
  ASSUME NEW u, SetTo(u), TableOK(u), Reported(u),
         ProcsOK(u.jobs, proc', news'), PlaceOK(pc', u.jobs),
         CurrentIs(Table, pc) => CurrentIs(u, pc'),
         PreviousGood(Table) => PreviousGood(u)
  PROVE  Keeps
  <1>1. Inv' /\ Table' = u
    BY Landed
  <1>2. KeepsCurrent
    BY <1>1 DEF KeepsCurrent
  <1>3. KeepsPrevious
    BY <1>1 DEF KeepsPrevious
  <1> QED BY <1>1, <1>2, <1>3 DEF Keeps

\* set_current_job and reset_current change the indices only.
LEMMA Reindexed ==
  ASSUME NEW t, TableOK(t), NEW u, SameJobs(t, u), IndicesExist(u)
  PROVE  /\ TableOK(u) /\ Held(u) = Held(t)
         /\ Reported(t) => Reported(u)
         /\ \A state : In(u, state) = In(t, state)
  <1>1. Held(u) = Held(t) /\ \A state : In(u, state) = In(t, state)
    BY DEF SameJobs, Held, In
  <1>2. Brackets(u)
    BY <1>1 DEF TableOK, Brackets, SameJobs
  <1>3. Reported(t) => Reported(u)
    BY <1>1 DEF Reported, SameJobs
  <1> QED BY <1>1, <1>2, <1>3 DEF TableOK, SameJobs

LEMMA SetCurrentKeeps ==
  ASSUME NEW t, TableOK(t), NEW job \in Held(t)
  PROVE  LET u == SetCurrent(t, job)
         IN  /\ TableOK(u) /\ u.jobs = t.jobs /\ u.current = job /\ PreviousGood(u)
             /\ Reported(t) => Reported(u)
             /\ \A state : In(u, state) = In(t, state)
  <1> DEFINE u == SetCurrent(t, job)
  <1>1. IsTable(t)
    BY DEF TableOK
  <1>2. /\ SameJobs(t, u) /\ u.current = job /\ u.previous \in Held(t) /\ PreviousGood(u)
    BY <1>1, SetCurrentFacts
  <1> HIDE DEF u
  <1>3. IndicesExist(u)
    <2>1. Held(u) = Held(t) /\ NoJob \notin Held(t)
      BY <1>1, <1>2, FiniteSlots DEF SameJobs, Held, IsTable
    <2> QED BY <1>2, <2>1 DEF IndicesExist
  <1>4. /\ TableOK(u) /\ (Reported(t) => Reported(u))
        /\ \A state : In(u, state) = In(t, state)
    BY <1>2, <1>3, Reindexed
  <1> QED BY <1>2, <1>4 DEF SameJobs, u

LEMMA ResetCurrentKeeps ==
  ASSUME NEW t, TableOK(t)
  PROVE  LET u == ResetCurrent(t)
         IN  /\ TableOK(u) /\ u.jobs = t.jobs /\ CurrentGood(u) /\ PreviousGood(u)
             /\ Reported(t) => Reported(u)
  <1> DEFINE u == ResetCurrent(t)
  <1>1. SameJobs(t, u) /\ IndicesExist(u) /\ CurrentGood(u) /\ PreviousGood(u)
    BY ResetCurrentFacts DEF TableOK
  <1> HIDE DEF u
  <1>2. TableOK(u) /\ (Reported(t) => Reported(u))
    BY <1>1, Reindexed
  <1> QED BY <1>1, <1>2 DEF SameJobs, u

LEMMA UpdatedIs ==
  ASSUME NEW job \in Job, NEW report \in {"stopped", "continued", "exited"}
  PROVE  /\ Updated(job, report) \in Job
         /\ ~Updated(job, report).notified
         /\ report = "stopped" => Updated(job, report).state = "stopped"
         /\ report = "continued" => Updated(job, report).state = "running"
         /\ report = "exited" => Updated(job, report).state = "dead"
  <1> DEFINE u == Updated(job, report)
  <1>1. CASE report = "stopped"
    <2>1. u = [state |-> "stopped", foreground |-> FALSE, notified |-> FALSE]
      BY <1>1 DEF Updated
    <2> HIDE DEF u
    <2>2. u \in Job /\ ~u.notified /\ u.state = "stopped"
      BY <2>1 DEF Job
    <2> QED BY <1>1, <2>2 DEF u
  <1>2. CASE report = "continued"
    <2>1. u = [job EXCEPT !.state = "running", !.notified = FALSE]
      BY <1>2 DEF Updated
    <2> HIDE DEF u
    <2>2. u \in Job /\ ~u.notified /\ u.state = "running"
      BY <2>1 DEF Job
    <2> QED BY <1>2, <2>2 DEF u
  <1>3. CASE report = "exited"
    <2>1. u = [job EXCEPT !.state = "dead", !.notified = FALSE]
      BY <1>3 DEF Updated
    <2> HIDE DEF u
    <2>2. u \in Job /\ ~u.notified /\ u.state = "dead"
      BY <2>1 DEF Job
    <2> QED BY <1>3, <2>2 DEF u
  <1> QED BY <1>1, <1>2, <1>3

LEMMA StepWaitChld ==
  ASSUME Inv, NEW batch, batch \subseteq Pending, WaitChld(batch)
  PROVE  Keeps
  <1> DEFINE js == [s \in DOMAIN jobs |-> IF s \in batch THEN Updated(jobs[s], news[s]) ELSE jobs[s]]
             t == WithJobs(Table, js)
             stopped == {s \in batch : news[s] = "stopped"}
             resumed == {s \in batch : news[s] = "continued" /\ jobs[s].state = "stopped"}
  <1>0. /\ TableOK(Table) /\ Reported(Table) /\ ProcsOK(jobs, proc, news) /\ PlaceOK(pc, jobs)
        /\ Held(Table) = DOMAIN jobs /\ jobs \in [DOMAIN jobs -> Job]
    BY TableIs DEF Inv, TableOK, IsTable
  <1>1. /\ \/ \E last \in stopped : SetTo(SetCurrent(t, last))
           \/ stopped = {} /\ resumed # {} /\ SetTo(ResetCurrent(t))
           \/ stopped = {} /\ resumed = {} /\ SetTo(t)
        /\ news' = [s \in DOMAIN jobs |-> IF s \in batch THEN NoNews ELSE news[s]]
        /\ pc' = pc /\ proc' = proc
    BY DEF WaitChld
  <1>2. \A s \in batch : /\ s \in DOMAIN jobs /\ news[s] \in {"stopped", "continued", "exited"}
                         /\ jobs[s].state # "dead" /\ jobs[s] \in Job
    BY <1>0 DEF Pending, ProcsOK
  <1>3. \A s \in batch : /\ js[s] \in Job /\ ~js[s].notified
                         /\ news[s] = "stopped" => js[s].state = "stopped"
                         /\ news[s] = "continued" => js[s].state = "running"
                         /\ news[s] = "exited" => js[s].state = "dead"
    BY <1>2, UpdatedIs
  <1>4. \A s \in DOMAIN jobs \ batch : js[s] = jobs[s] /\ js[s] \in Job
    BY <1>0
  <1>5. DOMAIN js = DOMAIN jobs /\ js \in [Held(Table) -> Job]
    <2>1. DOMAIN js = DOMAIN jobs /\ js = [s \in DOMAIN jobs |-> js[s]]
      OBVIOUS
    <2>2. \A s \in DOMAIN jobs : js[s] \in Job
      BY <1>3, <1>4
    <2> HIDE DEF js
    <2> QED BY <1>0, <2>1, <2>2
  <1> HIDE DEF js
  <1>6. /\ TableOK(t) /\ t.jobs = js /\ Held(t) = DOMAIN jobs
        /\ t.current = j_current /\ t.previous = j_previous
    BY <1>0, <1>5, WithJobsFacts, TableIs
  <1> HIDE DEF t
  <1>7. Reported(t)
    <2>1. \A s \in DOMAIN jobs : jobs[s].state = "dead" => ~jobs[s].notified
      BY <1>0, TableIs DEF Reported, In
    <2>2. \A s \in DOMAIN jobs : js[s].state = "dead" => ~js[s].notified
      BY <1>3, <1>4, <2>1
    <2> QED BY <1>5, <1>6, <2>2 DEF Reported, In
  <1>8. ProcsOK(js, proc', news')
    <2>1. news' \in [DOMAIN jobs -> {NoNews, "stopped", "continued", "exited"}]
      BY <1>0, <1>1 DEF ProcsOK
    <2>2. ASSUME NEW s \in DOMAIN jobs
          PROVE  /\ js[s].state = "dead" => proc[s] = "dead" /\ news'[s] = NoNews
                 /\ news'[s] = "exited" => proc[s] = "dead"
      <3>1. CASE s \in batch
        <4>1. js[s].state = "dead" => news[s] = "exited"
          BY <1>2, <1>3, <3>1
        <4>2. news'[s] = NoNews
          BY <1>1, <3>1
        <4> QED BY <1>0, <4>1, <4>2 DEF ProcsOK, NoNews
      <3>2. CASE s \notin batch
        <4>1. news'[s] = news[s] /\ js[s] = jobs[s]
          BY <1>1, <1>4, <3>2
        <4> QED BY <1>0, <4>1 DEF ProcsOK
      <3> QED BY <3>1, <3>2
    <2> QED BY <1>0, <1>1, <1>5, <2>1, <2>2 DEF ProcsOK
  <1>9. PlaceOK(pc', js)
    BY <1>0, <1>1, <1>5 DEF PlaceOK
  <1>10. CASE \E last \in stopped : SetTo(SetCurrent(t, last))
    <2>1. PICK last \in stopped : SetTo(SetCurrent(t, last))
      BY <1>10
    <2> DEFINE u == SetCurrent(t, last)
    <2>2. last \in batch /\ last \in DOMAIN jobs /\ js[last].state = "stopped"
      BY <1>2, <1>3, <2>1
    <2>3. last \in Held(t) /\ last \in In(t, "stopped")
      BY <1>5, <1>6, <2>2 DEF In
    <2>4. /\ TableOK(u) /\ u.jobs = js /\ u.current = last /\ PreviousGood(u) /\ Reported(u)
          /\ \A state : In(u, state) = In(t, state)
      BY <1>6, <1>7, <2>3, SetCurrentKeeps
    <2>5. SetTo(u)
      BY <2>1
    <2> HIDE DEF u
    <2>6. CurrentIs(u, pc')
      BY <2>3, <2>4 DEF CurrentIs, CurrentGood
    <2> QED BY <1>8, <1>9, <2>4, <2>5, <2>6, Lands
  <1>11. CASE stopped = {} /\ resumed # {} /\ SetTo(ResetCurrent(t))
    <2> DEFINE u == ResetCurrent(t)
    <2>1. TableOK(u) /\ u.jobs = js /\ CurrentGood(u) /\ PreviousGood(u) /\ Reported(u)
      BY <1>6, <1>7, ResetCurrentKeeps
    <2>2. SetTo(u)
      BY <1>11
    <2> HIDE DEF u
    <2>3. CurrentIs(u, pc')
      BY <2>1 DEF CurrentIs
    <2> QED BY <1>8, <1>9, <2>1, <2>2, <2>3, Lands
  <1>12. CASE stopped = {} /\ resumed = {} /\ SetTo(t)
    <2>1. \A s \in batch : \/ news[s] = "exited"
                           \/ news[s] = "continued" /\ jobs[s].state # "stopped"
      BY <1>2, <1>12
    <2>2. \A s \in DOMAIN jobs : /\ js[s].state = "stopped" => jobs[s].state = "stopped"
                                 /\ jobs[s].state = "stopped" => js[s].state \in {"stopped", "dead"}
                                 /\ jobs[s].state = "dead" => js[s].state = "dead"
      <3> SUFFICES ASSUME NEW s \in DOMAIN jobs
                   PROVE  /\ js[s].state = "stopped" => jobs[s].state = "stopped"
                          /\ jobs[s].state = "stopped" => js[s].state \in {"stopped", "dead"}
                          /\ jobs[s].state = "dead" => js[s].state = "dead"
        OBVIOUS
      <3>1. CASE s \in batch
        BY <1>2, <1>3, <2>1, <3>1
      <3>2. CASE s \notin batch
        BY <1>4, <3>2
      <3> QED BY <3>1, <3>2
    <2>3. /\ In(t, "stopped") \subseteq In(Table, "stopped")
          /\ In(Table, "stopped") \subseteq In(t, "stopped") \cup In(t, "dead")
          /\ In(Table, "dead") \subseteq In(t, "dead")
      BY <1>5, <1>6, <2>2, TableIs DEF In
    <2>4. t.current = Table.current /\ t.previous = Table.previous
      BY <1>6, TableIs
    <2>5. CurrentIs(Table, pc) => CurrentIs(t, pc')
      BY <1>1, <2>3, <2>4 DEF CurrentIs, CurrentGood
    <2>6. PreviousGood(Table) => PreviousGood(t)
      BY <2>3, <2>4 DEF PreviousGood
    <2> QED BY <1>6, <1>7, <1>8, <1>9, <1>12, <2>5, <2>6, Lands
  <1> QED BY <1>1, <1>10, <1>11, <1>12

\* At the prompt the current job is not excused by being the one that is run.
LEMMA AtThePrompt ==
  ASSUME Inv, pc = AtPrompt
  PROVE  /\ CurrentIs(Table, pc) <=> CurrentGood(Table)
         /\ \A js : PlaceOK(pc, js)
  BY AtPromptIs DEF CurrentIs, PlaceOK

LEMMA TableTyped ==
  ASSUME Inv
  PROVE  /\ TableOK(Table) /\ IsTable(Table) /\ Reported(Table)
         /\ ProcsOK(jobs, proc, news) /\ PlaceOK(pc, jobs)
         /\ Held(Table) = DOMAIN jobs /\ Table.jobs = jobs
         /\ \A s \in DOMAIN jobs : jobs[s] \in Job
  BY TableIs DEF Inv, TableOK, IsTable

\* A step at the prompt, or back to it, that leaves a table of jobs in the same
\* states as before.
LEMMA Fewer ==
  ASSUME Inv, NEW u, TableOK(u), Reported(u), SetTo(u), DropProcs, pc' = AtPrompt,
         Held(u) \subseteq DOMAIN jobs,
         \A s \in Held(u) : u.jobs[s].state = jobs[s].state,
         CurrentIs(Table, pc) => CurrentGood(u),
         PreviousGood(Table) => PreviousGood(u)
  PROVE  Keeps
  <1>1. jobs' = u.jobs
    BY DEF SetTo
  <1>2. proc' = [s \in DOMAIN u.jobs |-> proc[s]] /\ news' = [s \in DOMAIN u.jobs |-> news[s]]
    BY <1>1 DEF DropProcs
  <1>3. ProcsOK(u.jobs, proc', news')
    BY <1>2, TableTyped, ProcsLeft DEF Held
  <1>4. PlaceOK(pc', u.jobs)
    BY AtPromptIs DEF PlaceOK
  <1>5. CurrentIs(Table, pc) => CurrentIs(u, pc')
    BY DEF CurrentIs
  <1> QED BY <1>3, <1>4, <1>5, Lands

\* The same when a clean-up comes last.
LEMMA Tidied ==
  ASSUME Inv, NEW t, TableOK(t), SetTo(CleanedUp(t)), DropProcs, pc' = AtPrompt,
         Held(t) \subseteq DOMAIN jobs,
         \A s \in Held(t) : t.jobs[s].state = jobs[s].state,
         CurrentIs(Table, pc) => CurrentGood(t),
         PreviousGood(Table) => PreviousGood(t)
  PROVE  Keeps
  <1> DEFINE u == CleanedUp(t)
  <1>1. Shrunk(t, u, Finished(t)) /\ Reported(u)
    BY CleanedFacts
  <1>2. SetTo(u)
    OBVIOUS
  <1> HIDE DEF u
  <1>3. Held(u) \subseteq Held(t) /\ \A s \in Held(u) : u.jobs[s] = t.jobs[s]
    BY <1>1, ShrunkJobs DEF TableOK
  <1>4. \A s \in Held(u) : u.jobs[s].state = jobs[s].state
    BY <1>3
  <1> QED BY <1>1, <1>2, <1>3, <1>4, Fewer DEF Shrunk

LEMMA StepTell ==
  ASSUME Inv, NEW t, TableOK(t), Tell(t),
         Held(t) \subseteq DOMAIN jobs,
         \A s \in Held(t) : t.jobs[s].state = jobs[s].state,
         CurrentGood(Table) => CurrentGood(t),
         PreviousGood(Table) => PreviousGood(t)
  PROVE  Keeps
  <1>1. pc = AtPrompt /\ pc' = AtPrompt /\ SetTo(CleanedUp(t)) /\ DropProcs
    BY DEF Tell
  <1>2. CurrentIs(Table, pc) => CurrentGood(t)
    BY <1>1, AtThePrompt
  <1> QED BY <1>1, <1>2, Tidied

LEMMA StepPrompt == Inv /\ Prompt => Keeps
  <1> SUFFICES ASSUME Inv, Prompt PROVE Keeps
    OBVIOUS
  <1> DEFINE t == Notified(Table, DOMAIN jobs)
  <1>1. Tell(t)
    BY DEF Prompt
  <1>2. TableOK(t) /\ SameStates(Table, t)
    BY TableTyped, NotifiedFacts
  <1> HIDE DEF t
  <1>3. (CurrentGood(Table) => CurrentGood(t)) /\ (PreviousGood(Table) => PreviousGood(t))
    BY <1>2, StatesDecide
  <1>4. Held(t) = DOMAIN jobs /\ \A s \in Held(t) : t.jobs[s].state = jobs[s].state
    BY <1>2, TableTyped DEF SameStates
  <1> QED BY <1>1, <1>2, <1>3, <1>4, StepTell

LEMMA StepJobsBuiltin == Inv /\ JobsBuiltin => Keeps
  <1> SUFFICES ASSUME Inv, JobsBuiltin PROVE Keeps
    OBVIOUS
  <1> DEFINE w == CleanedUp(Table)
             t == Shown(w, DOMAIN w.jobs)
  <1>1. Tell(t)
    BY DEF JobsBuiltin
  <1>2. Shrunk(Table, w, Finished(Table))
    BY TableTyped, CleanedFacts
  <1> HIDE DEF w
  <1>3. Held(w) \subseteq Held(Table) /\ \A s \in Held(w) : w.jobs[s] = Table.jobs[s]
    BY <1>2, TableTyped, ShrunkJobs
  <1>4. TableOK(w)
    BY <1>2 DEF Shrunk
  <1>5. TableOK(t) /\ SameStates(w, t)
    BY <1>4, ShownFacts
  <1> HIDE DEF t
  <1>6. (CurrentGood(w) => CurrentGood(t)) /\ (PreviousGood(w) => PreviousGood(t))
    BY <1>5, StatesDecide
  <1>7. (CurrentGood(Table) => CurrentGood(t)) /\ (PreviousGood(Table) => PreviousGood(t))
    BY <1>2, <1>6 DEF Shrunk
  <1>8. Held(t) \subseteq DOMAIN jobs /\ \A s \in Held(t) : t.jobs[s].state = jobs[s].state
    BY <1>3, <1>5, TableTyped DEF SameStates
  <1> QED BY <1>1, <1>5, <1>7, <1>8, StepTell

LEMMA StepFinishWaitFor == Inv /\ FinishWaitFor => Keeps
  <1> SUFFICES ASSUME Inv, FinishWaitFor PROVE Keeps
    OBVIOUS
  <1> DEFINE t == Notified(Table, {pc.job})
  <1>1. /\ pc.at = "wait_for" /\ jobs[pc.job].state # "running"
        /\ SetTo(CleanedUp(t)) /\ DropProcs /\ pc' = AtPrompt
    BY DEF FinishWaitFor
  <1>2. TableOK(t) /\ SameStates(Table, t)
    BY TableTyped, NotifiedFacts
  <1> HIDE DEF t
  <1>3. /\ CurrentGood(Table) <=> CurrentGood(t)
        /\ PreviousGood(Table) <=> PreviousGood(t)
    BY <1>2, StatesDecide
  <1>4. Held(t) = DOMAIN jobs /\ \A s \in Held(t) : t.jobs[s].state = jobs[s].state
    BY <1>2, TableTyped DEF SameStates
  <1>5. pc.job \in DOMAIN jobs /\ jobs[pc.job].state \in {"stopped", "dead"}
    <2>1. pc # AtPrompt
      BY <1>1, AtPromptIs
    <2>2. pc.job \in DOMAIN jobs
      BY <2>1, TableTyped DEF PlaceOK
    <2> QED BY <1>1, <2>2, TableTyped DEF Job
  <1>6. pc.job \in In(Table, "stopped") \cup In(Table, "dead")
    BY <1>5, TableIs DEF In
  <1>7. CurrentIs(Table, pc) => CurrentGood(t)
    BY <1>3, <1>6 DEF CurrentIs, CurrentGood
  <1> QED BY <1>1, <1>2, <1>3, <1>4, <1>7, Tidied

LEMMA StepDisown ==
  ASSUME Inv, NEW s \in DOMAIN jobs, Disown(s)
  PROVE  Keeps
  <1> DEFINE u == DeleteJob(Table, s)
  <1>1. pc = AtPrompt /\ pc' = AtPrompt /\ SetTo(u) /\ DropProcs
    BY DEF Disown
  <1>2. Shrunk(Table, u, {s})
    BY TableTyped, DeleteJobFacts
  <1> HIDE DEF u
  <1>3. Held(u) \subseteq DOMAIN jobs /\ \A r \in Held(u) : u.jobs[r] = jobs[r]
    BY <1>2, TableTyped, ShrunkJobs
  <1>4. Reported(u)
    BY <1>3, TableTyped DEF Reported, In, Held
  <1>5. \A r \in Held(u) : u.jobs[r].state = jobs[r].state
    BY <1>3
  <1>6. CurrentIs(Table, pc) => CurrentGood(u)
    BY <1>1, <1>2, AtThePrompt DEF Shrunk
  <1> QED BY <1>1, <1>2, <1>3, <1>4, <1>5, <1>6, Fewer DEF Shrunk

\* disown -r and -a forget both indices; disown -r leaves stopped jobs behind
\* and so may leave no current one.
LEMMA StepDisownAll ==
  ASSUME Inv, NEW slots, slots \subseteq DOMAIN jobs, DisownAll(slots)
  PROVE  Inv' /\ KeepsPrevious /\ (slots = DOMAIN jobs => KeepsCurrent)
  <1> DEFINE t == [Table EXCEPT !.current = NoJob, !.previous = NoJob]
             u == Deleted(t, slots)
  <1>1. pc = AtPrompt /\ pc' = AtPrompt /\ SetTo(u) /\ DropProcs
    BY DEF DisownAll
  <1>0. t = [Table EXCEPT !.current = NoJob, !.previous = NoJob]
    OBVIOUS
  <1> HIDE DEF t
  <1>2. t = [jobs |-> jobs, current |-> NoJob, previous |-> NoJob,
             first |-> j_firstj, last |-> j_lastj, njobs |-> j_njobs]
    <2>1. Table = [jobs |-> jobs, current |-> j_current, previous |-> j_previous,
                   first |-> j_firstj, last |-> j_lastj, njobs |-> j_njobs]
      BY DEF Table
    <2> QED BY <1>0, <2>1
  <1>3. /\ SameJobs(Table, t) /\ IndicesExist(t) /\ t.current = NoJob
    <2>1. /\ t.jobs = jobs /\ t.current = NoJob /\ t.previous = NoJob
          /\ t.first = j_firstj /\ t.last = j_lastj /\ t.njobs = j_njobs
      BY <1>2
    <2>2. Held(t) = Held(Table)
      BY <2>1, TableIs DEF Held
    <2>3. IsTable(t)
      BY <1>2, <2>1, <2>2, TableTyped DEF IsTable
    <2> QED BY <2>1, <2>3, TableIs DEF SameJobs, IndicesExist
  <1>4. TableOK(t) /\ Held(t) = DOMAIN jobs /\ t.jobs = jobs
    BY <1>3, Reindexed, TableTyped, TableIs DEF SameJobs
  <1>5. Shrunk(t, u, slots)
    BY <1>4, DeletedFacts
  <1> HIDE DEF u
  <1>6. Held(u) = DOMAIN jobs \ slots /\ \A s \in Held(u) : u.jobs[s] = jobs[s]
    BY <1>4, <1>5, ShrunkJobs DEF TableOK
  <1>7. u.current = NoJob /\ TableOK(u)
    BY <1>3, <1>5 DEF Shrunk
  <1>8. Reported(u)
    BY <1>6, TableTyped DEF Reported, In, Held
  <1>9. jobs' = u.jobs
    BY <1>1 DEF SetTo
  <1>10. ProcsOK(u.jobs, proc', news')
    <2>1. proc' = [s \in DOMAIN u.jobs |-> proc[s]] /\ news' = [s \in DOMAIN u.jobs |-> news[s]]
      BY <1>1, <1>9 DEF DropProcs
    <2>2. \A s \in DOMAIN u.jobs : s \in DOMAIN jobs /\ u.jobs[s].state = jobs[s].state
      BY <1>6 DEF Held
    <2> QED BY <2>1, <2>2, TableTyped, ProcsLeft
  <1>11. PlaceOK(pc', u.jobs)
    BY <1>1, AtPromptIs DEF PlaceOK
  <1>12. Inv' /\ Table' = u
    BY <1>1, <1>7, <1>8, <1>10, <1>11, Landed
  <1>13. KeepsPrevious
    <2>1. NoJob \notin In(u, "stopped")
      BY <1>7, InSlots, FiniteSlots DEF TableOK
    <2> QED BY <1>7, <1>12, <2>1 DEF KeepsPrevious, PreviousGood
  <1>14. slots = DOMAIN jobs => KeepsCurrent
    <2> SUFFICES ASSUME slots = DOMAIN jobs PROVE KeepsCurrent
      OBVIOUS
    <2>1. In(u, "stopped") = {}
      BY <1>6 DEF In, Held
    <2> QED BY <1>12, <2>1 DEF KeepsCurrent, CurrentIs, CurrentGood
  <1> QED BY <1>12, <1>13, <1>14

-----------------------------------------------------------------------------
\* A new job, after a clean-up.  Only a foreground command that has stopped
\* already is a stopped job that the indices do not know.
LEMMA StepStart ==
  ASSUME Inv, NEW async \in BOOLEAN, NEW state \in {"running", "stopped", "dead"},
         Start(async, state)
  PROVE  /\ Inv' /\ KeepsPrevious
         /\ async \/ state # "stopped" => KeepsCurrent
  <1> DEFINE kept == CleanedUp(Table)
             new == NewSlot(kept)
             foreground == ~async
             started == Started(kept, foreground, state)
             u == StopPipeline(kept, async, state)
  <1>1. /\ pc = AtPrompt /\ new \in Slots /\ SetTo(u)
        /\ proc' = [s \in DOMAIN jobs' |-> IF s = new THEN state ELSE proc[s]]
        /\ news' = [s \in DOMAIN jobs' |-> IF s = new THEN NoNews ELSE news[s]]
        /\ pc' = IF async THEN AtPrompt ELSE [at |-> "called", job |-> new]
    BY DEF Start
  <1>2. Shrunk(Table, kept, Finished(Table)) /\ Reported(kept)
    BY TableTyped, CleanedFacts
  <1>3. u = IF async THEN ResetCurrent(started) ELSE started
    BY DEF StopPipeline
  <1>14. foreground \in BOOLEAN
    OBVIOUS
  <1> HIDE DEF u, kept, foreground
  <1>4. /\ TableOK(kept) /\ Held(kept) \subseteq DOMAIN jobs
        /\ \A s \in Held(kept) : kept.jobs[s] = jobs[s]
    BY <1>2, TableTyped, ShrunkJobs DEF Shrunk
  <1>5. /\ TableOK(started)
        /\ Held(started) = Held(kept) \cup {new}
        /\ \A s \in Held(kept) : started.jobs[s] = kept.jobs[s]
        /\ started.jobs[new].state = state /\ ~started.jobs[new].notified
        /\ state # "stopped" => (CurrentGood(kept) => CurrentGood(started))
        /\ PreviousGood(kept) => PreviousGood(started)
    BY <1>1, <1>4, <1>14, StartedFacts
  <1>6. new \notin Held(kept)
    BY <1>4, NewSlotIs
  <1> HIDE DEF new, started
  <1>7. Reported(started)
    BY <1>2, <1>5 DEF Reported, In, Held
  <1>8. /\ TableOK(u) /\ Reported(u) /\ u.jobs = started.jobs
        /\ PreviousGood(Table) => PreviousGood(u)
        /\ async \/ state # "stopped" => (CurrentGood(Table) => CurrentGood(u))
    <2>1. CASE async
      BY <1>3, <1>5, <1>7, <2>1, ResetCurrentKeeps
    <2>2. CASE ~async
      BY <1>2, <1>3, <1>5, <1>7, <2>2 DEF Shrunk
    <2> QED BY <2>1, <2>2
  <1>9. ProcsOK(u.jobs, proc', news')
    <2> DEFINE D == DOMAIN u.jobs
    <2>1. D = Held(kept) \cup {new} /\ jobs' = u.jobs
      BY <1>1, <1>5, <1>8 DEF SetTo, Held
    <2>2. /\ proc' = [s \in D |-> IF s = new THEN state ELSE proc[s]]
          /\ news' = [s \in D |-> IF s = new THEN NoNews ELSE news[s]]
      BY <1>1, <2>1
    <2>3. \A s \in Held(kept) : s \in DOMAIN jobs /\ u.jobs[s].state = jobs[s].state
      BY <1>4, <1>5, <1>8
    <2>4. u.jobs[new].state = state
      BY <1>5, <1>8
    <2>5. ProcsOK(jobs, proc, news)
      BY TableTyped
    <2> HIDE DEF D
    <2>6. /\ proc' \in [D -> {"running", "stopped", "dead"}]
          /\ news' \in [D -> {NoNews, "stopped", "continued", "exited"}]
      BY <2>1, <2>2, <2>3, <2>5 DEF ProcsOK
    <2>7. ASSUME NEW s \in D
          PROVE  /\ u.jobs[s].state = "dead" => proc'[s] = "dead" /\ news'[s] = NoNews
                 /\ news'[s] = "exited" => proc'[s] = "dead"
      <3>1. CASE s = new
        BY <2>2, <2>4, <3>1 DEF NoNews
      <3>2. CASE s # new
        BY <2>1, <2>2, <2>3, <2>5, <3>2 DEF ProcsOK
      <3> QED BY <3>1, <3>2
    <2> QED BY <2>6, <2>7 DEF ProcsOK, D
  <1>10. PlaceOK(pc', u.jobs)
    <2>1. CASE async
      BY <1>1, <2>1, AtPromptIs DEF PlaceOK
    <2>2. CASE ~async
      <3>1. new \in DOMAIN u.jobs
        BY <1>5, <1>8 DEF Held
      <3> QED BY <1>1, <2>2, <3>1 DEF PlaceOK
    <2> QED BY <2>1, <2>2
  <1>11. Inv' /\ Table' = u
    BY <1>1, <1>8, <1>9, <1>10, Landed
  <1>12. KeepsPrevious
    BY <1>8, <1>11 DEF KeepsPrevious
  <1>13. async \/ state # "stopped" => KeepsCurrent
    BY <1>1, <1>8, <1>11, AtThePrompt DEF KeepsCurrent, CurrentIs
  <1> QED BY <1>11, <1>12, <1>13

-----------------------------------------------------------------------------
(***************************************************************************)
(* Jobs that are continued.                                                *)
(***************************************************************************)
LEMMA SetRunningFacts ==
  ASSUME NEW t, TableOK(t), NEW s \in Held(t),
         NEW foreground \in BOOLEAN, NEW notified \in BOOLEAN
  PROVE  LET u == SetRunning(t, s, foreground, notified)
         IN  /\ TableOK(u) /\ Held(u) = Held(t)
             /\ u.current = t.current /\ u.previous = t.previous
             /\ u.jobs[s].state = "running"
             /\ \A r \in Held(t) \ {s} : u.jobs[r] = t.jobs[r]
             /\ In(u, "stopped") = In(t, "stopped") \ {s}
             /\ In(u, "dead") = In(t, "dead") \ {s}
             /\ Reported(t) => Reported(u)
  <1> DEFINE u == SetRunning(t, s, foreground, notified)
             job == [state |-> "running", foreground |-> foreground, notified |-> notified]
             js == [t.jobs EXCEPT ![s] = job]
  <1>1. u = WithJobs(t, js)
    BY DEF SetRunning
  <1>2. t.jobs \in [Held(t) -> Job] /\ job \in Job /\ job.state = "running"
    BY DEF TableOK, IsTable, Job
  <1> HIDE DEF job
  <1>3. js \in [Held(t) -> Job] /\ js[s] = job /\ \A r \in Held(t) \ {s} : js[r] = t.jobs[r]
    BY <1>2
  <1> HIDE DEF js, u
  <1>4. /\ TableOK(u) /\ u.jobs = js /\ Held(u) = Held(t)
        /\ u.current = t.current /\ u.previous = t.previous
    BY <1>1, <1>3, WithJobsFacts
  <1>5. /\ u.jobs[s].state = "running"
        /\ \A r \in Held(t) \ {s} : u.jobs[r] = t.jobs[r]
    BY <1>2, <1>3, <1>4
  <1>6. /\ In(u, "stopped") = In(t, "stopped") \ {s}
        /\ In(u, "dead") = In(t, "dead") \ {s}
    BY <1>4, <1>5 DEF In, Held
  <1>7. \A r \in In(t, "dead") \ {s} : r \in Held(t) \ {s}
    BY DEF In, Held
  <1>8. Reported(t) => Reported(u)
    BY <1>5, <1>6, <1>7 DEF Reported
  <1> QED BY <1>4, <1>5, <1>6, <1>8 DEF u

LEMMA Woken ==
  ASSUME Inv, NEW s \in DOMAIN jobs, Wake(s),
         NEW js, DOMAIN js = DOMAIN jobs, js[s].state = "running",
         \A r \in DOMAIN jobs \ {s} : js[r].state = jobs[r].state
  PROVE  ProcsOK(js, proc', news')
  <1>1. ProcsOK(jobs, proc, news)
    BY DEF Inv
  <1>2. /\ proc' = [proc EXCEPT ![s] = IF proc[s] = "stopped" THEN "running" ELSE proc[s]]
        /\ news' = [news EXCEPT ![s] = IF proc[s] = "stopped" THEN "continued" ELSE news[s]]
    BY DEF Wake
  <1>3. /\ proc' \in [DOMAIN jobs -> {"running", "stopped", "dead"}]
        /\ news' \in [DOMAIN jobs -> {NoNews, "stopped", "continued", "exited"}]
    BY <1>1, <1>2 DEF ProcsOK
  <1>4. ASSUME NEW r \in DOMAIN jobs
        PROVE  /\ js[r].state = "dead" => proc'[r] = "dead" /\ news'[r] = NoNews
               /\ news'[r] = "exited" => proc'[r] = "dead"
    <2>1. CASE r = s
      BY <1>1, <1>2, <2>1 DEF ProcsOK
    <2>2. CASE r # s
      BY <1>1, <1>2, <2>2 DEF ProcsOK
    <2> QED BY <2>1, <2>2
  <1> QED BY <1>3, <1>4 DEF ProcsOK

LEMMA StepFg ==
  ASSUME Inv, NEW s \in DOMAIN jobs, Fg(s)
  PROVE  Keeps
  <1> DEFINE w == SetCurrent(Table, s)
             notified == jobs[s].state = "stopped"
             foreground == TRUE
             u == SetRunning(w, s, foreground, notified)
  <1>1. /\ pc = AtPrompt /\ SetTo(u) /\ Wake(s) /\ pc' = [at |-> "called", job |-> s]
    BY DEF Fg
  <1>2. TableOK(w) /\ w.jobs = jobs /\ w.current = s /\ Reported(w)
    BY TableTyped, SetCurrentKeeps
  <1>3. Held(w) = DOMAIN jobs /\ s \in Held(w) /\ notified \in BOOLEAN /\ foreground \in BOOLEAN
    BY <1>2 DEF Held
  <1> HIDE DEF w, notified, foreground
  <1>4. /\ TableOK(u) /\ Held(u) = Held(w) /\ u.current = s
        /\ u.jobs[s].state = "running"
        /\ \A r \in Held(w) \ {s} : u.jobs[r] = w.jobs[r]
        /\ In(u, "stopped") = In(w, "stopped") \ {s}
        /\ Reported(u)
    BY <1>2, <1>3, SetRunningFacts
  <1> HIDE DEF u
  <1>5. ProcsOK(u.jobs, proc', news')
    <2>1. DOMAIN u.jobs = DOMAIN jobs
      BY <1>3, <1>4 DEF Held
    <2>2. \A r \in DOMAIN jobs \ {s} : u.jobs[r].state = jobs[r].state
      BY <1>2, <1>3, <1>4
    <2> QED BY <1>1, <1>4, <2>1, <2>2, Woken
  <1>6. PlaceOK(pc', u.jobs)
    <2>1. s \in DOMAIN u.jobs /\ s \in Slots
      BY <1>3, <1>4, TableTyped DEF Held, IsTable
    <2> QED BY <1>1, <2>1 DEF PlaceOK
  <1>7. CurrentIs(u, pc')
    BY <1>1, <1>4, AtPromptIs DEF CurrentIs
  <1>8. PreviousGood(u)
    BY <1>4 DEF PreviousGood
  <1> QED BY <1>1, <1>4, <1>5, <1>6, <1>7, <1>8, Lands

LEMMA StepBg ==
  ASSUME Inv, NEW s \in DOMAIN jobs, Bg(s)
  PROVE  Keeps
  <1> DEFINE foreground == FALSE
             notified == TRUE
             w == SetRunning(Table, s, foreground, notified)
             u == ResetCurrent(w)
  <1>1. pc = AtPrompt /\ SetTo(u) /\ Wake(s) /\ pc' = pc
    BY DEF Bg
  <1>7. foreground \in BOOLEAN /\ notified \in BOOLEAN /\ s \in Held(Table)
    BY TableTyped
  <1> HIDE DEF foreground, notified
  <1>2. /\ TableOK(w) /\ Held(w) = DOMAIN jobs /\ w.jobs[s].state = "running" /\ Reported(w)
        /\ \A r \in DOMAIN jobs \ {s} : w.jobs[r] = jobs[r]
    BY <1>7, TableTyped, SetRunningFacts
  <1> HIDE DEF w
  <1>3. TableOK(u) /\ u.jobs = w.jobs /\ CurrentGood(u) /\ PreviousGood(u) /\ Reported(u)
    BY <1>2, ResetCurrentKeeps
  <1> HIDE DEF u
  <1>4. ProcsOK(u.jobs, proc', news')
    <2>1. DOMAIN w.jobs = DOMAIN jobs
      BY <1>2 DEF Held
    <2>2. \A r \in DOMAIN jobs \ {s} : w.jobs[r].state = jobs[r].state
      BY <1>2
    <2> QED BY <1>1, <1>2, <1>3, <2>1, <2>2, Woken
  <1>5. PlaceOK(pc', u.jobs)
    BY <1>1, AtThePrompt
  <1>6. CurrentIs(u, pc')
    BY <1>3 DEF CurrentIs
  <1> QED BY <1>1, <1>3, <1>4, <1>5, <1>6, Lands

\* kill -CONT does not look at the indices, so it may leave a running current
\* or previous job.
LEMMA StepKillCont ==
  ASSUME Inv, NEW s \in DOMAIN jobs, KillCont(s)
  PROVE  Inv' /\ (s # j_previous => KeepsPrevious)
  <1> DEFINE foreground == FALSE
             notified == TRUE
             u == SetRunning(Table, s, foreground, notified)
  <1>1. pc = AtPrompt /\ SetTo(u) /\ Wake(s) /\ pc' = pc
    BY DEF KillCont
  <1>7. foreground \in BOOLEAN /\ notified \in BOOLEAN /\ s \in Held(Table)
    BY TableTyped
  <1> HIDE DEF foreground, notified
  <1>2. /\ TableOK(u) /\ Held(u) = DOMAIN jobs /\ u.jobs[s].state = "running" /\ Reported(u)
        /\ \A r \in DOMAIN jobs \ {s} : u.jobs[r] = jobs[r]
        /\ u.current = Table.current /\ u.previous = Table.previous
        /\ In(u, "stopped") = In(Table, "stopped") \ {s}
        /\ In(u, "dead") = In(Table, "dead") \ {s}
    BY <1>7, TableTyped, SetRunningFacts
  <1> HIDE DEF u
  <1>3. ProcsOK(u.jobs, proc', news')
    <2>1. DOMAIN u.jobs = DOMAIN jobs
      BY <1>2 DEF Held
    <2>2. \A r \in DOMAIN jobs \ {s} : u.jobs[r].state = jobs[r].state
      BY <1>2
    <2> QED BY <1>1, <1>2, <2>1, <2>2, Woken
  <1>4. PlaceOK(pc', u.jobs)
    BY <1>1, AtThePrompt
  <1>5. Inv' /\ Table' = u
    BY <1>1, <1>2, <1>3, <1>4, Landed
  <1>6. s # j_previous /\ PreviousGood(Table) => PreviousGood(u)
    BY <1>2, TableIs DEF PreviousGood
  <1> QED BY <1>5, <1>6 DEF KeepsPrevious

LEMMA StepKill ==
  ASSUME Inv, NEW s \in DOMAIN jobs, Kill(s)
  PROVE  Keeps
  <1> DEFINE job == [jobs[s] EXCEPT !.notified = FALSE]
             js == [jobs EXCEPT ![s] = job]
             u == WithJobs(Table, js)
  <1>1. pc' = pc /\ proc' = proc /\ news' = news /\ pc = AtPrompt
    BY DEF Kill
  <1>2. SetTo(u)
    BY DEF Kill, WithJobs, Table
  <1>3. jobs[s] \in Job /\ jobs \in [DOMAIN jobs -> Job]
    BY TableTyped DEF IsTable
  <1>4. job \in Job /\ job.state = jobs[s].state /\ ~job.notified
    BY <1>3 DEF Job
  <1> HIDE DEF job
  <1>5. /\ js \in [Held(Table) -> Job] /\ DOMAIN js = DOMAIN jobs
        /\ js[s] = job /\ \A r \in DOMAIN jobs \ {s} : js[r] = jobs[r]
    BY <1>3, <1>4, TableTyped
  <1> HIDE DEF js
  <1>6. /\ TableOK(u) /\ u.jobs = js /\ Held(u) = DOMAIN jobs
        /\ u.current = Table.current /\ u.previous = Table.previous
    BY <1>5, TableTyped, WithJobsFacts
  <1> HIDE DEF u
  <1>7. \A r \in DOMAIN jobs : u.jobs[r].state = jobs[r].state
    BY <1>4, <1>5, <1>6
  <1>8. SameStates(Table, u)
    BY <1>6, <1>7, TableTyped DEF SameStates
  <1>9. /\ In(u, "dead") = In(Table, "dead")
        /\ CurrentGood(Table) <=> CurrentGood(u)
        /\ PreviousGood(Table) <=> PreviousGood(u)
    BY <1>8, StatesDecide
  <1>10. Reported(u)
    <2>1. \A r \in In(u, "dead") : r \in DOMAIN jobs /\ ~jobs[r].notified
      BY <1>9, TableTyped DEF Reported, In
    <2> QED BY <1>4, <1>5, <1>6, <2>1 DEF Reported
  <1>11. ProcsOK(u.jobs, proc', news')
    BY <1>1, <1>5, <1>6, <1>7, TableTyped DEF ProcsOK
  <1>12. PlaceOK(pc', u.jobs)
    BY <1>1, AtThePrompt
  <1>13. CurrentIs(Table, pc) => CurrentIs(u, pc')
    BY <1>1, <1>9, AtThePrompt DEF CurrentIs
  <1> QED BY <1>2, <1>6, <1>9, <1>10, <1>11, <1>12, <1>13, Lands

-----------------------------------------------------------------------------
(***************************************************************************)
(* All steps together.                                                     *)
(***************************************************************************)
\* The steps after which the current job, or the previous one, may be wrong.
LosesCurrent ==
    \/ DisownAll(In(Table, "running"))
    \/ \E s \in DOMAIN jobs : KillCont(s)
    \/ Start(FALSE, "stopped")
LosesPrevious == j_previous \in DOMAIN jobs /\ KillCont(j_previous)

LEMMA StepAll ==
  ASSUME Inv, [Next]_vars
  PROVE  Inv' /\ (~LosesCurrent => KeepsCurrent) /\ (~LosesPrevious => KeepsPrevious)
  <1> DEFINE Goal == Inv' /\ (~LosesCurrent => KeepsCurrent) /\ (~LosesPrevious => KeepsPrevious)
  <1>0. Keeps => Goal
    BY DEF Keeps
  <1> SUFFICES Goal
    OBVIOUS
  <1>1. ASSUME NEW s \in DOMAIN jobs, Stops(s) PROVE Keeps
    BY <1>1, StepChange DEF Stops
  <1>2. ASSUME NEW s \in DOMAIN jobs, Continues(s) PROVE Keeps
    BY <1>2, StepChange DEF Continues
  <1>3. ASSUME NEW s \in DOMAIN jobs, Dies(s) PROVE Keeps
    BY <1>3, StepChange DEF Dies
  <1>4. CASE Handler
    BY <1>0, <1>4, StepWaitChld DEF Handler
  <1>5. ASSUME NEW s \in DOMAIN jobs, ReapBlocking(s) PROVE Keeps
    <2>1. {s} \cap Pending \subseteq Pending /\ WaitChld({s} \cap Pending)
      BY <1>5 DEF ReapBlocking
    <2> QED BY <2>1, StepWaitChld
  <1>6. ASSUME NEW async \in BOOLEAN, NEW state \in {"running", "stopped", "dead"},
               Start(async, state)
        PROVE  Goal
    <2>1. Inv' /\ KeepsPrevious /\ (async \/ state # "stopped" => KeepsCurrent)
      BY <1>6, StepStart
    <2>2. ~async /\ state = "stopped" => LosesCurrent
      <3> SUFFICES ASSUME ~async, state = "stopped" PROVE Start(FALSE, "stopped")
        BY DEF LosesCurrent
      <3>1. async = FALSE
        OBVIOUS
      <3> QED BY <1>6, <3>1
    <2> QED BY <2>1, <2>2
  <1>7. CASE EnterWaitFor
    BY <1>0, <1>7, StepEnterWaitFor
  <1>8. CASE FinishWaitFor
    BY <1>0, <1>8, StepFinishWaitFor
  <1>9. ASSUME NEW s \in DOMAIN jobs, Fg(s) PROVE Keeps
    BY <1>9, StepFg
  <1>10. ASSUME NEW s \in DOMAIN jobs, Bg(s) PROVE Keeps
    BY <1>10, StepBg
  <1>11. ASSUME NEW s \in DOMAIN jobs, KillCont(s) PROVE Goal
    <2>1. Inv' /\ (s # j_previous => KeepsPrevious)
      BY <1>11, StepKillCont
    <2>2. LosesCurrent /\ (s = j_previous => LosesPrevious)
      BY <1>11 DEF LosesCurrent, LosesPrevious
    <2> QED BY <2>1, <2>2
  <1>12. ASSUME NEW s \in DOMAIN jobs, Kill(s) PROVE Keeps
    BY <1>12, StepKill
  <1>13. ASSUME NEW s \in DOMAIN jobs, Disown(s) PROVE Keeps
    BY <1>13, StepDisown
  <1>14. CASE DisownAll(In(Table, "running"))
    <2>1. In(Table, "running") \subseteq DOMAIN jobs
      BY TableIs DEF In
    <2> QED BY <1>14, <2>1, StepDisownAll DEF LosesCurrent
  <1>15. CASE DisownAll(DOMAIN jobs)
    BY <1>15, StepDisownAll
  <1>16. CASE Prompt
    BY <1>0, <1>16, StepPrompt
  <1>17. CASE JobsBuiltin
    BY <1>0, <1>17, StepJobsBuiltin
  <1>18. CASE UNCHANGED vars
    <2>1. UNCHANGED table /\ jobs' = jobs /\ pc' = pc /\ proc' = proc /\ news' = news
      BY <1>18 DEF vars, table
    <2> QED BY <1>0, <2>1, TableTyped, QuietStep
  <1> HIDE DEF Goal
  <1> QED BY <1>0, <1>1, <1>2, <1>3, <1>4, <1>5, <1>6, <1>7, <1>8, <1>9, <1>10, <1>11,
             <1>12, <1>13, <1>14, <1>15, <1>16, <1>17, <1>18 DEF Next

LEMMA InvHolds == Spec => []Inv
  <1>1. Inv /\ [Next]_vars => Inv'
    BY StepAll
  <1> QED BY <1>1, InvInit, PTL DEF Spec

-----------------------------------------------------------------------------
LEMMA InvType == Inv => TypeOK
  <1> SUFFICES ASSUME Inv PROVE TypeOK
    OBVIOUS
  <1> DEFINE S == DOMAIN jobs
  <1>1. /\ S \subseteq Slots /\ \A s \in S : jobs[s] \in Job
        /\ IndicesExist(Table) /\ Brackets(Table) /\ Held(Table) = S
        /\ ProcsOK(jobs, proc, news) /\ PlaceOK(pc, jobs)
    BY TableTyped DEF TableOK, IsTable
  <1> HIDE DEF S
  <1>2. {j_current, j_previous} \subseteq Slots \cup {NoJob}
    BY <1>1, TableIs DEF IndicesExist
  <1>3. {j_firstj, j_lastj} \subseteq Slots
    <2>1. CASE S = {}
      <3>1. 0 \in Slots
        BY MaxJobsAssumption DEF Slots
      <3> QED BY <1>1, <2>1, <3>1, TableIs DEF Brackets
    <2>2. CASE S # {}
      <3>1. Min(S) \in S /\ Max(S) \in S
        BY <1>1, <2>2, FiniteSlots, LeastElement, LargestElement
      <3> QED BY <1>1, <2>2, <3>1, TableIs DEF Brackets
    <2> QED BY <2>1, <2>2
  <1>4. j_njobs \in 0 .. MaxJobs
    <2>1. IsFiniteSet(Slots) /\ Cardinality(Slots) = MaxJobs
      <3>1. MaxJobs - 1 \in Int /\ 0 \in Int
        BY MaxJobsAssumption
      <3>2. /\ IsFiniteSet(0 .. MaxJobs - 1)
            /\ Cardinality(0 .. MaxJobs - 1) = IF 0 > MaxJobs - 1 THEN 0 ELSE (MaxJobs - 1) - 0 + 1
        BY <3>1, FS_Interval
      <3> QED BY <3>2, MaxJobsAssumption DEF Slots
    <2>2. IsFiniteSet(S) /\ Cardinality(S) <= Cardinality(Slots)
      BY <1>1, <2>1, FS_Subset
    <2>3. Cardinality(S) \in Nat
      BY <2>2, FS_CardinalityType
    <2>4. j_njobs = Cardinality(S)
      BY <1>1, TableIs DEF Brackets
    <2> QED BY <2>1, <2>2, <2>3, <2>4, MaxJobsAssumption
  <1>5. \/ pc = AtPrompt
        \/ pc.at \in {"called", "wait_for"} /\ pc.job \in DOMAIN jobs
    BY <1>1 DEF PlaceOK
  <1>6. /\ proc \in [DOMAIN jobs -> {"running", "stopped", "dead"}]
        /\ news \in [DOMAIN jobs -> {NoNews, "stopped", "continued", "exited"}]
    BY <1>1 DEF ProcsOK
  <1> QED BY <1>1, <1>2, <1>3, <1>4, <1>5, <1>6 DEF TypeOK, S

LEMMA InvIndices == Inv => CurrentExists /\ IndicesBracketJobs /\ EndIsReported
  <1> SUFFICES ASSUME Inv PROVE CurrentExists /\ IndicesBracketJobs /\ EndIsReported
    OBVIOUS
  <1>1. IndicesExist(Table) /\ Brackets(Table) /\ Reported(Table)
    BY DEF Inv, TableOK
  <1>2. CurrentExists
    BY <1>1, TableIs DEF IndicesExist, CurrentExists
  <1>3. IndicesBracketJobs
    BY <1>1, TableIs DEF Brackets, IndicesBracketJobs
  <1>4. EndIsReported
    BY <1>1, TableIs DEF Reported, EndIsReported
  <1> QED BY <1>2, <1>3, <1>4

\* The table and the place of the shell are of the types they should be,
\* whatever is started, stopped, continued, disowned and deleted.
THEOREM TypeCorrect == Spec => []TypeOK
  BY InvHolds, InvType, PTL

\* jobs.c, set_current_job and reset_current: %+ and %- name jobs of the table,
\* both or neither.
THEOREM CurrentAlwaysExists == Spec => []CurrentExists
  BY InvHolds, InvIndices, PTL

\* jobs.c, reset_job_indices and the assertions at jobs.c:1324 and 1326:
\* js.j_firstj and js.j_lastj are the first and the last job of the table, and
\* js.j_njobs is their number, however many jobs one clean-up deletes.
THEOREM IndicesAlwaysBracket == Spec => []IndicesBracketJobs
  BY InvHolds, InvIndices, PTL

\* jobs.c, cleanup_dead_jobs: it never deletes a job that ended after the user
\* was told something else of it.
THEOREM EndsAreReported == Spec => []EndIsReported
  BY InvHolds, InvIndices, PTL

LEMMA SameAsTable ==
  /\ CurrentIsGood <=> CurrentIs(Table, pc)
  /\ CurrentIsGood' <=> CurrentIs(Table', pc')
  /\ PreviousIsGood <=> PreviousGood(Table)
  /\ PreviousIsGood' <=> PreviousGood(Table')
  <1>1. Table'.current = j_current' /\ Table'.previous = j_previous'
    BY DEF Table
  <1>2. /\ CurrentIsGood <=> CurrentIs(Table, pc)
        /\ PreviousIsGood <=> PreviousGood(Table)
    BY TableIs DEF CurrentIsGood, CurrentIs, CurrentGood, PreviousIsGood, PreviousGood, Stopped
  <1>3. /\ CurrentIsGood' <=> CurrentIs(Table', pc')
        /\ PreviousIsGood' <=> PreviousGood(Table')
    <2> HIDE DEF Table
    <2> QED BY <1>1 DEF CurrentIsGood, CurrentIs, CurrentGood, PreviousIsGood, PreviousGood, Stopped
  <1> QED BY <1>2, <1>3

\* jobs.c, the comment above reset_current: a stopped job is the current one, if
\* there is a stopped job.  Only three steps can end that.
THEOREM CurrentStaysGood == Spec => CurrentIsKept
  <1>1. Inv /\ [Next]_vars =>
          [CurrentIsGood /\ ~CurrentIsGood' =>
             \/ DisownAll(In(Table, "running"))
             \/ \E s \in DOMAIN jobs : KillCont(s)
             \/ Start(FALSE, "stopped")]_vars
    <2> SUFFICES ASSUME Inv, [Next]_vars, CurrentIsGood, ~CurrentIsGood' PROVE LosesCurrent
      BY DEF LosesCurrent
    <2> QED BY StepAll, SameAsTable DEF KeepsCurrent
  <1> QED BY <1>1, InvHolds, PTL DEF Spec, CurrentIsKept

\* jobs.c, set_current_job: the previous job is a stopped one while the current
\* job is stopped and an older one is, too.  Only kill -CONT %- can end that.
THEOREM PreviousStaysGood == Spec => PreviousIsKept
  <1>1. Inv /\ [Next]_vars =>
          [PreviousIsGood /\ ~PreviousIsGood' =>
             j_previous \in DOMAIN jobs /\ KillCont(j_previous)]_vars
    <2> SUFFICES ASSUME Inv, [Next]_vars, PreviousIsGood, ~PreviousIsGood' PROVE LosesPrevious
      BY DEF LosesPrevious
    <2> QED BY StepAll, SameAsTable DEF KeepsPrevious
  <1> QED BY <1>1, InvHolds, PTL DEF Spec, PreviousIsKept
=============================================================================
