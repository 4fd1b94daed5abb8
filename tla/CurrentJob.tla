----------------------------- MODULE CurrentJob -----------------------------
(***************************************************************************)
(* The current job (%+) and the previous job (%-) of an interactive shell  *)
(* with job control (jobs.c): which jobs they are after jobs are started,  *)
(* stopped, continued, brought to the foreground, put in the background,   *)
(* disowned, reported and deleted.                                         *)
(*                                                                         *)
(* A job is one process here, known by its slot in the table.  Waits and   *)
(* saved statuses are in module Jobs.                                      *)
(***************************************************************************)
EXTENDS Integers, FiniteSetsExt

CONSTANT MaxJobs    \* bound on the slots of the table

ASSUME MaxJobsAssumption == MaxJobs \in Nat \ {0}

NoJob == -1
Slots == 0 .. MaxJobs - 1
NoNews == "none"
AtPrompt == [at |-> "prompt", job |-> NoJob]

VARIABLES
    jobs,         \* slot -> what the shell records of the job
    j_current,    \* js.j_current
    j_previous,   \* js.j_previous
    j_firstj,     \* js.j_firstj, the first slot in use
    j_lastj,      \* js.j_lastj, the last one
    j_njobs,      \* js.j_njobs
    pc,           \* the prompt, or the foreground job that is run

    proc,         \* slot -> the process: "running", "stopped" or "dead"
    news          \* slot -> the change waitpid has still to report

table == <<jobs, j_current, j_previous, j_firstj, j_lastj, j_njobs>>
vars == <<table, pc, proc, news>>

-----------------------------------------------------------------------------
(***************************************************************************)
(* The table is passed on as a record of the jobs and the indices, because *)
(* one command may delete several jobs, each with its effect on them.      *)
(***************************************************************************)
Table == [jobs |-> jobs, current |-> j_current, previous |-> j_previous,
          first |-> j_firstj, last |-> j_lastj, njobs |-> j_njobs]

In(t, state) == {s \in DOMAIN t.jobs : t.jobs[s].state = state}
IsStopped(t, s) == s \in In(t, "stopped")

\* most_recent_job_in_state: the job below this slot that is in this state.
MostRecent(t, slot, state) ==
    LET older == {s \in In(t, state) : s < slot}
    IN  IF older = {} THEN NoJob ELSE Max(older)

\* Mutated form: the second choice, the next older stopped job, is left out.
SetCurrentShort(t, job) ==
    LET moved   == IF t.current = job THEN t
                   ELSE [t EXCEPT !.current = job, !.previous = t.current]
        running == MostRecent(t, IF t.jobs[job].state = "running" THEN job ELSE MaxJobs, "running")
    IN  IF moved.previous # job /\ IsStopped(t, moved.previous) THEN moved
        ELSE [moved EXCEPT !.previous = IF running # NoJob THEN running ELSE job]

\* set_current_job.  The previous job is the former current one if that is
\* stopped, or the next older stopped job, or a running one, or the same job.
SetCurrent(t, job) ==
    LET moved   == IF t.current = job THEN t
                   ELSE [t EXCEPT !.current = job, !.previous = t.current]
        stopped == IF IsStopped(t, job) THEN MostRecent(t, job, "stopped") ELSE NoJob
        running == MostRecent(t, IF t.jobs[job].state = "running" THEN job ELSE MaxJobs, "running")
    IN  IF moved.previous # job /\ IsStopped(t, moved.previous) THEN moved
        ELSE [moved EXCEPT !.previous = IF stopped # NoJob THEN stopped
                                        ELSE IF running # NoJob THEN running
                                        ELSE job]

\* Mutated form: a running job is taken before a stopped one.
ResetRunning(t) ==
    LET running == MostRecent(t, MaxJobs, "running")
    IN  IF running # NoJob THEN SetCurrent(t, running)
        ELSE [t EXCEPT !.current = NoJob, !.previous = NoJob]

\* reset_current: the current job if it is stopped, the previous one if that
\* is, the newest stopped one, or the newest running one.
ResetCurrent(t) ==
    LET stopped == MostRecent(t, MaxJobs, "stopped")
        running == MostRecent(t, MaxJobs, "running")
        job     == IF IsStopped(t, t.current) THEN t.current
                   ELSE IF IsStopped(t, t.previous) THEN t.previous
                   ELSE IF stopped # NoJob THEN stopped
                   ELSE running
    IN  IF job # NoJob THEN SetCurrent(t, job)
        ELSE [t EXCEPT !.current = NoJob, !.previous = NoJob]

WithJobs(t, js) == [t EXCEPT !.jobs = js]

\* The next slot in use after this one, or before it, around the array.
After(used, slot) == IF \E s \in used : s > slot THEN Min({s \in used : s > slot}) ELSE Min(used)
Before(used, slot) == IF \E s \in used : s < slot THEN Max({s \in used : s < slot}) ELSE Max(used)

\* Mutated form: only the first slot in use is looked for.
ResetFirstIndex(t) ==
    LET used == DOMAIN t.jobs
    IN  [t EXCEPT !.first = IF t.first \in used THEN t.first ELSE After(used, t.first)]

\* reset_job_indices
ResetJobIndices(t) ==
    LET used == DOMAIN t.jobs
    IN  [t EXCEPT !.first = IF t.first \in used THEN t.first ELSE After(used, t.first),
                  !.last  = IF t.last \in used THEN t.last ELSE Before(used, t.last)]

\* A slot becomes free.
Removed(t, slot) ==
    LET kept == [t EXCEPT !.jobs = [s \in DOMAIN t.jobs \ {slot} |-> t.jobs[s]], !.njobs = @ - 1]
    IN  IF kept.njobs = 0 THEN [kept EXCEPT !.first = 0, !.last = 0]
        ELSE IF {kept.first, kept.last} \subseteq DOMAIN kept.jobs THEN kept
        ELSE ResetJobIndices(kept)

\* Mutated form: only the current job is looked after.
DeleteJobCurrent(t, s) ==
    IF s = t.current THEN ResetCurrent(Removed(t, s)) ELSE Removed(t, s)

\* delete_job
DeleteJob(t, s) ==
    IF s \in {t.current, t.previous} THEN ResetCurrent(Removed(t, s)) ELSE Removed(t, s)

\* A loop over the slots that deletes these jobs.
Deleted(t, slots) ==
    LET after[n \in 0 .. MaxJobs] ==
          IF n = 0 THEN t
          ELSE IF n - 1 \in slots THEN DeleteJob(after[n - 1], n - 1)
          ELSE after[n - 1]
    IN  after[MaxJobs]

\* cleanup_dead_jobs
CleanedUp(t) == Deleted(t, {s \in In(t, "dead") : t.jobs[s].notified \/ t.jobs[s].foreground})

\* What notify_of_job_status and the jobs builtin print, they flag.
Shown(t, slots) ==
    WithJobs(t, [s \in DOMAIN t.jobs |->
                   IF s \in slots THEN [t.jobs[s] EXCEPT !.notified = TRUE] ELSE t.jobs[s]])
Notified(t, slots) == Shown(t, slots \cap (In(t, "dead") \cup In(t, "stopped")))

SetTo(t) ==
    /\ jobs' = t.jobs
    /\ j_current' = t.current
    /\ j_previous' = t.previous
    /\ j_firstj' = t.first
    /\ j_lastj' = t.last
    /\ j_njobs' = t.njobs

\* A deleted job is no longer this module's, even if its process lives on.
DropProcs ==
    /\ proc' = [s \in DOMAIN jobs' |-> proc[s]]
    /\ news' = [s \in DOMAIN jobs' |-> news[s]]

-----------------------------------------------------------------------------
(***************************************************************************)
(* The processes: stopped, continued or ended by anyone at any time.       *)
(* waitpid reports the last change only.                                   *)
(***************************************************************************)
Change(s, from, to, report) ==
    /\ proc[s] \in from
    /\ proc' = [proc EXCEPT ![s] = to]
    /\ news' = [news EXCEPT ![s] = report]
    /\ UNCHANGED <<table, pc>>

Stops(s) == Change(s, {"running"}, "stopped", "stopped")
Continues(s) == Change(s, {"stopped"}, "running", "continued")
Dies(s) == Change(s, {"running", "stopped"}, "dead", "exited")

(***************************************************************************)
(* waitchld, for the changes of these jobs, in some order; then the job    *)
(* that stopped last becomes the current one, or reset_current chooses, if *)
(* a stopped job runs again.                                               *)
(***************************************************************************)
\* Mutated form: the flag of an earlier state is kept.
UpdatedFlagged(job, report) ==
    CASE report = "stopped"   -> [job EXCEPT !.state = "stopped", !.foreground = FALSE]
      [] report = "continued" -> [job EXCEPT !.state = "running"]
      [] report = "exited"    -> [job EXCEPT !.state = "dead"]

\* Mutated form: what waitpid reports is taken for the state of the job.
UpdatedRaw(job, report) == [job EXCEPT !.state = report, !.notified = FALSE]

\* set_job_status_and_cleanup
Updated(job, report) ==
    CASE report = "stopped"   -> [state |-> "stopped", foreground |-> FALSE, notified |-> FALSE]
      [] report = "continued" -> [job EXCEPT !.state = "running", !.notified = FALSE]
      [] report = "exited"    -> [job EXCEPT !.state = "dead", !.notified = FALSE]

Pending == {s \in DOMAIN jobs : news[s] # NoNews}

WaitChld(batch) ==
    LET js      == [s \in DOMAIN jobs |-> IF s \in batch THEN Updated(jobs[s], news[s]) ELSE jobs[s]]
        t       == WithJobs(Table, js)
        stopped == {s \in batch : news[s] = "stopped"}
        resumed == {s \in batch : news[s] = "continued" /\ jobs[s].state = "stopped"}
    IN  /\ batch # {}
        /\ \/ \E last \in stopped : SetTo(SetCurrent(t, last))
           \/ stopped = {} /\ resumed # {} /\ SetTo(ResetCurrent(t))
           \/ stopped = {} /\ resumed = {} /\ SetTo(t)
        /\ news' = [s \in DOMAIN jobs |-> IF s \in batch THEN NoNews ELSE news[s]]
        /\ UNCHANGED <<pc, proc>>

\* The SIGCHLD handler takes all changes there are, wait_for's waitpid one.
Handler == pc.at \in {"prompt", "called"} /\ WaitChld(Pending)
ReapBlocking(s) == pc.at = "wait_for" /\ jobs[pc.job].state = "running" /\ WaitChld({s} \cap Pending)

-----------------------------------------------------------------------------
(***************************************************************************)
(* Starting a job: make_child and stop_pipeline.  Between the two the job  *)
(* is not in the table, so whatever the handler hears of it changes its    *)
(* state only.                                                             *)
(***************************************************************************)
NewSlot(t) == IF DOMAIN t.jobs = {} THEN 0 ELSE Max(DOMAIN t.jobs) + 1

Started(t, foreground, state) ==
    LET new == NewSlot(t)
    IN  [t EXCEPT !.jobs = [s \in DOMAIN @ \cup {new} |->
                              IF s = new THEN [state |-> state, foreground |-> foreground,
                                               notified |-> FALSE]
                              ELSE @[s]],
                  !.last = new, !.njobs = @ + 1]

\* Mutated form: the indices are left alone when a job is started with &.
StopPipelineOnly(t, async, state) == Started(t, ~async, state)

StopPipeline(t, async, state) ==
    IF async THEN ResetCurrent(Started(t, FALSE, state)) ELSE Started(t, TRUE, state)

Start(async, state) ==
    LET kept == CleanedUp(Table)
        new  == NewSlot(kept)
    IN  /\ pc = AtPrompt
        /\ new \in Slots
        /\ SetTo(StopPipeline(kept, async, state))
        /\ proc' = [s \in DOMAIN jobs' |-> IF s = new THEN state ELSE proc[s]]
        /\ news' = [s \in DOMAIN jobs' |-> IF s = new THEN NoNews ELSE news[s]]
        /\ pc' = IF async THEN AtPrompt ELSE [at |-> "called", job |-> new]

EnterWaitFor ==
    /\ pc.at = "called"
    /\ pc' = [pc EXCEPT !.at = "wait_for"]
    /\ UNCHANGED <<table, proc, news>>

\* The end of wait_for: notify_and_cleanup for this job.
FinishWaitFor ==
    LET t == Notified(Table, {pc.job})
    IN  /\ pc.at = "wait_for"
        /\ jobs[pc.job].state # "running"
        /\ SetTo(CleanedUp(t))
        /\ DropProcs
        /\ pc' = AtPrompt

-----------------------------------------------------------------------------
(***************************************************************************)
(* fg and bg: start_job.  SIGCONT wakes a stopped process; the job counts  *)
(* as running even if the process has died.                                *)
(***************************************************************************)
Wake(s) ==
    /\ proc' = [proc EXCEPT ![s] = IF @ = "stopped" THEN "running" ELSE @]
    /\ news' = [news EXCEPT ![s] = IF proc[s] = "stopped" THEN "continued" ELSE @]

SetRunning(t, s, foreground, notified) ==
    WithJobs(t, [t.jobs EXCEPT ![s] = [state |-> "running", foreground |-> foreground,
                                       notified |-> notified]])

Fg(s) ==
    /\ pc = AtPrompt
    /\ jobs[s].state # "dead"
    /\ SetTo(SetRunning(SetCurrent(Table, s), s, TRUE, jobs[s].state = "stopped"))
    /\ Wake(s)
    /\ pc' = [at |-> "called", job |-> s]

Bg(s) ==
    /\ pc = AtPrompt
    /\ jobs[s].state = "stopped"
    /\ SetTo(ResetCurrent(SetRunning(Table, s, FALSE, TRUE)))
    /\ Wake(s)
    /\ UNCHANGED pc

\* kill -CONT %s: kill_pid sets the job running without another look at the
\* indices.  Any other signal only clears the flag.
KillCont(s) ==
    /\ pc = AtPrompt
    /\ jobs[s].state = "stopped"
    /\ SetTo(SetRunning(Table, s, FALSE, TRUE))
    /\ Wake(s)
    /\ UNCHANGED pc

Kill(s) ==
    /\ pc = AtPrompt
    /\ SetTo([Table EXCEPT !.jobs[s].notified = FALSE])
    /\ UNCHANGED <<pc, proc, news>>

-----------------------------------------------------------------------------
(***************************************************************************)
(* disown, the notifications before a prompt, and the jobs builtin.        *)
(***************************************************************************)
Disown(s) ==
    /\ pc = AtPrompt
    /\ SetTo(DeleteJob(Table, s))
    /\ DropProcs
    /\ UNCHANGED pc

\* disown -r and disown -a: delete_all_jobs, which forgets both indices first.
DisownAll(slots) ==
    LET t == [Table EXCEPT !.current = NoJob, !.previous = NoJob]
    IN  /\ pc = AtPrompt
        /\ SetTo(Deleted(t, slots))
        /\ DropProcs
        /\ UNCHANGED pc

Tell(t) ==
    /\ pc = AtPrompt
    /\ SetTo(CleanedUp(t))
    /\ DropProcs
    /\ UNCHANGED pc

Prompt == Tell(Notified(Table, DOMAIN jobs))

JobsBuiltin ==
    LET t == CleanedUp(Table)
    IN  Tell(Shown(t, DOMAIN t.jobs))

-----------------------------------------------------------------------------
Init ==
    /\ jobs = <<>>
    /\ j_current = NoJob
    /\ j_previous = NoJob
    /\ j_firstj = 0 /\ j_lastj = 0 /\ j_njobs = 0
    /\ pc = AtPrompt
    /\ proc = <<>>
    /\ news = <<>>

Next ==
    \/ \E s \in DOMAIN jobs : Stops(s)
    \/ \E s \in DOMAIN jobs : Continues(s)
    \/ \E s \in DOMAIN jobs : Dies(s)
    \/ Handler
    \/ \E s \in DOMAIN jobs : ReapBlocking(s)
    \/ \E async \in BOOLEAN, state \in {"running", "stopped", "dead"} : Start(async, state)
    \/ EnterWaitFor
    \/ FinishWaitFor
    \/ \E s \in DOMAIN jobs : Fg(s)
    \/ \E s \in DOMAIN jobs : Bg(s)
    \/ \E s \in DOMAIN jobs : KillCont(s)
    \/ \E s \in DOMAIN jobs : Kill(s)
    \/ \E s \in DOMAIN jobs : Disown(s)
    \/ DisownAll(In(Table, "running"))
    \/ DisownAll(DOMAIN jobs)
    \/ Prompt
    \/ JobsBuiltin

Spec == Init /\ [][Next]_vars

-----------------------------------------------------------------------------
Job == [state : {"running", "stopped", "dead"}, foreground : BOOLEAN, notified : BOOLEAN]

TypeOK ==
    /\ DOMAIN jobs \subseteq Slots /\ \A s \in DOMAIN jobs : jobs[s] \in Job
    /\ {j_current, j_previous} \subseteq Slots \cup {NoJob}
    /\ {j_firstj, j_lastj} \subseteq Slots
    /\ j_njobs \in 0 .. MaxJobs
    /\ \/ pc = AtPrompt
       \/ pc.at \in {"called", "wait_for"} /\ pc.job \in DOMAIN jobs
    /\ proc \in [DOMAIN jobs -> {"running", "stopped", "dead"}]
    /\ news \in [DOMAIN jobs -> {NoNews, "stopped", "continued", "exited"}]

\* %+ and %- name jobs of the table, both or neither, however many jobs one
\* clean-up deletes: set_current_job reads the job at js.j_current.
CurrentExists ==
    /\ {j_current, j_previous} \subseteq DOMAIN jobs \cup {NoJob}
    /\ j_current = NoJob <=> j_previous = NoJob

\* The messages at jobs.c:1324 and jobs.c:1326: "non-null before js.j_firstj",
\* "non-null after js.j_lastj".  Whatever order jobs are deleted in, j_firstj and
\* j_lastj are the first and the last job of the table, and j_njobs their number:
\* a job beyond them would not be found by the loops that start or end there.
IndicesBracketJobs ==
    /\ j_njobs = Cardinality(DOMAIN jobs)
    /\ DOMAIN jobs # {} => j_firstj = Min(DOMAIN jobs) /\ j_lastj = Max(DOMAIN jobs)

\* The current job is a stopped one, if any is stopped, or the foreground job,
\* or one that ended and is deleted next.
Stopped == In(Table, "stopped")
CurrentIsGood ==
    Stopped # {} => \/ j_current \in Stopped
                    \/ j_current = pc.job /\ pc # AtPrompt
                    \/ j_current \in In(Table, "dead")

\* The three steps after which the comment above reset_current does not hold:
\* disown -r, kill -CONT, and a foreground command that stops before its job
\* is in the table.  No other sequence of steps has that effect.
CurrentIsKept ==
    [][CurrentIsGood /\ ~CurrentIsGood' =>
         \/ DisownAll(In(Table, "running"))
         \/ \E s \in DOMAIN jobs : KillCont(s)
         \/ Start(FALSE, "stopped")]_vars

\* While the current job is stopped and an older job is stopped, too, the
\* previous job is a stopped one, or one that ended and is deleted next.  Only
\* kill -CONT of the previous job breaks that.
PreviousIsGood ==
    j_current \in Stopped /\ (\E s \in Stopped : s < j_current) =>
        j_previous \in (Stopped \ {j_current}) \cup In(Table, "dead")

PreviousIsKept ==
    [][PreviousIsGood /\ ~PreviousIsGood' => j_previous \in DOMAIN jobs /\ KillCont(j_previous)]_vars

\* No job ends unreported: a dead job in the table is never flagged as known to
\* the user already (by bg, kill -CONT or an earlier notification), since the
\* next clean-up would delete it silently.
EndIsReported == \A s \in In(Table, "dead") : ~jobs[s].notified
=============================================================================
