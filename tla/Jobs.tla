-------------------------------- MODULE Jobs --------------------------------
(***************************************************************************)
(* The job table of a shell that runs a script (jobs.c; no job control):   *)
(* forking commands and pipelines, reaping them in the SIGCHLD handler or  *)
(* in wait_for, deleting dead jobs, and the wait builtin with its forms    *)
(* "wait pid", "wait" and "wait -n".  One step is a stretch of shell code  *)
(* between two points where SIGCHLD is unblocked; a child exits at any     *)
(* time and the handler reaps it wherever the signal is not blocked.       *)
(*                                                                         *)
(* The kernel reuses a pid as soon as its process has been reaped.         *)
(***************************************************************************)
EXTENDS Integers, Sequences, FiniteSetsExt, SequencesExt

CONSTANTS
    Pids,         \* process ids
    Exits,        \* statuses of processes that exit
    Signals,      \* 128+n of those killed by a signal the shell reports
    CHILD_MAX,    \* js.c_childmax
    MaxPipe,      \* bound on the commands of a pipeline
    MaxForks      \* bound on the children made in a run

Statuses == Exits \cup Signals
NoPid == -1
NoJob == -1
Unknown == 127    \* what wait returns for a pid it does not know
NotYet == -1      \* no status yet

ASSUME BoundAssumption == MaxForks \in Nat
ASSUME PidAssumption == Pids \cap {0, NoPid} = {}
ASSUME StatusAssumption == Statuses \subseteq Nat \ {Unknown}

VARIABLES
    posix,        \* posixly_correct
    jobs,         \* slot -> job
    the_pipeline, \* the processes of the pipeline being made
    saved,        \* the statuses in bgpids (module BgPids, as SavedStatus)
    last_asynchronous_pid,
    pc,           \* where the shell is
    kid,          \* the kernel's view of each pid: "none", "runs", "zombie"
    code,         \* the status a zombie holds
    forks         \* children made so far

(***************************************************************************)
(* History: what each pid stands for and what waiting for it must answer.  *)
(***************************************************************************)
VARIABLES
    tail,         \* pid -> last pid of the pipeline its newest process is in
    answer,       \* pid -> status of that pipeline, once there is one
    known,        \* pids of async pipelines whose status is to be kept
    disowned,     \* pids of jobs removed by disown
    ret           \* what the wait that has just returned reported

shellVars == <<posix, jobs, the_pipeline, saved, last_asynchronous_pid, pc>>
kernelVars == <<kid, code, forks>>
historyVars == <<tail, answer, known, disowned, ret>>
vars == <<shellVars, kernelVars, historyVars>>

Saved == INSTANCE SavedStatus WITH Pids <- Pids \cup {0}, Statuses <- Statuses \cup {0}

NoRet == [by |-> "none", pid |-> NoPid, asked |-> NoPid, status |-> NotYet]
Idle == [at |-> "idle", by |-> "none", pid |-> NoPid]
At(place, by, pid) == [at |-> place, by |-> by, pid |-> pid]

-----------------------------------------------------------------------------
(***************************************************************************)
(* The table.  A new job goes behind the last one; slots keep their number *)
(* (the array's growth and compaction are not modelled here).              *)
(***************************************************************************)
Running(job) == job.state = "running"
Dead(job) == job.state = "dead"
\* Mutated form of LastProc.
FirstProc(job) == Head(job.pipe)

LastProc(job) == Last(job.pipe)

\* Mutated form: the status as waitpid gives it.
RawStatus(job) == LastProc(job).status * 256

ExitStatus(job) == LastProc(job).status
KilledBySignal(job) == ExitStatus(job) \in Signals

PipeState(pipe) ==
    IF \E k \in DOMAIN pipe : pipe[k].running THEN "running" ELSE "dead"

NewSlot(js) == IF DOMAIN js = {} THEN 0 ELSE Max(DOMAIN js) + 1
Without(js, slots) == [s \in DOMAIN js \ slots |-> js[s]]

\* find_job: the first job with a process of that pid, dead or alive.
HasPid(job, pid) == \E k \in DOMAIN job.pipe : job.pipe[k].pid = pid
FindJob(js, pid) ==
    LET found == {s \in DOMAIN js : HasPid(js[s], pid)}
    IN  IF found = {} THEN NoJob ELSE Min(found)

\* Mutated form of Statused: no status is saved.
NoneStatused(js, slots) == <<>>

\* A loop over slots takes them in this order.
InOrder(slots) ==
    [k \in 1 .. Cardinality(slots) |->
       CHOOSE s \in slots : Cardinality({t \in slots : t < s}) = k - 1]

\* What delete_job hands to bgp_add, for the jobs of these slots in order:
\* the last pid and its status, of async jobs only.
Statused(js, slots) ==
    LET order == InOrder({s \in slots : js[s].async})
    IN  [k \in DOMAIN order |-> [pid    |-> LastProc(js[order[k]]).pid,
                                 status |-> ExitStatus(js[order[k]])]]

\* cleanup_dead_jobs: what it deletes, and the table it leaves.
Finished(js) ==
    {s \in DOMAIN js : /\ Dead(js[s])
                       /\ \/ js[s].notified
                          \/ ~js[s].async /\ ~KilledBySignal(js[s])}
CleanedUp(js) == Without(js, Finished(js))
CleanedStatuses(js) == Statused(js, Finished(js))

Flag(js, slots) ==
    [s \in DOMAIN js |-> IF s \in slots THEN [js[s] EXCEPT !.notified = TRUE] ELSE js[s]]

\* Mutated form of Notified: only background jobs are told about.
NotifiedBackground(js, slots) ==
    Flag(js, {s \in slots : Dead(js[s]) /\ js[s].async /\ KilledBySignal(js[s])})

\* notify_of_job_status for the jobs of these slots: in a script it prints and
\* flags the dead ones that were in the foreground or died of a signal.
Notified(js, slots) ==
    Flag(js, {s \in slots : Dead(js[s]) /\ (~js[s].async \/ KilledBySignal(js[s]))})

\* mark_dead_jobs_as_notified: all dead jobs but $!'s, or only as many, oldest
\* first, as leave CHILD_MAX processes in dead jobs that are not flagged.
Candidates(js) ==
    {s \in DOMAIN js : Dead(js[s]) /\ LastProc(js[s]).pid # last_asynchronous_pid}
DeadProcs(js) == MapThenSumSet(LAMBDA s : Len(js[s].pipe), {s \in DOMAIN js : Dead(js[s])})
Surplus(js) ==
    LET upTo(s) == MapThenSumSet(LAMBDA t : Len(js[t].pipe), {t \in Candidates(js) : t <= s})
    IN  IF DeadProcs(js) <= CHILD_MAX THEN {}
        ELSE {s \in Candidates(js) : DeadProcs(js) - upTo(s) > CHILD_MAX}
MarkedDead(js, force) == Flag(js, IF force THEN Candidates(js) ELSE Surplus(js))

-----------------------------------------------------------------------------
(***************************************************************************)
(* Changes of the saved statuses, which every deletion of a job may cause: *)
(* save some, drop one, and learn or forget which must be kept.            *)
(***************************************************************************)
Store(entries, forget, learn) ==
    \E lost \in Saved!MayLose(saved, entries) :
        /\ saved' = Saved!Without(Saved!WithSaved(saved, entries, lost), forget)
        /\ known' = (known \cup learn) \ ({saved[k].pid : k \in 1 .. lost} \cup {forget})

Report(by, pid, asked, status) ==
    ret' = [by |-> by, pid |-> pid, asked |-> asked, status |-> status]

-----------------------------------------------------------------------------
(***************************************************************************)
(* The kernel.                                                             *)
(***************************************************************************)
Exit(pid, status) ==
    /\ kid[pid] = "runs"
    /\ kid' = [kid EXCEPT ![pid] = "zombie"]
    /\ code' = [code EXCEPT ![pid] = status]
    /\ answer' = [p \in Pids |-> IF tail[p] = pid THEN status ELSE answer[p]]
    /\ ret' = NoRet
    /\ UNCHANGED <<shellVars, forks, tail, known, disowned>>

(***************************************************************************)
(* waitchld, for one child: find_process looks for a live process of that  *)
(* pid in the pipeline being made and then in the table; the state of its  *)
(* job is recomputed by set_job_status_and_cleanup.                        *)
(***************************************************************************)
\* Mutated form of Mark: one exit ends all processes of the job.
MarkAll(pipe, pid, status) ==
    [k \in DOMAIN pipe |-> [pipe[k] EXCEPT !.running = FALSE, !.status = status]]

Mark(pipe, pid, status) ==
    [k \in DOMAIN pipe |->
       IF pipe[k].pid = pid /\ pipe[k].running
         THEN [pid |-> pid, running |-> FALSE, status |-> status]
         ELSE pipe[k]]

AliveIn(pipe, pid) == \E k \in DOMAIN pipe : pipe[k].pid = pid /\ pipe[k].running

\* Mutated form of Reaped: the state is computed before the process is marked.
ReapedLate(job, pid, status) ==
    [pipe |-> Mark(job.pipe, pid, status), state |-> PipeState(job.pipe),
     async |-> job.async, notified |-> FALSE]

Reaped(job, pid, status) ==
    LET pipe == Mark(job.pipe, pid, status)
    IN  [pipe |-> pipe, state |-> PipeState(pipe), async |-> job.async, notified |-> FALSE]

WaitChld(pid) ==
    /\ kid[pid] = "zombie"
    /\ kid' = [kid EXCEPT ![pid] = "none"]
    /\ code' = [code EXCEPT ![pid] = 0]
    /\ IF AliveIn(the_pipeline, pid)
         THEN /\ the_pipeline' = Mark(the_pipeline, pid, code[pid])
              /\ UNCHANGED jobs
         ELSE /\ jobs' = [s \in DOMAIN jobs |->
                            IF AliveIn(jobs[s].pipe, pid)
                              THEN Reaped(jobs[s], pid, code[pid]) ELSE jobs[s]]
              /\ UNCHANGED the_pipeline
    /\ ret' = NoRet
    /\ UNCHANGED <<posix, saved, last_asynchronous_pid, forks, tail,
                   answer, known, disowned>>

\* sigchld_handler, wherever SIGCHLD is not blocked.
Unblocked ==
    \/ pc.at \in {"idle", "called", "all", "next", "any called", "scan"}
    \/ pc.at = "making" /\ pc.by \in {"async", "fg"}

Handler(pid) == Unblocked /\ WaitChld(pid) /\ UNCHANGED pc

-----------------------------------------------------------------------------
(***************************************************************************)
(* make_child.  SIGCHLD stays blocked from the first to the last child of  *)
(* a pipeline.  A dead job with the new pid is deleted, its status is not  *)
(* saved; a process of a running job only loses its pid; so does a saved   *)
(* status.                                                                 *)
(***************************************************************************)
\* Mutated form: the former owner of the pid stays.
KeepOldJob(js, pid) == js

DeleteOldJob(js, pid) ==
    LET s == FindJob(js, pid)
    IN  IF s = NoJob THEN js
        ELSE IF Dead(js[s]) THEN Without(js, {s})
        ELSE [js EXCEPT ![s].pipe =
                [k \in DOMAIN @ |-> IF @[k].pid = pid THEN [@[k] EXCEPT !.pid = 0] ELSE @[k]]]

\* The pid whose status goes with a job that is deleted for its pid's sake.
LostWith(js, pid) ==
    LET s == FindJob(js, pid)
    IN  IF s # NoJob /\ Dead(js[s]) THEN {LastProc(js[s]).pid} ELSE {}

MakeChild(pid, async) ==
    LET members == {the_pipeline[k].pid : k \in DOMAIN the_pipeline} \cup {pid}
    IN  /\ kid[pid] = "none"
        /\ forks < MaxForks
        /\ the_pipeline' = Append(the_pipeline, [pid |-> pid, running |-> TRUE, status |-> 0])
        /\ jobs' = DeleteOldJob(jobs, pid)
        /\ saved' = Saved!Without(saved, pid)
        /\ last_asynchronous_pid' = IF async THEN pid ELSE last_asynchronous_pid
        /\ kid' = [kid EXCEPT ![pid] = "runs"]
        /\ forks' = forks + 1
        /\ tail' = [p \in Pids |-> IF p \in members THEN pid
                                   ELSE IF tail[p] = pid THEN NoPid ELSE tail[p]]
        /\ answer' = [p \in Pids |-> IF p \in members THEN NotYet ELSE answer[p]]
        /\ known' = known \ ({pid} \cup LostWith(jobs, pid))
        /\ disowned' = disowned \ {pid}
        /\ ret' = NoRet
        /\ UNCHANGED <<posix, code>>

Simple(pid, by) ==
    /\ pc.at = "idle"
    /\ MakeChild(pid, by = "async")
    /\ pc' = At("making", by, pid)

Piped(pid, by) ==
    /\ pc.at = "idle"
    /\ MakeChild(pid, by = "async pipe")
    /\ pc' = At("making", by, pid)

PipedNext(pid) ==
    /\ pc.at = "making" /\ pc.by \in {"async pipe", "fg pipe"}
    /\ Len(the_pipeline) < MaxPipe
    /\ MakeChild(pid, pc.by = "async pipe")
    /\ pc' = At("making", pc.by, pid)

(***************************************************************************)
(* stop_pipeline, after which a foreground command is waited for: SIGCHLD  *)
(* is unblocked in between unless the command is a pipeline.               *)
(***************************************************************************)
\* Mutated form: a new job counts as running whatever became of its processes.
NewRunningJob(pipe, async) ==
    [pipe |-> pipe, state |-> "running", async |-> async, notified |-> FALSE]

NewJob(pipe, async) ==
    [pipe |-> pipe, state |-> PipeState(pipe), async |-> async, notified |-> FALSE]

StopPipeline ==
    LET async == pc.by \in {"async", "async pipe"}
        kept  == CleanedUp(jobs)
        slot  == NewSlot(kept)
    IN  /\ pc.at = "making"
        /\ jobs' = [s \in DOMAIN kept \cup {slot} |->
                      IF s = slot THEN NewJob(the_pipeline, async) ELSE kept[s]]
        /\ the_pipeline' = <<>>
        /\ Store(CleanedStatuses(jobs), NoPid, IF async THEN {pc.pid} ELSE {})
        /\ pc' = IF async THEN Idle
                 ELSE IF pc.by = "fg" THEN At("called", "fg", pc.pid)
                 ELSE At("wait_for", "fg", pc.pid)
        /\ ret' = NoRet
        /\ UNCHANGED <<posix, last_asynchronous_pid, kernelVars, tail, answer, disowned>>

-----------------------------------------------------------------------------
(***************************************************************************)
(* wait_for(pid): reap one child after the other while the job runs, then  *)
(* report the job's status, flag the job and clean up.  wait_for_single_pid *)
(* flags a job in any case and in posix mode deletes what was saved.       *)
(* The branch for ECHILD is not modelled: RecordsMatchKernel shows that a  *)
(* job in state "running" has a child left to wait for.                    *)
(***************************************************************************)
EnterWaitFor ==
    /\ pc.at = "called"
    /\ pc' = At("wait_for", pc.by, pc.pid)
    /\ ret' = NoRet
    /\ UNCHANGED <<posix, jobs, the_pipeline, saved, last_asynchronous_pid, kernelVars,
                   tail, answer, known, disowned>>

Waited == FindJob(jobs, pc.pid)

ReapBlocking(pid) ==
    /\ pc.at = "wait_for"
    /\ Running(jobs[Waited])
    /\ WaitChld(pid)
    /\ UNCHANGED pc

FinishWaitFor ==
    /\ pc.at = "wait_for"
    /\ ~Running(jobs[Waited])
    /\ LET told    == Notified(jobs, {Waited})
           cleaned == CleanedUp(told)
           flagged == Flag(cleaned, {Waited} \cap DOMAIN cleaned)
           single  == pc.by # "fg"
       IN  /\ jobs' = IF ~single THEN cleaned
                      ELSE IF posix THEN CleanedUp(flagged) ELSE flagged
           /\ Store(CleanedStatuses(told) \o
                      (IF single /\ posix THEN CleanedStatuses(flagged) ELSE <<>>),
                    IF single /\ posix THEN pc.pid ELSE NoPid, {})
    /\ Report(pc.by, pc.pid, pc.pid, ExitStatus(jobs[Waited]))
    /\ pc' = IF pc.by = "all" THEN At("all", "none", NoPid) ELSE Idle
    /\ UNCHANGED <<posix, the_pipeline, last_asynchronous_pid, kernelVars,
                   tail, answer, disowned>>

-----------------------------------------------------------------------------
(***************************************************************************)
(* "wait pid": wait_for_single_pid.                                        *)
(***************************************************************************)
WaitKnownPid(pid) ==
    /\ pc.at = "idle"
    /\ FindJob(jobs, pid) # NoJob
    /\ pc' = At("called", "pid", pid)
    /\ ret' = NoRet
    /\ UNCHANGED <<posix, jobs, the_pipeline, saved, last_asynchronous_pid, kernelVars,
                   tail, answer, known, disowned>>

WaitSavedPid(pid) ==
    /\ pc.at = "idle"
    /\ FindJob(jobs, pid) = NoJob
    /\ Saved!Lookup(saved, pid) # NotYet
    /\ Store(<<>>, IF posix THEN pid ELSE NoPid, {})
    /\ Report("pid", pid, pid, Saved!Lookup(saved, pid))
    /\ UNCHANGED <<posix, jobs, the_pipeline, last_asynchronous_pid, pc, kernelVars,
                   tail, answer, disowned>>

WaitUnknownPid(pid) ==
    /\ pc.at = "idle"
    /\ FindJob(jobs, pid) = NoJob
    /\ Saved!Lookup(saved, pid) = NotYet
    /\ Report("pid", pid, pid, Unknown)
    /\ UNCHANGED <<shellVars, kernelVars, tail, answer, known, disowned>>

(***************************************************************************)
(* "wait": wait_for_background_pids waits for the last pid of the first    *)
(* running background job until there is none, and forgets all statuses.   *)
(***************************************************************************)
WaitAll ==
    /\ pc.at = "idle"
    /\ pc' = At("all", "none", NoPid)
    /\ ret' = NoRet
    /\ UNCHANGED <<posix, jobs, the_pipeline, saved, last_asynchronous_pid, kernelVars,
                   tail, answer, known, disowned>>

Background == {s \in DOMAIN jobs : Running(jobs[s]) /\ jobs[s].async}

WaitAllNext ==
    /\ pc.at = "all"
    /\ Background # {}
    /\ pc' = At("called", "all", LastProc(jobs[Min(Background)]).pid)
    /\ ret' = NoRet
    /\ UNCHANGED <<posix, jobs, the_pipeline, saved, last_asynchronous_pid, kernelVars,
                   tail, answer, known, disowned>>

WaitAllDone ==
    /\ pc.at = "all"
    /\ Background = {}
    /\ jobs' = CleanedUp(MarkedDead(jobs, TRUE))
    /\ saved' = <<>>
    /\ known' = {}
    /\ pc' = Idle
    /\ ret' = NoRet
    /\ UNCHANGED <<posix, the_pipeline, last_asynchronous_pid, kernelVars,
                   tail, answer, disowned>>

-----------------------------------------------------------------------------
(***************************************************************************)
(* "wait -n" and "wait -n pid" (pc.pid): check_nonjobs, set_waitlist and   *)
(* wait_for_any_job.  Its loop looks for a dead job that was not reported; *)
(* if a background job runs, wait_for(ANY_PID) reaps one child, and then   *)
(* any dead job on the waitlist is reported.                               *)
(***************************************************************************)
Listed(s, asked) == asked = NoPid \/ s = FindJob(jobs, asked)
Fresh(asked) ==
    {s \in DOMAIN jobs : Listed(s, asked) /\ Dead(jobs[s]) /\ ~jobs[s].notified /\ jobs[s].async}

ReturnJob(s, asked) ==
    /\ jobs' = Without(jobs, {s})
    /\ Store(IF posix THEN <<>> ELSE Statused(jobs, {s}),
             IF posix THEN LastProc(jobs[s]).pid ELSE NoPid, {})
    /\ Report("next", LastProc(jobs[s]).pid, asked, ExitStatus(jobs[s]))
    /\ pc' = Idle
    /\ UNCHANGED <<posix, the_pipeline, last_asynchronous_pid, kernelVars,
                   tail, answer, disowned>>

ReturnSaved(k, asked) ==
    /\ Store(<<>>, IF posix THEN saved[k].pid ELSE NoPid, {})
    /\ Report("next", saved[k].pid, asked, saved[k].status)
    /\ pc' = Idle
    /\ UNCHANGED <<posix, jobs, the_pipeline, last_asynchronous_pid, kernelVars,
                   tail, answer, disowned>>

ReturnUnknown(asked) ==
    /\ Report("next", NoPid, asked, Unknown)
    /\ pc' = Idle
    /\ UNCHANGED <<posix, jobs, the_pipeline, saved, last_asynchronous_pid, kernelVars,
                   tail, answer, known, disowned>>

GoTo(place) ==
    /\ pc' = At(place, "none", pc.pid)
    /\ ret' = NoRet
    /\ UNCHANGED <<posix, jobs, the_pipeline, saved, last_asynchronous_pid, kernelVars,
                   tail, answer, known, disowned>>

\* check_nonjobs: a saved status of the pid that is asked for.
NextSaved(asked) ==
    /\ pc.at = "idle" /\ asked # NoPid
    /\ Saved!Lookup(saved, asked) # NotYet
    /\ ReturnSaved(Saved!Newest(saved, asked), asked)

\* set_waitlist: a pid that belongs to no job.
NextUnlisted(asked) ==
    /\ pc.at = "idle" /\ asked # NoPid
    /\ Saved!Lookup(saved, asked) = NotYet
    /\ FindJob(jobs, asked) = NoJob
    /\ ReturnUnknown(asked)

Asks(asked) ==
    /\ pc.at = "idle"
    /\ asked # NoPid => /\ Saved!Lookup(saved, asked) = NotYet
                        /\ FindJob(jobs, asked) # NoJob

NextDead(asked) ==
    /\ Asks(asked)
    /\ Fresh(asked) # {}
    /\ ReturnJob(Min(Fresh(asked)), asked)

\* bgp_findone, in posix mode, whatever pid was asked for.
NextFindOne(asked) ==
    /\ Asks(asked)
    /\ Fresh(asked) = {} /\ posix
    /\ \E k \in DOMAIN saved : ReturnSaved(k, asked)

NextLoop(asked) ==
    /\ Asks(asked)
    /\ Fresh(asked) = {} /\ (posix => saved = <<>>)
    /\ pc' = At("next", "none", asked)
    /\ ret' = NoRet
    /\ UNCHANGED <<posix, jobs, the_pipeline, saved, last_asynchronous_pid, kernelVars,
                   tail, answer, known, disowned>>

\* The loop stops at the first job that runs or can be reported.
LoopHead ==
    /\ pc.at = "next"
    /\ LET first == Background \cup Fresh(pc.pid)
       IN  IF first = {} THEN ReturnUnknown(pc.pid)
           ELSE IF Min(first) \in Background THEN GoTo("any called")
           ELSE ReturnJob(Min(first), pc.pid)

EnterWaitAny == pc.at = "any called" /\ GoTo("wait_any")

ReapAny(pid) ==
    /\ pc.at = "wait_any"
    /\ WaitChld(pid)
    /\ pc' = At("scan", "none", pc.pid)

\* No child is left to wait for: mark_all_jobs_as_dead.
WaitAnyEchild ==
    /\ pc.at = "wait_any"
    /\ \A pid \in Pids : kid[pid] = "none"
    /\ jobs' = [s \in DOMAIN jobs |-> [jobs[s] EXCEPT !.state = "dead"]]
    /\ pc' = At("scan", "none", pc.pid)
    /\ ret' = NoRet
    /\ UNCHANGED <<posix, the_pipeline, saved, last_asynchronous_pid, kernelVars,
                   tail, answer, known, disowned>>

Scan ==
    /\ pc.at = "scan"
    /\ LET dead == {s \in DOMAIN jobs : Listed(s, pc.pid) /\ Dead(jobs[s])}
       IN  IF dead # {} THEN ReturnJob(Min(dead), pc.pid) ELSE GoTo("next")

-----------------------------------------------------------------------------
(***************************************************************************)
(* Other commands and the places that clean up.                            *)
(***************************************************************************)
Tidy(js) ==
    /\ pc.at = "idle"
    /\ jobs' = CleanedUp(js)
    /\ Store(CleanedStatuses(js), NoPid, {})
    /\ ret' = NoRet
    /\ UNCHANGED <<posix, the_pipeline, last_asynchronous_pid, pc, kernelVars,
                   tail, answer, disowned>>

\* notify_and_cleanup(-1), before the next command of a script is read.
ReadCommand == Tidy(Notified(jobs, DOMAIN jobs))

\* reap_dead_jobs, in every round of a loop.
LoopRound == Tidy(MarkedDead(jobs, FALSE))

\* The jobs builtin reports every job, so it flags every job, and cleans up
\* before and after.
JobsBuiltin ==
    /\ pc.at = "idle"
    /\ jobs' = CleanedUp(Flag(CleanedUp(jobs), DOMAIN CleanedUp(jobs)))
    /\ Store(CleanedStatuses(jobs) \o
               CleanedStatuses(Flag(CleanedUp(jobs), DOMAIN CleanedUp(jobs))), NoPid, {})
    /\ ret' = NoRet
    /\ UNCHANGED <<posix, the_pipeline, last_asynchronous_pid, pc, kernelVars,
                   tail, answer, disowned>>

\* disown pid: delete_job saves the status of the last process as it stands.
Disown(pid) ==
    LET s == FindJob(jobs, pid)
    IN  /\ pc.at = "idle"
        /\ s # NoJob
        /\ jobs' = Without(jobs, {s})
        /\ Store(Statused(jobs, {s}), NoPid, {})
        /\ disowned' = disowned \cup {p \in Pids : HasPid(jobs[s], p)}
        /\ ret' = NoRet
        /\ UNCHANGED <<posix, the_pipeline, last_asynchronous_pid, pc, kernelVars,
                       tail, answer>>

-----------------------------------------------------------------------------
Init ==
    /\ posix \in BOOLEAN
    /\ jobs = <<>>
    /\ the_pipeline = <<>>
    /\ saved = <<>>
    /\ last_asynchronous_pid = NoPid
    /\ pc = Idle
    /\ kid = [p \in Pids |-> "none"]
    /\ code = [p \in Pids |-> 0]
    /\ forks = 0
    /\ tail = [p \in Pids |-> NoPid]
    /\ answer = [p \in Pids |-> NotYet]
    /\ known = {}
    /\ disowned = {}
    /\ ret = NoRet

SomeExit == \E pid \in Pids, status \in Statuses : Exit(pid, status)

\* The steps of a command that is under way.
ShellStep ==
    \/ StopPipeline
    \/ EnterWaitFor
    \/ \E pid \in Pids : ReapBlocking(pid)
    \/ FinishWaitFor
    \/ WaitAllNext
    \/ WaitAllDone
    \/ LoopHead
    \/ EnterWaitAny
    \/ \E pid \in Pids : ReapAny(pid)
    \/ WaitAnyEchild
    \/ Scan

Command ==
    \/ \E pid \in Pids, by \in {"async", "fg"} : Simple(pid, by)
    \/ \E pid \in Pids, by \in {"async pipe", "fg pipe"} : Piped(pid, by)
    \/ \E pid \in Pids : PipedNext(pid)
    \/ \E pid \in Pids : WaitKnownPid(pid)
    \/ \E pid \in Pids : WaitSavedPid(pid)
    \/ \E pid \in Pids : WaitUnknownPid(pid)
    \/ WaitAll
    \/ \E asked \in Pids : NextSaved(asked)
    \/ \E asked \in Pids : NextUnlisted(asked)
    \/ \E asked \in Pids \cup {NoPid} : NextDead(asked)
    \/ \E asked \in Pids \cup {NoPid} : NextFindOne(asked)
    \/ \E asked \in Pids \cup {NoPid} : NextLoop(asked)
    \/ ReadCommand
    \/ LoopRound
    \/ JobsBuiltin
    \/ \E pid \in Pids : Disown(pid)

Next ==
    \/ SomeExit
    \/ \E pid \in Pids : Handler(pid)
    \/ ShellStep
    \/ Command

Spec == Init /\ [][Next]_vars

\* The shell goes on with the command it executes; FairSpec also assumes that
\* children go on exiting.
ShellSpec == Spec /\ WF_vars(ShellStep)
FairSpec == ShellSpec /\ WF_vars(SomeExit)
=============================================================================
