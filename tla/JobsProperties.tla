--------------------------- MODULE JobsProperties ---------------------------
(***************************************************************************)
(* What must hold of the job table and of the wait builtin (module Jobs).  *)
(***************************************************************************)
EXTENDS Jobs

Proc == [pid : Pids \cup {0}, running : BOOLEAN, status : Statuses \cup {0}]
Job == [pipe : Seq(Proc), state : {"running", "dead"}, async : BOOLEAN, notified : BOOLEAN]

TypeOK ==
    /\ posix \in BOOLEAN
    /\ DOMAIN jobs \subseteq Nat /\ \A s \in DOMAIN jobs : jobs[s] \in Job /\ jobs[s].pipe # <<>>
    /\ the_pipeline \in Seq(Proc)
    /\ Saved!TypeOK
    /\ last_asynchronous_pid \in Pids \cup {NoPid}
    /\ kid \in [Pids -> {"none", "runs", "zombie"}]
    /\ code \in [Pids -> Statuses \cup {0}]
    /\ forks \in 0 .. MaxForks
    /\ tail \in [Pids -> Pids \cup {NoPid}]
    /\ answer \in [Pids -> Statuses \cup {NotYet}]
    /\ known \subseteq Pids
    /\ disowned \subseteq Pids
    /\ (the_pipeline # <<>>) <=> (pc.at = "making")

\* A pid names one thing: at most one process of the table and of the pipeline
\* being made, or else at most one saved status.  make_child's delete_old_job
\* and bgp_delete keep a reused pid from meeting its former owner.
Records(pid) ==
    {r \in (DOMAIN jobs) \X (1 .. MaxPipe) :
        r[2] \in DOMAIN jobs[r[1]].pipe /\ jobs[r[1]].pipe[r[2]].pid = pid}
    \cup {NoJob} \X {k \in DOMAIN the_pipeline : the_pipeline[k].pid = pid}

PidsUnique ==
    \A pid \in Pids :
        Cardinality(Records(pid)) + Cardinality(Saved!Positions(saved, pid)) <= 1

\* A process is recorded as running only while the kernel still has its status
\* to give, so no wait can block on a child that is gone; and a job is in state
\* "running" exactly while one of its processes is, however its processes exit
\* between fork and stop_pipeline.
RecordsMatchKernel ==
    /\ \A s \in DOMAIN jobs : jobs[s].state = PipeState(jobs[s].pipe)
    /\ \A s \in DOMAIN jobs : \A k \in DOMAIN jobs[s].pipe :
         jobs[s].pipe[k].running => jobs[s].pipe[k].pid \in Pids /\ kid[jobs[s].pipe[k].pid] # "none"
    /\ \A k \in DOMAIN the_pipeline :
         the_pipeline[k].running => kid[the_pipeline[k].pid] # "none"

\* Every child is accounted for: one the kernel has is recorded as running,
\* unless its job was disowned.
ChildrenRecorded ==
    \A pid \in Pids :
        kid[pid] # "none" /\ pid \notin disowned =>
            \/ AliveIn(the_pipeline, pid)
            \/ \E s \in DOMAIN jobs : AliveIn(jobs[s].pipe, pid)

\* A foreground command, a "wait pid" and a "wait -n" report the status that the
\* last process of the pipeline really ended with, never that of an earlier
\* process with the same pid (jobs removed with disown are another matter).
AnswersAreTrue ==
    ret.by # "none" /\ ret.status # Unknown /\ ret.pid \notin disowned \cup {0} =>
        ret.status = answer[ret.pid]

\* The status of an asynchronous pipeline can be found under its last pid, $!,
\* whatever is reaped, notified and cleaned up meanwhile: until a "wait" for
\* everything, in posix mode a wait for it, the loss of the oldest saved status,
\* or the reuse of a pid of its pipeline.
KnownIsFound ==
    \A pid \in known :
        \/ \E s \in DOMAIN jobs : LastProc(jobs[s]).pid = pid
        \/ Saved!Lookup(saved, pid) # NotYet

\* No foreground job is left in the table when its command has been waited for:
\* wait_for flags and deletes it even if it died of a signal.
ForegroundIsGone ==
    pc.at = "idle" => \A s \in DOMAIN jobs : jobs[s].async

\* A foreground command, "wait pid" and "wait" come back once children exit:
\* wait_for never blocks in waitpid without a child whose exit ends the wait.
WaitsEnd == (pc.at \in {"called", "wait_for", "all"}) ~> (pc.at = "idle")

-----------------------------------------------------------------------------
(***************************************************************************)
(* What the documentation says and the code does not do.                   *)
(***************************************************************************)
\* builtins/wait.def:28 of wait: "Waits for each process identified by an ID ...
\* and reports its termination status", of a job removed by disown, too.
WaitReportsTermination ==
    ret.by = "pid" /\ ret.status # Unknown => ret.status = answer[ret.asked]

\* builtins/wait.def:34: "If the -n option is supplied, waits for a single job
\* from the list of IDs".
NextIsListed ==
    ret.by = "next" /\ ret.asked # NoPid /\ ret.status # Unknown =>
        ret.pid \in {ret.asked, tail[ret.asked]}

\* The same text: "... or, if no IDs are supplied, for the next job to complete
\* and returns its exit status".  When a job completes during a wait -n, the wait
\* returns, even if the other jobs run on.
NextReturns ==
    (pc.at \in {"next", "any called", "wait_any", "scan"} /\ Fresh(pc.pid) # {})
        ~> (pc.at = "idle")
=============================================================================
