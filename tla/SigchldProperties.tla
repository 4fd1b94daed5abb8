-------------------------- MODULE SigchldProperties --------------------------
(***************************************************************************)
(* Sigchld with history variables: the children and the runs of the trap   *)
(* that the shell has still to look after, and the trap that the user has  *)
(* asked for; and the properties of all of them.                           *)
(***************************************************************************)
EXTENDS Sigchld, Sums

VARIABLES
    counted,   \* zombies whose signal was counted where nobody looks at it
    owed,      \* runs of the trap for children that ended, less those lost
    wanted     \* the trap that was last asked for

hvars == <<vars, counted, owed, wanted>>

\* The section whose end makes up for the signals that come in.
Covered == In({"cleanup"}) /\ queue_sigchld = 1

Watched == (trapped \/ trap = "impossible") /\ trap # "ignore"
NewlyReaped == {c \in Children : child[c] # "reaped" /\ child'[c] = "reaped"}

\* The pending runs that run_pending_traps drops, with the warning "bad value
\* in trap_list", between the commands of a trap that waitchld runs.
Dropped == IF RunPendingTraps /\ trap = "impossible" /\ ~inprogress THEN pending_traps ELSE 0

HInit == Init /\ counted = {} /\ owed = 0 /\ wanted = "default"

HSame(act) == act /\ UNCHANGED <<counted, owed, wanted>>

HReap(act) ==
    /\ act
    /\ counted' = counted \ NewlyReaped
    /\ owed' = IF Watched THEN owed + Cardinality(NewlyReaped) ELSE owed
    /\ UNCHANGED wanted

HHandler(late) ==
    /\ Handler(late)
    /\ counted' = IF queue_sigchld > 0 /\ ~Covered THEN counted \cup Zombies
                  ELSE counted \ NewlyReaped
    /\ owed' = IF Watched THEN owed + Cardinality(NewlyReaped) ELSE owed
    /\ UNCHANGED wanted

HWant(act, value) == act /\ wanted' = value /\ UNCHANGED <<counted, owed>>

HRunPendingTraps ==
    /\ RunPendingTraps
    /\ owed' = owed - Dropped
    /\ UNCHANGED <<counted, wanted>>

HEndTrap == EndTrap /\ owed' = owed - 1 /\ UNCHANGED <<counted, wanted>>

HNext ==
    \/ \E c \in Children : HSame(ChildExits(c)) \/ HSame(Background(c)) \/ HSame(Foreground(c))
                             \/ HSame(Wait(c))
    \/ \E late \in SUBSET Running : HHandler(late)
    \/ \E set \in SUBSET Zombies : HReap(WaitChld(set))
    \/ \E first_arg \in Strings \cup {"ignore", "default"} : HSame(TrapBuiltin(first_arg))
    \/ HWant(SetSignal, Top.first_arg)
    \/ HWant(IgnoreSignal, "ignore")
    \/ HWant(RestoreDefaultSignal, IF trapped \/ inprogress \/ trap # "impossible" THEN "default" ELSE wanted)
    \/ HSame(QueueSigchld)
    \/ HReap(UnqueueSigchld)
    \/ HSame(EndReaping)
    \/ HSame(BeginNotify)
    \/ HSame(EndNotify)
    \/ HSame(EnterWaitFor)
    \/ HSame(LeaveWaitFor)
    \/ HRunPendingTraps
    \/ HEndTrap
    \/ HSame(OtherSignal)

HSpec == HInit /\ [][HNext]_hvars

-----------------------------------------------------------------------------
Most == Cardinality(Children)

TypeOK ==
    /\ child \in [Children -> {"unborn", "running", "zombie", "reaped"}]
    /\ sigchld \in 0 .. Most
    /\ queue_sigchld \in 0 .. 2
    /\ trap \in Strings \cup {"default", "ignore", "impossible"}
    /\ <<pending, trapped, inprogress, running_trap, catch_flag>> \in Seq(BOOLEAN)
    /\ pending_traps \in 0 .. Most
    /\ this_shell_builtin \in {"wait", "other"}
    /\ \A d \in DOMAIN stack : stack[d].kind = "trap" => stack[d].left \in 1 .. Most
    /\ counted \subseteq Zombies

\* The comment at jobs.c:323: the counters "synchronize between wait_for and
\* other functions and the SIGCHLD signal handler".  A child that has ended
\* and is not reaped has its signal pending, or UNQUEUE_SIGCHLD is going to
\* reap it; a child is left a zombie only if the handler counted its signal in
\* notify_of_job_status, or within the reaping at the end of a section.
NoneForgotten ==
    stack # <<>> /\ Zombies \ counted # {} =>
        pending \/ (Covered /\ Top.os # sigchld)

\* The runs of the trap that are under way or still to come, in each frame.
Left(frames) == [d \in DOMAIN frames |-> IF frames[d].kind = "trap" THEN frames[d].left ELSE 0]

\* bash.1:6329: bash "executes any trap on SIGCHLD for each child that
\* terminates".  Whoever reaps a child while the trap is set, the handler, a
\* wait or the end of a section, and however traps nest, the child's run of the
\* trap is pending or under way until it is done; no run is done twice.
EachChildTrapped ==
    stack # <<>> => owed = pending_traps + Total(Left(stack))

\* The comment at trap.c:694: the sentinel lets a trap "reset the disposition
\* to the default and not have the original signal accidentally restored".
\* When no trap is running, the trap is the one that was last asked for,
\* although every run of it takes it away and puts it back; but for trap - in a
\* trap that waitchld runs, which restore_default_signal ignores.
TrapIsKept ==
    (\A d \in DOMAIN stack : stack[d].kind # "trap") /\ stack # <<>> => trap = wanted

\* The comment at trap.c:452 on the value of a trap that is pending: "Unless we
\* catch this, the subshell will dump core when trap_list[SIGTERM] ==
\* DEFAULT_SIG".  The shell never runs a trap that is no string.
NoCoreDump == stack # <<>>
=============================================================================
