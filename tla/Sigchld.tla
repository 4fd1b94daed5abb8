------------------------------- MODULE Sigchld -------------------------------
(***************************************************************************)
(* How a script's shell learns that its children have ended: the SIGCHLD   *)
(* handler, the counters sigchld and queue_sigchld that keep it away from  *)
(* the job table, the calls of waitchld (jobs.c), and the user's trap on   *)
(* SIGCHLD, which is run from waitchld, from the handler or between        *)
(* commands (trap.c).  The shell is not in posix mode and job control is   *)
(* off.  Each child is started once.                                       *)
(***************************************************************************)
EXTENDS Integers, FiniteSetsExt, SequencesExt

CONSTANTS
    Children,
    Strings       \* the commands that are set as traps

ASSUME SigchldAssumption ==
    IsFiniteSet(Children) /\ Strings \cap {"default", "ignore", "impossible"} = {}

VARIABLES
    child,               \* "unborn", "running", "zombie" or "reaped"
    pending,             \* a SIGCHLD is pending for the shell
    sigchld,
    queue_sigchld,
    trap,                \* trap_list[SIGCHLD]
    trapped,             \* SIG_TRAPPED
    inprogress,          \* SIG_INPROGRESS
    running_trap,
    pending_traps,       \* pending_traps[SIGCHLD]
    catch_flag,
    this_shell_builtin,  \* "wait" or "other"
    stack                \* what the shell is in; empty when it has dumped core

kernel == <<child, pending>>
counters == <<sigchld, queue_sigchld>>
traps == <<trap, trapped, inprogress, running_trap, pending_traps, catch_flag>>
vars == <<kernel, counters, traps, this_shell_builtin, stack>>

Zombies == {c \in Children : child[c] = "zombie"}
Running == {c \in Children : child[c] = "running"}

-----------------------------------------------------------------------------
(***************************************************************************)
(* The stack: "script" at the bottom, "trap" for a SIGCHLD trap, "notify"  *)
(* and "cleanup" for sections with queue_sigchld raised, "reaping" for     *)
(* UNQUEUE_SIGCHLD when it reaps, "trap_builtin", and "start" and          *)
(* "wait_for" for a child that is waited for.                              *)
(***************************************************************************)
Frame(kind) == [kind |-> kind]
TrapFrame(left, by) ==
    [kind |-> "trap", left |-> left, by |-> by, command |-> trap, builtin |-> this_shell_builtin]

Depth == Len(stack)
Top == stack[Depth]
In(kinds) == stack # <<>> /\ Top.kind \in kinds
Commands == In({"script", "trap"})
Push(frame) == stack' = Append(stack, frame)
Pop == stack' = Front(stack)

\* SIGCHLD is blocked in wait_for and in the handler, and so in the traps that
\* these run.
Blocked ==
    \E d \in DOMAIN stack :
        stack[d].kind = "wait_for" \/ (stack[d].kind = "trap" /\ stack[d].by = "handler")

-----------------------------------------------------------------------------
(***************************************************************************)
(* The trap.                                                               *)
(***************************************************************************)
\* Mutated form: what trap_handler would do, however many children ended.
QueueOneTrap(n) ==
    /\ pending_traps' = 1
    /\ catch_flag' = TRUE
    /\ UNCHANGED <<trap, trapped, inprogress, running_trap, this_shell_builtin>>

QueueTrap(n) ==
    /\ pending_traps' = pending_traps + n
    /\ catch_flag' = TRUE
    /\ UNCHANGED <<trap, trapped, inprogress, running_trap, this_shell_builtin>>

\* run_sigchld_trap begins: the trap string makes room for the sentinel.  A
\* trap_list entry that is no string dumps core in savestring.
RunTrap(frames, n, by) ==
    IF trap \in Strings
    THEN /\ stack' = Append(frames, TrapFrame(n, by))
         /\ running_trap' = TRUE
         /\ trap' = "impossible"
         /\ trapped' = FALSE
    ELSE stack' = <<>> /\ UNCHANGED <<running_trap, trap, trapped>>

\* The end of waitchld, which has reaped n children and leaves these frames.
Dispatch(frames, n, by) ==
    IF n = 0 \/ ~(trapped \/ trap = "impossible") \/ trap = "ignore"
    THEN stack' = frames /\ UNCHANGED <<traps, this_shell_builtin>>
    ELSE IF \/ sigchld' > 0
            \/ inprogress
            \/ trap = "impossible"
            \/ running_trap
            \/ this_shell_builtin # "wait"
    THEN stack' = frames /\ QueueTrap(n)
    ELSE /\ RunTrap(frames, n, by)
         /\ UNCHANGED <<inprogress, pending_traps, catch_flag, this_shell_builtin>>

\* uw_maybe_set_sigchld_trap and the rest of run_sigchld_trap's unwind frame.
\* wait_for, below, lowers queue_sigchld when waitchld returns.
EndTrap ==
    /\ In({"trap"})
    /\ IF Top.left > 1
       THEN /\ stack' = [stack EXCEPT ![Depth].left = @ - 1]
            /\ UNCHANGED <<traps, counters, this_shell_builtin>>
       ELSE LET reset == ~trapped /\ trap = "impossible"
            IN  /\ Pop
                /\ trap' = IF reset THEN Top.command ELSE trap
                /\ trapped' = (trapped \/ reset)
                /\ running_trap' = FALSE
                /\ inprogress' = (inprogress /\ Top.by # "pending")
                /\ this_shell_builtin' = Top.builtin
                /\ queue_sigchld' = IF stack[Depth - 1].kind = "wait_for" THEN 0 ELSE queue_sigchld
                /\ UNCHANGED <<pending_traps, catch_flag, sigchld>>
    /\ UNCHANGED kernel

\* run_pending_traps, before a command of the script or of a trap.
RunPendingTraps ==
    /\ Commands /\ catch_flag
    /\ catch_flag' = FALSE
    /\ IF pending_traps = 0
       THEN UNCHANGED <<stack, trap, trapped, inprogress, running_trap, pending_traps>>
       ELSE IF inprogress
       THEN /\ running_trap' = FALSE
            /\ UNCHANGED <<stack, trap, trapped, inprogress, pending_traps>>
       ELSE IF trap = "impossible"   \* the warning "bad value in trap_list"
       THEN /\ pending_traps' = 0
            /\ UNCHANGED <<stack, trap, trapped, inprogress, running_trap>>
       ELSE /\ inprogress' = TRUE
            /\ pending_traps' = 0
            /\ RunTrap(stack, pending_traps, "pending")
    /\ UNCHANGED <<kernel, counters, this_shell_builtin>>

-----------------------------------------------------------------------------
(***************************************************************************)
(* Children end, and waitchld reaps them.                                  *)
(***************************************************************************)
ChildExits(c) ==
    /\ child[c] = "running"
    /\ child' = [child EXCEPT ![c] = "zombie"]
    /\ pending' = TRUE
    /\ UNCHANGED <<counters, traps, this_shell_builtin, stack>>

Reaps(set) == child' = [c \in Children |-> IF c \in set THEN "reaped" ELSE child[c]]

\* What is left of sigchld after this many calls of waitpid with WNOHANG.
Lowered(count, calls) == Max({0, count - calls})

\* sigchld_handler.  Children that end while it is in waitchld are reaped, too,
\* and their signal is pending when it returns.
Handler(late) ==
    /\ stack # <<>> /\ pending /\ ~Blocked
    /\ IF queue_sigchld = 0
       THEN LET found == Zombies \cup late
            IN  /\ Reaps(found)
                /\ pending' = (late # {})
                /\ sigchld' = Lowered(sigchld + 1, Cardinality(found) + 1)
                /\ Dispatch(stack, Cardinality(found), "handler")
       ELSE /\ late = {}
            /\ pending' = FALSE
            /\ sigchld' = sigchld + 1
            /\ UNCHANGED <<child, traps, this_shell_builtin, stack>>
    /\ UNCHANGED queue_sigchld

\* QUEUE_SIGCHLD, in cleanup_dead_jobs and procsub_reap.
QueueSigchld ==
    /\ Commands
    /\ Push([kind |-> "cleanup", os |-> sigchld])
    /\ queue_sigchld' = queue_sigchld + 1
    /\ UNCHANGED <<kernel, sigchld, traps, this_shell_builtin>>

\* Mutated form: UNQUEUE_SIGCHLD that lowers queue_sigchld and no more.
UnqueueOnly ==
    /\ In({"cleanup"})
    /\ queue_sigchld' = queue_sigchld - 1
    /\ Pop
    /\ UNCHANGED <<kernel, sigchld, traps, this_shell_builtin>>

\* UNQUEUE_SIGCHLD: signals that came in between are made up for.
UnqueueSigchld ==
    /\ In({"cleanup"})
    /\ IF queue_sigchld = 1 /\ Top.os # sigchld
       THEN /\ Reaps(Zombies)
            /\ sigchld' = Lowered(sigchld, Cardinality(Zombies) + 1)
            /\ Dispatch(Append(Front(stack), Frame("reaping")), Cardinality(Zombies), "waitchld")
            /\ UNCHANGED <<pending, queue_sigchld>>
       ELSE /\ queue_sigchld' = queue_sigchld - 1
            /\ Pop
            /\ UNCHANGED <<kernel, sigchld, traps, this_shell_builtin>>

\* Mutated form: the counter is lowered and not cleared.
EndReapingByOne ==
    /\ In({"reaping"})
    /\ queue_sigchld' = queue_sigchld - 1
    /\ Pop
    /\ UNCHANGED <<kernel, sigchld, traps, this_shell_builtin>>

EndReaping ==
    /\ In({"reaping"})
    /\ queue_sigchld' = 0
    /\ Pop
    /\ UNCHANGED <<kernel, sigchld, traps, this_shell_builtin>>

\* notify_of_job_status without job control.
BeginNotify ==
    /\ Commands
    /\ Push(Frame("notify"))
    /\ queue_sigchld' = queue_sigchld + 1
    /\ UNCHANGED <<kernel, sigchld, traps, this_shell_builtin>>

EndNotify ==
    /\ In({"notify"})
    /\ queue_sigchld' = queue_sigchld - 1
    /\ Pop
    /\ UNCHANGED <<kernel, sigchld, traps, this_shell_builtin>>

-----------------------------------------------------------------------------
(***************************************************************************)
(* Commands.  Each is preceded by run_pending_traps.                       *)
(***************************************************************************)
StartCommand(builtin) ==
    /\ Commands
    /\ ~catch_flag
    /\ this_shell_builtin' = builtin

Background(c) ==
    /\ StartCommand("other")
    /\ child[c] = "unborn"
    /\ child' = [child EXCEPT ![c] = "running"]
    /\ UNCHANGED <<pending, counters, traps, stack>>

Foreground(c) ==
    /\ StartCommand("other")
    /\ child[c] = "unborn"
    /\ child' = [child EXCEPT ![c] = "running"]
    /\ Push([kind |-> "start", pid |-> c])
    /\ UNCHANGED <<pending, counters, traps>>

\* The wait builtin; without arguments it goes from one child to the next.
Wait(c) ==
    /\ StartCommand("wait") \/ (Commands /\ this_shell_builtin = "wait" /\ UNCHANGED this_shell_builtin)
    /\ child[c] \in {"running", "zombie"}
    /\ Push([kind |-> "start", pid |-> c])
    /\ UNCHANGED <<kernel, counters, traps>>

EnterWaitFor ==
    /\ In({"start"})
    /\ stack' = [stack EXCEPT ![Depth].kind = "wait_for"]
    /\ UNCHANGED <<kernel, counters, traps, this_shell_builtin>>

\* One round of wait_for's loop: waitchld (pid, 1), which reaps one child or,
\* with WNOHANG, as many as there are signals counted.
WaitChld(set) ==
    /\ In({"wait_for"}) /\ child[Top.pid] # "reaped"
    /\ set \subseteq Zombies
    /\ IF sigchld = 0
       THEN Cardinality(set) = 1 /\ sigchld' = 0
       ELSE /\ Cardinality(set) = Min({sigchld, Cardinality(Zombies)})
            /\ sigchld' = Lowered(sigchld, Cardinality(Zombies) + 1)
    /\ Reaps(set)
    /\ Dispatch(stack, Cardinality(set), "waitchld")
    /\ queue_sigchld' = IF Len(stack') > Depth THEN 1 ELSE 0
    /\ UNCHANGED pending

LeaveWaitFor ==
    /\ In({"wait_for"}) /\ child[Top.pid] = "reaped"
    /\ Pop
    /\ UNCHANGED <<kernel, counters, traps, this_shell_builtin>>

\* The trap builtin with SIGCHLD, which a signal may precede.
TrapBuiltin(first_arg) ==
    /\ StartCommand("other")
    /\ Push([kind |-> "trap_builtin", first_arg |-> first_arg])
    /\ UNCHANGED <<kernel, counters, traps>>

ChangeSignal(value, is_trapped) ==
    /\ trap' = value
    /\ trapped' = is_trapped
    /\ Pop
    /\ UNCHANGED <<kernel, counters, inprogress, running_trap, pending_traps, catch_flag,
                   this_shell_builtin>>

SetSignal ==
    /\ In({"trap_builtin"}) /\ Top.first_arg \in Strings
    /\ ChangeSignal(Top.first_arg, TRUE)

IgnoreSignal ==
    /\ In({"trap_builtin"}) /\ Top.first_arg = "ignore"
    /\ ChangeSignal("ignore", TRUE)

\* Mutated form: without the exception for the sentinel.
RevertsTrapped == trapped

\* restore_default_signal does nothing for a signal that is not trapped, the
\* sentinel excepted if the trap is marked as in progress.
Reverts == trapped \/ (inprogress /\ trap = "impossible")

RestoreDefaultSignal ==
    /\ In({"trap_builtin"}) /\ Top.first_arg = "default"
    /\ ChangeSignal(IF Reverts THEN "default" ELSE trap, FALSE)

-----------------------------------------------------------------------------
Init ==
    /\ child = [c \in Children |-> "unborn"]
    /\ pending = FALSE
    /\ sigchld = 0 /\ queue_sigchld = 0
    /\ trap = "default" /\ trapped = FALSE
    /\ inprogress = FALSE /\ running_trap = FALSE
    /\ pending_traps = 0 /\ catch_flag = FALSE
    /\ this_shell_builtin = "other"
    /\ stack = <<Frame("script")>>

\* Another trapped signal is handled: it, too, sets catch_flag.
OtherSignal ==
    /\ stack # <<>>
    /\ catch_flag' = TRUE
    /\ UNCHANGED <<kernel, counters, trap, trapped, inprogress, running_trap, pending_traps,
                   this_shell_builtin, stack>>

Next ==
    \/ \E c \in Children : ChildExits(c) \/ Background(c) \/ Foreground(c) \/ Wait(c)
    \/ \E late \in SUBSET Running : Handler(late)
    \/ \E set \in SUBSET Zombies : WaitChld(set)
    \/ \E first_arg \in Strings \cup {"ignore", "default"} : TrapBuiltin(first_arg)
    \/ SetSignal
    \/ IgnoreSignal
    \/ RestoreDefaultSignal
    \/ QueueSigchld
    \/ UnqueueSigchld
    \/ EndReaping
    \/ BeginNotify
    \/ EndNotify
    \/ EnterWaitFor
    \/ LeaveWaitFor
    \/ RunPendingTraps
    \/ EndTrap
    \/ OtherSignal

Spec == Init /\ [][Next]_vars
=============================================================================
