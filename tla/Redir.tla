-------------------------------- MODULE Redir --------------------------------
(***************************************************************************)
(* Redirections of the commands that the shell runs itself (redir.c and    *)
(* their callers in execute_cmd.c): how each redirection records what      *)
(* undoes it, and who performs, keeps or throws away that record when the  *)
(* command ends, fails, is exec, or is left by a jump.                     *)
(*                                                                         *)
(* A descriptor number refers to an open file and has a close-on-exec      *)
(* flag.  The shell is one that survives interrupts and errors (an         *)
(* interactive one).  Number 0 is left to the shell's own input.           *)
(***************************************************************************)
EXTENDS Integers, FiniteSetsExt, SequencesExt, Sums

CONSTANTS
    Base,         \* SHELL_FD_BASE: the shell saves descriptors from here on
    Limit,        \* the highest descriptor number there is
    Closed,       \* what a closed number refers to
    Files,        \* the files, inherited or opened
    MaxDepth,     \* bound on the commands that are running, one in another
    MaxRedirs     \* bound on the redirections of the running commands together

ASSUME RedirAssumption ==
    /\ Base \in Nat /\ Base > 3
    /\ Limit \in Nat /\ Limit >= Base
    /\ Closed \notin Files
    /\ MaxDepth \in Nat /\ MaxRedirs \in Nat

Numbers == 1 .. Limit
UserNumbers == 1 .. Base - 1
NoNumber == -1
Nothing == [file |-> Closed, cloexec |-> FALSE]
NoRedirect == [ri |-> "none", redirector |-> NoNumber, redir_fd |-> NoNumber]

VARIABLES
    fds,                          \* number -> the file it refers to, and its flag
    redirection_undo_list,
    exec_redirection_undo_list,
    stack                         \* the commands that are running

vars == <<fds, redirection_undo_list, exec_redirection_undo_list, stack>>

-----------------------------------------------------------------------------
(***************************************************************************)
(* The descriptor table.                                                   *)
(***************************************************************************)
IsOpen(table, n) == table[n].file # Closed

\* The number that open or fcntl F_DUPFD takes: the lowest free one from here.
Lowest(table, from) ==
    LET free == {n \in Numbers : n >= from /\ ~IsOpen(table, n)}
    IN  IF free = {} THEN NoNumber ELSE Min(free)

Opened(file) == [file |-> file, cloexec |-> FALSE]

\* Mutated form: a restored descriptor keeps the flag of its copy.
DuplicatedFlag(table, from, to, savclexec) ==
    [table EXCEPT ![to] =
        [file |-> table[from].file, cloexec |-> to > 2 /\ table[from].cloexec]]

\* dup2 and the flag that do_redirection_internal gives the new descriptor.
Duplicated(table, from, to, savclexec) ==
    [table EXCEPT ![to] =
        [file    |-> table[from].file,
         cloexec |-> to > 2 /\ table[from].cloexec /\ ~savclexec]]

-----------------------------------------------------------------------------
(***************************************************************************)
(* What undoes a redirection.  A state s of a command's redirections has   *)
(* the table, both undo lists, and whether all went well so far.           *)
(***************************************************************************)
Restore(fd, saved, savclexec) ==
    [ri |-> "dup", redirector |-> fd, redir_fd |-> saved, savclexec |-> savclexec]
\* Mutated form: the two ends of the entry are exchanged.
CloserSwapped(fd) ==
    [ri |-> "close", redirector |-> NoNumber, redir_fd |-> fd, savclexec |-> FALSE]

Closer(fd) ==
    [ri |-> "close", redirector |-> fd, redir_fd |-> NoNumber, savclexec |-> FALSE]

Fail(s) == [s EXCEPT !.ok = FALSE]

AddUndoClose(s, fd) == [s EXCEPT !.undo = <<Closer(fd)>> \o @]

\* Mutated form: the copy takes any free number, as a dup would.
AddUndoAnywhere(s, fd) ==
    LET saved == Lowest(s.fds, 1)
    IN  IF ~IsOpen(s.fds, fd) \/ saved = NoNumber THEN Fail(s)
        ELSE [s EXCEPT
                !.fds[saved] = [file |-> s.fds[fd].file, cloexec |-> TRUE],
                !.undo = <<Restore(fd, saved, fd >= 3 /\ ~s.fds[fd].cloexec), Closer(saved)>> \o @,
                !.exec = <<Closer(saved)>> \o @]

\* add_undo_redirect: save the descriptor at a number from Base on or, if none
\* is free, at any; the copy is closed on exec, whatever the original is.
AddUndoRedirect(s, fd) ==
    LET high  == Lowest(s.fds, Base)
        saved == IF high # NoNumber THEN high ELSE Lowest(s.fds, 1)
    IN  IF ~IsOpen(s.fds, fd) \/ saved = NoNumber THEN Fail(s)
        ELSE [s EXCEPT
                !.fds[saved] = [file |-> s.fds[fd].file, cloexec |-> TRUE],
                !.undo = <<Restore(fd, saved, fd >= 3 /\ ~s.fds[fd].cloexec), Closer(saved)>> \o @,
                !.exec = <<Closer(saved)>> \o @]

\* What the redirection of a number has to undo: whatever it refers to now.
Remember(s, fd) == IF IsOpen(s.fds, fd) THEN AddUndoRedirect(s, fd) ELSE AddUndoClose(s, fd)

\* One entry of an undo list, if all went well so far.
Undone(s, e) ==
    IF ~s.ok THEN s
    ELSE IF e.ri = "close" THEN [s EXCEPT !.fds[e.redirector] = Nothing]
    ELSE IF ~IsOpen(s.fds, e.redir_fd) THEN Fail(s)
    ELSE [s EXCEPT !.fds = Duplicated(@, e.redir_fd, e.redirector, e.savclexec)]

\* cleanup_redirects: do_redirections for an undo list, up to the first error.
Undo(table, list) ==
    LET after[n \in 0 .. Len(list)] ==
            IF n = 0 THEN [ok |-> TRUE, fds |-> table] ELSE Undone(after[n - 1], list[n])
    IN  after[Len(list)].fds

-----------------------------------------------------------------------------
(***************************************************************************)
(* do_redirection_internal, with RX_ACTIVE and RX_UNDOABLE.                *)
(***************************************************************************)
\* [n]>file and its like, here-documents included.
OpenFile(s, fd, file) ==
    LET temp  == Lowest(s.fds, 1)
        open  == [s EXCEPT !.fds[temp] = Opened(file)]
        saved == IF temp = fd THEN AddUndoClose(open, fd) ELSE Remember(open, fd)
    IN  IF temp = NoNumber THEN Fail(s)
        ELSE IF ~saved.ok THEN [saved EXCEPT !.fds[temp] = Nothing]
        ELSE IF temp = fd THEN saved
        ELSE [saved EXCEPT !.fds = [Duplicated(@, temp, fd, FALSE) EXCEPT ![temp] = Nothing]]

\* &>file: standard error follows, and a failure to save it is not looked at.
OpenBoth(s, file) ==
    LET out   == OpenFile(s, 1, file)
        saved == [AddUndoRedirect(out, 2) EXCEPT !.ok = TRUE]
    IN  IF ~out.ok THEN out ELSE [saved EXCEPT !.fds = Duplicated(@, 1, 2, FALSE)]

\* [n]>&m
Duplicate(s, fd, from) ==
    LET saved == Remember(s, fd)
    IN  IF fd = from THEN s
        ELSE IF ~saved.ok \/ ~IsOpen(saved.fds, from) THEN Fail(saved)
        ELSE [saved EXCEPT !.fds = Duplicated(@, from, fd, FALSE)]

\* [n]>&m-: m is closed, too, which is undone only if n was open.
Move(s, fd, from) ==
    LET saved == Remember(s, fd)
        both  == IF IsOpen(s.fds, fd) THEN AddUndoRedirect(saved, from) ELSE saved
    IN  IF fd = from THEN s
        ELSE IF ~saved.ok THEN saved
        ELSE IF ~both.ok \/ ~IsOpen(both.fds, from) THEN Fail(both)
        ELSE [both EXCEPT !.fds = [Duplicated(@, from, fd, FALSE) EXCEPT ![from] = Nothing]]

\* [n]>&-.  A number that cannot be saved is closed for good.
Close(s, fd) == [Remember(s, fd) EXCEPT !.fds[fd] = Nothing]

Opens == [ri : {"open"}, redirector : UserNumbers, redir_fd : {NoNumber}]
            \cup [ri : {"both"}, redirector : {1}, redir_fd : {NoNumber}]
Others == [ri : {"dup", "move"}, redirector : UserNumbers, redir_fd : UserNumbers]
            \cup [ri : {"close"}, redirector : UserNumbers, redir_fd : {NoNumber}]

Now == [ok |-> TRUE, fds |-> fds, undo |-> redirection_undo_list,
        exec |-> exec_redirection_undo_list]

Redirected(r) ==
    CASE r.ri = "dup"   -> Duplicate(Now, r.redirector, r.redir_fd)
      [] r.ri = "move"  -> Move(Now, r.redirector, r.redir_fd)
      [] r.ri = "close" -> Close(Now, r.redirector)

RedirectedTo(r, file) ==
    IF r.ri = "both" THEN OpenBoth(Now, file) ELSE OpenFile(Now, r.redirector, file)

-----------------------------------------------------------------------------
(***************************************************************************)
(* The commands.  A frame is a command the shell runs itself: a builtin, a *)
(* function, a compound or a null command.  Its phases are "redirecting",  *)
(* "opening" (inside open, for a file that makes it wait) and "body".      *)
(***************************************************************************)
NewFrame == [phase |-> "redirecting", next |-> NoRedirect, done |-> 0, undo |-> <<>>]
Depth == Len(stack)
Top == stack[Depth]
InPhase(phase) == stack # <<>> /\ Top.phase = phase
SetTop(frame) == stack' = [stack EXCEPT ![Depth] = frame]
Pop == stack' = Front(stack)
UnchangedLists == UNCHANGED <<redirection_undo_list, exec_redirection_undo_list>>

\* do_redirections begins: undo lists that are still there are thrown away.
\* A command is run at the top level, by another one's body, or by a trap, for
\* a signal that interrupts an open (run_pending_traps in redir_open).
Begin ==
    /\ Depth < MaxDepth
    /\ stack # <<>> => Top.phase \in {"body", "opening"}
    /\ stack' = Append(stack, NewFrame)
    /\ redirection_undo_list' = <<>>
    /\ exec_redirection_undo_list' = <<>>
    /\ UNCHANGED fds

\* A redirection fails: undo_partial_redirects.  dispose_exec_redirects is left
\* out after a null command.
Refused(s) ==
    /\ fds' = Undo(s.fds, s.undo)
    /\ redirection_undo_list' = <<>>
    /\ exec_redirection_undo_list' \in {<<>>, s.exec}
    /\ Pop

Performed(s) ==
    IF ~s.ok THEN Refused(s)
    ELSE /\ fds' = s.fds
         /\ redirection_undo_list' = s.undo
         /\ exec_redirection_undo_list' = s.exec
         /\ SetTop([Top EXCEPT !.phase = "redirecting", !.next = NoRedirect, !.done = @ + 1])

MayRedirect ==
    /\ InPhase("redirecting")
    /\ Total([d \in DOMAIN stack |-> stack[d].done]) < MaxRedirs

Redirect(r) ==
    /\ MayRedirect
    /\ Performed(Redirected(r))

StartOpen(r) ==
    /\ MayRedirect
    /\ SetTop([Top EXCEPT !.phase = "opening", !.next = r])
    /\ UnchangedLists
    /\ UNCHANGED fds

FinishOpen(file) == InPhase("opening") /\ Performed(RedirectedTo(Top.next, file))

\* No such file, noclobber, or an ambiguous word.
OpenFails == InPhase("opening") /\ Refused(Now)

\* The lists become the command's own: my_undo_list of a compound command,
\* saved_undo_list of a builtin or a function.
EnterBody ==
    /\ InPhase("redirecting")
    /\ SetTop([Top EXCEPT !.phase = "body", !.next = NoRedirect, !.undo = redirection_undo_list])
    /\ redirection_undo_list' = <<>>
    /\ exec_redirection_undo_list' = <<>>
    /\ UNCHANGED fds

LeaveBody ==
    /\ InPhase("body")
    /\ fds' = Undo(fds, Top.undo)
    /\ Pop
    /\ UnchangedLists

\* A command that consists of redirections only.
NullCommand ==
    /\ InPhase("redirecting")
    /\ fds' = Undo(fds, redirection_undo_list)
    /\ redirection_undo_list' = <<>>
    /\ UNCHANGED exec_redirection_undo_list
    /\ Pop

\* Mutated form: the copies are left open.
ExecForgets ==
    /\ InPhase("redirecting")
    /\ redirection_undo_list' = <<>>
    /\ exec_redirection_undo_list' = <<>>
    /\ Pop
    /\ UNCHANGED fds

\* exec without a command: the redirections stay, the copies are closed.
ExecKeeps ==
    /\ InPhase("redirecting")
    /\ fds' = Undo(fds, exec_redirection_undo_list)
    /\ redirection_undo_list' = <<>>
    /\ exec_redirection_undo_list' = <<>>
    /\ Pop

\* exec of a command that cannot be executed, in a shell that goes on.
ExecFails ==
    /\ InPhase("redirecting")
    /\ fds' = Undo(fds, redirection_undo_list)
    /\ redirection_undo_list' = <<>>
    /\ exec_redirection_undo_list' = <<>>
    /\ Pop

-----------------------------------------------------------------------------
(***************************************************************************)
(* Jumps.  The unwind-protect list holds one cleanup_redirects for each    *)
(* body that is left; it is run from the innermost.                        *)
(***************************************************************************)
Unwound(table, depth) ==
    LET after[n \in 0 .. Depth - depth] ==
            IF n = 0 THEN table ELSE Undo(after[n - 1], stack[Depth - n + 1].undo)
    IN  after[Depth - depth]

\* throw_to_top_level, from a QUIT anywhere in a command.
Interrupt ==
    /\ stack # <<>>
    /\ fds' = Unwound(fds, 0)
    /\ stack' = <<>>
    /\ UnchangedLists

\* The frames that an error does not leave: a trap's string is executed by
\* parse_and_execute, which catches the jump; so may that of an eval.
Sheltered == {d \in 1 .. Depth - 1 : stack[d].phase = "opening"}
Catches == (IF Sheltered = {} THEN 0 ELSE Max(Sheltered)) .. Depth - 1

\* exp_jump_to_top_level, from an error in the expansion of a word.
ExpansionError(depth) ==
    /\ InPhase("redirecting") \/ InPhase("body")
    /\ fds' = Unwound(Undo(fds, redirection_undo_list), depth)
    /\ redirection_undo_list' = <<>>
    /\ UNCHANGED exec_redirection_undo_list
    /\ stack' = SubSeq(stack, 1, depth)

-----------------------------------------------------------------------------
Init ==
    /\ \E inherited \in [UserNumbers -> Files] :
         /\ \A m, n \in UserNumbers : inherited[m] = inherited[n] => m = n
         /\ fds = [n \in Numbers |-> IF n < Base THEN Opened(inherited[n]) ELSE Nothing]
    /\ redirection_undo_list = <<>>
    /\ exec_redirection_undo_list = <<>>
    /\ stack = <<>>

Next ==
    \/ Begin
    \/ \E r \in Others : Redirect(r)
    \/ \E r \in Opens : StartOpen(r)
    \/ \E file \in Files : FinishOpen(file)
    \/ OpenFails
    \/ EnterBody
    \/ LeaveBody
    \/ NullCommand
    \/ ExecKeeps
    \/ ExecFails
    \/ Interrupt
    \/ \E depth \in Catches : ExpansionError(depth)

Spec == Init /\ [][Next]_vars
=============================================================================
