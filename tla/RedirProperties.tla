--------------------------- MODULE RedirProperties ---------------------------
(***************************************************************************)
(* Redir with history variables: for each running command, what the        *)
(* numbers that it redirected referred to before, and which of them the    *)
(* code has ceased to look after; and the properties of both.              *)
(***************************************************************************)
EXTENDS Redir

VARIABLES
    promises,   \* for each frame: number -> what it is to refer to again
    lapsed,     \* for each frame: the numbers of these that are not restored
    lost        \* the copies that no list closes any more

hvars == <<vars, promises, lapsed, lost>>

Touched(r) ==
    IF r.redirector = r.redir_fd THEN {}
    ELSE CASE r.ri = "both" -> {1, 2}
           [] r.ri = "move" -> {r.redirector, r.redir_fd}
           [] OTHER         -> {r.redirector}

\* What a redirection fails to record: standard error for &> if it is closed,
\* and m for n>&m- if n is closed.
Unrecorded(r) ==
    CASE r.ri = "both" -> {n \in {2} : ~IsOpen(fds, n)}
      [] r.ri = "move" -> IF IsOpen(fds, r.redirector) THEN {} ELSE {r.redir_fd}
      [] OTHER -> {}

Promise == promises[Depth]
Copies(list) == {list[i].redirector : i \in {j \in DOMAIN list : list[j].redirector >= Base}}

HInit == Init /\ promises = <<>> /\ lapsed = <<>> /\ lost = {}

Record(r) ==
    LET new == Touched(r) \ DOMAIN Promise
    IN  /\ promises' = [promises EXCEPT ![Depth] =
                           [n \in DOMAIN @ \cup new |-> IF n \in new THEN fds[n] ELSE @[n]]]
        /\ lapsed' = [lapsed EXCEPT ![Depth] = @ \cup (Unrecorded(r) \cap new)]

Shorten(depth) ==
    /\ promises' = SubSeq(promises, 1, depth)
    /\ lapsed' = SubSeq(lapsed, 1, depth)

\* A command that begins while another one's redirections are under way: the
\* list of those is thrown away.
HBegin ==
    /\ Begin
    /\ promises' = Append(promises, <<>>)
    /\ lapsed' = Append([d \in DOMAIN lapsed |->
                            IF stack[d].phase = "opening" /\ d = Depth THEN DOMAIN promises[d]
                            ELSE lapsed[d]], {})
    /\ lost' = lost \cup Copies(redirection_undo_list)

HPerform(act, r) ==
    /\ act
    /\ IF Len(stack') < Depth THEN Shorten(Depth - 1) ELSE Record(r)
    /\ UNCHANGED lost

HSame(act) == act /\ UNCHANGED <<promises, lapsed, lost>>
HEnd(act) == act /\ Shorten(Len(stack')) /\ UNCHANGED lost

HNext ==
    \/ HBegin
    \/ \E r \in Others : HPerform(Redirect(r), r)
    \/ \E r \in Opens : HSame(StartOpen(r))
    \/ \E file \in Files : HPerform(FinishOpen(file), Top.next)
    \/ HEnd(OpenFails)
    \/ HSame(EnterBody)
    \/ HEnd(LeaveBody)
    \/ HEnd(NullCommand)
    \/ HEnd(ExecKeeps)
    \/ HEnd(ExecFails)
    \/ HEnd(Interrupt)
    \/ \E depth \in Catches : HEnd(ExpansionError(depth))

HSpec == HInit /\ [][HNext]_hvars

\* Bound: with copies lost, states are explored until the command ends whose
\* numbers lapsed.
LossIsRecent == lost # {} => \E d \in DOMAIN lapsed : lapsed[d] # {}

-----------------------------------------------------------------------------
UndoEntry == [ri : {"dup", "close"}, redirector : Numbers, redir_fd : Numbers \cup {NoNumber},
              savclexec : BOOLEAN]
Desc == [file : Files \cup {Closed}, cloexec : BOOLEAN]

TypeOK ==
    /\ fds \in [Numbers -> Desc]
    /\ redirection_undo_list \in Seq(UndoEntry)
    /\ exec_redirection_undo_list \in Seq(UndoEntry)
    /\ \A d \in DOMAIN stack :
         /\ stack[d].phase \in {"redirecting", "opening", "body"}
         /\ stack[d].next \in Opens \cup {NoRedirect}
         /\ stack[d].done \in 0 .. MaxRedirs
         /\ stack[d].undo \in Seq(UndoEntry)
    /\ Len(promises) = Depth /\ Len(lapsed) = Depth

\* Every list that is still to be performed.
Pending == {redirection_undo_list} \cup {stack[d].undo : d \in DOMAIN stack}
Saves(list) == {i \in DOMAIN list : list[i].ri = "dup"}

\* A saved copy is there when it is needed: no command, however the running
\* ones nest, closes or reuses the number of a copy that a list has still to
\* restore, and no two saves share one.  It is never inherited by a program.
SavesAreIntact ==
    /\ \A list \in Pending : \A i \in Saves(list) :
         /\ list[i].redir_fd >= Base
         /\ IsOpen(fds, list[i].redir_fd)
         /\ fds[list[i].redir_fd].cloexec
    /\ \A d, e \in DOMAIN stack : \A i \in Saves(stack[d].undo), j \in Saves(stack[e].undo) :
         stack[d].undo[i].redir_fd = stack[e].undo[j].redir_fd => <<d, i>> = <<e, j>>

\* The shell keeps no copies: at the top level the numbers from Base on are
\* free, but for those of lists that a trap's command or an interrupt dropped.
NoLeak ==
    stack = <<>> =>
        \A n \in Numbers : n >= Base /\ IsOpen(fds, n) => n \in lost \cup Copies(redirection_undo_list)

\* The outermost of the commands that this step ends which redirected n.
Ended(n) == {d \in Len(stack') + 1 .. Depth : n \in DOMAIN promises[d]}
Owed(n) ==
    IF Ended(n) = {} THEN {fds[n]}
    ELSE IF n \in lapsed[Min(Ended(n))] THEN Desc
    ELSE {promises[Min(Ended(n))][n]}

\* bash.1:5763: the open files of the shell are those inherited, "as modified
\* by redirections supplied to the exec builtin".  However a command ends,
\* together with those in it, each number it redirected refers to what it did
\* before, with the flag it had, and every other number to what it does now;
\* but for the numbers that have lapsed, and the command whose redirections an
\* interrupt cuts short.
Restored ==
    [][Len(stack') < Depth =>
         \A n \in UserNumbers :
            \/ fds'[n] \in Owed(n)
            \/ ExecKeeps /\ fds'[n] = fds[n]
            \/ Interrupt /\ Ended(n) = {Depth} /\ Top.phase # "body"]_hvars
=============================================================================
