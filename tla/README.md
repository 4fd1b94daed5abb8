# A verification project for baish

baish is bash with two builtins added, `ask` and `mcp`, which talk to language
model servers over HTTP. This directory holds TLA+ models of the parts of the
shell where order, interleaving and failure decide what happens, the TLC
configurations that check them on small instances, and theorems checked by TLAPS.

Source paths are relative to the repository (`src/jobs.c`, `src/builtins/ask.def`);
line numbers are those of the commit the models were written from. `PROJECT.json`
lists, for every definition that models code, the lines it stands for.

| file | what it is |
|---|---|
| `BgPids.tla` | the buffer of saved exit statuses with its hash chains |
| `SavedStatus.tla` | what the rest of the shell relies on from it: an ordered list |
| `BgPidsHistory.tla` | history variables, the refinement mapping, the properties of both |
| `BgPidsProofs.tla`, `BgPidsHistoryProofs.tla` | the theorems about `BgPids`, and about the list it implements |
| `Jobs.tla` | the job table, child reaping and `wait`, in a script's shell |
| `JobsProperties.tla`, `JobsProofs.tla` | its properties and the theorems about them |
| `CurrentJob.tla`, `CurrentJobProofs.tla` | the current and the previous job of an interactive shell, with its theorems |
| `Sigchld.tla`, `SigchldProperties.tla`, `SigchldProofs.tla` | how SIGCHLD, the waits and the SIGCHLD trap share the children |
| `Redir.tla`, `RedirProperties.tla`, `RedirProofs.tla` | redirections of the shell's own commands and their undo lists |
| `Ask.tla`, `AskProperties.tla`, `AskProofs.tla` | the `ask` builtin over its HTTP transport |
| `Sums.tla`, `DataTheorems.tla` | sums over sequences; lemmas about stacks, sums, sets of numbers and recursive functions |
| `MC*.tla`, `MC*.cfg` | instances for TLC |

Check an instance with `tlc -config MCJobs.cfg MCJobs`, and the proofs with `tlapm M.tla`
for M each of `DataTheorems`, `BgPidsProofs`, `BgPidsHistoryProofs`, `AskProofs`,
`SigchldProofs`, `JobsProofs`, `CurrentJobProofs` and `RedirProofs`.

## 1. Inventory

### The parts

**Saved statuses of background processes** (`jobs.c`, `bgp_*`, `set_maxchild`).
State: the circular buffer `bgpids.storage` with `head`, `nalloc`, `npid`, the
hash table `pidstat_table`, and `js.c_childmax`. Operations: add, delete, search,
find one, clear, resize, change CHILD_MAX. Used by the deletion of a job (save),
by `make_child` (forget the pid of a new child), by `wait` (search, and in posix
mode delete) and by process substitutions. Hard: overwriting a live cell, growing
a buffer that has wrapped around, index 0 of static storage. Correct when it
behaves as an ordered list from which only the oldest entries are lost.

**Job table, reaping and `wait`** (`jobs.c`, `wait.def`, `jobs.def`). State: the
jobs with their processes, the pipeline being made, `$!`, the saved statuses, and
what the kernel knows of the children. Operations: fork, `stop_pipeline`, the
SIGCHLD handler (`waitchld`), `wait_for`, the forms of `wait`, notification,
clean-up, `disown`, `jobs`. Hard: the handler runs wherever SIGCHLD is not
blocked; pids are reused; a status must survive the deletion of its job. Correct
when the table agrees with the kernel and every wait ends with the true status.

**Current and previous job** (`jobs.c`, `fg_bg.def`). State: the state and flags
of each job, `js.j_current`, `js.j_previous`, and the first and the last slot in
use, `js.j_firstj`, `js.j_lastj`, with `js.j_njobs`. Every job control command and every
stop, continuation and end may move the two indices. Hard: long sequences of
legal commands, several deletions in one clean-up, state that changes behind the
table's back. Correct when both indices name jobs, stopped jobs are preferred, all
jobs lie between the first and the last slot, and no end goes unreported.

**SIGCHLD and its trap** (`jobs.c`, `trap.c`, `trap.def`). State: the signal, the
counters `sigchld` and `queue_sigchld`, the trap's value (`trap_list[SIGCHLD]`) and
mode bits, `running_trap`, `pending_traps`, `catch_flag`. Operations: the handler,
`waitchld` called by the handler, by `wait_for` and by UNQUEUE_SIGCHLD, the sections
that raise `queue_sigchld`, `trap`, `run_pending_traps`, `run_sigchld_trap`. Hard: the
handler runs between any two steps; a trap may be running, pending, replaced by a
sentinel and changed by its own commands, all at once, and traps nest. Correct when no
child that has ended is overlooked, the trap runs once for each of them, and its value
is the one last asked for.

**Redirections** (`redir.c`, `execute_cmd.c`, `unwind_prot.c`, `exec.def`). State: the
descriptors, `redirection_undo_list`, `exec_redirection_undo_list`, and the lists that
running commands hold in local variables and on the unwind-protect list. Operations:
each kind of redirection, the beginning and the end of each kind of command that the
shell runs itself, `exec`, errors, interrupts and jumps. Hard: several lists at once,
descriptors that save others, failures in the middle, commands run by a trap in the
middle of another one's redirections. Correct when a saved copy is there until it is
restored, every number is what it was after the command, and no copy is left open.

**`ask` and its transport** (`ask.def`, `openai_core.c`). State: the round-robin
counter, the transport error buffer, `BAISH_LAST_ANSWER`, `BAISH_LAST_COMMANDS`,
and the asks under way. Operations: choose a server, check the model, post, retry,
fall back to another address or port, bind the variables, execute commands (which
may ask again). Hard: partial failure at a dozen places, retries of what may have
been done, nesting, subshells with copies of the state. Correct when commands run
only with consent, the variables belong to one answer, and every request ends.

**Not modelled, planned** (section 2): the growth and the compaction of the array of
job slots; the `mcp` builtin; the libcurl handle shared by `ask` and `mcp` and copied by fork; the pure functions that
take an answer apart (`baish_strip_think_blocks`, `baish_slice_json_object`,
`baish_parse_answer_commands`); process substitutions and coprocesses.

**Candidates after that**: the other traps and SIGINT (`trap.c`, `sig.c`), variable
scopes (`variables.c`), history stifling (`bashhist.c`), pattern matching (`lib/glob/sm_loop.c`).

**Left aside**: the parser, word expansion and most of command execution are
sequential transformations of text and trees, of which a model would be a
transcript; readline, completion and the allocator are libraries of their own;
cJSON is third-party; `nojobs.c` is built only on systems without job control.

### How they interact

- A command forks (`make_child`): the new pid is struck from the table and from the
  saved statuses. `stop_pipeline` turns the processes into a job, which cleans up
  dead jobs, and each deletion of an asynchronous job saves a status.
- The SIGCHLD handler changes the states of processes and jobs at any point where
  the signal is not blocked, also between fork and `stop_pipeline`, and between a
  wait's look at the table and its `waitpid`.
- A change of a job's state moves the current and the previous job.
- `waitchld` counts the children it has reaped and, in the `wait` builtin, runs the
  SIGCHLD trap itself; otherwise it queues the trap, which runs before the next command.
- A command the shell runs itself records what undoes its redirections; a command in its
  body, or in a trap that interrupts it, uses the same two global lists.
- `ask` executes commands through `parse_and_execute`, so it may be re-entered; in
  `$(ask ...)` it runs in a subshell, with copies of all of its state.

What can go wrong in these places is listed, line by line, under "hazards" in
`PROJECT.json`, with the properties that would notice.

## 2. Plan

Order of work, most important first:

1. **BgPids / SavedStatus**: model, refinement, proofs. *Done.*
2. **Jobs**, which uses `SavedStatus` in place of `BgPids`. *Done for scripts*; to
   be added: `wait -f`, `wait %job`, several arguments.
3. **CurrentJob**, the same table seen from job control. *Done* for jobs of one
   process; pipelines that stop in part are to be added.
4. **Ask**. *Done* except for the interactive wizard.
5. **Sigchld**: counters, queueing, blocking, and the SIGCHLD trap. *Done* for a
   script's shell out of posix mode.
6. **Redir**: undo lists under nesting, failure and jumps. *Done* for descriptors 1 to
   `SHELL_FD_BASE - 1`.
7. **JobSlots**: the first and the last slot are *done* in CurrentJob; growth and
   compaction are to be added, with its map of slots as their abstract specification.
8. **AskFork**: two subshells with copies of one curl handle. **Mcp**, next to Ask.
9. **AnswerText**: the pure functions, as folds, against reference definitions over
   all short inputs.
10. Scopes of variables, the other traps, as room allows.

Theorems, in order (section 5 has those that are done):

1. `BgPids`: type correctness, linked chains, no warning, the bound of `npid`; then that it
   implements `SavedStatus` and finds what the list holds. *Done.*
2. `Ask`: all of its invariants, and `TakesTurns`. *Done.*
3. `Sigchld`: all of its invariants. *Done.*
4. `Jobs`: all of its invariants. *Done.*
5. `CurrentJob`: all of its invariants and both action properties. *Done.*
6. `Redir`: all of its invariants and `Restored`, as long as there is room for copies. *Done.*

The composition is by abstraction, not by product: `Jobs` uses the list of
`SavedStatus`, and `BgPids` is shown to implement that list. `Sigchld` looks at the same
calls of `waitchld` as `Jobs`, with the counters that `Jobs` leaves out and without the
table. A product of two of these models would repeat every state of one in
every state of the other.

## 3. The models

### BgPids

One action per function: `Add` is `bgp_add` with `bgp_resize`, `bgp_getindex`,
`pshash_delindex` and the linking of the new cell; `Delete`, `DeleteOne`, `Clear`
and `SetMaxChild` are `bgp_delete`, `bgp_findone` followed by `bgp_delete`,
`bgp_clear` and `set_maxchild`. `Search` and `FindOne` are operators. The walk along
a chain (`Chain`, `Stop`, `Found`) is the loop of the code with its stop at the
first cell (the LOOP warning). `storage` is a function on `0 .. nalloc-1`;
`pidstat_table` starts as all zeros, as static storage does, and `bgp_clear` leaves
it alone. The hash is a constant, so that collisions are the instance's choice. The
code runs these functions with SIGCHLD blocked or outside the handler, hence one
step each.

A freed cell forgets its status, which nothing reads. `npid` is an `int` in the
code; `NpidMax` bounds it.

`SavedStatus` is the promise: a list, oldest first; a save appends and may lose at
most one entry, the oldest; a discard takes out the newest entry of a pid.
`BgPidsHistory` maps the live cells, from `head` round to `head`, to that list.

### Jobs

The shell of a script: `startup_state` 0, `job_control` 0, not interactive. One step
is a stretch of code between two points where SIGCHLD is unblocked; `pc` says where
the shell is. Children exit at any time (`Exit`), the handler reaps one child
(`Handler`, wherever `Unblocked`), and the kernel may give a new child any pid that
is free, also at once.

| actions | code |
|---|---|
| `Simple`, `Piped`, `PipedNext` | `make_child` with `delete_old_job` and `bgp_delete` |
| `StopPipeline` | `stop_pipeline`, with `cleanup_dead_jobs` |
| `WaitChld` in `Handler`, `ReapBlocking`, `ReapAny` | `waitchld`, `set_job_status_and_cleanup` |
| `EnterWaitFor`, `FinishWaitFor` | `wait_for`, `notify_and_cleanup`, `wait_for_single_pid` |
| `WaitKnownPid`, `WaitSavedPid`, `WaitUnknownPid` | `wait pid` |
| `WaitAll`, `WaitAllNext`, `WaitAllDone` | `wait`: `wait_for_background_pids` |
| `NextSaved` ... `Scan`, `WaitAnyEchild` | `wait -n`: `check_nonjobs`, `set_waitlist`, `wait_for_any_job` |
| `ReadCommand`, `LoopRound`, `JobsBuiltin`, `Disown` | the commands and places that clean up |

Posix mode is chosen in `Init`. The saved statuses are a list of `SavedStatus`, so a
save may lose any number of old entries up to the number saved: more than `BgPids`
ever loses, which makes the properties stronger. History variables say what each pid
stands for (`tail`), what waiting for it must answer (`answer`), which statuses must
be kept (`known`), and what the wait that has just returned said (`ret`).

Left out: stops and job control (see `CurrentJob`), `pipefail`, children that die of
SIGINT, traps and jumps out of a wait, fork failure, `lastpipe`, process
substitutions, `wait -f`, `wait %job`, and the array of slots, whose numbers never
change here. The branch of `wait_for` for ECHILD is left out because
`RecordsMatchKernel` shows that a job that counts as running has a child to wait for.

### CurrentJob

An interactive shell with job control. The table is passed on as a record of the jobs
and the two indices, because one command may delete several jobs, and every deletion
may call `reset_current`. `SetCurrent`, `ResetCurrent`, `DeleteJob`, `CleanedUp` are
the functions of the code; `Deleted` is the loop over the slots that `cleanup_dead_jobs` and
`delete_all_jobs` share. The processes change state on their own (`Stops`,
`Continues`, `Dies`) and `waitpid` reports only the last change. The handler takes
all changes there are; since it takes them in an order of the kernel's choice, any of
those that stopped may be the one that stopped last. `Start` may find that the
process has stopped or died before `stop_pipeline` made its job.

The first and the last slot in use and the number of jobs go with the table: `Removed` is
the end of `delete_job` with `reset_job_indices`, which looks for the next slot in use
round the array, forwards from a freed first slot and backwards from a freed last one;
`Started` is where `stop_pipeline` takes a slot.

Left out: jobs of several processes, `suspend`, errors of `killpg` other than a
missing process, `set -b`, compaction of the slots.

### Sigchld

A script's shell, not in posix mode. The stack says what the shell is in: the script, a
SIGCHLD trap, a section that has raised `queue_sigchld`, the reaping at the end of such
a section, the trap builtin, or `wait_for`. The script and the commands of a trap do the
same things, so both are `Commands`. SIGCHLD may arrive between any two steps unless
`Blocked`, which holds in `wait_for` and in traps that the handler runs.

| actions | code |
|---|---|
| `Handler` | `sigchld_handler` with `waitchld` if `queue_sigchld` is 0 |
| `EnterWaitFor`, `WaitChld`, `LeaveWaitFor` | `wait_for`; a round of its loop is one `waitchld` |
| `QueueSigchld`, `UnqueueSigchld`, `EndReaping` | `cleanup_dead_jobs`, `procsub_reap` |
| `BeginNotify`, `EndNotify` | `notify_of_job_status` without job control |
| `RunPendingTraps`, `EndTrap` | `run_pending_traps`, `run_sigchld_trap` |
| `TrapBuiltin`, `SetSignal`, `IgnoreSignal`, `RestoreDefaultSignal` | `trap` |

`Dispatch` is the end of `waitchld`: what becomes of the trap for the children it has
reaped. `RunTrap` pushes the trap's frame with the number of times it is to run; if the
trap's value is no string, `savestring` reads through it and the shell dumps core, which
is the empty stack. `late` children are those that end while the handler is in `waitchld`.

Ghost variables (`SigchldProperties`): `counted` are the children whose signal was
counted where nobody looks at it, `owed` the runs of the trap that are due, `wanted`
the trap last asked for.

Left out: job control, posix mode, `wait -n`, SIGINT, and a handler that interrupts
another function than the ones named. A child is started once: pids are in `Jobs`.

### Redir

A descriptor number refers to a file or is closed, and has a close-on-exec flag. `OpenFile`,
`OpenBoth`, `Duplicate`, `Move`, `Close` are the cases of `do_redirection_internal` with
RX_UNDOABLE, `AddUndoRedirect` and `AddUndoClose` the functions that prepare to undo them.
The stack holds the commands that the shell runs itself, from the outermost. A frame is
"redirecting", "opening" (a file whose `open` makes it wait, as a FIFO does) or in its
"body", where it holds its undo list as the code holds `my_undo_list` or
`saved_undo_list`. A command begins at the top level, in a body, or in a trap that
interrupts an `open` (`redir_open` calls `run_pending_traps`).

A command ends by `LeaveBody`, as a null command, as `exec` without or with a command
that cannot be executed, by a redirection that fails (`Refused`), by ^C (`Interrupt`:
`throw_to_top_level` runs the unwind-protects) or by an expansion error, which leaves
all commands up to the one whose `parse_and_execute` catches it (`Catches`).

History variables (`RedirProperties`): `promises` are, for each command, what the numbers it
redirected referred to before; `lapsed` those that the code has ceased to look after;
`lost` the copies that no list closes.

Left out: `{var}` redirections, buffered input streams, the descriptors of coprocesses
and of xtrace, user redirections of numbers from `SHELL_FD_BASE` on, and redirections of
commands that are forked, which are not undone.

### Ask

One step is one HTTP attempt with its outcome, or one command. `Ask`, `AskInvalid` and
`AskUnconfigured` are the start of `ask_builtin` up to its first request. A frame is
an ask under way: which request (`check` for GET /models beforehand, `post`, `list` for
GET /models after a refusal), which place, which attempt. The places are what
`baish_openai_request_try_ports` and `..._with_loopback_fallback` go through: the
ports of the entry (its own, or `BAISH_OPENAI_PORT`, or the default and 8000 for
http), and for each port `localhost` and then `127.0.0.1`. `NoResponse` is an attempt
without a response: broken connections are tried once more, then the next place,
then the ask fails. `Response` is any HTTP response, which ends the request. A
question is a number and an answer is known by its question.

`$(ask ...)` runs in a subshell: the ask restores copies of the shell's state when it
ends. Asks end one at a time; two subshells asking at once are planned (`AskFork`).
Left out: the wizard that asks an interactive user for a server, building and parsing
of JSON, the text of answers and messages, and the socket client that is no longer
called (`ask.def` lines 607-1020 and 1210-1312).

## 4. What the runs show

| run | instance | shows |
|---|---|---|
| `bgpids` | 3 pids in 2 buckets, storage of 2 cells growing to 4, CHILD_MAX 2 or 3 | the buffer is an ordered list |
| `bgpids_growth` | the same | *finding 1* |
| `jobs` | 2 pids, up to 5 children, pipelines of 2, CHILD_MAX 1 | table and kernel agree, waits are truthful |
| `jobs_liveness` | 2 pids, 2 children | waits end |
| `jobs_disown` | the same | *finding 2* |
| `jobs_wait_next` | 2 pids, 3 children | *finding 3* |
| `jobs_lost_wakeup` | 2 pids, 2 children | *finding 4* |
| `current_job` | 3 jobs | both indices stay right except in three named steps |
| `ask` | 3 asks, nested to depth 2, 2 commands, counter wrapping at 2 | consent, one answer, bounded requests |
| `sigchld` | 4 children, 2 trap commands | no child overlooked, one trap for each, the trap last asked for |
| `sigchld_core` | 3 children, 1 trap command | *finding 5* |
| `redir` | 2 nested commands, 2 redirections, 3 files, 10 descriptors | copies kept, numbers restored |

Properties of the passing runs:

- **bgpids**: the chains are doubly linked lists of live cells of their bucket
  (`Linked`); neither warning of the code can appear (`NoWarning`); `npid` covers the
  live cells (`NpidCovers`); a search through the chains finds the newest status of a
  pid (`SearchFindsNewest`), `bgp_findone` finds one whenever there is one
  (`FindOneFinds`); the whole implements the list (`RefinesSavedStatus`); a status
  outlives as many later saves as there were cells when it was saved
  (`OutlivesItsRoom`), which is what the code does keep of the promise of finding 1.
- **jobs**: a pid names one thing (`PidsUnique`); what the table says of running
  processes is what the kernel knows (`RecordsMatchKernel`, `ChildrenRecorded`); no
  wait answers with another process's status (`AnswersAreTrue`); the status of `$!`
  can be found as long as it must be (`KnownIsFound`); no foreground job is left
  behind (`ForegroundIsGone`). `jobs_liveness`: `WaitsEnd`.
- **current_job**: the indices name jobs (`CurrentExists`); no job ends unreported
  (`EndIsReported`); the current job is a stopped one if any is, except after
  `disown -r`, `kill -CONT`, and a command that stops before it is in the table
  (`CurrentIsKept`); the previous job likewise (`PreviousIsKept`); all jobs lie between
  `j_firstj` and `j_lastj`, both in use, and `j_njobs` counts them (`IndicesBracketJobs`).
- **sigchld**: a child that has ended has its signal pending or UNQUEUE_SIGCHLD is going to
  reap it, except for the two places named in section 6 (`NoneForgotten`); the runs of the
  trap that are pending or under way are exactly one for each child reaped while it was
  set, less those dropped as section 6 says (`EachChildTrapped`); when no trap is running
  the trap is the one last asked for (`TrapIsKept`).
- **redir**: a copy that a list has to restore from is open, close-on-exec, from
  `SHELL_FD_BASE` on and its own (`SavesAreIntact`); at the top level no copy is open
  but those of a dropped list (`NoLeak`); however commands end, each number they redirected
  is again what it was before the outermost of them, flag included, and no other number
  changes (`Restored`).
- **ask**: commands run only if asked for and never with `-j` (`OnlyWanted`);
  `BAISH_LAST_COMMANDS` never outlives its answer (`LastIsOneAnswer`); the error
  buffer tells of the last request (`ErrorIsCurrent`); a question is not posted again
  after a server answered it (`AnsweredOnce`), and at most 8 times (`PostsBounded`);
  successive asks of a shell use successive entries (`TakesTurns`); every request ends
  (`RequestsEnd`).

Every property is paired in `PROJECT.json` with a small change of a definition, of the
kind a slip in the code would be, under which TLC finds the property violated.

### Bounds and why they are enough

- BgPids: 4 cells and 3 pids make the buffer wrap, grow from 2 to 4 cells while wrapped,
  hold two statuses of one pid, and put chains of up to 4 cells through two buckets with a
  collision. `NpidMax` = 5 leaves room for one save more than the buffer has cells. The
  proofs cover all sizes.
- Jobs: more children than pids, so that pids are reused while their former owners are
  still in the table or among the saved statuses; one status of a process that exits and
  one of a process that a signal killed, as the shell treats them differently; CHILD_MAX
  1, so that saved and dead jobs hit the limit. `MCSymmetry` permutes the pids, in
  the run of invariants only. The runs that look for liveness are smaller.
- CurrentJob: 3 slots are the fewest in which a stopped, a running and a dying job
  meet; the choices of `set_current_job` look at no more than that at once.
- Sigchld: four children let one be waited for while one is reaped by the handler, one by
  the end of a section and one is late; two trap commands let a trap replace itself. They
  are interchangeable (`Symmetry`). Nothing else is bounded: traps nest only as far as
  there are children to run them for.
- Redir: two commands, one in the body or the trap of the other, and two redirections
  between them. Three files fill the numbers 1 to 3 below `Base`, which stands for
  `SHELL_FD_BASE` (10 in the code); descriptors up to 10 leave room for all copies, so
  the fallback for a full table is not reached. Files have no names (`Symmetry`).
  `LossIsRecent` stops a behaviour once copies are lost and the command whose list was
  dropped is over: the losses of several such commands, which add up until no number from
  `Base` on is free, are not explored.
- Ask: the list holds a local server with all fallbacks (4 places), an entry that is no
  URL and a remote server (1 place); the empty list is another choice. Three asks: one
  outer, one nested, one after. `MaxAttempts` 2 and `MaxPlaces` 4 are the code's own.
  The counter wraps at 2 in place of ULONG_MAX, where the code has a wrap of its own.

### Deadlock

Checked everywhere but in Ask, where `MaxAsks` ends the run, as a shell that asks no more
questions may stop, and in Sigchld, where a shell that has dumped core stops. In Jobs and CurrentJob a
shell that is not waiting can always go on, and one that waits has a child that can exit; so
a deadlock found there would be a wait for nobody.

### Fairness

- `ShellSpec`: WF of `ShellStep`, the steps of a command under way. The shell's process
  is scheduled by the kernel; nothing but `waitpid` blocks it, and a blocked
  `waitpid` is a disabled action here. The commands of the script are not fair.
- `FairSpec` of Jobs adds WF of `SomeExit`: children go on exiting. Without that no
  shell promises anything. Weak fairness of the disjunction does not say that a certain
  child exits, only that exits go on; with finitely many children all exit.
- `FairSpec` of Ask: WF of `Attempt`: an HTTP attempt ends. The code sets
  CURLOPT_TIMEOUT for every request, to 1 to 600 seconds (`openai_timeout`,
  `ask.def` 309-325). The steps of commands that an answer runs are not fair: a command
  may run for ever.

## 5. What is proved

The theorems hold for every value of the constants that the assumptions admit; the runs
show the same properties on the instances of section 4.

| module | theorem | statement |
|---|---|---|
| `BgPidsProofs` | `TypeCorrect`, `ChainsLinked`, `NeverWarns`, `NpidNeverShort` | `Spec =>` `[]TypeOK`, `[]Linked`, `[]NoWarning`, `[]NpidCovers` |
| `BgPidsHistoryProofs` | `Refines` | `HSpec => RefinesSavedStatus` |
| | `SearchIsLookup`, `FindOneIsRight` | `HSpec =>` `[]SearchFindsNewest`, `[]FindOneFinds` |
| | `StatusesOutlive` | `HSpec => OutlivesItsRoom` |
| `AskProofs` | `SpecTypeOK`, `SpecPostsBounded`, `SpecAnsweredOnce`, `SpecOnlyWanted`, `SpecLastIsOneAnswer`, `SpecErrorIsCurrent` | `Spec => []` the invariant named |
| | `SpecTakesTurns` | `Spec => TakesTurns` |
| `SigchldProofs` | `HSpecTypeOK`, `HSpecNoneForgotten`, `HSpecEachChildTrapped`, `HSpecTrapIsKept` | `HSpec => []` the invariant named |
| `JobsProofs` | `SpecTypeOK`, `SpecPidsUnique`, `SpecRecordsMatchKernel`, `SpecChildrenRecorded`, `SpecAnswersAreTrue`, `SpecKnownIsFound`, `SpecForegroundIsGone` | `Spec => []` the invariant named |
| `CurrentJobProofs` | `TypeCorrect`, `CurrentAlwaysExists`, `IndicesAlwaysBracket`, `EndsAreReported` | `Spec =>` `[]TypeOK`, `[]CurrentExists`, `[]IndicesBracketJobs`, `[]EndIsReported` |
| | `CurrentStaysGood`, `PreviousStaysGood` | `Spec =>` `CurrentIsKept`, `PreviousIsKept` |
| `RedirProofs` | `RedirTypes` | `HSpec => []TypeOK` |
| | `SavesKept`, `NothingLeaks`, `RedirectionsEnd` | `HSpec /\ []HasRoom =>` `[]SavesAreIntact`, `[]NoLeak`, `Restored` |

### The assumptions

TLC evaluates them in every run of the instances that extend the module.

- `BgPids`: no pid is NO_PID, no status is -1, the hash maps pids to buckets
  (`DataAssumption`); sizes are numbers, the first size is positive and within the cap
  (`SizeAssumption`).
- `Ask`: a list of servers is a sequence of entries, and the bounds are numbers
  (`UrlAssumption`, `CounterAssumption`, `BoundsAssumption`).
- `Sigchld`: there are finitely many children, and the commands of a trap are none of the
  words for its other dispositions (`SigchldAssumption`).
- `Jobs`: no pid is 0 or NO_PID, a status is a number other than 127, the answer for an
  unknown pid, and the number of forks is bounded (`PidAssumption`, `StatusAssumption`,
  `BoundAssumption`). A process that exits with 127 would only be told apart from an
  unknown pid by the history; nothing in the code depends on it.
- `CurrentJob`: the table has at least one slot (`MaxJobsAssumption`).
- `Redir`: the bounds are numbers, descriptors 1 to 3 lie below `Base`, and no file is the word for a
  closed descriptor (`RedirAssumption`).

Three theorems about `Redir` suppose one thing of the behaviour, that two numbers from
`SHELL_FD_BASE` on are free in every state (`HasRoom`). It is a hypothesis, not a property of
the code. It is needed: when no number from `SHELL_FD_BASE` on is free, `add_undo_redirect`
copies to any free number, and the next redirection of the same command may name that number
and overwrite the copy. Two are enough, since a redirection copies at most
two descriptors (`n>&m-`), or opens a file and copies one. No assumption on the constants
would do: a trap's command that runs while an `open` blocks drops the outer command's
list, whose copies stay open, so a shell that meets this often enough runs out of numbers,
however many it has. `RedirTypes` does not need it.

### BgPids: the chains

The inductive invariant is `TypeOK` and `Linked` together. Neither is inductive alone: a
link is an index only because of `TypeOK`, and an overwritten cell is only safe to reuse
because of `Linked`. `UnlinkOK` shows that taking a cell out of a well linked chain leaves
all chains well linked and frees that cell alone; `LinkOK` that putting a free cell in front
of its chain does so too; `GrowOK` that `bgp_resize` neither shrinks the storage nor
disturbs a chain. An add is a growth, an unlink and a link; a delete is an unlink. The
invariant gives `NoWarning`: the second bgp_getindex of `bgp_add` and both LOOP warnings are
unreachable, because the first cell of a chain has no predecessor. `NpidCovers` needs
counting: an add makes at most one more live cell (`AddLiveSet`), a delete exactly one less
(`DeleteLiveSet`).

### BgPids: the list

`SearchFindsNewest` needs one more conjunct, `Descending`: along a chain the cells get
older, where the age of a cell is its place on the way from `head` round to `head`
(`Place`). `Linked` alone would allow a chain in the wrong order, and a search would then
find an old status of a reused pid. An add keeps `Descending` because the cell it fills has
the last place of all when `head` has moved past it; a growth keeps it although it changes
the places of the cells (`GrowDescends`).

The list of the mapping is defined by recursion, and is used in the proofs only through what
determines it: it is the one list laid out over the live cells in the order of their places
(`ListIs`, from `OldestLaidOut` and `OneList`). So each step has to show only that the list
it should lead to is laid out over the new storage: a list stays laid out when all places
are renumbered in the same order (`Renumbered`, for growth and for the step of `head`), loses
an element when a cell is freed (`CellFreed`) and gains its last one when the newest cell is
filled (`CellFilled`). The walk along a chain stops, before it comes round, at the last cell
(`WalkDescends`, `WalkReaches`), hence at the newest one of the pid (`FoundIsNewest`), which
is the newest entry in the list (`LocateIsNewest`). `AddSaves` and `DeleteDiscards` are then
the two kinds of steps of `SavedStatus`; `bgp_clear` empties both, and `set_maxchild` stutters.

`OutlivesItsRoom` follows from `AgeInv`: since a cell was filled, at least as many statuses
were saved as `head` must have gone through cells to come to where it is now, over the end of
the storage as it was at that time if it is no longer ahead of the cell.

### Ask

The inductive invariant has six parts. `Typed` says what each frame holds and that the
questions of the frames are asked ones. `Nested`: only the innermost ask is at a request. `Answers`:
an ask at a request of a question has no response yet, one that executes commands has an
answer and consent, and the same holds of what each subshell will put back. `Errors`: at the
first place nothing is in the error buffer; between requests it tells of the last one, also
in the copies. `Counting`: the posts so far are at most those of the places and attempts
before the present one, from which the bound of `PostsBounded` follows. `Turns`: the counter is
one ahead of the entry used last, in the shell and in the copies that subshells hold; the
remainder of a counter that steps by one is the next entry (`NextRemainder`).

### Sigchld

`NoneForgotten` and `EachChildTrapped` are inductive together with the types and three more
parts. `Sections`: `queue_sigchld` is raised as often as the stack says, so the handler cannot
return early elsewhere, and a section has seen no more signals counted than there are.
`Bounded`: signals counted and traps pending are never more than there are children to cause
them, which bounds the runs in a frame. `Kept`, which gives `TrapIsKept`: while
`trap_list` holds the sentinel, the innermost run of the trap holds the value last asked for. The
runs due are a sum over the stack (`Total`), so pushing, popping and changing frames is
reasoned about with the lemmas of `DataTheorems`.

### Jobs

The seven invariants are proved from one: `Inv` says of each place in which a pid can be found, the
table, the pipeline being made and the saved statuses, what the kernel and the history say of
that pid. In the table and the pipeline, a process is recorded as running exactly while
the kernel has it (`LiveOK`), and once the last process of its pipeline has ended the status recorded there is
the answer (`ToldOK`). A saved status is the answer for its pid, whose process is gone, unless
the job was disowned (`SavedOK`). No pid is in two places. The status of a pid that must be known
is in a job that is asynchronous, and so will be saved, or is saved already (`KnownOK`). What the
shell waits for is in the table, and a job that is not asynchronous is the one waited for
(`PlaceOK`). None of the seven is inductive without the others: a wait answers truly only if the
pid it found was not reused, pids are unique only if a reaped child is recorded as dead, and a
deleted job is saved only if its status was recorded.

Each predicate takes the state as parameters, so that a step such as `stop_pipeline` with its
clean-up is taken apart into changes of the table (a process marked, a job added, a job
cleared away with its status saved), each with a lemma of its own. Jobs are cleared away in the
order of their slots, which `DataTheorems` numbers by rank.
Before it was proved, `Inv` was checked by TLC as an invariant of `MCJobs`.

### CurrentJob

The invariant is that of the table, `TableOK`, with what is known of the processes. The table part
takes the table as its parameter: `IndicesExist` is `CurrentExists`, `Brackets` is
`IndicesBracketJobs` and what the indices are when no job is left. `SetCurrentFacts` and
`ResetCurrentFacts` need neither of them of the table they start from: whatever the indices
were, a job of the table is chosen, a stopped one if there is one. That is what makes
`delete_job` correct, which calls `reset_current` while an index still names the slot just freed.
`Freed` shows that the search round the array ends at the first and the last job left.

A clean-up or `disown -a` deletes any number of jobs. `Shrunk` says what one deletion
keeps, and `DeletedFacts` carries it through the loop by induction over the slots: the jobs left
are the same, the table is right, the current and the previous job are as good as before, and no
current job appears if there was none, which `disown -a` needs.

`EndIsReported` goes through because whatever sets the flag of a dead job (`notify_of_job_status`,
the `jobs` builtin) is followed by the clean-up that deletes it, and because a report of
`waitpid` clears the flag. The action properties excuse a current job that ended; for this to
stay true until the job is deleted, the invariant says (`ProcsOK`) that a job recorded as dead has a
dead process of which nothing more will be reported, so that no late report revives it.

For the action properties each step is shown to keep both indices good (`Keeps`), except the
steps that the properties name: `StepDisownAll`, `StepStart` and `StepKillCont` show what these
still keep.

### Redir

The types are proved first, by themselves. The invariant of the other theorems speaks of every
undo list there is: the shell's own, `redirection_undo_list`, and those that the commands on the
stack hold. `Clean`: what is closed has no flag, and descriptors up to 2 never have one, which
makes it right that `add_undo_redirect` does not record theirs. `Phases`: a command is in its body
and holds its list, or it is the innermost one and its list is the shell's, or it waits in an
`open` that a trap has interrupted, and then its list was dropped and its numbers have lapsed.
`Current` and `Stacked`: each list is well formed (an entry that restores a number is followed by
the one that closes its copy, and no copy is closed twice), its copies are open and close-on-exec,
no two lists share a copy, and `exec_redirection_undo_list` has the copies of the shell's list and
none of the others. `KeepsPromises`: the last entry of a list for a number says what the number
referred to before the command, and the list touches no other number. `Known`: an open number
from `Base` on is the copy of a list, or lost.

What a list does when it is performed is `UndoFacts`: if it is well formed and its copies are
open, no entry fails, each number it mentions gets what its last entry says, each copy is closed,
and nothing else changes. The loop over the entries is a recursive function of the number of
entries done (`Undo`), and the lemma goes along it by induction over the numbers. `UnwoundClears`
does the same for the frames that the unwind-protect list leaves: since no two lists share a
copy, undoing the inner one leaves the outer one's copies as they are, and a number that both
redirected ends as the outer one says.

For a redirection, `Progress` says that it keeps all this: entries are put in front, so older ones
prevail; copies are taken at numbers that were free, hence in no list. Each kind of redirection
(`OpenFile`, `OpenBoth`, `Duplicate`, `Move`, `Close`) is shown to make progress from the facts
about `AddUndoRedirect` and `AddUndoClose`, and also where it fails half way, since the entries
made until then are what `undo_partial_redirects` performs. `HasRoom` is used here and nowhere
else. A step that ends commands is then a table that comes of undoing some lists (`SetBack`,
`EndsAfter`): the invariant holds of what is left, and each number that the commands redirected is as
`Restored` says. The five ways to end (the body's end, a null command, a failure, an interrupt, an
expansion error) differ in which lists they perform, and `exec` in that it performs the list of
copies only.

Before it was proved, TLC checked the invariant on the instance of `MCRedir`, in which there is
room as far as `LossIsRecent` lets a behaviour go.

### Not proved

- Liveness, `WaitsEnd` and `RequestsEnd`: the prover does not reason about fairness.
- That there is room for copies (`HasRoom`): dropped lists leave their copies open, so a shell that
  drops enough of them has none. No run claims it either: `LossIsRecent` cuts off exactly the states
  in which losses would add up.
- Induction theorems that take an operator as a parameter cannot be used. Induction over a set
  of numbers can (`SetInduction`, from the least element of a set), which is how sums, ranks,
  the list of the ring, the walk along a chain and the loops over undo lists are reasoned about.
  What folds, `SelectSeq` and `SortSeq` compute remains out of reach, and so the proofs use
  none of them.

## 6. Findings

Each is a run that TLC finds violated.

1. `bgpids_growth` (`jobs.c:797`). The storage "must contain at least js.c_childmax
   entries" so that the last CHILD_MAX statuses are kept. When CHILD_MAX is raised while
   the buffer has wrapped around, `head` stays in the middle of the old cells and the next
   saves overwrite the oldest live statuses while the new cells are free.
2. `jobs_disown` (`jobs.c:1505`). `disown` of a running asynchronous job deletes it, and
   the deletion saves the status field of a process that has not ended, 0. A later `wait`
   for that pid answers 0 at once.
3. `jobs_wait_next` (`jobs.c:3541`). In posix mode `wait -n pid` takes any saved status,
   of whatever pid, returns and deletes it.
4. `jobs_lost_wakeup` (`jobs.c:3601`). `wait -n` looks for finished jobs with SIGCHLD
   blocked, unblocks it, and then blocks in `waitpid`. A job that ends in between is
   reaped by the handler and wakes nobody until another child ends.
5. `sigchld_core` (`trap.c:401`). `run_pending_traps` makes sure that the value of a
   pending trap is a string, "unless we catch this, the subshell will dump core", but for
   SIGCHLD it only excludes the sentinel. A child that the handler reaps while
   `trap - SIGCHLD` or `trap '' SIGCHLD` is under way leaves its trap pending; the next
   command runs it, and `savestring` reads through 0 or 1.

Behaviour that the properties except, because nothing in the repository promises
otherwise or the exception is the code's evident intent:

- `NoneForgotten`: a child whose signal is counted while `notify_of_job_status` has raised
  `queue_sigchld`, or within the reaping of UNQUEUE_SIGCHLD, stays a zombie until the next
  SIGCHLD or wait: nobody compares `sigchld` with its former value there.
- `EachChildTrapped`: when `wait` runs the trap itself, SIGCHLD is not marked as in
  progress, so the next `run_pending_traps`, before a command of the trap, takes the
  sentinel for a bad value, warns, and drops the runs queued meanwhile.
- `TrapIsKept`: `trap - CHLD` in a trap that `wait` runs does nothing, for the same reason.
- A nested `run_pending_traps` clears `catch_flag` and leaves `pending_traps` raised: the
  trap waits for the next trapped signal of any kind. The model has this (`OtherSignal`);
  no property promises that the trap runs at last.
- `Restored`: `n>&m-` with n closed does not save m; `&>file` with descriptor 2 closed
  leaves it open, as the result of `add_undo_redirect` is not looked at; a trap's command
  during a blocked `open` drops the outer command's list and leaves its copies open; ^C in
  such an `open` leaves the redirections made so far, since `throw_to_top_level` does
  not undo them.
- An `ask` in `$(...)` advances a copy of the round-robin counter, so such asks use the
  same entry of the list again and again; `TakesTurns` speaks of the asks of one process.

## 7. Not modelled

- Parser, word expansion, most of command execution: sequential transformations of text
  and trees, of which a model would be a transcript.
- Readline, completion, history, the allocator, gettext (`lib/intl`), the support tools,
  the loadable examples: libraries and tools beside the shell.
- Variable scopes, arrays, process substitutions, coprocesses, pattern matching: within
  reach, after what section 2 plans.
- `mcp`, the shared curl handle, the text of answers: planned.
- The growth and compaction of the array of slots, SIGINT and the other traps, posix mode
  outside of `wait -n`.
