-------------------------------- MODULE Ask --------------------------------
(***************************************************************************)
(* The ask builtin (builtins/ask.def) over its HTTP transport              *)
(* (builtins/openai_core.c): choosing an entry of the list of servers,     *)
(* checking the model, posting the question with its retries and           *)
(* fallbacks, binding BAISH_LAST_ANSWER and BAISH_LAST_COMMANDS, and       *)
(* executing the commands of the answer, which may ask again.              *)
(*                                                                         *)
(* One step is one HTTP attempt, with what the network makes of it, or one *)
(* command.  A question is a number; an answer is known by its question.   *)
(***************************************************************************)
EXTENDS Integers, SequencesExt, FiniteSetsExt

CONSTANTS
    UrlLists,     \* lists BAISH_OPENAI_BASE_URL may hold, of Url records
    Overrides,    \* what BAISH_OPENAI_PORT may hold; NoPort if it is not set
    MaxCounter,   \* ULONG_MAX
    MaxCommands,  \* bound on the commands of an answer
    MaxDepth,     \* bound on asks inside of asks
    MaxAsks       \* bound on the questions of a run

NoPort == "no port"
Loopback == "localhost"
Empty == 0        \* "" in BAISH_LAST_ANSWER or BAISH_LAST_COMMANDS
NoEntry == -1
NoPlace == 0
MaxAttempts == 2  \* openai_request_with_status
MaxPlaces == 4    \* two ports, two addresses

\* What baish_parse_http_base_url makes of an entry; port is the explicit one.
Url == [valid : BOOLEAN, scheme : {"http", "https"}, host : STRING, port : STRING]

ASSUME CounterAssumption == MaxCounter \in Nat
ASSUME UrlAssumption == UrlLists \subseteq Seq(Url)
ASSUME BoundsAssumption ==
    MaxCommands \in Nat /\ MaxDepth \in Nat \ {0} /\ MaxAsks \in Nat

VARIABLES
    base_urls,       \* the list of servers
    port_override,
    frames,          \* the asks under way, the innermost last
    counter,         \* of baish_next_rr_index
    transport_error, \* whether baish_transport_error holds a message
    last             \* BAISH_LAST_ANSWER and BAISH_LAST_COMMANDS

(***************************************************************************)
(* History: the number of questions; how often the one that was posted     *)
(* last reached a server; the questions that reached one after they were   *)
(* answered, those that were answered, those whose commands the user wants *)
(* run and those some command of which was; whether the last request       *)
(* failed; the entry used last, by anyone and by the shell itself.         *)
(***************************************************************************)
VARIABLES asked, posts, reposted, replied, consent, ran, failed, entry, shellEntry

configVars == <<base_urls, port_override>>
shellVars == <<frames, counter, transport_error, last>>
historyVars == <<asked, posts, reposted, replied, consent, ran, failed, entry, shellEntry>>
vars == <<configVars, shellVars, historyVars>>

-----------------------------------------------------------------------------
(***************************************************************************)
(* The places a request is sent to, in order: baish_openai_request_try_    *)
(* ports and, for each port, baish_openai_request_with_loopback_fallback.  *)
(***************************************************************************)
Ports(url) ==
    IF url.port # NoPort THEN <<url.port>>
    ELSE IF port_override # NoPort THEN <<port_override>>
    ELSE IF url.scheme = "http" THEN <<"default", "8000">>
    ELSE <<"default">>

Addresses(url) ==
    IF url.host = Loopback THEN <<url.host, "127.0.0.1">> ELSE <<url.host>>

PlaceCount(url) == Len(Ports(url)) * Len(Addresses(url))

Frame == Last(frames)
At(where) == frames # <<>> /\ Frame.at = where
Requesting == frames # <<>> /\ Frame.at \in {"check", "post", "list"}
Becomes(frame) == frames' = Append(Front(frames), frame)

\* Mutated form: BAISH_AUTOEXEC=0 counts as set.
WantsRunAlways(c, j, autoexec) == ~j

\* Whether the commands of the answer are to be executed.
WantsRun(c, j, autoexec) == ~j /\ (c \/ autoexec)

\* Mutated form: the counter goes on only past an entry that can be used.
NextIndexValid(n) == IF base_urls[(n % Len(base_urls)) + 1].valid THEN n + 1 ELSE n

\* Mutated form: the counter never wraps.
NextIndexUnbounded(n) == n + 1

\* baish_next_rr_index
NextIndex(n) == IF n = MaxCounter THEN 0 ELSE n + 1

-----------------------------------------------------------------------------
(***************************************************************************)
(* ask [-c] [-j] question, as a command of the user's or of an answer.     *)
(***************************************************************************)
CanAsk ==
    /\ asked < MaxAsks
    /\ \/ frames = <<>>
       \/ At("run") /\ Frame.left > 0 /\ Len(frames) < MaxDepth

\* The asks under way, when the command that asks is taken as done.
Callers ==
    IF frames = <<>> THEN <<>>
    ELSE Append(Front(frames), [Frame EXCEPT !.left = @ - 1])
CallersRan == IF frames = <<>> THEN {} ELSE {Frame.question}

\* No server at all (the wizard is for interactive shells).
AskUnconfigured ==
    /\ CanAsk
    /\ base_urls = <<>>
    /\ last' = [answer |-> Empty, commands |-> Empty]
    /\ asked' = asked + 1
    /\ UNCHANGED <<configVars, frames, counter, transport_error,
                   posts, reposted, replied, consent, ran, failed, entry, shellEntry>>

Index == counter % Len(base_urls)
Chosen == base_urls[Index + 1]

\* An entry that is not a URL costs a turn and leaves the variables alone.
AskInvalid(subshell) ==
    /\ CanAsk
    /\ base_urls # <<>> /\ ~Chosen.valid
    /\ frames' = Callers
    /\ counter' = IF subshell THEN counter ELSE NextIndex(counter)
    /\ asked' = asked + 1
    /\ ran' = ran \cup CallersRan
    /\ entry' = Index
    /\ shellEntry' = IF subshell THEN shellEntry ELSE Index
    /\ UNCHANGED <<configVars, transport_error, last, posts, reposted, replied, consent, failed>>

\* model: whether a model is configured; check: whether /models is asked first
\* (BAISH_FAIL_FAST or an interactive notice).  A subshell, as in $(ask ...),
\* has copies of the shell's state, which are gone with it.
Ask(c, j, autoexec, check, model, subshell) ==
    /\ CanAsk
    /\ base_urls # <<>> /\ Chosen.valid
    /\ frames' = Append(Callers,
         [question |-> asked + 1,
          at       |-> IF check \/ ~model THEN "check" ELSE "post",
          places   |-> PlaceCount(Chosen), place |-> 1, attempt |-> 1,
          json |-> j, run |-> WantsRun(c, j, autoexec), model |-> model,
          listed |-> FALSE, left |-> 0, subshell |-> subshell,
          saved |-> [counter |-> counter, transport_error |-> transport_error, last |-> last,
                     failed |-> failed, shellEntry |-> shellEntry]])
    /\ transport_error' = FALSE
    /\ failed' = FALSE
    /\ counter' = NextIndex(counter)
    /\ asked' = asked + 1
    /\ posts' = 0
    /\ consent' = IF ~j /\ (c \/ autoexec) THEN consent \cup {asked + 1} ELSE consent
    /\ ran' = ran \cup CallersRan
    /\ entry' = Index
    /\ shellEntry' = Index
    /\ UNCHANGED <<configVars, last, reposted, replied>>

(***************************************************************************)
(* The end of an ask.                                                      *)
(***************************************************************************)
Return(newLast, error, failure) ==
    /\ frames' = Front(frames)
    /\ IF Frame.subshell
         THEN /\ counter' = Frame.saved.counter
              /\ transport_error' = Frame.saved.transport_error
              /\ last' = Frame.saved.last
              /\ failed' = Frame.saved.failed
              /\ shellEntry' = Frame.saved.shellEntry
         ELSE /\ transport_error' = error
              /\ last' = newLast
              /\ failed' = failure
              /\ UNCHANGED <<counter, shellEntry>>

\* Mutated form of NoAnswer: the commands of an earlier answer stay.
OldCommands == [answer |-> Empty, commands |-> last.commands]

NoAnswer == [answer |-> Empty, commands |-> Empty]

\* The ask goes on with a request of another kind, from the first place.
Request(where) ==
    Becomes([Frame EXCEPT !.at = where, !.place = 1, !.attempt = 1, !.listed = (where = "post")])

-----------------------------------------------------------------------------
(***************************************************************************)
(* One attempt that brings no response; the request may have reached the   *)
(* server all the same.  A connection that broke is tried once more.       *)
(***************************************************************************)
Delivered(reached) ==
    LET delivered == At("post") /\ reached
    IN  /\ posts' = IF delivered THEN Min({posts + 1, MaxAttempts * MaxPlaces + 1}) ELSE posts
        /\ reposted' = IF delivered /\ Frame.question \in replied
                         THEN reposted \cup {Frame.question}
                         ELSE reposted

\* Mutated form: the attempts are not counted.
MayRetryForever(attempt, broken) == broken

\* The loop of openai_request_with_status, openai_should_retry.
MayRetry(attempt, broken) == broken /\ attempt < MaxAttempts

\* Mutated form: after the last place the first one is tried again.
NextPlaceAround(place, places) == (place % places) + 1

\* The place to try after this one, if there is one.
NextPlace(place, places) == IF place < places THEN place + 1 ELSE NoPlace

NoResponse(broken, reached) ==
    /\ Requesting
    /\ Delivered(reached)
    /\ LET next == NextPlace(Frame.place, Frame.places) IN
       IF MayRetry(Frame.attempt, broken)
         THEN /\ Becomes([Frame EXCEPT !.attempt = Min({@ + 1, MaxAttempts})])
              /\ UNCHANGED <<counter, transport_error, last, failed, shellEntry>>
       ELSE IF next # NoPlace
         THEN /\ Becomes([Frame EXCEPT !.place = next, !.attempt = 1])
              /\ transport_error' = TRUE
              /\ UNCHANGED <<counter, last, failed, shellEntry>>
       ELSE Return(IF At("list") THEN last ELSE NoAnswer, TRUE, TRUE)
    /\ UNCHANGED <<configVars, asked, replied, consent, ran, entry>>

(***************************************************************************)
(* An attempt that brings an HTTP response, which ends the request.        *)
(***************************************************************************)
\* Mutated form: the error of the first place stays when another one answers.
KeptError(place, error) == error

\* After a fallback to another address or port the error is cleared.
Cleared(place, error) == error /\ place = 1
Error == Cleared(Frame.place, transport_error)

Response(where, reply) ==
    /\ At(where)
    /\ Delivered(TRUE)
    /\ replied' = IF where = "post" THEN replied \cup {Frame.question} ELSE replied
    /\ reply
    /\ UNCHANGED <<configVars, asked, consent, ran, entry>>

GoOn == UNCHANGED <<counter, last, failed, shellEntry>>

\* GET /models lists the model: the question is posted next.
ModelListed ==
    Frame.model /\ Request("post") /\ transport_error' = FALSE /\ GoOn

\* It does not, or there is no model, or the status is not 200, or there is no
\* list in the response.
ModelRefused == Return(NoAnswer, Error, FALSE)

\* Mutated form: after a status other than 200 the next place is tried.
PostRefusedElsewhere ==
    \/ Frame.place = Frame.places /\ Return(NoAnswer, Error, FALSE)
    \/ /\ Frame.place < Frame.places
       /\ Becomes([Frame EXCEPT !.place = @ + 1, !.attempt = 1])
       /\ UNCHANGED <<transport_error, counter, last, failed, shellEntry>>

\* A status other than 200; if it seems to be about the model and /models was
\* not asked for, it is now, for the sake of the message.
PostRefused ==
    \/ Return(NoAnswer, Error, FALSE)
    \/ /\ ~Frame.listed
       /\ Becomes([Frame EXCEPT !.at = "list", !.place = 1, !.attempt = 1])
       /\ last' = NoAnswer
       /\ transport_error' = FALSE
       /\ UNCHANGED <<counter, failed, shellEntry>>

\* Status 200, but no text in the response.
PostUnreadable == ~Frame.json /\ Return(NoAnswer, Error, FALSE)

PostAnswered(n) ==
    LET answer == [answer |-> Frame.question,
                   commands |-> IF Frame.json \/ n = 0 THEN Empty ELSE Frame.question]
    IN  IF Frame.run /\ n > 0
          THEN /\ Becomes([Frame EXCEPT !.at = "run", !.left = n])
               /\ last' = answer
               /\ transport_error' = Error
               /\ UNCHANGED <<counter, failed, shellEntry>>
          ELSE Return(answer, Error, FALSE)

ListEnded == Return(last, Error, FALSE)

-----------------------------------------------------------------------------
(***************************************************************************)
(* baish_execute_or_display_commands.                                      *)
(***************************************************************************)
RunCommand ==
    /\ At("run") /\ Frame.left > 0
    /\ Becomes([Frame EXCEPT !.left = @ - 1])
    /\ ran' = ran \cup {Frame.question}
    /\ UNCHANGED <<configVars, counter, transport_error, last,
                   asked, posts, reposted, replied, consent, failed, entry, shellEntry>>

CommandsDone ==
    /\ At("run") /\ Frame.left = 0
    /\ Return(last, transport_error, failed)
    /\ UNCHANGED <<configVars, asked, posts, reposted, replied, consent, ran, entry>>

-----------------------------------------------------------------------------
Init ==
    /\ base_urls \in UrlLists
    /\ port_override \in Overrides
    /\ frames = <<>>
    /\ counter = 0
    /\ transport_error = FALSE
    /\ last = [answer |-> Empty, commands |-> Empty]
    /\ asked = 0
    /\ posts = 0
    /\ reposted = {}
    /\ replied = {}
    /\ consent = {}
    /\ ran = {}
    /\ failed = FALSE
    /\ entry = NoEntry
    /\ shellEntry = NoEntry

\* CURLOPT_TIMEOUT ends every attempt.
Attempt ==
    \/ \E broken, reached \in BOOLEAN : NoResponse(broken, reached)
    \/ Response("check", ModelListed)
    \/ Response("check", ModelRefused)
    \/ Response("post", PostRefused)
    \/ Response("post", PostUnreadable)
    \/ \E n \in 0 .. MaxCommands : Response("post", PostAnswered(n))
    \/ Response("list", ListEnded)

Next ==
    \/ AskUnconfigured
    \/ \E subshell \in BOOLEAN : AskInvalid(subshell)
    \/ \E c, j, autoexec, check, model, subshell \in BOOLEAN :
          Ask(c, j, autoexec, check, model, subshell)
    \/ Attempt
    \/ RunCommand
    \/ CommandsDone

Spec == Init /\ [][Next]_vars
FairSpec == Spec /\ WF_vars(Attempt)
=============================================================================
