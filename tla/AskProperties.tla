---------------------------- MODULE AskProperties ----------------------------
(***************************************************************************)
(* What must hold of the ask builtin (module Ask).                         *)
(***************************************************************************)
EXTENDS Ask

Questions == 1 .. MaxAsks

TypeOK ==
    /\ base_urls \in UrlLists /\ port_override \in Overrides
    /\ Len(frames) <= MaxDepth
    /\ \A f \in Range(frames) :
         /\ f.question \in 1 .. asked
         /\ f.at \in {"check", "post", "list", "run"}
         /\ f.place \in 1 .. f.places /\ f.places <= MaxPlaces
         /\ f.attempt \in 1 .. MaxAttempts
         /\ f.left \in 0 .. MaxCommands
    /\ counter \in 0 .. MaxCounter
    /\ {transport_error, failed} \subseteq BOOLEAN
    /\ last \in [answer : Questions \cup {Empty}, commands : Questions \cup {Empty}]
    /\ asked \in 0 .. MaxAsks /\ posts \in 0 .. MaxAttempts * MaxPlaces + 1
    /\ replied \cup consent \cup ran \cup reposted \subseteq 1 .. asked

\* With all its retries and fallbacks a question reaches servers at most eight
\* times: two attempts at each address and port.
PostsBounded == posts <= MaxAttempts * MaxPlaces

\* Once the shell has a response of any status to a question, the question is
\* not posted again, whatever the response is worth.
AnsweredOnce == reposted = {}

\* Commands are executed only for a question asked with -c or BAISH_AUTOEXEC
\* and without -j, also when a command of an answer asks again.
OnlyWanted == ran \subseteq consent \cap replied

\* BAISH_LAST_ANSWER and BAISH_LAST_COMMANDS belong to the same answer, however
\* the asks since, and asks inside of asks, have ended.
LastIsOneAnswer ==
    /\ last.answer \in replied \cup {Empty}
    /\ last.commands \in {last.answer, Empty}

\* The message kept in baish_transport_error is about the last request: there is
\* one exactly if that request got no response, so that "request failed: ..." and
\* "could not list models (...)" never report an earlier attempt's error.
ErrorIsCurrent == ~Requesting => (transport_error <=> failed)

\* The asks of a shell take the entries of the list in turn, failed asks
\* included, except where the counter starts over.
TakesTurns ==
    [][asked' # asked /\ base_urls # <<>> /\ shellEntry # NoEntry /\ counter # 0 =>
         entry' = (shellEntry + 1) % Len(base_urls)]_vars

\* Every request ends, since each attempt does: no sequence of failures keeps an
\* ask retrying.
RequestsEnd == Requesting ~> ~Requesting
=============================================================================
