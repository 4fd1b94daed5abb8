------------------------------- MODULE MCAsk -------------------------------
(***************************************************************************)
(* Ask with no server, and with three entries: one that has all four       *)
(* fallbacks, one that is no URL, and one that has a single place.         *)
(***************************************************************************)
EXTENDS AskProperties

Local == [valid |-> TRUE, scheme |-> "http", host |-> Loopback, port |-> NoPort]
Broken == [valid |-> FALSE, scheme |-> "http", host |-> "", port |-> NoPort]
Remote == [valid |-> TRUE, scheme |-> "https", host |-> "llm-host", port |-> NoPort]

MCUrlLists == {<<>>, <<Local, Broken, Remote>>}
MCOverrides == {NoPort, "9000"}
=============================================================================
