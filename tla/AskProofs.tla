------------------------------ MODULE AskProofs ------------------------------
(***************************************************************************)
(* Proofs about the ask builtin (modules Ask and AskProperties), for every *)
(* list of servers and every bound.                                        *)
(***************************************************************************)
EXTENDS AskProperties, DataTheorems

-----------------------------------------------------------------------------
(***************************************************************************)
(* The types, of the asks under way and of what a subshell will put back.  *)
(***************************************************************************)
LastType == [answer : Questions \cup {Empty}, commands : Questions \cup {Empty}]

SavedType == [counter : 0 .. MaxCounter, transport_error : BOOLEAN, last : LastType,
              failed : BOOLEAN, shellEntry : Nat \cup {NoEntry}]

FrameType == [question : Questions, at : {"check", "post", "list", "run"},
              places : 1 .. MaxPlaces, place : 1 .. MaxPlaces, attempt : 1 .. MaxAttempts,
              json : BOOLEAN, run : BOOLEAN, model : BOOLEAN, listed : BOOLEAN,
              left : 0 .. MaxCommands, subshell : BOOLEAN, saved : SavedType]

Within(fs, n) ==
    /\ Len(fs) <= MaxDepth
    /\ \A d \in 1 .. Len(fs) : fs[d].question <= n /\ fs[d].place <= fs[d].places

Typed ==
    /\ base_urls \in UrlLists /\ port_override \in Overrides
    /\ frames \in Seq(FrameType) /\ Within(frames, asked)
    /\ counter \in 0 .. MaxCounter
    /\ transport_error \in BOOLEAN /\ failed \in BOOLEAN
    /\ last \in LastType
    /\ asked \in 0 .. MaxAsks /\ posts \in 0 .. MaxAttempts * MaxPlaces + 1
    /\ replied \in SUBSET (1 .. asked) /\ consent \in SUBSET (1 .. asked)
    /\ ran \in SUBSET (1 .. asked) /\ reposted \in SUBSET (1 .. asked)
    /\ shellEntry \in Nat \cup {NoEntry}

(***************************************************************************)
(* Only the innermost ask is at a request; the others execute commands.    *)
(***************************************************************************)
Nested == \A d \in 1 .. Len(frames) - 1 : frames[d].at = "run"

(***************************************************************************)
(* The history of each ask: a question is not answered before it is        *)
(* posted, and commands are executed only of an answer and with consent.   *)
(***************************************************************************)
LastOK(l, answered) == l.answer \in answered \cup {Empty} /\ l.commands \in {l.answer, Empty}

FrameOK(f, answered, wanted) ==
    /\ f.at \in {"check", "post"} => f.question \notin answered
    /\ f.at = "run" => f.question \in wanted \cap answered
    /\ f.run => f.question \in wanted
    /\ LastOK(f.saved.last, answered)

Answers ==
    /\ \A d \in 1 .. Len(frames) : FrameOK(frames[d], replied, consent)
    /\ ran \subseteq consent \cap replied
    /\ LastOK(last, replied)
    /\ reposted = {}

(***************************************************************************)
(* While a request is under way, the shell has no message of it before the *)
(* second place is tried; what a subshell puts back is of one request.     *)
(***************************************************************************)
Errors ==
    /\ Requesting => ~failed /\ (Frame.place = 1 => ~transport_error)
    /\ ~Requesting => (transport_error <=> failed)
    /\ \A d \in 1 .. Len(frames) :
         frames[d].saved.transport_error <=> frames[d].saved.failed

(***************************************************************************)
(* The posts of a question are those of the places before this one and of  *)
(* the attempts before this one.                                           *)
(***************************************************************************)
Counting ==
    /\ At("check") => posts = 0
    /\ At("post") => posts <= MaxAttempts * (Frame.place - 1) + Frame.attempt - 1
    /\ posts <= MaxAttempts * MaxPlaces

(***************************************************************************)
(* The counter is one ahead of the entry that the shell used last.         *)
(***************************************************************************)
Ahead(c, e) == e # NoEntry /\ c # 0 => e = (c - 1) % Len(base_urls)

Turns ==
    base_urls # <<>> =>
        /\ Ahead(counter, shellEntry)
        /\ \A d \in 1 .. Len(frames) : Ahead(frames[d].saved.counter, frames[d].saved.shellEntry)

-----------------------------------------------------------------------------
(***************************************************************************)
(* The asks under way after one of them begins, goes on or ends.           *)
(***************************************************************************)
LEMMA TopOf ==
  ASSUME frames \in Seq(FrameType), frames # <<>>
  PROVE  /\ Len(frames) \in Nat \ {0}
         /\ Frame = frames[Len(frames)]
         /\ Frame \in FrameType
  BY DEF Frame, Last

LEMMA BecomesStack ==
  ASSUME frames \in Seq(FrameType), frames # <<>>, NEW f \in FrameType, Becomes(f)
  PROVE  /\ frames' \in Seq(FrameType)
         /\ frames' # <<>>
         /\ Len(frames') = Len(frames)
         /\ Frame' = f
         /\ \A d \in 1 .. Len(frames) : frames'[d] = IF d = Len(frames) THEN f ELSE frames[d]
  <1>1. /\ Front(frames) \in Seq(FrameType)
        /\ Len(Front(frames)) = Len(frames) - 1
        /\ \A d \in 1 .. Len(frames) - 1 : Front(frames)[d] = frames[d]
    BY FrontOfStack
  <1>2. frames' = Append(Front(frames), f)
    BY DEF Becomes
  <1> QED BY <1>1, <1>2 DEF Frame, Last

\* All but the number of commands left is the same after a command.
SameButLeft(f, g) ==
    /\ f.question = g.question /\ f.at = g.at
    /\ f.place = g.place /\ f.places = g.places /\ f.attempt = g.attempt
    /\ f.run = g.run /\ f.json = g.json /\ f.subshell = g.subshell /\ f.saved = g.saved

LEMMA LeftOnly ==
  ASSUME NEW f \in FrameType, NEW n \in 0 .. MaxCommands
  PROVE  [f EXCEPT !.left = n] \in FrameType /\ SameButLeft([f EXCEPT !.left = n], f)
  BY DEF FrameType, SameButLeft

LEMMA CallersStack ==
  ASSUME frames \in Seq(FrameType), CanAsk
  PROVE  /\ Callers \in Seq(FrameType)
         /\ Len(Callers) = Len(frames)
         /\ \A d \in 1 .. Len(frames) : SameButLeft(Callers[d], frames[d])
  <1>1. CASE frames = <<>>
    BY <1>1 DEF Callers
  <1>2. CASE frames # <<>>
    <2> DEFINE f == [Frame EXCEPT !.left = @ - 1]
    <2>1. /\ Frame = frames[Len(frames)] /\ Frame \in FrameType /\ Len(frames) \in Nat \ {0}
      BY <1>2, TopOf
    <2>2. f \in FrameType /\ SameButLeft(f, Frame)
      <3>1. Frame.left - 1 \in 0 .. MaxCommands
        BY <1>2, <2>1, BoundsAssumption DEF CanAsk, FrameType
      <3> QED BY <2>1, <3>1, LeftOnly
    <2>3. /\ Front(frames) \in Seq(FrameType)
          /\ Len(Front(frames)) = Len(frames) - 1
          /\ \A d \in 1 .. Len(frames) - 1 : Front(frames)[d] = frames[d]
      BY <1>2, FrontOfStack
    <2>4. Callers = Append(Front(frames), f)
      BY <1>2 DEF Callers
    <2>5. \A d \in 1 .. Len(frames) : Callers[d] = IF d = Len(frames) THEN f ELSE frames[d]
      <3> HIDE DEF f
      <3> QED BY <2>1, <2>2, <2>3, <2>4
    <2> HIDE DEF f
    <2> QED BY <2>1, <2>2, <2>3, <2>4, <2>5 DEF SameButLeft
  <1> QED BY <1>1, <1>2

LEMMA StackTyped ==
  ASSUME Typed
  PROVE  /\ Len(frames) \in Nat
         /\ \A d \in 1 .. Len(frames) :
              /\ frames[d] \in FrameType
              /\ frames[d].question \in Nat \ {0}
              /\ frames[d].place \in Nat /\ frames[d].places \in Nat
  <1>1. Len(frames) \in Nat
    BY DEF Typed
  <1>2. \A d \in 1 .. Len(frames) : frames[d] \in FrameType
    BY DEF Typed
  <1>3. \A f \in FrameType : f.question \in Nat \ {0} /\ f.place \in Nat /\ f.places \in Nat
    BY DEF FrameType, Questions
  <1> QED BY <1>1, <1>2, <1>3

LEMMA TopTyped ==
  ASSUME Typed, frames # <<>>
  PROVE  /\ Frame \in FrameType
         /\ Frame.question \in 1 .. asked
         /\ Frame.place \in 1 .. MaxPlaces /\ Frame.places \in 1 .. MaxPlaces
         /\ Frame.place <= Frame.places
  <1>1. Len(frames) \in Nat \ {0} /\ Frame = frames[Len(frames)] /\ Frame \in FrameType
    BY TopOf DEF Typed
  <1>2. Frame.question <= asked /\ Frame.place <= Frame.places
    BY <1>1 DEF Typed, Within
  <1>3. Frame.question \in Nat \ {0}
    BY <1>1 DEF FrameType, Questions
  <1> QED BY <1>1, <1>2, <1>3 DEF Typed, FrameType

LEMMA ReturnTyped ==
  ASSUME Typed, frames # <<>>, asked' = asked,
         NEW newLast \in LastType, NEW error \in BOOLEAN, NEW failure \in BOOLEAN,
         Return(newLast, error, failure)
  PROVE  /\ frames' \in Seq(FrameType) /\ Within(frames', asked')
         /\ Len(frames') = Len(frames) - 1
         /\ \A d \in 1 .. Len(frames) - 1 : frames'[d] = frames[d]
         /\ counter' \in 0 .. MaxCounter /\ transport_error' \in BOOLEAN /\ failed' \in BOOLEAN
         /\ last' \in LastType /\ shellEntry' \in Nat \cup {NoEntry}
  <1>1. /\ frames' \in Seq(FrameType)
        /\ Len(frames') = Len(frames) - 1
        /\ \A d \in 1 .. Len(frames) - 1 : frames'[d] = frames[d]
    BY FrontOfStack DEF Return, Typed
  <1>2. Within(frames', asked')
    BY <1>1, BoundsAssumption DEF Typed, Within
  <1>3. Frame \in FrameType
    BY TopOf DEF Typed
  <1>4. /\ counter' \in 0 .. MaxCounter /\ transport_error' \in BOOLEAN /\ failed' \in BOOLEAN
        /\ last' \in LastType /\ shellEntry' \in Nat \cup {NoEntry}
    BY <1>3 DEF Return, Typed, FrameType, SavedType
  <1> QED BY <1>1, <1>2, <1>4

LEMMA BecomesTyped ==
  ASSUME Typed, frames # <<>>, asked' = asked,
         NEW f \in FrameType, f.question = Frame.question, f.place <= f.places, Becomes(f)
  PROVE  frames' \in Seq(FrameType) /\ Within(frames', asked')
  <1>1. /\ frames' \in Seq(FrameType)
        /\ Len(frames') = Len(frames)
        /\ \A d \in 1 .. Len(frames) : frames'[d] = IF d = Len(frames) THEN f ELSE frames[d]
    BY BecomesStack DEF Typed
  <1>2. Frame = frames[Len(frames)] /\ Len(frames) \in Nat \ {0}
    BY TopOf DEF Typed
  <1> QED BY <1>1, <1>2 DEF Typed, Within

LEMMA DeliveredTyped ==
  ASSUME Typed, Requesting, NEW reached \in BOOLEAN, Delivered(reached)
  PROVE  /\ posts' \in 0 .. MaxAttempts * MaxPlaces + 1
         /\ reposted' \in SUBSET (1 .. asked)
  <1>1. Frame.question \in 1 .. asked
    BY TopTyped DEF Requesting
  <1>2. posts \in Int /\ Min({posts + 1, MaxAttempts * MaxPlaces + 1}) =
          IF posts + 1 <= MaxAttempts * MaxPlaces + 1 THEN posts + 1 ELSE MaxAttempts * MaxPlaces + 1
    BY SmallerOf DEF Typed, MaxAttempts, MaxPlaces
  <1>3. posts' \in 0 .. MaxAttempts * MaxPlaces + 1
    BY <1>2 DEF Delivered, Typed, MaxAttempts, MaxPlaces
  <1>4. reposted' \in SUBSET (1 .. asked)
    BY <1>1 DEF Delivered, Typed
  <1> QED BY <1>3, <1>4

-----------------------------------------------------------------------------
(***************************************************************************)
(* A new ask: its server, its places, and where it begins.                 *)
(***************************************************************************)
LEMMA ChosenServer ==
  ASSUME Typed, base_urls # <<>>
  PROVE  /\ Len(base_urls) \in Nat \ {0}
         /\ Index \in 0 .. Len(base_urls) - 1
         /\ Index \in Nat
         /\ Chosen \in Url
  <1>1. base_urls \in Seq(Url) /\ counter \in Nat
    BY UrlAssumption, CounterAssumption DEF Typed
  <1>2. Len(base_urls) \in Nat \ {0}
    BY <1>1
  <1>3. Index \in 0 .. Len(base_urls) - 1
    BY <1>1, <1>2 DEF Index
  <1> QED BY <1>1, <1>2, <1>3 DEF Chosen

LEMMA PlacesBounded == \A url \in Url : PlaceCount(url) \in 1 .. MaxPlaces
  <1> TAKE url \in Url
  <1>1. Len(Ports(url)) \in {1, 2}
    BY DEF Ports
  <1>2. Len(Addresses(url)) \in {1, 2}
    BY DEF Addresses
  <1>3. \A a, b \in {1, 2} : a * b \in 1 .. 4
    OBVIOUS
  <1> QED BY <1>1, <1>2, <1>3 DEF PlaceCount, MaxPlaces

NewFrame(c, j, autoexec, check, model, subshell) ==
    [question |-> asked + 1,
     at       |-> IF check \/ ~model THEN "check" ELSE "post",
     places   |-> PlaceCount(Chosen), place |-> 1, attempt |-> 1,
     json |-> j, run |-> WantsRun(c, j, autoexec), model |-> model,
     listed |-> FALSE, left |-> 0, subshell |-> subshell,
     saved |-> [counter |-> counter, transport_error |-> transport_error, last |-> last,
                failed |-> failed, shellEntry |-> shellEntry]]

LEMMA NewFrameTyped ==
  ASSUME Typed, CanAsk, base_urls # <<>>,
         NEW c \in BOOLEAN, NEW j \in BOOLEAN, NEW autoexec \in BOOLEAN,
         NEW check \in BOOLEAN, NEW model \in BOOLEAN, NEW subshell \in BOOLEAN
  PROVE  NewFrame(c, j, autoexec, check, model, subshell) \in FrameType
  <1>1. asked + 1 \in Questions
    BY BoundsAssumption DEF Typed, CanAsk, Questions
  <1>2. PlaceCount(Chosen) \in 1 .. MaxPlaces /\ 1 \in 1 .. MaxPlaces /\ 1 \in 1 .. MaxAttempts
    BY ChosenServer, PlacesBounded DEF MaxPlaces, MaxAttempts
  <1>3. 0 \in 0 .. MaxCommands
    BY BoundsAssumption
  <1>4. [counter |-> counter, transport_error |-> transport_error, last |-> last,
         failed |-> failed, shellEntry |-> shellEntry] \in SavedType
    BY DEF Typed, SavedType
  <1>5. WantsRun(c, j, autoexec) \in BOOLEAN
    BY DEF WantsRun
  <1> QED BY <1>1, <1>2, <1>3, <1>4, <1>5 DEF NewFrame, FrameType

LEMMA AskStack ==
  ASSUME Typed, NEW c \in BOOLEAN, NEW j \in BOOLEAN, NEW autoexec \in BOOLEAN,
         NEW check \in BOOLEAN, NEW model \in BOOLEAN, NEW subshell \in BOOLEAN,
         Ask(c, j, autoexec, check, model, subshell)
  PROVE  /\ frames' \in Seq(FrameType)
         /\ frames' # <<>>
         /\ Len(frames') = Len(frames) + 1
         /\ Frame' = NewFrame(c, j, autoexec, check, model, subshell)
         /\ frames'[Len(frames) + 1] = Frame'
         /\ \A d \in 1 .. Len(frames) : SameButLeft(frames'[d], frames[d])
  <1> DEFINE f == NewFrame(c, j, autoexec, check, model, subshell)
  <1>1. CanAsk /\ base_urls # <<>> /\ frames' = Append(Callers, f)
    BY DEF Ask, NewFrame
  <1>2. f \in FrameType
    BY <1>1, NewFrameTyped
  <1>3. /\ Callers \in Seq(FrameType)
        /\ Len(Callers) = Len(frames)
        /\ \A d \in 1 .. Len(frames) : SameButLeft(Callers[d], frames[d])
    BY <1>1, CallersStack DEF Typed
  <1> HIDE DEF f
  <1>4. Len(frames) \in Nat
    BY DEF Typed
  <1>5. /\ frames' \in Seq(FrameType)
        /\ Len(frames') = Len(frames) + 1
        /\ frames'[Len(frames) + 1] = f
        /\ \A d \in 1 .. Len(frames) : frames'[d] = Callers[d]
    BY <1>1, <1>2, <1>3
  <1>6. Frame' = f
    BY <1>5 DEF Frame, Last
  <1> QED BY <1>3, <1>4, <1>5, <1>6 DEF f

-----------------------------------------------------------------------------
(***************************************************************************)
(* Every step keeps the types.                                             *)
(***************************************************************************)
LEMMA TypedInit == Init => Typed
  <1> SUFFICES ASSUME Init PROVE Typed
    OBVIOUS
  <1>1. frames \in Seq(FrameType) /\ Within(frames, asked)
    BY BoundsAssumption DEF Init, Within
  <1>2. last \in LastType
    BY DEF Init, LastType
  <1>3. posts \in 0 .. MaxAttempts * MaxPlaces + 1
    BY DEF Init, MaxAttempts, MaxPlaces
  <1>4. counter \in 0 .. MaxCounter /\ asked \in 0 .. MaxAsks
    BY CounterAssumption, BoundsAssumption DEF Init
  <1> QED BY <1>1, <1>2, <1>3, <1>4 DEF Init, Typed

LEMMA NextIndexTyped == counter \in 0 .. MaxCounter => NextIndex(counter) \in 0 .. MaxCounter
  BY CounterAssumption DEF NextIndex

LEMMA CallersRanTyped == Typed => CallersRan \subseteq 1 .. asked
  BY TopTyped DEF CallersRan

LEMMA TypedAskUnconfigured == Typed /\ AskUnconfigured => Typed'
  <1> SUFFICES ASSUME Typed, AskUnconfigured PROVE Typed'
    OBVIOUS
  <1>1. asked' \in 0 .. MaxAsks /\ asked <= asked'
    BY BoundsAssumption DEF Typed, AskUnconfigured, CanAsk
  <1>2. frames' \in Seq(FrameType) /\ Within(frames', asked')
    BY <1>1, StackTyped DEF Typed, AskUnconfigured, Within
  <1>3. last' \in LastType
    BY DEF AskUnconfigured, LastType
  <1> QED BY <1>1, <1>2, <1>3 DEF Typed, AskUnconfigured, configVars

LEMMA TypedAskInvalid ==
  ASSUME Typed, NEW subshell \in BOOLEAN, AskInvalid(subshell)
  PROVE  Typed'
  <1>1. asked' \in 0 .. MaxAsks /\ asked \in Nat /\ asked' = asked + 1
    BY BoundsAssumption DEF Typed, AskInvalid, CanAsk
  <1>2. frames' \in Seq(FrameType) /\ Within(frames', asked')
    <2>1. /\ frames' \in Seq(FrameType)
          /\ Len(frames') = Len(frames)
          /\ \A d \in 1 .. Len(frames) : SameButLeft(frames'[d], frames[d])
      BY CallersStack DEF Typed, AskInvalid
    <2> QED BY <1>1, <2>1, StackTyped DEF Typed, Within, SameButLeft
  <1>3. counter' \in 0 .. MaxCounter
    BY NextIndexTyped DEF AskInvalid, Typed
  <1>4. shellEntry' \in Nat \cup {NoEntry}
    BY ChosenServer DEF AskInvalid, Typed
  <1>5. /\ ran' \in SUBSET (1 .. asked')
        /\ \A set \in SUBSET (1 .. asked) : set \in SUBSET (1 .. asked')
    <2>1. 1 .. asked \subseteq 1 .. asked'
      BY <1>1
    <2> QED BY <2>1, CallersRanTyped DEF AskInvalid, Typed
  <1> QED BY <1>1, <1>2, <1>3, <1>4, <1>5 DEF Typed, AskInvalid, configVars

LEMMA TypedAsk ==
  ASSUME Typed, NEW c \in BOOLEAN, NEW j \in BOOLEAN, NEW autoexec \in BOOLEAN,
         NEW check \in BOOLEAN, NEW model \in BOOLEAN, NEW subshell \in BOOLEAN,
         Ask(c, j, autoexec, check, model, subshell)
  PROVE  Typed'
  <1> DEFINE f == NewFrame(c, j, autoexec, check, model, subshell)
  <1>1. asked' \in 0 .. MaxAsks /\ asked \in Nat /\ asked' = asked + 1
    BY BoundsAssumption DEF Typed, Ask, CanAsk
  <1>2. /\ frames' \in Seq(FrameType)
        /\ Len(frames') = Len(frames) + 1
        /\ frames'[Len(frames) + 1] = f
        /\ \A d \in 1 .. Len(frames) : SameButLeft(frames'[d], frames[d])
    BY AskStack, SMTT(40)
  <1>3. Len(frames) \in Nat /\ Len(frames) + 1 <= MaxDepth
    BY BoundsAssumption DEF Typed, Ask, CanAsk
  <1>4. f.question = asked + 1 /\ f.place = 1 /\ f.places \in Nat \ {0}
    BY ChosenServer, PlacesBounded DEF NewFrame, Ask, MaxPlaces
  <1>6. Within(frames', asked')
    <2> HIDE DEF f
    <2>1. Len(frames') <= MaxDepth
      BY <1>2, <1>3
    <2>2. ASSUME NEW d \in 1 .. Len(frames')
          PROVE  frames'[d].question <= asked' /\ frames'[d].place <= frames'[d].places
      <3>1. CASE d = Len(frames) + 1
        BY <3>1, <1>1, <1>2, <1>4
      <3>2. CASE d \in 1 .. Len(frames)
        <4>1. /\ frames'[d].question = frames[d].question
              /\ frames'[d].place = frames[d].place /\ frames'[d].places = frames[d].places
          BY <3>2, <1>2 DEF SameButLeft
        <4>2. frames[d].question <= asked /\ frames[d].place <= frames[d].places
          BY <3>2 DEF Typed, Within
        <4>3. frames[d].question \in Nat
          BY <3>2, StackTyped
        <4> QED BY <1>1, <4>1, <4>2, <4>3
      <3> QED BY <3>1, <3>2, <1>2, <1>3
    <2> QED BY <2>1, <2>2 DEF Within
  <1>7. counter' \in 0 .. MaxCounter
    BY NextIndexTyped DEF Ask, Typed
  <1>8. shellEntry' \in Nat \cup {NoEntry}
    BY ChosenServer DEF Ask, Typed
  <1>9. /\ ran' \in SUBSET (1 .. asked') /\ consent' \in SUBSET (1 .. asked')
        /\ \A set \in SUBSET (1 .. asked) : set \in SUBSET (1 .. asked')
    <2>1. 1 .. asked \subseteq 1 .. asked' /\ asked + 1 \in 1 .. asked'
      BY <1>1
    <2>2. ran' = ran \cup CallersRan /\ consent' \subseteq consent \cup {asked + 1}
      BY DEF Ask
    <2>3. CallersRan \subseteq 1 .. asked /\ ran \subseteq 1 .. asked /\ consent \subseteq 1 .. asked
      BY CallersRanTyped DEF Typed
    <2> QED BY <2>1, <2>2, <2>3
  <1>10. /\ transport_error' = FALSE /\ failed' = FALSE /\ posts' = 0 /\ last' = last
         /\ reposted' = reposted /\ replied' = replied
         /\ base_urls' = base_urls /\ port_override' = port_override
    BY DEF Ask, configVars
  <1>11. /\ base_urls' \in UrlLists /\ port_override' \in Overrides
         /\ transport_error' \in BOOLEAN /\ failed' \in BOOLEAN /\ last' \in LastType
    BY <1>10 DEF Typed
  <1>12. posts' \in 0 .. MaxAttempts * MaxPlaces + 1
    BY <1>10 DEF MaxAttempts, MaxPlaces
  <1>13. replied' \in SUBSET (1 .. asked') /\ reposted' \in SUBSET (1 .. asked')
    BY <1>9, <1>10 DEF Typed
  <1> QED
    BY <1>1, <1>2, <1>6, <1>7, <1>8, <1>9, <1>11, <1>12, <1>13 DEF Typed

\* What an attempt leaves alone, or changes in the same way whatever comes of it.
LEMMA TypedAttempt ==
  ASSUME Typed, Requesting,
         frames' \in Seq(FrameType), Within(frames', asked'),
         counter' \in 0 .. MaxCounter, transport_error' \in BOOLEAN, failed' \in BOOLEAN,
         last' \in LastType, shellEntry' \in Nat \cup {NoEntry},
         NEW reached \in BOOLEAN, Delivered(reached),
         replied' \subseteq replied \cup {Frame.question},
         UNCHANGED <<configVars, asked, consent, ran>>
  PROVE  Typed'
  <1>1. posts' \in 0 .. MaxAttempts * MaxPlaces + 1 /\ reposted' \in SUBSET (1 .. asked)
    BY DeliveredTyped
  <1>2. replied' \in SUBSET (1 .. asked)
    BY TopTyped DEF Requesting, Typed
  <1> QED BY <1>1, <1>2 DEF Typed, configVars

LEMMA TypedNoResponse ==
  ASSUME Typed, NEW broken \in BOOLEAN, NEW reached \in BOOLEAN, NoResponse(broken, reached)
  PROVE  Typed'
  <1> DEFINE next == NextPlace(Frame.place, Frame.places)
  <1>1. /\ Requesting /\ frames # <<>> /\ Delivered(reached)
        /\ UNCHANGED <<configVars, asked, replied, consent, ran>>
    BY DEF NoResponse, Requesting
  <1>2. Frame \in FrameType /\ Frame.place <= Frame.places
    BY <1>1, TopTyped
  <1>3. CASE MayRetry(Frame.attempt, broken)
    <2> DEFINE f == [Frame EXCEPT !.attempt = Min({@ + 1, MaxAttempts})]
    <2>1. /\ Becomes(f)
          /\ UNCHANGED <<counter, transport_error, last, failed, shellEntry>>
      BY <1>3 DEF NoResponse
    <2>2. Min({Frame.attempt + 1, MaxAttempts}) \in 1 .. MaxAttempts
      BY <1>2, SmallerOf DEF FrameType, MaxAttempts
    <2>3. f \in FrameType /\ f.question = Frame.question /\ f.place <= f.places
      BY <1>2, <2>2 DEF FrameType
    <2> HIDE DEF f
    <2>4. frames' \in Seq(FrameType) /\ Within(frames', asked')
      BY <1>1, <2>1, <2>3, BecomesTyped
    <2> QED BY <1>1, <2>1, <2>4, TypedAttempt DEF Typed
  <1>4. CASE ~MayRetry(Frame.attempt, broken) /\ next # NoPlace
    <2> DEFINE f == [Frame EXCEPT !.place = next, !.attempt = 1]
    <2>1. /\ Becomes(f)
          /\ transport_error' = TRUE
          /\ UNCHANGED <<counter, last, failed, shellEntry>>
      BY <1>4 DEF NoResponse
    <2>2. next \in 1 .. MaxPlaces /\ next <= Frame.places /\ 1 \in 1 .. MaxAttempts
      BY <1>2, <1>4 DEF NextPlace, FrameType, MaxPlaces, MaxAttempts
    <2> HIDE DEF next
    <2>3. f \in FrameType /\ f.question = Frame.question /\ f.place <= f.places
      BY <1>2, <2>2 DEF FrameType
    <2> HIDE DEF f
    <2>4. frames' \in Seq(FrameType) /\ Within(frames', asked')
      BY <1>1, <2>1, <2>3, BecomesTyped
    <2> QED BY <1>1, <2>1, <2>4, TypedAttempt DEF Typed
  <1>5. CASE ~MayRetry(Frame.attempt, broken) /\ next = NoPlace
    <2>1. Return(IF At("list") THEN last ELSE NoAnswer, TRUE, TRUE)
      BY <1>5 DEF NoResponse
    <2>2. (IF At("list") THEN last ELSE NoAnswer) \in LastType
      BY DEF Typed, NoAnswer, LastType
    <2>3. /\ frames' \in Seq(FrameType) /\ Within(frames', asked')
          /\ counter' \in 0 .. MaxCounter /\ transport_error' \in BOOLEAN /\ failed' \in BOOLEAN
          /\ last' \in LastType /\ shellEntry' \in Nat \cup {NoEntry}
      BY <1>1, <2>1, <2>2, ReturnTyped
    <2> QED BY <1>1, <2>3, TypedAttempt
  <1> QED BY <1>3, <1>4, <1>5

\* What every response does, whatever comes of it.
Answered(where) ==
    /\ At(where)
    /\ Delivered(TRUE)
    /\ replied' = IF where = "post" THEN replied \cup {Frame.question} ELSE replied
    /\ UNCHANGED <<configVars, asked, consent, ran, entry>>

\* Where a response leaves the ask: its end, or a frame of the same question.
LEMMA TypedResponse ==
  ASSUME Typed, NEW where \in {"check", "post", "list"}, Answered(where),
         frames' \in Seq(FrameType), Within(frames', asked'),
         counter' \in 0 .. MaxCounter, transport_error' \in BOOLEAN, failed' \in BOOLEAN,
         last' \in LastType, shellEntry' \in Nat \cup {NoEntry}
  PROVE  Typed'
  <1>1. Requesting /\ Delivered(TRUE) /\ UNCHANGED <<configVars, asked, consent, ran>>
    BY DEF Answered, At, Requesting
  <1>2. replied' \subseteq replied \cup {Frame.question}
    BY DEF Answered
  <1> QED BY <1>1, <1>2, TypedAttempt

LEMMA ResponseEnds ==
  ASSUME Typed, NEW where \in {"check", "post", "list"}, Answered(where),
         NEW newLast \in LastType, Return(newLast, Error, FALSE)
  PROVE  Typed'
  <1>1. frames # <<>> /\ asked' = asked
    BY DEF Answered, At
  <1>2. Error \in BOOLEAN
    BY DEF Error, Cleared, Typed
  <1>3. /\ frames' \in Seq(FrameType) /\ Within(frames', asked')
        /\ counter' \in 0 .. MaxCounter /\ transport_error' \in BOOLEAN /\ failed' \in BOOLEAN
        /\ last' \in LastType /\ shellEntry' \in Nat \cup {NoEntry}
    BY <1>1, <1>2, ReturnTyped
  <1> QED BY <1>3, TypedResponse

LEMMA ResponseGoesOn ==
  ASSUME Typed, NEW where \in {"check", "post", "list"}, Answered(where),
         NEW f \in FrameType, f.question = Frame.question, f.place <= f.places, Becomes(f),
         transport_error' \in BOOLEAN, last' \in LastType,
         UNCHANGED <<counter, failed, shellEntry>>
  PROVE  Typed'
  <1>1. frames # <<>> /\ asked' = asked
    BY DEF Answered, At
  <1>2. frames' \in Seq(FrameType) /\ Within(frames', asked')
    BY <1>1, BecomesTyped
  <1> QED BY <1>2, TypedResponse DEF Typed

LEMMA TypedModelListed == Typed /\ Response("check", ModelListed) => Typed'
  <1> SUFFICES ASSUME Typed, Response("check", ModelListed) PROVE Typed'
    OBVIOUS
  <1>1. Answered("check") /\ frames # <<>> /\ Request("post") /\ transport_error' = FALSE /\ GoOn
    BY DEF Response, Answered, ModelListed, At
  <1> DEFINE f == [Frame EXCEPT !.at = "post", !.place = 1, !.attempt = 1,
                                !.listed = ("post" = "post")]
  <1>2. Frame \in FrameType /\ Frame.places \in Nat \ {0}
    BY <1>1, TopTyped DEF MaxPlaces
  <1>3. 1 \in 1 .. MaxPlaces /\ 1 \in 1 .. MaxAttempts
    BY DEF MaxPlaces, MaxAttempts
  <1>4. f \in FrameType /\ f.question = Frame.question /\ f.place <= f.places
    <2>1. f \in FrameType
      BY <1>2, <1>3 DEF FrameType
    <2>2. f.question = Frame.question /\ f.place = 1 /\ f.places = Frame.places
      BY <1>2 DEF FrameType
    <2> QED BY <1>2, <2>1, <2>2
  <1>5. Becomes(f)
    BY <1>1 DEF Request
  <1> HIDE DEF f
  <1> QED BY <1>1, <1>4, <1>5, ResponseGoesOn DEF GoOn, Typed

LEMMA TypedPostRefused == Typed /\ Response("post", PostRefused) => Typed'
  <1> SUFFICES ASSUME Typed, Response("post", PostRefused) PROVE Typed'
    OBVIOUS
  <1>1. Answered("post") /\ frames # <<>> /\ PostRefused
    BY DEF Response, Answered, At
  <1>2. NoAnswer \in LastType
    BY DEF NoAnswer, LastType
  <1>3. CASE Return(NoAnswer, Error, FALSE)
    BY <1>1, <1>2, <1>3, ResponseEnds
  <1>4. CASE ~Return(NoAnswer, Error, FALSE)
    <2> DEFINE f == [Frame EXCEPT !.at = "list", !.place = 1, !.attempt = 1]
    <2>1. /\ Becomes(f) /\ last' = NoAnswer /\ transport_error' = FALSE
          /\ UNCHANGED <<counter, failed, shellEntry>>
      BY <1>1, <1>4 DEF PostRefused
    <2>2. Frame \in FrameType /\ Frame.places \in Nat \ {0}
      BY <1>1, TopTyped DEF MaxPlaces
    <2>3. 1 \in 1 .. MaxPlaces /\ 1 \in 1 .. MaxAttempts
      BY DEF MaxPlaces, MaxAttempts
    <2>4. f \in FrameType /\ f.question = Frame.question /\ f.place <= f.places
      <3>1. f \in FrameType
        BY <2>2, <2>3 DEF FrameType
      <3>2. f.question = Frame.question /\ f.place = 1 /\ f.places = Frame.places
        BY <2>2 DEF FrameType
      <3> QED BY <2>2, <3>1, <3>2
    <2> HIDE DEF f
    <2> QED BY <1>1, <1>2, <2>1, <2>4, ResponseGoesOn
  <1> QED BY <1>3, <1>4

AnswerTo(n) ==
    [answer |-> Frame.question,
     commands |-> IF Frame.json \/ n = 0 THEN Empty ELSE Frame.question]

LEMMA TypedPostAnswered ==
  ASSUME Typed, NEW n \in 0 .. MaxCommands, Response("post", PostAnswered(n))
  PROVE  Typed'
  <1>1. Answered("post") /\ frames # <<>> /\ PostAnswered(n)
    BY DEF Response, Answered, At
  <1>2. Frame \in FrameType /\ Frame.place <= Frame.places
    BY <1>1, TopTyped
  <1>3. AnswerTo(n) \in LastType
    BY <1>2 DEF AnswerTo, LastType, FrameType
  <1>4. CASE Frame.run /\ n > 0
    <2> DEFINE f == [Frame EXCEPT !.at = "run", !.left = n]
    <2>1. /\ Becomes(f) /\ last' = AnswerTo(n) /\ transport_error' = Error
          /\ UNCHANGED <<counter, failed, shellEntry>>
      BY <1>1, <1>4 DEF PostAnswered, AnswerTo
    <2>2. f \in FrameType /\ f.question = Frame.question /\ f.place <= f.places
      BY <1>2 DEF FrameType
    <2>3. transport_error' \in BOOLEAN
      BY <2>1 DEF Error, Cleared, Typed
    <2> HIDE DEF f
    <2> QED BY <1>1, <1>3, <2>1, <2>2, <2>3, ResponseGoesOn
  <1>5. CASE ~(Frame.run /\ n > 0)
    <2>1. Return(AnswerTo(n), Error, FALSE)
      BY <1>1, <1>5 DEF PostAnswered, AnswerTo
    <2> QED BY <1>1, <1>3, <2>1, ResponseEnds
  <1> QED BY <1>4, <1>5

LEMMA TypedRunCommand == Typed /\ RunCommand => Typed'
  <1> SUFFICES ASSUME Typed, RunCommand PROVE Typed'
    OBVIOUS
  <1> DEFINE f == [Frame EXCEPT !.left = @ - 1]
  <1>1. frames # <<>> /\ Frame.left > 0 /\ Becomes(f)
    BY DEF RunCommand, At
  <1>2. /\ Frame \in FrameType /\ Frame.place <= Frame.places
        /\ Frame.question \in 1 .. asked
    BY <1>1, TopTyped
  <1>3. Frame.left - 1 \in 0 .. MaxCommands
    BY <1>1, <1>2, BoundsAssumption DEF FrameType
  <1>4. f \in FrameType /\ f.question = Frame.question /\ f.place <= f.places
    BY <1>2, <1>3 DEF FrameType
  <1> HIDE DEF f
  <1>5. frames' \in Seq(FrameType) /\ Within(frames', asked')
    BY <1>1, <1>4, BecomesTyped DEF RunCommand
  <1>6. ran' \in SUBSET (1 .. asked)
    BY <1>2 DEF RunCommand, Typed
  <1> QED BY <1>5, <1>6 DEF Typed, RunCommand, configVars

LEMMA TypedCommandsDone == Typed /\ CommandsDone => Typed'
  <1> SUFFICES ASSUME Typed, CommandsDone PROVE Typed'
    OBVIOUS
  <1>1. frames # <<>> /\ Return(last, transport_error, failed) /\ asked' = asked
    BY DEF CommandsDone, At
  <1>2. /\ frames' \in Seq(FrameType) /\ Within(frames', asked')
        /\ counter' \in 0 .. MaxCounter /\ transport_error' \in BOOLEAN /\ failed' \in BOOLEAN
        /\ last' \in LastType /\ shellEntry' \in Nat \cup {NoEntry}
    BY <1>1, ReturnTyped DEF Typed
  <1> QED BY <1>2 DEF Typed, CommandsDone, configVars

\* The responses that only end the ask.
LEMMA TypedOtherResponses ==
  Typed /\ \/ Response("check", ModelRefused)
           \/ Response("post", PostUnreadable)
           \/ Response("list", ListEnded)
  => Typed'
  <1> SUFFICES ASSUME Typed PROVE \/ Response("check", ModelRefused)
                                  \/ Response("post", PostUnreadable)
                                  \/ Response("list", ListEnded)
                                  => Typed'
    OBVIOUS
  <1>1. NoAnswer \in LastType /\ last \in LastType
    BY DEF NoAnswer, LastType, Typed
  <1>2. CASE Response("check", ModelRefused)
    <2>1. Answered("check") /\ Return(NoAnswer, Error, FALSE)
      BY <1>2 DEF Response, Answered, ModelRefused
    <2> QED BY <1>1, <2>1, ResponseEnds
  <1>3. CASE Response("post", PostUnreadable)
    <2>1. Answered("post") /\ Return(NoAnswer, Error, FALSE)
      BY <1>3 DEF Response, Answered, PostUnreadable
    <2> QED BY <1>1, <2>1, ResponseEnds
  <1>4. CASE Response("list", ListEnded)
    <2>1. Answered("list") /\ Return(last, Error, FALSE)
      BY <1>4 DEF Response, Answered, ListEnded
    <2> QED BY <1>1, <2>1, ResponseEnds
  <1> QED BY <1>2, <1>3, <1>4

LEMMA TypedUnchanged == Typed /\ UNCHANGED vars => Typed'
  BY DEF Typed, Within, vars, configVars, shellVars, historyVars

LEMMA TypedNext == Typed /\ [Next]_vars => Typed'
  <1> SUFFICES ASSUME Typed, [Next]_vars PROVE Typed'
    OBVIOUS
  <1>1. CASE AskUnconfigured
    BY <1>1, TypedAskUnconfigured
  <1>2. CASE \E subshell \in BOOLEAN : AskInvalid(subshell)
    BY <1>2, TypedAskInvalid
  <1>3. CASE \E c, j, autoexec, check, model, subshell \in BOOLEAN :
               Ask(c, j, autoexec, check, model, subshell)
    BY <1>3, TypedAsk
  <1>4. CASE Attempt
    <2>1. CASE \E broken, reached \in BOOLEAN : NoResponse(broken, reached)
      BY <2>1, TypedNoResponse
    <2>2. CASE Response("check", ModelListed)
      BY <2>2, TypedModelListed
    <2>3. CASE Response("post", PostRefused)
      BY <2>3, TypedPostRefused
    <2>4. CASE \E n \in 0 .. MaxCommands : Response("post", PostAnswered(n))
      BY <2>4, TypedPostAnswered
    <2>5. CASE \/ Response("check", ModelRefused)
               \/ Response("post", PostUnreadable)
               \/ Response("list", ListEnded)
      BY <2>5, TypedOtherResponses
    <2> QED BY <1>4, <2>1, <2>2, <2>3, <2>4, <2>5 DEF Attempt
  <1>5. CASE RunCommand
    BY <1>5, TypedRunCommand
  <1>6. CASE CommandsDone
    BY <1>6, TypedCommandsDone
  <1>7. CASE UNCHANGED vars
    BY <1>7, TypedUnchanged
  <1> QED BY <1>1, <1>2, <1>3, <1>4, <1>5, <1>6, <1>7 DEF Next

-----------------------------------------------------------------------------
(***************************************************************************)
(* The inductive invariant, and what every step makes of the stack.        *)
(***************************************************************************)
Inv == Typed /\ Nested /\ Answers /\ Errors /\ Counting /\ Turns

\* An ask goes on: the others stay as they are.
LEMMA GoesOn ==
  ASSUME Typed, Nested, frames # <<>>, NEW f \in FrameType, Becomes(f)
  PROVE  /\ frames' # <<>> /\ Frame' = f
         /\ Len(frames') = Len(frames) /\ Len(frames) \in Nat \ {0}
         /\ frames'[Len(frames)] = f
         /\ \A d \in 1 .. Len(frames) - 1 : frames'[d] = frames[d]
         /\ Nested'
  <1>1. /\ frames' # <<>> /\ Frame' = f
        /\ Len(frames') = Len(frames)
        /\ \A d \in 1 .. Len(frames) : frames'[d] = IF d = Len(frames) THEN f ELSE frames[d]
    BY BecomesStack DEF Typed
  <1>2. Len(frames) \in Nat \ {0}
    BY TopOf DEF Typed
  <1> QED BY <1>1, <1>2 DEF Nested

\* An ask ends: the one outside of it, if any, is executing commands, and the
\* shell has what the ask leaves behind, or what it had before the subshell.
LEMMA Ends ==
  ASSUME Typed, Typed', Nested, frames # <<>>, NEW newLast, NEW error, NEW failure,
         Return(newLast, error, failure)
  PROVE  /\ Len(frames') = Len(frames) - 1 /\ Len(frames) \in Nat \ {0}
         /\ \A d \in 1 .. Len(frames) - 1 : frames'[d] = frames[d]
         /\ Nested'
         /\ ~Requesting' /\ ~At("check")' /\ ~At("post")'
         /\ \/ /\ counter' = Frame.saved.counter /\ shellEntry' = Frame.saved.shellEntry
               /\ transport_error' = Frame.saved.transport_error
               /\ failed' = Frame.saved.failed /\ last' = Frame.saved.last
            \/ /\ counter' = counter /\ shellEntry' = shellEntry
               /\ transport_error' = error /\ failed' = failure /\ last' = newLast
  <1>1. /\ Len(frames') = Len(frames) - 1
        /\ \A d \in 1 .. Len(frames) - 1 : frames'[d] = frames[d]
    BY FrontOfStack DEF Return, Typed
  <1>2. Len(frames) \in Nat \ {0}
    BY TopOf DEF Typed
  <1>3. \A d \in 1 .. Len(frames') : frames'[d].at = "run"
    BY <1>1, <1>2 DEF Nested
  <1>4. frames' # <<>> => Frame'.at = "run"
    <2>1. frames' # <<>> => Len(frames') \in Nat \ {0} /\ Frame' = frames'[Len(frames')]
      BY DEF Typed, Frame, Last
    <2> QED BY <2>1, <1>3
  <1>5. ~Requesting' /\ ~At("check")' /\ ~At("post")'
    BY <1>4 DEF Requesting, At
  <1>6. Nested'
    BY <1>1, <1>2, <1>3 DEF Nested
  <1> QED BY <1>1, <1>2, <1>5, <1>6 DEF Return

LEMMA CanAskRuns ==
  ASSUME Typed, CanAsk, Nested
  PROVE  /\ ~Requesting /\ ~At("check") /\ ~At("post")
         /\ Len(frames) \in Nat
         /\ \A d \in 1 .. Len(frames) : frames[d].at = "run"
         /\ frames # <<>> => Frame = frames[Len(frames)] /\ Len(frames) \in Nat \ {0}
  <1>1. Len(frames) \in Nat
    BY DEF Typed
  <1>2. frames # <<>> => /\ Frame.at = "run"
                         /\ Frame = frames[Len(frames)] /\ Len(frames) \in Nat \ {0}
    BY TopOf DEF CanAsk, At, Typed
  <1>3. frames = <<>> => Len(frames) = 0
    OBVIOUS
  <1> QED BY <1>1, <1>2, <1>3 DEF Nested, Requesting, At

LEMMA InvalidStack ==
  ASSUME Typed, Nested, NEW subshell \in BOOLEAN, AskInvalid(subshell)
  PROVE  /\ Len(frames') = Len(frames)
         /\ \A d \in 1 .. Len(frames) : SameButLeft(frames'[d], frames[d])
         /\ \A d \in 1 .. Len(frames') : frames'[d].at = "run"
         /\ Nested'
         /\ ~Requesting' /\ ~At("check")' /\ ~At("post")'
  <1>1. CanAsk /\ frames' = Callers
    BY DEF AskInvalid
  <1>2. /\ frames' \in Seq(FrameType)
        /\ Len(frames') = Len(frames)
        /\ \A d \in 1 .. Len(frames) : SameButLeft(frames'[d], frames[d])
    BY <1>1, CallersStack DEF Typed
  <1>3. \A d \in 1 .. Len(frames') : frames'[d].at = "run"
    BY <1>1, <1>2, CanAskRuns DEF SameButLeft
  <1>4. frames' # <<>> => Len(frames') \in Nat \ {0} /\ Frame' = frames'[Len(frames')]
    BY <1>2 DEF Frame, Last
  <1>5. ~Requesting' /\ ~At("check")' /\ ~At("post")'
    BY <1>3, <1>4 DEF Requesting, At
  <1>6. Nested'
    BY <1>2, <1>3 DEF Nested
  <1> QED BY <1>2, <1>3, <1>5, <1>6

LEMMA AskNested ==
  ASSUME Typed, Nested, NEW c \in BOOLEAN, NEW j \in BOOLEAN, NEW autoexec \in BOOLEAN,
         NEW check \in BOOLEAN, NEW model \in BOOLEAN, NEW subshell \in BOOLEAN,
         Ask(c, j, autoexec, check, model, subshell)
  PROVE  Nested' /\ \A d \in 1 .. Len(frames) : frames'[d].at = "run"
  <1>1. /\ Len(frames') = Len(frames) + 1
        /\ \A d \in 1 .. Len(frames) : SameButLeft(frames'[d], frames[d])
    BY AskStack, SMTT(40)
  <1>2. /\ \A d \in 1 .. Len(frames) : frames[d].at = "run"
        /\ Len(frames) \in Nat
    BY CanAskRuns DEF Ask
  <1> QED BY <1>1, <1>2 DEF Nested, SameButLeft

-----------------------------------------------------------------------------
(***************************************************************************)
(* The invariant after an ask ends, and after it goes on.                  *)
(***************************************************************************)
\* What was true of the history of a frame is so with more replies, unless the
\* frame is still at a request.
LEMMA FrameKept ==
  ASSUME NEW f, NEW g, NEW answered, NEW more, NEW wanted, NEW also,
         FrameOK(f, answered, wanted), SameButLeft(g, f), f.at = "run",
         answered \subseteq more, wanted \subseteq also
  PROVE  FrameOK(g, more, also)
  BY DEF FrameOK, LastOK, SameButLeft

LEMMA InvEnds ==
  ASSUME Inv, Typed', frames # <<>>, NEW newLast, NEW error, NEW failure \in BOOLEAN,
         Return(newLast, error, failure), error = failure, LastOK(newLast, replied'),
         replied \subseteq replied', reposted' = {}, posts' <= MaxAttempts * MaxPlaces,
         UNCHANGED <<base_urls, ran, consent>>
  PROVE  Inv'
  <1> USE DEF Inv
  <1>1. /\ Len(frames') = Len(frames) - 1 /\ Len(frames) \in Nat \ {0}
        /\ \A d \in 1 .. Len(frames) - 1 : frames'[d] = frames[d]
        /\ Nested'
        /\ ~Requesting' /\ ~At("check")' /\ ~At("post")'
        /\ \/ /\ counter' = Frame.saved.counter /\ shellEntry' = Frame.saved.shellEntry
              /\ transport_error' = Frame.saved.transport_error
              /\ failed' = Frame.saved.failed /\ last' = Frame.saved.last
           \/ /\ counter' = counter /\ shellEntry' = shellEntry
              /\ transport_error' = error /\ failed' = failure /\ last' = newLast
    BY Ends
  <1>2. Frame = frames[Len(frames)]
    BY TopOf DEF Typed
  <1>3. Answers'
    <2>1. ASSUME NEW d \in 1 .. Len(frames')
          PROVE  FrameOK(frames'[d], replied', consent')
      <3>1. frames'[d] = frames[d] /\ FrameOK(frames[d], replied, consent) /\ frames[d].at = "run"
        BY <1>1 DEF Nested, Answers
      <3> QED BY <3>1, FrameKept DEF SameButLeft
    <2>2. LastOK(Frame.saved.last, replied')
      BY <1>1, <1>2 DEF Answers, FrameOK, LastOK
    <2>3. LastOK(last', replied')
      BY <1>1, <2>2
    <2> QED BY <2>1, <2>3 DEF Answers
  <1>4. Errors'
    <2>1. Frame.saved.transport_error <=> Frame.saved.failed
      BY <1>1, <1>2 DEF Errors
    <2>2. transport_error' <=> failed'
      BY <1>1, <2>1
    <2> QED BY <1>1, <2>2 DEF Errors
  <1>5. Counting'
    BY <1>1 DEF Counting
  <1>6. Turns'
    BY <1>1, <1>2 DEF Turns, Ahead
  <1> QED BY <1>1, <1>3, <1>4, <1>5, <1>6

LEMMA InvGoesOn ==
  ASSUME Inv, Typed', frames # <<>>, NEW f \in FrameType, Becomes(f),
         f.question = Frame.question, f.run = Frame.run, f.saved = Frame.saved,
         replied \subseteq replied', reposted' = {}, ran' \subseteq consent \cap replied',
         LastOK(last', replied'), UNCHANGED <<base_urls, consent, counter, shellEntry, failed>>,
         f.at \in {"check", "post"} => f.question \notin replied',
         f.at = "run" => f.question \in consent \cap replied' /\ (transport_error' <=> failed),
         f.at # "run" => ~failed /\ (f.place = 1 => ~transport_error'),
         f.at = "check" => posts' = 0,
         f.at = "post" => posts' <= MaxAttempts * (f.place - 1) + f.attempt - 1,
         posts' <= MaxAttempts * MaxPlaces
  PROVE  Inv'
  <1> USE DEF Inv
  <1>1. /\ frames' # <<>> /\ Frame' = f
        /\ Len(frames') = Len(frames) /\ Len(frames) \in Nat \ {0}
        /\ frames'[Len(frames)] = f
        /\ \A d \in 1 .. Len(frames) - 1 : frames'[d] = frames[d]
        /\ Nested'
    BY GoesOn
  <1>2. Frame = frames[Len(frames)]
    BY TopOf DEF Typed
  <1>3. Answers'
    <2>1. ASSUME NEW d \in 1 .. Len(frames) - 1
          PROVE  FrameOK(frames'[d], replied', consent')
      <3>1. frames'[d] = frames[d] /\ FrameOK(frames[d], replied, consent) /\ frames[d].at = "run"
        BY <1>1 DEF Nested, Answers
      <3> QED BY <3>1, FrameKept DEF SameButLeft
    <2>2. FrameOK(Frame, replied, consent)
      BY <1>1, <1>2 DEF Answers
    <2>3. FrameOK(f, replied', consent')
      BY <2>2 DEF FrameOK, LastOK
    <2>4. \A d \in 1 .. Len(frames') : FrameOK(frames'[d], replied', consent')
      BY <1>1, <2>1, <2>3
    <2> QED BY <2>4 DEF Answers
  <1>4. Errors'
    <2>1. Requesting' <=> f.at # "run"
      BY <1>1 DEF Requesting, FrameType
    <2>2. \A d \in 1 .. Len(frames') :
             frames'[d].saved.transport_error <=> frames'[d].saved.failed
      BY <1>1, <1>2 DEF Errors
    <2> QED BY <1>1, <2>1, <2>2 DEF Errors
  <1>5. Counting'
    BY <1>1 DEF Counting, At
  <1>6. Turns'
    BY <1>1, <1>2 DEF Turns, Ahead
  <1> QED BY <1>1, <1>3, <1>4, <1>5, <1>6

-----------------------------------------------------------------------------
(***************************************************************************)
(* Every step keeps the invariant.                                         *)
(***************************************************************************)
LEMMA InvInit == Init => Inv
  <1> SUFFICES ASSUME Init PROVE Inv
    OBVIOUS
  <1>1. Typed
    BY TypedInit
  <1>2. frames = <<>> /\ Len(frames) = 0 /\ ~Requesting /\ ~At("check") /\ ~At("post")
    BY DEF Init, Requesting, At
  <1>3. Nested /\ Errors
    BY <1>2 DEF Init, Nested, Errors
  <1>4. Answers
    BY <1>2 DEF Init, Answers, LastOK
  <1>5. Counting
    BY <1>2 DEF Init, Counting, MaxAttempts, MaxPlaces
  <1>6. Turns
    BY <1>2 DEF Init, Turns, Ahead
  <1> QED BY <1>1, <1>3, <1>4, <1>5, <1>6 DEF Inv

\* What an attempt adds to the posts; a question is not posted after its answer.
LEMMA InvDelivered ==
  ASSUME Inv, Requesting, NEW reached \in BOOLEAN, Delivered(reached)
  PROVE  /\ reposted' = {}
         /\ posts \in Nat
         /\ posts' <= MaxAttempts * MaxPlaces
         /\ ~At("post") => posts' = posts
         /\ At("post") => posts' <= MaxAttempts * (Frame.place - 1) + Frame.attempt
  <1>1. frames # <<>> /\ Frame \in FrameType
    BY TopTyped DEF Requesting, Inv
  <1>2. FrameOK(Frame, replied, consent) /\ reposted = {} /\ posts \in Nat
    BY <1>1, TopOf DEF Inv, Answers, Typed
  <1>3. reposted' = {}
    BY <1>2 DEF Delivered, At, FrameOK
  <1>4. CASE At("post")
    <2>1. posts <= MaxAttempts * (Frame.place - 1) + Frame.attempt - 1
      BY <1>4 DEF Inv, Counting
    <2>2. Frame.place \in 1 .. 4 /\ Frame.attempt \in 1 .. 2
      BY <1>1 DEF FrameType, MaxPlaces, MaxAttempts
    <2>3. posts <= 2 * (Frame.place - 1) + Frame.attempt - 1
      BY <2>1 DEF MaxAttempts
    <2>4. posts' \in {posts, posts + 1}
      <3>1. Min({posts + 1, MaxAttempts * MaxPlaces + 1}) = posts + 1
        BY <1>2, <2>2, <2>3, SmallerOf DEF MaxAttempts, MaxPlaces
      <3> QED BY <3>1 DEF Delivered
    <2>5. posts' <= 2 * (Frame.place - 1) + Frame.attempt /\ posts' <= 8
      BY <1>2, <2>2, <2>3, <2>4
    <2> QED BY <1>2, <1>3, <1>4, <2>5 DEF MaxAttempts, MaxPlaces
  <1>5. CASE ~At("post")
    <2>1. posts' = posts
      BY <1>5 DEF Delivered
    <2> QED BY <1>2, <1>3, <1>5, <2>1 DEF Inv, Counting
  <1> QED BY <1>4, <1>5

LEMMA InvAskUnconfigured == Inv /\ Typed' /\ AskUnconfigured => Inv'
  <1> SUFFICES ASSUME Inv, Typed', AskUnconfigured PROVE Inv'
    OBVIOUS
  <1>1. ~Requesting /\ ~At("check") /\ ~At("post") /\ CanAsk
    BY CanAskRuns DEF AskUnconfigured, Inv
  <1>2. /\ frames' = frames /\ base_urls' = base_urls /\ replied' = replied
        /\ consent' = consent /\ ran' = ran /\ reposted' = reposted
        /\ posts' = posts /\ counter' = counter /\ shellEntry' = shellEntry
        /\ transport_error' = transport_error /\ failed' = failed
        /\ LastOK(last', replied')
    BY DEF AskUnconfigured, configVars, LastOK
  <1>3. Nested'
    BY <1>2 DEF Inv, Nested
  <1>4. Answers'
    BY <1>2 DEF Inv, Answers
  <1>5. Errors' /\ Counting'
    BY <1>1, <1>2 DEF Inv, Errors, Counting, Requesting, At, Frame
  <1>6. Turns'
    BY <1>2 DEF Inv, Turns, Ahead
  <1> QED BY <1>3, <1>4, <1>5, <1>6 DEF Inv

\* The commands of the asks under way are wanted, so that one that asks is, too.
LEMMA CallersWanted ==
  ASSUME Inv, CanAsk
  PROVE  CallersRan \subseteq consent \cap replied
  <1>1. frames # <<>> => FrameOK(Frame, replied, consent) /\ Frame.at = "run"
    BY TopOf DEF Inv, Answers, Typed, CanAsk, At
  <1> QED BY <1>1 DEF CallersRan, FrameOK

\* The entry used, and the counter after it.
LEMMA TakesTurn ==
  ASSUME Typed, base_urls # <<>>
  PROVE  Ahead(NextIndex(counter), Index)
  BY CounterAssumption DEF Typed, Ahead, NextIndex, Index

LEMMA InvAskInvalid ==
  ASSUME Inv, Typed', NEW subshell \in BOOLEAN, AskInvalid(subshell)
  PROVE  Inv'
  <1>0. Typed /\ Nested
    BY DEF Inv
  <1>1. /\ Len(frames') = Len(frames)
        /\ \A d \in 1 .. Len(frames) : SameButLeft(frames'[d], frames[d])
        /\ Nested'
        /\ ~Requesting' /\ ~At("check")' /\ ~At("post")'
    BY <1>0, InvalidStack
  <1>2. CanAsk /\ ~Requesting
    BY <1>0, CanAskRuns DEF AskInvalid
  <1>3. Answers'
    <2>1. /\ replied' = replied /\ consent' = consent /\ reposted' = reposted /\ last' = last
          /\ ran' = ran \cup CallersRan
      BY DEF AskInvalid
    <2>2. ASSUME NEW d \in 1 .. Len(frames')
          PROVE  FrameOK(frames'[d], replied', consent')
      <3>1. SameButLeft(frames'[d], frames[d]) /\ FrameOK(frames[d], replied, consent)
        BY <1>1 DEF Inv, Answers
      <3> QED BY <2>1, <3>1 DEF FrameOK, SameButLeft
    <2> QED BY <1>2, <2>1, <2>2, CallersWanted DEF Inv, Answers
  <1>4. Errors'
    <2>1. \A d \in 1 .. Len(frames') :
             frames'[d].saved.transport_error <=> frames'[d].saved.failed
      BY <1>1 DEF Inv, Errors, SameButLeft
    <2> QED BY <1>1, <1>2, <2>1 DEF Inv, Errors, AskInvalid
  <1>5. Counting'
    BY <1>1 DEF Inv, Counting, AskInvalid
  <1>6. Turns'
    <2>1. base_urls # <<>> /\ base_urls' = base_urls
      BY DEF AskInvalid, configVars
    <2>2. Ahead(counter, shellEntry)'
      <3>1. Ahead(counter, shellEntry) /\ Ahead(NextIndex(counter), Index)
        BY <1>0, <2>1, TakesTurn DEF Inv, Turns
      <3>2. counter' = IF subshell THEN counter ELSE NextIndex(counter)
        BY DEF AskInvalid
      <3>3. shellEntry' = IF subshell THEN shellEntry ELSE Index
        BY DEF AskInvalid
      <3> QED BY <2>1, <3>1, <3>2, <3>3 DEF Ahead
    <2>3. \A d \in 1 .. Len(frames') : frames'[d].saved = frames[d].saved
      BY <1>1 DEF SameButLeft
    <2> QED BY <1>1, <2>1, <2>2, <2>3 DEF Inv, Turns, Ahead
  <1> QED BY <1>1, <1>3, <1>4, <1>5, <1>6 DEF Inv

LEMMA InvAsk ==
  ASSUME Inv, Typed', NEW c \in BOOLEAN, NEW j \in BOOLEAN, NEW autoexec \in BOOLEAN,
         NEW check \in BOOLEAN, NEW model \in BOOLEAN, NEW subshell \in BOOLEAN,
         Ask(c, j, autoexec, check, model, subshell)
  PROVE  Inv'
  <1> DEFINE f == NewFrame(c, j, autoexec, check, model, subshell)
  <1>0. Typed /\ Nested
    BY DEF Inv
  <1>1. /\ Len(frames') = Len(frames) + 1 /\ Len(frames) \in Nat
        /\ frames' # <<>> /\ Frame' = f /\ frames'[Len(frames) + 1] = f
        /\ \A d \in 1 .. Len(frames) : SameButLeft(frames'[d], frames[d])
        /\ Nested'
    <2>1. /\ Len(frames') = Len(frames) + 1
          /\ frames' # <<>> /\ Frame' = f /\ frames'[Len(frames) + 1] = f
          /\ \A d \in 1 .. Len(frames) : SameButLeft(frames'[d], frames[d])
      BY <1>0, AskStack, SMTT(40)
    <2>2. Nested'
      BY <1>0, AskNested
    <2> QED BY <1>0, <2>1, <2>2 DEF Typed
  <1>2. CanAsk /\ ~Requesting
    BY <1>0, CanAskRuns DEF Ask
  <1>3. /\ f.question = asked + 1 /\ f.at \in {"check", "post"} /\ f.place = 1 /\ f.attempt = 1
        /\ f.run = WantsRun(c, j, autoexec)
        /\ f.saved.counter = counter /\ f.saved.shellEntry = shellEntry
        /\ f.saved.transport_error = transport_error /\ f.saved.failed = failed
        /\ f.saved.last = last
    BY DEF NewFrame
  <1> HIDE DEF f
  <1>4. Answers'
    <2>1. /\ replied' = replied /\ reposted' = reposted /\ last' = last
          /\ ran' = ran \cup CallersRan
          /\ consent' = IF ~j /\ (c \/ autoexec) THEN consent \cup {asked + 1} ELSE consent
      BY DEF Ask
    <2>2. asked + 1 \notin replied
      BY <1>0 DEF Typed
    <2>3. f.run => asked + 1 \in consent'
      BY <1>3, <2>1 DEF WantsRun
    <2>4. FrameOK(f, replied', consent')
      BY <1>3, <2>1, <2>2, <2>3 DEF FrameOK, Inv, Answers
    <2>5. ASSUME NEW d \in 1 .. Len(frames)
          PROVE  FrameOK(frames'[d], replied', consent')
      <3>1. SameButLeft(frames'[d], frames[d]) /\ FrameOK(frames[d], replied, consent)
        BY <1>1 DEF Inv, Answers
      <3> QED BY <2>1, <3>1 DEF FrameOK, SameButLeft
    <2>6. \A d \in 1 .. Len(frames') : FrameOK(frames'[d], replied', consent')
      BY <1>1, <2>4, <2>5
    <2> QED BY <1>2, <2>1, <2>6, CallersWanted DEF Inv, Answers
  <1>5. Errors'
    <2>1. transport_error' = FALSE /\ failed' = FALSE
      BY DEF Ask
    <2>2. \A d \in 1 .. Len(frames) :
             frames'[d].saved.transport_error <=> frames'[d].saved.failed
      BY <1>1 DEF Inv, Errors, SameButLeft
    <2>3. f.saved.transport_error <=> f.saved.failed
      BY <1>2, <1>3 DEF Inv, Errors
    <2>4. \A d \in 1 .. Len(frames') :
             frames'[d].saved.transport_error <=> frames'[d].saved.failed
      BY <1>1, <2>2, <2>3
    <2> QED BY <2>1, <2>4 DEF Errors
  <1>6. Counting'
    <2>1. posts' = 0 /\ Frame'.place = 1 /\ Frame'.attempt = 1
      BY <1>1, <1>3 DEF Ask
    <2> QED BY <2>1 DEF Counting, MaxAttempts, MaxPlaces
  <1>7. Turns'
    <2>1. /\ base_urls # <<>> /\ base_urls' = base_urls
          /\ counter' = NextIndex(counter) /\ shellEntry' = Index
      BY DEF Ask, configVars
    <2>2. Ahead(counter, shellEntry)'
      BY <1>0, <2>1, TakesTurn DEF Ahead
    <2>3. \A d \in 1 .. Len(frames) : frames'[d].saved = frames[d].saved
      BY <1>1 DEF SameButLeft
    <2>4. \A d \in 1 .. Len(frames') : Ahead(frames'[d].saved.counter, frames'[d].saved.shellEntry)
      BY <1>1, <1>3, <2>1, <2>3 DEF Inv, Turns
    <2> QED BY <2>1, <2>2, <2>4 DEF Turns, Ahead
  <1> QED BY <1>1, <1>4, <1>5, <1>6, <1>7 DEF Inv

LEMMA InvNoResponse ==
  ASSUME Inv, Typed', NEW broken \in BOOLEAN, NEW reached \in BOOLEAN, NoResponse(broken, reached)
  PROVE  Inv'
  <1> DEFINE next == NextPlace(Frame.place, Frame.places)
  <1>1. /\ Typed /\ Requesting /\ frames # <<>> /\ Delivered(reached)
        /\ replied' = replied
        /\ UNCHANGED <<base_urls, consent, ran>>
    BY DEF NoResponse, Requesting, configVars, Inv
  <1>2. /\ Frame \in FrameType /\ Frame.at # "run"
        /\ FrameOK(Frame, replied, consent)
        /\ ~failed /\ (Frame.place = 1 => ~transport_error)
    BY <1>1, TopOf DEF Inv, Typed, Answers, Requesting, Errors
  <1>3. /\ reposted' = {} /\ posts \in Nat
        /\ posts' <= MaxAttempts * MaxPlaces
        /\ ~At("post") => posts' = posts
        /\ At("post") => posts' <= MaxAttempts * (Frame.place - 1) + Frame.attempt
        /\ At("check") => posts = 0
    BY <1>1, InvDelivered DEF Inv, Counting
  <1>4. ran' \subseteq consent \cap replied' /\ LastOK(last, replied') /\ LastOK(NoAnswer, replied')
    BY <1>1 DEF Inv, Answers, LastOK, NoAnswer
  <1>5. /\ Frame.at = "check" => ~At("post") /\ At("check")
        /\ Frame.at = "post" => At("post")
    BY <1>1 DEF At
  <1>6. CASE MayRetry(Frame.attempt, broken)
    <2> DEFINE f == [Frame EXCEPT !.attempt = Min({@ + 1, MaxAttempts})]
    <2>1. /\ Becomes(f)
          /\ UNCHANGED <<counter, transport_error, last, failed, shellEntry>>
      BY <1>6 DEF NoResponse
    <2>2. /\ Frame.attempt + 1 \in 1 .. MaxAttempts
          /\ Min({Frame.attempt + 1, MaxAttempts}) = Frame.attempt + 1
      BY <1>2, <1>6, SmallerOf DEF FrameType, MaxAttempts, MayRetry
    <2>3. f \in FrameType
      BY <1>2, <2>2 DEF FrameType
    <2>4. /\ f.question = Frame.question /\ f.run = Frame.run /\ f.saved = Frame.saved
          /\ f.at = Frame.at /\ f.place = Frame.place /\ f.attempt = Frame.attempt + 1
      BY <1>2, <2>2 DEF FrameType
    <2> HIDE DEF f
    <2>5. f.at = "post" => posts' <= MaxAttempts * (f.place - 1) + f.attempt - 1
      <3>1. Frame.place \in 1 .. 4 /\ Frame.attempt \in 1 .. 2
        BY <1>2 DEF FrameType, MaxPlaces, MaxAttempts
      <3> QED BY <1>3, <1>5, <2>4, <3>1 DEF MaxAttempts
    <2>6. f.at \in {"check", "post"} => f.question \notin replied'
      BY <1>1, <1>2, <2>4 DEF FrameOK
    <2>7. f.at = "check" => posts' = 0
      BY <1>3, <1>5, <2>4
    <2>8. LastOK(last', replied')
      BY <1>4, <2>1
    <2> QED BY <1>1, <1>2, <1>3, <1>4, <2>1, <2>3, <2>4, <2>5, <2>6, <2>7, <2>8, InvGoesOn
  <1>7. CASE ~MayRetry(Frame.attempt, broken) /\ next # NoPlace
    <2> DEFINE f == [Frame EXCEPT !.place = next, !.attempt = 1]
    <2>1. /\ Becomes(f)
          /\ transport_error' = TRUE
          /\ UNCHANGED <<counter, last, failed, shellEntry>>
      BY <1>7 DEF NoResponse
    <2>2. next \in 1 .. MaxPlaces /\ next = Frame.place + 1 /\ 1 \in 1 .. MaxAttempts
      BY <1>1, <1>2, <1>7, TopTyped DEF NextPlace, FrameType, MaxPlaces, MaxAttempts
    <2> HIDE DEF next
    <2>3. f \in FrameType
      BY <1>2, <2>2 DEF FrameType
    <2>4. /\ f.question = Frame.question /\ f.run = Frame.run /\ f.saved = Frame.saved
          /\ f.at = Frame.at /\ f.place = Frame.place + 1 /\ f.attempt = 1
      BY <1>2, <2>2 DEF FrameType
    <2> HIDE DEF f
    <2>5. Frame.place \in 1 .. 4 /\ Frame.attempt \in 1 .. 2 /\ f.place # 1
      <3>1. Frame.place \in 1 .. 4 /\ Frame.attempt \in 1 .. 2
        BY <1>2 DEF FrameType, MaxPlaces, MaxAttempts
      <3> QED BY <2>4, <3>1
    <2>6. f.at = "post" => posts' <= MaxAttempts * (f.place - 1) + f.attempt - 1
      <3>1. f.place - 1 = Frame.place /\ f.attempt - 1 = 0 /\ posts' \in Nat
        BY <2>4, <2>5 DEF Typed
      <3>2. At("post") => posts' <= 2 * (Frame.place - 1) + Frame.attempt
        BY <1>3 DEF MaxAttempts
      <3>3. At("post") => posts' <= 2 * Frame.place
        BY <2>5, <3>1, <3>2
      <3>4. f.at = "post" => At("post")
        BY <1>5, <2>4
      <3> QED BY <2>4, <2>5, <3>1, <3>3, <3>4 DEF MaxAttempts
    <2>7. f.at \in {"check", "post"} => f.question \notin replied'
      BY <1>1, <1>2, <2>4 DEF FrameOK
    <2>8. f.at = "check" => posts' = 0
      BY <1>3, <1>5, <2>4
    <2>9. LastOK(last', replied')
      BY <1>4, <2>1
    <2> QED BY <1>1, <1>2, <1>3, <1>4, <2>1, <2>3, <2>4, <2>5, <2>6, <2>7, <2>8, <2>9, InvGoesOn
  <1>8. CASE ~MayRetry(Frame.attempt, broken) /\ next = NoPlace
    <2>1. Return(IF At("list") THEN last ELSE NoAnswer, TRUE, TRUE)
      BY <1>8 DEF NoResponse
    <2>2. LastOK(IF At("list") THEN last ELSE NoAnswer, replied')
      BY <1>4
    <2> QED BY <1>1, <1>3, <2>1, <2>2, InvEnds
  <1> QED BY <1>6, <1>7, <1>8

\* What is known where a response comes in: its request has no failure yet, and
\* no error either unless an earlier place had one.
LEMMA AnsweredInv ==
  ASSUME Inv, NEW where \in {"check", "post", "list"}, Answered(where)
  PROVE  /\ frames # <<>> /\ Frame \in FrameType /\ Frame.at = where
         /\ FrameOK(Frame, replied, consent)
         /\ ~failed /\ Error = FALSE
         /\ reposted' = {} /\ posts' <= MaxAttempts * MaxPlaces
         /\ where # "post" => posts' = posts /\ replied' = replied
         /\ where = "check" => posts' = 0
         /\ where = "post" => Frame.question \in replied'
         /\ replied \subseteq replied' /\ ran' \subseteq consent \cap replied'
         /\ LastOK(last, replied') /\ LastOK(NoAnswer, replied')
         /\ UNCHANGED <<base_urls, consent, ran>>
  <1>1. /\ frames # <<>> /\ Frame.at = where /\ Requesting /\ Delivered(TRUE)
        /\ At("check") <=> where = "check"
        /\ At("post") <=> where = "post"
    BY DEF Answered, At, Requesting
  <1>2. Frame \in FrameType /\ FrameOK(Frame, replied, consent)
    BY <1>1, TopOf DEF Inv, Typed, Answers
  <1>3. ~failed /\ Error = FALSE
    BY <1>1 DEF Inv, Typed, Errors, Error, Cleared
  <1>4. /\ reposted' = {} /\ posts' <= MaxAttempts * MaxPlaces
        /\ where # "post" => posts' = posts
        /\ where = "check" => posts' = 0
    BY <1>1, InvDelivered DEF Inv, Counting
  <1>5. /\ where # "post" => replied' = replied
        /\ where = "post" => Frame.question \in replied'
        /\ replied \subseteq replied'
        /\ UNCHANGED <<base_urls, consent, ran>>
    BY DEF Answered, configVars
  <1>6. /\ ran' \subseteq consent \cap replied'
        /\ LastOK(last, replied') /\ LastOK(NoAnswer, replied')
    BY <1>5 DEF Inv, Answers, LastOK, NoAnswer
  <1> QED BY <1>1, <1>2, <1>3, <1>4, <1>5, <1>6

LEMMA InvModelListed == Inv /\ Typed' /\ Response("check", ModelListed) => Inv'
  <1> SUFFICES ASSUME Inv, Typed', Response("check", ModelListed) PROVE Inv'
    OBVIOUS
  <1>1. Answered("check") /\ Request("post") /\ transport_error' = FALSE /\ GoOn
    BY DEF Response, Answered, ModelListed
  <1>2. /\ frames # <<>> /\ Frame \in FrameType /\ Frame.at = "check"
        /\ FrameOK(Frame, replied, consent)
        /\ ~failed /\ reposted' = {} /\ posts' = 0 /\ replied' = replied
        /\ posts' <= MaxAttempts * MaxPlaces
        /\ ran' \subseteq consent \cap replied' /\ LastOK(last, replied')
        /\ UNCHANGED <<base_urls, consent>>
    BY <1>1, AnsweredInv
  <1> DEFINE f == [Frame EXCEPT !.at = "post", !.place = 1, !.attempt = 1,
                                !.listed = ("post" = "post")]
  <1>3. 1 \in 1 .. MaxPlaces /\ 1 \in 1 .. MaxAttempts
    BY DEF MaxPlaces, MaxAttempts
  <1>4. f \in FrameType
    BY <1>2, <1>3 DEF FrameType
  <1>5. /\ f.question = Frame.question /\ f.run = Frame.run /\ f.saved = Frame.saved
        /\ f.at = "post" /\ f.place = 1 /\ f.attempt = 1
    BY <1>2 DEF FrameType
  <1>6. Becomes(f)
    BY <1>1 DEF Request
  <1> HIDE DEF f
  <1>7. f.question \notin replied'
    BY <1>2, <1>5 DEF FrameOK
  <1>8. posts' <= MaxAttempts * (f.place - 1) + f.attempt - 1
    BY <1>2, <1>5 DEF MaxAttempts
  <1>9. LastOK(last', replied') /\ UNCHANGED <<counter, shellEntry, failed>>
    BY <1>1, <1>2 DEF GoOn
  <1> QED BY <1>1, <1>2, <1>4, <1>5, <1>6, <1>7, <1>8, <1>9, InvGoesOn

LEMMA InvPostRefused == Inv /\ Typed' /\ Response("post", PostRefused) => Inv'
  <1> SUFFICES ASSUME Inv, Typed', Response("post", PostRefused) PROVE Inv'
    OBVIOUS
  <1>1. Answered("post") /\ PostRefused
    BY DEF Response, Answered
  <1>2. /\ frames # <<>> /\ Frame \in FrameType /\ Error = FALSE
        /\ ~failed /\ reposted' = {}
        /\ posts' <= MaxAttempts * MaxPlaces
        /\ replied \subseteq replied' /\ ran' \subseteq consent \cap replied'
        /\ LastOK(NoAnswer, replied')
        /\ UNCHANGED <<base_urls, consent, ran>>
    BY <1>1, AnsweredInv
  <1>3. CASE Return(NoAnswer, Error, FALSE)
    BY <1>2, <1>3, InvEnds
  <1>4. CASE ~Return(NoAnswer, Error, FALSE)
    <2> DEFINE f == [Frame EXCEPT !.at = "list", !.place = 1, !.attempt = 1]
    <2>1. /\ Becomes(f) /\ last' = NoAnswer /\ transport_error' = FALSE
          /\ UNCHANGED <<counter, failed, shellEntry>>
      BY <1>1, <1>4 DEF PostRefused
    <2>2. 1 \in 1 .. MaxPlaces /\ 1 \in 1 .. MaxAttempts
      BY DEF MaxPlaces, MaxAttempts
    <2>3. f \in FrameType
      BY <1>2, <2>2 DEF FrameType
    <2>4. /\ f.question = Frame.question /\ f.run = Frame.run /\ f.saved = Frame.saved
          /\ f.at = "list"
      BY <1>2 DEF FrameType
    <2> HIDE DEF f
    <2> QED BY <1>2, <2>1, <2>3, <2>4, InvGoesOn
  <1> QED BY <1>3, <1>4

LEMMA InvPostAnswered ==
  ASSUME Inv, Typed', NEW n \in 0 .. MaxCommands, Response("post", PostAnswered(n))
  PROVE  Inv'
  <1>1. Answered("post") /\ PostAnswered(n)
    BY DEF Response, Answered
  <1>2. /\ frames # <<>> /\ Frame \in FrameType /\ Error = FALSE
        /\ FrameOK(Frame, replied, consent)
        /\ ~failed /\ reposted' = {} /\ Frame.question \in replied'
        /\ posts' <= MaxAttempts * MaxPlaces
        /\ replied \subseteq replied' /\ ran' \subseteq consent \cap replied'
        /\ UNCHANGED <<base_urls, consent, ran>>
    BY <1>1, AnsweredInv
  <1>3. LastOK(AnswerTo(n), replied')
    BY <1>2 DEF AnswerTo, LastOK
  <1>4. CASE Frame.run /\ n > 0
    <2> DEFINE f == [Frame EXCEPT !.at = "run", !.left = n]
    <2>1. /\ Becomes(f) /\ last' = AnswerTo(n) /\ transport_error' = Error
          /\ UNCHANGED <<counter, failed, shellEntry>>
      BY <1>1, <1>4 DEF PostAnswered, AnswerTo
    <2>2. f \in FrameType
      BY <1>2 DEF FrameType
    <2>3. /\ f.question = Frame.question /\ f.run = Frame.run /\ f.saved = Frame.saved
          /\ f.at = "run"
      BY <1>2 DEF FrameType
    <2> HIDE DEF f
    <2>4. f.question \in consent \cap replied'
      BY <1>2, <1>4, <2>3 DEF FrameOK
    <2> QED BY <1>2, <1>3, <2>1, <2>2, <2>3, <2>4, InvGoesOn
  <1>5. CASE ~(Frame.run /\ n > 0)
    <2>1. Return(AnswerTo(n), Error, FALSE)
      BY <1>1, <1>5 DEF PostAnswered, AnswerTo
    <2> QED BY <1>2, <1>3, <2>1, InvEnds
  <1> QED BY <1>4, <1>5

LEMMA InvResponseEnds ==
  ASSUME Inv, Typed', NEW where \in {"check", "post", "list"}, Answered(where),
         \/ Return(NoAnswer, Error, FALSE)
         \/ Return(last, Error, FALSE)
  PROVE  Inv'
  <1>1. /\ frames # <<>> /\ Error = FALSE /\ reposted' = {}
        /\ posts' <= MaxAttempts * MaxPlaces
        /\ replied \subseteq replied'
        /\ LastOK(last, replied') /\ LastOK(NoAnswer, replied')
        /\ UNCHANGED <<base_urls, consent, ran>>
    BY AnsweredInv
  <1> QED BY <1>1, InvEnds

LEMMA InvOtherResponses ==
  Inv /\ Typed' /\ \/ Response("check", ModelRefused)
                   \/ Response("post", PostUnreadable)
                   \/ Response("list", ListEnded)
  => Inv'
  BY InvResponseEnds DEF Response, Answered, ModelRefused, PostUnreadable, ListEnded

LEMMA InvRunCommand == Inv /\ Typed' /\ RunCommand => Inv'
  <1> SUFFICES ASSUME Inv, Typed', RunCommand PROVE Inv'
    OBVIOUS
  <1> DEFINE f == [Frame EXCEPT !.left = @ - 1]
  <1>1. /\ frames # <<>> /\ Frame.at = "run" /\ Frame.left > 0 /\ Becomes(f)
        /\ ran' = ran \cup {Frame.question}
        /\ UNCHANGED <<base_urls, counter, transport_error, last, posts, reposted,
                       replied, consent, failed, shellEntry>>
    BY DEF RunCommand, At, configVars
  <1>2. Frame \in FrameType /\ FrameOK(Frame, replied, consent)
    BY <1>1, TopOf DEF Inv, Typed, Answers
  <1>3. Frame.left - 1 \in 0 .. MaxCommands
    BY <1>1, <1>2, BoundsAssumption DEF FrameType
  <1>4. f \in FrameType
    BY <1>2, <1>3 DEF FrameType
  <1>5. /\ f.question = Frame.question /\ f.run = Frame.run /\ f.saved = Frame.saved
        /\ f.at = "run"
    BY <1>1, <1>2 DEF FrameType
  <1> HIDE DEF f
  <1>6. f.question \in consent \cap replied' /\ ran' \subseteq consent \cap replied'
    BY <1>1, <1>2, <1>5 DEF FrameOK, Inv, Answers
  <1>7. transport_error' <=> failed
    BY <1>1 DEF Inv, Errors, Requesting
  <1>8. /\ LastOK(last', replied') /\ reposted' = {} /\ replied \subseteq replied'
        /\ posts' <= MaxAttempts * MaxPlaces
    BY <1>1 DEF Inv, Answers, Counting
  <1> QED BY <1>1, <1>4, <1>5, <1>6, <1>7, <1>8, InvGoesOn

LEMMA InvCommandsDone == Inv /\ Typed' /\ CommandsDone => Inv'
  <1> SUFFICES ASSUME Inv, Typed', CommandsDone PROVE Inv'
    OBVIOUS
  <1>1. /\ frames # <<>> /\ Frame.at = "run" /\ Return(last, transport_error, failed)
        /\ UNCHANGED <<base_urls, posts, reposted, replied, consent, ran>>
    BY DEF CommandsDone, At, configVars
  <1>2. transport_error = failed /\ failed \in BOOLEAN
    BY <1>1 DEF Inv, Typed, Errors, Requesting
  <1>3. /\ LastOK(last, replied') /\ reposted' = {} /\ replied \subseteq replied'
        /\ posts' <= MaxAttempts * MaxPlaces
    BY <1>1 DEF Inv, Answers, Counting
  <1> QED BY <1>1, <1>2, <1>3, InvEnds

LEMMA InvUnchanged == Inv /\ Typed' /\ UNCHANGED vars => Inv'
  <1> SUFFICES ASSUME Inv, Typed', UNCHANGED vars PROVE Inv'
    OBVIOUS
  <1>1. Nested' /\ Answers'
    BY DEF Inv, Nested, Answers, vars, shellVars, historyVars
  <1>2. Errors' /\ Counting' /\ Turns'
    BY DEF Inv, Errors, Counting, Turns, Ahead, Requesting, At, Frame,
           vars, configVars, shellVars, historyVars
  <1> QED BY <1>1, <1>2 DEF Inv

LEMMA InvNext == Inv /\ [Next]_vars => Inv'
  <1> SUFFICES ASSUME Inv, [Next]_vars PROVE Inv'
    OBVIOUS
  <1>0. Typed'
    BY TypedNext DEF Inv
  <1>1. CASE AskUnconfigured
    BY <1>0, <1>1, InvAskUnconfigured
  <1>2. CASE \E subshell \in BOOLEAN : AskInvalid(subshell)
    BY <1>0, <1>2, InvAskInvalid
  <1>3. CASE \E c, j, autoexec, check, model, subshell \in BOOLEAN :
               Ask(c, j, autoexec, check, model, subshell)
    BY <1>0, <1>3, InvAsk
  <1>4. CASE Attempt
    <2>1. CASE \E broken, reached \in BOOLEAN : NoResponse(broken, reached)
      BY <1>0, <2>1, InvNoResponse
    <2>2. CASE Response("check", ModelListed)
      BY <1>0, <2>2, InvModelListed
    <2>3. CASE Response("post", PostRefused)
      BY <1>0, <2>3, InvPostRefused
    <2>4. CASE \E n \in 0 .. MaxCommands : Response("post", PostAnswered(n))
      BY <1>0, <2>4, InvPostAnswered
    <2>5. CASE \/ Response("check", ModelRefused)
               \/ Response("post", PostUnreadable)
               \/ Response("list", ListEnded)
      BY <1>0, <2>5, InvOtherResponses
    <2> QED BY <1>4, <2>1, <2>2, <2>3, <2>4, <2>5 DEF Attempt
  <1>5. CASE RunCommand
    BY <1>0, <1>5, InvRunCommand
  <1>6. CASE CommandsDone
    BY <1>0, <1>6, InvCommandsDone
  <1>7. CASE UNCHANGED vars
    BY <1>0, <1>7, InvUnchanged
  <1> QED BY <1>1, <1>2, <1>3, <1>4, <1>5, <1>6, <1>7 DEF Next

-----------------------------------------------------------------------------
\* The six parts of the invariant hold together in every state of the program:
\* none of them is inductive without the types, and the history (Answers,
\* Counting, Errors) not without the order of the stack (Nested).
THEOREM SpecInv == Spec => []Inv
  <1>1. Init => Inv
    BY InvInit
  <1>2. Inv /\ [Next]_vars => Inv'
    BY InvNext
  <1> QED BY <1>1, <1>2, PTL DEF Spec

LEMMA TypedTypeOK == Typed => TypeOK
  <1> SUFFICES ASSUME Typed PROVE TypeOK
    OBVIOUS
  <1>1. Len(frames) <= MaxDepth
    BY DEF Typed, Within
  <1>2. ASSUME NEW f \in Range(frames)
        PROVE  /\ f.question \in 1 .. asked
               /\ f.at \in {"check", "post", "list", "run"}
               /\ f.place \in 1 .. f.places /\ f.places <= MaxPlaces
               /\ f.attempt \in 1 .. MaxAttempts
               /\ f.left \in 0 .. MaxCommands
    <2>1. PICK d \in 1 .. Len(frames) : f = frames[d]
      BY <1>2 DEF Range, Typed
    <2>2. f \in FrameType /\ f.question <= asked /\ f.place <= f.places
      BY <2>1, StackTyped DEF Typed, Within
    <2>3. f.question \in Nat \ {0} /\ asked \in Nat
      BY <2>1, StackTyped DEF Typed
    <2>4. f.place \in 1 .. MaxPlaces /\ f.places \in 1 .. MaxPlaces
      BY <2>2 DEF FrameType
    <2>5. f.place \in 1 .. f.places /\ f.places <= MaxPlaces
      BY <2>2, <2>4 DEF MaxPlaces
    <2> QED BY <2>2, <2>3, <2>5 DEF FrameType
  <1>3. {transport_error, failed} \subseteq BOOLEAN
    BY DEF Typed
  <1>4. replied \cup consent \cup ran \cup reposted \subseteq 1 .. asked
    BY DEF Typed
  <1> QED BY <1>1, <1>2, <1>3, <1>4 DEF Typed, TypeOK, LastType

\* Whatever is asked, in whatever order requests fail and answers come, the
\* state has the type of module AskProperties, asks inside of asks included.
THEOREM SpecTypeOK == Spec => []TypeOK
  BY SpecInv, TypedTypeOK, PTL DEF Inv

\* A question reaches servers at most twice at each of at most four places: the
\* retries of openai_request_with_status and the fallbacks of
\* baish_openai_request_try_ports do not multiply beyond that.
THEOREM SpecPostsBounded == Spec => []PostsBounded
  <1>1. Inv => PostsBounded
    BY DEF Inv, Counting, PostsBounded
  <1> QED BY <1>1, SpecInv, PTL

\* Once the shell has a response to a question it never posts it again.
THEOREM SpecAnsweredOnce == Spec => []AnsweredOnce
  <1>1. Inv => AnsweredOnce
    BY DEF Inv, Answers, AnsweredOnce
  <1> QED BY <1>1, SpecInv, PTL

\* No command runs but of an answer, and of one whose asker wanted it run: -c or
\* BAISH_AUTOEXEC and not -j, at any depth of asks inside of asks.
THEOREM SpecOnlyWanted == Spec => []OnlyWanted
  <1>1. Inv => OnlyWanted
    BY DEF Inv, Answers, OnlyWanted
  <1> QED BY <1>1, SpecInv, PTL

\* BAISH_LAST_ANSWER and BAISH_LAST_COMMANDS are never of two different answers,
\* not even when an ask fails after the commands of another have asked.
THEOREM SpecLastIsOneAnswer == Spec => []LastIsOneAnswer
  <1>1. Inv => LastIsOneAnswer
    BY DEF Inv, Answers, LastOK, LastIsOneAnswer
  <1> QED BY <1>1, SpecInv, PTL

\* Between requests baish_transport_error holds a message exactly if the last
\* request of this shell got no response.
THEOREM SpecErrorIsCurrent == Spec => []ErrorIsCurrent
  <1>1. Inv => ErrorIsCurrent
    BY DEF Inv, Errors, ErrorIsCurrent
  <1> QED BY <1>1, SpecInv, PTL

-----------------------------------------------------------------------------
(***************************************************************************)
(* The entries are taken in turn: the next one, modulo the number of them. *)
(***************************************************************************)
LEMMA Division ==
  ASSUME NEW n \in Nat, NEW l \in Nat \ {0}
  PROVE  n % l \in 0 .. l - 1 /\ n \div l \in Int /\ n = (l * (n \div l)) + (n % l)
  OBVIOUS

LEMMA RemainderIs ==
  ASSUME NEW n \in Nat, NEW l \in Nat \ {0}, NEW q \in Int, NEW r \in 0 .. l - 1,
         n = (l * q) + r
  PROVE  (n % l) = r
  <1> DEFINE p == n \div l
  <1>1. n % l \in 0 .. l - 1 /\ p \in Int /\ n = (l * p) + (n % l)
    BY Division
  <1> HIDE DEF p
  <1>2. l * (q - p) = (n % l) - r
    BY <1>1
  <1>3. CASE q - p >= 1
    <2>1. l * (q - p) >= l
      BY <1>1, <1>3
    <2> QED BY <1>1, <1>2, <2>1
  <1>4. CASE q - p <= -1
    <2>1. l * (q - p) <= -l
      BY <1>1, <1>4
    <2> QED BY <1>1, <1>2, <2>1
  <1>5. CASE q - p = 0
    BY <1>1, <1>2, <1>5
  <1> QED BY <1>1, <1>3, <1>4, <1>5

LEMMA NextRemainder ==
  ASSUME NEW n \in Nat, NEW l \in Nat \ {0}
  PROVE  ((n % l) + 1) % l = (n + 1) % l
  <1> DEFINE r == n % l
             q == n \div l
  <1>1. r \in 0 .. l - 1 /\ q \in Int /\ n = (l * q) + r
    BY Division
  <1> HIDE DEF r, q
  <1>2. CASE r + 1 < l
    <2>1. (n + 1) % l = r + 1
      <3>1. n + 1 = (l * q) + (r + 1) /\ r + 1 \in 0 .. l - 1 /\ n + 1 \in Nat
        BY <1>1, <1>2
      <3> QED BY <1>1, <3>1, RemainderIs
    <2>2. (r + 1) % l = r + 1
      <3>1. r + 1 = (l * 0) + (r + 1) /\ r + 1 \in 0 .. l - 1 /\ r + 1 \in Nat /\ 0 \in Int
        BY <1>1, <1>2
      <3> QED BY <3>1, RemainderIs
    <2> QED BY <2>1, <2>2 DEF r
  <1>3. CASE r + 1 = l
    <2>1. (n + 1) % l = 0
      <3>1. n + 1 = (l * (q + 1)) + 0 /\ 0 \in 0 .. l - 1 /\ n + 1 \in Nat /\ q + 1 \in Int
        BY <1>1, <1>3
      <3> QED BY <3>1, RemainderIs
    <2>2. (r + 1) % l = 0
      <3>1. r + 1 = (l * 1) + 0 /\ 0 \in 0 .. l - 1 /\ r + 1 \in Nat /\ 1 \in Int
        BY <1>1, <1>3
      <3> QED BY <3>1, RemainderIs
    <2> QED BY <2>1, <2>2 DEF r
  <1> QED BY <1>1, <1>2, <1>3

LEMMA StepTakesTurns ==
  ASSUME Inv, [Next]_vars, asked' # asked, base_urls # <<>>, shellEntry # NoEntry, counter # 0
  PROVE  entry' = (shellEntry + 1) % Len(base_urls)
  <1>1. entry' = Index
    <2>1. asked \in Nat /\ asked' # asked
      BY DEF Inv, Typed
    <2>2. ~AskUnconfigured /\ ~Attempt /\ ~RunCommand /\ ~CommandsDone /\ ~UNCHANGED vars
      BY <2>1 DEF AskUnconfigured, Attempt, NoResponse, Response, RunCommand, CommandsDone,
                  vars, historyVars
    <2> QED BY <2>2 DEF Next, AskInvalid, Ask
  <1>2. shellEntry = (counter - 1) % Len(base_urls)
    BY DEF Inv, Turns, Ahead
  <1>3. counter - 1 \in Nat /\ counter = (counter - 1) + 1 /\ Len(base_urls) \in Nat \ {0}
    BY ChosenServer DEF Inv, Typed
  <1>4. (((counter - 1) % Len(base_urls)) + 1) % Len(base_urls) = counter % Len(base_urls)
    BY <1>3, NextRemainder
  <1> QED BY <1>1, <1>2, <1>4 DEF Index

\* Every ask takes the entry after the one its shell took last, whatever became
\* of the asks before it, unless baish_next_rr_index has just started over.
THEOREM SpecTakesTurns == Spec => TakesTurns
  <1>1. Inv /\ [Next]_vars =>
          [asked' # asked /\ base_urls # <<>> /\ shellEntry # NoEntry /\ counter # 0 =>
             entry' = (shellEntry + 1) % Len(base_urls)]_vars
    BY StepTakesTurns
  <1> QED BY <1>1, SpecInv, PTL DEF Spec, TakesTurns
=============================================================================
