---------------------------- MODULE SigchldProofs ----------------------------
(***************************************************************************)
(* Proofs about the delivery of SIGCHLD and of its trap (modules Sigchld   *)
(* and SigchldProperties), for every set of children and of trap commands. *)
(***************************************************************************)
EXTENDS SigchldProperties, DataTheorems

-----------------------------------------------------------------------------
(***************************************************************************)
(* The types.  What a trap frame keeps to be put back is a command.        *)
(***************************************************************************)
Dispositions == Strings \cup {"default", "ignore"}

TrapFrames ==
    [kind : {"trap"}, left : 1 .. Most, by : {"handler", "waitchld", "pending"},
     command : Strings, builtin : {"wait", "other"}]
OtherFrames ==
    [kind : {"script", "notify", "reaping"}]
      \cup [kind : {"cleanup"}, os : Nat]
      \cup [kind : {"start", "wait_for"}, pid : Children]
      \cup [kind : {"trap_builtin"}, first_arg : Dispositions]
FrameType == TrapFrames \cup OtherFrames

Typed ==
    /\ child \in [Children -> {"unborn", "running", "zombie", "reaped"}]
    /\ sigchld \in Nat /\ queue_sigchld \in 0 .. 2
    /\ trap \in Dispositions \cup {"impossible"}
    /\ pending \in BOOLEAN /\ trapped \in BOOLEAN /\ inprogress \in BOOLEAN
    /\ running_trap \in BOOLEAN /\ catch_flag \in BOOLEAN
    /\ pending_traps \in Nat
    /\ this_shell_builtin \in {"wait", "other"}
    /\ stack \in Seq(FrameType)
    /\ counted \subseteq Zombies /\ owed \in Int /\ wanted \in Dispositions

(***************************************************************************)
(* queue_sigchld is raised once more inside of notify_of_job_status and of *)
(* the sections, which nothing interrupts; a section began with no more    *)
(* signals counted than there are now.                                     *)
(***************************************************************************)
Raised == {"notify", "cleanup"}

Sections ==
    /\ \A d \in 1 .. Len(stack) - 1 : stack[d].kind \notin Raised
    /\ queue_sigchld \in IF In(Raised) THEN 1 .. 2 ELSE 0 .. 1
    /\ In({"cleanup"}) => Top.os <= sigchld

(***************************************************************************)
(* Every signal is of a child that has ended since the one before, and     *)
(* every pending run of the trap is of a child that was reaped.            *)
(***************************************************************************)
NotEnded == {c \in Children : child[c] \in {"unborn", "running"}}
NotReaped == {c \in Children : child[c] # "reaped"}

Bounded ==
    /\ sigchld + (IF pending THEN 1 ELSE 0) + Cardinality(NotEnded) <= Most
    /\ pending_traps + Cardinality(NotReaped) <= Most

(***************************************************************************)
(* While a trap runs, trap_list has the sentinel and the innermost run has *)
(* what was asked for, unless another trap was asked for since.            *)
(***************************************************************************)
HeldIn(frames, value) ==
    \E d \in 1 .. Len(frames) :
       /\ frames[d].kind = "trap" /\ frames[d].command = value
       /\ \A e \in d + 1 .. Len(frames) : frames[e].kind # "trap"

Kept ==
    /\ trapped <=> trap \in Strings \cup {"ignore"}
    /\ stack # <<>> => IF trap = "impossible" THEN HeldIn(stack, wanted) ELSE trap = wanted

Inv == Typed /\ Sections /\ Bounded /\ Kept /\ NoneForgotten /\ EachChildTrapped

-----------------------------------------------------------------------------
(***************************************************************************)
(* Stacks: the runs of the trap they hold, and the trap they hold back.    *)
(***************************************************************************)
Runs(f) == IF f.kind = "trap" THEN f.left ELSE 0

LEMMA MostType == Most \in Nat
  BY SigchldAssumption, FS_CardinalityType DEF Most

LEMMA KindsOfFrames ==
  ASSUME NEW f \in FrameType
  PROVE  /\ f.kind = "trap" => f \in TrapFrames
         /\ f.kind = "cleanup" => f.os \in Nat
         /\ f.kind \in {"start", "wait_for"} => f.pid \in Children
         /\ f.kind = "trap_builtin" => f.first_arg \in Dispositions
         /\ Runs(f) \in Int
  <1>1. CASE f \in TrapFrames
    <2>1. f.kind = "trap" /\ f.left \in Int
      BY <1>1, MostType DEF TrapFrames
    <2> QED BY <1>1, <2>1 DEF Runs
  <1>2. CASE f \in OtherFrames
    BY <1>2 DEF OtherFrames, Runs
  <1> QED BY <1>1, <1>2 DEF FrameType

LEMMA LeftTyped ==
  ASSUME NEW s \in Seq(FrameType)
  PROVE  Left(s) \in Seq(Int) /\ Len(Left(s)) = Len(s) /\ Total(Left(s)) \in Int
  <1>1. \A d \in 1 .. Len(s) : s[d] \in FrameType
    OBVIOUS
  <1>2. \A d \in 1 .. Len(s) : Runs(s[d]) \in Int
    BY <1>1, KindsOfFrames
  <1>3. Left(s) = [d \in 1 .. Len(s) |-> Runs(s[d])]
    BY DEF Left, Runs
  <1>4. Left(s) \in Seq(Int) /\ Len(Left(s)) = Len(s)
    BY <1>2, <1>3
  <1> QED BY <1>4, TotalType

LEMMA LeftAppend ==
  ASSUME NEW s \in Seq(FrameType), NEW f \in FrameType
  PROVE  Total(Left(Append(s, f))) = Total(Left(s)) + Runs(f)
  <1>1. Left(s) \in Seq(Int) /\ Len(Left(s)) = Len(s)
    BY LeftTyped
  <1>2. Runs(f) \in Int
    BY KindsOfFrames
  <1>3. Left(Append(s, f)) = Append(Left(s), Runs(f))
    <2> DEFINE t == Left(Append(s, f))
               u == Append(Left(s), Runs(f))
    <2>1. /\ u \in Seq(Int) /\ Len(u) = Len(s) + 1
          /\ \A d \in 1 .. Len(s) : u[d] = Left(s)[d]
          /\ u[Len(s) + 1] = Runs(f)
      BY <1>1, <1>2
    <2>2. t \in Seq(Int) /\ Len(t) = Len(s) + 1
      <3>1. Append(s, f) \in Seq(FrameType) /\ Len(Append(s, f)) = Len(s) + 1
        OBVIOUS
      <3> QED BY <3>1, LeftTyped
    <2>3. /\ \A d \in 1 .. Len(s) : t[d] = Left(s)[d]
          /\ t[Len(s) + 1] = Runs(f)
      BY DEF Left, Runs
    <2>4. Len(s) \in Nat
      OBVIOUS
    <2> HIDE DEF t, u
    <2>5. \A d \in 1 .. Len(s) + 1 : t[d] = u[d]
      BY <2>1, <2>3, <2>4
    <2>6. t = u
      BY <2>1, <2>2, <2>5, SeqEqual
    <2> QED BY <2>6 DEF t, u
  <1> QED BY <1>1, <1>2, <1>3, TotalOfAppend

LEMMA HeldAppend ==
  ASSUME NEW s \in Seq(FrameType), NEW f \in FrameType, NEW value
  PROVE  HeldIn(Append(s, f), value) <=>
           IF f.kind = "trap" THEN f.command = value ELSE HeldIn(s, value)
  <1> DEFINE t == Append(s, f)
             n == Len(s)
  <1>1. /\ n \in Nat /\ Len(t) = n + 1 /\ t[n + 1] = f
        /\ \A d \in 1 .. n : t[d] = s[d]
    OBVIOUS
  <1> HIDE DEF t
  <1>2. CASE f.kind = "trap"
    <2>1. HeldIn(t, value) => f.command = value
      BY <1>1, <1>2 DEF HeldIn
    <2>2. f.command = value => HeldIn(t, value)
      BY <1>1, <1>2 DEF HeldIn
    <2> QED BY <1>2, <2>1, <2>2 DEF t
  <1>3. CASE f.kind # "trap"
    <2>1. HeldIn(t, value) => HeldIn(s, value)
      BY <1>1, <1>3 DEF HeldIn
    <2>2. HeldIn(s, value) => HeldIn(t, value)
      <3> SUFFICES ASSUME HeldIn(s, value) PROVE HeldIn(t, value)
        OBVIOUS
      <3>1. PICK d \in 1 .. n : /\ s[d].kind = "trap" /\ s[d].command = value
                                /\ \A e \in d + 1 .. n : s[e].kind # "trap"
        BY DEF HeldIn
      <3>2. d \in 1 .. n + 1 /\ t[d].kind = "trap" /\ t[d].command = value
        BY <1>1, <3>1
      <3>3. \A e \in d + 1 .. n + 1 : t[e].kind # "trap"
        BY <1>1, <1>3, <3>1
      <3> QED BY <1>1, <3>2, <3>3 DEF HeldIn
    <2> QED BY <1>3, <2>1, <2>2 DEF t
  <1> QED BY <1>2, <1>3

\* The top of the stack, in the terms of the rest of it.
LEMMA TopOfStack ==
  ASSUME stack \in Seq(FrameType), stack # <<>>
  PROVE  /\ Depth \in Nat \ {0} /\ Top \in FrameType
         /\ Front(stack) \in Seq(FrameType) /\ Len(Front(stack)) = Depth - 1
         /\ \A d \in 1 .. Depth - 1 : Front(stack)[d] = stack[d]
         /\ Total(Left(Front(stack))) \in Int
         /\ Total(Left(stack)) = Total(Left(Front(stack))) + Runs(Top)
         /\ \A value : HeldIn(stack, value) <=>
                         IF Top.kind = "trap" THEN Top.command = value
                         ELSE HeldIn(Front(stack), value)
  <1>1. Depth \in Nat \ {0} /\ Top \in FrameType
    BY DEF Depth, Top
  <1>2. /\ Front(stack) \in Seq(FrameType) /\ Len(Front(stack)) = Depth - 1
        /\ \A d \in 1 .. Depth - 1 : Front(stack)[d] = stack[d]
    BY FrontOfStack DEF Depth
  <1>3. stack = Append(Front(stack), Top)
    BY StackIsFrontAndTop DEF Top, Depth
  <1>4. Total(Left(stack)) = Total(Left(Front(stack))) + Runs(Top)
    BY <1>1, <1>2, <1>3, LeftAppend
  <1>5. \A value : HeldIn(stack, value) <=>
                     IF Top.kind = "trap" THEN Top.command = value
                     ELSE HeldIn(Front(stack), value)
    <2> DEFINE rest == Front(stack)
    <2>1. rest \in Seq(FrameType) /\ Top \in FrameType /\ stack = Append(rest, Top)
      BY <1>1, <1>2, <1>3
    <2> HIDE DEF rest
    <2>2. \A value : HeldIn(Append(rest, Top), value) <=>
                       IF Top.kind = "trap" THEN Top.command = value ELSE HeldIn(rest, value)
      BY <2>1, HeldAppend
    <2>3. \A value : HeldIn(stack, value) <=>
                       IF Top.kind = "trap" THEN Top.command = value ELSE HeldIn(rest, value)
      BY <2>1, <2>2
    <2> QED BY <2>3 DEF rest
  <1>6. Total(Left(Front(stack))) \in Int
    BY <1>2, LeftTyped
  <1> QED BY <1>1, <1>2, <1>4, <1>5, <1>6

-----------------------------------------------------------------------------
(***************************************************************************)
(* The stack after a frame is pushed, popped or replaced.                  *)
(***************************************************************************)
\* The same runs of the trap, and the same trap held back.
SameRuns(frames) ==
    /\ frames \in Seq(FrameType)
    /\ Total(Left(frames)) = Total(Left(stack))
    /\ \A value : HeldIn(frames, value) <=> HeldIn(stack, value)

LEMMA OtherFramesAre ==
  ASSUME NEW f \in OtherFrames
  PROVE  f \in FrameType /\ f.kind # "trap" /\ Runs(f) = 0
  BY DEF OtherFrames, FrameType, Runs

LEMMA PushFacts ==
  ASSUME stack \in Seq(FrameType), NEW f \in OtherFrames, Push(f)
  PROVE  /\ SameRuns(stack')
         /\ stack' # <<>> /\ Top' = f /\ Len(stack') = Len(stack) + 1
         /\ \A d \in 1 .. Len(stack) : stack'[d] = stack[d]
  <1>1. f \in FrameType /\ f.kind # "trap" /\ Runs(f) = 0
    BY OtherFramesAre
  <1>2. stack' = Append(stack, f)
    BY DEF Push
  <1>3. /\ stack' # <<>> /\ Top' = f /\ Len(stack') = Len(stack) + 1
        /\ stack' \in Seq(FrameType)
        /\ \A d \in 1 .. Len(stack) : stack'[d] = stack[d]
    BY <1>1, <1>2 DEF Top, Depth
  <1>4. Total(Left(stack')) = Total(Left(stack))
    BY <1>1, <1>2, LeftAppend, LeftTyped
  <1>5. \A value : HeldIn(stack', value) <=> HeldIn(stack, value)
    BY <1>1, <1>2, HeldAppend
  <1> QED BY <1>3, <1>4, <1>5 DEF SameRuns

LEMMA PopFacts ==
  ASSUME stack \in Seq(FrameType), stack # <<>>, Pop
  PROVE  /\ stack' \in Seq(FrameType)
         /\ Len(stack') = Len(stack) - 1 /\ Len(stack) \in Nat \ {0}
         /\ \A d \in 1 .. Len(stack) - 1 : stack'[d] = stack[d]
         /\ Top.kind # "trap" => SameRuns(stack')
         /\ Total(Left(stack')) = Total(Left(stack)) - Runs(Top)
  <1>1. stack' = Front(stack)
    BY DEF Pop
  <1>2. /\ Depth \in Nat \ {0} /\ Top \in FrameType
        /\ Front(stack) \in Seq(FrameType) /\ Len(Front(stack)) = Depth - 1
        /\ \A d \in 1 .. Depth - 1 : Front(stack)[d] = stack[d]
        /\ Total(Left(Front(stack))) \in Int
        /\ Total(Left(stack)) = Total(Left(Front(stack))) + Runs(Top)
        /\ \A value : HeldIn(stack, value) <=>
                         IF Top.kind = "trap" THEN Top.command = value
                         ELSE HeldIn(Front(stack), value)
    BY TopOfStack
  <1>3. Runs(Top) \in Int
    BY <1>2, KindsOfFrames
  <1>4. Total(Left(stack')) = Total(Left(stack)) - Runs(Top)
    BY <1>1, <1>2, <1>3
  <1>5. Top.kind # "trap" => Runs(Top) = 0
    BY DEF Runs
  <1>6. Top.kind # "trap" => SameRuns(stack')
    <2>1. ASSUME Top.kind # "trap", NEW value
          PROVE  HeldIn(stack', value) <=> HeldIn(stack, value)
      BY <1>1, <1>2, <2>1
    <2>2. Top.kind # "trap" => Total(Left(stack')) = Total(Left(stack))
      BY <1>1, <1>2, <1>5
    <2> QED BY <1>1, <1>2, <2>1, <2>2 DEF SameRuns
  <1> QED BY <1>1, <1>2, <1>4, <1>6 DEF Depth

LEMMA ReplaceFacts ==
  ASSUME stack \in Seq(FrameType), stack # <<>>, NEW f \in FrameType,
         stack' = Append(Front(stack), f)
  PROVE  /\ stack' \in Seq(FrameType) /\ stack' # <<>>
         /\ Len(stack') = Len(stack) /\ Len(stack) \in Nat \ {0} /\ Top' = f
         /\ \A d \in 1 .. Len(stack) - 1 : stack'[d] = stack[d]
         /\ Total(Left(stack')) = (Total(Left(stack)) - Runs(Top)) + Runs(f)
         /\ \A value : HeldIn(stack', value) <=>
                          IF f.kind = "trap" THEN f.command = value
                          ELSE HeldIn(Front(stack), value)
         /\ f.kind # "trap" /\ Top.kind # "trap" => SameRuns(stack')
  <1>1. /\ Depth \in Nat \ {0} /\ Top \in FrameType
        /\ Front(stack) \in Seq(FrameType) /\ Len(Front(stack)) = Depth - 1
        /\ \A d \in 1 .. Depth - 1 : Front(stack)[d] = stack[d]
        /\ Total(Left(Front(stack))) \in Int
        /\ Total(Left(stack)) = Total(Left(Front(stack))) + Runs(Top)
        /\ \A value : HeldIn(stack, value) <=>
                         IF Top.kind = "trap" THEN Top.command = value
                         ELSE HeldIn(Front(stack), value)
    BY TopOfStack
  <1>2. Runs(Top) \in Int /\ Runs(f) \in Int
    BY <1>1, KindsOfFrames
  <1>3. Total(Left(stack')) = Total(Left(Front(stack))) + Runs(f)
    BY <1>1, LeftAppend
  <1>4. \A value : HeldIn(stack', value) <=>
                      IF f.kind = "trap" THEN f.command = value
                      ELSE HeldIn(Front(stack), value)
    <2> DEFINE rest == Front(stack)
    <2>1. rest \in Seq(FrameType) /\ stack' = Append(rest, f)
      BY <1>1
    <2> HIDE DEF rest
    <2>2. \A value : HeldIn(Append(rest, f), value) <=>
                        IF f.kind = "trap" THEN f.command = value ELSE HeldIn(rest, value)
      BY <2>1, HeldAppend
    <2> QED BY <2>1, <2>2 DEF rest
  <1>5. /\ stack' \in Seq(FrameType) /\ stack' # <<>>
        /\ Len(stack') = Len(stack) /\ Top' = f
        /\ \A d \in 1 .. Len(stack) - 1 : stack'[d] = stack[d]
    BY <1>1 DEF Top, Depth
  <1>6. Total(Left(stack')) = (Total(Left(stack)) - Runs(Top)) + Runs(f)
    BY <1>1, <1>2, <1>3
  <1>7. f.kind # "trap" /\ Top.kind # "trap" => SameRuns(stack')
    <2> SUFFICES ASSUME f.kind # "trap", Top.kind # "trap" PROVE SameRuns(stack')
      OBVIOUS
    <2>1. Runs(f) = 0 /\ Runs(Top) = 0
      BY DEF Runs
    <2>2. Total(Left(stack')) = Total(Left(stack))
      BY <1>1, <1>3, <2>1
    <2>3. \A value : HeldIn(stack', value) <=> HeldIn(stack, value)
      BY <1>1, <1>4
    <2> QED BY <1>5, <2>2, <2>3 DEF SameRuns
  <1> QED BY <1>1, <1>4, <1>5, <1>6, <1>7 DEF Depth

-----------------------------------------------------------------------------
(***************************************************************************)
(* The invariant where no child is reaped and no trap begins or ends.      *)
(***************************************************************************)
LEMMA SetsOfChildren ==
  /\ IsFiniteSet(NotEnded) /\ Cardinality(NotEnded) \in Nat
  /\ IsFiniteSet(NotReaped) /\ Cardinality(NotReaped) \in Nat
  /\ IsFiniteSet(Zombies) /\ Cardinality(Zombies) \in Nat
  /\ \A set : set \subseteq Zombies => IsFiniteSet(set) /\ Cardinality(set) \in Nat
  <1>1. IsFiniteSet(Children)
    BY SigchldAssumption
  <1>2. \A set \in SUBSET Children : IsFiniteSet(set) /\ Cardinality(set) \in Nat
    BY <1>1, FS_Subset, FS_CardinalityType
  <1> QED BY <1>2 DEF NotEnded, NotReaped, Zombies

LEMMA InvInit == HInit => Inv
  <1> SUFFICES ASSUME HInit PROVE Inv
    OBVIOUS
  <1>1. stack = <<Frame("script")>> /\ Frame("script") \in FrameType /\ Len(stack) = 1
    BY DEF HInit, Init, Frame, FrameType, OtherFrames
  <1>2. Top.kind = "script" /\ stack # <<>>
    BY <1>1 DEF Top, Depth, Frame
  <1>3. Typed
    <2>1. stack \in Seq(FrameType)
      BY <1>1
    <2>2. child \in [Children -> {"unborn", "running", "zombie", "reaped"}]
      BY DEF HInit, Init
    <2>3. /\ sigchld \in Nat /\ queue_sigchld \in 0 .. 2 /\ pending_traps \in Nat /\ owed \in Int
          /\ this_shell_builtin \in {"wait", "other"} /\ counted \subseteq Zombies
      BY DEF HInit, Init
    <2>4. /\ trap \in Dispositions \cup {"impossible"} /\ wanted \in Dispositions
          /\ pending \in BOOLEAN /\ trapped \in BOOLEAN /\ inprogress \in BOOLEAN
          /\ running_trap \in BOOLEAN /\ catch_flag \in BOOLEAN
      BY DEF HInit, Init, Dispositions
    <2> QED BY <2>1, <2>2, <2>3, <2>4 DEF Typed
  <1>4. Sections
    BY <1>1, <1>2 DEF HInit, Init, Sections, In, Raised
  <1>5. Bounded
    <2>1. NotEnded = Children /\ NotReaped = Children
      BY DEF HInit, Init, NotEnded, NotReaped
    <2> QED BY <2>1, MostType DEF HInit, Init, Bounded, Most
  <1>6. Kept
    BY SigchldAssumption DEF HInit, Init, Kept
  <1>7. NoneForgotten
    <2>1. Zombies = {}
      BY DEF HInit, Init, Zombies
    <2> QED BY <2>1 DEF NoneForgotten
  <1>8. EachChildTrapped
    <2>1. <<>> \in Seq(FrameType) /\ stack = Append(<<>>, Frame("script"))
      BY <1>1
    <2>2. Left(<<>>) = <<>>
      BY DEF Left
    <2>3. Runs(Frame("script")) = 0
      BY DEF Runs, Frame
    <2>4. Total(Left(stack)) = Total(Left(<<>>)) + 0
      BY <1>1, <2>1, <2>3, LeftAppend
    <2>5. Total(Left(stack)) = 0
      BY <2>2, <2>4, TotalOfNone
    <2> QED BY <2>5 DEF HInit, Init, EachChildTrapped
  <1> QED BY <1>3, <1>4, <1>5, <1>6, <1>7, <1>8 DEF Inv

\* A zombie that nobody counted has its signal pending, unless in a section.
LEMMA Unsectioned ==
  Inv /\ stack # <<>> /\ ~(Covered /\ Top.os # sigchld) => pending \/ Zombies \subseteq counted
  BY DEF Inv, NoneForgotten

LEMMA PushInv ==
  ASSUME Inv, stack # <<>>, ~In(Raised), NEW f \in OtherFrames, Push(f),
         UNCHANGED <<pending, sigchld, traps, counted, owed, wanted>>,
         child' \in [Children -> {"unborn", "running", "zombie", "reaped"}],
         Zombies' = Zombies, NotEnded' = NotEnded, NotReaped' = NotReaped,
         this_shell_builtin' \in {"wait", "other"},
         queue_sigchld' \in IF f.kind \in Raised THEN 1 .. 2 ELSE 0 .. 1,
         f.kind = "cleanup" => f.os = sigchld
  PROVE  Inv'
  <1>1. /\ SameRuns(stack')
        /\ stack' # <<>> /\ Top' = f /\ Len(stack') = Len(stack) + 1
        /\ \A d \in 1 .. Len(stack) : stack'[d] = stack[d]
    BY PushFacts DEF Inv, Typed
  <1>2. Typed'
    BY <1>1 DEF Inv, Typed, SameRuns, traps
  <1>3. Sections'
    <2>1. Len(stack) \in Nat \ {0} /\ Top = stack[Len(stack)] /\ Top.kind \notin Raised
      BY DEF Inv, Typed, Top, Depth, In
    <2>2. \A d \in 1 .. Len(stack') - 1 : stack'[d].kind \notin Raised
      BY <1>1, <2>1 DEF Inv, Sections
    <2>3. In(Raised)' <=> f.kind \in Raised
      BY <1>1 DEF In, Raised
    <2>4. queue_sigchld' \in IF In(Raised)' THEN 1 .. 2 ELSE 0 .. 1
      BY <2>3
    <2>5. In({"cleanup"})' => Top'.os <= sigchld'
      BY <1>1 DEF In, Inv, Typed
    <2> QED BY <2>2, <2>4, <2>5 DEF Sections
  <1>4. Bounded'
    BY DEF Inv, Bounded, traps
  <1>5. Kept'
    BY <1>1 DEF Inv, Kept, SameRuns, traps
  <1>6. EachChildTrapped'
    BY <1>1 DEF Inv, EachChildTrapped, SameRuns, traps
  <1>7. NoneForgotten'
    <2>1. ~Covered
      BY DEF Covered, In, Raised
    <2> QED BY <2>1, Unsectioned DEF NoneForgotten
  <1> QED BY <1>2, <1>3, <1>4, <1>5, <1>6, <1>7 DEF Inv

LEMMA PopInv ==
  ASSUME Inv, stack # <<>>, Top.kind # "trap", Pop, ~(Covered /\ Top.os # sigchld),
         UNCHANGED <<kernel, sigchld, inprogress, running_trap, pending_traps, catch_flag,
                     this_shell_builtin, counted, owed>>,
         queue_sigchld' \in 0 .. 1,
         \/ UNCHANGED <<trap, trapped, wanted>>
         \/ /\ trap' \in Dispositions /\ wanted' = trap'
            /\ trapped' \in BOOLEAN /\ (trapped' <=> trap' \in Strings \cup {"ignore"})
  PROVE  Inv'
  <1>1. /\ SameRuns(stack') /\ Len(stack') = Len(stack) - 1 /\ Len(stack) \in Nat \ {0}
        /\ \A d \in 1 .. Len(stack) - 1 : stack'[d] = stack[d]
    BY PopFacts DEF Inv, Typed
  <1>2. child' = child /\ pending' = pending
    BY DEF kernel
  <1>3. /\ trap' \in Dispositions \cup {"impossible"} /\ trapped' \in BOOLEAN
        /\ wanted' \in Dispositions
    BY DEF Inv, Typed
  <1>4. Typed'
    BY <1>1, <1>2, <1>3 DEF Inv, Typed, SameRuns, Zombies
  <1>5. Sections'
    <2>1. \A d \in 1 .. Len(stack') : stack'[d].kind \notin Raised
      BY <1>1 DEF Inv, Sections
    <2>2. ~In(Raised)' /\ ~In({"cleanup"})'
      <3>1. stack' # <<>> => Len(stack') \in Nat \ {0} /\ Top' = stack'[Len(stack')]
        BY <1>4 DEF Typed, Top, Depth
      <3> QED BY <2>1, <3>1 DEF In, Raised
    <2> QED BY <1>1, <2>1, <2>2 DEF Sections
  <1>6. Bounded'
    BY <1>2 DEF Inv, Bounded, NotEnded, NotReaped
  <1>7. Kept'
    <2>1. CASE UNCHANGED <<trap, trapped, wanted>>
      BY <1>1, <2>1 DEF Inv, Kept, SameRuns
    <2>2. CASE /\ trap' \in Dispositions /\ wanted' = trap'
               /\ (trapped' <=> trap' \in Strings \cup {"ignore"})
      <3>1. trap' # "impossible"
        BY <2>2, SigchldAssumption DEF Dispositions
      <3> QED BY <2>2, <3>1 DEF Kept
    <2> QED BY <2>1, <2>2
  <1>8. EachChildTrapped'
    BY <1>1 DEF Inv, EachChildTrapped, SameRuns
  <1>9. NoneForgotten'
    <2>1. pending \/ Zombies \subseteq counted
      BY Unsectioned
    <2> QED BY <1>2, <2>1 DEF NoneForgotten, Zombies
  <1> QED BY <1>4, <1>5, <1>6, <1>7, <1>8, <1>9 DEF Inv

-----------------------------------------------------------------------------
(***************************************************************************)
(* Children begin and end, and the commands of the script and of traps.    *)
(***************************************************************************)
HistorySame == UNCHANGED <<counted, owed, wanted>>

LEMMA ChildExitsInv ==
  ASSUME Inv, NEW c \in Children, ChildExits(c), HistorySame
  PROVE  Inv'
  <1>1. /\ child' = [child EXCEPT ![c] = "zombie"] /\ child[c] = "running" /\ pending' = TRUE
        /\ child \in [Children -> {"unborn", "running", "zombie", "reaped"}]
        /\ UNCHANGED <<counters, traps, this_shell_builtin, stack, counted, owed, wanted>>
    BY DEF ChildExits, HistorySame, Inv, Typed
  <1>2. Zombies' = Zombies \cup {c} /\ NotReaped' = NotReaped /\ NotEnded' = NotEnded \ {c}
    BY <1>1 DEF Zombies, NotReaped, NotEnded
  <1>3. c \in NotEnded
    BY <1>1 DEF NotEnded
  <1>4. Typed'
    BY <1>1, <1>2 DEF Inv, Typed, counters, traps
  <1>5. Sections'
    BY <1>1 DEF Inv, Sections, In, Top, Depth, counters
  <1>6. Bounded'
    <2>1. Cardinality(NotEnded') = Cardinality(NotEnded) - 1
      BY <1>2, <1>3, SetsOfChildren, FS_RemoveElement
    <2>2. sigchld \in Nat /\ pending_traps \in Nat /\ Most \in Nat
      BY MostType DEF Inv, Typed
    <2> QED BY <1>1, <1>2, <2>1, <2>2, SetsOfChildren DEF Inv, Bounded, Most, counters, traps
  <1>7. Kept' /\ EachChildTrapped'
    BY <1>1 DEF Inv, Kept, EachChildTrapped, traps
  <1>8. NoneForgotten'
    BY <1>1 DEF NoneForgotten
  <1> QED BY <1>4, <1>5, <1>6, <1>7, <1>8 DEF Inv

\* A child that is started changes none of the sets the invariant is about.
LEMMA Started ==
  ASSUME Inv, NEW c \in Children, child[c] = "unborn", child' = [child EXCEPT ![c] = "running"]
  PROVE  /\ child' \in [Children -> {"unborn", "running", "zombie", "reaped"}]
         /\ Zombies' = Zombies /\ NotEnded' = NotEnded /\ NotReaped' = NotReaped
  <1>1. child \in [Children -> {"unborn", "running", "zombie", "reaped"}]
    BY DEF Inv, Typed
  <1> QED BY <1>1 DEF Zombies, NotEnded, NotReaped

LEMMA SameChildren ==
  ASSUME Inv, child' = child
  PROVE  /\ child' \in [Children -> {"unborn", "running", "zombie", "reaped"}]
         /\ Zombies' = Zombies /\ NotEnded' = NotEnded /\ NotReaped' = NotReaped
  BY DEF Inv, Typed, Zombies, NotEnded, NotReaped

LEMMA BackgroundInv ==
  ASSUME Inv, NEW c \in Children, Background(c), HistorySame
  PROVE  Inv'
  <1>1. /\ child[c] = "unborn" /\ child' = [child EXCEPT ![c] = "running"]
        /\ this_shell_builtin' = "other"
        /\ UNCHANGED <<pending, counters, traps, stack, counted, owed, wanted>>
    BY DEF Background, StartCommand, HistorySame
  <1>2. /\ child' \in [Children -> {"unborn", "running", "zombie", "reaped"}]
        /\ Zombies' = Zombies /\ NotEnded' = NotEnded /\ NotReaped' = NotReaped
    BY <1>1, Started
  <1>3. Typed'
    BY <1>1, <1>2 DEF Inv, Typed, counters, traps
  <1>4. Sections' /\ Bounded'
    BY <1>1, <1>2 DEF Inv, Sections, Bounded, In, Top, Depth, counters, traps
  <1>5. Kept' /\ EachChildTrapped'
    BY <1>1 DEF Inv, Kept, EachChildTrapped, traps
  <1>6. NoneForgotten'
    BY <1>1, <1>2 DEF Inv, NoneForgotten, Covered, In, Top, Depth, counters
  <1> QED BY <1>3, <1>4, <1>5, <1>6 DEF Inv

\* Commands are executed with queue_sigchld at most 1, outside of sections.
LEMMA CommandsAre ==
  ASSUME Inv, Commands
  PROVE  stack # <<>> /\ ~In(Raised) /\ queue_sigchld \in 0 .. 1
  BY DEF Commands, In, Raised, Inv, Sections

LEMMA PushedFrames ==
  /\ \A c \in Children : [kind |-> "start", pid |-> c] \in OtherFrames
  /\ \A n \in Nat : [kind |-> "cleanup", os |-> n] \in OtherFrames
  /\ \A value \in Dispositions : [kind |-> "trap_builtin", first_arg |-> value] \in OtherFrames
  /\ [kind |-> "notify"] \in OtherFrames /\ [kind |-> "reaping"] \in OtherFrames
  BY DEF OtherFrames

LEMMA PushingInv ==
  ASSUME Inv, HistorySame,
         \/ \E c \in Children : Foreground(c) \/ Wait(c)
         \/ \E first_arg \in Strings \cup {"ignore", "default"} : TrapBuiltin(first_arg)
         \/ QueueSigchld \/ BeginNotify
  PROVE  Inv'
  <1> USE PushedFrames DEF HistorySame, kernel, counters
  <1>1. ASSUME NEW c \in Children, Foreground(c) PROVE Inv'
    <2> DEFINE f == [kind |-> "start", pid |-> c]
    <2>1. /\ Commands /\ Push(f) /\ child[c] = "unborn" /\ child' = [child EXCEPT ![c] = "running"]
          /\ UNCHANGED <<pending, counters, traps>> /\ this_shell_builtin' = "other"
      BY <1>1 DEF Foreground, StartCommand
    <2>2. f \in OtherFrames /\ f.kind = "start"
      OBVIOUS
    <2> HIDE DEF f
    <2> QED BY <2>1, <2>2, CommandsAre, Started, PushInv DEF Raised
  <1>2. ASSUME NEW c \in Children, Wait(c) PROVE Inv'
    <2> DEFINE f == [kind |-> "start", pid |-> c]
    <2>1. /\ Commands /\ Push(f)
          /\ UNCHANGED <<kernel, counters, traps>> /\ this_shell_builtin' \in {"wait", "other"}
      BY <1>2 DEF Wait, StartCommand
    <2>2. f \in OtherFrames /\ f.kind = "start"
      OBVIOUS
    <2> HIDE DEF f
    <2> QED BY <2>1, <2>2, CommandsAre, SameChildren, PushInv DEF Raised
  <1>3. ASSUME NEW first_arg \in Strings \cup {"ignore", "default"}, TrapBuiltin(first_arg)
        PROVE  Inv'
    <2> DEFINE f == [kind |-> "trap_builtin", first_arg |-> first_arg]
    <2>1. /\ Commands /\ Push(f)
          /\ UNCHANGED <<kernel, counters, traps>> /\ this_shell_builtin' = "other"
      BY <1>3 DEF TrapBuiltin, StartCommand
    <2>2. f \in OtherFrames /\ f.kind = "trap_builtin"
      BY DEF Dispositions
    <2> HIDE DEF f
    <2> QED BY <2>1, <2>2, CommandsAre, SameChildren, PushInv DEF Raised
  <1>4. CASE QueueSigchld
    <2> DEFINE f == [kind |-> "cleanup", os |-> sigchld]
    <2>1. /\ Commands /\ Push(f) /\ queue_sigchld' = queue_sigchld + 1
          /\ UNCHANGED <<kernel, sigchld, traps, this_shell_builtin>>
      BY <1>4 DEF QueueSigchld
    <2>2. f \in OtherFrames /\ f.kind = "cleanup" /\ f.os = sigchld
      BY DEF Inv, Typed
    <2>3. this_shell_builtin' \in {"wait", "other"}
      BY <2>1 DEF Inv, Typed
    <2>4. queue_sigchld' \in 1 .. 2
      BY <2>1, CommandsAre
    <2> HIDE DEF f
    <2> QED BY <2>1, <2>2, <2>3, <2>4, CommandsAre, SameChildren, PushInv DEF Raised
  <1>5. CASE BeginNotify
    <2> DEFINE f == [kind |-> "notify"]
    <2>1. /\ Commands /\ Push(f) /\ queue_sigchld' = queue_sigchld + 1
          /\ UNCHANGED <<kernel, sigchld, traps, this_shell_builtin>>
      BY <1>5 DEF BeginNotify, Frame
    <2>2. f \in OtherFrames /\ f.kind = "notify"
      OBVIOUS
    <2>3. this_shell_builtin' \in {"wait", "other"}
      BY <2>1 DEF Inv, Typed
    <2>4. queue_sigchld' \in 1 .. 2
      BY <2>1, CommandsAre
    <2> HIDE DEF f
    <2> QED BY <2>1, <2>2, <2>3, <2>4, CommandsAre, SameChildren, PushInv DEF Raised
  <1> QED BY <1>1, <1>2, <1>3, <1>4, <1>5

LEMMA PoppingInv ==
  ASSUME Inv, HSame(EndReaping) \/ HSame(EndNotify) \/ HSame(LeaveWaitFor)
  PROVE  Inv'
  <1>1. CASE HSame(EndReaping)
    <2>1. stack # <<>> /\ Top.kind = "reaping" /\ Pop /\ queue_sigchld' = 0
      BY <1>1 DEF HSame, EndReaping, In
    <2>2. ~Covered
      BY <2>1 DEF Covered, In
    <2>3. UNCHANGED <<kernel, sigchld, trap, trapped, inprogress, running_trap, pending_traps,
                      catch_flag, this_shell_builtin, counted, owed, wanted>>
      BY <1>1 DEF HSame, EndReaping, traps
    <2> QED BY <2>1, <2>2, <2>3, PopInv
  <1>2. CASE HSame(EndNotify)
    <2>1. stack # <<>> /\ Top.kind = "notify" /\ Pop /\ queue_sigchld' = queue_sigchld - 1
      BY <1>2 DEF HSame, EndNotify, In
    <2>2. ~Covered
      BY <2>1 DEF Covered, In
    <2>3. queue_sigchld' \in 0 .. 1
      BY <2>1 DEF Inv, Sections, In, Raised
    <2>4. UNCHANGED <<kernel, sigchld, trap, trapped, inprogress, running_trap, pending_traps,
                      catch_flag, this_shell_builtin, counted, owed, wanted>>
      BY <1>2 DEF HSame, EndNotify, traps
    <2> QED BY <2>1, <2>2, <2>3, <2>4, PopInv
  <1>3. CASE HSame(LeaveWaitFor)
    <2>1. stack # <<>> /\ Top.kind = "wait_for" /\ Pop /\ queue_sigchld' = queue_sigchld
      BY <1>3 DEF HSame, LeaveWaitFor, In, counters
    <2>2. ~Covered
      BY <2>1 DEF Covered, In
    <2>3. queue_sigchld' \in 0 .. 1
      BY <2>1 DEF Inv, Sections, In, Raised
    <2>4. UNCHANGED <<kernel, sigchld, trap, trapped, inprogress, running_trap, pending_traps,
                      catch_flag, this_shell_builtin, counted, owed, wanted>>
      BY <1>3 DEF HSame, LeaveWaitFor, traps, counters
    <2> QED BY <2>1, <2>2, <2>3, <2>4, PopInv
  <1> QED BY <1>1, <1>2, <1>3

\* The trap builtin: what it sets is what was asked for, and where it leaves the
\* sentinel the trap that is held back stays the one that was asked for.
LEMMA TrapBuiltinInv ==
  ASSUME Inv,
         \/ HWant(SetSignal, Top.first_arg)
         \/ HWant(IgnoreSignal, "ignore")
         \/ HWant(RestoreDefaultSignal,
                  IF trapped \/ inprogress \/ trap # "impossible" THEN "default" ELSE wanted)
  PROVE  Inv'
  <1>1. ASSUME stack # <<>>, Top.kind = "trap_builtin", NEW value, NEW is_trapped,
               ChangeSignal(value, is_trapped), UNCHANGED <<counted, owed>>,
               \/ UNCHANGED <<trap, trapped, wanted>>
               \/ /\ trap' \in Dispositions /\ wanted' = trap'
                  /\ trapped' \in BOOLEAN /\ (trapped' <=> trap' \in Strings \cup {"ignore"})
        PROVE  Inv'
    <2>1. ~Covered
      BY <1>1 DEF Covered, In
    <2>2. queue_sigchld' \in 0 .. 1
      BY <1>1 DEF ChangeSignal, counters, Inv, Sections, In, Raised
    <2>3. /\ Pop
          /\ UNCHANGED <<kernel, sigchld, inprogress, running_trap, pending_traps,
                         catch_flag, this_shell_builtin, counted, owed>>
      BY <1>1 DEF ChangeSignal, counters
    <2> QED BY <1>1, <2>1, <2>2, <2>3, PopInv
  <1>2. CASE HWant(SetSignal, Top.first_arg)
    <2>1. /\ stack # <<>> /\ Top.kind = "trap_builtin" /\ Top.first_arg \in Strings
          /\ ChangeSignal(Top.first_arg, TRUE) /\ wanted' = Top.first_arg
          /\ UNCHANGED <<counted, owed>>
      BY <1>2 DEF HWant, SetSignal, In
    <2>2. trap' = Top.first_arg /\ trapped' = TRUE
      BY <2>1 DEF ChangeSignal
    <2> QED BY <1>1, <2>1, <2>2 DEF Dispositions
  <1>3. CASE HWant(IgnoreSignal, "ignore")
    <2>1. /\ stack # <<>> /\ Top.kind = "trap_builtin"
          /\ ChangeSignal("ignore", TRUE) /\ wanted' = "ignore"
          /\ UNCHANGED <<counted, owed>>
      BY <1>3 DEF HWant, IgnoreSignal, In
    <2>2. trap' = "ignore" /\ trapped' = TRUE
      BY <2>1 DEF ChangeSignal
    <2> QED BY <1>1, <2>1, <2>2 DEF Dispositions
  <1>4. CASE HWant(RestoreDefaultSignal,
                   IF trapped \/ inprogress \/ trap # "impossible" THEN "default" ELSE wanted)
    <2>1. /\ stack # <<>> /\ Top.kind = "trap_builtin"
          /\ ChangeSignal(IF Reverts THEN "default" ELSE trap, FALSE)
          /\ wanted' = IF trapped \/ inprogress \/ trap # "impossible" THEN "default" ELSE wanted
          /\ UNCHANGED <<counted, owed>>
      BY <1>4 DEF HWant, RestoreDefaultSignal, In
    <2>2. trap' = (IF Reverts THEN "default" ELSE trap) /\ trapped' = FALSE
      BY <2>1 DEF ChangeSignal
    <2>3. /\ trap \in Dispositions \cup {"impossible"} /\ trapped \in BOOLEAN
          /\ trapped <=> trap \in Strings \cup {"ignore"}
          /\ "default" \notin Strings \cup {"ignore"}
      BY SigchldAssumption DEF Inv, Typed, Kept
    <2>4. CASE Reverts
      <3>1. trap' = "default" /\ wanted' = "default"
        BY <2>1, <2>2, <2>4 DEF Reverts
      <3> QED BY <1>1, <2>1, <2>2, <2>3, <3>1 DEF Dispositions
    <2>5. CASE ~Reverts /\ trap = "impossible"
      <3>1. UNCHANGED <<trap, trapped, wanted>>
        BY <2>1, <2>2, <2>3, <2>5 DEF Reverts
      <3> QED BY <1>1, <2>1, <3>1
    <2>6. CASE ~Reverts /\ trap # "impossible"
      <3>1. trap = "default"
        BY <2>3, <2>6 DEF Reverts, Dispositions
      <3>2. trap' = "default" /\ wanted' = "default"
        BY <2>1, <2>2, <2>6, <3>1
      <3> QED BY <1>1, <2>1, <2>2, <2>3, <3>2 DEF Dispositions
    <2> QED BY <2>4, <2>5, <2>6
  <1> QED BY <1>2, <1>3, <1>4

LEMMA EnterWaitForInv == Inv /\ HSame(EnterWaitFor) => Inv'
  <1> SUFFICES ASSUME Inv, HSame(EnterWaitFor) PROVE Inv'
    OBVIOUS
  <1> DEFINE f == [Top EXCEPT !.kind = "wait_for"]
  <1>1. /\ stack # <<>> /\ Top.kind = "start"
        /\ stack' = [stack EXCEPT ![Depth].kind = "wait_for"]
        /\ UNCHANGED <<kernel, counters, traps, this_shell_builtin, counted, owed, wanted>>
    BY DEF HSame, EnterWaitFor, In
  <1>2. Depth \in Nat \ {0} /\ Top \in FrameType /\ Top = stack[Depth] /\ Depth = Len(stack)
    BY <1>1, TopOfStack DEF Inv, Typed, Top, Depth
  <1>3. Top \in [kind : {"start", "wait_for"}, pid : Children]
    BY <1>1, <1>2 DEF FrameType, OtherFrames, TrapFrames
  <1>4. f \in FrameType /\ f.kind = "wait_for"
    BY <1>3 DEF FrameType, OtherFrames
  <1>5. stack' = Append(Front(stack), f)
    <2>1. stack' = [stack EXCEPT ![Len(stack)] = f]
      BY <1>1, <1>2 DEF Inv, Typed
    <2>2. stack \in Seq(FrameType)
      BY DEF Inv, Typed
    <2> HIDE DEF f
    <2>3. [stack EXCEPT ![Len(stack)] = f] = Append(Front(stack), f)
      BY <1>1, <1>4, <2>2, ReplacedTop
    <2> QED BY <2>1, <2>3
  <1> HIDE DEF f
  <1>6. /\ SameRuns(stack') /\ stack' # <<>> /\ Top' = f
        /\ Len(stack') = Len(stack) /\ Len(stack) \in Nat \ {0}
        /\ \A d \in 1 .. Len(stack) - 1 : stack'[d] = stack[d]
    BY <1>1, <1>4, <1>5, ReplaceFacts DEF Inv, Typed
  <1>7. Typed'
    BY <1>1, <1>6 DEF Inv, Typed, SameRuns, Zombies, kernel, counters, traps
  <1>8. Sections'
    <2>1. ~In(Raised)' /\ ~In({"cleanup"})' /\ ~In(Raised)
      BY <1>1, <1>4, <1>6 DEF In, Raised
    <2> QED BY <1>1, <1>6, <2>1 DEF Inv, Sections, counters
  <1>9. Bounded'
    BY <1>1 DEF Inv, Bounded, NotEnded, NotReaped, kernel, counters, traps
  <1>10. Kept' /\ EachChildTrapped'
    BY <1>1, <1>6 DEF Inv, Kept, EachChildTrapped, SameRuns, traps
  <1>11. NoneForgotten'
    <2>1. ~Covered
      BY <1>1 DEF Covered, In
    <2> QED BY <1>1, <2>1, Unsectioned DEF NoneForgotten, Zombies, kernel
  <1> QED BY <1>7, <1>8, <1>9, <1>10, <1>11 DEF Inv

LEMMA UnchangedInv ==
  ASSUME Inv, UNCHANGED hvars \/ HSame(OtherSignal)
  PROVE  Inv'
  <1>1. /\ UNCHANGED <<kernel, counters, trap, trapped, inprogress, running_trap, pending_traps,
                       this_shell_builtin, stack, counted, owed, wanted>>
        /\ catch_flag' \in BOOLEAN
    BY DEF hvars, vars, traps, HSame, OtherSignal, Inv, Typed
  <1>2. Typed'
    BY <1>1 DEF Inv, Typed, Zombies, kernel, counters
  <1>3. Sections' /\ Bounded'
    BY <1>1 DEF Inv, Sections, Bounded, NotEnded, NotReaped, In, Top, Depth, kernel, counters
  <1>4. Kept' /\ EachChildTrapped'
    BY <1>1 DEF Inv, Kept, EachChildTrapped
  <1>5. NoneForgotten'
    BY <1>1 DEF Inv, NoneForgotten, Covered, In, Top, Depth, Zombies, kernel, counters
  <1> QED BY <1>2, <1>3, <1>4, <1>5 DEF Inv

-----------------------------------------------------------------------------
(***************************************************************************)
(* Children are reaped, and the trap is dispatched.                        *)
(***************************************************************************)
LEMMA LoweredType ==
  ASSUME NEW count \in Nat, NEW calls \in Nat
  PROVE  /\ Lowered(count, calls) \in Nat /\ Lowered(count, calls) <= count
         /\ count > 0 /\ calls > 0 => Lowered(count, calls) < count
  <1>1. count - calls \in Int /\ 0 \in Int
    OBVIOUS
  <1>2. Lowered(count, calls) = IF 0 >= count - calls THEN 0 ELSE count - calls
    BY <1>1, LargerOf DEF Lowered
  <1> QED BY <1>1, <1>2

\* What becomes of the children: those of the set are reaped, which were zombies
\* or have ended meanwhile.
LEMMA ReapsFacts ==
  ASSUME Inv, NEW set, set \subseteq Zombies \cup Running, Reaps(set)
  PROVE  /\ child' \in [Children -> {"unborn", "running", "zombie", "reaped"}]
         /\ Zombies' = Zombies \ set /\ NewlyReaped = set
         /\ NotEnded' = NotEnded \ set /\ NotReaped' = NotReaped \ set
         /\ Cardinality(set) \in 0 .. Most
         /\ Cardinality(NotReaped') = Cardinality(NotReaped) - Cardinality(set)
         /\ Cardinality(NotEnded') \in Nat
         /\ Cardinality(NotEnded') <= Cardinality(NotEnded)
  <1>1. /\ child \in [Children -> {"unborn", "running", "zombie", "reaped"}]
        /\ child' = [c \in Children |-> IF c \in set THEN "reaped" ELSE child[c]]
        /\ \A c \in set : c \in Children /\ child[c] \in {"zombie", "running"}
    BY DEF Inv, Typed, Reaps, Zombies, Running
  <1>2. child' \in [Children -> {"unborn", "running", "zombie", "reaped"}]
    BY <1>1
  <1>3. /\ Zombies' = Zombies \ set
        /\ NotEnded' = NotEnded \ set /\ NotReaped' = NotReaped \ set
    BY <1>1 DEF Zombies, NotEnded, NotReaped
  <1>4. NewlyReaped = set
    BY <1>1 DEF NewlyReaped
  <1>5. IsFiniteSet(set) /\ Cardinality(set) \in Nat /\ Cardinality(set) <= Most
    BY <1>1, SigchldAssumption, FS_Subset, FS_CardinalityType DEF Most
  <1>6. Cardinality(NotReaped') = Cardinality(NotReaped) - Cardinality(set)
    <2>1. NotReaped \cap set = set
      BY <1>1 DEF NotReaped
    <2>2. Cardinality(NotReaped \ set) = Cardinality(NotReaped) - Cardinality(NotReaped \cap set)
      BY SetsOfChildren, FS_Difference
    <2> QED BY <1>3, <2>1, <2>2
  <1>7. Cardinality(NotEnded') \in Nat /\ Cardinality(NotEnded') <= Cardinality(NotEnded)
    BY <1>3, SetsOfChildren, FS_Subset, FS_CardinalityType
  <1> QED BY <1>2, <1>3, <1>4, <1>5, <1>6, <1>7, MostType

\* The four outcomes: no trap is due, it is queued, it is run, or the shell dumps
\* core.
Dispatched(frames, n, by) ==
    \/ /\ n = 0 \/ ~Watched
       /\ stack' = frames /\ UNCHANGED <<trap, trapped, pending_traps>>
    \/ /\ Watched
       /\ stack' = frames /\ pending_traps' = pending_traps + n /\ UNCHANGED <<trap, trapped>>
    \/ /\ Watched /\ n > 0
       /\ trap \in Strings
       /\ stack' = Append(frames, TrapFrame(n, by))
       /\ trap' = "impossible" /\ trapped' = FALSE /\ pending_traps' = pending_traps
    \/ stack' = <<>> /\ UNCHANGED <<trap, trapped, pending_traps>>

LEMMA DispatchOutcome ==
  ASSUME Inv, NEW frames, NEW n \in 0 .. Most, NEW by, Dispatch(frames, n, by)
  PROVE  /\ Dispatched(frames, n, by)
         /\ UNCHANGED <<inprogress, this_shell_builtin>>
         /\ running_trap' \in BOOLEAN /\ catch_flag' \in BOOLEAN
  <1>0. n \in Nat /\ running_trap \in BOOLEAN /\ catch_flag \in BOOLEAN
    BY MostType DEF Inv, Typed
  <1>1. CASE n = 0 \/ ~(trapped \/ trap = "impossible") \/ trap = "ignore"
    <2>1. stack' = frames /\ UNCHANGED <<traps, this_shell_builtin>> /\ (n = 0 \/ ~Watched)
      BY <1>1 DEF Dispatch, Watched
    <2> QED BY <1>0, <2>1 DEF Dispatched, traps
  <1>2. CASE ~(n = 0 \/ ~(trapped \/ trap = "impossible") \/ trap = "ignore")
    <2>1. Watched /\ n > 0
      BY <1>0, <1>2 DEF Watched
    <2>2. CASE stack' = frames /\ QueueTrap(n)
      BY <1>0, <2>1, <2>2 DEF Dispatched, QueueTrap
    <2>3. CASE ~(stack' = frames /\ QueueTrap(n))
      <3>1. /\ RunTrap(frames, n, by)
            /\ UNCHANGED <<inprogress, pending_traps, catch_flag, this_shell_builtin>>
        BY <1>2, <2>3 DEF Dispatch
      <3> QED BY <1>0, <2>1, <3>1 DEF Dispatched, RunTrap
    <2> QED BY <2>2, <2>3
  <1> QED BY <1>1, <1>2

LEMMA ReapInv ==
  ASSUME Inv, stack # <<>>, NEW set, set \subseteq Zombies \cup Running, Reaps(set),
         NEW frames, SameRuns(frames), frames # <<>>,
         \A d \in 1 .. Len(frames) : frames[d].kind \notin Raised,
         NEW by \in {"handler", "waitchld", "pending"}, Dispatch(frames, Cardinality(set), by),
         counted' = counted \ NewlyReaped, UNCHANGED wanted,
         owed' = IF Watched THEN owed + Cardinality(NewlyReaped) ELSE owed,
         pending' \in BOOLEAN, sigchld' \in Nat,
         sigchld' + (IF pending' THEN 1 ELSE 0) + Cardinality(NotEnded') <= Most,
         queue_sigchld' \in 0 .. 1,
         pending' \/ Zombies' \subseteq counted'
  PROVE  Inv'
  <1> DEFINE n == Cardinality(set)
  <1>1. /\ child' \in [Children -> {"unborn", "running", "zombie", "reaped"}]
        /\ Zombies' = Zombies \ set /\ NewlyReaped = set
        /\ n \in 0 .. Most /\ n \in Nat
        /\ Cardinality(NotReaped') = Cardinality(NotReaped) - n
    BY ReapsFacts, MostType
  <1>2. /\ Dispatched(frames, n, by)
        /\ UNCHANGED <<inprogress, this_shell_builtin>>
        /\ running_trap' \in BOOLEAN /\ catch_flag' \in BOOLEAN
    BY <1>1, DispatchOutcome
  <1> HIDE DEF n
  <1>3. /\ frames \in Seq(FrameType) /\ Total(Left(frames)) = Total(Left(stack))
        /\ Total(Left(stack)) \in Int
        /\ \A value : HeldIn(frames, value) <=> HeldIn(stack, value)
    BY LeftTyped DEF SameRuns, Inv, Typed
  <1>4. /\ Typed /\ Kept /\ owed = pending_traps + Total(Left(stack))
        /\ pending_traps \in Nat /\ owed \in Int
    BY DEF Inv, EachChildTrapped, Typed
  <1> DEFINE f == TrapFrame(n, by)
  <1>5. /\ f.kind = "trap" /\ f.command = trap /\ Runs(f) = n
        /\ trap \in Strings /\ n > 0 => f \in FrameType
    <2>1. f.kind = "trap" /\ f.command = trap /\ f.left = n
      BY DEF TrapFrame
    <2>2. ASSUME trap \in Strings, n > 0 PROVE f \in FrameType
      <3>1. n \in 1 .. Most /\ this_shell_builtin \in {"wait", "other"}
        BY <1>1, <1>4, <2>2 DEF Typed
      <3> QED BY <2>2, <3>1 DEF TrapFrame, FrameType, TrapFrames
    <2> QED BY <2>1, <2>2 DEF Runs
  <1>6. ASSUME /\ stack' \in Seq(FrameType) /\ ~In(Raised)' /\ ~In({"cleanup"})'
               /\ \A d \in 1 .. Len(stack') - 1 : stack'[d].kind \notin Raised
               /\ trap' \in Dispositions \cup {"impossible"} /\ trapped' \in BOOLEAN
               /\ pending_traps' \in Nat /\ pending_traps' <= pending_traps + n
               /\ stack' # <<>> => owed' = pending_traps' + Total(Left(stack'))
               /\ Kept'
        PROVE  Inv'
    <2>1. /\ this_shell_builtin' \in {"wait", "other"} /\ inprogress' \in BOOLEAN
          /\ wanted' \in Dispositions /\ owed' \in Int
      BY <1>1, <1>2, <1>4 DEF Typed, n
    <2>2. counted' \subseteq Zombies'
      BY <1>1, <1>4 DEF Typed
    <2>3. Typed'
      BY <1>1, <1>2, <1>6, <2>1, <2>2 DEF Typed
    <2>4. Sections'
      BY <1>6 DEF Sections
    <2>5. Bounded'
      <3>1. pending_traps + Cardinality(NotReaped) <= Most
        BY DEF Inv, Bounded
      <3>2. pending_traps' + Cardinality(NotReaped') <= Most
        BY <1>1, <1>4, <1>6, <3>1, SetsOfChildren, MostType
      <3> QED BY <3>2 DEF Bounded, Most
    <2>6. NoneForgotten'
      BY DEF NoneForgotten
    <2> QED BY <1>6, <2>3, <2>4, <2>5, <2>6 DEF Inv, EachChildTrapped
  <1>7. CASE stack' = frames /\ UNCHANGED <<trap, trapped>>
    <2>1. owed' = pending_traps' + Total(Left(stack')) /\ pending_traps' \in {pending_traps, pending_traps + n}
      <3>1. CASE (n = 0 \/ ~Watched) /\ pending_traps' = pending_traps
        BY <1>1, <1>3, <1>4, <1>7, <3>1 DEF n
      <3>2. CASE Watched /\ pending_traps' = pending_traps + n
        BY <1>1, <1>3, <1>4, <1>7, <3>2 DEF n
      <3> QED BY <1>2, <1>7, <3>1, <3>2 DEF Dispatched
    <2>2. pending_traps' \in Nat /\ pending_traps' <= pending_traps + n
      BY <1>1, <1>4, <2>1
    <2>3. trap' \in Dispositions \cup {"impossible"} /\ trapped' \in BOOLEAN
      BY <1>4, <1>7 DEF Typed
    <2>4. Len(stack') \in Nat /\ stack' \in Seq(FrameType) /\ stack' # <<>> /\ ~In(Raised)' /\ ~In({"cleanup"})'
      <3>1. Len(stack') \in Nat \ {0} /\ Top' = stack'[Len(stack')]
        BY <1>3, <1>7 DEF Top, Depth
      <3> QED BY <1>3, <1>7, <3>1 DEF In, Raised
    <2>5. Kept'
      BY <1>3, <1>4, <1>7 DEF Kept
    <2>6. \A d \in 1 .. Len(stack') - 1 : stack'[d].kind \notin Raised
      BY <1>7, <2>4
    <2> QED BY <2>1, <2>2, <2>3, <2>4, <2>5, <2>6, <1>6
  <1>8. CASE /\ Watched /\ n > 0 /\ trap \in Strings
             /\ stack' = Append(frames, f)
             /\ trap' = "impossible" /\ trapped' = FALSE /\ pending_traps' = pending_traps
    <2>1. f \in FrameType
      BY <1>5, <1>8
    <2>2. /\ Len(frames) \in Nat \ {0} /\ Len(stack') = Len(frames) + 1
          /\ stack' \in Seq(FrameType) /\ stack' # <<>> /\ Top' = f
          /\ \A d \in 1 .. Len(frames) : stack'[d] = frames[d]
      BY <1>3, <1>8, <2>1 DEF Top, Depth
    <2>3. Total(Left(stack')) = Total(Left(stack)) + n
      BY <1>3, <1>5, <1>8, <2>1, LeftAppend
    <2>4. owed' = pending_traps' + Total(Left(stack'))
      BY <1>1, <1>3, <1>4, <1>8, <2>3 DEF n
    <2>5. ~In(Raised)' /\ ~In({"cleanup"})'
      BY <1>5, <2>2 DEF In, Raised
    <2>6. \A d \in 1 .. Len(stack') - 1 : stack'[d].kind \notin Raised
      BY <2>2
    <2>7. trap = wanted /\ "impossible" \notin Strings
      BY <1>4, <1>8, SigchldAssumption DEF Kept
    <2>8. HeldIn(stack', wanted)
      BY <1>3, <1>5, <1>8, <2>1, <2>7, HeldAppend
    <2>9. Kept'
      BY <1>8, <2>7, <2>8 DEF Kept
    <2>10. /\ trap' \in Dispositions \cup {"impossible"} /\ trapped' \in BOOLEAN
           /\ pending_traps' \in Nat /\ pending_traps' <= pending_traps + n
      <3>1. pending_traps' \in Nat /\ pending_traps' <= pending_traps + n
        <4>1. n \in Nat /\ pending_traps \in Nat /\ pending_traps' = pending_traps
          BY <1>1, <1>4, <1>8
        <4> QED BY <4>1
      <3> QED BY <1>8, <3>1
    <2> QED BY <1>6, <2>2, <2>4, <2>5, <2>6, <2>9, <2>10
  <1>9. CASE stack' = <<>> /\ UNCHANGED <<trap, trapped, pending_traps>>
    <2>1. /\ Len(stack') = 0 /\ stack' \in Seq(FrameType)
          /\ ~In(Raised)' /\ ~In({"cleanup"})'
      BY <1>9 DEF In
    <2>2. Kept'
      BY <1>4, <1>9 DEF Kept
    <2> QED BY <1>1, <1>4, <1>6, <1>9, <2>1, <2>2 DEF Typed
  <1> QED BY <1>2, <1>7, <1>8, <1>9 DEF Dispatched

LEMMA SameStack == stack \in Seq(FrameType) => SameRuns(stack)
  BY DEF SameRuns

LEMMA HandlerInv == ASSUME Inv, NEW late \in SUBSET Running, HHandler(late) PROVE Inv'
  <1>1. /\ stack # <<>> /\ pending /\ queue_sigchld' = queue_sigchld
        /\ UNCHANGED wanted /\ Handler(late)
        /\ owed' = IF Watched THEN owed + Cardinality(NewlyReaped) ELSE owed
    BY DEF HHandler, Handler
  <1>2. /\ stack \in Seq(FrameType) /\ queue_sigchld \in 0 .. 2 /\ sigchld \in Nat
        /\ Depth \in Nat \ {0} /\ Top = stack[Depth] /\ Top \in FrameType
    BY <1>1, TopOfStack DEF Inv, Typed, Top
  <1>3. sigchld + 1 + Cardinality(NotEnded) <= Most
    BY <1>1 DEF Inv, Bounded
  <1>4. CASE queue_sigchld = 0
    <2> DEFINE found == Zombies \cup late
               calls == Cardinality(found) + 1
    <2>1. /\ Reaps(found) /\ found \subseteq Zombies \cup Running
          /\ pending' = (late # {})
          /\ sigchld' = Lowered(sigchld + 1, calls)
          /\ Dispatch(stack, Cardinality(found), "handler")
          /\ counted' = counted \ NewlyReaped
      BY <1>4 DEF HHandler, Handler
    <2> HIDE DEF found
    <2>2. /\ Zombies' = Zombies \ found /\ Cardinality(found) \in Nat
          /\ Cardinality(NotEnded') \in Nat
          /\ Cardinality(NotEnded') <= Cardinality(NotEnded)
      BY <2>1, ReapsFacts, MostType
    <2>3. sigchld' \in Nat /\ sigchld' < sigchld + 1
      <3>1. sigchld + 1 \in Nat /\ calls \in Nat /\ calls > 0 /\ sigchld + 1 > 0
        BY <1>2, <2>2
      <3> HIDE DEF calls
      <3> QED BY <2>1, <3>1, LoweredType
    <2>4. sigchld' + (IF pending' THEN 1 ELSE 0) + Cardinality(NotEnded') <= Most
      BY <1>2, <1>3, <2>2, <2>3, SetsOfChildren, MostType
    <2>5. Zombies' = {}
      BY <2>2 DEF found
    <2>6. \A d \in 1 .. Len(stack) : stack[d].kind \notin Raised
      <3>1. ~In(Raised)
        BY <1>4 DEF Inv, Sections
      <3>2. Top.kind \notin Raised
        BY <1>1, <3>1 DEF In
      <3> QED BY <1>2, <3>2 DEF Inv, Sections, Depth
    <2>7. SameRuns(stack) /\ queue_sigchld' \in 0 .. 1 /\ pending' \in BOOLEAN
      BY <1>1, <1>2, <1>4, <2>1, SameStack
    <2> QED BY <1>1, <2>1, <2>3, <2>4, <2>5, <2>6, <2>7, ReapInv
  <1>5. CASE queue_sigchld # 0
    <2>1. /\ pending' = FALSE /\ sigchld' = sigchld + 1 /\ child' = child
          /\ UNCHANGED <<traps, this_shell_builtin, stack>>
          /\ counted' = IF ~Covered THEN counted \cup Zombies ELSE counted \ NewlyReaped
      BY <1>2, <1>5 DEF HHandler, Handler
    <2>2. NewlyReaped = {} /\ Cardinality(NewlyReaped) = 0 /\ Zombies' = Zombies
      BY <2>1, FS_EmptySet DEF NewlyReaped, Zombies
    <2>3. owed' = owed
      BY <1>1, <2>2 DEF Inv, Typed
    <2>4. Typed'
      <3>1. counted' \subseteq Zombies'
        BY <2>1, <2>2 DEF Inv, Typed
      <3>2. sigchld' \in Nat
        <4>1. sigchld' = sigchld + 1
          BY <2>1
        <4> QED BY <1>2, <4>1
      <3>3. pending' \in BOOLEAN
        BY <2>1
      <3> QED BY <1>1, <2>1, <2>3, <3>1, <3>2, <3>3 DEF Inv, Typed, traps
    <2>5. Sections'
      <3>1. In({"cleanup"}) => Top.os \in Nat
        BY <1>2, KindsOfFrames DEF In
      <3>2. /\ In(Raised)' = In(Raised) /\ In({"cleanup"})' = In({"cleanup"}) /\ Top' = Top
        BY <2>1 DEF In, Top, Depth
      <3>3. In({"cleanup"})' => Top'.os <= sigchld'
        BY <1>2, <2>1, <3>1, <3>2 DEF Inv, Sections
      <3> QED BY <1>1, <2>1, <3>2, <3>3 DEF Inv, Sections
    <2>6. Bounded'
      <3>1. NotEnded' = NotEnded /\ NotReaped' = NotReaped
        BY <2>1 DEF NotEnded, NotReaped
      <3> QED BY <1>2, <1>3, <2>1, <3>1, SetsOfChildren, MostType DEF Inv, Bounded, Most, traps
    <2>7. Kept'
      BY <1>1, <2>1 DEF Inv, Kept, traps
    <2>8. EachChildTrapped'
      BY <2>1, <2>3 DEF Inv, EachChildTrapped, traps
    <2>9. NoneForgotten'
      <3>1. CASE Covered
        <4>1. Covered' /\ Top' = Top /\ Top.os \in Nat /\ Top.os <= sigchld
          BY <1>1, <1>2, <2>1, <3>1, KindsOfFrames DEF Covered, In, Top, Depth, Inv, Sections
        <4>2. Top'.os # sigchld'
          BY <1>2, <2>1, <4>1
        <4> QED BY <4>1, <4>2 DEF NoneForgotten
      <3>2. CASE ~Covered
        BY <2>1, <2>2, <3>2 DEF NoneForgotten
      <3> QED BY <3>1, <3>2
    <2> QED BY <2>4, <2>5, <2>6, <2>7, <2>8, <2>9 DEF Inv
  <1> QED BY <1>4, <1>5

LEMMA ReapingFrames ==
  ASSUME stack \in Seq(FrameType), stack # <<>>, Top.kind # "trap", NEW f \in OtherFrames
  PROVE  /\ SameRuns(Append(Front(stack), f))
         /\ Append(Front(stack), f) # <<>>
         /\ Len(Append(Front(stack), f)) = Len(stack)
         /\ Append(Front(stack), f)[Len(stack)] = f
         /\ \A d \in 1 .. Len(stack) - 1 : Append(Front(stack), f)[d] = stack[d]
  <1> DEFINE rest == Front(stack)
  <1>1. /\ Depth \in Nat \ {0} /\ Depth = Len(stack)
        /\ rest \in Seq(FrameType) /\ Len(rest) = Depth - 1
        /\ \A d \in 1 .. Depth - 1 : rest[d] = stack[d]
        /\ Total(Left(rest)) \in Int
        /\ Total(Left(stack)) = Total(Left(rest)) + Runs(Top)
        /\ \A value : HeldIn(stack, value) <=> HeldIn(rest, value)
    BY TopOfStack DEF Depth
  <1>2. f \in FrameType /\ f.kind # "trap" /\ Runs(f) = 0 /\ Runs(Top) = 0
    BY OtherFramesAre DEF Runs
  <1> HIDE DEF rest
  <1>3. Total(Left(Append(rest, f))) = Total(Left(stack))
    BY <1>1, <1>2, LeftAppend
  <1>4. \A value : HeldIn(Append(rest, f), value) <=> HeldIn(stack, value)
    BY <1>1, <1>2, HeldAppend
  <1>5. /\ Append(rest, f) \in Seq(FrameType) /\ Append(rest, f) # <<>>
        /\ Len(Append(rest, f)) = Len(stack) /\ Append(rest, f)[Len(stack)] = f
        /\ \A d \in 1 .. Len(stack) - 1 : Append(rest, f)[d] = stack[d]
    <2>1. /\ Append(rest, f) \in Seq(FrameType) /\ Append(rest, f) # <<>>
          /\ Len(Append(rest, f)) = Len(rest) + 1
          /\ Append(rest, f)[Len(rest) + 1] = f
          /\ \A d \in 1 .. Len(rest) : Append(rest, f)[d] = rest[d]
      <3>1. rest \in Seq(FrameType)
        BY <1>1
      <3> QED BY <1>2, <3>1
    <2>2. Len(rest) + 1 = Len(stack) /\ Len(rest) = Len(stack) - 1
      BY <1>1
    <2> QED BY <1>1, <2>1, <2>2
  <1> QED BY <1>3, <1>4, <1>5 DEF SameRuns, rest

LEMMA UnqueueInv == ASSUME Inv, HReap(UnqueueSigchld) PROVE Inv'
  <1>1. /\ stack # <<>> /\ Top.kind = "cleanup" /\ UnqueueSigchld
        /\ counted' = counted \ NewlyReaped /\ UNCHANGED wanted
        /\ owed' = IF Watched THEN owed + Cardinality(NewlyReaped) ELSE owed
    BY DEF HReap, UnqueueSigchld, In
  <1>2. /\ stack \in Seq(FrameType) /\ sigchld \in Nat /\ owed \in Int /\ pending \in BOOLEAN
        /\ counted \subseteq Zombies
    BY DEF Inv, Typed
  <1>3. queue_sigchld \in 1 .. 2
    <2>1. In(Raised)
      BY <1>1 DEF In, Raised
    <2> QED BY <2>1 DEF Inv, Sections
  <1>4. CASE queue_sigchld = 1 /\ Top.os # sigchld
    <2> DEFINE frames == Append(Front(stack), Frame("reaping"))
               calls == Cardinality(Zombies) + 1
    <2>1. /\ Reaps(Zombies) /\ sigchld' = Lowered(sigchld, calls)
          /\ Dispatch(frames, Cardinality(Zombies), "waitchld")
          /\ UNCHANGED <<pending, queue_sigchld>>
      BY <1>1, <1>4 DEF UnqueueSigchld
    <2>2. Frame("reaping") \in OtherFrames /\ Frame("reaping").kind = "reaping"
      BY DEF Frame, OtherFrames
    <2>3. /\ SameRuns(frames) /\ frames # <<>>
          /\ Len(frames) = Len(stack) /\ frames[Len(stack)] = Frame("reaping")
          /\ \A d \in 1 .. Len(stack) - 1 : frames[d] = stack[d]
      BY <1>1, <1>2, <2>2, ReapingFrames
    <2>4. Len(stack) \in Nat
      BY <1>2
    <2> HIDE DEF frames
    <2>5. \A d \in 1 .. Len(frames) : frames[d].kind \notin Raised
      BY <2>2, <2>3, <2>4 DEF Inv, Sections, Raised
    <2>6. /\ Zombies' = Zombies \ Zombies /\ Cardinality(NotEnded') \in Nat
          /\ Cardinality(NotEnded') <= Cardinality(NotEnded)
      BY <2>1, ReapsFacts
    <2>7. sigchld' \in Nat /\ sigchld' <= sigchld
      <3>1. calls \in Nat
        BY SetsOfChildren
      <3> HIDE DEF calls
      <3> QED BY <1>2, <2>1, <3>1, LoweredType
    <2>8. sigchld' + (IF pending' THEN 1 ELSE 0) + Cardinality(NotEnded') <= Most
      BY <1>2, <2>1, <2>6, <2>7, SetsOfChildren, MostType DEF Inv, Bounded
    <2>9. queue_sigchld' \in 0 .. 1 /\ pending' \in BOOLEAN /\ Zombies' \subseteq counted'
      BY <1>2, <1>4, <2>1, <2>6
    <2> HIDE DEF calls
    <2> QED BY <1>1, <2>1, <2>3, <2>5, <2>7, <2>8, <2>9, ReapInv
  <1>5. CASE ~(queue_sigchld = 1 /\ Top.os # sigchld)
    <2>1. /\ queue_sigchld' = queue_sigchld - 1 /\ Pop
          /\ UNCHANGED <<kernel, sigchld, traps, this_shell_builtin>>
      BY <1>1, <1>5 DEF UnqueueSigchld
    <2>2. NewlyReaped = {} /\ Cardinality(NewlyReaped) = 0
      BY <2>1, FS_EmptySet DEF NewlyReaped, kernel
    <2>3. owed' = owed /\ counted' = counted
      BY <1>1, <1>2, <2>2
    <2>4. ~(Covered /\ Top.os # sigchld)
      BY <1>5 DEF Covered
    <2> QED BY <1>1, <1>3, <2>1, <2>3, <2>4, PopInv DEF traps
  <1> QED BY <1>4, <1>5

LEMMA WaitChldInv == ASSUME Inv, NEW set \in SUBSET Zombies, HReap(WaitChld(set)) PROVE Inv'
  <1>1. /\ stack # <<>> /\ Top.kind = "wait_for" /\ WaitChld(set)
        /\ counted' = counted \ NewlyReaped /\ UNCHANGED wanted
        /\ owed' = IF Watched THEN owed + Cardinality(NewlyReaped) ELSE owed
        /\ Reaps(set) /\ Dispatch(stack, Cardinality(set), "waitchld") /\ pending' = pending
        /\ queue_sigchld' \in 0 .. 1
    BY DEF HReap, WaitChld, In
  <1>2. /\ stack \in Seq(FrameType) /\ sigchld \in Nat /\ pending \in BOOLEAN
        /\ Depth \in Nat \ {0} /\ Depth = Len(stack) /\ Top = stack[Depth]
    BY <1>1 DEF Inv, Typed, Top, Depth
  <1>3. \A d \in 1 .. Len(stack) : stack[d].kind \notin Raised
    BY <1>1, <1>2 DEF Inv, Sections, Raised
  <1>4. /\ Zombies' = Zombies \ set /\ NewlyReaped = set /\ Cardinality(NotEnded') \in Nat
        /\ Cardinality(NotEnded') <= Cardinality(NotEnded)
    BY <1>1, ReapsFacts
  <1>5. sigchld' \in Nat /\ sigchld' <= sigchld
    <2>1. sigchld' = 0 \/ sigchld' = Lowered(sigchld, Cardinality(Zombies) + 1)
      BY <1>1 DEF WaitChld
    <2> DEFINE calls == Cardinality(Zombies) + 1
    <2>2. calls \in Nat /\ (sigchld' = 0 \/ sigchld' = Lowered(sigchld, calls))
      BY <2>1, SetsOfChildren
    <2>3. sigchld \in Nat
      BY <1>2
    <2> HIDE DEF calls
    <2>4. Lowered(sigchld, calls) \in Nat /\ Lowered(sigchld, calls) <= sigchld
      BY <2>2, <2>3, LoweredType
    <2>5. CASE sigchld' = 0
      BY <2>3, <2>5
    <2>6. CASE sigchld' = Lowered(sigchld, calls)
      BY <2>4, <2>6
    <2> QED BY <2>2, <2>5, <2>6
  <1>6. sigchld' + (IF pending' THEN 1 ELSE 0) + Cardinality(NotEnded') <= Most
    <2>1. sigchld + (IF pending THEN 1 ELSE 0) + Cardinality(NotEnded) <= Most
      BY DEF Inv, Bounded
    <2>2. pending' = pending
      BY <1>1
    <2>3. Cardinality(NotEnded) \in Nat
      BY SetsOfChildren
    <2> QED BY <1>2, <1>4, <1>5, <2>1, <2>2, <2>3, MostType
  <1>7. pending' \/ Zombies' \subseteq counted'
    <2>1. ~Covered
      BY <1>1 DEF Covered, In
    <2>2. pending \/ Zombies \subseteq counted
      BY <1>1, <2>1, Unsectioned
    <2> QED BY <1>1, <1>4, <2>2
  <1> QED BY <1>1, <1>2, <1>3, <1>5, <1>6, <1>7, SameStack, ReapInv

-----------------------------------------------------------------------------
(***************************************************************************)
(* Pending runs are begun, and runs end.                                   *)
(***************************************************************************)
\* Where neither the children nor the counters change, and the frames of
\* sections and waits stay where they are.
LEMMA TrapRunInv ==
  ASSUME Inv, stack # <<>>, ~In(Raised), ~In(Raised)', UNCHANGED <<kernel, sigchld, counted, wanted>>,
         stack' \in Seq(FrameType),
         \A d \in 1 .. Len(stack') - 1 : stack'[d].kind \notin Raised,
         queue_sigchld' \in 0 .. 1,
         trap' \in Dispositions \cup {"impossible"}, trapped' \in BOOLEAN,
         inprogress' \in BOOLEAN, running_trap' \in BOOLEAN, catch_flag' \in BOOLEAN,
         this_shell_builtin' \in {"wait", "other"}, Kept',
         pending_traps' \in Nat, pending_traps' <= pending_traps, owed' \in Int,
         stack' # <<>> => owed' = pending_traps' + Total(Left(stack'))
  PROVE  Inv'
  <1>1. /\ child' = child /\ pending' = pending
        /\ Zombies' = Zombies /\ NotEnded' = NotEnded /\ NotReaped' = NotReaped
    BY DEF kernel, Zombies, NotEnded, NotReaped
  <1>2. ~In({"cleanup"}) /\ ~In({"cleanup"})' /\ ~Covered
    BY DEF In, Raised, Covered
  <1>3. Typed'
    BY <1>1 DEF Inv, Typed
  <1>4. Sections'
    BY <1>2 DEF Sections
  <1>5. Bounded'
    <2>1. pending_traps \in Nat
      BY DEF Inv, Typed
    <2> QED BY <1>1, <2>1, SetsOfChildren, MostType DEF Inv, Bounded, Most
  <1>6. NoneForgotten'
    <2>1. pending \/ Zombies \subseteq counted
      BY <1>2, Unsectioned
    <2> QED BY <1>1, <2>1 DEF NoneForgotten
  <1> QED BY <1>3, <1>4, <1>5, <1>6 DEF Inv, EachChildTrapped

LEMMA RunPendingInv == ASSUME Inv, HRunPendingTraps PROVE Inv'
  <1>1. /\ RunPendingTraps /\ stack # <<>> /\ Top.kind \in {"script", "trap"}
        /\ UNCHANGED <<kernel, counters, this_shell_builtin, counted, wanted>>
        /\ catch_flag' = FALSE /\ owed' = owed - Dropped
    BY DEF HRunPendingTraps, RunPendingTraps, Commands, In
  <1>2. /\ stack \in Seq(FrameType) /\ pending_traps \in Nat /\ owed \in Int
        /\ Total(Left(stack)) \in Int /\ owed = pending_traps + Total(Left(stack))
        /\ Depth \in Nat \ {0} /\ Depth = Len(stack) /\ Top = stack[Depth]
        /\ queue_sigchld' = queue_sigchld /\ sigchld' = sigchld
    BY <1>1, LeftTyped DEF Inv, Typed, EachChildTrapped, Top, Depth, counters
  <1>3. ~In(Raised) /\ \A d \in 1 .. Len(stack) : stack[d].kind \notin Raised
    BY <1>1, <1>2 DEF Inv, Sections, Raised, In
  <1>4. queue_sigchld' \in 0 .. 1
    BY <1>2, <1>3 DEF Inv, Sections
  <1>5. /\ catch_flag' \in BOOLEAN /\ this_shell_builtin' \in {"wait", "other"}
        /\ inprogress \in BOOLEAN /\ running_trap \in BOOLEAN /\ trapped \in BOOLEAN
        /\ trap \in Dispositions \cup {"impossible"} /\ Kept
    BY <1>1 DEF Inv, Typed
  <1>6. CASE /\ stack' = stack /\ UNCHANGED <<trap, trapped>> /\ inprogress' = inprogress
             /\ running_trap' \in BOOLEAN
             /\ pending_traps' = pending_traps - Dropped /\ Dropped \in {0, pending_traps}
    <2>1. pending_traps' \in Nat /\ pending_traps' <= pending_traps
      BY <1>2, <1>6
    <2>2. owed' \in Int /\ owed' = pending_traps' + Total(Left(stack'))
      BY <1>1, <1>2, <1>6
    <2>3. Kept' /\ ~In(Raised)'
      BY <1>1, <1>3, <1>5, <1>6 DEF Kept, In, Top, Depth
    <2>4. \A d \in 1 .. Len(stack') - 1 : stack'[d].kind \notin Raised
      BY <1>2, <1>3, <1>6
    <2> QED BY <1>1, <1>2, <1>3, <1>4, <1>5, <1>6, <2>1, <2>2, <2>3, <2>4, TrapRunInv
  <1>7. CASE pending_traps = 0 \/ inprogress \/ trap = "impossible"
    <2>1. CASE pending_traps = 0
      <3>1. Dropped = 0
        BY <2>1 DEF Dropped
      <3>2. UNCHANGED <<stack, trap, trapped, inprogress, running_trap, pending_traps>>
        BY <1>1, <2>1 DEF RunPendingTraps
      <3> QED BY <1>2, <1>5, <1>6, <3>1, <3>2
    <2>2. CASE pending_traps # 0 /\ inprogress
      <3>1. Dropped = 0
        BY <2>2 DEF Dropped
      <3>2. UNCHANGED <<stack, trap, trapped, inprogress, pending_traps>> /\ running_trap' = FALSE
        BY <1>1, <2>2 DEF RunPendingTraps
      <3>3. running_trap' \in BOOLEAN
        BY <3>2
      <3>4. pending_traps' = pending_traps - Dropped
        BY <1>2, <3>1, <3>2
      <3> QED BY <1>6, <3>1, <3>2, <3>3, <3>4
    <2>3. CASE pending_traps # 0 /\ ~inprogress /\ trap = "impossible"
      <3>1. Dropped = pending_traps
        BY <1>1, <2>3 DEF Dropped
      <3>2. UNCHANGED <<stack, trap, trapped, inprogress, running_trap>> /\ pending_traps' = 0
        BY <1>1, <2>3 DEF RunPendingTraps
      <3> QED BY <1>2, <1>5, <1>6, <3>1, <3>2
    <2> QED BY <1>7, <2>1, <2>2, <2>3
  <1>8. CASE ~(pending_traps = 0 \/ inprogress \/ trap = "impossible")
    <2>1. /\ inprogress' = TRUE /\ pending_traps' = 0 /\ RunTrap(stack, pending_traps, "pending")
          /\ Dropped = 0
      BY <1>1, <1>8 DEF RunPendingTraps, Dropped
    <2> DEFINE f == TrapFrame(pending_traps, "pending")
    <2>2. CASE trap \in Strings
      <3>1. /\ stack' = Append(stack, f) /\ running_trap' = TRUE
            /\ trap' = "impossible" /\ trapped' = FALSE
        BY <2>1, <2>2 DEF RunTrap
      <3>2. f.kind = "trap" /\ f.command = trap /\ Runs(f) = pending_traps
        BY DEF TrapFrame, Runs
      <3>3. f \in FrameType
        <4>1. pending_traps <= Most /\ this_shell_builtin \in {"wait", "other"}
          BY <1>2, SetsOfChildren, MostType DEF Inv, Bounded, Typed
        <4>2. pending_traps \in 1 .. Most
          BY <1>2, <1>8, <4>1, MostType
        <4> QED BY <2>2, <4>1, <4>2 DEF TrapFrame, FrameType, TrapFrames
      <3> HIDE DEF f
      <3>4. /\ stack' \in Seq(FrameType) /\ stack' # <<>> /\ Top' = f
            /\ Len(stack') = Len(stack) + 1
            /\ \A d \in 1 .. Len(stack) : stack'[d] = stack[d]
        BY <1>2, <3>1, <3>3 DEF Top, Depth
      <3>5. Total(Left(stack')) = Total(Left(stack)) + pending_traps
        BY <1>2, <3>1, <3>2, <3>3, LeftAppend
      <3>6. owed' = pending_traps' + Total(Left(stack')) /\ owed' \in Int
        BY <1>1, <1>2, <2>1, <3>5
      <3>7. trap = wanted
        BY <1>1, <1>5, <1>8 DEF Kept
      <3>8. HeldIn(stack', wanted)
        BY <1>2, <3>1, <3>2, <3>3, <3>7, HeldAppend
      <3>9. Kept'
        BY <1>1, <3>1, <3>8, SigchldAssumption DEF Kept
      <3>10. ~In(Raised)' /\ \A d \in 1 .. Len(stack') - 1 : stack'[d].kind \notin Raised
        BY <1>2, <1>3, <3>2, <3>4 DEF In, Raised
      <3>11. /\ trap' \in Dispositions \cup {"impossible"} /\ trapped' \in BOOLEAN
             /\ inprogress' \in BOOLEAN /\ running_trap' \in BOOLEAN
        BY <2>1, <3>1
      <3>12. pending_traps' \in Nat /\ pending_traps' <= pending_traps
        BY <1>2, <2>1
      <3> QED BY <1>1, <1>2, <1>3, <1>4, <1>5, <3>4, <3>6, <3>9, <3>10, <3>11, <3>12, TrapRunInv
    <2>3. CASE trap \notin Strings
      <3>1. stack' = <<>> /\ UNCHANGED <<running_trap, trap, trapped>>
        BY <2>1, <2>3 DEF RunTrap
      <3>2. /\ Len(stack') = 0 /\ stack' \in Seq(FrameType) /\ ~In(Raised)' /\ stack' = <<>>
        BY <3>1 DEF In
      <3>3. \A d \in 1 .. Len(stack') - 1 : stack'[d].kind \notin Raised
        BY <3>2
      <3>4. Kept'
        BY <1>5, <3>1 DEF Kept
      <3>5. /\ inprogress' \in BOOLEAN /\ running_trap' \in BOOLEAN /\ trapped' \in BOOLEAN
            /\ trap' \in Dispositions \cup {"impossible"}
        BY <1>5, <2>1, <3>1
      <3>6. pending_traps' \in Nat /\ pending_traps' <= pending_traps /\ owed' \in Int
        BY <1>1, <1>2, <2>1
      <3> QED BY <1>1, <1>2, <1>3, <1>4, <1>5, <3>2, <3>3, <3>4, <3>5, <3>6, TrapRunInv
    <2> QED BY <2>2, <2>3
  <1> QED BY <1>7, <1>8

LEMMA EndTrapInv == ASSUME Inv, HEndTrap PROVE Inv'
  <1>1. /\ EndTrap /\ stack # <<>> /\ Top.kind = "trap"
        /\ UNCHANGED <<kernel, counted, wanted>> /\ owed' = owed - 1
    BY DEF HEndTrap, EndTrap, In
  <1>2. /\ stack \in Seq(FrameType) /\ pending_traps \in Nat /\ owed \in Int
        /\ Total(Left(stack)) \in Int /\ owed = pending_traps + Total(Left(stack))
        /\ Depth \in Nat \ {0} /\ Depth = Len(stack) /\ Top = stack[Depth]
        /\ Top \in FrameType
    BY <1>1, LeftTyped, TopOfStack DEF Inv, Typed, EachChildTrapped, Top, Depth
  <1>3. ~In(Raised) /\ \A d \in 1 .. Len(stack) : stack[d].kind \notin Raised
    BY <1>1, <1>2 DEF Inv, Sections, Raised, In
  <1>4. queue_sigchld \in 0 .. 1
    BY <1>3 DEF Inv, Sections
  <1>5. /\ catch_flag \in BOOLEAN /\ this_shell_builtin \in {"wait", "other"}
        /\ inprogress \in BOOLEAN /\ running_trap \in BOOLEAN /\ trapped \in BOOLEAN
        /\ trap \in Dispositions \cup {"impossible"} /\ Kept
    BY DEF Inv, Typed
  <1>6. Top \in TrapFrames /\ Top.left \in 1 .. Most /\ Runs(Top) = Top.left
    <2>1. Top \in TrapFrames
      BY <1>1, <1>2, KindsOfFrames
    <2> QED BY <1>1, <2>1 DEF TrapFrames, Runs
  <1>7. owed' \in Int
    BY <1>1, <1>2
  <1>8. CASE Top.left > 1
    <2> DEFINE f == [Top EXCEPT !.left = @ - 1]
    <2>1. /\ stack' = [stack EXCEPT ![Depth].left = @ - 1]
          /\ UNCHANGED <<traps, counters, this_shell_builtin>>
      BY <1>1, <1>8 DEF EndTrap
    <2>2. f \in FrameType /\ f.kind = "trap" /\ f.command = Top.command /\ Runs(f) = Top.left - 1
      <3>1. Top.left - 1 \in 1 .. Most
        BY <1>6, <1>8, MostType
      <3>2. f \in TrapFrames
        BY <1>6, <3>1 DEF TrapFrames
      <3>3. f.kind = "trap" /\ f.command = Top.command /\ f.left = Top.left - 1
        BY <1>1, <1>6 DEF TrapFrames
      <3> QED BY <3>2, <3>3 DEF FrameType, Runs
    <2>3. stack' = [stack EXCEPT ![Len(stack)] = f]
      BY <1>2, <2>1 DEF Depth, Top
    <2> HIDE DEF f
    <2>4. stack' = Append(Front(stack), f)
      BY <1>1, <1>2, <2>2, <2>3, ReplacedTop
    <2>5. /\ stack' \in Seq(FrameType) /\ stack' # <<>>
          /\ Len(stack') = Len(stack) /\ Top' = f
          /\ \A d \in 1 .. Len(stack) - 1 : stack'[d] = stack[d]
          /\ Total(Left(stack')) = (Total(Left(stack)) - Runs(Top)) + Runs(f)
          /\ \A value : HeldIn(stack', value) <=> f.command = value
      BY <1>1, <1>2, <2>2, <2>4, ReplaceFacts
    <2>6. \A value : HeldIn(stack, value) <=> Top.command = value
      BY <1>1, <1>2, TopOfStack
    <2>7. Kept'
      BY <1>1, <1>5, <2>1, <2>2, <2>5, <2>6 DEF Kept, traps
    <2>8. owed' = pending_traps' + Total(Left(stack'))
      <3>1. Total(Left(stack')) = Total(Left(stack)) - 1
        BY <1>2, <1>6, <2>2, <2>5
      <3>2. pending_traps' = pending_traps
        BY <2>1 DEF traps
      <3> QED BY <1>1, <1>2, <3>1, <3>2
    <2>9. ~In(Raised)' /\ \A d \in 1 .. Len(stack') - 1 : stack'[d].kind \notin Raised
      BY <1>2, <1>3, <2>2, <2>5 DEF In, Raised
    <2>10. UNCHANGED <<trap, trapped, inprogress, running_trap, pending_traps, catch_flag, queue_sigchld, sigchld>>
      BY <2>1 DEF traps, counters
    <2>11. /\ queue_sigchld' \in 0 .. 1
           /\ trap' \in Dispositions \cup {"impossible"} /\ trapped' \in BOOLEAN
           /\ inprogress' \in BOOLEAN /\ running_trap' \in BOOLEAN /\ catch_flag' \in BOOLEAN
           /\ this_shell_builtin' \in {"wait", "other"}
           /\ pending_traps' \in Nat /\ pending_traps' <= pending_traps
      BY <1>2, <1>4, <1>5, <2>1, <2>10
    <2> QED BY <1>1, <1>3, <1>7, <2>5, <2>7, <2>8, <2>9, <2>10, <2>11, TrapRunInv
  <1>9. CASE ~(Top.left > 1)
    <2> DEFINE reset == ~trapped /\ trap = "impossible"
    <2>1. /\ Pop /\ trap' = IF reset THEN Top.command ELSE trap
          /\ trapped' = (trapped \/ reset)
          /\ running_trap' = FALSE
          /\ inprogress' = (inprogress /\ Top.by # "pending")
          /\ this_shell_builtin' = Top.builtin
          /\ queue_sigchld' \in {0, queue_sigchld}
          /\ UNCHANGED <<pending_traps, catch_flag, sigchld>>
      BY <1>1, <1>9 DEF EndTrap
    <2>2. Runs(Top) = 1
      BY <1>6, <1>9, MostType
    <2>3. /\ stack' \in Seq(FrameType)
          /\ Len(stack') = Len(stack) - 1 /\ Len(stack) \in Nat \ {0}
          /\ \A d \in 1 .. Len(stack) - 1 : stack'[d] = stack[d]
          /\ Total(Left(stack')) = Total(Left(stack)) - 1
      BY <1>1, <1>2, <2>1, <2>2, PopFacts
    <2>4. \A d \in 1 .. Len(stack') : stack'[d].kind \notin Raised
      BY <1>3, <2>3
    <2>5. ~In(Raised)'
      <3>1. stack' # <<>> => Len(stack') \in 1 .. Len(stack') /\ Top' = stack'[Len(stack')]
        BY <2>3 DEF Top, Depth
      <3> QED BY <2>4, <3>1 DEF In
    <2>6. Top.command \in Strings /\ Top.builtin \in {"wait", "other"}
      BY <1>6 DEF TrapFrames
    <2>7. HeldIn(stack, wanted) <=> Top.command = wanted
      BY <1>1, <1>2, TopOfStack
    <2>8. trap' \in Dispositions /\ trap' = wanted /\ (trapped' <=> trap' \in Strings \cup {"ignore"})
      <3>1. CASE trap = "impossible"
        <4>1. ~trapped
          BY <1>5, <3>1, SigchldAssumption DEF Kept
        <4>2. trap' = Top.command /\ trapped'
          BY <2>1, <3>1, <4>1
        <4>3. HeldIn(stack, wanted)
          BY <1>1, <1>5, <3>1 DEF Kept
        <4> QED BY <2>6, <2>7, <4>2, <4>3 DEF Dispositions
      <3>2. CASE trap # "impossible"
        <4>1. trap' = trap /\ (trapped' <=> trapped)
          BY <2>1, <3>2
        <4> QED BY <1>1, <1>5, <3>2, <4>1 DEF Kept
      <3> QED BY <3>1, <3>2
    <2>9. Kept'
      <3>1. trap' # "impossible"
        BY <2>8, SigchldAssumption DEF Dispositions
      <3> QED BY <1>1, <2>8, <3>1 DEF Kept
    <2>10. owed' = pending_traps' + Total(Left(stack'))
      <3>1. pending_traps' = pending_traps
        BY <2>1
      <3> QED BY <1>1, <1>2, <2>3, <3>1
    <2>11. /\ queue_sigchld' \in 0 .. 1 /\ sigchld' = sigchld
           /\ this_shell_builtin' \in {"wait", "other"}
      BY <1>4, <2>1, <2>6
    <2>15. running_trap' \in BOOLEAN /\ inprogress' \in BOOLEAN /\ catch_flag' \in BOOLEAN
      BY <1>5, <2>1
    <2>12. pending_traps' \in Nat /\ pending_traps' <= pending_traps
      BY <1>2, <2>1
    <2>13. trapped' \in BOOLEAN
      BY <2>1
    <2>14. \A d \in 1 .. Len(stack') - 1 : stack'[d].kind \notin Raised
      BY <2>3, <2>4
    <2> QED BY <1>1, <1>3, <1>7, <2>3, <2>5, <2>8, <2>9, <2>10, <2>11, <2>12, <2>13, <2>14, <2>15, TrapRunInv
  <1> QED BY <1>8, <1>9

-----------------------------------------------------------------------------
LEMMA InvNext == Inv /\ [HNext]_hvars => Inv'
  <1> SUFFICES ASSUME Inv, [HNext]_hvars PROVE Inv'
    OBVIOUS
  <1>1. ASSUME NEW c \in Children,
               HSame(ChildExits(c)) \/ HSame(Background(c)) \/ HSame(Foreground(c)) \/ HSame(Wait(c))
        PROVE  Inv'
    <2>1. HistorySame
      BY <1>1 DEF HSame, HistorySame
    <2>2. CASE ChildExits(c)
      BY <2>1, <2>2, ChildExitsInv
    <2>3. CASE Background(c)
      BY <2>1, <2>3, BackgroundInv
    <2>4. CASE Foreground(c) \/ Wait(c)
      BY <2>1, <2>4, PushingInv
    <2> QED BY <1>1, <2>2, <2>3, <2>4 DEF HSame
  <1>2. ASSUME NEW late \in SUBSET Running, HHandler(late) PROVE Inv'
    BY <1>2, HandlerInv
  <1>3. ASSUME NEW set \in SUBSET Zombies, HReap(WaitChld(set)) PROVE Inv'
    BY <1>3, WaitChldInv
  <1>4. ASSUME \/ \E first_arg \in Strings \cup {"ignore", "default"} : HSame(TrapBuiltin(first_arg))
               \/ HSame(QueueSigchld) \/ HSame(BeginNotify)
        PROVE  Inv'
    <2>1. HistorySame
      BY <1>4 DEF HSame, HistorySame
    <2>2. \/ \E first_arg \in Strings \cup {"ignore", "default"} : TrapBuiltin(first_arg)
          \/ QueueSigchld \/ BeginNotify
      BY <1>4 DEF HSame
    <2> QED BY <2>1, <2>2, PushingInv
  <1>5. CASE \/ HWant(SetSignal, Top.first_arg)
             \/ HWant(IgnoreSignal, "ignore")
             \/ HWant(RestoreDefaultSignal,
                      IF trapped \/ inprogress \/ trap # "impossible" THEN "default" ELSE wanted)
    BY <1>5, TrapBuiltinInv
  <1>6. CASE HReap(UnqueueSigchld)
    BY <1>6, UnqueueInv
  <1>7. CASE HSame(EndReaping) \/ HSame(EndNotify) \/ HSame(LeaveWaitFor)
    BY <1>7, PoppingInv
  <1>8. CASE HSame(EnterWaitFor)
    BY <1>8, EnterWaitForInv
  <1>9. CASE HRunPendingTraps
    BY <1>9, RunPendingInv
  <1>10. CASE HEndTrap
    BY <1>10, EndTrapInv
  <1>11. CASE UNCHANGED hvars \/ HSame(OtherSignal)
    BY <1>11, UnchangedInv
  <1> QED BY <1>1, <1>2, <1>3, <1>4, <1>5, <1>6, <1>7, <1>8, <1>9, <1>10, <1>11 DEF HNext

-----------------------------------------------------------------------------
(***************************************************************************)
(* The theorems.                                                           *)
(***************************************************************************)
\* The invariant is inductive: it holds at first and after every step of the
\* shell, of a child or of the handler.
THEOREM HSpecInv == HSpec => []Inv
  BY InvInit, InvNext, PTL DEF HSpec

\* No more signals are counted than there are children, nor more runs of the
\* trap pending, and a run that is under way is of a child.
THEOREM HSpecTypeOK == HSpec => []TypeOK
  <1>1. Inv => TypeOK
    <2> SUFFICES ASSUME Inv PROVE TypeOK
      OBVIOUS
    <2>1. Typed
      BY DEF Inv
    <2>2. sigchld \in 0 .. Most /\ pending_traps \in 0 .. Most
      BY <2>1, SetsOfChildren, MostType DEF Inv, Typed, Bounded
    <2>3. ASSUME NEW d \in DOMAIN stack, stack[d].kind = "trap"
          PROVE  stack[d].left \in 1 .. Most
      <3>1. stack[d] \in FrameType
        BY <2>1 DEF Typed
      <3> QED BY <2>3, <3>1, KindsOfFrames DEF TrapFrames
    <2>4. <<pending, trapped, inprogress, running_trap, catch_flag>> \in Seq(BOOLEAN)
      BY <2>1 DEF Typed
    <2> QED BY <2>1, <2>2, <2>3, <2>4 DEF Typed, TypeOK, Dispositions
  <1> QED BY <1>1, HSpecInv, PTL

\* The comment at jobs.c:323: a child that has ended has its signal pending or
\* is going to be reaped at the end of a section, but for those whose signal the
\* handler counted where nobody looks.
THEOREM HSpecNoneForgotten == HSpec => []NoneForgotten
  <1>1. Inv => NoneForgotten
    BY DEF Inv
  <1> QED BY <1>1, HSpecInv, PTL

\* The comment at bash.1:6329: for every child that was reaped while the trap
\* was set, a run of the trap has been made, is under way or is pending.
THEOREM HSpecEachChildTrapped == HSpec => []EachChildTrapped
  <1>1. Inv => EachChildTrapped
    BY DEF Inv
  <1> QED BY <1>1, HSpecInv, PTL

\* The comment at trap.c:694: however runs of the trap nest and whatever they
\* set, the trap is the one that was asked for when the last of them has ended.
THEOREM HSpecTrapIsKept == HSpec => []TrapIsKept
  <1>1. Inv => TrapIsKept
    <2> SUFFICES ASSUME Inv, \A d \in DOMAIN stack : stack[d].kind # "trap", stack # <<>>
                 PROVE  trap = wanted
      BY DEF TrapIsKept
    <2>1. stack \in Seq(FrameType)
      BY DEF Inv, Typed
    <2>2. ~HeldIn(stack, wanted)
      BY <2>1 DEF HeldIn
    <2> QED BY <2>2 DEF Inv, Kept
  <1> QED BY <1>1, HSpecInv, PTL
=============================================================================
