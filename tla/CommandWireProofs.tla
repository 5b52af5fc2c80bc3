------------------------- MODULE CommandWireProofs -------------------------
(***************************************************************************)
(* Proofs about CommandWire, for any number of requests, any limit on an   *)
(* answer's lines and any number of lines on their way.                    *)
(*                                                                         *)
(* That answers match their commands is not inductive.  What is: as long   *)
(* as no failed exchange has been ignored on the connection, nothing is on *)
(* its way between exchanges, and during one there is only the answer to   *)
(* the command being asked, with its terminator, if it is there, at the    *)
(* very end.                                                               *)
(*                                                                         *)
(* Once exchanges have been ignored, what is on its way can be any mixture *)
(* of answers.  How many they are is counted in the second part.           *)
(***************************************************************************)
EXTENDS CommandWire, FiniteSetTheorems, TLAPS

Live == step \notin {"down", "crashed"}

\* Nothing is owed.
Clean == todo = <<>> /\ wire = <<>>

\* What is owed is the rest of one answer, to the command being asked.
OneAnswer ==
    /\ \A i \in DOMAIN wire : wire[i].of = asked
    /\ todo \in {<<>>, <<asked>>}
    /\ \A i \in DOMAIN wire : wire[i].kind = "done" => i = Len(wire) /\ todo = <<>>
    /\ ~foreign

InStep ==
    swallowed = 0 =>
        /\ ~skewed
        /\ torn = Nobody
        /\ Live /\ phase = "write" => Clean
        /\ Live /\ phase # "write" => OneAnswer

WireInv ==
    /\ WireTypeOK
    /\ step = "idle" => phase = "write"
    /\ InStep

-----------------------------------------------------------------------------
LEMMA WireInvInit == WireInit => WireInv
<1> SUFFICES ASSUME WireInit PROVE WireInv OBVIOUS
<1>1. /\ step \in Commands \cup {"idle", "down", "crashed"} /\ folder \in BOOLEAN
      /\ phase \in {"write", "header", "args", "skip"}
      /\ begun \in BOOLEAN /\ closed \in BOOLEAN /\ foreign \in BOOLEAN /\ skewed \in BOOLEAN
    BY DEF WireInit
<1>2. /\ numargs \in 0..MaxArgs /\ taken \in 0..MaxRequests
      /\ asked \in Nat /\ torn \in Nat /\ swallowed \in Nat
    BY WireBounds DEF WireInit, Nobody
<1>3. todo \in Seq(Nat) /\ wire \in Seq([kind : Kinds, of : Nat])
    BY DEF WireInit
<1>4. WireTypeOK BY <1>1, <1>2, <1>3 DEF WireTypeOK
<1>5. InStep BY DEF WireInit, InStep, Clean
<1> QED BY <1>4, <1>5 DEF WireInv, WireInit

\* Taking the first line off keeps what is left of one answer, and nothing is left
\* if it was the terminator.
LEMMA OneLineRead ==
    ASSUME WireTypeOK, OneAnswer, NEW kinds \in SUBSET Kinds, Read(kinds)
    PROVE  OneAnswer' /\ (Head(wire).kind = "done" => Clean')
<1>1. wire # <<>> /\ wire \in Seq([kind : Kinds, of : Nat]) /\ wire' = Tail(wire)
    BY DEF Read, Readable, WireTypeOK
<1>2. /\ Len(wire') = Len(wire) - 1 /\ Head(wire) = wire[1] /\ 1 \in DOMAIN wire
      /\ \A i \in DOMAIN wire' : i + 1 \in DOMAIN wire /\ wire'[i] = wire[i + 1]
    BY <1>1
<1>3. ~foreign' /\ UNCHANGED <<asked, todo>>
    BY <1>2 DEF Read, OneAnswer, daemon, WireTypeOK
<1>4. OneAnswer'
    BY <1>1, <1>2, <1>3 DEF OneAnswer
<1>5. ASSUME Head(wire).kind = "done" PROVE Clean'
    <2>1. Len(wire) = 1 /\ todo = <<>> BY <1>2, <1>5 DEF OneAnswer
    <2> QED BY <1>1, <1>3, <2>1 DEF Clean
<1> QED BY <1>4, <1>5

LEMMA ReadKeepsType ==
    ASSUME WireTypeOK, NEW kinds \in SUBSET Kinds, Read(kinds)
    PROVE  /\ wire' \in Seq([kind : Kinds, of : Nat]) /\ foreign' \in BOOLEAN
           /\ UNCHANGED <<folder, taken, asked, torn, todo, begun, closed>>
BY DEF Read, Readable, WireTypeOK, daemon

-----------------------------------------------------------------------------
(* The thread's steps. *)

LEMMA FailKeeps ==
    ASSUME WireInv, Asking, Fail,
           UNCHANGED <<folder, numargs, taken, asked, torn, daemon>>,
           wire' \in Seq([kind : Kinds, of : Nat]), foreign' \in BOOLEAN
    PROVE  WireInv'
<1>1. WireTypeOK'
    BY DEF WireInv, WireTypeOK, Fail, AfterNothing, GoOnWith, Commands, FileCommands, daemon
<1>2. (step' = "idle" => phase' = "write")
    BY DEF WireInv, Fail, AfterNothing, GoOnWith
<1>3. InStep'
    <2>1. CASE step = "get_emblems"
        BY <2>1 DEF WireInv, WireTypeOK, Fail, InStep
    <2>2. CASE step # "get_emblems"
        BY <2>2 DEF WireInv, Fail, InStep, Live
    <2> QED BY <2>1, <2>2
<1> QED BY <1>1, <1>2, <1>3 DEF WireInv

LEMMA ThreadKeeps ==
    ASSUME WireInv, Take \/ CheckConnection \/ WriteCommand \/ WriteBlocks \/ Reconnect
    PROVE  WireInv'
<1>0. WireTypeOK /\ InStep BY DEF WireInv
<1>1. CASE Take
    <2>1. /\ step = "idle" /\ phase = "write" /\ phase' = "write"
          /\ step' \in {"get_emblems", "general"} /\ folder' \in BOOLEAN
          /\ taken < MaxRequests /\ taken' = taken + 1
          /\ UNCHANGED <<numargs, foreign, asked, torn, wire, todo, begun, closed, skewed,
                         swallowed>>
        BY <1>1 DEF Take, TakeRequest, GoOnWith, daemon, history, WireInv
    <2>2. WireTypeOK'
        BY <1>0, <2>1, WireBounds DEF WireTypeOK, Commands, FileCommands
    <2>3. InStep' BY <1>0, <2>1 DEF InStep, Clean, Live
    <2> QED BY <2>1, <2>2, <2>3 DEF WireInv
<1>2. CASE CheckConnection
    BY <1>2 DEF CheckConnection, WireInv, WireTypeOK, InStep, Live, reader, daemon, history
<1>3. CASE WriteCommand
    <2>1. /\ step \in Commands /\ phase = "write" /\ phase' = "header"
          /\ asked' = asked + 1 /\ torn' = Nobody /\ numargs' = 0 /\ foreign' = FALSE
          /\ todo' = Append(todo, IF torn = Nobody THEN asked + 1 ELSE torn)
          /\ UNCHANGED <<step, folder, taken, wire, begun, closed, skewed, swallowed>>
        BY <1>3 DEF WriteCommand, Asking, history
    <2>2. todo' \in Seq(Nat) BY <1>0, <2>1 DEF WireTypeOK, Nobody
    <2>3. numargs' \in 0..MaxArgs /\ asked' \in Nat /\ torn' \in Nat
        BY <1>0, <2>1, WireBounds DEF WireTypeOK, Nobody
    <2>4. WireTypeOK' BY <1>0, <2>1, <2>2, <2>3 DEF WireTypeOK
    <2>5. step' # "idle" /\ Live BY <2>1 DEF Commands, FileCommands, Live
    <2>6. ASSUME swallowed = 0 PROVE OneAnswer'
        <3>1. torn = Nobody /\ todo = <<>> /\ wire = <<>>
            BY <1>0, <2>1, <2>5, <2>6 DEF InStep, Clean
        <3>2. todo' = <<asked'>> /\ ~foreign' BY <2>1, <3>1
        <3>3. DOMAIN wire' = {} BY <2>1, <3>1
        <3> QED BY <3>2, <3>3 DEF OneAnswer
    <2>7. InStep' BY <1>0, <2>1, <2>6 DEF InStep
    <2> QED BY <2>4, <2>5, <2>7 DEF WireInv
<1>4. CASE WriteBlocks
    <2>1. /\ step' \in Commands \cup {"idle"} /\ phase' = "write"
          /\ asked' = asked + 1 /\ torn' = IF torn = Nobody THEN asked + 1 ELSE torn
          /\ swallowed' = swallowed + 1
          /\ UNCHANGED <<folder, numargs, foreign, taken, wire, todo, begun, closed, skewed>>
        BY <1>4 DEF WriteBlocks, AfterNothing, GoOnWith, Commands, FileCommands, daemon
    <2>2. WireTypeOK' BY <1>0, <2>1 DEF WireTypeOK
    <2>3. InStep' BY <1>0, <2>1 DEF InStep, WireTypeOK
    <2> QED BY <2>1, <2>2, <2>3 DEF WireInv
<1>5. CASE Reconnect
    <2>1. /\ step' = "idle" /\ phase' = "write" /\ numargs' = 0 /\ asked' = 0 /\ torn' = 0
          /\ todo' = <<>> /\ wire' = <<>> /\ swallowed' = 0
          /\ begun' = FALSE /\ closed' = FALSE /\ foreign' = FALSE /\ skewed' = FALSE
          /\ UNCHANGED <<folder, taken>>
        BY <1>5 DEF Reconnect, Nobody
    <2>2. numargs' \in 0..MaxArgs BY <2>1, WireBounds
    <2>3. todo' \in Seq(Nat) /\ wire' \in Seq([kind : Kinds, of : Nat]) BY <2>1
    <2>4. WireTypeOK' BY <1>0, <2>1, <2>2, <2>3 DEF WireTypeOK
    <2>5. InStep' BY <2>1 DEF InStep, Clean, Nobody
    <2> QED BY <2>1, <2>4, <2>5 DEF WireInv
<1> QED BY <1>1, <1>2, <1>3, <1>4, <1>5

LEMMA ReadKeeps ==
    ASSUME WireInv, ReadOne \/ WriteFails
    PROVE  WireInv'
<1>0. WireTypeOK BY DEF WireInv
<1>a. \A kinds \in SUBSET Kinds : Read(kinds) =>
          /\ Asking /\ Live /\ phase # "write"
          /\ swallowed = 0 => OneAnswer' /\ (Head(wire).kind = "done" => Clean')
    BY <1>0, OneLineRead DEF Read, Reading, Asking, Live, Commands, FileCommands, WireInv, InStep
<1>1. ASSUME NEW kinds \in SUBSET Kinds, Read(kinds), UNCHANGED <<step, history>>,
             phase' \in {"args", "skip"}, numargs' \in 0..MaxArgs
      PROVE  WireInv'
    <2>1. WireTypeOK' BY <1>0, <1>1, ReadKeepsType DEF WireTypeOK, history
    <2>2. step' # "idle" BY <1>1 DEF Read, Reading, Asking, Commands, FileCommands
    <2>3. InStep' BY <1>0, <1>1, <1>a, ReadKeepsType DEF InStep, WireInv, history, Live
    <2> QED BY <2>1, <2>2, <2>3 DEF WireInv
<1>2. ASSUME Read({"done"}), AfterNothing \/ AfterTable, Answered, UNCHANGED numargs
      PROVE  WireInv'
    <2>0. Head(wire).kind = "done" /\ {"done"} \in SUBSET Kinds BY <1>2 DEF Read, Kinds
    <2>1. step' \in Commands \cup {"idle"} /\ phase' = "write"
        BY <1>2 DEF AfterNothing, AfterTable, GoOnWith, Commands, FileCommands
    <2>2. WireTypeOK'
        BY <1>0, <1>2, <2>0, <2>1, ReadKeepsType DEF WireTypeOK, Answered
    <2>3. InStep'
        BY <1>0, <1>2, <1>a, <2>0, <2>1, ReadKeepsType
           DEF InStep, WireInv, Answered, OneAnswer
    <2> QED BY <2>1, <2>2, <2>3 DEF WireInv
<1>3. CASE ReadHeader
    <2>1. {"ok"} \in SUBSET Kinds /\ Kinds \ {"ok"} \in SUBSET Kinds BY DEF Kinds
    <2> QED BY <1>0, <1>1, <1>3, <2>1 DEF ReadHeader, WireTypeOK
<1>4. CASE ReadArgument
    <2>1. {"argument"} \in SUBSET Kinds BY DEF Kinds
    <2>2. numargs' \in 0..MaxArgs
        BY <1>0, <1>4, WireBounds DEF ReadArgument, Read, TooManyArgs, WireTypeOK
    <2> QED BY <1>1, <1>4, <2>1, <2>2 DEF ReadArgument
<1>5. CASE SkipLine
    <2>1. Kinds \ {"done"} \in SUBSET Kinds OBVIOUS
    <2> QED BY <1>0, <1>1, <1>5, <2>1 DEF SkipLine, WireTypeOK
<1>6. CASE EndOfTable \/ EndOfSkip
    BY <1>2, <1>6 DEF EndOfTable, EndOfSkip
<1>7. CASE ParseError
    <2>1. {"ok", "text"} \in SUBSET Kinds BY DEF Kinds
    <2> QED BY <1>0, <1>7, <1>a, <2>1, ReadKeepsType, FailKeeps DEF ParseError, daemon
<1>8. CASE WriteFails \/ Malicious \/ ReadFails
    BY <1>0, <1>8, FailKeeps DEF WriteFails, Malicious, ReadFails, Reading, WireTypeOK
<1>9. CASE Timeout
    <2>1. CASE Fail
        BY <1>0, <1>9, <2>1, FailKeeps DEF Timeout, NothingCame, Reading, WireTypeOK
    <2>2. CASE step' = "crashed" /\ UNCHANGED <<phase, history>>
        BY <1>9, <2>2 DEF Timeout, WireInv, WireTypeOK, InStep, Live, history, daemon
    <2> QED BY <1>9, <2>1, <2>2 DEF Timeout
<1> QED BY <1>3, <1>4, <1>5, <1>6, <1>7, <1>8, <1>9 DEF ReadOne

-----------------------------------------------------------------------------
(* The daemon's steps. *)

LEMMA DaemonKeeps ==
    ASSUME WireInv, DaemonCloses \/ \E kind \in Kinds : DaemonWrites(kind)
    PROVE  WireInv'
<1>1. CASE DaemonCloses
    BY <1>1 DEF DaemonCloses, WireInv, WireTypeOK, InStep, Clean, OneAnswer, Live, reader, history
<1>2. ASSUME NEW kind \in Kinds, DaemonWrites(kind) PROVE WireInv'
    <2>0. /\ WireTypeOK /\ todo # <<>> /\ Live
          /\ wire' = Append(wire, Line(kind, Head(todo)))
          /\ UNCHANGED <<step, folder, phase, numargs, foreign, taken, asked, torn, closed,
                         skewed, swallowed>>
        BY <1>2 DEF WireInv, DaemonWrites, Connected, Live, reader, history
    <2>1. /\ begun' \in BOOLEAN
          /\ \/ kind # "done" /\ todo' = todo
             \/ kind = "done" /\ todo' = Tail(todo)
        BY <1>2, <2>0 DEF DaemonWrites, LaterLines, FirstLines, WireTypeOK
    <2>2. Head(todo) \in Nat BY <2>0 DEF WireTypeOK
    <2>3. WireTypeOK'
        <3>1. todo' \in Seq(Nat)
            <4>1. todo \in Seq(Nat) /\ todo # <<>> BY <2>0 DEF WireTypeOK
            <4>2. Tail(todo) \in Seq(Nat) BY <4>1
            <4> QED BY <2>1, <4>1, <4>2
        <3>2. wire' \in Seq([kind : Kinds, of : Nat]) BY <2>0, <2>2 DEF WireTypeOK, Line
        <3> QED BY <2>0, <2>1, <3>1, <3>2 DEF WireTypeOK
    <2>4. ASSUME swallowed = 0 PROVE OneAnswer'
        <3>1. OneAnswer /\ todo = <<asked>> /\ asked \in Nat
            BY <2>0, <2>4 DEF WireInv, InStep, Clean, OneAnswer, WireTypeOK
        <3>2. /\ Len(wire') = Len(wire) + 1 /\ Len(wire) \in Nat
              /\ wire'[Len(wire) + 1] = Line(kind, asked)
              /\ \A i \in DOMAIN wire : wire'[i] = wire[i]
              /\ DOMAIN wire = 1..Len(wire) /\ DOMAIN wire' = 1..(Len(wire) + 1)
            BY <2>0, <2>2, <3>1 DEF WireTypeOK, Line
        <3>3. \A i \in DOMAIN wire : wire[i].kind # "done" BY <3>1 DEF OneAnswer
        <3>4. todo' \in {<<>>, <<asked>>} /\ (kind = "done" => todo' = <<>>)
            BY <2>1, <3>1
        <3>5. ASSUME NEW i \in DOMAIN wire'
              PROVE  /\ wire'[i].of = asked
                     /\ wire'[i].kind = "done" => i = Len(wire') /\ todo' = <<>>
            <4>1. CASE i = Len(wire) + 1 BY <3>2, <3>4, <4>1 DEF Line
            <4>2. CASE i \in DOMAIN wire BY <3>1, <3>2, <3>3, <4>2 DEF OneAnswer
            <4> QED BY <3>2, <3>5, <4>1, <4>2
        <3> QED BY <2>0, <3>1, <3>4, <3>5 DEF OneAnswer
    <2>5. ASSUME swallowed = 0 PROVE phase # "write"
        BY <2>0, <2>5 DEF WireInv, InStep, Clean
    <2> QED BY <2>0, <2>3, <2>4, <2>5 DEF WireInv, InStep, Live
<1> QED BY <1>1, <1>2

-----------------------------------------------------------------------------
LEMMA WireInvStep == WireInv /\ [WireNext]_wireVars => WireInv'
<1> SUFFICES ASSUME WireInv, [WireNext]_wireVars PROVE WireInv' OBVIOUS
<1>1. CASE UNCHANGED wireVars
    BY <1>1 DEF wireVars, WireInv, WireTypeOK, InStep, Clean, OneAnswer, Live
<1>2. CASE WireNext
    BY <1>2, ThreadKeeps, ReadKeeps, DaemonKeeps DEF WireNext, Write
<1> QED BY <1>1, <1>2

(* The inductive invariant: what is on its way is what the thread still expects,
   unless a failed exchange has been ignored or the client no longer listens. *)
THEOREM WireInvariant == WireSpec => []WireInv
<1> QED BY WireInvInit, WireInvStep, PTL DEF WireSpec

\* The variables of the conversation keep their types.
THEOREM WireTypeCorrect == WireSpec => []WireTypeOK
<1>1. WireInv => WireTypeOK BY DEF WireInv
<1> QED BY <1>1, WireInvariant, PTL

\* An answer is taken for the command it was given for, as long as no failed exchange
\* has been ignored on the connection.
THEOREM AnswersMatch == WireSpec => []AnswersMatchUnlessSwallowed
<1>1. WireInv => AnswersMatchUnlessSwallowed
    BY DEF WireInv, WireTypeOK, InStep, AnswersMatchUnlessSwallowed
<1> QED BY <1>1, WireInvariant, PTL

-----------------------------------------------------------------------------
(* How far the two sides are out of step.  To count answers by the numbers of
   their commands, a number must not come back: commands are numbered upwards, a
   torn command's number is not in use yet, and an answer's terminator is the last
   line with its number. *)
Numbered ==
    /\ \A i, j \in DOMAIN todo : i # j => todo[i] # todo[j]
    /\ \A x \in Unanswered \cup {torn} : x <= asked
    /\ torn # Nobody => torn \notin Unanswered
    /\ \A i \in DOMAIN wire : wire[i].kind = "done" =>
          /\ \A j \in DOMAIN todo : todo[j] # wire[i].of
          /\ \A j \in DOMAIN wire : j > i => wire[j].of # wire[i].of

\* The bound, also on a connection the daemon has closed.
Lag == Live => Cardinality(Unanswered) <= swallowed + (IF phase # "write" THEN 1 ELSE 0)

LagInv == WireInv /\ Numbered /\ Lag

LEMMA UnansweredIsFinite == ASSUME WireTypeOK PROVE IsFiniteSet(Unanswered)
<1> DEFINE T == {todo[i] : i \in DOMAIN todo}
           W == {wire[i].of : i \in DOMAIN wire}
<1>1. IsFiniteSet(DOMAIN todo) /\ IsFiniteSet(DOMAIN wire)
    <2>1. DOMAIN todo = 1..Len(todo) /\ Len(todo) \in Nat BY DEF WireTypeOK
    <2>2. DOMAIN wire = 1..Len(wire) /\ Len(wire) \in Nat BY DEF WireTypeOK
    <2> QED BY <2>1, <2>2, FS_Interval
<1>2. IsFiniteSet(T)
    <2> DEFINE f == [i \in DOMAIN todo |-> todo[i]]
    <2>1. f \in Surjection(DOMAIN todo, T) BY DEF Surjection
    <2> QED BY <1>1, <2>1, FS_Surjection
<1>3. IsFiniteSet(W)
    <2> DEFINE f == [i \in DOMAIN wire |-> wire[i].of]
    <2>1. f \in Surjection(DOMAIN wire, W) BY DEF Surjection
    <2> QED BY <1>1, <2>1, FS_Surjection
<1> QED BY <1>2, <1>3, FS_Union DEF Unanswered

LEMMA ElementsOfSequence == \A S : \A s \in Seq(S) : \A i \in DOMAIN s : s[i] \in S
OBVIOUS

LEMMA NumbersAreNumbers == ASSUME WireTypeOK PROVE \A x \in Unanswered : x \in Nat
<1>1. \A i \in DOMAIN todo : todo[i] \in Nat BY DEF WireTypeOK
<1>2. \A i \in DOMAIN wire : wire[i].of \in Nat
    <2>1. \A i \in DOMAIN wire : wire[i] \in [kind : Kinds, of : Nat]
        BY ElementsOfSequence DEF WireTypeOK
    <2> QED BY <2>1
<1> QED BY <1>1, <1>2 DEF Unanswered

LEMMA OneMore ==
    ASSUME NEW S, NEW T, IsFiniteSet(S), NEW x, T \subseteq S \cup {x}
    PROVE  Cardinality(T) <= Cardinality(S) + 1 /\ Cardinality(T) \in Nat
<1>1. /\ IsFiniteSet(S \cup {x}) /\ Cardinality(S) \in Nat
      /\ Cardinality(S \cup {x}) = Cardinality(S) \/ Cardinality(S \cup {x}) = Cardinality(S) + 1
    BY FS_AddElement, FS_CardinalityType
<1>2. IsFiniteSet(T) /\ Cardinality(T) <= Cardinality(S \cup {x})
    BY <1>1, FS_Subset
<1>3. Cardinality(T) \in Nat BY <1>2, FS_CardinalityType
<1> QED BY <1>1, <1>2, <1>3

LEMMA OneLess ==
    ASSUME NEW S, NEW T, IsFiniteSet(S), NEW x \in S, T \subseteq S \ {x}
    PROVE  Cardinality(T) <= Cardinality(S) - 1
<1>1. /\ IsFiniteSet(S \ {x}) /\ Cardinality(S \ {x}) = Cardinality(S) - 1
    BY FS_RemoveElement
<1> QED BY <1>1, FS_Subset

LEMMA NoMore ==
    ASSUME NEW S, NEW T, IsFiniteSet(S), T \subseteq S
    PROVE  /\ Cardinality(T) <= Cardinality(S)
           /\ Cardinality(T) \in Nat /\ Cardinality(S) \in Nat
<1>1. IsFiniteSet(T) /\ Cardinality(T) <= Cardinality(S) BY FS_Subset
<1> QED BY <1>1, FS_CardinalityType

\* A line taken off the wire owes no new number, and a terminator takes its own along.
LEMMA ReadLeaves ==
    ASSUME WireTypeOK, Numbered, NEW kinds, Read(kinds)
    PROVE  /\ Numbered'
           /\ Unanswered' \subseteq Unanswered
           /\ Head(wire).kind = "done" =>
                 Head(wire).of \in Unanswered /\ Unanswered' \subseteq Unanswered \ {Head(wire).of}
<1>1. wire # <<>> /\ wire \in Seq([kind : Kinds, of : Nat]) /\ wire' = Tail(wire)
    BY DEF Read, Readable, WireTypeOK
<1>2. /\ Head(wire) = wire[1] /\ 1 \in DOMAIN wire
      /\ \A i \in DOMAIN wire' : i + 1 \in DOMAIN wire /\ wire'[i] = wire[i + 1] /\ i + 1 > 1
      /\ \A i, j \in DOMAIN wire' : j > i => j + 1 > i + 1
    BY <1>1
<1>3. UNCHANGED <<todo, asked, torn>> BY DEF Read, daemon
<1>4. Unanswered' \subseteq Unanswered BY <1>2, <1>3 DEF Unanswered
<1>5. Numbered'
    <2>1. \A i \in DOMAIN wire' : wire'[i].kind = "done" =>
              /\ \A j \in DOMAIN todo' : todo'[j] # wire'[i].of
              /\ \A j \in DOMAIN wire' : j > i => wire'[j].of # wire'[i].of
        BY <1>2, <1>3 DEF Numbered
    <2> QED BY <1>3, <1>4, <2>1 DEF Numbered
<1>6. ASSUME Head(wire).kind = "done"
      PROVE  Head(wire).of \in Unanswered /\ Head(wire).of \notin Unanswered'
    BY <1>2, <1>3, <1>6 DEF Numbered, Unanswered
<1> QED BY <1>4, <1>5, <1>6

\* A failure that is not ignored ends the connection, one that is counts.
LEMMA FailAllows ==
    ASSUME LagInv, Asking, Fail, Unanswered' \subseteq Unanswered
    PROVE  Lag'
<1>1. CASE step = "get_emblems"
    <2>1. Live /\ swallowed' = swallowed + 1 /\ phase' = "write"
        BY <1>1 DEF Live, Fail, AfterNothing, GoOnWith
    <2>2. /\ Cardinality(Unanswered') <= Cardinality(Unanswered)
          /\ Cardinality(Unanswered') \in Nat /\ Cardinality(Unanswered) \in Nat
        BY UnansweredIsFinite, NoMore DEF LagInv, WireInv
    <2>3. swallowed \in Nat BY DEF LagInv, WireInv, WireTypeOK
    <2>4. Cardinality(Unanswered) <= swallowed + 1
        BY <2>1, <2>2, <2>3 DEF LagInv, Lag
    <2> QED BY <2>1, <2>2, <2>3, <2>4 DEF Lag
<1>2. CASE step # "get_emblems"
    BY <1>2 DEF Fail, Lag, Live
<1> QED BY <1>1, <1>2

LEMMA ReadLags ==
    ASSUME LagInv, ReadOne
    PROVE  Numbered' /\ Lag'
<1>0. WireTypeOK /\ Numbered /\ IsFiniteSet(Unanswered) /\ swallowed \in Nat
    BY UnansweredIsFinite DEF LagInv, WireInv, WireTypeOK
<1>1. ASSUME NEW kinds, Read(kinds), UNCHANGED <<step, history>>, phase' # "write"
      PROVE  Numbered' /\ Lag'
    <2>1. /\ Numbered' /\ Unanswered' \subseteq Unanswered BY <1>0, <1>1, ReadLeaves
    <2>2. Live /\ phase # "write" /\ swallowed' = swallowed
        BY <1>1 DEF Read, Reading, Asking, Commands, FileCommands, Live, history
    <2>3. Cardinality(Unanswered) <= swallowed + 1 BY <2>2 DEF LagInv, Lag
    <2>4. /\ Cardinality(Unanswered') <= Cardinality(Unanswered)
          /\ Cardinality(Unanswered') \in Nat /\ Cardinality(Unanswered) \in Nat
        BY <1>0, <2>1, NoMore
    <2>5. Lag' BY <1>0, <1>1, <2>2, <2>3, <2>4 DEF Lag
    <2> QED BY <2>1, <2>5
<1>2. ASSUME Read({"done"}), AfterNothing \/ AfterTable, Answered
      PROVE  Numbered' /\ Lag'
    <2>0. Head(wire).kind = "done" BY <1>2 DEF Read
    <2>1. /\ Numbered'
          /\ Head(wire).of \in Unanswered
          /\ Unanswered' \subseteq Unanswered \ {Head(wire).of}
        BY <1>0, <1>2, <2>0, ReadLeaves
    <2>2. Live /\ phase # "write" /\ phase' = "write" /\ swallowed' = swallowed
        BY <1>2 DEF Read, Reading, Asking, Commands, FileCommands, Live, Answered,
                    AfterNothing, AfterTable, GoOnWith
    <2>3. Cardinality(Unanswered) <= swallowed + 1 BY <2>2 DEF LagInv, Lag
    <2>4. Cardinality(Unanswered') <= Cardinality(Unanswered) - 1
        BY <1>0, <2>1, OneLess
    <2>5. Cardinality(Unanswered) \in Nat /\ Cardinality(Unanswered') \in Nat
        BY <1>0, <2>1, NoMore
    <2>6. Lag' BY <1>0, <2>2, <2>3, <2>4, <2>5 DEF Lag
    <2> QED BY <2>1, <2>6
<1>3. ASSUME Fail, Reading, UNCHANGED <<asked, torn, wire, todo>>
      PROVE  Numbered' /\ Lag'
    <2>1. Unanswered' = Unanswered BY <1>3 DEF Unanswered
    <2>2. Numbered' BY <1>0, <1>3, <2>1 DEF Numbered
    <2> QED BY <1>3, <2>1, <2>2, FailAllows DEF Reading
<1>4. CASE ReadHeader
    BY <1>1, <1>4 DEF ReadHeader
<1>5. CASE ReadArgument \/ SkipLine
    <2>1. ASSUME NEW kinds, Read(kinds), UNCHANGED phase PROVE phase' # "write"
        BY <2>1 DEF Read, Reading
    <2> QED BY <1>1, <1>5, <2>1 DEF ReadArgument, SkipLine
<1>6. CASE EndOfTable \/ EndOfSkip
    BY <1>2, <1>6 DEF EndOfTable, EndOfSkip
<1>7. CASE ParseError
    <2>1. PICK kinds : Read(kinds) /\ Fail BY <1>7 DEF ParseError
    <2>2. Numbered' /\ Unanswered' \subseteq Unanswered BY <1>0, <2>1, ReadLeaves
    <2>3. Asking BY <2>1 DEF Read, Reading
    <2> QED BY <2>1, <2>2, <2>3, FailAllows
<1>8. CASE Malicious \/ ReadFails
    BY <1>3, <1>8 DEF Malicious, ReadFails, daemon
<1>9. CASE Timeout
    <2>1. CASE Fail
        BY <1>3, <1>9, <2>1 DEF Timeout, NothingCame, daemon
    <2>2. CASE step' = "crashed" /\ UNCHANGED <<phase, history>>
        <3>1. UNCHANGED <<asked, torn, wire, todo>> /\ Unanswered' = Unanswered
            BY <1>9 DEF Timeout, daemon, Unanswered
        <3>2. Numbered' BY <1>0, <3>1 DEF Numbered
        <3> QED BY <2>2, <3>2 DEF Lag, Live
    <2> QED BY <1>9, <2>1, <2>2 DEF Timeout
<1> QED BY <1>4, <1>5, <1>6, <1>7, <1>8, <1>9 DEF ReadOne

LEMMA WriteLags ==
    ASSUME LagInv, Write
    PROVE  Numbered' /\ Lag'
<1>0. /\ WireTypeOK /\ Numbered /\ IsFiniteSet(Unanswered)
      /\ swallowed \in Nat /\ asked \in Nat /\ torn \in Nat
    BY UnansweredIsFinite DEF LagInv, WireInv, WireTypeOK
<1>1. ASSUME Asking, phase = "write"
      PROVE  Live /\ Cardinality(Unanswered) <= swallowed
    <2>1. Live BY <1>1 DEF Asking, Commands, FileCommands, Live
    <2>2. Cardinality(Unanswered) <= swallowed + 0 BY <1>1, <2>1 DEF LagInv, Lag
    <2> QED BY <1>0, <2>1, <2>2
<1>2. CASE WriteCommand
    <2> DEFINE new == IF torn = Nobody THEN asked + 1 ELSE torn
    <2>1. /\ Asking /\ phase = "write" /\ phase' = "header"
          /\ asked' = asked + 1 /\ torn' = Nobody /\ wire' = wire
          /\ todo' = Append(todo, new) /\ swallowed' = swallowed
        BY <1>2 DEF WriteCommand, history
    <2>2. new \in Nat /\ new <= asked + 1 /\ new \notin Unanswered
        BY <1>0 DEF Numbered
    <2> HIDE DEF new
    <2>3. /\ todo \in Seq(Nat) /\ Len(todo) \in Nat
          /\ DOMAIN todo = 1..Len(todo) /\ DOMAIN todo' = 1..(Len(todo) + 1)
          /\ \A i \in DOMAIN todo : todo'[i] = todo[i]
          /\ todo'[Len(todo) + 1] = new
        BY <1>0, <2>1, <2>2 DEF WireTypeOK
    <2>4. \A i \in DOMAIN todo' : i \in DOMAIN todo \/ i = Len(todo) + 1
        BY <2>3
    <2>5. Unanswered' = Unanswered \cup {new}
        <3>1. \A i \in DOMAIN todo : i \in DOMAIN todo' BY <2>3
        <3>2. Len(todo) + 1 \in DOMAIN todo' BY <2>3
        <3> QED BY <2>1, <2>3, <2>4, <3>1, <3>2 DEF Unanswered
    <2>6. Numbered'
        <3>1. \A x \in Unanswered' \cup {torn'} : x <= asked'
            <4>1. \A x \in Unanswered : x \in Nat /\ x <= asked
                BY <1>0, NumbersAreNumbers DEF Numbered
            <4> QED BY <1>0, <2>1, <2>2, <2>5, <4>1 DEF Nobody
        <3>2. \A i, j \in DOMAIN todo' : i # j => todo'[i] # todo'[j]
            <4>1. \A i \in DOMAIN todo : todo[i] # new BY <2>2 DEF Unanswered
            <4> QED BY <1>0, <2>3, <2>4, <4>1 DEF Numbered
        <3>3. \A i \in DOMAIN wire : wire[i].of # new BY <2>2 DEF Unanswered
        <3>4. \A i \in DOMAIN wire' : wire'[i].kind = "done" =>
                  /\ \A j \in DOMAIN todo' : todo'[j] # wire'[i].of
                  /\ \A j \in DOMAIN wire' : j > i => wire'[j].of # wire'[i].of
            BY <1>0, <2>1, <2>3, <2>4, <3>3 DEF Numbered
        <3> QED BY <2>1, <3>1, <3>2, <3>4 DEF Numbered
    <2>7. Cardinality(Unanswered') <= Cardinality(Unanswered) + 1 /\ Cardinality(Unanswered') \in Nat
        BY <1>0, <2>5, OneMore
    <2>8. Cardinality(Unanswered) \in Nat BY <1>0, FS_CardinalityType
    <2>9. Lag' BY <1>0, <1>1, <2>1, <2>7, <2>8 DEF Lag
    <2> QED BY <2>6, <2>9
<1>3. CASE WriteBlocks
    <2>1. /\ Asking /\ phase = "write" /\ phase' = "write"
          /\ asked' = asked + 1 /\ torn' = IF torn = Nobody THEN asked + 1 ELSE torn
          /\ swallowed' = swallowed + 1
          /\ UNCHANGED <<wire, todo>>
        BY <1>3 DEF WriteBlocks, AfterNothing, GoOnWith, daemon
    <2>2. Unanswered' = Unanswered BY <2>1 DEF Unanswered
    <2>3. \A x \in Unanswered : x \in Nat /\ x <= asked
        BY <1>0, NumbersAreNumbers DEF Numbered
    <2>4. torn' <= asked' /\ torn' \notin Unanswered
        BY <1>0, <2>1, <2>3 DEF Numbered
    <2>5. \A x \in Unanswered' \cup {torn'} : x <= asked'
        BY <1>0, <2>1, <2>2, <2>3, <2>4
    <2>6. Numbered' BY <1>0, <2>1, <2>2, <2>4, <2>5 DEF Numbered
    <2>7. Cardinality(Unanswered) \in Nat BY <1>0, FS_CardinalityType
    <2>8. Lag' BY <1>0, <1>1, <2>1, <2>2, <2>7 DEF Lag
    <2> QED BY <2>6, <2>8
<1>4. CASE WriteFails
    <2>1. Asking /\ Fail /\ UNCHANGED <<asked, torn, wire, todo>>
        BY <1>4 DEF WriteFails, daemon
    <2>2. Unanswered' = Unanswered BY <2>1 DEF Unanswered
    <2>3. Numbered' BY <1>0, <2>1, <2>2 DEF Numbered
    <2> QED BY <2>1, <2>2, <2>3, FailAllows
<1> QED BY <1>2, <1>3, <1>4 DEF Write

LEMMA DaemonLags ==
    ASSUME LagInv, NEW kind \in Kinds, DaemonWrites(kind)
    PROVE  Numbered' /\ Lag'
<1>0. /\ WireTypeOK /\ Numbered /\ IsFiniteSet(Unanswered) /\ swallowed \in Nat
    BY UnansweredIsFinite DEF LagInv, WireInv, WireTypeOK
<1>1. /\ todo # <<>>
      /\ wire' = Append(wire, Line(kind, Head(todo)))
      /\ UNCHANGED <<step, phase, asked, torn, swallowed>>
      /\ \/ kind # "done" /\ todo' = todo
         \/ kind = "done" /\ todo' = Tail(todo)
    BY DEF DaemonWrites, reader, history, LaterLines, FirstLines
<1>2. /\ todo \in Seq(Nat) /\ 1 \in DOMAIN todo /\ Head(todo) = todo[1] /\ todo[1] \in Nat
    BY <1>0, <1>1 DEF WireTypeOK
<1>3. \A j \in DOMAIN todo' :
          \/ j \in DOMAIN todo /\ todo'[j] = todo[j] /\ kind # "done"
          \/ j + 1 \in DOMAIN todo /\ todo'[j] = todo[j + 1] /\ j + 1 # 1 /\ kind = "done"
    <2>1. CASE kind = "done" /\ todo' = Tail(todo)
        BY <1>1, <1>2, <2>1
    <2>2. CASE kind # "done" /\ todo' = todo
        BY <2>2
    <2> QED BY <1>1, <2>1, <2>2
<1>4. /\ Len(wire) \in Nat
      /\ DOMAIN wire = 1..Len(wire) /\ DOMAIN wire' = 1..(Len(wire) + 1)
      /\ \A i \in DOMAIN wire : wire'[i] = wire[i]
      /\ wire'[Len(wire) + 1].of = todo[1] /\ wire'[Len(wire) + 1].kind = kind
    BY <1>0, <1>1, <1>2 DEF WireTypeOK, Line
<1>5. \A i \in DOMAIN wire' : i \in DOMAIN wire \/ i = Len(wire) + 1 BY <1>4
<1>6. Unanswered' \subseteq Unanswered
    <2>1. \A j \in DOMAIN todo' : \E k \in DOMAIN todo : todo'[j] = todo[k] BY <1>3
    <2>2. \A i \in DOMAIN wire' : wire'[i].of = todo[1] \/ \E k \in DOMAIN wire : wire'[i].of = wire[k].of
        BY <1>4, <1>5
    <2> QED BY <1>2, <2>1, <2>2 DEF Unanswered
<1>7. Numbered'
    <2>1. \A x \in Unanswered' \cup {torn'} : x <= asked' BY <1>0, <1>1, <1>6 DEF Numbered
    <2>2. torn' # Nobody => torn' \notin Unanswered' BY <1>0, <1>1, <1>6 DEF Numbered
    <2>3. \A i, j \in DOMAIN todo' : i # j => todo'[i] # todo'[j]
        <3>1. CASE todo' = todo BY <1>0, <3>1 DEF Numbered
        <3>2. CASE todo' = Tail(todo)
            <4>1. \A j \in DOMAIN todo' : j \in Nat /\ j + 1 \in DOMAIN todo /\ todo'[j] = todo[j + 1]
                BY <1>1, <1>2, <3>2
            <4>2. \A i, j \in DOMAIN todo' : i # j => i + 1 # j + 1 BY <4>1
            <4> QED BY <1>0, <4>1, <4>2 DEF Numbered
        <3> QED BY <1>1, <3>1, <3>2
    <2>4. ASSUME NEW i \in DOMAIN wire', wire'[i].kind = "done"
          PROVE  /\ \A j \in DOMAIN todo' : todo'[j] # wire'[i].of
                 /\ \A j \in DOMAIN wire' : j > i => wire'[j].of # wire'[i].of
        <3>1. CASE i = Len(wire) + 1
            <4>1. kind = "done" /\ wire'[i].of = todo[1] BY <1>4, <2>4, <3>1
            <4>2. \A j \in DOMAIN todo' : todo'[j] # todo[1]
                BY <1>0, <1>2, <1>3, <4>1 DEF Numbered
            <4>3. \A j \in DOMAIN wire' : ~(j > i) BY <1>4, <3>1
            <4> QED BY <4>1, <4>2, <4>3
        <3>2. CASE i \in DOMAIN wire
            <4>1. /\ wire[i].kind = "done" /\ wire'[i].of = wire[i].of
                  /\ \A j \in DOMAIN todo : todo[j] # wire[i].of
                  /\ \A j \in DOMAIN wire : j > i => wire[j].of # wire[i].of
                BY <1>0, <1>4, <2>4, <3>2 DEF Numbered
            <4>2. \A j \in DOMAIN todo' : todo'[j] # wire[i].of BY <1>3, <4>1
            <4>3. \A j \in DOMAIN wire' : j > i => wire'[j].of # wire[i].of
                BY <1>2, <1>4, <1>5, <4>1
            <4> QED BY <4>1, <4>2, <4>3
        <3> QED BY <1>5, <3>1, <3>2
    <2> QED BY <2>1, <2>2, <2>3, <2>4 DEF Numbered
<1>8. Lag'
    <2>1. /\ Cardinality(Unanswered') <= Cardinality(Unanswered)
          /\ Cardinality(Unanswered') \in Nat /\ Cardinality(Unanswered) \in Nat
        BY <1>0, <1>6, NoMore
    <2> QED BY <1>0, <1>1, <2>1 DEF LagInv, Lag, Live
<1> QED BY <1>7, <1>8

LEMMA OthersLag ==
    ASSUME LagInv, Take \/ CheckConnection \/ Reconnect \/ DaemonCloses
    PROVE  Numbered' /\ Lag'
<1>1. CASE Take \/ CheckConnection \/ DaemonCloses
    <2>1. UNCHANGED <<asked, torn, wire, todo, swallowed>> /\ Unanswered' = Unanswered
        BY <1>1 DEF Take, TakeRequest, CheckConnection, DaemonCloses, daemon, history, Unanswered
    <2>2. Numbered' BY <2>1 DEF LagInv, Numbered
    <2>3. (Live' => Live) /\ (Live' => phase' = phase)
        BY <1>1 DEF Take, TakeRequest, CheckConnection, DaemonCloses, Live, GoOnWith, LagInv,
                    WireInv, reader
    <2> QED BY <2>1, <2>2, <2>3 DEF LagInv, Lag
<1>2. CASE Reconnect
    <2>1. /\ todo' = <<>> /\ wire' = <<>> /\ torn' = 0 /\ asked' = 0
          /\ swallowed' = 0 /\ phase' = "write"
        BY <1>2 DEF Reconnect, Nobody
    <2>2. Unanswered' = {} BY <2>1 DEF Unanswered
    <2>3. Numbered' BY <2>1, <2>2 DEF Numbered, Nobody
    <2>4. Lag' BY <2>1, <2>2, FS_EmptySet DEF Lag
    <2> QED BY <2>3, <2>4
<1> QED BY <1>1, <1>2

(* The inductive invariant behind the count of the answers that are owed. *)
THEOREM LagInvariant == WireSpec => []LagInv
<1>1. WireInit => LagInv
    <2> SUFFICES ASSUME WireInit PROVE LagInv OBVIOUS
    <2>1. /\ todo = <<>> /\ wire = <<>> /\ torn = 0 /\ asked = 0
          /\ swallowed = 0 /\ phase = "write"
        BY DEF WireInit, Nobody
    <2>2. Unanswered = {} BY <2>1 DEF Unanswered
    <2>3. Numbered BY <2>1, <2>2 DEF Numbered, Nobody
    <2>4. Lag BY <2>1, <2>2, FS_EmptySet DEF Lag
    <2> QED BY <2>3, <2>4, WireInvInit DEF LagInv
<1>2. LagInv /\ [WireNext]_wireVars => LagInv'
    <2> SUFFICES ASSUME LagInv, [WireNext]_wireVars PROVE Numbered' /\ Lag'
        BY WireInvStep DEF LagInv
    <2>1. CASE UNCHANGED wireVars
        BY <2>1 DEF wireVars, LagInv, Numbered, Lag, Live, Unanswered
    <2>2. CASE WireNext
        BY <2>2, ReadLags, WriteLags, DaemonLags, OthersLag DEF WireNext
    <2> QED BY <2>1, <2>2
<1> QED BY <1>1, <1>2, PTL DEF WireSpec

\* Answers still to be read are those of the command being asked and of the failed
\* exchanges that were ignored, however long the connection lives.
THEOREM LagAccounted == WireSpec => []LagIsAccounted
<1>1. LagInv => LagIsAccounted
    <2> SUFFICES ASSUME LagInv, Connected
                 PROVE  Cardinality(Unanswered)
                            <= swallowed + (IF Asking /\ phase # "write" THEN 1 ELSE 0)
        BY DEF LagIsAccounted
    <2>1. Live BY DEF Connected, Live
    <2>2. phase # "write" => Asking
        BY <2>1 DEF LagInv, WireInv, WireTypeOK, Live, Asking
    <2> QED BY <2>1, <2>2 DEF LagInv, Lag
<1> QED BY <1>1, LagInvariant, PTL
=============================================================================
