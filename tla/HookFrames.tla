----------------------------- MODULE HookFrames -----------------------------
(***************************************************************************)
(* What handle_hook_server_input must make of a stream of lines, defined   *)
(* on the stream as a whole, and the properties that compare the coroutine *)
(* of HookClient, which sees one line at a time, with that definition.     *)
(***************************************************************************)
EXTENDS HookClient, FiniteSets

\* The lines of this connection that the coroutine has read.
Consumed == SubSeq(sent, 1, Len(sent) - Len(wire))

\* The frames that are complete in a sequence of lines, by definition: a name, the
\* lines up to the next "done", and so on with what follows.
FramesIn[lines \in Seq(Lines)] ==
    LET ends == {i \in 2..Len(lines) : lines[i] = "done"}
    IN IF ends = {} THEN <<>>
       ELSE LET end == CHOOSE i \in ends : \A j \in ends : i <= j
            IN <<SubSeq(lines, 1, end - 1)>> \o FramesIn[SubSeq(lines, end + 1, Len(lines))]

FrameArgs(frame) == {frame[i] : i \in 2..Len(frame)}

(* The hooks called on a connection are the registered ones among its complete
   frames, each with exactly its own arguments, in the order they were sent: no
   argument or half a frame survives a yield, an unknown name or a reconnect.  And
   all of these frames are good: a connection whose frames do not parse or carry
   too many lines is dropped before anything of the bad frame is acted on. *)
WholeFrames ==
    LET frames == FramesIn[Consumed]
        known == {i \in DOMAIN frames : frames[i][1] \in Hooks}
        Nth(i) == Cardinality({j \in known : j <= i})
    IN /\ Len(dispatched) = Cardinality(known)
       /\ \A i \in known : dispatched[Nth(i)] = <<frames[i][1], FrameArgs(frames[i])>>
       /\ \A i \in DOMAIN frames :
             FrameArgs(frames[i]) \subseteq Args /\ Len(frames[i]) <= MaxArgs
=============================================================================
