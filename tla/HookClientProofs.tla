-------------------------- MODULE HookClientProofs --------------------------
(***************************************************************************)
(* The hook connection, for every set of hooks and arguments and every     *)
(* limit.  It has exactly one lifeline: typing and the lifeline need each  *)
(* other, as a watch can be removed (watches - 1 is a natural) only        *)
(* because hookConnected says there is one.  And the hooks called are the  *)
(* complete frames of the lines sent: what the coroutine has gathered and  *)
(* what is still on the wire are, put together, the frames to come.        *)
(***************************************************************************)
EXTENDS HookFrames, SequenceTheorems, FiniteSetTheorems, WellFoundedInduction, TLAPS

HookInv == HookTypeOK /\ OneLifeline

LEMMA HookInitInv == HookInit => HookInv
<1> SUFFICES ASSUME HookInit PROVE HookInv
  OBVIOUS
<1>1. OneLifeline
  BY DEF HookInit, OneLifeline
<1>2. wire \in Seq(Lines) /\ sent \in Seq(Lines)
  BY DEF HookInit
<1>3. dispatched \in Seq(Hooks \X SUBSET Args)
  BY DEF HookInit
<1>4. args \in SUBSET Args
  BY DEF HookInit
<1>5. name \in Lines \cup {NoName} /\ at \in {"name", "arg"}
  BY DEF HookInit
<1>6. watches \in Nat /\ timers \in Nat /\ numargs \in Nat
  BY DEF HookInit
<1>7. connecting \in BOOLEAN /\ hookConnected \in BOOLEAN /\ hungUp \in BOOLEAN
  BY DEF HookInit
<1> QED BY <1>1, <1>2, <1>3, <1>4, <1>5, <1>6, <1>7 DEF HookInv, HookTypeOK

LEMMA KillInv ==
    ASSUME HookInv, watches = 1, ~connecting, Kill
    PROVE  HookInv'
<1>1. args' \in SUBSET Args /\ name' \in Lines \cup {NoName}
  BY DEF Kill
<1>2. watches' = 0 /\ connecting' = TRUE /\ hookConnected' = FALSE /\ timers' = 0
  BY DEF Kill, HookInv, HookTypeOK, OneLifeline
<1>3. UNCHANGED <<at, numargs, wire, hungUp, sent, dispatched>>
  BY DEF Kill, connection
<1>4. HookTypeOK'
  BY <1>1, <1>2, <1>3 DEF HookInv, HookTypeOK
<1> QED BY <1>2, <1>4 DEF HookInv, OneLifeline

\* The coroutine runs only when there is a watch, which is then the lifeline.
LEMMA ResumedIsConnected ==
    ASSUME HookInv, Resumed
    PROVE  watches = 1 /\ timers = 0 /\ ~connecting /\ hookConnected
BY DEF HookInv, HookTypeOK, OneLifeline, Resumed

LEMMA ReadingInv ==
    ASSUME HookInv, Coroutine
    PROVE  HookInv'
<1>1. UNCHANGED <<watches, timers, connecting, hookConnected>>
  BY DEF Coroutine, ReadName, ReadArg, ReadDone
<1>2. /\ at' \in {"name", "arg"} /\ numargs' \in Nat /\ hungUp' = hungUp
      /\ sent' = sent
  BY DEF Coroutine, ReadName, ReadArg, ReadDone, HookInv, HookTypeOK
<1>3. wire # <<>> /\ wire' = Tail(wire)
  BY DEF Coroutine, ReadName, ReadArg, ReadDone
<1>4. Head(wire) \in Lines /\ wire' \in Seq(Lines)
  BY <1>3 DEF HookInv, HookTypeOK
<1>5. name' \in Lines \cup {NoName}
  BY <1>4 DEF Coroutine, ReadName, ReadArg, ReadDone, HookInv, HookTypeOK
<1>6. args' \in SUBSET Args
  BY DEF Coroutine, ReadName, ReadArg, ReadDone, HookInv, HookTypeOK
<1>7. dispatched' \in Seq(Hooks \X SUBSET Args)
  <2>1. CASE name \in Hooks /\ dispatched' = Append(dispatched, <<name, args>>)
    BY <2>1 DEF HookInv, HookTypeOK
  <2>2. CASE UNCHANGED dispatched
    BY <2>2 DEF HookInv, HookTypeOK
  <2> QED BY <2>1, <2>2 DEF Coroutine, ReadName, ReadArg, ReadDone
<1>8. HookTypeOK'
  BY <1>1, <1>2, <1>4, <1>5, <1>6, <1>7 DEF HookInv, HookTypeOK
<1>9. OneLifeline'
  BY <1>1 DEF HookInv, OneLifeline
<1> QED BY <1>8, <1>9 DEF HookInv

LEMMA HookInductive == HookInv /\ [HookNext]_hookVars => HookInv'
<1> SUFFICES ASSUME HookInv, [HookNext]_hookVars PROVE HookInv'
  OBVIOUS
<1>1. CASE Coroutine
  BY <1>1, ReadingInv
<1>2. CASE Halt \/ ReadError
  BY <1>2, ResumedIsConnected, KillInv DEF Halt, ReadError
<1>3. CASE TimerFires
  BY <1>3 DEF TimerFires, HookInv, HookTypeOK, OneLifeline, coroutine, connection
<1>4. CASE AttemptOk
  <2>1. watches' = 1 /\ timers' = 0 /\ connecting' = FALSE /\ hookConnected' = TRUE
    BY <1>4 DEF AttemptOk, HookInv, HookTypeOK, OneLifeline
  <2>2. wire' \in Seq(Lines) /\ sent' \in Seq(Lines)
    BY <1>4 DEF AttemptOk
  <2>3. dispatched' \in Seq(Hooks \X SUBSET Args)
    BY <1>4 DEF AttemptOk
  <2>4. /\ at' \in {"name", "arg"} /\ name' \in Lines \cup {NoName}
        /\ hungUp' \in BOOLEAN /\ UNCHANGED numargs
    BY <1>4 DEF AttemptOk
  <2>5. args' \in SUBSET Args
    BY <1>4 DEF AttemptOk
  <2>6. HookTypeOK'
    BY <2>1, <2>2, <2>3, <2>4, <2>5 DEF HookInv, HookTypeOK
  <2> QED BY <2>1, <2>6 DEF HookInv, OneLifeline
<1>5. CASE AttemptFail
  <2>1. watches' = 0 /\ timers' = 1 /\ connecting' = FALSE /\ hookConnected' = FALSE
    BY <1>5 DEF AttemptFail, HookInv, HookTypeOK, OneLifeline
  <2>2. UNCHANGED <<at, name, args, numargs, wire, hungUp, sent, dispatched>>
    BY <1>5 DEF AttemptFail, coroutine, connection
  <2>3. HookTypeOK'
    BY <2>1, <2>2 DEF HookInv, HookTypeOK
  <2> QED BY <2>1, <2>3 DEF HookInv, OneLifeline
<1>6. CASE Daemon
  <2>1. CASE DaemonHangUp
    BY <2>1 DEF DaemonHangUp, HookInv, HookTypeOK, OneLifeline, coroutine
  <2>2. ASSUME NEW line \in Lines, DaemonSend(line) PROVE HookInv'
    BY <2>2 DEF DaemonSend, HookInv, HookTypeOK, OneLifeline, coroutine
  <2> QED BY <1>6, <2>1, <2>2 DEF Daemon
<1>7. CASE ~connecting /\ HookForceReconnect
  <2>1. CASE hookConnected /\ Kill
    BY <1>7, <2>1, KillInv DEF HookInv, OneLifeline
  <2>2. CASE UNCHANGED hookVars
    BY <2>2 DEF hookVars, HookInv, HookTypeOK, OneLifeline
  <2> QED BY <1>7, <2>1, <2>2 DEF HookForceReconnect
<1>8. CASE UNCHANGED hookVars
  BY <1>8 DEF hookVars, HookInv, HookTypeOK, OneLifeline
<1> QED BY <1>1, <1>2, <1>3, <1>4, <1>5, <1>6, <1>7, <1>8 DEF HookNext, Attempt

(* Every variable of the hook client keeps its type; in particular no watch is
   removed that is not there. *)
THEOREM HookTypeCorrect == HookSpec => []HookTypeOK
<1>1. HookInv => HookTypeOK
  BY DEF HookInv
<1> QED BY <1>1, HookInitInv, HookInductive, PTL DEF HookSpec

(* Always exactly one of: a live watch, a pending retry timer, an attempt being
   made; and `connected` says whether it is the watch. *)
THEOREM LifelineHolds == HookSpec => []OneLifeline
<1>1. HookInv => OneLifeline
  BY DEF HookInv
<1> QED BY <1>1, HookInitInv, HookInductive, PTL DEF HookSpec

-----------------------------------------------------------------------------
(* The frames of a connection.  FramesIn is defined on the whole stream, from its  *)
(* front; the coroutine sees the stream grow at its back.  First what a definition *)
(* by recursion on shorter and shorter sequences needs to be unfolded at all: a    *)
(* function that satisfies it, built from functions on sequences up to a length.   *)

LEMMA LeastNatural ==
    ASSUME NEW T, T \subseteq Nat, T # {}
    PROVE  \E n \in T : \A m \in T : n <= m
<1> DEFINE R == OpToRel(<, Nat)
<1>1. IsWellFoundedOn(R, Nat) BY NatLessThanWellFounded
<1>2. \A x, y \in Nat : <<x, y>> \in R <=> x < y BY DEF OpToRel
<1> HIDE DEF R
<1>3. \E x \in T : \A y \in T : ~ (<<y, x>> \in R) BY <1>1, WFMin
<1>4. PICK n \in T : \A m \in T : ~ (<<m, n>> \in R) BY <1>3
<1>5. ASSUME NEW m \in T PROVE n <= m
    <2>1. n \in Nat /\ m \in Nat OBVIOUS
    <2>2. ~ (m < n) BY <1>2, <1>4, <2>1
    <2> QED BY <2>1, <2>2
<1> QED BY <1>5

LEMMA Induction ==
    ASSUME NEW S, 0 \in S, \A n \in Nat : n \in S => n + 1 \in S
    PROVE  \A n \in Nat : n \in S
<1> DEFINE T == Nat \ S
<1>1. SUFFICES ASSUME T # {} PROVE FALSE OBVIOUS
<1>2. PICK n \in T : \A m \in T : n <= m BY <1>1, LeastNatural
<1>3. n # 0 /\ n - 1 \in Nat /\ n - 1 \in S BY <1>2
<1> QED BY <1>2, <1>3

Ends(s) == {i \in 2..Len(s) : s[i] = "done"}
FirstEnd(s) == CHOOSE i \in Ends(s) : \A j \in Ends(s) : i <= j
AfterFrame(s) == SubSeq(s, FirstEnd(s) + 1, Len(s))
\* The right-hand side of FramesIn.
Body(g, s) == IF Ends(s) = {} THEN <<>>
              ELSE <<SubSeq(s, 1, FirstEnd(s) - 1)>> \o g[AfterFrame(s)]

LEMMA FirstEndIs ==
    ASSUME NEW s \in Seq(Lines), Ends(s) # {}
    PROVE  /\ FirstEnd(s) \in 2..Len(s) /\ s[FirstEnd(s)] = "done"
           /\ \A j \in 2..Len(s) : s[j] = "done" => FirstEnd(s) <= j
<1>1. Ends(s) \subseteq Nat BY DEF Ends
<1>2. \E i \in Ends(s) : \A j \in Ends(s) : i <= j BY <1>1, LeastNatural
<1>3. FirstEnd(s) \in Ends(s) /\ \A j \in Ends(s) : FirstEnd(s) <= j BY <1>2 DEF FirstEnd
<1> QED BY <1>3 DEF Ends

LEMMA AfterFrameIsShorter ==
    ASSUME NEW s \in Seq(Lines), Ends(s) # {}
    PROVE  /\ AfterFrame(s) \in Seq(Lines)
           /\ Len(AfterFrame(s)) \in Nat /\ Len(AfterFrame(s)) < Len(s)
<1> DEFINE e == FirstEnd(s)
<1>1. e \in 2..Len(s) /\ Len(s) \in Nat BY FirstEndIs
<1>2. \A i \in (e + 1)..Len(s) : s[i] \in Lines BY <1>1
<1> HIDE DEF e
<1>3. /\ SubSeq(s, e + 1, Len(s)) \in Seq(Lines)
      /\ Len(SubSeq(s, e + 1, Len(s))) = IF e + 1 <= Len(s) THEN Len(s) - (e + 1) + 1 ELSE 0
    BY <1>1, <1>2, SubSeqProperties
<1> QED BY <1>1, <1>3 DEF AfterFrame, e

LEMMA BodyIsLocal ==
    ASSUME NEW g, NEW h, NEW s \in Seq(Lines),
           \A r \in Seq(Lines) : Len(r) < Len(s) => g[r] = h[r]
    PROVE  Body(g, s) = Body(h, s)
BY AfterFrameIsShorter DEF Body

Shorter(n) == {s \in Seq(Lines) : Len(s) < n}
FramesUpTo(g, n) == g = [s \in Shorter(n) |-> Body(g, s)]

LEMMA FramesUpToAgree ==
    ASSUME NEW g, NEW h, NEW n \in Nat, NEW m \in Nat, FramesUpTo(g, n), FramesUpTo(h, m)
    PROVE  \A s \in Shorter(n) \cap Shorter(m) : g[s] = h[s]
<1> DEFINE S == {k \in Nat : \A s \in Shorter(n) \cap Shorter(m) : Len(s) < k => g[s] = h[s]}
<1>1. 0 \in S BY DEF Shorter
<1>2. ASSUME NEW k \in Nat, k \in S PROVE k + 1 \in S
    <2> SUFFICES ASSUME NEW s \in Shorter(n) \cap Shorter(m), Len(s) < k + 1
                 PROVE  g[s] = h[s]
        OBVIOUS
    <2>1. s \in Seq(Lines) /\ Len(s) \in Nat /\ Len(s) < n /\ Len(s) < m BY DEF Shorter
    <2>2. ASSUME NEW r \in Seq(Lines), Len(r) < Len(s) PROVE g[r] = h[r]
        <3>1. Len(r) \in Nat /\ Len(r) < n /\ Len(r) < m /\ Len(r) < k BY <2>1, <2>2
        <3>2. r \in Shorter(n) \cap Shorter(m) BY <3>1 DEF Shorter
        <3> QED BY <1>2, <3>1, <3>2
    <2>3. Body(g, s) = Body(h, s) BY <2>1, <2>2, BodyIsLocal
    <2>4. g[s] = Body(g, s) /\ h[s] = Body(h, s) BY DEF FramesUpTo
    <2> QED BY <2>3, <2>4
<1> HIDE DEF S
<1>3. \A k \in Nat : k \in S BY <1>1, <1>2, Induction
<1>4. ASSUME NEW s \in Shorter(n) \cap Shorter(m) PROVE g[s] = h[s]
    <2>1. n \in S /\ Len(s) < n BY <1>3 DEF Shorter
    <2> QED BY <2>1 DEF S
<1> QED BY <1>4

LEMMA FramesUpToExist == \A n \in Nat : \E g : FramesUpTo(g, n)
<1> DEFINE S == {n \in Nat : \E g : FramesUpTo(g, n)}
<1>1. 0 \in S
    <2>1. Shorter(0) = {}
        <3>1. \A s \in Seq(Lines) : ~(Len(s) < 0) OBVIOUS
        <3> QED BY <3>1 DEF Shorter
    <2> DEFINE g == [s \in {} |-> <<>>]
    <2>2. g = [s \in Shorter(0) |-> Body(g, s)] BY <2>1
    <2>3. FramesUpTo(g, 0) BY <2>2 DEF FramesUpTo
    <2> QED BY <2>3
<1>2. ASSUME NEW n \in Nat, n \in S PROVE n + 1 \in S
    <2>1. PICK g : FramesUpTo(g, n) BY <1>2
    <2> DEFINE h == [s \in Shorter(n + 1) |-> Body(g, s)]
    <2>2. ASSUME NEW s \in Shorter(n + 1) PROVE Body(g, s) = Body(h, s)
        <3>1. s \in Seq(Lines) /\ Len(s) \in Nat /\ Len(s) < n + 1 BY DEF Shorter
        <3>2. ASSUME NEW r \in Seq(Lines), Len(r) < Len(s) PROVE g[r] = h[r]
            <4>1. Len(r) \in Nat /\ Len(r) < n /\ Len(r) < n + 1 BY <3>1, <3>2
            <4>2. r \in Shorter(n) /\ r \in Shorter(n + 1) BY <4>1 DEF Shorter
            <4>3. g[r] = Body(g, r) BY <2>1, <4>2 DEF FramesUpTo
            <4> QED BY <4>2, <4>3
        <3> HIDE DEF h
        <3> QED BY <3>1, <3>2, BodyIsLocal
    <2>3. h = [s \in Shorter(n + 1) |-> Body(h, s)] BY <2>2
    <2> HIDE DEF h
    <2>4. FramesUpTo(h, n + 1) BY <2>3 DEF FramesUpTo
    <2> QED BY <2>4
<1> HIDE DEF S
<1>3. \A n \in Nat : n \in S BY <1>1, <1>2, Induction
<1> QED BY <1>3 DEF S

LEMMA FramesInUnfolds == \A s \in Seq(Lines) : FramesIn[s] = Body(FramesIn, s)
<1> DEFINE up(n) == CHOOSE g : FramesUpTo(g, n)
           F == [s \in Seq(Lines) |-> up(Len(s) + 1)[s]]
<1>1. \A n \in Nat : FramesUpTo(up(n), n) BY FramesUpToExist
<1> HIDE DEF up
<1>2. ASSUME NEW s \in Seq(Lines) PROVE F[s] = Body(F, s)
    <2>1. Len(s) \in Nat /\ Len(s) + 1 \in Nat /\ s \in Shorter(Len(s) + 1) BY DEF Shorter
    <2>2. FramesUpTo(up(Len(s) + 1), Len(s) + 1) BY <1>1, <2>1
    <2>3. F[s] = Body(up(Len(s) + 1), s) BY <2>1, <2>2 DEF FramesUpTo
    <2>4. ASSUME NEW r \in Seq(Lines), Len(r) < Len(s) PROVE up(Len(s) + 1)[r] = F[r]
        <3>1. Len(r) \in Nat /\ Len(r) + 1 \in Nat BY <2>4
        <3>2. FramesUpTo(up(Len(r) + 1), Len(r) + 1) BY <1>1, <3>1
        <3>3. r \in Shorter(Len(r) + 1) \cap Shorter(Len(s) + 1) BY <2>1, <2>4, <3>1 DEF Shorter
        <3> QED BY <2>1, <2>2, <3>1, <3>2, <3>3, FramesUpToAgree
    <2> HIDE DEF F
    <2>5. Body(up(Len(s) + 1), s) = Body(F, s) BY <2>4, BodyIsLocal
    <2> QED BY <2>3, <2>5
<1>3. F = [s \in Seq(Lines) |-> Body(F, s)] BY <1>2
<1> HIDE DEF F
<1>4. FramesIn = CHOOSE g : g = [s \in Seq(Lines) |-> Body(g, s)]
    BY DEF FramesIn, Body, Ends, FirstEnd, AfterFrame
<1>5. FramesIn = [s \in Seq(Lines) |-> Body(FramesIn, s)] BY <1>3, <1>4
<1> QED BY <1>5

LEMMA FramesAreFrames == \A s \in Seq(Lines) : FramesIn[s] \in Seq(Seq(Lines))
<1> DEFINE S == {n \in Nat : \A s \in Seq(Lines) : Len(s) < n => FramesIn[s] \in Seq(Seq(Lines))}
<1>1. 0 \in S OBVIOUS
<1>2. ASSUME NEW n \in Nat, n \in S PROVE n + 1 \in S
    <2> SUFFICES ASSUME NEW s \in Seq(Lines), Len(s) < n + 1
                 PROVE  FramesIn[s] \in Seq(Seq(Lines))
        OBVIOUS
    <2>1. CASE Ends(s) = {}
        <3>1. FramesIn[s] = <<>> BY <2>1, FramesInUnfolds DEF Body
        <3> QED BY <3>1
    <2>2. CASE Ends(s) # {}
        <3>1. /\ AfterFrame(s) \in Seq(Lines) /\ Len(AfterFrame(s)) < Len(s)
              /\ Len(AfterFrame(s)) \in Nat /\ Len(s) \in Nat
            BY <2>2, AfterFrameIsShorter
        <3>2. FramesIn[AfterFrame(s)] \in Seq(Seq(Lines)) BY <1>2, <3>1
        <3> DEFINE f == SubSeq(s, 1, FirstEnd(s) - 1)
        <3>3. f \in Seq(Lines)
            <4>1. FirstEnd(s) \in 2..Len(s) BY <2>2, FirstEndIs
            <4>2. 1 \in Int /\ FirstEnd(s) - 1 \in Int BY <4>1
            <4>3. \A i \in 1..(FirstEnd(s) - 1) : s[i] \in Lines BY <4>1
            <4> QED BY <4>2, <4>3, SubSeqProperties
        <3>4. FramesIn[s] = <<f>> \o FramesIn[AfterFrame(s)] BY <2>2, FramesInUnfolds DEF Body
        <3> HIDE DEF f
        <3>5. <<f>> \in Seq(Seq(Lines)) BY <3>3
        <3> QED BY <3>2, <3>4, <3>5, ConcatProperties
    <2> QED BY <2>1, <2>2
<1> HIDE DEF S
<1>3. \A n \in Nat : n \in S BY <1>1, <1>2, Induction
<1>4. ASSUME NEW s \in Seq(Lines) PROVE FramesIn[s] \in Seq(Seq(Lines))
    <2>1. Len(s) + 1 \in Nat /\ Len(s) < Len(s) + 1 OBVIOUS
    <2> QED BY <1>3, <2>1 DEF S
<1> QED BY <1>4

\* A frame that is not complete: nothing, or a name and lines other than "done".
Unfinished(f) == \A i \in 2..Len(f) : f[i] # "done"

LEMMA NoFrameYet ==
    ASSUME NEW f \in Seq(Lines), Unfinished(f)
    PROVE  FramesIn[f] = <<>>
BY FramesInUnfolds DEF Unfinished, Body, Ends

LEMMA OneFrameThenRest ==
    ASSUME NEW f \in Seq(Lines), f # <<>>, Unfinished(f), NEW t \in Seq(Lines)
    PROVE  FramesIn[Append(f, "done") \o t] = <<f>> \o FramesIn[t]
<1> DEFINE d == Append(f, "done")
           s == d \o t
           e == Len(f) + 1
<1>1. "done" \in Lines BY DEF Lines
<1>2. /\ d \in Seq(Lines) /\ Len(d) = e /\ d[e] = "done" /\ Len(f) \in Nat \ {0}
      /\ \A i \in 1..Len(f) : d[i] = f[i]
    BY <1>1, AppendProperties
<1> HIDE DEF d
<1>3. /\ s \in Seq(Lines) /\ Len(s) = e + Len(t) /\ Len(t) \in Nat
      /\ \A i \in 1..(e + Len(t)) : s[i] = IF i <= e THEN d[i] ELSE t[i - e]
    <2>1. Len(t) \in Nat BY LenProperties
    <2>2. /\ d \o t \in Seq(Lines) /\ Len(d \o t) = Len(d) + Len(t)
          /\ \A i \in 1..(Len(d) + Len(t)) : (d \o t)[i] = IF i <= Len(d) THEN d[i] ELSE t[i - Len(d)]
        BY <1>2, ConcatProperties
    <2> QED BY <1>2, <2>1, <2>2
<1> HIDE DEF s
<1>4. e \in 2..Len(s) /\ s[e] = "done" /\ \A i \in 1..Len(f) : s[i] = f[i]
    BY <1>2, <1>3
<1>5. Ends(s) # {} BY <1>4 DEF Ends
<1>6. ASSUME NEW i \in 2..Len(s), s[i] = "done" PROVE e <= i
    <2>1. i \in Nat /\ i >= 2 BY <1>3
    <2>2. i \notin 2..Len(f) BY <1>4, <1>6 DEF Unfinished
    <2> QED BY <1>2, <2>1, <2>2
<1>7. FirstEnd(s) = e
    <2>1. FirstEnd(s) \in 2..Len(s) /\ s[FirstEnd(s)] = "done" /\ FirstEnd(s) <= e
        BY <1>3, <1>4, <1>5, FirstEndIs
    <2>2. e <= FirstEnd(s) BY <1>6, <2>1
    <2> QED BY <1>2, <2>1, <2>2
<1>8. SubSeq(s, 1, e - 1) = f
    <2>1. e - 1 = Len(f) /\ 1 \in Int /\ Len(f) \in Int BY <1>2
    <2>2. \A i \in 1..Len(f) : s[i] \in Lines BY <1>4
    <2>3. /\ SubSeq(s, 1, Len(f)) \in Seq(Lines)
          /\ Len(SubSeq(s, 1, Len(f))) = Len(f)
          /\ \A i \in 1..Len(f) : SubSeq(s, 1, Len(f))[i] = s[i]
        <3>1. /\ SubSeq(s, 1, Len(f)) \in Seq(Lines)
              /\ Len(SubSeq(s, 1, Len(f))) = IF 1 <= Len(f) THEN Len(f) - 1 + 1 ELSE 0
              /\ \A i \in 1..(Len(f) - 1 + 1) : SubSeq(s, 1, Len(f))[i] = s[1 + i - 1]
            BY <2>1, <2>2, SubSeqProperties
        <3> QED BY <1>2, <3>1
    <2> QED BY <1>4, <2>1, <2>3, SeqEqual
<1>9. SubSeq(s, e + 1, Len(s)) = t
    <2>1. e + 1 \in Int /\ Len(s) \in Int BY <1>2, <1>3
    <2>2. \A i \in (e + 1)..Len(s) : s[i] \in Lines BY <1>2, <1>3
    <2>3. /\ SubSeq(s, e + 1, Len(s)) \in Seq(Lines)
          /\ Len(SubSeq(s, e + 1, Len(s))) = IF e + 1 <= Len(s) THEN Len(s) - (e + 1) + 1 ELSE 0
          /\ \A i \in 1..(Len(s) - (e + 1) + 1) : SubSeq(s, e + 1, Len(s))[i] = s[(e + 1) + i - 1]
        BY <2>1, <2>2, SubSeqProperties
    <2>4. Len(SubSeq(s, e + 1, Len(s))) = Len(t) BY <1>2, <1>3, <2>3
    <2>5. \A i \in 1..Len(t) : SubSeq(s, e + 1, Len(s))[i] = t[i]
        <3> TAKE i \in 1..Len(t)
        <3>1. i \in 1..(Len(s) - (e + 1) + 1) /\ (e + 1) + i - 1 = e + i BY <1>2, <1>3
        <3>2. e + i \in 1..(e + Len(t)) /\ ~(e + i <= e) /\ (e + i) - e = i BY <1>2, <1>3
        <3>3. s[e + i] = t[i] BY <1>3, <3>2
        <3> QED BY <2>3, <3>1, <3>3
    <2> QED BY <2>3, <2>4, <2>5, SeqEqual
<1>10. FramesIn[s] = <<f>> \o FramesIn[t]
    BY <1>3, <1>5, <1>7, <1>8, <1>9, FramesInUnfolds DEF Body, AfterFrame
<1> QED BY <1>10 DEF s, d

\* Complete frames only: what comes next is not taken for part of them.
Closed(a) == \A t \in Seq(Lines) : FramesIn[a \o t] = FramesIn[a] \o FramesIn[t]

LEMMA NothingIsClosed == Closed(<<>>)
<1>1. <<>> \in Seq(Lines) /\ FramesIn[<<>>] = <<>>
    <2>1. <<>> \in Seq(Lines) /\ Unfinished(<<>>) BY DEF Unfinished
    <2> QED BY <2>1, NoFrameYet
<1>2. ASSUME NEW t \in Seq(Lines) PROVE FramesIn[<<>> \o t] = FramesIn[<<>>] \o FramesIn[t]
    <2>1. <<>> \o t = t BY ConcatEmptySeq
    <2>2. <<>> \o FramesIn[t] = FramesIn[t] BY FramesAreFrames, ConcatEmptySeq
    <2> QED BY <1>1, <2>1, <2>2
<1> QED BY <1>2 DEF Closed

LEMMA ClosedGrows ==
    ASSUME NEW a \in Seq(Lines), Closed(a), NEW f \in Seq(Lines), f # <<>>, Unfinished(f)
    PROVE  /\ a \o Append(f, "done") \in Seq(Lines)
           /\ FramesIn[a \o Append(f, "done")] = Append(FramesIn[a], f)
           /\ Closed(a \o Append(f, "done"))
<1> DEFINE d == Append(f, "done")
<1>1. d \in Seq(Lines) BY AppendProperties DEF Lines
<1> HIDE DEF d
<1>2. FramesIn[a] \in Seq(Seq(Lines)) /\ <<f>> \in Seq(Seq(Lines)) BY FramesAreFrames
<1>3. \A t \in Seq(Lines) : FramesIn[d \o t] = <<f>> \o FramesIn[t]
    BY OneFrameThenRest DEF d
<1>4. FramesIn[d] = <<f>>
    <2>1. d \o <<>> = d /\ <<>> \in Seq(Lines) BY <1>1, ConcatEmptySeq
    <2>2. FramesIn[<<>>] = <<>>
        <3>1. <<>> \in Seq(Lines) /\ Unfinished(<<>>) BY DEF Unfinished
        <3> QED BY <3>1, NoFrameYet
    <2>3. <<f>> \o <<>> = <<f>> BY <1>2, ConcatEmptySeq
    <2>4. FramesIn[d \o <<>>] = <<f>> \o FramesIn[<<>>] BY <1>3, <2>1
    <2> QED BY <2>1, <2>2, <2>3, <2>4
<1>5. a \o d \in Seq(Lines) BY <1>1, ConcatProperties
<1>6. FramesIn[a \o d] = FramesIn[a] \o <<f>> BY <1>1, <1>4 DEF Closed
<1>7. FramesIn[a \o d] = Append(FramesIn[a], f) BY <1>2, <1>6, AppendIsConcat
<1>8. ASSUME NEW t \in Seq(Lines)
      PROVE  FramesIn[(a \o d) \o t] = FramesIn[a \o d] \o FramesIn[t]
    <2>1. (a \o d) \o t = a \o (d \o t) BY <1>1, ConcatAssociative
    <2>2. d \o t \in Seq(Lines) BY <1>1, ConcatProperties
    <2>3. FramesIn[a \o (d \o t)] = FramesIn[a] \o (<<f>> \o FramesIn[t])
        BY <1>3, <2>2 DEF Closed
    <2>4. FramesIn[a] \o (<<f>> \o FramesIn[t]) = (FramesIn[a] \o <<f>>) \o FramesIn[t]
        <3>1. FramesIn[t] \in Seq(Seq(Lines)) BY FramesAreFrames
        <3> DEFINE x == FramesIn[a]
                   y == <<f>>
                   z == FramesIn[t]
                   T == Seq(Lines)
        <3>2. x \in Seq(T) /\ y \in Seq(T) /\ z \in Seq(T) BY <1>2, <3>1
        <3> HIDE DEF x, y, z, T
        <3>3. (x \o y) \o z = x \o (y \o z) BY <3>2, ConcatAssociative, SMTT(30)
        <3> QED BY <3>3 DEF x, y, z
    <2> QED BY <1>6, <2>1, <2>3, <2>4
<1>9. Closed(a \o d) BY <1>8 DEF Closed
<1> QED BY <1>5, <1>7, <1>9 DEF d

-----------------------------------------------------------------------------
(* The coroutine.  What it has read is complete frames, whose hooks have been     *)
(* called, and an unfinished one, which is what it has collected.                 *)

\* The lines on the way are the last of those sent.
OnTheirWay ==
    /\ Len(wire) <= Len(sent)
    /\ \A i \in 1..Len(wire) : wire[i] = sent[Len(sent) - Len(wire) + i]

KnownIn(frames) == {i \in DOMAIN frames : frames[i][1] \in Hooks}
NthKnown(frames, i) == Cardinality({j \in KnownIn(frames) : j <= i})

Called(frames, calls) ==
    /\ Len(calls) = Cardinality(KnownIn(frames))
    /\ \A i \in KnownIn(frames) :
          calls[NthKnown(frames, i)] = <<frames[i][1], FrameArgs(frames[i])>>

GoodFrame(f) == FrameArgs(f) \subseteq Args /\ Len(f) <= MaxArgs

\* The coroutine's variables are this unfinished frame.
Collected(f) ==
    /\ at = "name" => f = <<>>
    /\ at = "arg" => /\ f # <<>> /\ name = f[1] /\ args = FrameArgs(f)
                     /\ numargs = Len(f) - 1 /\ GoodFrame(f)

ReadSoFar(a, f) ==
    /\ a \in Seq(Lines) /\ f \in Seq(Lines)
    /\ Consumed = a \o f
    /\ Closed(a) /\ Unfinished(f)
    /\ Called(FramesIn[a], dispatched)
    /\ \A i \in DOMAIN FramesIn[a] : GoodFrame(FramesIn[a][i])
    /\ hookConnected => Collected(f)

FramesInv == HookInv /\ OnTheirWay /\ \E a, f : ReadSoFar(a, f)

LEMMA KnownFinite ==
    ASSUME NEW frames \in Seq(Seq(Lines))
    PROVE  IsFiniteSet(KnownIn(frames)) /\ KnownIn(frames) \subseteq 1..Len(frames)
<1>1. IsFiniteSet(1..Len(frames)) BY FS_Interval
<1>2. KnownIn(frames) \subseteq 1..Len(frames) BY DEF KnownIn
<1> QED BY <1>1, <1>2, FS_Subset

\* A frame more calls its hook, if it has one, after all the others.
LEMMA CalledGrows ==
    ASSUME NEW frames \in Seq(Seq(Lines)), NEW f \in Seq(Lines), NEW calls \in Seq(Hooks \X SUBSET Args),
           Called(frames, calls), NEW calls1,
           IF f[1] \in Hooks THEN FrameArgs(f) \subseteq Args /\ calls1 = Append(calls, <<f[1], FrameArgs(f)>>)
                             ELSE calls1 = calls
    PROVE  Called(Append(frames, f), calls1)
<1> DEFINE n == Len(frames) + 1
           more == Append(frames, f)
           K == KnownIn(frames)
           M == KnownIn(more)
<1>1. /\ Len(frames) \in Nat /\ DOMAIN frames = 1..Len(frames)
      /\ more \in Seq(Seq(Lines)) /\ DOMAIN more = 1..n /\ more[n] = f
      /\ \A i \in 1..Len(frames) : more[i] = frames[i]
    BY AppendProperties
<1> HIDE DEF more
<1>2. IsFiniteSet(K) /\ K \subseteq 1..Len(frames) /\ n \notin K
    BY <1>1, KnownFinite
<1>3. Cardinality(K) \in Nat BY <1>2, FS_CardinalityType
<1>4. M = IF f[1] \in Hooks THEN K \cup {n} ELSE K
    BY <1>1, SMTT(30) DEF KnownIn
<1>5. \A i \in K : {j \in M : j <= i} = {j \in K : j <= i}
    BY <1>1, <1>2, <1>4
<1>6. \A i \in K : NthKnown(more, i) = NthKnown(frames, i) /\ more[i] = frames[i]
    BY <1>1, <1>2, <1>5 DEF NthKnown
<1>7. \A i \in K : NthKnown(frames, i) \in 1..Cardinality(K)
    <2> TAKE i \in K
    <2> DEFINE L == {j \in K : j <= i}
    <2>1. L \subseteq K /\ i \in L BY <1>2
    <2>2. IsFiniteSet(L) /\ Cardinality(L) <= Cardinality(K) BY <1>2, <2>1, FS_Subset
    <2>3. Cardinality(L) \in Nat /\ Cardinality(L) # 0
        BY <2>1, <2>2, FS_CardinalityType, FS_EmptySet
    <2>4. Cardinality(L) \in 1..Cardinality(K) BY <1>3, <2>2, <2>3
    <2> QED BY <2>4 DEF NthKnown
<1> HIDE DEF K, M
<1>8. /\ Len(calls) = Cardinality(K)
      /\ \A i \in K : calls[NthKnown(frames, i)] = <<frames[i][1], FrameArgs(frames[i])>>
    BY DEF Called, K
<1>9. CASE f[1] \notin Hooks
    <2>1. calls1 = calls /\ M = K BY <1>4, <1>9
    <2> QED BY <1>6, <1>8, <2>1 DEF Called, M, more
<1>10. CASE f[1] \in Hooks
    <2> DEFINE call == <<f[1], FrameArgs(f)>>
    <2>1. call \in Hooks \X SUBSET Args /\ calls1 = Append(calls, call) /\ M = K \cup {n}
        BY <1>4, <1>10
    <2> HIDE DEF call
    <2>2. /\ Len(calls1) = Len(calls) + 1 /\ calls1[Len(calls) + 1] = call
          /\ \A i \in 1..Len(calls) : calls1[i] = calls[i]
        BY <2>1, AppendProperties
    <2>3. Cardinality(M) = Cardinality(K) + 1 BY <1>2, <2>1, FS_AddElement
    <2>4. \A i \in K : calls1[NthKnown(more, i)] = <<more[i][1], FrameArgs(more[i])>>
        BY <1>6, <1>7, <1>8, <2>2
    <2>5. NthKnown(more, n) = Cardinality(M)
        <3>1. \A j \in M : j <= n
            <4>1. \A j \in K : j \in 1..Len(frames) BY <1>2 DEF K
            <4> QED BY <1>1, <2>1, <4>1
        <3>2. {j \in M : j <= n} = M BY <3>1
        <3> QED BY <3>2 DEF NthKnown, M
    <2>6. calls1[NthKnown(more, n)] = <<more[n][1], FrameArgs(more[n])>>
        BY <1>1, <1>8, <2>2, <2>3, <2>5 DEF call
    <2>7. \A i \in M : calls1[NthKnown(more, i)] = <<more[i][1], FrameArgs(more[i])>>
        BY <2>1, <2>4, <2>6
    <2> QED BY <1>8, <2>2, <2>3, <2>7 DEF Called, M, more
<1> QED BY <1>9, <1>10

\* Reading a line adds it to what has been read.
LEMMA ReadingConsumes ==
    ASSUME HookTypeOK, OnTheirWay, wire # <<>>, wire' = Tail(wire), sent' = sent
    PROVE  /\ OnTheirWay'
           /\ Consumed \in Seq(Lines) /\ Head(wire) \in Lines
           /\ Consumed' = Append(Consumed, Head(wire))
<1> DEFINE n == Len(sent) - Len(wire)
<1>1. wire \in Seq(Lines) /\ sent \in Seq(Lines) BY DEF HookTypeOK
<1>2. /\ Len(sent) \in Nat /\ Len(wire) \in Nat \ {0} /\ Len(wire) <= Len(sent)
      /\ n \in Nat /\ n < Len(sent)
    BY <1>1 DEF OnTheirWay
<1>3. /\ Len(wire') = Len(wire) - 1
      /\ \A i \in 1..Len(wire') : wire'[i] = wire[i + 1] /\ i + 1 \in 1..Len(wire)
    BY <1>1, HeadTailProperties
<1>4. OnTheirWay'
    <2>1. Len(wire') <= Len(sent') BY <1>2, <1>3
    <2>2. ASSUME NEW i \in 1..Len(wire')
          PROVE  wire'[i] = sent'[Len(sent') - Len(wire') + i]
        <3>1. wire'[i] = wire[i + 1] /\ i + 1 \in 1..Len(wire) BY <1>3
        <3>2. Len(sent') - Len(wire') + i = Len(sent) - Len(wire) + (i + 1) BY <1>2, <1>3
        <3> QED BY <3>1, <3>2 DEF OnTheirWay
    <2> QED BY <2>1, <2>2 DEF OnTheirWay
<1>5. Head(wire) = sent[n + 1] /\ Head(wire) \in Lines
    <2>1. Head(wire) = wire[1] /\ 1 \in 1..Len(wire) BY <1>1, <1>2
    <2> QED BY <1>1, <1>2, <2>1 DEF OnTheirWay
<1>6. Consumed = SubSeq(sent, 1, n) BY DEF Consumed
<1>7. Consumed' = SubSeq(sent, 1, n + 1)
    <2>1. Len(sent') - Len(wire') = n + 1 BY <1>2, <1>3
    <2> QED BY <2>1 DEF Consumed
<1>8. Consumed \in Seq(Lines)
    <2>1. \A i \in 1..n : sent[i] \in Lines BY <1>1, <1>2
    <2> QED BY <1>2, <1>6, <2>1, SubSeqProperties
<1>9. SubSeq(sent, 1, n + 1) = SubSeq(sent, 1, n) \o <<sent[n + 1]>>
    <2>1. 1 \in 1..Len(sent) /\ n + 1 \in 1..Len(sent) /\ (n + 1) - 1 = n BY <1>2
    <2> QED BY <1>1, <2>1, SubSeqRecursiveSecond
<1>10. Consumed' = Append(Consumed, Head(wire))
    BY <1>5, <1>6, <1>7, <1>8, <1>9, AppendIsConcat
<1> QED BY <1>4, <1>5, <1>8, <1>10

\* What the next line makes of the unfinished frame.
LEMMA FrameGoesOn ==
    ASSUME NEW f \in Seq(Lines), Unfinished(f), NEW e \in Lines, f # <<>> => e # "done"
    PROVE  /\ Append(f, e) \in Seq(Lines) /\ Append(f, e) # <<>>
           /\ Unfinished(Append(f, e)) /\ Len(Append(f, e)) = Len(f) + 1
           /\ Append(f, e)[1] = IF f = <<>> THEN e ELSE f[1]
           /\ FrameArgs(Append(f, e)) = IF f = <<>> THEN {} ELSE FrameArgs(f) \cup {e}
<1> DEFINE g == Append(f, e)
           n == Len(f) + 1
<1>1. /\ g \in Seq(Lines) /\ g # <<>> /\ Len(g) = n /\ g[n] = e /\ Len(f) \in Nat
      /\ \A i \in 1..Len(f) : g[i] = f[i]
    BY AppendProperties
<1>2. f = <<>> <=> Len(f) = 0 BY EmptySeq
<1> HIDE DEF g
<1>3. Unfinished(g) BY <1>1, <1>2 DEF Unfinished
<1>4. g[1] = IF f = <<>> THEN e ELSE f[1] BY <1>1, <1>2
<1>5. FrameArgs(g) = IF f = <<>> THEN {} ELSE FrameArgs(f) \cup {e}
    <2>1. CASE f = <<>>
        BY <1>1, <1>2, <2>1 DEF FrameArgs
    <2>2. CASE f # <<>>
        <3>1. 2..Len(g) = (2..Len(f)) \cup {n} BY <1>1, <1>2, <2>2
        <3>2. \A i \in 2..Len(f) : g[i] = f[i] BY <1>1
        <3> QED BY <1>1, <2>2, <3>1, <3>2 DEF FrameArgs
    <2> QED BY <2>1, <2>2
<1> QED BY <1>1, <1>3, <1>4, <1>5 DEF g

LEMMA AppendedFrame ==
    ASSUME NEW s \in Seq(Seq(Lines)), NEW f \in Seq(Lines)
    PROVE  \A i \in DOMAIN Append(s, f) :
               \/ Append(s, f)[i] = f
               \/ i \in DOMAIN s /\ Append(s, f)[i] = s[i]
<1>1. /\ DOMAIN Append(s, f) = 1..(Len(s) + 1) /\ DOMAIN s = 1..Len(s) /\ Len(s) \in Nat
      /\ Append(s, f)[Len(s) + 1] = f
      /\ \A i \in 1..Len(s) : Append(s, f)[i] = s[i]
    BY AppendProperties
<1> QED BY <1>1

LEMMA ReadingFrames ==
    ASSUME FramesInv, Coroutine
    PROVE  OnTheirWay' /\ \E a, f : ReadSoFar(a, f)'
<1>1. HookTypeOK /\ OnTheirWay /\ hookConnected
    BY ResumedIsConnected DEF FramesInv, HookInv, Coroutine, ReadName, ReadArg, ReadDone
<1>2. PICK a, f : ReadSoFar(a, f) BY DEF FramesInv
<1>3. /\ a \in Seq(Lines) /\ f \in Seq(Lines) /\ Consumed = a \o f /\ Closed(a) /\ Unfinished(f)
      /\ Called(FramesIn[a], dispatched)
      /\ \A i \in DOMAIN FramesIn[a] : GoodFrame(FramesIn[a][i])
      /\ Collected(f)
    BY <1>1, <1>2 DEF ReadSoFar
<1>e. PICK e : e = Head(wire) OBVIOUS
<1>4. wire # <<>> /\ wire' = Tail(wire) /\ sent' = sent /\ hookConnected' = hookConnected
    BY DEF Coroutine, ReadName, ReadArg, ReadDone
<1>5. OnTheirWay' /\ e \in Lines /\ Consumed' = Append(Consumed, e)
    BY <1>1, <1>4, <1>e, ReadingConsumes
<1>6. Consumed' = a \o Append(f, e)
    <2>1. Append(a \o f, e) = (a \o f) \o <<e>> /\ Append(f, e) = f \o <<e>>
        <3>1. a \o f \in Seq(Lines) BY <1>3, ConcatProperties
        <3> QED BY <1>3, <1>5, <3>1, AppendIsConcat
    <2>2. <<e>> \in Seq(Lines) BY <1>5
    <2>3. (a \o f) \o <<e>> = a \o (f \o <<e>>) BY <1>3, <2>2, ConcatAssociative
    <2> QED BY <1>3, <1>5, <2>1, <2>3
<1>7. FramesIn[a] \in Seq(Seq(Lines)) BY <1>3, FramesAreFrames
\* The line goes on with the frame.
<1>8. ASSUME f # <<>> => e # "done", UNCHANGED dispatched, Collected(Append(f, e))'
      PROVE  ReadSoFar(a, Append(f, e))'
    <2>1. Append(f, e) \in Seq(Lines) /\ Unfinished(Append(f, e))
        BY <1>3, <1>5, <1>8, FrameGoesOn
    <2> QED BY <1>3, <1>6, <1>8, <2>1 DEF ReadSoFar
<1>9. CASE ReadName
    <2>1. /\ at = "name" /\ at' = "arg" /\ name' = e /\ args' = {} /\ numargs' = 0
          /\ UNCHANGED dispatched
        BY <1>e, <1>9 DEF ReadName
    <2>2. f = <<>> BY <1>3, <2>1 DEF Collected
    <2>3. /\ Append(f, e) # <<>> /\ Len(Append(f, e)) = 1 /\ Append(f, e)[1] = e
          /\ FrameArgs(Append(f, e)) = {}
        <3>1. Len(f) = 0 BY <2>2, EmptySeq
        <3>2. f # <<>> => e # "done" BY <2>2
        <3>3. /\ Append(f, e) # <<>> /\ Len(Append(f, e)) = Len(f) + 1
              /\ Append(f, e)[1] = IF f = <<>> THEN e ELSE f[1]
              /\ FrameArgs(Append(f, e)) = IF f = <<>> THEN {} ELSE FrameArgs(f) \cup {e}
            BY <1>3, <1>5, <3>2, FrameGoesOn
        <3> QED BY <2>2, <3>1, <3>3
    <2>4. Collected(Append(f, e))'
        BY <2>1, <2>3, HookBounds DEF Collected, GoodFrame
    <2> QED BY <1>5, <1>8, <2>1, <2>2, <2>4
<1>10. CASE ReadArg
    <2>1. /\ at = "arg" /\ at' = "arg" /\ e \in Args /\ numargs + 1 < MaxArgs
          /\ name' = name /\ args' = args \cup {e} /\ numargs' = numargs + 1
          /\ UNCHANGED dispatched
        BY <1>e, <1>10 DEF ReadArg
    <2>2. /\ f # <<>> /\ name = f[1] /\ args = FrameArgs(f) /\ numargs = Len(f) - 1 /\ GoodFrame(f)
        BY <1>3, <2>1 DEF Collected
    <2>3. e # "done" BY <2>1, LinesAreDistinct
    <2>4. /\ Append(f, e) # <<>> /\ Len(Append(f, e)) = Len(f) + 1
          /\ Append(f, e)[1] = f[1] /\ FrameArgs(Append(f, e)) = FrameArgs(f) \cup {e}
          /\ Len(f) \in Nat
        BY <1>3, <1>5, <2>2, <2>3, FrameGoesOn
    <2>5. GoodFrame(Append(f, e))
        BY <2>1, <2>2, <2>4, HookBounds DEF GoodFrame
    <2>6. Collected(Append(f, e))'
        BY <2>1, <2>2, <2>4, <2>5 DEF Collected
    <2> QED BY <1>5, <1>8, <2>1, <2>3, <2>6
<1>11. CASE ReadDone
    <2>b. PICK b : b = a \o Append(f, e) OBVIOUS
    <2>1. /\ at = "arg" /\ at' = "name" /\ e = "done"
          /\ \/ name \in Hooks /\ dispatched' = Append(dispatched, <<name, args>>)
             \/ name \notin Hooks /\ UNCHANGED dispatched
        BY <1>e, <1>11 DEF ReadDone
    <2>2. f # <<>> /\ name = f[1] /\ args = FrameArgs(f) /\ GoodFrame(f)
        BY <1>3, <2>1 DEF Collected
    <2>3. b \in Seq(Lines) /\ FramesIn[b] = Append(FramesIn[a], f) /\ Closed(b)
        BY <1>3, <2>1, <2>2, <2>b, ClosedGrows
    <2>4. Called(FramesIn[b], dispatched')
        <3>1. dispatched \in Seq(Hooks \X SUBSET Args) BY <1>1 DEF HookTypeOK
        <3>2. IF f[1] \in Hooks THEN /\ FrameArgs(f) \subseteq Args
                                     /\ dispatched' = Append(dispatched, <<f[1], FrameArgs(f)>>)
                                ELSE dispatched' = dispatched
            BY <2>1, <2>2 DEF GoodFrame
        <3>3. Called(Append(FramesIn[a], f), dispatched')
            BY <1>3, <1>7, <3>1, <3>2, CalledGrows
        <3> QED BY <2>3, <3>3
    <2>5. \A i \in DOMAIN FramesIn[b] : GoodFrame(FramesIn[b][i])
        <3>1. \A i \in DOMAIN Append(FramesIn[a], f) :
                  \/ Append(FramesIn[a], f)[i] = f
                  \/ i \in DOMAIN FramesIn[a] /\ Append(FramesIn[a], f)[i] = FramesIn[a][i]
            BY <1>3, <1>7, AppendedFrame
        <3> QED BY <1>3, <2>2, <2>3, <3>1
    <2>6. Consumed' = b \o <<>>
        <3>1. b \o <<>> = b BY <2>3, ConcatEmptySeq
        <3> QED BY <1>6, <2>b, <3>1
    <2>7. <<>> \in Seq(Lines) /\ Unfinished(<<>>) BY DEF Unfinished
    <2>8. Collected(<<>>)' BY <2>1 DEF Collected
    <2>9. ReadSoFar(b, <<>>)'
        BY <2>3, <2>4, <2>5, <2>6, <2>7, <2>8 DEF ReadSoFar
    <2> QED BY <1>5, <2>9
<1> QED BY <1>9, <1>10, <1>11 DEF Coroutine

\* Before anything has been read.
LEMMA NothingRead ==
    wire = <<>> /\ sent = <<>> /\ dispatched = <<>> /\ at = "name"
        => OnTheirWay /\ ReadSoFar(<<>>, <<>>)
<1> SUFFICES ASSUME wire = <<>>, sent = <<>>, dispatched = <<>>, at = "name"
             PROVE  OnTheirWay /\ ReadSoFar(<<>>, <<>>)
    OBVIOUS
<1>1. OnTheirWay BY DEF OnTheirWay
<1>2. <<>> \in Seq(Lines) /\ Unfinished(<<>>) /\ FramesIn[<<>>] = <<>>
    <2>1. <<>> \in Seq(Lines) /\ Unfinished(<<>>) BY DEF Unfinished
    <2> QED BY <2>1, NoFrameYet
<1>3. Consumed = <<>> /\ <<>> \o <<>> = <<>>
    <2>1. Consumed = SubSeq(<<>>, 1, 0) BY DEF Consumed
    <2>2. SubSeq(<<>>, 1, 0) = <<>> BY SubSeqEmpty
    <2>3. <<>> \o <<>> = <<>> BY <1>2, ConcatEmptySeq
    <2> QED BY <2>1, <2>2, <2>3
<1>4. Called(<<>>, <<>>)
    <2>1. KnownIn(<<>>) = {} BY DEF KnownIn
    <2> QED BY <2>1, FS_EmptySet DEF Called
<1>5. Collected(<<>>) BY DEF Collected
<1> QED BY <1>1, <1>2, <1>3, <1>4, <1>5, NothingIsClosed DEF ReadSoFar

LEMMA FramesStep ==
    ASSUME FramesInv, [HookNext]_hookVars
    PROVE  OnTheirWay' /\ \E a, f : ReadSoFar(a, f)'
<1>0. HookTypeOK /\ OnTheirWay BY DEF FramesInv, HookInv
<1>1. PICK a, f : ReadSoFar(a, f) BY DEF FramesInv
\* What has been read and what has been called stay, and the frame with the connection.
<1>2. ASSUME UNCHANGED <<wire, sent, dispatched>>,
             hookConnected' => hookConnected /\ UNCHANGED coroutine
      PROVE  OnTheirWay' /\ ReadSoFar(a, f)'
    BY <1>0, <1>1, <1>2 DEF OnTheirWay, ReadSoFar, Consumed, Collected, coroutine
<1>3. CASE Coroutine BY <1>3, ReadingFrames
<1>4. CASE Halt \/ ReadError \/ (~connecting /\ HookForceReconnect)
    BY <1>1, <1>2, <1>4 DEF Halt, ReadError, HookForceReconnect, Kill, connection, hookVars, coroutine
<1>5. CASE TimerFires \/ AttemptFail \/ DaemonHangUp \/ UNCHANGED hookVars
    BY <1>1, <1>2, <1>5 DEF TimerFires, AttemptFail, DaemonHangUp, connection, hookVars, coroutine
<1>6. CASE AttemptOk
    <2>1. (wire = <<>> /\ sent = <<>> /\ dispatched = <<>> /\ at = "name")'
        BY <1>6 DEF AttemptOk
    <2>2. OnTheirWay' /\ ReadSoFar(<<>>, <<>>)' BY <2>1, NothingRead, PTL
    <2> QED BY <2>2
<1>7. ASSUME NEW line \in Lines, DaemonSend(line)
      PROVE  OnTheirWay' /\ ReadSoFar(a, f)'
    <2>1. /\ wire' = Append(wire, line) /\ sent' = Append(sent, line)
          /\ UNCHANGED <<hookConnected, at, name, args, numargs, dispatched>>
        BY <1>7 DEF DaemonSend, coroutine
    <2>2. /\ wire \in Seq(Lines) /\ sent \in Seq(Lines)
          /\ Len(wire) \in Nat /\ Len(sent) \in Nat /\ Len(wire) <= Len(sent)
        BY <1>0 DEF HookTypeOK, OnTheirWay
    <2>3. /\ Len(wire') = Len(wire) + 1 /\ wire'[Len(wire) + 1] = line
          /\ Len(sent') = Len(sent) + 1 /\ sent'[Len(sent) + 1] = line
          /\ \A i \in 1..Len(wire) : wire'[i] = wire[i]
          /\ \A i \in 1..Len(sent) : sent'[i] = sent[i]
          /\ sent' \in Seq(Lines)
        BY <2>1, <2>2, AppendProperties
    <2>4. OnTheirWay'
        <3>1. ASSUME NEW i \in 1..Len(wire')
              PROVE  wire'[i] = sent'[Len(sent') - Len(wire') + i]
            <4>1. Len(sent') - Len(wire') + i = Len(sent) - Len(wire) + i BY <2>2, <2>3
            <4>2. CASE i = Len(wire) + 1
                <5>1. Len(sent) - Len(wire) + i = Len(sent) + 1 BY <2>2, <4>2
                <5> QED BY <2>3, <4>1, <4>2, <5>1
            <4>3. CASE i # Len(wire) + 1
                <5>1. i \in 1..Len(wire) /\ Len(sent) - Len(wire) + i \in 1..Len(sent)
                    BY <2>2, <2>3, <4>3
                <5>2. wire[i] = sent[Len(sent) - Len(wire) + i] BY <1>0, <5>1 DEF OnTheirWay
                <5> QED BY <2>3, <4>1, <5>1, <5>2
            <4> QED BY <4>2, <4>3
        <3>2. Len(wire') <= Len(sent') BY <2>2, <2>3
        <3> QED BY <3>1, <3>2 DEF OnTheirWay
    <2>5. Consumed' = Consumed
        <3> DEFINE n == Len(sent) - Len(wire)
        <3>1. n \in Nat /\ n <= Len(sent) /\ Len(sent') - Len(wire') = n BY <2>2, <2>3
        <3>2. Consumed = SubSeq(sent, 1, n) /\ Consumed' = SubSeq(sent', 1, n)
            BY <3>1 DEF Consumed
        <3> HIDE DEF n
        <3>3. SubSeq(sent', 1, n) = SubSeq(sent, 1, n)
            <4>0. 1 \in Int /\ n \in Int BY <3>1
            <4>1. \A i \in 1..n : sent'[i] = sent[i] /\ sent[i] \in Lines /\ sent'[i] \in Lines
                BY <2>2, <2>3, <3>1, SMTT(30)
            <4>2. /\ SubSeq(sent, 1, n) \in Seq(Lines)
                  /\ Len(SubSeq(sent, 1, n)) = IF 1 <= n THEN n - 1 + 1 ELSE 0
                  /\ \A i \in 1..(n - 1 + 1) : SubSeq(sent, 1, n)[i] = sent[1 + i - 1]
                BY <4>0, <4>1, SubSeqProperties
            <4>3. /\ SubSeq(sent', 1, n) \in Seq(Lines)
                  /\ Len(SubSeq(sent', 1, n)) = IF 1 <= n THEN n - 1 + 1 ELSE 0
                  /\ \A i \in 1..(n - 1 + 1) : SubSeq(sent', 1, n)[i] = sent'[1 + i - 1]
                BY <4>0, <4>1, SubSeqProperties
            <4>4. Len(SubSeq(sent, 1, n)) = n /\ Len(SubSeq(sent', 1, n)) = n
                BY <3>1, <4>2, <4>3
            <4>5. \A i \in 1..n : SubSeq(sent', 1, n)[i] = SubSeq(sent, 1, n)[i]
                <5> TAKE i \in 1..n
                <5>1. i \in 1..(n - 1 + 1) /\ 1 + i - 1 = i BY <3>1
                <5> QED BY <4>1, <4>2, <4>3, <5>1
            <4> QED BY <4>2, <4>3, <4>4, <4>5, SeqEqual
        <3> QED BY <3>2, <3>3
    <2>6. ReadSoFar(a, f)'
        BY <1>1, <2>1, <2>5 DEF ReadSoFar, Collected
    <2> QED BY <2>4, <2>6
<1>8. CASE Daemon
    <2>1. CASE DaemonHangUp BY <1>5, <2>1
    <2>2. CASE \E line \in Lines : DaemonSend(line)
        <3>1. OnTheirWay' /\ ReadSoFar(a, f)' BY <1>7, <2>2
        <3> QED BY <3>1
    <2> QED BY <1>8, <2>1, <2>2 DEF Daemon
<1> QED BY <1>3, <1>4, <1>5, <1>6, <1>8 DEF HookNext, Attempt

(* The inductive invariant of the frames: the lines read are complete frames, all
   called, and the one in the coroutine's hands. *)
THEOREM FramesInvariant == HookSpec => []FramesInv
<1>1. HookInit => FramesInv
    <2> SUFFICES ASSUME HookInit PROVE FramesInv OBVIOUS
    <2>1. OnTheirWay /\ ReadSoFar(<<>>, <<>>) BY NothingRead DEF HookInit
    <2>2. \E a, f : ReadSoFar(a, f) BY <2>1
    <2> QED BY <2>1, <2>2, HookInitInv DEF FramesInv
<1>2. FramesInv /\ [HookNext]_hookVars => FramesInv'
    <2> SUFFICES ASSUME FramesInv, [HookNext]_hookVars PROVE FramesInv' OBVIOUS
    <2>1. HookInv' BY HookInductive DEF FramesInv
    <2>2. OnTheirWay' /\ \E a, f : ReadSoFar(a, f)' BY FramesStep
    <2> QED BY <2>1, <2>2 DEF FramesInv
<1> QED BY <1>1, <1>2, PTL DEF HookSpec

(* handle_hook_server_input calls exactly the registered hooks among the complete
   frames of a connection, each once, in order, with its own arguments, wherever the
   coroutine yields and however the connection ends; for any number of lines. *)
THEOREM FramesAreWhole == HookSpec => []WholeFrames
<1>1. FramesInv => WholeFrames
    <2> SUFFICES ASSUME FramesInv PROVE WholeFrames OBVIOUS
    <2>1. PICK a, f : ReadSoFar(a, f) BY DEF FramesInv
    <2>2. /\ a \in Seq(Lines) /\ f \in Seq(Lines) /\ Consumed = a \o f /\ Closed(a) /\ Unfinished(f)
          /\ Called(FramesIn[a], dispatched)
          /\ \A i \in DOMAIN FramesIn[a] : GoodFrame(FramesIn[a][i])
        BY <2>1 DEF ReadSoFar
    <2>3. FramesIn[Consumed] = FramesIn[a]
        <3>1. FramesIn[a \o f] = FramesIn[a] \o FramesIn[f] BY <2>2 DEF Closed
        <3>2. FramesIn[f] = <<>> BY <2>2, NoFrameYet
        <3>3. FramesIn[a] \o <<>> = FramesIn[a] BY <2>2, FramesAreFrames, ConcatEmptySeq
        <3> QED BY <2>2, <3>1, <3>2, <3>3
    <2> QED BY <2>2, <2>3 DEF WholeFrames, Called, KnownIn, NthKnown, GoodFrame
<1> QED BY <1>1, FramesInvariant, PTL
=============================================================================
