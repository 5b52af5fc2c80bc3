------------------------- MODULE StartCommandProofs -------------------------
(***************************************************************************)
(* Proofs about StartCommand, for any number of commands and daemons and   *)
(* any number of polls.                                                    *)
(*                                                                         *)
(* The four invariants are proved together.  What they need besides: a     *)
(* command that has said something has ended, so that nothing it said can  *)
(* be made untrue by a later step of its own; a poll uses up at least an   *)
(* interval of the deadline; and what is being unpacked is an archive.     *)
(***************************************************************************)
EXTENDS StartCommand, TLAPS

Downloading == {"ask", "fetch", "stalled", "verify", "unpack", "validate"}

StarterMoves(p) == StarterStep(p) \/ FloodEnds(p) \/ UnpackSome(p) \/ Cancel(p)

\* What is always true of a command p.
StarterInv(p) ==
    /\ said[p] # None => pc[p] = "end"
    /\ said[p] \in {"done", "already"} => heard[p] \/ (gui /\ second[p])
    /\ said[p] = "unavailable" => tries[p] /\ (launched[p] => left[p] = 0)
    /\ pc[p] \in {"send", "read", "flooded", "retry"} => tries[p]
    /\ pc[p] = "poll" => launched[p] /\ begun[p] /\ polls[p] + left[p] <= MaxPolls
    /\ pc[p] = "failed" => launched[p] /\ (begun[p] => left[p] = 0)
    /\ pc[p] \in Downloading => install[p] /\ launched[p] /\ (begun[p] => left[p] = 0)
    /\ pc[p] \in {"verify", "unpack"} => archive[p] \in Archives

StartInv ==
    /\ StartTypeOK
    /\ \A p \in Starters : StarterInv(p)
    /\ BrokenInstallIsReported

LEMMA StartInvInit == StartInit => StartInv
<1> SUFFICES ASSUME StartInit PROVE StartInv OBVIOUS
<1>1. StartTypeOK
    BY PollsBounded DEF StartInit, StartTypeOK, Steps, Messages, Archives, DaemonStates
<1>2. ASSUME NEW p \in Starters PROVE StarterInv(p)
    BY StartNames DEF StartInit, StarterInv, Downloading, Messages
<1>3. BrokenInstallIsReported BY DEF StartInit, BrokenInstallIsReported
<1> QED BY <1>1, <1>2, <1>3 DEF StartInv

\* One step for each group of variables, for all actions together.
LEMMA StarterKeepsType ==
    ASSUME StartInv, NEW p \in Starters, StarterMoves(p)
    PROVE  StartTypeOK'
<1>0. StartTypeOK /\ (pc[p] = "unpack" => archive[p] \in Archives)
    BY DEF StartInv, StarterInv
<1>1. install' \in [Starters -> BOOLEAN] /\ gui' \in BOOLEAN /\ gpg' \in BOOLEAN
    BY <1>0 DEF setting, StartTypeOK, Check, Launch, PollSees, PollAgain, PollEnds, Failed, Connect, Send,
           Read, Retry, Ask, Fetch, Verify, UnpackRest, UnpackFails, Validate, UnpackSome, Cancel,
           FloodEnds, StarterStep, StarterMoves
<1>2. pc' \in [Starters -> Steps]
    <2>1. \/ pc' = pc
          \/ \E step \in Steps : pc' = [pc EXCEPT ![p] = step]
        BY DEF Goto, Stop, TransportError, Steps, StartTypeOK, Check, Launch, PollSees, PollAgain, PollEnds, Failed, Connect, Send,
           Read, Retry, Ask, Fetch, Verify, UnpackRest, UnpackFails, Validate, UnpackSome, Cancel,
           FloodEnds, StarterStep, StarterMoves
    <2> QED BY <1>0, <2>1 DEF StartTypeOK
<1>3. said' \in [Starters -> Messages \cup {None}]
    BY <1>0 DEF Say, Stop, TransportError, Messages, StartTypeOK, Check, Launch, PollSees, PollAgain, PollEnds, Failed, Connect, Send,
           Read, Retry, Ask, Fetch, Verify, UnpackRest, UnpackFails, Validate, UnpackSome, Cancel,
           FloodEnds, StarterStep, StarterMoves
<1>4. /\ launched' \in [Starters -> BOOLEAN] /\ second' \in [Starters -> BOOLEAN]
      /\ begun' \in [Starters -> BOOLEAN]
    BY <1>0 DEF stage, StartTypeOK, Check, Launch, PollSees, PollAgain, PollEnds, Failed, Connect, Send,
           Read, Retry, Ask, Fetch, Verify, UnpackRest, UnpackFails, Validate, UnpackSome, Cancel,
           FloodEnds, StarterStep, StarterMoves
<1>5. heard' \in [Starters -> BOOLEAN] /\ tries' \in [Starters -> BOOLEAN]
    BY <1>0 DEF query, StartTypeOK, Check, Launch, PollSees, PollAgain, PollEnds, Failed, Connect, Send,
           Read, Retry, Ask, Fetch, Verify, UnpackRest, UnpackFails, Validate, UnpackSome, Cancel,
           FloodEnds, StarterStep, StarterMoves
<1>6. polls' \in [Starters -> 0..MaxPolls]
    <2>1. CASE \/ Check(p) \/ Failed(p) \/ Connect(p) \/ Send(p) \/ Read(p) \/ Retry(p)
               \/ Ask(p) \/ Fetch(p) \/ Verify(p) \/ UnpackRest(p) \/ UnpackFails(p)
               \/ Validate(p) \/ UnpackSome(p) \/ Cancel(p) \/ FloodEnds(p)
        BY <1>0, <2>1 DEF StartTypeOK, clock, FloodEnds, Check, Failed, Connect, Send, Read, Retry, Ask, Fetch, Verify,
               UnpackRest, UnpackFails, Validate, UnpackSome, Cancel
    <2>2. CASE Launch(p) \/ PollSees(p) \/ PollEnds(p)
        BY <1>0, <2>2, PollsBounded DEF StartTypeOK, Launch, PollSees, PollEnds
    <2>3. CASE PollAgain(p)
        BY <1>0, <2>3, PollsBounded DEF StartTypeOK, PollAgain
    <2> QED BY <2>1, <2>2, <2>3 DEF StarterStep, StarterMoves
<1>7. left' \in [Starters -> 0..MaxPolls]
    <2>1. CASE \/ Check(p) \/ PollSees(p) \/ PollEnds(p) \/ Failed(p) \/ Send(p)
               \/ Ask(p) \/ Fetch(p) \/ Verify(p) \/ UnpackRest(p) \/ UnpackFails(p)
               \/ Validate(p) \/ UnpackSome(p) \/ Cancel(p)
        BY <1>0, <2>1 DEF StartTypeOK, clock, Check, PollSees, PollEnds, Failed, Send, Ask, Fetch, Verify,
               UnpackRest, UnpackFails, Validate, UnpackSome, Cancel
    <2>2. CASE Launch(p)
        BY <1>0, <2>2, PollsBounded DEF StartTypeOK, Launch
    <2>3. CASE PollAgain(p) \/ Retry(p)
        BY <1>0, <2>3, PollsBounded DEF StartTypeOK, Sleep, PollAgain, Retry
    <2>4. CASE Connect(p) \/ Read(p) \/ FloodEnds(p)
        BY <1>0, <2>4, PollsBounded DEF StartTypeOK, TransportError, Elapse, Connect, Read, FloodEnds
    <2> QED BY <2>1, <2>2, <2>3, <2>4 DEF StarterStep, StarterMoves
<1>8. peer' \in [Starters -> Daemons \cup {None}]
    BY <1>0 DEF query, Close, TransportError, StartTypeOK, Check, Launch, PollSees, PollAgain, PollEnds, Failed, Connect, Send,
           Read, Retry, Ask, Fetch, Verify, UnpackRest, UnpackFails, Validate, UnpackSome, Cancel,
           FloodEnds, StarterStep, StarterMoves
<1>9. archive' \in [Starters -> Archives \cup {None}]
    BY <1>0 DEF Discard, StartTypeOK, Check, Launch, PollSees, PollAgain, PollEnds, Failed, Connect, Send,
           Read, Retry, Ask, Fetch, Verify, UnpackRest, UnpackFails, Validate, UnpackSome, Cancel,
           FloodEnds, StarterStep, StarterMoves
<1>10. installed' \in {"absent", "partial"} \cup Archives
    BY <1>0 DEF system, StartTypeOK, Check, Launch, PollSees, PollAgain, PollEnds, Failed, Connect, Send,
           Read, Retry, Ask, Fetch, Verify, UnpackRest, UnpackFails, Validate, UnpackSome, Cancel,
           FloodEnds, StarterStep, StarterMoves
<1>11. daemon' \in [Daemons -> DaemonStates] /\ pidfile' \in Daemons \cup {None}
    BY <1>0 DEF system, DaemonStates, StartTypeOK, Check, Launch, PollSees, PollAgain, PollEnds, Failed, Connect, Send,
           Read, Retry, Ask, Fetch, Verify, UnpackRest, UnpackFails, Validate, UnpackSome, Cancel,
           FloodEnds, StarterStep, StarterMoves
<1> QED BY <1>1, <1>2, <1>3, <1>4, <1>5, <1>6, <1>7, <1>8, <1>9, <1>10, <1>11 DEF StartTypeOK

\* A step of p changes only what p has of the variables that StarterInv reads.
LEMMA OthersUntouched ==
    ASSUME StartInv, NEW p \in Starters, StarterMoves(p),
           NEW q \in Starters, q # p
    PROVE  /\ said'[q] = said[q] /\ pc'[q] = pc[q] /\ heard'[q] = heard[q]
           /\ second'[q] = second[q] /\ begun'[q] = begun[q] /\ tries'[q] = tries[q] /\ launched'[q] = launched[q]
           /\ left'[q] = left[q] /\ polls'[q] = polls[q] /\ archive'[q] = archive[q]
           /\ install'[q] = install[q] /\ gui' = gui
<1> USE DEF StartInv, StartTypeOK, setting, clock, query, system, stage, Goto, Say, Stop
<1>1. CASE Check(p) \/ Launch(p) \/ PollSees(p) \/ PollEnds(p) \/ Failed(p)
      BY <1>1 DEF Check, Launch, PollSees, PollEnds, Failed
<1>2. CASE PollAgain(p) \/ Retry(p) BY <1>2 DEF PollAgain, Retry, Sleep
<1>3. CASE Connect(p) \/ Send(p) \/ Read(p) \/ FloodEnds(p)
      BY <1>3 DEF Connect, Send, Read, FloodEnds, TransportError, Close, Elapse
<1>4. CASE Ask(p) \/ Fetch(p) \/ Verify(p) \/ Validate(p)
      BY <1>4 DEF Ask, Fetch, Verify, Validate, Discard
<1>5. CASE UnpackSome(p) \/ UnpackRest(p) \/ UnpackFails(p) \/ Cancel(p)
      BY <1>5 DEF UnpackSome, UnpackRest, UnpackFails, Cancel, Discard
<1> QED BY <1>1, <1>2, <1>3, <1>4, <1>5 DEF StarterStep, StarterMoves

LEMMA OtherStartersKeep ==
    ASSUME StartInv, NEW p \in Starters, StarterMoves(p),
           NEW q \in Starters, q # p
    PROVE  StarterInv(q)'
BY OthersUntouched DEF StartInv, StarterInv

LEMMA StarterReads ==
    ASSUME StartTypeOK, NEW p \in Starters, Read(p), StarterInv(p),
           None \notin {"done", "already", "unavailable"}
    PROVE  StarterInv(p)'
<1>1. pc[p] = "read" /\ UNCHANGED <<setting, stage, polls, tries, archive, system>>
    BY DEF Read
<1> USE <1>1, StartTypeOK DEF StarterInv, Downloading, setting, stage
<1>2. CASE TransportError(p) /\ UNCHANGED heard
    BY <1>2 DEF StartTypeOK, TransportError, Close, Elapse, Goto
<1>3. CASE heard' = [heard EXCEPT ![p] = TRUE] /\ UNCHANGED left
           /\ \E m \in {"link", IF launched[p] THEN "done" ELSE "already"} : Stop(p, m)
    BY <1>3 DEF StartTypeOK, Stop, Say, Goto
<1>4. CASE Stop(p, "traceback") /\ UNCHANGED <<left, heard>>
    BY <1>4 DEF StartTypeOK, Stop, Say, Goto
<1>5. CASE Goto(p, "flooded") /\ UNCHANGED <<said, peer, left, heard>>
    BY <1>5 DEF StartTypeOK, Goto
<1> QED BY ONLY Read(p), <1>2, <1>3, <1>4, <1>5 DEF Read

LEMMA StarterFails ==
    ASSUME StartTypeOK, NEW p \in Starters, Failed(p), StarterInv(p),
           None \notin {"done", "already", "unavailable"}
    PROVE  StarterInv(p)'
<1>1. pc[p] = "failed" /\ UNCHANGED <<setting, stage, clock, query, archive, system>>
    BY DEF Failed
<1>2. said[p] = None
    BY <1>1 DEF StarterInv
<1> USE <1>1, StartTypeOK DEF StarterInv, Downloading, setting, stage, clock, query
<1>3. CASE ~second[p] /\ install[p] /\ Goto(p, "ask") /\ UNCHANGED said
    BY <1>3 DEF StartTypeOK, Goto
<1>4. CASE ~second[p] /\ Stop(p, "not installed")
    BY <1>4 DEF StartTypeOK, Stop, Say, Goto
<1>5. CASE second[p] /\ gui /\ Stop(p, "done")
    BY <1>5 DEF StartTypeOK, Stop, Say, Goto
<1>6. CASE second[p] /\ ~gui /\ Stop(p, said[p])
    BY <1>2, <1>6 DEF StartTypeOK, Stop, Say, Goto
<1> QED BY ONLY Failed(p), StartTypeOK, <1>3, <1>4, <1>5, <1>6 DEF Failed

LEMMA StarterKeepsInv ==
    ASSUME StartInv, NEW p \in Starters, StarterMoves(p)
    PROVE  StarterInv(p)'
<1>0. /\ StartTypeOK /\ StarterInv(p)
      /\ None \notin {"done", "already", "unavailable"}
    BY StartNames DEF StartInv, Messages
<1> USE <1>0, PollsBounded DEF StartTypeOK, StarterInv, Downloading, setting, clock, query,
        system, stage, Goto, Say, Stop
<1>1. CASE Check(p) BY <1>1 DEF Check
<1>2. CASE Launch(p) BY <1>2 DEF Launch
<1>3. CASE PollSees(p) BY <1>3 DEF PollSees
<1>4. CASE PollAgain(p) BY <1>4 DEF PollAgain, Sleep
<1>5. CASE PollEnds(p) BY <1>5 DEF PollEnds
<1>6. CASE Failed(p) BY StarterFails, <1>6
<1>7. CASE Connect(p) BY <1>7 DEF Connect, TransportError, Close, Elapse
<1>8. CASE Send(p) BY <1>8 DEF Send, Close
<1>9. CASE Read(p) BY StarterReads, <1>9
<1>10. CASE Retry(p) BY <1>10 DEF Retry, Sleep
<1>11. CASE Ask(p) BY <1>11 DEF Ask
<1>12. CASE Fetch(p) BY <1>12 DEF Fetch, Archives
<1>13. CASE Verify(p) BY <1>13 DEF Verify, Discard
<1>14. CASE UnpackRest(p) BY <1>14 DEF UnpackRest, Discard
<1>15. CASE UnpackFails(p) BY <1>15 DEF UnpackFails, Discard
<1>16. CASE Validate(p) BY <1>16 DEF Validate
<1>17. CASE UnpackSome(p) BY <1>17 DEF UnpackSome
<1>18. CASE Cancel(p) BY <1>18 DEF Cancel, Discard
<1>19. CASE FloodEnds(p) BY <1>19 DEF FloodEnds, TransportError, Close, Elapse
<1> QED
    BY <1>1, <1>2, <1>3, <1>4, <1>5, <1>6, <1>7, <1>8, <1>9, <1>10, <1>11, <1>12, <1>13,
       <1>14, <1>15, <1>16, <1>17, <1>18, <1>19 DEF StarterStep, StarterMoves

\* A command leaves the unpacking with a whole installation or with an error.
LEMMA StarterKeepsReport ==
    ASSUME StartInv, NEW p \in Starters, StarterMoves(p)
    PROVE  BrokenInstallIsReported'
<1>0. \A q \in Starters : q # p => pc'[q] = pc[q] /\ said'[q] = said[q]
    BY OthersUntouched
<1> USE StartNames DEF StartInv, StartTypeOK, StarterInv, BrokenInstallIsReported, Downloading,
        Messages, Archives, setting, clock, query, system, stage, Goto, Say, Stop
<1>1. CASE UnpackSome(p) BY <1>1 DEF UnpackSome
<1>2. CASE UnpackRest(p) BY <1>2 DEF UnpackRest, Discard
<1>3. CASE UnpackFails(p) BY <1>3 DEF UnpackFails, Discard
<1>4. CASE Cancel(p) BY <1>4 DEF Cancel, Discard
<1>5. ASSUME pc[p] # "unpack", installed' = installed, said[p] # "error"
      PROVE  BrokenInstallIsReported'
    BY <1>0, <1>5
<1>6. CASE Check(p) \/ Launch(p) \/ PollSees(p) \/ PollEnds(p) \/ Failed(p)
      BY <1>5, <1>6 DEF Check, Launch, PollSees, PollEnds, Failed
<1>7. CASE PollAgain(p) \/ Retry(p)
      BY <1>5, <1>7 DEF PollAgain, Retry
<1>8. CASE Connect(p) \/ Send(p) \/ Read(p) \/ FloodEnds(p)
    <2>1. pc[p] # "unpack" /\ installed' = installed /\ said[p] # "error"
        BY <1>8 DEF Connect, Send, Read, FloodEnds
    <2> QED BY <1>5, <2>1
<1>9. CASE Ask(p) \/ Fetch(p) \/ Verify(p) \/ Validate(p)
      BY <1>5, <1>9 DEF Ask, Fetch, Verify, Validate
<1> QED BY <1>1, <1>2, <1>3, <1>4, <1>6, <1>7, <1>8, <1>9 DEF StarterStep, StarterMoves

LEMMA DaemonKeepsInv ==
    ASSUME StartInv, NEW d \in Daemons, WritesPid(d) \/ Listens(d) \/ Dies(d)
    PROVE  StartInv'
BY DEF StartInv, StartTypeOK, StarterInv, BrokenInstallIsReported, DaemonStates,
       WritesPid, Listens, Dies, setting, clock, query, system, stage

(* The inductive invariant: at each stage a start command has what brought it there
   (an answer, a deadline passed, an installation begun). *)
THEOREM StartInvariant == StartSpec => []StartInv
<1>1. StartInv /\ [StartNext]_startVars => StartInv'
    <2> SUFFICES ASSUME StartInv, [StartNext]_startVars PROVE StartInv' OBVIOUS
    <2>1. CASE UNCHANGED startVars
        BY <2>1 DEF StartInv, StartTypeOK, StarterInv, BrokenInstallIsReported, startVars,
                    setting, clock, query, system, stage
    <2>2. ASSUME NEW p \in Starters, StarterMoves(p)
          PROVE  StartInv'
        <3>1. \A q \in Starters : StarterInv(q)'
            BY <2>2, OtherStartersKeep, StarterKeepsInv
        <3> QED BY <2>2, <3>1, StarterKeepsType, StarterKeepsReport DEF StartInv
    <2>3. ASSUME NEW d \in Daemons, WritesPid(d) \/ Listens(d) \/ Dies(d) PROVE StartInv'
        BY <2>3, DaemonKeepsInv
    <2> QED BY <2>1, <2>2, <2>3 DEF StartNext, StarterMoves
<1> QED BY <1>1, StartInvInit, PTL DEF StartSpec

\* The start command's variables keep their types.
THEOREM StartTypeCorrect == StartSpec => []StartTypeOK
<1>1. StartInv => StartTypeOK BY DEF StartInv
<1> QED BY <1>1, StartInvariant, PTL

\* A command says that Dropbox runs only if the daemon has answered it.
THEOREM SaidDoneIsAnswered == StartSpec => []DoneMeansAnswered
<1>1. StartInv => DoneMeansAnswered BY DEF StartInv, StarterInv, DoneMeansAnswered
<1> QED BY <1>1, StartInvariant, PTL

\* The socket is called unavailable after a query, and after a launch at the deadline.
THEOREM UnavailableAtDeadline == StartSpec => []GivesUpOnlyAtDeadline
<1>1. StartInv => GivesUpOnlyAtDeadline BY DEF StartInv, StarterInv, GivesUpOnlyAtDeadline
<1> QED BY <1>1, StartInvariant, PTL

\* An installation is replaced only on request; and by a command whose launch did find
\* a daemon to start, only after the whole wait for it.
THEOREM InstallsAfterWait == StartSpec => []InstallsOnlyAfterWholeWait
<1>1. StartInv => InstallsOnlyAfterWholeWait
    BY DEF StartInv, StarterInv, InstallsOnlyAfterWholeWait, Downloading
<1> QED BY <1>1, StartInvariant, PTL

\* A half replaced installation is being completed, or has been reported.
THEOREM BrokenInstallReported == StartSpec => []BrokenInstallIsReported
<1>1. StartInv => BrokenInstallIsReported BY DEF StartInv
<1> QED BY <1>1, StartInvariant, PTL
=============================================================================
