-------------------------- MODULE DropboxClientProofs -------------------------
(***************************************************************************)
(* The theorems of DropboxClient, for every value of the bounds.  They     *)
(* compose those of the two clients: a step of the pair is a step, or a    *)
(* stutter, of each client, so each keeps its invariant (of the command    *)
(* client, that announcements come in turn; of the hook client, that it    *)
(* is connected exactly when it has a watch), and on these rests what the  *)
(* four flags mean.                                                        *)
(***************************************************************************)
EXTENDS DropboxClient, TLAPS

CP == INSTANCE CommandClientProofs WITH FileReqs <- {}, GeneralReqs <- {}
HP == INSTANCE HookClientProofs WITH Hooks <- {}, Args <- {}, MaxArgs <- 20, MaxSent <- 0

FlagsAreBoolean ==
    /\ hookConnectCalled \in BOOLEAN /\ commandConnectCalled \in BOOLEAN
    /\ hookDisconnectCalled \in BOOLEAN /\ commandDisconnectCalled \in BOOLEAN
    /\ clientUp \in BOOLEAN /\ repeated \in BOOLEAN /\ unpaired \in BOOLEAN

\* While the client is reported connected: the hook client is on the reported
\* connection, or has noted its end (and perhaps the start of the next one).
UpPairing ==
    /\ ~commandDisconnectCalled /\ ~commandConnectCalled /\ told
    /\ hookDisconnectCalled \/ (hookConnected /\ ~hookConnectCalled)
    /\ hookDisconnectCalled => (hookConnectCalled <=> hookConnected)
    /\ hookConnectCalled => hookDisconnectCalled

\* While it is reported disconnected: each flag is set exactly while its client is
\* connected, and one of the two still has to come.
DownPairing ==
    /\ ~hookDisconnectCalled /\ ~commandDisconnectCalled
    /\ hookConnectCalled <=> hookConnected
    /\ commandConnectCalled <=> told
    /\ ~(hookConnectCalled /\ commandConnectCalled)

Pairing ==
    ~unpaired => /\ ~repeated
                 /\ clientUp => UpPairing
                 /\ ~clientUp => DownPairing

CommandInv == CP!IInv /\ CP!AnnouncementsInv

ClientInv == CommandInv /\ HP!HookInv /\ FlagsAreBoolean /\ Pairing

-----------------------------------------------------------------------------
(* The parts of the pair are the two clients. *)

LEMMA CommandSteps ==
    Command!ThreadStep \/ Command!ForceReconnect \/ Command!PushAfterCheck \/ Command!Dispatch
    => CP!Next
BY Zenon DEF Command!ThreadStep, Command!ConnectFail, Command!ConnectOk, Command!Serve,
    Command!FlagUp, Command!AnnounceUp, Command!Pop, Command!PopTimeout, Command!Check,
    Command!CheckOk, Command!CheckBad, Command!Exec, Command!ExecOk, Command!ExecError,
    Command!Drain, Command!DrainOne, Command!DrainDone, Command!FlagDown,
    Command!AnnounceDown, Command!ForceReconnect, Command!PushAfterCheck, Command!Dispatch,
    Command!Complete, Command!EndRequest, Command!IdleAdd, Command!Notice,
    Command!FinishNotice, Command!Push, Command!ResetsQueued, Command!historyVars,
    Command!threadVars,
    CP!Next, CP!MainStep, CP!ThreadStep, CP!ConnectFail, CP!ConnectOk, CP!Serve, CP!FlagUp,
    CP!AnnounceUp, CP!Pop, CP!PopTimeout, CP!Check, CP!CheckOk, CP!CheckBad, CP!Exec,
    CP!ExecOk, CP!ExecError, CP!Drain, CP!DrainOne, CP!DrainDone, CP!FlagDown,
    CP!AnnounceDown, CP!ForceReconnect, CP!PushAfterCheck, CP!Dispatch, CP!Complete,
    CP!EndRequest, CP!IdleAdd, CP!Notice, CP!FinishNotice, CP!Push, CP!ResetsQueued,
    CP!historyVars, CP!threadVars

LEMMA HookSteps ==
    /\ Hook!TimerFires \/ Hook!AttemptOk \/ Hook!AttemptFail => HP!HookNext
    /\ Hook!Halt \/ Hook!ReadError \/ Hook!DaemonHangUp => HP!HookNext
    /\ ~connecting /\ hookConnected /\ Hook!Kill => HP!HookNext
BY Zenon DEF Hook!TimerFires, Hook!AttemptOk, Hook!AttemptFail, Hook!Halt, Hook!ReadError,
    Hook!DaemonHangUp, Hook!Kill, Hook!Resumed, Hook!MustHalt, Hook!coroutine, Hook!connection,
    HP!HookNext, HP!Attempt, HP!Daemon, HP!HookForceReconnect, HP!TimerFires, HP!AttemptOk,
    HP!AttemptFail, HP!Halt, HP!ReadError, HP!DaemonHangUp, HP!Kill, HP!Resumed,
    HP!MustHalt, HP!coroutine, HP!connection

\* What CommandClient assumes of its constants, here.
LEMMA CommandAssumptions ==
    /\ {} \cap {} = {}
    /\ Reset \notin CP!Reqs /\ None \notin CP!Reqs /\ Reset # None
    /\ MaxAttempts \in Nat /\ MaxIdles \in Nat /\ MaxResets \in Nat
BY ClientTokens, ClientBounds DEF CP!Reqs

LEMMA CommandKeeps ==
    ASSUME CommandInv, CP!Next \/ UNCHANGED commandVars
    PROVE  CommandInv'
<1>1. [CP!Next]_CP!vars BY DEF commandVars, CP!vars
<1>2. CP!IInv' BY <1>1, CP!Inductive, CommandAssumptions DEF CommandInv
<1>3. CP!AnnouncementsInv'
    BY <1>1, CP!AnnouncementsStep, CommandAssumptions DEF CommandInv, CP!IInv
<1> QED BY <1>2, <1>3 DEF CommandInv

LEMMA HookKeeps ==
    ASSUME HP!HookInv, HP!HookNext \/ UNCHANGED hookVars
    PROVE  HP!HookInv'
BY HP!HookInductive, ClientTokens DEF hookVars, HP!hookVars

\* What the main loop dispatches next is news to it.
LEMMA NextAnnouncementIsNews ==
    ASSUME CommandInv, idles # <<>>
    PROVE  /\ Head(idles).what = "connect" => told = FALSE
           /\ Head(idles).what = "disconnect" => told = TRUE
<1>1. idles \in Seq(CP!Idles) /\ told \in BOOLEAN BY DEF CommandInv, CP!IInv, CP!TypeOK
<1>2. 1 \in 1..Len(idles) /\ Head(idles) = idles[1] BY <1>1
<1>3. CP!Believes(idles, told, 0) <=> told = TRUE BY CP!BelievesNothing, CommandAssumptions
<1> QED BY <1>1, <1>2, <1>3 DEF CommandInv, CP!AnnouncementsInv, CP!Fits

LEMMA HookIsConnectedByWatch ==
    ASSUME HP!HookInv
    PROVE  /\ hookConnected \in BOOLEAN
           /\ connecting => ~hookConnected
           /\ Hook!Resumed => ~connecting /\ hookConnected
BY DEF HP!HookInv, HP!HookTypeOK, HP!OneLifeline, Hook!Resumed

\* Each step of the pair is a step or a stutter of each client.
LEMMA StepOfEach ==
    ASSUME HP!HookInv, ClientNext
    PROVE  /\ CP!Next \/ UNCHANGED commandVars
           /\ HP!HookNext \/ UNCHANGED hookVars
<1>1. CASE CommandThread BY <1>1, CommandSteps DEF CommandThread
<1>2. CASE CommandIdle
    <2>1. CP!Next BY <1>2, CommandSteps DEF CommandIdle
    <2>2. command_on_disconnect /\ ~connecting => HP!HookNext \/ UNCHANGED hookVars
        BY HookSteps DEF command_on_disconnect
    <2> QED BY <1>2, <2>1, <2>2 DEF CommandIdle
<1>3. CASE HookAttempt BY <1>3, HookSteps DEF HookAttempt
<1>4. CASE HookLost
    <2>1. HP!HookNext BY <1>4, HookSteps DEF HookLost
    <2>2. Command!ForceReconnect \/ UNCHANGED commandVars
        BY <1>4 DEF HookLost, hook_on_disconnect, CommandForceReconnect
    <2> QED BY <2>1, <2>2, CommandSteps
<1>5. CASE PushReset BY <1>5, CommandSteps DEF PushReset
<1>6. CASE DaemonHangUp BY <1>6, HookSteps DEF DaemonHangUp
<1> QED BY <1>1, <1>2, <1>3, <1>4, <1>5, <1>6 DEF ClientNext

LEMMA ToldOnlyByDispatch ==
    Command!ThreadStep \/ Command!PushAfterCheck \/ CommandForceReconnect => told' = told
BY DEF Command!ThreadStep, Command!ConnectFail, Command!ConnectOk, Command!Serve,
    Command!FlagUp, Command!AnnounceUp, Command!Pop, Command!PopTimeout, Command!Check,
    Command!CheckOk, Command!CheckBad, Command!Exec, Command!ExecOk, Command!ExecError,
    Command!Drain, Command!DrainOne, Command!DrainDone, Command!FlagDown,
    Command!AnnounceDown, Command!PushAfterCheck, CommandForceReconnect,
    Command!ForceReconnect, commandVars

LEMMA DispatchTells ==
    ASSUME Command!Dispatch
    PROVE  /\ idles # <<>>
           /\ Head(idles).what = "attempt" => told' = told
           /\ Head(idles).what = "connect" => told' = TRUE
           /\ Head(idles).what = "disconnect" => told' = FALSE
BY DEF Command!Dispatch

-----------------------------------------------------------------------------
(* The flags. *)

LEMMA ThreadAside ==
    ASSUME FlagsAreBoolean, Pairing, UNCHANGED flags, told' = told,
           hookConnected' = hookConnected
    PROVE  FlagsAreBoolean' /\ Pairing'
BY DEF flags, FlagsAreBoolean, Pairing, UpPairing, DownPairing

LEMMA HookConnects ==
    ASSUME FlagsAreBoolean, Pairing, told \in BOOLEAN, hookConnected = FALSE,
           hook_on_connect, hookConnected' = TRUE, told' = told
    PROVE  FlagsAreBoolean' /\ Pairing'
<1>1. FlagsAreBoolean' /\ unpaired' = unpaired
    BY DEF hook_on_connect, ReportConnect, FlagsAreBoolean
<1>2. CASE ~unpaired /\ clientUp
    <2>1. ~repeated /\ UpPairing BY <1>2 DEF Pairing
    <2>2. /\ hookConnectCalled' = TRUE
          /\ UNCHANGED <<commandConnectCalled, hookDisconnectCalled,
                         commandDisconnectCalled, clientUp, repeated>>
        BY <2>1 DEF hook_on_connect, UpPairing
    <2> QED BY <1>1, <1>2, <2>1, <2>2 DEF Pairing, UpPairing
<1>3. CASE ~unpaired /\ ~clientUp /\ commandConnectCalled
    <2>1. ~repeated /\ DownPairing BY <1>3 DEF Pairing
    <2>2. ReportConnect BY <1>3 DEF hook_on_connect
    <2>3. ~repeated' /\ clientUp' BY <1>3, <2>1, <2>2 DEF ReportConnect
    <2> QED BY <1>1, <1>3, <2>1, <2>2, <2>3 DEF Pairing, UpPairing, DownPairing, ReportConnect
<1>4. CASE ~unpaired /\ ~clientUp /\ ~commandConnectCalled
    <2>1. ~repeated /\ DownPairing BY <1>4 DEF Pairing
    <2>2. /\ hookConnectCalled' = TRUE
          /\ UNCHANGED <<commandConnectCalled, hookDisconnectCalled,
                         commandDisconnectCalled, clientUp, repeated>>
        BY <1>4 DEF hook_on_connect
    <2> QED BY <1>1, <1>4, <2>1, <2>2 DEF Pairing, DownPairing
<1> QED BY <1>1, <1>2, <1>3, <1>4 DEF Pairing

LEMMA CommandConnects ==
    ASSUME FlagsAreBoolean, Pairing, hookConnected \in BOOLEAN, told = FALSE,
           command_on_connect, told' = TRUE, hookConnected' = hookConnected
    PROVE  FlagsAreBoolean' /\ Pairing'
<1>1. FlagsAreBoolean' /\ unpaired' = unpaired
    BY DEF command_on_connect, ReportConnect, FlagsAreBoolean
<1>2. CASE ~unpaired
    <2>1. ~clientUp BY <1>2 DEF Pairing, UpPairing
    <2>2. ~repeated /\ DownPairing BY <1>2, <2>1 DEF Pairing
    <2>3. CASE hookConnectCalled
        <3>1. ReportConnect BY <2>3 DEF command_on_connect
        <3>2. ~repeated' /\ clientUp' BY <2>1, <2>2, <3>1 DEF ReportConnect
        <3> QED BY <1>1, <2>2, <2>3, <3>1, <3>2
                DEF Pairing, UpPairing, DownPairing, ReportConnect
    <2>4. CASE ~hookConnectCalled
        <3>1. /\ commandConnectCalled' = TRUE
              /\ UNCHANGED <<hookConnectCalled, hookDisconnectCalled,
                             commandDisconnectCalled, clientUp, repeated>>
            BY <2>4 DEF command_on_connect
        <3> QED BY <1>1, <2>1, <2>2, <2>4, <3>1 DEF Pairing, DownPairing
    <2> QED BY <2>3, <2>4
<1> QED BY <1>1, <1>2 DEF Pairing

LEMMA HookDisconnects ==
    ASSUME FlagsAreBoolean, Pairing, told \in BOOLEAN, hookConnected = TRUE,
           hook_on_disconnect, hookConnected' = FALSE, told' = told
    PROVE  FlagsAreBoolean' /\ Pairing'
<1>1. FlagsAreBoolean'
    BY DEF hook_on_disconnect, ReportDisconnect, HookPaired, FlagsAreBoolean
<1>2. CASE ~unpaired'
    <2>1. ~unpaired /\ clientUp /\ ~hookConnectCalled
        BY <1>2 DEF hook_on_disconnect, HookPaired
    <2>2. ~repeated /\ UpPairing BY <2>1 DEF Pairing
    <2>3. /\ hookDisconnectCalled' = TRUE
          /\ UNCHANGED <<hookConnectCalled, commandConnectCalled,
                         commandDisconnectCalled, clientUp, repeated>>
        BY <2>2 DEF hook_on_disconnect, UpPairing
    <2> QED BY <1>1, <2>1, <2>2, <2>3 DEF Pairing, UpPairing
<1> QED BY <1>1, <1>2 DEF Pairing

LEMMA CommandDisconnects ==
    ASSUME FlagsAreBoolean, Pairing, hookConnected \in BOOLEAN, told = TRUE,
           command_on_disconnect, told' = FALSE
    PROVE  FlagsAreBoolean' /\ Pairing'
<1> DEFINE Reported == ReportDisconnect /\ unpaired' = (unpaired \/ ~CommandPaired)
<1>r. ASSUME Reported,
             \/ hookDisconnectCalled /\ hookConnected' = hookConnected
             \/ ~hookDisconnectCalled /\ hookConnected' = FALSE
      PROVE  FlagsAreBoolean' /\ Pairing'
    <2>1. FlagsAreBoolean'
        BY <1>r DEF ReportDisconnect, CommandPaired, FlagsAreBoolean
    <2> SUFFICES ASSUME ~unpaired' PROVE ~repeated' /\ ~clientUp' /\ DownPairing'
        BY <2>1 DEF Pairing
    <2>2. ~unpaired /\ clientUp /\ ~commandConnectCalled BY <1>r DEF CommandPaired
    <2>3. ~repeated /\ UpPairing BY <2>2 DEF Pairing
    <2>4. ~repeated' /\ ~clientUp' BY <1>r, <2>2, <2>3 DEF ReportDisconnect
    <2>5. hookConnectCalled <=> hookConnected'
        BY <1>r, <2>3 DEF UpPairing
    <2>6. ~hookDisconnectCalled' /\ ~commandDisconnectCalled'
          /\ UNCHANGED <<hookConnectCalled, commandConnectCalled>>
        BY <1>r DEF ReportDisconnect
    <2>7. ~commandConnectCalled' BY <2>2, <2>6
    <2>8. hookConnectCalled' <=> hookConnected' BY <2>5, <2>6
    <2> QED BY <2>4, <2>6, <2>7, <2>8 DEF DownPairing
<1>1. CASE hookDisconnectCalled
    <2>1. Reported /\ UNCHANGED hookVars BY <1>1 DEF command_on_disconnect
    <2>2. hookConnected' = hookConnected BY <2>1 DEF hookVars
    <2> QED BY <1>1, <2>1, <2>2, <1>r
<1>2. CASE ~hookDisconnectCalled /\ hookConnected
    <2>1. Reported /\ Hook!Kill BY <1>2 DEF command_on_disconnect
    <2>2. hookConnected' = FALSE BY <2>1 DEF Hook!Kill
    <2> QED BY <1>2, <2>1, <2>2, <1>r
<1>3. CASE ~hookDisconnectCalled /\ ~hookConnected
    BY <1>3 DEF command_on_disconnect, CommandPaired, FlagsAreBoolean, Pairing, UpPairing
<1> QED BY <1>1, <1>2, <1>3 DEF FlagsAreBoolean

LEMMA ClientInductive ==
    ASSUME ClientInv, ClientNext
    PROVE  FlagsAreBoolean' /\ Pairing'
<1> USE DEF ClientInv
<1>1. told \in BOOLEAN BY DEF CommandInv, CP!IInv, CP!TypeOK
<1>2. hookConnected \in BOOLEAN BY HookIsConnectedByWatch
<1>3. CASE CommandThread \/ PushReset
    BY <1>3, ToldOnlyByDispatch, ThreadAside DEF CommandThread, PushReset, hookVars
<1>4. CASE CommandIdle
    <2>1. CASE Head(idles).what = "attempt" /\ UNCHANGED <<hookVars, flags>>
        BY <1>4, <2>1, DispatchTells, ThreadAside DEF CommandIdle, hookVars
    <2>2. CASE Head(idles).what = "connect" /\ command_on_connect /\ UNCHANGED hookVars
        BY <1>2, <1>4, <2>2, DispatchTells, NextAnnouncementIsNews, CommandConnects
        DEF CommandIdle, hookVars
    <2>3. CASE Head(idles).what = "disconnect" /\ command_on_disconnect
        BY <1>2, <1>4, <2>3, DispatchTells, NextAnnouncementIsNews, CommandDisconnects
        DEF CommandIdle
    <2> QED BY <1>4, <2>1, <2>2, <2>3 DEF CommandIdle
<1>5. CASE HookAttempt
    <2>1. told' = told BY <1>5 DEF HookAttempt, commandVars
    <2>2. CASE (Hook!TimerFires \/ Hook!AttemptFail) /\ UNCHANGED flags
        BY <2>1, <2>2, ThreadAside DEF Hook!TimerFires, Hook!AttemptFail
    <2>3. CASE Hook!AttemptOk /\ hook_on_connect
        <3>1. hookConnected = FALSE /\ hookConnected' = TRUE
            BY <1>2, <2>3, HookIsConnectedByWatch DEF Hook!AttemptOk
        <3> QED BY <1>1, <2>1, <2>3, <3>1, HookConnects
    <2> QED BY <1>5, <2>2, <2>3 DEF HookAttempt
<1>6. CASE HookLost
    <2>1. hookConnected = TRUE /\ hookConnected' = FALSE
        BY <1>2, <1>6, HookIsConnectedByWatch DEF HookLost, Hook!Halt, Hook!ReadError, Hook!Kill
    <2>2. told' = told
        BY <1>6, ToldOnlyByDispatch DEF HookLost, hook_on_disconnect, commandVars
    <2> QED BY <1>1, <1>6, <2>1, <2>2, HookDisconnects DEF HookLost
<1>7. CASE DaemonHangUp
    BY <1>7, ThreadAside DEF DaemonHangUp, Hook!DaemonHangUp, commandVars
<1> QED BY <1>3, <1>4, <1>5, <1>6, <1>7 DEF ClientNext

LEMMA ClientInitInv == ClientInit => ClientInv
<1> SUFFICES ASSUME ClientInit PROVE ClientInv OBVIOUS
<1>1. CP!Init
    BY DEF ClientInit, Command!Init, CP!Init, Command!Reqs, CP!Reqs
<1>2. CommandInv
    BY <1>1, CP!InitInvariant, CP!AnnouncementsInvInit, CommandAssumptions DEF CommandInv
<1>3. HP!HookInv
    <2>1. HP!HookInit BY DEF ClientInit, Hook!HookInit, HP!HookInit
    <2> QED BY <2>1, HP!HookInitInv, ClientTokens
<1>4. FlagsAreBoolean /\ Pairing
    BY DEF ClientInit, Command!Init, Hook!HookInit, FlagsAreBoolean, Pairing, DownPairing
<1> QED BY <1>2, <1>3, <1>4 DEF ClientInv

(* The inductive invariant: both clients keep theirs, and until a connection is
   lost that had not been reported the four flags say exactly which client has
   come or gone since the last report. *)
THEOREM ClientInvariant == ClientSpec => []ClientInv
<1>1. ClientInv /\ ClientNext => ClientInv'
    <2> SUFFICES ASSUME ClientInv, ClientNext PROVE ClientInv' OBVIOUS
    <2>1. /\ CP!Next \/ UNCHANGED commandVars
          /\ HP!HookNext \/ UNCHANGED hookVars
        BY StepOfEach DEF ClientInv
    <2>2. CommandInv' BY <2>1, CommandKeeps DEF ClientInv
    <2>3. HP!HookInv' BY <2>1, HookKeeps DEF ClientInv
    <2> QED BY <2>2, <2>3, ClientInductive DEF ClientInv
<1>2. ClientInv /\ UNCHANGED clientVars => ClientInv'
    <2> SUFFICES ASSUME ClientInv, UNCHANGED clientVars PROVE ClientInv' OBVIOUS
    <2>1. UNCHANGED commandVars /\ UNCHANGED hookVars /\ UNCHANGED flags BY DEF clientVars
    <2>2. told' = told /\ hookConnected' = hookConnected BY <2>1 DEF commandVars, hookVars
    <2> QED BY <2>1, <2>2, CommandKeeps, HookKeeps, ThreadAside DEF ClientInv
<1> QED BY <1>1, <1>2, ClientInitInv, PTL DEF ClientSpec

(* The extension does not hear twice in a row that the client has connected, or that
   it has disconnected, before a connection was lost that had not been reported. *)
THEOREM ReportsAlternateUntilUnpaired == ClientSpec => []ReportsAlternateIfPaired
<1>1. ClientInv => ReportsAlternateIfPaired
    BY DEF ClientInv, FlagsAreBoolean, Pairing, ReportsAlternateIfPaired
<1> QED BY <1>1, ClientInvariant, PTL

(* Every variable of the pair keeps its type. *)
THEOREM ClientTypeCorrect == ClientSpec => []ClientTypeOK
<1>1. CP!TypeOK => Command!TypeOK
    BY Zenon DEF CP!TypeOK, Command!TypeOK, CP!PCs, Command!PCs, CP!Reqs, Command!Reqs,
        CP!Idles, Command!Idles, CP!Notice, Command!Notice, CP!FinishNotice,
        Command!FinishNotice
<1>2. HP!HookTypeOK => Hook!HookTypeOK
    BY Zenon DEF HP!HookTypeOK, Hook!HookTypeOK, HP!Lines, Hook!Lines
<1>3. ClientInv => ClientTypeOK
    BY <1>1, <1>2 DEF ClientInv, CommandInv, CP!IInv, HP!HookInv, FlagsAreBoolean,
        ClientTypeOK
<1> QED BY <1>3, ClientInvariant, PTL

-----------------------------------------------------------------------------
(* The composition implements its parts. *)

LEMMA SameCommandClient ==
    /\ CP!Init => Command!Init
    /\ CP!Next => Command!Next
    /\ CP!vars = Command!vars
<1>1. CP!Init => Command!Init BY Zenon DEF CP!Init, Command!Init, CP!Reqs, Command!Reqs
<1>2. CP!vars = Command!vars BY DEF CP!vars, Command!vars
<1>3. CP!Next => Command!Next
    BY Zenon DEF CP!Next, CP!MainStep, CP!ThreadStep, CP!ConnectFail, CP!ConnectOk, CP!Serve,
        CP!FlagUp, CP!AnnounceUp, CP!Pop, CP!PopTimeout, CP!Check, CP!CheckOk, CP!CheckBad,
        CP!Exec, CP!ExecOk, CP!ExecError, CP!Drain, CP!DrainOne, CP!DrainDone, CP!FlagDown,
        CP!AnnounceDown, CP!ForceReconnect, CP!PushAfterCheck, CP!Dispatch, CP!Complete,
        CP!EndRequest, CP!IdleAdd, CP!Notice, CP!FinishNotice, CP!Push, CP!ResetsQueued,
        CP!historyVars, CP!threadVars,
        Command!Next, Command!MainStep, Command!ThreadStep, Command!ConnectFail,
        Command!ConnectOk, Command!Serve, Command!FlagUp, Command!AnnounceUp, Command!Pop,
        Command!PopTimeout, Command!Check, Command!CheckOk, Command!CheckBad, Command!Exec,
        Command!ExecOk, Command!ExecError, Command!Drain, Command!DrainOne, Command!DrainDone,
        Command!FlagDown, Command!AnnounceDown, Command!ForceReconnect,
        Command!PushAfterCheck, Command!Dispatch, Command!Complete, Command!EndRequest,
        Command!IdleAdd, Command!Notice, Command!FinishNotice, Command!Push,
        Command!ResetsQueued, Command!historyVars, Command!threadVars
<1> QED BY <1>1, <1>2, <1>3

LEMMA SameHookClient ==
    /\ HP!HookInit => Hook!HookInit
    /\ HP!HookNext => Hook!HookNext
    /\ HP!hookVars = Hook!hookVars
<1>1. HP!HookInit => Hook!HookInit BY DEF HP!HookInit, Hook!HookInit, HP!Lines, Hook!Lines
<1>2. HP!hookVars = Hook!hookVars BY DEF HP!hookVars, Hook!hookVars
<1>3. HP!Resumed => Hook!Resumed BY DEF HP!Resumed, Hook!Resumed
<1>4. HP!Kill => Hook!Kill
    BY Zenon DEF HP!Kill, Hook!Kill, HP!connection, Hook!connection
<1>5. HP!MustHalt => Hook!MustHalt BY Zenon DEF HP!MustHalt, Hook!MustHalt
<1>6. HP!ReadName => Hook!ReadName BY <1>3, Zenon DEF HP!ReadName, Hook!ReadName
<1>7. HP!ReadArg => Hook!ReadArg BY <1>3, Zenon DEF HP!ReadArg, Hook!ReadArg
<1>8. HP!ReadDone => Hook!ReadDone BY <1>3, Zenon DEF HP!ReadDone, Hook!ReadDone
<1>9. HP!Halt \/ HP!ReadError => Hook!Halt \/ Hook!ReadError
    BY <1>3, <1>4, <1>5 DEF HP!Halt, Hook!Halt, HP!ReadError, Hook!ReadError
<1>10. HP!Attempt => Hook!Attempt
    BY Zenon DEF HP!Attempt, HP!TimerFires, HP!AttemptOk, HP!AttemptFail, HP!coroutine,
        HP!connection, Hook!Attempt, Hook!TimerFires, Hook!AttemptOk, Hook!AttemptFail,
        Hook!coroutine, Hook!connection
<1>11. HP!Daemon => Hook!Daemon
    BY Zenon DEF HP!Daemon, HP!DaemonHangUp, HP!DaemonSend, HP!Lines, HP!coroutine,
        Hook!Daemon, Hook!DaemonHangUp, Hook!DaemonSend, Hook!Lines, Hook!coroutine
<1>12. HP!HookForceReconnect => Hook!HookForceReconnect
    BY <1>2, <1>4, Zenon
       DEF HP!HookForceReconnect, Hook!HookForceReconnect, HP!hookVars, Hook!hookVars
<1>13. HP!HookNext => Hook!HookNext
    BY <1>6, <1>7, <1>8, <1>9, <1>10, <1>11, <1>12, Zenon
    DEF HP!HookNext, HP!Coroutine, Hook!HookNext, Hook!Coroutine
<1> QED BY <1>1, <1>2, <1>13

(* The composition is a command client: whatever the four flags and the hook
   client do, what happens to its variables is what CommandClient says, and so
   each of its theorems holds of the pair. *)
THEOREM ImplementsCommandClient == ClientSpec => Command!Spec
<1>1. ClientInit => Command!Init BY DEF ClientInit
<1>2. ClientInv /\ [ClientNext]_clientVars => [Command!Next]_(Command!vars)
    <2> SUFFICES ASSUME ClientInv, [ClientNext]_clientVars
                 PROVE  [Command!Next]_(Command!vars)
        OBVIOUS
    <2>1. CP!Next \/ UNCHANGED commandVars
        BY StepOfEach DEF ClientInv, clientVars, commandVars
    <2>2. commandVars = Command!vars BY DEF commandVars, Command!vars
    <2> QED BY <2>1, <2>2, SameCommandClient DEF commandVars, Command!vars
<1> QED BY <1>1, <1>2, ClientInvariant, PTL DEF ClientSpec, Command!Spec

(* It is a hook client as well: the command client forces its reconnect only when
   no attempt is in progress, as HookClient has it. *)
THEOREM ImplementsHookClient == ClientSpec => Hook!HookSpec
<1>1. ClientInit => Hook!HookInit BY DEF ClientInit
<1>2. ClientInv /\ [ClientNext]_clientVars => [Hook!HookNext]_(Hook!hookVars)
    <2> SUFFICES ASSUME ClientInv, [ClientNext]_clientVars
                 PROVE  [Hook!HookNext]_(Hook!hookVars)
        OBVIOUS
    <2>1. HP!HookNext \/ UNCHANGED hookVars
        BY StepOfEach DEF ClientInv, clientVars, hookVars
    <2> QED BY <2>1, SameHookClient DEF hookVars, Hook!hookVars
<1> QED BY <1>1, <1>2, ClientInvariant, PTL DEF ClientSpec, Hook!HookSpec
=============================================================================
