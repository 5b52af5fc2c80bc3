--------------------------- MODULE DropboxClient ----------------------------
(***************************************************************************)
(* src/src/dropbox-client.c: the two connections to the daemon seen as     *)
(* one.  DropboxClient hooks into the connect and disconnect callbacks of  *)
(* the command client and the hook client, remembers in four flags which   *)
(* of them it has heard, reports the client connection when both have      *)
(* connected and its loss when both have disconnected, and when one is     *)
(* lost takes down the other.                                              *)
(*                                                                         *)
(* The module composes CommandClient (without requests: what matters here  *)
(* is when its connection comes and goes) with HookClient (without         *)
(* frames).  Everything but the command thread runs in the GLib main loop, *)
(* so one callback excludes the others; a hook disconnect takes several    *)
(* steps, because it may push a reset token and then tries to connect      *)
(* again while the command thread goes on.                                 *)
(***************************************************************************)
EXTENDS Naturals, Sequences

CONSTANTS
    Reset, None, MaxAttempts, MaxIdles, MaxResets,  \* of CommandClient
    NoName                                          \* of HookClient

ASSUME ClientTokens == Reset # None /\ NoName # "done"
ASSUME ClientBounds == MaxAttempts \in Nat /\ MaxIdles \in Nat /\ MaxResets \in Nat

VARIABLES
    pc, attempts, cur, queue, connected, idles, mainReq, told, clock, ticket, finished,
    watches, timers, connecting, hookConnected, at, name, args, numargs,
    wire, hungUp, sent, dispatched,
    hookConnectCalled, commandConnectCalled,        \* the four flags
    hookDisconnectCalled, commandDisconnectCalled,
    clientUp,       \* the last report was onconnect_hooklist, not ondisconnect_hooklist
    repeated,       \* some report was the same as the one before it (history)
    unpaired        \* a connection was lost that had not been reported (history)

commandVars == <<pc, attempts, cur, queue, connected, idles, mainReq, told,
                 clock, ticket, finished>>
hookVars == <<watches, timers, connecting, hookConnected, at, name, args, numargs,
              wire, hungUp, sent, dispatched>>
flags == <<hookConnectCalled, commandConnectCalled,
           hookDisconnectCalled, commandDisconnectCalled, clientUp, repeated, unpaired>>
clientVars == <<commandVars, hookVars, flags>>

Command == INSTANCE CommandClient WITH FileReqs <- {}, GeneralReqs <- {}
Hook == INSTANCE HookClient WITH Hooks <- {}, Args <- {}, MaxArgs <- 20, MaxSent <- 0

ClientTypeOK ==
    /\ Command!TypeOK
    /\ Hook!HookTypeOK
    /\ {hookConnectCalled, commandConnectCalled, hookDisconnectCalled,
        commandDisconnectCalled, clientUp, repeated, unpaired} \subseteq BOOLEAN

\* dropbox_client_setup and dropbox_client_start: the hook client connects first.
ClientInit ==
    /\ Command!Init
    /\ Hook!HookInit
    /\ hookConnectCalled = FALSE /\ commandConnectCalled = FALSE
    /\ hookDisconnectCalled = FALSE /\ commandDisconnectCalled = FALSE
    /\ clientUp = FALSE /\ repeated = FALSE /\ unpaired = FALSE

-----------------------------------------------------------------------------
(* The callbacks. *)

ReportConnect ==
    /\ clientUp' = TRUE
    /\ repeated' = (repeated \/ clientUp)
    /\ hookConnectCalled' = FALSE /\ commandConnectCalled' = FALSE
    /\ UNCHANGED <<hookDisconnectCalled, commandDisconnectCalled, unpaired>>

ReportDisconnect ==
    /\ clientUp' = FALSE
    /\ repeated' = (repeated \/ ~clientUp)
    /\ hookDisconnectCalled' = FALSE /\ commandDisconnectCalled' = FALSE
    /\ UNCHANGED <<hookConnectCalled, commandConnectCalled>>

\* Wrong: leaves the report to the command connection.
hook_on_connectWaiting ==
    /\ hookConnectCalled' = TRUE
    /\ UNCHANGED <<commandConnectCalled, hookDisconnectCalled,
                   commandDisconnectCalled, clientUp, repeated, unpaired>>

hook_on_connect ==
    \/ commandConnectCalled /\ ReportConnect
    \/ /\ ~commandConnectCalled
       /\ hookConnectCalled' = TRUE
       /\ UNCHANGED <<commandConnectCalled, hookDisconnectCalled,
                      commandDisconnectCalled, clientUp, repeated, unpaired>>

command_on_connect ==
    \/ hookConnectCalled /\ ReportConnect
    \/ /\ ~hookConnectCalled
       /\ commandConnectCalled' = TRUE
       /\ UNCHANGED <<hookConnectCalled, hookDisconnectCalled,
                      commandDisconnectCalled, clientUp, repeated, unpaired>>

\* The connection now lost had been reported, and no end or successor of it noted.
HookPaired == clientUp /\ ~hookConnectCalled /\ ~hookDisconnectCalled
CommandPaired == clientUp /\ ~commandConnectCalled /\ ~commandDisconnectCalled

\* dropbox_command_client_force_reconnect: the check; the push is PushReset.
CommandForceReconnect ==
    \/ Command!ForceReconnect
    \/ ~connected /\ UNCHANGED commandVars

hook_on_disconnect ==
    /\ unpaired' = (unpaired \/ ~HookPaired)
    /\ \/ commandDisconnectCalled /\ ReportDisconnect /\ UNCHANGED commandVars
       \/ /\ ~commandDisconnectCalled
          /\ hookDisconnectCalled' = TRUE
          /\ CommandForceReconnect
          /\ UNCHANGED <<hookConnectCalled, commandConnectCalled,
                         commandDisconnectCalled, clientUp, repeated>>

\* Wrong: sets its own flag only after it has forced the hook client.
command_on_disconnectForcingFirst ==
    /\ unpaired' = (unpaired \/ ~CommandPaired)
    /\ \/ hookDisconnectCalled /\ ReportDisconnect /\ UNCHANGED hookVars
       \/ /\ ~hookDisconnectCalled
          /\ Hook!HookForceReconnect
          /\ commandDisconnectCalled' = TRUE
          /\ hookDisconnectCalled' = hookConnected
          /\ UNCHANGED <<hookConnectCalled, commandConnectCalled, clientUp, repeated>>

\* Forcing the hook client runs hook_on_disconnect inside, which finds
\* command_disconnect_called already set and reports.
command_on_disconnect ==
    /\ unpaired' = (unpaired \/ ~CommandPaired)
    /\ \/ hookDisconnectCalled /\ ReportDisconnect /\ UNCHANGED hookVars
       \/ ~hookDisconnectCalled /\ hookConnected /\ Hook!Kill /\ ReportDisconnect
       \/ /\ ~hookDisconnectCalled /\ ~hookConnected
          /\ commandDisconnectCalled' = TRUE
          /\ UNCHANGED <<hookConnectCalled, commandConnectCalled,
                         hookDisconnectCalled, clientUp, repeated, hookVars>>

-----------------------------------------------------------------------------
(* Steps. *)

CommandThread ==
    /\ Command!ThreadStep
    /\ UNCHANGED <<hookVars, flags>>

\* An idle of the command thread runs in the main loop.
CommandIdle ==
    /\ ~connecting
    /\ Command!Dispatch
    /\ \/ Head(idles).what = "attempt" /\ UNCHANGED <<hookVars, flags>>
       \/ Head(idles).what = "connect" /\ command_on_connect /\ UNCHANGED hookVars
       \/ Head(idles).what = "disconnect" /\ command_on_disconnect

HookAttempt ==
    /\ mainReq = None
    /\ \/ Hook!TimerFires /\ UNCHANGED flags
       \/ Hook!AttemptOk /\ hook_on_connect
       \/ Hook!AttemptFail /\ UNCHANGED flags
    /\ UNCHANGED commandVars

\* The watch sees the end of the stream or an error: watch_killer.
HookLost ==
    /\ mainReq = None
    /\ Hook!Halt \/ Hook!ReadError
    /\ hook_on_disconnect

PushReset == Command!PushAfterCheck /\ UNCHANGED <<hookVars, flags>>

DaemonHangUp ==
    /\ Hook!DaemonHangUp
    /\ UNCHANGED <<commandVars, flags>>

ClientNext ==
    CommandThread \/ CommandIdle \/ HookAttempt \/ HookLost \/ PushReset \/ DaemonHangUp

ClientSpec == ClientInit /\ [][ClientNext]_clientVars

ClientFairness ==
    /\ WF_clientVars(CommandThread)
    /\ SF_clientVars(CommandIdle)
    /\ WF_clientVars(HookAttempt)
    /\ WF_clientVars(PushReset)
    /\ WF_clientVars(HookLost /\ hungUp)

ClientFairSpec == ClientSpec /\ ClientFairness

-----------------------------------------------------------------------------
(* Properties. *)

BothConnected == connected /\ hookConnected

(* When both connections stay up, the extension has been told so: its onconnect
   hooks (status reset, emblem path query) ran last.  It does not hold as it stands:
   a stale reset token and a sticky disconnect flag each break it. *)
LastingConnectionIsReported == <>[]BothConnected => <>[]clientUp

\* A reset token meant for a connection that is already gone, or whose end the
\* main loop has not heard of yet: the next connection will pop it and be torn down.
StaleReset ==
    /\ mainReq = Reset \/ \E i \in DOMAIN queue : queue[i] = Reset
    /\ ~connected \/ \E i \in DOMAIN idles : idles[i].what = "disconnect"

(* As long as no reset token outlives the connection it was pushed for, a lasting
   connection is reported. *)
LastingConnectionIsReportedUnlessStale ==
    []~StaleReset => LastingConnectionIsReported

(* As long as each connection that is lost had been reported, a lasting connection
   is reported: the flags, tokens and forced losses of one pairing leave nothing
   behind that could spoil the next. *)
LastingConnectionIsReportedIfPaired ==
    []~unpaired => LastingConnectionIsReported

(* Under the same condition, when both connections stay down the extension has been
   told that too: its ondisconnect hooks (emblem paths removed) ran last. *)
LastingOutageIsReportedIfPaired ==
    []~unpaired => (<>[](~connected /\ ~hookConnected) => <>[]~clientUp)

(* Reports alternate until a connection is lost that had not been reported: the
   extension does not hear twice in a row that the client has connected, or that it
   has disconnected. *)
ReportsAlternateIfPaired == repeated => unpaired
=============================================================================
