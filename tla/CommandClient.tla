--------------------------- MODULE CommandClient ----------------------------
(***************************************************************************)
(* The command client of src/src/dropbox-command-client.c: a thread that   *)
(* owns the command socket, a GAsyncQueue the GLib main loop pushes        *)
(* requests on, and the idle callbacks by which the thread tells the main  *)
(* loop what happened.                                                     *)
(*                                                                         *)
(* Two processes interleave.  The thread is an automaton over `pc`, one    *)
(* value per point of dropbox_command_client_thread where the main loop    *)
(* can get in between.  The main loop runs one callback at a time; the     *)
(* only callbacks cut in two are those that test `connected` and push      *)
(* afterwards, because the mutex is released in between.                   *)
(*                                                                         *)
(* A request's conversation with the server (send_command_to_db) is one    *)
(* step with its outcomes: the request is completed, or an error makes the *)
(* thread give up the connection.                                          *)
(***************************************************************************)
EXTENDS Naturals, Sequences

CONSTANTS
    FileReqs,       \* DropboxFileInfoCommand objects, one per update_file_info call
    GeneralReqs,    \* DropboxGeneralCommand objects (menu, emblem paths, actions)
    Reset,          \* the address of the thread function, pushed as a token
    None,           \* NULL
    MaxAttempts,    \* the attempt counter stops here (the code's int does not)
    MaxIdles,       \* no new connection attempt while this many idles wait
    MaxResets       \* how many reset tokens wait in the queue at once

Reqs == FileReqs \cup GeneralReqs

ASSUME KindsAreDisjoint == FileReqs \cap GeneralReqs = {}
ASSUME TokensAreNoRequests == Reset \notin Reqs /\ None \notin Reqs /\ Reset # None
ASSUME BoundsAreNaturals == MaxAttempts \in Nat /\ MaxIdles \in Nat /\ MaxResets \in Nat

VARIABLES
    pc,         \* where the command thread is
    attempts,   \* connection_attempts, a local of the thread
    cur,        \* dc, the request the thread is executing, or None
    queue,      \* dcc->command_queue
    connected,  \* dcc->command_connected, under its mutex
    idles,      \* the idle sources the thread has added, oldest first
    mainReq,    \* what a main-loop callback is about to push, having seen `connected`
    told,       \* the last of on_connect / on_disconnect the main loop ran was on_connect
    clock,      \* history: how many requests have been pushed
    ticket,     \* history: [Reqs -> Nat], a request's place in that order, 0 = not pushed
    finished    \* history: [Reqs -> Nat], how often its completion has run

threadVars == <<pc, attempts, cur>>
historyVars == <<clock, ticket, finished>>
vars == <<pc, attempts, cur, queue, connected, idles, mainReq, told, clock, ticket, finished>>

PCs == {"connect", "flagUp", "announceUp", "pop", "check", "exec",
        "drain", "flagDown", "announceDown"}

Notice(what) == [what |-> what, req |-> None]
FinishNotice(r) == [what |-> "finish", req |-> r]
Idles == {Notice(w) : w \in {"attempt", "connect", "disconnect"}}
            \cup {FinishNotice(r) : r \in FileReqs}

TypeOK ==
    /\ pc \in PCs
    /\ attempts \in Nat
    /\ cur \in Reqs \cup {None}
    /\ queue \in Seq(Reqs \cup {Reset})
    /\ connected \in BOOLEAN
    /\ idles \in Seq(Idles)
    /\ mainReq \in FileReqs \cup {Reset, None}
    /\ told \in BOOLEAN
    /\ clock \in Nat
    /\ ticket \in [Reqs -> Nat]
    /\ finished \in [Reqs -> Nat]

\* dropbox_command_client_setup, then _start: the thread begins with attempt 1.
Init ==
    /\ pc = "connect"
    /\ attempts = 1
    /\ cur = None
    /\ queue = <<>>
    /\ connected = FALSE
    /\ idles = <<>>
    /\ mainReq = None
    /\ told = FALSE
    /\ clock = 0
    /\ ticket = [r \in Reqs |-> 0]
    /\ finished = [r \in Reqs |-> 0]

-----------------------------------------------------------------------------
(* The command thread. *)

IdleAdd(notice) == idles' = Append(idles, notice)

\* A file info request is completed by nautilus_dropbox_finish_file_info_command
\* in the main loop, a general command by its handler right here in the thread.
Complete(r) ==
    \/ /\ r \in FileReqs
       /\ IdleAdd(FinishNotice(r))
       /\ UNCHANGED finished
    \/ /\ r \in GeneralReqs
       /\ finished' = [finished EXCEPT ![r] = @ + 1]
       /\ UNCHANGED idles

\* The reset token stands for no request.
EndRequest(dc) ==
    IF dc = Reset THEN UNCHANGED <<idles, finished>> ELSE Complete(dc)

\* socket(), connect() or a socket option failed: tell the main loop, sleep a second.
ConnectFail ==
    /\ pc = "connect"
    /\ Len(idles) < MaxIdles
    /\ IdleAdd(Notice("attempt"))
    /\ attempts' = IF attempts < MaxAttempts THEN attempts + 1 ELSE attempts
    /\ UNCHANGED <<pc, cur, queue, connected, mainReq, told, historyVars>>

ConnectOk ==
    /\ pc = "connect"
    /\ Len(idles) < MaxIdles
    /\ attempts' = 0
    /\ pc' = "flagUp"
    /\ UNCHANGED <<cur, queue, connected, idles, mainReq, told, historyVars>>

FlagUp ==
    /\ pc = "flagUp"
    /\ connected' = TRUE
    /\ pc' = "announceUp"
    /\ UNCHANGED <<attempts, cur, queue, idles, mainReq, told, historyVars>>

AnnounceUp ==
    /\ pc = "announceUp"
    /\ IdleAdd(Notice("connect"))
    /\ pc' = "pop"
    /\ UNCHANGED <<attempts, cur, queue, connected, mainReq, told, historyVars>>

\* Wrong: executes whatever it popped, the token included.
PopAnything ==
    /\ pc = "pop"
    /\ queue # <<>>
    /\ queue' = Tail(queue)
    /\ cur' = Head(queue)
    /\ pc' = "exec"
    /\ UNCHANGED <<attempts, connected, idles, mainReq, told, historyVars>>

\* Wrong: skips the token and goes on serving.
PopSkippingReset ==
    /\ pc = "pop"
    /\ queue # <<>>
    /\ queue' = Tail(queue)
    /\ \/ /\ Head(queue) = Reset
          /\ UNCHANGED <<pc, cur>>
       \/ /\ Head(queue) # Reset
          /\ cur' = Head(queue)
          /\ pc' = "exec"
    /\ UNCHANGED <<attempts, connected, idles, mainReq, told, historyVars>>

\* g_async_queue_timeout_pop returned an entry: a reset token or a request.
Pop ==
    /\ pc = "pop"
    /\ queue # <<>>
    /\ queue' = Tail(queue)
    /\ \/ /\ Head(queue) = Reset
          /\ pc' = "drain"
          /\ UNCHANGED cur
       \/ /\ Head(queue) # Reset
          /\ cur' = Head(queue)
          /\ pc' = "exec"
    /\ UNCHANGED <<attempts, connected, idles, mainReq, told, historyVars>>

\* Nothing came for 100 ms.
PopTimeout ==
    /\ pc = "pop"
    /\ queue = <<>>
    /\ pc' = "check"
    /\ UNCHANGED <<attempts, cur, queue, connected, idles, mainReq, told, historyVars>>

\* check_connection: a read that would block is the only healthy outcome.
CheckOk ==
    /\ pc = "check"
    /\ pc' = "pop"
    /\ UNCHANGED <<attempts, cur, queue, connected, idles, mainReq, told, historyVars>>

\* Wrong: tells the main loop before the queue is drained.
CheckBadAnnouncing ==
    /\ pc = "check"
    /\ IdleAdd(Notice("disconnect"))
    /\ pc' = "drain"
    /\ UNCHANGED <<attempts, cur, queue, connected, mainReq, told, historyVars>>

\* Wrong: leaves the queue as it is.
CheckBadNotDraining ==
    /\ pc = "check"
    /\ pc' = "flagDown"
    /\ UNCHANGED <<attempts, cur, queue, connected, idles, mainReq, told, historyVars>>

CheckBad ==
    /\ pc = "check"
    /\ pc' = "drain"
    /\ UNCHANGED <<attempts, cur, queue, connected, idles, mainReq, told, historyVars>>

\* do_file_info_command / do_general_command ran without an error.
ExecOk ==
    /\ pc = "exec"
    /\ Complete(cur)
    /\ cur' = None
    /\ pc' = "pop"
    /\ UNCHANGED <<attempts, queue, connected, mainReq, told, clock, ticket>>

\* Wrong: the error path falls through to `exit`, which completes the request too.
ExecErrorCompletingTwice ==
    /\ pc = "exec"
    /\ \/ /\ cur \in FileReqs
          /\ idles' = idles \o <<FinishNotice(cur), FinishNotice(cur)>>
          /\ UNCHANGED finished
       \/ /\ cur \in GeneralReqs
          /\ Complete(cur)
    /\ cur' = None
    /\ pc' = "drain"
    /\ UNCHANGED <<attempts, queue, connected, mainReq, told, clock, ticket>>

\* It set gerr: the request is ended and the connection given up.
ExecError ==
    /\ pc = "exec"
    /\ EndRequest(cur)
    /\ cur' = None
    /\ pc' = "drain"
    /\ UNCHANGED <<attempts, queue, connected, mainReq, told, clock, ticket>>

\* Wrong: throws the queued requests away.
DrainOneForgetting ==
    /\ pc = "drain"
    /\ queue # <<>>
    /\ queue' = Tail(queue)
    /\ UNCHANGED <<threadVars, connected, idles, mainReq, told, historyVars>>

\* BADCONNECTION: end whatever is still queued, one g_async_queue_try_pop at a time.
DrainOne ==
    /\ pc = "drain"
    /\ queue # <<>>
    /\ queue' = Tail(queue)
    /\ EndRequest(Head(queue))
    /\ UNCHANGED <<threadVars, connected, mainReq, told, clock, ticket>>

DrainDone ==
    /\ pc = "drain"
    /\ queue = <<>>
    /\ pc' = "flagDown"
    /\ UNCHANGED <<attempts, cur, queue, connected, idles, mainReq, told, historyVars>>

\* Wrong: reconnects without telling the main loop.
FlagDownSilently ==
    /\ pc = "flagDown"
    /\ connected' = FALSE
    /\ pc' = "connect"
    /\ UNCHANGED <<attempts, cur, queue, idles, mainReq, told, historyVars>>

FlagDown ==
    /\ pc = "flagDown"
    /\ connected' = FALSE
    /\ pc' = "announceDown"
    /\ UNCHANGED <<attempts, cur, queue, idles, mainReq, told, historyVars>>

AnnounceDown ==
    /\ pc = "announceDown"
    /\ IdleAdd(Notice("disconnect"))
    /\ pc' = "connect"
    /\ UNCHANGED <<attempts, cur, queue, connected, mainReq, told, historyVars>>

-----------------------------------------------------------------------------
(* The main loop. *)

\* Wrong: the newest request is served first.
PushFront(dc) ==
    /\ queue' = <<dc>> \o queue
    /\ IF dc = Reset
       THEN UNCHANGED <<clock, ticket>>
       ELSE /\ clock' = clock + 1
            /\ ticket' = [ticket EXCEPT ![dc] = clock + 1]

\* dropbox_command_client_request
Push(dc) ==
    /\ queue' = Append(queue, dc)
    /\ IF dc = Reset
       THEN UNCHANGED <<clock, ticket>>
       ELSE /\ clock' = clock + 1
            /\ ticket' = [ticket EXCEPT ![dc] = clock + 1]

\* Menu queries, menu actions and the emblem path query are pushed unconditionally.
SubmitGeneral(r) ==
    /\ mainReq = None
    /\ ticket[r] = 0
    /\ Push(r)
    /\ UNCHANGED <<threadVars, connected, idles, mainReq, told, finished>>

\* update_file_info pushes only when it has seen the client connected.
SeeConnected(r) ==
    /\ mainReq = None
    /\ ticket[r] = 0
    /\ connected
    /\ mainReq' = r
    /\ UNCHANGED <<threadVars, queue, connected, idles, told, historyVars>>

ResetsQueued == Len(SelectSeq(queue, LAMBDA dc : dc = Reset))

\* So does dropbox_command_client_force_reconnect with its token.
ForceReconnect ==
    /\ mainReq = None
    /\ connected
    /\ ResetsQueued < MaxResets
    /\ mainReq' = Reset
    /\ UNCHANGED <<threadVars, queue, connected, idles, told, historyVars>>

PushAfterCheck ==
    /\ mainReq # None
    /\ Push(mainReq)
    /\ mainReq' = None
    /\ UNCHANGED <<threadVars, connected, idles, told, finished>>

\* One idle source is dispatched: on_connection_attempt (no hook is registered),
\* on_connect, on_disconnect, or the completion of a file info request.
Dispatch ==
    /\ mainReq = None
    /\ idles # <<>>
    /\ idles' = Tail(idles)
    /\ LET idle == Head(idles) IN
       \/ /\ idle.what = "attempt"
          /\ UNCHANGED <<told, finished>>
       \/ /\ idle.what \in {"connect", "disconnect"}
          /\ told' = (idle.what = "connect")
          /\ UNCHANGED finished
       \/ /\ idle.what = "finish"
          /\ finished' = [finished EXCEPT ![idle.req] = @ + 1]
          /\ UNCHANGED told
    /\ UNCHANGED <<threadVars, queue, connected, mainReq, clock, ticket>>

-----------------------------------------------------------------------------
Exec == ExecOk \/ ExecError
Check == CheckOk \/ CheckBad
Drain == DrainOne \/ DrainDone

\* What the thread does once it has a connection.
Serve == FlagUp \/ AnnounceUp \/ Pop \/ PopTimeout \/ Check \/ Exec
            \/ Drain \/ FlagDown \/ AnnounceDown

ThreadStep == ConnectFail \/ ConnectOk \/ Serve

MainStep ==
    \/ \E r \in GeneralReqs : SubmitGeneral(r)
    \/ \E r \in FileReqs : SeeConnected(r)
    \/ ForceReconnect
    \/ PushAfterCheck
    \/ Dispatch

Next == ThreadStep \/ MainStep

Spec == Init /\ [][Next]_vars

\* The thread is never parked for good: the pop and both socket directions time
\* out.  GLib keeps dispatching, and a callback that began runs to its end.
Fairness ==
    /\ WF_vars(ThreadStep)
    /\ WF_vars(Dispatch)
    /\ WF_vars(PushAfterCheck)

\* Resets pushed for ever could keep one drain from ending: the hook connection,
\* which asks for them, does not flap for ever.
ResetsCease == <>[][~ForceReconnect]_vars

FairSpec == Spec /\ Fairness /\ ResetsCease

-----------------------------------------------------------------------------
(* Properties. *)

Queued(r) == \E i \in DOMAIN queue : queue[i] = r
Posted(r) == \E i \in DOMAIN idles : idles[i] = FinishNotice(r)

(* Every request object has one owner: whatever the order of pushes, errors,
   reset tokens and drains, a pushed request is in exactly one of the queue,
   the thread's hands, a waiting completion, or the past, and its completion
   never runs twice (it frees the request). *)
OneOwner ==
    \A r \in Reqs :
        LET places == {w \in {"new", "queued", "held", "posted", "finished"} :
                        \/ w = "new" /\ ticket[r] = 0
                        \/ w = "queued" /\ Queued(r)
                        \/ w = "held" /\ cur = r
                        \/ w = "posted" /\ Posted(r)
                        \/ w = "finished" /\ finished[r] = 1}
        IN finished[r] <= 1 /\ \E w \in places : places = {w}

(* File info answers reach Nautilus in the order of the questions, and general
   commands answer in theirs, even across lost connections: update_file_info
   for the same file twice must not end with the older answer. *)
CompletedInOrder ==
    \A r, s \in Reqs :
        /\ r \in FileReqs <=> s \in FileReqs
        /\ 0 < ticket[r] /\ ticket[r] < ticket[s]
        /\ finished[s] > 0
        => finished[r] = 1

Announcement(i) == idles[i].what \in {"connect", "disconnect"}

\* What the main loop will believe once it has dispatched the first n idles.
BelievedAfter(n) ==
    LET before == {i \in 1..n : Announcement(i)}
    IN IF before = {} THEN told
       ELSE \E i \in before :
                idles[i].what = "connect" /\ \A j \in before : j <= i

(* on_connect and on_disconnect alternate in the main loop, starting with
   on_connect, however far the loop lags behind the thread: DropboxClient
   counts on it when it pairs them with the hook connection. *)
AnnouncementsAlternate ==
    \A i \in DOMAIN idles :
        Announcement(i) => (idles[i].what = "connect") = ~BelievedAfter(i - 1)

(* A completion is dispatched between the on_connect and the on_disconnect of
   the connection its request was taken up on: when on_disconnect resets every
   file, no completion of that connection is still to come. *)
CompletionsWithinConnection ==
    \A i \in DOMAIN idles :
        idles[i].what = "finish" => BelievedAfter(i - 1)

Serving == pc \in {"pop", "check", "exec", "drain"}

(* A request that is queued while the thread serves a connection is completed
   without a new connection having to come about. *)
ServedByThisConnection ==
    \A r \in Reqs : (Serving /\ Queued(r)) ~> (finished[r] = 1)

\* A thread that seeks a connection again and again gets one again and again.
DaemonIsReached == []<>(pc = "connect") => []<>(pc # "connect")

(* Given a daemon that is reached, every pushed request completes: those that
   slip in behind the drain wait for the next connection and are served then. *)
EveryRequestCompletes ==
    DaemonIsReached => \A r \in Reqs : (ticket[r] > 0) ~> (finished[r] = 1)

(* A forced reconnect takes effect: a reset token that meets a serving thread
   ends that connection, with any requests ahead of it. *)
ForcedReconnectHappens ==
    (Serving /\ Queued(Reset)) ~> (pc = "announceDown")

(* The main loop is not left with a wrong belief: a connection that stays up is
   announced, and so is an outage that lasts. *)
LastingStateIsAnnounced ==
    /\ <>[]connected => <>[]told
    /\ <>[](pc = "connect") => <>[]~told

\* The refinement: the queue, the thread and the idles implement the service.
Service == INSTANCE RequestService

ServiceSpec == Service!Spec
=============================================================================
