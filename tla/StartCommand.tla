---------------------------- MODULE StartCommand ----------------------------
(***************************************************************************)
(* src/dropbox.in: `dropbox start [-i]`.                                   *)
(*                                                                         *)
(* The command looks in the pid file whether Dropbox runs, launches        *)
(* dropboxd if it does not, polls the pid file, then asks the daemon over  *)
(* its command socket whether the computer must be linked, until a         *)
(* deadline that it shares with the polling.  With -i a launch that fails  *)
(* is followed by a download, an unpacking over the old installation and a *)
(* second launch, which is reported in a terminal and not under a GUI.     *)
(*                                                                         *)
(* Several commands may run at once: they share the installation, the pid  *)
(* file and the socket.  The daemon is modelled from how the command sees  *)
(* it: a process that writes its pid, then listens, and may die any time;  *)
(* one that finds another one running exits.                               *)
(***************************************************************************)
EXTENDS Naturals

CONSTANTS
    Starters,   \* `dropbox start` commands
    Daemons,    \* process identifiers of dropboxd
    None,
    MaxPolls    \* STARTUP_TIMEOUT_SECONDS / STARTUP_POLL_INTERVAL_SECONDS (120)

ASSUME PollsBounded == MaxPolls \in Nat \ {0}

VARIABLES
    install,    \* each command's -i
    gui,        \* GUI_AVAILABLE
    gpg,        \* gpg or gpgme could be imported
    pc,         \* where each command is
    said,       \* what it has told the user last
    launched,   \* it has tried to launch the daemon
    second,     \* it is past its download
    begun,      \* its last launch found something to launch (history)
    polls,      \* how often start_dropbox has polled
    left,       \* poll intervals left until startup_deadline
    tries,      \* whether it has made a link query: attempted
    heard,      \* the daemon has answered it (history)
    peer,       \* the daemon it is connected to
    archive,    \* what it has downloaded
    installed,  \* what lies in .dropbox-dist
    daemon,     \* [Daemons -> state of the process]
    pidfile     \* the pid in ~/.dropbox/dropbox.pid

setting == <<install, gui, gpg>>
clock == <<polls, left>>
query == <<tries, heard, peer>>
system == <<installed, daemon, pidfile>>
stage == <<launched, second, begun>>
startVars == <<setting, pc, said, stage, clock, query, archive, system>>

Steps == {"check", "launch", "poll", "failed", "connect", "send", "read", "flooded", "retry",
          "ask", "fetch", "verify", "unpack", "validate", "stalled", "end"}
Messages == {"link", "done", "already", "unavailable", "not installed", "error",
             "traceback"}
Archives == {"whole", "short", "foreign"}   \* short: ends early; foreign: not Dropbox's
DaemonStates == {"off", "booting", "running", "serving"}

ASSUME StartNames == None \notin Daemons \cup Messages \cup Archives

StartTypeOK ==
    /\ install \in [Starters -> BOOLEAN] /\ gui \in BOOLEAN /\ gpg \in BOOLEAN
    /\ pc \in [Starters -> Steps]
    /\ said \in [Starters -> Messages \cup {None}]
    /\ launched \in [Starters -> BOOLEAN] /\ second \in [Starters -> BOOLEAN]
    /\ begun \in [Starters -> BOOLEAN] /\ heard \in [Starters -> BOOLEAN]
    /\ polls \in [Starters -> 0..MaxPolls] /\ left \in [Starters -> 0..MaxPolls]
    /\ tries \in [Starters -> BOOLEAN]
    /\ peer \in [Starters -> Daemons \cup {None}]
    /\ archive \in [Starters -> Archives \cup {None}]
    /\ installed \in {"absent", "partial"} \cup Archives
    /\ daemon \in [Daemons -> DaemonStates]
    /\ pidfile \in Daemons \cup {None}

StartInit ==
    /\ install \in [Starters -> BOOLEAN] /\ gui \in BOOLEAN /\ gpg \in BOOLEAN
    /\ pc = [p \in Starters |-> "check"]
    /\ said = [p \in Starters |-> None]
    /\ launched = [p \in Starters |-> FALSE]
    /\ second = [p \in Starters |-> FALSE]
    /\ begun = [p \in Starters |-> FALSE]
    /\ polls = [p \in Starters |-> 0] /\ left = [p \in Starters |-> 0]
    /\ tries = [p \in Starters |-> FALSE]
    /\ heard = [p \in Starters |-> FALSE]
    /\ peer = [p \in Starters |-> None]
    /\ archive = [p \in Starters |-> None]
    /\ installed \in {"absent", "whole"}
    /\ daemon = [d \in Daemons |-> "off"]
    /\ pidfile = None

Goto(p, step) == pc' = [pc EXCEPT ![p] = step]
Say(p, message) == said' = [said EXCEPT ![p] = message]
Stop(p, message) == Goto(p, "end") /\ Say(p, message)

-----------------------------------------------------------------------------
(* start_dropbox and start_dropbox_and_report_result *)

is_dropbox_running == pidfile # None /\ daemon[pidfile] # "off"

\* startup_deadline is set before the launch.
Check(p) ==
    /\ pc[p] = "check"
    /\ IF is_dropbox_running THEN Goto(p, "connect") ELSE Goto(p, "launch")
    /\ UNCHANGED <<setting, said, stage, clock, query, archive, system>>

\* Popen needs an executable, which a partial installation may lack; or Popen of it
\* fails, which nothing catches.  The process may also exit at once.
Launch(p) ==
    /\ pc[p] = "launch"
    /\ launched' = [launched EXCEPT ![p] = TRUE]
    /\ polls' = [polls EXCEPT ![p] = 0]
    /\ left' = [left EXCEPT ![p] = MaxPolls]
    /\ \/ /\ installed \in {"absent", "partial"}
          /\ begun' = [begun EXCEPT ![p] = FALSE]
          /\ Goto(p, "failed")
          /\ UNCHANGED <<said, daemon>>
       \/ /\ installed = "partial"
          /\ Stop(p, "traceback")
          /\ UNCHANGED <<begun, daemon>>
       \/ /\ installed # "absent"
          /\ begun' = [begun EXCEPT ![p] = TRUE]
          /\ Goto(p, "poll")
          /\ \/ UNCHANGED daemon
             \/ \E d \in Daemons :
                   daemon[d] = "off" /\ daemon' = [daemon EXCEPT ![d] = "booting"]
          /\ UNCHANGED said
    /\ UNCHANGED <<setting, second, query, archive, installed, pidfile>>

\* Sleeping takes an interval or longer.
Sleep(p) ==
    left' = [left EXCEPT ![p] = 0] \/ (left[p] > 1 /\ left' = [left EXCEPT ![p] = @ - 1])

PollSees(p) ==
    /\ pc[p] = "poll"
    /\ polls[p] < MaxPolls
    /\ is_dropbox_running
    /\ IF gui /\ second[p] THEN Stop(p, "done") ELSE Goto(p, "connect") /\ UNCHANGED said
    /\ polls' = [polls EXCEPT ![p] = 0]
    /\ UNCHANGED <<setting, stage, left, query, archive, system>>

PollAgain(p) ==
    /\ pc[p] = "poll"
    /\ polls[p] < MaxPolls
    /\ ~is_dropbox_running
    /\ polls' = [polls EXCEPT ![p] = @ + 1]
    /\ Sleep(p)
    /\ UNCHANGED <<setting, pc, said, stage, query, archive, system>>

\* Wrong: ends with the last sleep still to come.
PollEndsEarly(p) ==
    /\ pc[p] = "poll"
    /\ polls[p] + 1 >= MaxPolls
    /\ Goto(p, "failed")
    /\ polls' = [polls EXCEPT ![p] = 0]
    /\ UNCHANGED <<setting, said, stage, left, query, archive, system>>

PollEnds(p) ==
    /\ pc[p] = "poll"
    /\ polls[p] = MaxPolls
    /\ Goto(p, "failed")
    /\ polls' = [polls EXCEPT ![p] = 0]
    /\ UNCHANGED <<setting, said, stage, left, query, archive, system>>

\* start: "not installed" whatever the reason.  After the download the GUI prints
\* "Done!" and the terminal nothing.
Failed(p) ==
    /\ pc[p] = "failed"
    /\ \/ ~second[p] /\ install[p] /\ Goto(p, "ask") /\ UNCHANGED said
       \/ ~second[p] /\ ~install[p] /\ Stop(p, "not installed")
       \/ second[p] /\ Stop(p, IF gui THEN "done" ELSE said[p])
    /\ UNCHANGED <<setting, stage, clock, query, archive, system>>

-----------------------------------------------------------------------------
(* grab_link_url_if_necessary and DropboxCommand *)

\* Connecting and waiting for a line take up to five seconds.
Elapse(p) == \E l \in 0..left[p] : left' = [left EXCEPT ![p] = l]

\* close, by closing(DropboxCommand(...)).
Close(p) == peer' = [peer EXCEPT ![p] = None]

TransportError(p) ==
    /\ Goto(p, "retry")
    /\ Close(p)
    /\ Elapse(p)
    /\ UNCHANGED said

\* Wrong: does not try at all when the polling has used up the time.
ConnectOnlyInTime(p) ==
    /\ pc[p] = "connect"
    /\ UNCHANGED polls
    /\ \/ launched[p] /\ left[p] = 0 /\ Stop(p, "unavailable") /\ UNCHANGED <<tries, peer, left>>
       \/ /\ ~launched[p] \/ left[p] > 0
          /\ tries' = [tries EXCEPT ![p] = TRUE]
          /\ \/ TransportError(p)
             \/ \E d \in Daemons :
                   /\ daemon[d] = "serving"
                   /\ peer' = [peer EXCEPT ![p] = d]
                   /\ Goto(p, "send")
                   /\ UNCHANGED <<said, left>>
    /\ UNCHANGED <<setting, stage, heard, archive, system>>

Connect(p) ==
    /\ pc[p] = "connect"
    /\ tries' = [tries EXCEPT ![p] = TRUE]
    /\ \/ TransportError(p)
       \/ \E d \in Daemons :
             /\ daemon[d] = "serving"
             /\ peer' = [peer EXCEPT ![p] = d]
             /\ Goto(p, "send")
             /\ UNCHANGED <<said, left>>
    /\ UNCHANGED <<setting, stage, polls, heard, archive, system>>

\* The write fails if the daemon is gone: an OSError, which is none of the three
\* errors grab_link_url_if_necessary catches.
Send(p) ==
    /\ pc[p] = "send"
    /\ \/ daemon[peer[p]] = "serving" /\ Goto(p, "read") /\ UNCHANGED <<said, peer>>
       \/ daemon[peer[p]] # "serving" /\ Stop(p, "traceback") /\ Close(p)
    /\ UNCHANGED <<setting, stage, clock, tries, heard, archive, system>>

\* Wrong: takes a silent daemon for one that needs no link.
ReadTakingSilenceForNo(p) ==
    /\ pc[p] = "read"
    /\ Stop(p, IF launched[p] THEN "done" ELSE "already")
    /\ UNCHANGED <<setting, stage, clock, query, archive, system>>

\* An answer, ok or not; a timeout or the end of the stream; a table of more than
\* twenty lines, whose exception nothing catches; or a line that does not end.
Read(p) ==
    /\ pc[p] = "read"
    /\ \/ /\ daemon[peer[p]] = "serving"
          /\ heard' = [heard EXCEPT ![p] = TRUE]
          /\ \E m \in {"link", IF launched[p] THEN "done" ELSE "already"} : Stop(p, m)
          /\ Close(p)
          /\ UNCHANGED left
       \/ TransportError(p) /\ UNCHANGED heard
       \/ /\ daemon[peer[p]] = "serving"
          /\ Stop(p, "traceback")
          /\ Close(p)
          /\ UNCHANGED <<left, heard>>
       \/ /\ daemon[peer[p]] = "serving"
          /\ Goto(p, "flooded")
          /\ UNCHANGED <<said, peer, left, heard>>
    /\ UNCHANGED <<setting, stage, polls, tries, archive, system>>

\* The timeout is that of one recv, and readline calls it until the line ends: only
\* the daemon's silence or death ends it.
FloodEnds(p) ==
    /\ pc[p] = "flooded"
    /\ TransportError(p)
    /\ UNCHANGED <<setting, stage, polls, tries, heard, archive, system>>

\* Wrong: retries without looking at the deadline.
RetryForever(p) ==
    /\ pc[p] = "retry"
    /\ Goto(p, "connect")
    /\ UNCHANGED <<setting, said, stage, clock, query, archive, system>>

\* Only the query that follows a launch is repeated.
Retry(p) ==
    /\ pc[p] = "retry"
    /\ \/ launched[p] /\ left[p] > 0 /\ Sleep(p)
       \/ ~(launched[p] /\ left[p] > 0) /\ UNCHANGED left
    /\ IF left'[p] > 0 THEN Goto(p, "connect") /\ UNCHANGED said ELSE Stop(p, "unavailable")
    /\ UNCHANGED <<setting, stage, polls, query, archive, system>>

-----------------------------------------------------------------------------
(* download: the dialog or the terminal.  An error there ends the command: the
   bare except of start catches even the exit. *)

\* The download is of no further use.
Discard(p) == archive' = [archive EXCEPT ![p] = None]

\* A terminal user who declines gets the second launch all the same.
Ask(p) ==
    /\ pc[p] = "ask"
    /\ \/ Goto(p, "fetch") /\ UNCHANGED <<said, second>>
       \/ gui /\ Stop(p, "error") /\ UNCHANGED second
       \/ ~gui /\ Goto(p, "launch") /\ UNCHANGED said /\ second' = [second EXCEPT ![p] = TRUE]
    /\ UNCHANGED <<setting, launched, begun, clock, query, archive, system>>

\* download_file_chunk.  When the server closes early read returns nothing for ever;
\* EAGAIN ends the terminal's loop as if the archive were complete.
Fetch(p) ==
    /\ pc[p] = "fetch"
    /\ \/ /\ \E a \in Archives \ (IF gui THEN {"short"} ELSE {}) :
                archive' = [archive EXCEPT ![p] = a]
          /\ Goto(p, "verify")
          /\ UNCHANGED said
       \/ Goto(p, "stalled") /\ UNCHANGED <<said, archive>>
       \/ Stop(p, "error") /\ UNCHANGED archive
    /\ UNCHANGED <<setting, stage, clock, query, system>>

\* unpack, up to the first member: the signature is fetched, and checked if there is
\* gpg; listing the members reads the archive to its end.
Verify(p) ==
    /\ pc[p] = "verify"
    /\ \/ /\ archive[p] # "short"
          /\ gpg => archive[p] = "whole"
          /\ Goto(p, "unpack")
          /\ UNCHANGED <<said, archive>>
       \/ Goto(p, "stalled") /\ Discard(p) /\ UNCHANGED said
       \/ Stop(p, "error") /\ Discard(p)
    /\ UNCHANGED <<setting, stage, clock, query, system>>

\* The members replace the old files one by one.
UnpackSome(p) ==
    /\ pc[p] = "unpack"
    /\ installed' = "partial"
    /\ UNCHANGED <<setting, pc, said, stage, clock, query, archive, daemon, pidfile>>

UnpackRest(p) ==
    /\ pc[p] = "unpack"
    /\ installed' = archive[p]
    /\ Discard(p)
    /\ Goto(p, "validate")
    /\ UNCHANGED <<setting, said, stage, clock, query, daemon, pidfile>>

\* Wrong: goes on as if nothing had happened, and does not try the result.
UnpackFailsQuietly(p) ==
    /\ pc[p] = "unpack"
    /\ Goto(p, "end")
    /\ UNCHANGED <<setting, said, stage, clock, query, archive, system>>

UnpackFails(p) ==
    /\ pc[p] = "unpack"
    /\ Stop(p, "error")
    /\ Discard(p)
    /\ UNCHANGED <<setting, stage, clock, query, system>>

\* is_dropbox_valid: a test run that may fail for reasons of its own.
Validate(p) ==
    /\ pc[p] = "validate"
    /\ \/ /\ installed # "partial"
          /\ Goto(p, "launch")
          /\ second' = [second EXCEPT ![p] = TRUE]
          /\ UNCHANGED said
       \/ Stop(p, "error") /\ UNCHANGED second
    /\ UNCHANGED <<setting, launched, begun, clock, query, archive, system>>

\* handle_cancel.  Closing the buffer makes an unpacking in progress fail.
Cancel(p) ==
    /\ gui
    /\ pc[p] \in {"fetch", "stalled", "verify", "unpack", "validate"}
    /\ Stop(p, "error")
    /\ Discard(p)
    /\ UNCHANGED <<setting, stage, clock, query, system>>

-----------------------------------------------------------------------------
(* The daemon. *)

WritesPid(d) ==
    /\ daemon[d] = "booting"
    /\ \/ /\ \A e \in Daemons : daemon[e] \in {"off", "booting"}
          /\ daemon' = [daemon EXCEPT ![d] = "running"]
          /\ pidfile' = d
       \/ /\ \E e \in Daemons : daemon[e] \in {"running", "serving"}
          /\ daemon' = [daemon EXCEPT ![d] = "off"]
          /\ UNCHANGED pidfile
    /\ UNCHANGED <<setting, pc, said, stage, clock, query, archive, installed>>

Listens(d) ==
    /\ daemon[d] = "running"
    /\ daemon' = [daemon EXCEPT ![d] = "serving"]
    /\ UNCHANGED <<setting, pc, said, stage, clock, query, archive, installed, pidfile>>

Dies(d) ==
    /\ daemon[d] # "off"
    /\ daemon' = [daemon EXCEPT ![d] = "off"]
    /\ UNCHANGED <<setting, pc, said, stage, clock, query, archive, installed, pidfile>>

-----------------------------------------------------------------------------

StarterStep(p) ==
    \/ Check(p) \/ Launch(p) \/ PollSees(p) \/ PollAgain(p) \/ PollEnds(p) \/ Failed(p)
    \/ Connect(p) \/ Send(p) \/ Read(p) \/ Retry(p)
    \/ Ask(p) \/ Fetch(p) \/ Verify(p) \/ UnpackRest(p) \/ UnpackFails(p) \/ Validate(p)

StartNext ==
    \/ \E p \in Starters : StarterStep(p) \/ FloodEnds(p) \/ UnpackSome(p) \/ Cancel(p)
    \/ \E d \in Daemons : WritesPid(d) \/ Listens(d) \/ Dies(d)

StartSpec == StartInit /\ [][StartNext]_startVars

\* Every wait of the command has a timeout, except the download's and that for the end
\* of a line; the user answers.
StartFairSpec == StartSpec /\ \A p \in Starters : WF_startVars(StarterStep(p))

-----------------------------------------------------------------------------
(* Properties. *)

(* "Done!" and "already running" are said only by a command that the daemon itself has
   answered, however the daemon came up and went down meanwhile; the second launch
   under a GUI is the exception, it says "Done!" in any case. *)
DoneMeansAnswered ==
    \A p \in Starters :
        said[p] \in {"done", "already"} => heard[p] \/ (gui /\ second[p])

(* A command that has launched the daemon calls its socket unavailable only after at
   least one query, even if the daemon was seen at the very last poll, and not before
   the deadline. *)
GivesUpOnlyAtDeadline ==
    \A p \in Starters :
        said[p] = "unavailable" => tries[p] /\ (launched[p] => left[p] = 0)

(* A command installs only if asked to, and if its launch did find a daemon to start,
   only after it has waited for that daemon to the deadline.  A command whose launch
   found nothing goes on at once, although another command may by then have installed
   and launched a daemon that is still booting; and a daemon that comes up later than
   the deadline is installed over: both are what the code does. *)
InstallsOnlyAfterWholeWait ==
    \A p \in Starters :
        pc[p] \in {"ask", "fetch", "stalled", "verify", "unpack", "validate"} =>
            install[p] /\ launched[p] /\ (begun[p] => left[p] = 0)

(* A half replaced installation does not go unnoticed: a command is still at work on
   it, or has told its user of an error. *)
BrokenInstallIsReported ==
    installed = "partial" =>
        \E p \in Starters : pc[p] = "unpack" \/ said[p] = "error"

(* Every command ends, however long the daemon is silent and whenever it dies, unless a
   download stalls or the daemon sends a line without end. *)
EveryStartEnds == \A p \in Starters : <>(pc[p] \in {"end", "stalled", "flooded"})
=============================================================================
