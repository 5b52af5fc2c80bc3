----------------------------- MODULE CommandWire -----------------------------
(***************************************************************************)
(* The conversation on one command connection, which CommandClient takes   *)
(* as a single step: send_command_to_db, receive_args_until_done and their *)
(* callers in src/src/dropbox-command-client.c.  The thread writes a       *)
(* command and reads its answer,                                           *)
(*            "ok", argument line*, "done"     or                          *)
(*            something else, line*, "done",                               *)
(* line by line; every read waits at most three seconds.  Nothing in an    *)
(* answer says which command it belongs to: the two sides have to stay in  *)
(* step.                                                                   *)
(*                                                                         *)
(* A file info request asks up to three commands: the emblems, if there    *)
(* are none the status, and for a directory the folder tag.  Lines carry   *)
(* the command the daemon wrote them for, which the thread cannot see.     *)
(* The daemon answers commands in order, in any time, with any number of   *)
(* lines of which only the first may be "ok", and sends nothing unasked.   *)
(***************************************************************************)
EXTENDS Naturals, Sequences, FiniteSets

CONSTANTS
    MaxRequests,    \* how many requests the thread executes
    MaxArgs,        \* 20 in the code
    MaxOnWire       \* the daemon waits while so many lines are on their way

ASSUME WireBounds == MaxRequests \in Nat /\ MaxArgs \in Nat \ {0} /\ MaxOnWire \in Nat \ {0}

VARIABLES
    step,       \* the command being asked, "idle" between requests, "down" after
                \* an error, "crashed"
    folder,     \* the request in hand is about a directory
    phase,      \* where send_command_to_db is: "write", "header", "args", "skip"
    numargs,    \* argument lines of this answer
    taken,      \* how many requests have been taken off the queue (history)
    asked,      \* number of the last command on this connection
    torn,       \* the command the daemon has got the beginning of, or Nobody
    todo,       \* the daemon's commands to answer, by number
    begun,      \* the first line of the first of these answers has been sent
    wire,       \* lines on their way to the thread: [kind, of]
    closed,     \* the daemon has closed the connection
    foreign,    \* history: a line of the answer being read is of another command
    skewed,     \* history: an answer with such a line has been taken on this connection
    swallowed   \* history: failed exchanges on this connection that were ignored

reader == <<phase, numargs, foreign>>
daemon == <<todo, begun, closed>>
history == <<skewed, swallowed>>
wireVars == <<step, folder, phase, numargs, taken, asked, torn, todo, begun, wire,
              closed, foreign, skewed, swallowed>>

FileCommands == {"get_emblems", "icon_overlay_file_status", "get_folder_tag"}
Commands == FileCommands \cup {"general"}
Nobody == 0     \* numbers of commands start at 1

\* "text" has no tab and is neither "ok" nor "done"; a "garbled" line is not UTF-8.
Kinds == {"ok", "argument", "text", "garbled", "done"}
FirstLines == {"ok", "text", "garbled"}
LaterLines == {"argument", "text", "garbled"}
Line(kind, of) == [kind |-> kind, of |-> of]

WireTypeOK ==
    /\ step \in Commands \cup {"idle", "down", "crashed"}
    /\ folder \in BOOLEAN
    /\ phase \in {"write", "header", "args", "skip"}
    /\ numargs \in 0..MaxArgs
    /\ taken \in 0..MaxRequests
    /\ asked \in Nat /\ torn \in Nat
    /\ todo \in Seq(Nat)
    /\ wire \in Seq([kind : Kinds, of : Nat])
    /\ begun \in BOOLEAN /\ closed \in BOOLEAN
    /\ foreign \in BOOLEAN /\ skewed \in BOOLEAN
    /\ swallowed \in Nat

WireInit ==
    /\ step = "idle" /\ folder = FALSE /\ taken = 0
    /\ phase = "write" /\ numargs = 0 /\ foreign = FALSE
    /\ asked = 0 /\ torn = Nobody
    /\ todo = <<>> /\ begun = FALSE /\ wire = <<>> /\ closed = FALSE
    /\ skewed = FALSE /\ swallowed = 0

-----------------------------------------------------------------------------
(* do_file_info_command and do_general_command around one exchange. *)

GoOnWith(command) == step' = command /\ phase' = "write"

\* The next command of the request in hand, or the request's end.
AfterNothing ==
    \/ step = "get_emblems" /\ GoOnWith("icon_overlay_file_status")
    \/ step = "icon_overlay_file_status" /\ folder /\ GoOnWith("get_folder_tag")
    \/ step = "icon_overlay_file_status" /\ ~folder /\ GoOnWith("idle")
    \/ step \in {"get_folder_tag", "general"} /\ GoOnWith("idle")

AfterTable ==
    \/ step = "get_emblems" /\ GoOnWith("idle")
    \/ step # "get_emblems" /\ AfterNothing

\* Wrong: the status errors are ignored too.
FailOnlyAtTheEnd ==
    /\ \/ /\ step \in {"get_emblems", "icon_overlay_file_status"}
          /\ AfterNothing
       \/ /\ step \in {"get_folder_tag", "general"}
          /\ step' = "down"
          /\ UNCHANGED phase
    /\ swallowed' = swallowed + (IF step = "get_emblems" THEN 1 ELSE 0)
    /\ UNCHANGED skewed

\* The exchange failed with an error.  get_emblems is asked with a NULL GError **.
Fail ==
    /\ \/ /\ step = "get_emblems"
          /\ AfterNothing
          /\ swallowed' = swallowed + 1
       \/ /\ step # "get_emblems"
          /\ step' = "down"
          /\ UNCHANGED <<phase, swallowed>>
    /\ UNCHANGED skewed

\* The answer is taken, whomever its lines were for.
Answered ==
    /\ skewed' = (skewed \/ foreign')
    /\ UNCHANGED swallowed

-----------------------------------------------------------------------------
(* The thread. *)

TakeRequest(command, isFolder) ==
    /\ step = "idle"
    /\ taken < MaxRequests
    /\ taken' = taken + 1
    /\ folder' = isFolder
    /\ GoOnWith(command)
    /\ UNCHANGED <<numargs, foreign, asked, torn, wire, daemon, history>>

\* check_connection, after 100 ms without a request: the end of the stream or data
\* nobody asked for.  Otherwise nothing changes.
CheckConnection ==
    /\ step = "idle"
    /\ wire # <<>> \/ closed
    /\ step' = "down"
    /\ UNCHANGED <<folder, reader, taken, asked, torn, wire, daemon, history>>

Asking == step \in Commands

\* The daemon takes the beginning of a torn command and the next command for one.
\* A last flush that blocks is not noticed: it is a daemon that is slow to answer.
WriteCommand ==
    /\ Asking /\ phase = "write"
    /\ asked' = asked + 1
    /\ todo' = Append(todo, IF torn = Nobody THEN asked + 1 ELSE torn)
    /\ torn' = Nobody
    /\ phase' = "header" /\ numargs' = 0 /\ foreign' = FALSE
    /\ UNCHANGED <<step, folder, taken, wire, begun, closed, history>>

\* The socket takes no more for three seconds: send_command_to_db returns without a
\* table and without an error, and the rest of the command stays in the buffer.
WriteBlocks ==
    /\ Asking /\ phase = "write"
    /\ asked' = asked + 1
    /\ torn' = IF torn = Nobody THEN asked + 1 ELSE torn
    /\ swallowed' = swallowed + 1
    /\ AfterNothing
    /\ UNCHANGED <<folder, numargs, foreign, taken, wire, daemon, skewed>>

WriteFails ==
    /\ Asking /\ phase = "write" /\ closed
    /\ Fail
    /\ UNCHANGED <<folder, numargs, foreign, taken, asked, torn, wire, daemon>>

Reading == Asking /\ phase # "write"
TooManyArgs == phase = "args" /\ numargs >= MaxArgs
Readable == wire # <<>> /\ Head(wire).kind # "garbled"

\* The next line, of one of these kinds, is taken off the wire.
Read(kinds) ==
    /\ Reading /\ ~TooManyArgs
    /\ Readable /\ Head(wire).kind \in kinds
    /\ wire' = Tail(wire)
    /\ foreign' = (foreign \/ Head(wire).of # asked)
    /\ UNCHANGED <<folder, taken, asked, torn, daemon>>

ReadHeader ==
    /\ phase = "header"
    /\ \/ Read({"ok"}) /\ phase' = "args"
       \/ Read(Kinds \ {"ok"}) /\ phase' = "skip"
    /\ UNCHANGED <<step, numargs, history>>

ReadArgument ==
    /\ phase = "args"
    /\ Read({"argument"})
    /\ numargs' = numargs + 1
    /\ UNCHANGED <<step, phase, history>>

\* A line without a tab.
ParseError ==
    /\ phase = "args"
    /\ Read({"ok", "text"})
    /\ Fail
    /\ UNCHANGED numargs

\* Wrong: stops reading and keeps what it has.
MaliciousTruncating ==
    /\ Reading /\ TooManyArgs
    /\ AfterTable
    /\ skewed' = (skewed \/ foreign)
    /\ UNCHANGED <<folder, numargs, foreign, taken, swallowed, asked, torn, wire, daemon>>

\* The limit is tested before the line is read, be it the terminator.
Malicious ==
    /\ Reading /\ TooManyArgs
    /\ Fail
    /\ UNCHANGED <<folder, numargs, foreign, taken, asked, torn, wire, daemon>>

EndOfTable ==
    /\ phase = "args"
    /\ Read({"done"}) /\ AfterTable /\ Answered
    /\ UNCHANGED numargs

SkipLine ==
    /\ phase = "skip"
    /\ Read(Kinds \ {"done"})
    /\ UNCHANGED <<step, phase, numargs, history>>

EndOfSkip ==
    /\ phase = "skip"
    /\ Read({"done"}) /\ AfterNothing /\ Answered
    /\ UNCHANGED numargs

\* The end of the stream, a reset, or a line that is not UTF-8, which stays there.
ReadFails ==
    /\ Reading /\ ~TooManyArgs
    /\ closed \/ (wire # <<>> /\ ~Readable)
    /\ Fail
    /\ UNCHANGED <<folder, numargs, foreign, taken, asked, torn, wire, daemon>>

NothingCame == Reading /\ ~TooManyArgs /\ wire = <<>> /\ ~closed

\* Wrong: waits for a header or a skipped line as long as it takes.
TimeoutInTableOnly ==
    /\ NothingCame /\ phase = "args"
    /\ step' = "crashed"
    /\ UNCHANGED <<folder, reader, taken, asked, torn, wire, daemon, history>>

\* Three seconds without a line.  Inside a table that case is not handled: the line
\* that was not read is terminated and compared with "done" through its NULL pointer.
Timeout ==
    /\ NothingCame
    /\ \/ /\ phase = "args"
          /\ step' = "crashed"
          /\ UNCHANGED <<phase, history>>
       \/ phase # "args" /\ Fail
    /\ UNCHANGED <<folder, numargs, foreign, taken, asked, torn, wire, daemon>>

\* The connection is dropped and another one comes about.
Reconnect ==
    /\ step = "down"
    /\ step' = "idle"
    /\ phase' = "write" /\ numargs' = 0 /\ foreign' = FALSE
    /\ asked' = 0 /\ torn' = Nobody
    /\ todo' = <<>> /\ begun' = FALSE /\ wire' = <<>> /\ closed' = FALSE
    /\ skewed' = FALSE /\ swallowed' = 0
    /\ UNCHANGED <<folder, taken>>

-----------------------------------------------------------------------------
(* The daemon. *)

Connected == step \notin {"down", "crashed"} /\ ~closed

DaemonWrites(kind) ==
    /\ Connected /\ todo # <<>> /\ Len(wire) < MaxOnWire
    /\ \/ /\ kind \in (IF begun THEN LaterLines ELSE FirstLines)
          /\ begun' = TRUE
          /\ UNCHANGED todo
       \/ /\ kind = "done" /\ begun
          /\ begun' = FALSE
          /\ todo' = Tail(todo)
    /\ wire' = Append(wire, Line(kind, Head(todo)))
    /\ UNCHANGED <<step, folder, reader, taken, asked, torn, closed, history>>

DaemonCloses ==
    /\ Connected
    /\ closed' = TRUE
    /\ UNCHANGED <<step, folder, reader, taken, asked, torn, todo, begun, wire, history>>

-----------------------------------------------------------------------------
Take ==
    \/ \E isFolder \in BOOLEAN : TakeRequest("get_emblems", isFolder)
    \/ TakeRequest("general", FALSE)

Write == WriteCommand \/ WriteBlocks \/ WriteFails

ReadOne == ReadHeader \/ ReadArgument \/ ParseError \/ Malicious \/ EndOfTable
            \/ SkipLine \/ EndOfSkip \/ ReadFails \/ Timeout

WireNext ==
    \/ Take
    \/ CheckConnection
    \/ Write
    \/ ReadOne
    \/ Reconnect
    \/ DaemonCloses
    \/ \E kind \in Kinds : DaemonWrites(kind)

WireSpec == WireInit /\ [][WireNext]_wireVars

\* Every wait of the thread has a time limit; it need not get another request.
WireFairness ==
    /\ WF_wireVars(Write \/ ReadOne)
    /\ WF_wireVars(CheckConnection)

WireFairSpec == WireSpec /\ WireFairness

-----------------------------------------------------------------------------
(* Properties. *)

(* An answer is taken for the command it was given for, as long as no failed
   exchange has been ignored on this connection: errors, limits, skipped and
   garbled lines never leave a rest behind that the next command would read. *)
AnswersMatchUnlessSwallowed == skewed => swallowed > 0

Unanswered == {todo[i] : i \in DOMAIN todo} \cup {wire[i].of : i \in DOMAIN wire}

(* How far the two sides are out of step: answers still to be read are those of
   the command being asked and of the failed exchanges that were ignored. *)
LagIsAccounted ==
    Connected => Cardinality(Unanswered)
                    <= swallowed + (IF Asking /\ phase # "write" THEN 1 ELSE 0)

(* Whatever the daemon sends or does not send, the thread gets through with the
   request in hand or gives the connection up: only the loop that skips an error
   answer has no limit, and a daemon that never ends one holds the thread there. *)
OnlyEndlessErrorsHold == Asking ~> (~Asking \/ [](Asking /\ phase = "skip"))

(* A timeout is an error like any other (265-271), also inside a table. *)
TimeoutsAreSurvived == step # "crashed"
=============================================================================
