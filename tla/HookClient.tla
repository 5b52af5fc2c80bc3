----------------------------- MODULE HookClient -----------------------------
(***************************************************************************)
(* The hook client of src/src/nautilus-dropbox-hooks.c: a connection to    *)
(* the daemon's iface_socket that lives in the GLib main loop.  The daemon *)
(* writes frames                                                           *)
(*                    name, argument line*, "done"                         *)
(* and handle_hook_server_input, a coroutine resumed whenever a line has   *)
(* arrived, collects one frame and calls the hook registered for its name. *)
(* When the coroutine returns FALSE or the watch is removed, watch_killer  *)
(* runs and tries to connect again at once; a failed attempt arms a timer  *)
(* for the next one.                                                       *)
(*                                                                         *)
(* A line is one of a few kinds: Hooks are the names in the dispatch       *)
(* table, Args are lines with a tab (command_parse_arg accepts them and    *)
(* stores them under their key), "done" is the terminator.  In the place   *)
(* of an argument a line without a tab is a parse error; in the place of a *)
(* name any line is a name, known or not.                                  *)
(***************************************************************************)
EXTENDS Naturals, Sequences

CONSTANTS
    Hooks,      \* names in dispatch_table (the code registers "shell_touch")
    Args,       \* argument lines, each standing for its key
    NoName,     \* NULL
    MaxArgs,    \* 20 in the code: so many argument lines look malicious
    MaxSent     \* how many lines the daemon sends on one connection

ASSUME LinesAreDistinct ==
    Hooks \cap Args = {} /\ "done" \notin Hooks \cup Args /\ NoName \notin Hooks \cup Args
ASSUME HookBounds == MaxArgs \in Nat \ {0} /\ MaxSent \in Nat

Lines == Hooks \cup Args \cup {"done"}

VARIABLES
    watches,        \* how many watches on the channel are live (event_source)
    timers,         \* how many try_to_connect timeout sources are pending
    connecting,     \* the main loop is about to call try_to_connect itself, at
                    \* start or at the end of watch_killer
    hookConnected,  \* hookserv->connected
    at,             \* hhsi.line: the read the coroutine resumes at, "name" or "arg"
    name,           \* hhsi.command_name, or NoName
    args,           \* hhsi.command_args: the keys collected
    numargs,        \* hhsi.numargs
    wire,           \* lines the daemon has sent and the channel has not returned
    hungUp,         \* the daemon's end of the connection is closed
    sent,           \* history: every line of this connection
    dispatched      \* history: <<name, args>> of the hooks called on this connection

coroutine == <<at, name, args, numargs>>
connection == <<wire, hungUp, sent, dispatched>>
hookVars == <<watches, timers, connecting, hookConnected, at, name, args, numargs,
              wire, hungUp, sent, dispatched>>

HookTypeOK ==
    /\ watches \in Nat
    /\ timers \in Nat
    /\ connecting \in BOOLEAN
    /\ hookConnected \in BOOLEAN
    /\ at \in {"name", "arg"}
    /\ name \in Lines \cup {NoName}
    /\ args \in SUBSET Args
    /\ numargs \in Nat
    /\ wire \in Seq(Lines)
    /\ hungUp \in BOOLEAN
    /\ sent \in Seq(Lines)
    /\ dispatched \in Seq(Hooks \X SUBSET Args)

\* nautilus_dropbox_hooks_setup, then nautilus_dropbox_hooks_start.
HookInit ==
    /\ watches = 0 /\ timers = 0 /\ connecting = TRUE
    /\ hookConnected = FALSE
    /\ at = "name" /\ name = NoName /\ args = {} /\ numargs = 0
    /\ wire = <<>> /\ hungUp = TRUE /\ sent = <<>> /\ dispatched = <<>>

-----------------------------------------------------------------------------
(* try_to_connect *)

\* The one-second timer fires; try_to_connect returns FALSE, which removes it.
TimerFires ==
    /\ ~connecting /\ timers > 0
    /\ timers' = timers - 1
    /\ connecting' = TRUE
    /\ UNCHANGED <<watches, hookConnected, coroutine, connection>>

\* Wrong: the coroutine resumes where the last connection left it.
AttemptOkResuming ==
    /\ connecting
    /\ connecting' = FALSE
    /\ watches' = watches + 1
    /\ hookConnected' = TRUE
    /\ wire' = <<>> /\ hungUp' = FALSE /\ sent' = <<>> /\ dispatched' = <<>>
    /\ UNCHANGED <<timers, coroutine>>

AttemptOk ==
    /\ connecting
    /\ connecting' = FALSE
    /\ watches' = watches + 1
    /\ hookConnected' = TRUE
    /\ at' = "name" /\ name' = NoName /\ args' = {}
    /\ wire' = <<>> /\ hungUp' = FALSE /\ sent' = <<>> /\ dispatched' = <<>>
    /\ UNCHANGED <<timers, numargs>>

AttemptFail ==
    /\ connecting
    /\ connecting' = FALSE
    /\ timers' = timers + 1
    /\ UNCHANGED <<watches, hookConnected, coroutine, connection>>

-----------------------------------------------------------------------------
(* watch_killer, up to and including the disconnect hooks. *)

\* Wrong: also arms the retry timer.
KillArmingTimer ==
    /\ watches' = watches - 1
    /\ timers' = timers + 1
    /\ connecting' = TRUE
    /\ hookConnected' = FALSE
    /\ name' = NoName /\ args' = {}
    /\ UNCHANGED <<at, numargs, connection>>

\* Wrong: leaves it to someone else to connect again.
KillForGood ==
    /\ watches' = watches - 1
    /\ hookConnected' = FALSE
    /\ name' = NoName /\ args' = {}
    /\ UNCHANGED <<timers, connecting, at, numargs, connection>>

\* Frees the frame under construction and drops the channel.
Kill ==
    /\ watches' = watches - 1
    /\ connecting' = TRUE
    /\ hookConnected' = FALSE
    /\ name' = NoName /\ args' = {}
    /\ UNCHANGED <<timers, at, numargs, connection>>

\* nautilus_dropbox_hooks_force_reconnect, in the main loop: g_source_remove runs watch_killer.
HookForceReconnect ==
    \/ hookConnected /\ Kill
    \/ ~hookConnected /\ UNCHANGED hookVars

-----------------------------------------------------------------------------
(* handle_hook_server_input, one line at a time: between two lines the    *)
(* coroutine may have found the channel empty and yielded.                *)

\* The channel's watch fires, and no other main-loop callback is running.
Resumed == watches > 0 /\ ~connecting

\* A name: any line will do.
ReadName ==
    /\ Resumed /\ at = "name" /\ wire # <<>>
    /\ wire' = Tail(wire)
    /\ name' = Head(wire)
    /\ args' = {} /\ numargs' = 0
    /\ at' = "arg"
    /\ UNCHANGED <<watches, timers, connecting, hookConnected, hungUp, sent, dispatched>>

\* Wrong: stores whatever comes, however much it is.
ReadArgUnchecked ==
    /\ Resumed /\ at = "arg" /\ wire # <<>>
    /\ wire' = Tail(wire)
    /\ args' = args \cup {Head(wire)}
    /\ numargs' = numargs + 1
    /\ UNCHANGED <<watches, timers, connecting, hookConnected, at, name, hungUp, sent, dispatched>>

\* An argument that leaves room for another line.
ReadArg ==
    /\ Resumed /\ at = "arg" /\ wire # <<>>
    /\ Head(wire) \in Args
    /\ numargs + 1 < MaxArgs
    /\ wire' = Tail(wire)
    /\ args' = args \cup {Head(wire)}
    /\ numargs' = numargs + 1
    /\ UNCHANGED <<watches, timers, connecting, hookConnected, at, name, hungUp, sent, dispatched>>

\* The terminator: call the hook if there is one, start over.
ReadDone ==
    /\ Resumed /\ at = "arg" /\ wire # <<>>
    /\ Head(wire) = "done"
    /\ wire' = Tail(wire)
    /\ \/ /\ name \in Hooks
          /\ dispatched' = Append(dispatched, <<name, args>>)
       \/ /\ name \notin Hooks
          /\ UNCHANGED dispatched
    /\ at' = "name" /\ name' = NoName /\ args' = {} /\ numargs' = 0
    /\ UNCHANGED <<watches, timers, connecting, hookConnected, hungUp, sent>>

\* Wrong: waits for more after the end of the stream.
MustHaltOnLineOnly ==
    /\ at = "arg" /\ wire # <<>>
    /\ \/ Head(wire) \notin Args \cup {"done"}
       \/ Head(wire) \in Args /\ numargs + 1 >= MaxArgs

\* CRHALT: a line that does not parse, the argument that reaches the limit,
\* the end of the stream.
MustHalt ==
    \/ /\ at = "arg" /\ wire # <<>>
       /\ \/ Head(wire) \notin Args \cup {"done"}
          \/ Head(wire) \in Args /\ numargs + 1 >= MaxArgs
    \/ wire = <<>> /\ hungUp

Halt == Resumed /\ MustHalt /\ Kill

\* G_IO_STATUS_ERROR may strike any read.
ReadError == Resumed /\ Kill

-----------------------------------------------------------------------------
(* The daemon. *)

DaemonSend(line) ==
    /\ hookConnected /\ ~hungUp
    /\ Len(sent) < MaxSent
    /\ wire' = Append(wire, line)
    /\ sent' = Append(sent, line)
    /\ UNCHANGED <<watches, timers, connecting, hookConnected, coroutine, hungUp, dispatched>>

DaemonHangUp ==
    /\ hookConnected /\ ~hungUp
    /\ hungUp' = TRUE
    /\ UNCHANGED <<watches, timers, connecting, hookConnected, coroutine, wire, sent, dispatched>>

-----------------------------------------------------------------------------
Coroutine == ReadName \/ ReadArg \/ ReadDone
Attempt == TimerFires \/ AttemptOk \/ AttemptFail
Daemon == DaemonHangUp \/ \E line \in Lines : DaemonSend(line)

\* HookForceReconnect is called by the owner of the connection, at any time.
HookNext ==
    \/ Coroutine
    \/ Halt
    \/ ReadError
    \/ Attempt
    \/ Daemon
    \/ ~connecting /\ HookForceReconnect

HookSpec == HookInit /\ [][HookNext]_hookVars

\* GLib dispatches a ready source, and an attempt ends within its second.
HookFairness ==
    /\ WF_hookVars(Coroutine \/ Halt)
    /\ WF_hookVars(TimerFires)
    /\ WF_hookVars(AttemptOk \/ AttemptFail)

HookFairSpec == HookSpec /\ HookFairness
HookReachableSpec == HookFairSpec /\ SF_hookVars(AttemptOk)

-----------------------------------------------------------------------------
(* Properties. *)

(* There is exactly one thing that keeps the hook connection going: the watch of
   a live connection, a pending retry timer, or an attempt in progress.  None
   would mean no reconnect ever, two would mean connections overwriting each
   other's channel and coroutine state; the retry path, watch_killer and
   force_reconnect all hand this role over. *)
OneLifeline ==
    /\ watches + timers + (IF connecting THEN 1 ELSE 0) = 1
    /\ hookConnected <=> watches = 1

(* The end of the stream is noticed and leads to a new attempt, even when it
   comes in the middle of a frame. *)
HangUpIsNoticed == hungUp /\ hookConnected ~> connecting

(* Given a daemon that can be reached again and again, the hook connection
   always comes back. *)
HookComesBack == ~hookConnected ~> hookConnected
=============================================================================
