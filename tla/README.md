# nautilus-dropbox in TLA+

A verification project for the Nautilus extension of Dropbox (`src/src/*.c`) and
for the part of the `dropbox` command line script (`src/dropbox.in`) that starts
and installs the daemon. It contains TLA+ modules translated from the source, TLC
configurations that check them on small instances, and proofs for TLAPS.

Paths below are relative to the repository's root, which is `src/` in
`PROJECT.json`; `PROJECT.json` maps every definition to the lines it models.

## 1. The system

The extension lives in the Nautilus process. It talks to the Dropbox daemon over
two Unix sockets: on `~/.dropbox/command_socket` it asks questions, on
`~/.dropbox/iface_socket` the daemon calls *hooks* in it. There are two threads: the
GLib main loop, which is Nautilus's, and the command thread.

| component | source | state | operations | interacts by |
|---|---|---|---|---|
| command client | `dropbox-command-client.c` | a thread's position, `GAsyncQueue` of requests, `command_connected` under a mutex, idle sources | request, force_reconnect; connect, pop, execute, drain, reconnect | queue (main loop to thread), idle callbacks (thread to main loop) |
| conversation | `dropbox-command-client.c` 94-520 | how far command and answer have got, the bytes in flight | send_command_to_db, receive_args_until_done, check_connection | the command socket |
| hook client | `nautilus-dropbox-hooks.c`, `async-io-coroutine.h` | watch, retry timer, `connected`, the frame being collected | try_to_connect, handle_hook_server_input, watch_killer, force_reconnect | the interface socket, connect/disconnect hooks |
| dropbox client | `dropbox-client.c` | four flags | two connect and two disconnect callbacks | callbacks of both clients, forced reconnects of the other |
| file tables | `nautilus-dropbox.c` 118-453 | two hash tables of bare pointers, weak references, signal handlers | update_file_info, changed_cb, when_file_dies, finish, shell_touch, reset_all_files | Nautilus, command client, hook client |
| emblem paths and menus | `nautilus-dropbox.c` 639-880 | `emblem_paths` under a mutex, reference counts, a reply queue per menu | get_emblem_paths_cb, on_connect, on_disconnect, add/remove_emblem_paths, get_file_items, menu_item_cb | command thread and main loop |
| `dropbox start` | `dropbox.in` | a process: deadline, polls, link query, download | start, start_dropbox, grab_link_url_if_necessary, DropboxCommand, download | pid file, command socket, `.dropbox-dist` |
| texts | `dropbox-client-util.c`, `nautilus-dropbox.c` 80-116, 455-637 | an array with a read and a write index | canonicalize_path, sanitize, parse_arg, GhettoURLDecode, parse_menu | called by the file tables, the conversation and the menus |
| other commands of the script, packaging, `rst2man.py`, data | | | | not part of the concurrent core |

What is hard in it: the main loop tests a flag, unlocks and pushes, while the thread
drains the queue and goes down; idles of one connection are dispatched when the thread
is on the next; the protocol has no message numbers, so that one ignored failure shifts
all later answers; timeouts in the middle of a line-oriented answer; four flags that
stand for the state of two connections that come and go independently; bare pointers
to objects that die, move and are superseded; handlers that run in the command thread
and share tables with the main loop; a start command that polls against a deadline while
the daemon boots, dies, or is started by somebody else.

What makes each component correct: a request has one owner and completes once, in
order, and eventually (command client); an answer is taken for the question it answers
(conversation); one lifeline of the hook connection, and whole frames only (hook
client); reports of the joint connection alternate and do not stay wrong (dropbox
client); no dangling pointers, tables that agree, statuses that belong to the name shown
(file tables); reference counts equal owners, the theme follows the answer (emblem
paths); claims that are true and a command that ends (`dropbox start`); writers that stay
inside their array, and readers that undo what the writers did (texts).

## 2. The modules

| module | models | stands on |
|---|---|---|
| `RequestService` | abstract: requests are submitted once and complete once, in order within their kind | |
| `CommandClient` | the command thread and what the main loop does to it; implements `RequestService` | `RequestService` |
| `CommandWire` | one request's conversation, which `CommandClient` takes as one step with its outcomes | |
| `HookClient` | the hook connection and the frame coroutine, a line at a time | |
| `HookFrames` | the frames of a stream by definition (a recursive function), and the properties that compare the coroutine with it | `HookClient` |
| `DropboxClient` | composition: `CommandClient` without requests, `HookClient` without frames, and the four flags | both, by `INSTANCE` |
| `FileTables` | tables, weak references, signals, requests of the files | |
| `GeneralCommands` | emblem path, menu and menu action commands, whose handlers run in the command thread | |
| `Texts` | the functions on texts, each against a definition of what it should return | |
| `StartCommand` | `dropbox start [-i]`, several at once | |
| `CommandClientProofs`, `HookClientProofs`, `FileTablesProofs`, `CommandWireProofs`, `GeneralCommandsProofs`, `StartCommandProofs`, `TextsProofs` | theorems | the module of that name |
| `DropboxClientProofs` | theorems | `DropboxClient`, and the proofs of both clients by `INSTANCE` |
| `MC...` | sets of model values and symmetry for TLC | the module of that name |

Definitions whose comment begins with "Wrong:" are plausible bugs. No specification
uses them; each shows, put in the place of the right definition, that a property can fail.

### How they correspond to the code

**CommandClient.** `pc` has one value for each point of `dropbox_command_client_thread`
at which the main loop can make a difference. `connect` is the loop at 574-661 (a
failed attempt sleeps one second), `flagUp`/`announceUp` are `SET_CONNECTED_STATE(TRUE)`
and the idle that follows it, `pop`, `check` and `exec` the service loop, `drain` is
the `BADCONNECTION` label with its `try_pop` loop, `flagDown`/`announceDown` what comes
after it. In the main loop a callback is one step, with one exception:
`update_file_info` and `force_reconnect` look at `command_connected` under the mutex and
push after the unlock, so `SeeConnected`/`ForceReconnect` and `PushAfterCheck` are two
steps, and no other callback runs between them. General commands are pushed without the
test. File info requests complete in an idle, general commands in the thread: that is
why order holds within a kind and not across. `on_connection_attempt` idles have no
registered hook and change nothing.

**CommandWire.** A line is its kind and the number of the command the daemon wrote it for, which
the thread does not see. The daemon answers commands in order, each with any lines of
which only the first may be `ok`, then `done`; it is arbitrarily slow, may close, and
sends nothing unasked. Each read waits three seconds at most (SO_RCVTIMEO). The
model keeps what the code does with `G_IO_STATUS_AGAIN`: handled while a header is
awaited and while errors are skipped, not handled inside a table. A write that blocks returns with neither table
nor error and leaves a torn command in the channel's buffer, which the next command
completes (`torn`). `get_emblems` is called with a NULL `GError **`.
SIGPIPE is taken to be ignored in the process, so that a write to a closed socket is an error.

**HookClient.** `at`, `name`, `args`, `numargs` are the coroutine's `hhsi`. Each line may be followed
by a yield. `watch_killer` (`Kill`) frees the frame, clears `connected`, runs the disconnect hooks and tries to
connect at once (`connecting`), a failed attempt arms the one-second timer.

**DropboxClient.** The operators have the names of the four callbacks. A hook disconnect may
push a reset token (two steps of the main loop); a command disconnect forces the hook
client down, which runs `hook_on_disconnect` inside it. Any connection may be lost at any
time. Two variables are history: `repeated`, that a report was the same as the one before
it, and `unpaired`, that a connection was lost that had not been reported: the client was
not reported up, or the flags held a later start or an earlier end of that connection.

**FileTables.** `filename2obj` and `obj2filename` are functions to objects or NULL.
`weak` and `handlers` count registrations, because the code adds and removes them in
several places. Nautilus is external: objects are born (perhaps at the address of a
dead one), change their path any number of times, with or without `changed`, die when no request holds
them. The module sets `dropbox_use_operation_in_progress_workaround` (`dropbox.c:41`), so
`update_file_info` reports the operation complete with the request in flight and
`update_complete` is never invoked: Nautilus has nothing to cancel and may ask again at once.
`requests` lists the status requests of an object; the command thread reads the name when it
executes the request, the main loop adds the emblems later. They join those already there
(`shown` is a set of answers) and go when Nautilus asks anew. `outrun` is history: since the
answer's name was read, Nautilus has asked again under another name, or the file, having
moved unheard, has come back to the name the tables know it by. `FreedKey` says what a lookup finds by a key that was just freed
(line 260): `"intact"`, the entry all the same, or `"garbage"`.

**GeneralCommands.** (`ActivateItem` is `menu_item_cb`: it waits for nothing, and its command's handler
`NULL` is not called.) `thread` is the position in `get_emblem_paths_cb` or
`get_file_items_callback`; tables have contents and reference counts; idles are `add`,
`remove` and `reset`; a menu has a reply queue with two owners. That requests
are answered in order is what `CommandClient` establishes. Reports of the client
connection may come at any time with respect to the handler: the main loop may lag one connection behind the thread.

**Texts.** A text is a sequence of characters, a path what `g_strsplit` makes of it.
`canonicalize_path` and `GhettoURLDecode` write an array they or a caller read from, so each turn of
their loops is a step, with C's indices; what the second returns is not its text, which is why
`CString` reads the array up to the terminator. Quoting and menus have no such aliasing and
are taken in one step, through the writer and the reader: `transmit` writes an argument as
`send_command_to_db` does and reads the line as `command_parse_arg` does, `menu` encodes a menu
as the daemon has to for the code to read it (external) and parses it as `parse_menu` does.

**StartCommand.** One automaton per command. Time is counted in poll intervals: `left` is what
remains until `startup_deadline`, `polls` the loop index of `start_dropbox`; sleeping
takes an interval or more, a query any time. The download is modelled for the dialog and
the terminal: would-block ends the terminal's loop as if the archive were complete, an early
close makes the loop spin (`stalled`), the signature is checked only if gpg or gpgme
could be imported, old files are replaced one by one. The timeout of a query is that of one
`recv`: a line that does not end holds the command (`flooded`) until the daemon dies or falls silent.
`begun` is history: the command's last launch found something to launch. The daemon is external: it boots,
writes its pid unless another one runs, listens, and may die.

## 3. What is checked

`expect: pass` runs:

| run | instance | distinct states | properties |
|---|---|---|---|
| `CommandClient` | 2+2 requests, `MaxIdles` 2, `MaxResets` 2 | 193 thousand | `OneOwner`, `CompletedInOrder`, `AnnouncementsAlternate`, `CompletionsWithinConnection`; refinement `ServiceSpec`; liveness `ServedByThisConnection`, `ForcedReconnectHappens`, `LastingStateIsAnnounced`, `EveryRequestCompletes` |
| `HookClient` | 1 hook, 2 argument lines, limit 3, 6 lines per connection | 203 thousand | `OneLifeline`, `WholeFrames`; `HangUpIsNoticed`, `HookComesBack` |
| `DropboxClient` | `MaxIdles` 4, `MaxResets` 3 | 45 thousand | `ReportsAlternateIfPaired`; `LastingOutageIsReportedIfPaired`, `LastingConnectionIsReportedIfPaired` |
| `FileTables` | 2 objects, 2 names, 2 requests in flight | 1.3 million | `NoDanglingFile`, `NameLeadsToItsFile`, `KnownFilesAreWatched`, `KnownStatusIsCurrentUnlessOutrun`; `ReachableUnlessShared` |
| `CommandWire` | 2 requests, limit 2, 3 lines on their way | 453 thousand | `AnswersMatchUnlessSwallowed`, `LagIsAccounted`; `OnlyEndlessErrorsHold` |
| `GeneralCommands` | 2 tables, 2 paths, 2 menus, 4 reports | 654 thousand | `RefsAreOwned`, `ThemeFollowsAnswer`, `ReplyQueuesEnd` |
| `Texts` | paths of up to 5 components and coded texts of up to 5 characters, lists of up to 2 values, menus of two levels | 71 thousand | `BuffersSuffice`, `CanonicalUnlessRootIsLost`, `DecodesWellFormed`, `ArgumentsComeThrough`, `MenuIsAsOffered` |
| `StartCommand` | 2 commands, 2 daemon processes, 2 polls | 940 thousand | `DoneMeansAnswered`, `GivesUpOnlyAtDeadline`, `BrokenInstallIsReported`, `InstallsOnlyAfterWholeWait`; `EveryStartEnds` |

Type invariants are checked in the runs of `CommandClient`, `HookClient` and `FileTables` and proved
in every module. Every property is paired in `PROJECT.json` with a mutation of a definition
that breaks it.

Some of these properties state an exception, because the code does not keep the plain form:

- `...IfPaired`: a connection that is lost before it was reported leaves a flag or a reset
  token behind, and what follows is not as it should be (`DropboxClientSticky`). Up to that point all
  is well, whatever the interleaving.
- `AnswersMatchUnlessSwallowed`: `get_emblems` is called with a NULL `GError **`, so that a
  failure of it is ignored and the connection kept. `LagIsAccounted` says how far answers and
  commands can then be apart: by one for each such failure.
- `OnlyEndlessErrorsHold`: the loop that skips an error answer has no limit on lines.
- `ThemeFollowsAnswer`: unless the connection was reported lost while the handler was between storing and
  scheduling (`overtaken`).
- `CanonicalUnlessRootIsLost`: a path that climbs one level above the root is not refused.
- `KnownStatusIsCurrentUnlessOutrun`: a late answer may be wrong for good if it was outrun. Request 1
  reads the name `a`; the file moves to `b`, `changed_cb` invalidates it and Nautilus asks again;
  request 1 is answered and adds `a`'s emblems, and nothing is left that would ask once more.
  `ChangeLog:180` says "no outdated dropbox status" of moves. The exception is that case and the
  move back that nothing hears of; with it dropped TLC finds this trace.
- `ReachableUnlessShared`: the comment at `nautilus-dropbox.c:226` has the tables agree, but two
  objects can go by one name. One that moved unheard onto the name of another takes the name over in
  `update_file_info` without dropping the other; when it then moves on or dies the name leads
  nowhere, and a `shell_touch` of it no longer reaches the object that has it. What is checked is
  that nothing else takes a known object out of reach.
- `InstallsOnlyAfterWholeWait`: a command waits to the deadline only for a daemon of its own launch. One
  whose launch found nothing installs at once, over a daemon that another command may have installed and
  launched meanwhile; and a daemon that is later than the deadline is installed over.
- `EveryStartEnds`: unless the download stalls or the daemon sends a line without end. `DoneMeansAnswered`: the second launch under a GUI says
  "Done!" in any case. `NoDanglingFile` and its kin: if a freed key is still found.

`expect: violation` runs, each a disagreement between the code and what a comment of it says:

| run | what TLC finds |
|---|---|
| `DropboxClientSticky` | `hook_disconnect_called`, set before the first pairing, survives the pairing; later the connection is up for good and its connect handlers have not run |
| `FileTablesFreedKey` | line 260 uses as key a string that line 259 has freed; if it is overwritten, a dead object stays in a table |
| `CommandWireTimeout` | a timeout inside a table writes through a NULL line, while 265-271 treat the same status as an error |
| `GeneralCommandsOvertaken` | the default emblem table is used after the mutex is released; a report of the loss of the connection frees it in between |

### Bounds, and why they are enough

- `MaxAttempts`: the attempt counter is only displayed; it stops at the bound. `MaxIdles`
  delays only a new connection attempt; two waiting idles suffice for the main loop to lag
  one whole connection behind, four in `DropboxClient` for it to lag two.
  `MaxResets` allows the stale token and others behind it.
- Two requests of each kind: order needs two of a kind, overtaking needs two kinds.
  Requests are finite, which the liveness properties do not profit from: a request
  behind endlessly many newer ones is still ahead of them in the queue.
- `MaxArgs` is 20 in the code: 3 in `HookClient`, 2 in `CommandWire`; answers and frames
  below, at and above the limit occur in either. `MaxOnWire` bounds what the daemon is ahead of
  the reader, not the length of an answer: a daemon that waits for room goes on later.
- `MaxSent`: six lines hold two frames, or one frame above the limit and the start of another.
- Two objects and two names give every collision of the tables: two of one name, a swap, a name reused.
  `MaxRequests` 2 is two overlapping requests of one object, or one of each; `MaxWeak` 2 the doubled
  reference that a superseded object gets.
- `MaxReports` 4: two connections come and go. Two tables: an answer and its replacement.
- `Texts`: five components give every interplay of two names, two parents and what lies between
  them (the loop looks at one component and one index); five characters hold an escape, a broken one and an escape cut
  off by the end. Values hold each character that is escaped, beside each other.
- `MaxPolls` 2 (120 in the code): seen at the first poll, at the last, not at all.
- Symmetry is used only for safety runs (`FileTables`, `GeneralCommands`).
- Deadlock is not checked where the system really may stop: no more requests on the wire,
  every start command ended, no more reports to come, a function returned. It is checked in the others.

### Fairness, and what justifies it

- The command thread is never parked for good: popping waits 100 ms, connecting is retried
  every second, reads and writes time out after three seconds (`WF(ThreadStep)`, and
  `WF` of writing and reading in `CommandWire`). A server that sends errors
  without end can hold a read loop for ever: `OnlyEndlessErrorsHold` says that nothing else can.
- GLib dispatches a ready source, and a callback that began runs to its end (`Dispatch`,
  `PushAfterCheck`, `Coroutine \/ Halt`, `TimerFires`, attempts). In `DropboxClient` the
  dispatch of command idles is strongly fair, because it is disabled while the main
  loop is inside the hook client; GLib's sources of equal priority take turns.
- `ResetsCease`: reset tokens are not pushed for ever. Each needs the hook connection to be
  lost; a hook connection that flaps for ever faster than the queue drains could keep
  one drain alive.
- `DaemonIsReached` is a premise of `EveryRequestCompletes`, not of the specification: a
  request pushed just behind the drain waits out the outage that follows. The
  comment at 723-724 says that the queue is emptied; what slips in behind it is not.
- `HookComesBack` assumes that an attempt that is made again and again succeeds again and again.
- `StartCommand`: a command's own steps are weakly fair. Its waits for the daemon have
  timeouts, except that for the end of a line and the download's; the user is assumed to answer the question of the terminal.

## 4. What is proved

TLAPS proves the following for all values of the constants that satisfy the modules' named assumptions.

**CommandClientProofs**: `TypeCorrect`, `OneOwnerHolds`, `OrderHolds`, `ImplementsService`.
`CompletedInOrder` speaks of finished requests only and is not inductive. The invariant
`IInv` follows a request on its whole way: tickets are distinct and at most `clock`; along
queue, thread's hand, waiting completions and finished requests the tickets of one kind
decrease; each pushed request is at exactly one place. Lemmas say what a push, a pop, a
completion and a dispatch do to that order (`Pushed`, `RequestTaken`, `ForemostCompleted`,
`CompletionDispatched`), and each action is one of these or moves nothing. From the
same invariant every step is a `Submit`, a `Complete` of the oldest request of its kind,
or a stutter of `RequestService`.

`AnnouncementsHold` and `CompletionsHold` rest on a second invariant, `AnnouncementsInv`: each
waiting idle fits what the main loop will believe when it is dispatched (a connect finds it
disconnected, a disconnect or a completion connected), and after the last it will believe
what the thread announced last. Lemmas say how a belief after `n` idles changes when an
idle is added or dispatched (`BelievesAppend`, `BelievesTail`).

**HookClientProofs**: `HookTypeCorrect`, `LifelineHolds`, `FramesAreWhole`. Watch, timer and attempt hand one
token to each other; the invariant adds that the coroutine runs only on a live watch. `WholeFrames` compares
the calls of a connection with a recursive function on its lines, and needs to know where in a
frame the coroutine is: `FramesInv` says that the lines read are complete frames, of which the hooks
that are registered have been called, then the name, arguments and count the coroutine has in hand.

**FileTablesProofs**: `FileTypeCorrect`, `NothingDangles`, `NamesAgree`, `KnownAreWatched`,
under the assumption `FreedKey \subseteq {"intact"}`; without it the run `FileTablesFreedKey` shows
the contrary. The three facts are inductive only together: that a name leads
to an object that knows itself by it lets `when_file_dies` find the entry to remove, and that
a known object is watched makes `when_file_dies` run at all. One lemma for each way
through `update_file_info` and `changed_cb` (`RegisterMovedKeeps`, `RegisterNewKeeps`,
`OfflineKeeps`, `MovedKeeps`) and for death (`DiesKeeps`).

`StatusIsCurrentUnlessOutrun` adds `StatusInv`: of a settled file, that is one known by the name it has and
not invalidated, every answer shown or on its way is for that name or has been outrun, or is still to be read or
without emblems. A file becomes settled only in `update_file_info`, where what was read under
another name is marked (`RequestsOnUpdate`), or by a move back to the name it is known by (`AnswersOnMove`); every
other step leaves the settled ones as they were or unsettles them.
`KnownStayInReach` needs of the invariant only that names agree: for each way through the two
handlers and for death a lemma says which names it takes away from whom.

**DropboxClientProofs**: `ReportsAlternateUntilUnpaired`, `ClientTypeCorrect`. It composes: a step of the
pair is a step or a stutter of each client (`StepOfEach`), so that each keeps the
invariant its own module proves; from there come the two facts the callbacks
rely on, that an announcement is news to the main loop (`AnnouncementsInv`) and that the hook client is connected
exactly while it has a watch (`OneLifeline`). The composition implements each of the two
(`ImplementsCommandClient`, `ImplementsHookClient`): it is `Command!Spec` and `Hook!HookSpec` for their own
variables, so that what is proved of either alone holds of the pair. `Pairing` then says what the four flags
mean: while disconnected is reported, a connect flag is set exactly while its client is
connected, and not both; while connected is reported, the command client's flags are clear
and the hook client is on the reported connection or has noted its end.

**CommandWireProofs**: `AnswersMatch`, `LagAccounted`, `WireTypeCorrect`. That answers match is not inductive;
`InStep` is: while no failed exchange has been ignored, nothing is on its way between
exchanges, and during one only the answer to the command being asked, its terminator last.
Beyond an ignored failure another invariant holds, `LagInv`. It bounds the commands whose answer is still
owed, while the thread uses the connection, by the failures ignored and the command being
asked; for that number to fall when an answer has been read, no number may come back: commands are numbered upwards, a torn
one's number is not in use yet, and an answer's terminator is the last line with its number.

**GeneralCommandsProofs**: `TablesAreOwned`, `ThemeIsOfAnswer`, `MenuQueuesEnd`, `GeneralTypeCorrect`. The count of a table is
the cardinality of a set of idles plus two owners, so there is a lemma for what appending
and removing an idle does to that set; besides, `TablesInv` and `MenusInv` say at which points the
handler has a table or a queue in hand, and that a menu's request is queued once. `ThemeInv` follows the
theme through the idles that wait (`Leads`): each adds its table to a theme without emblem paths or removes
it from one that has just these, after the last the theme has the table last scheduled,
and a reset comes after all that adds.

**StartCommandProofs**: `SaidDoneIsAnswered`, `UnavailableAtDeadline`, `InstallsAfterWait`, `BrokenInstallReported`,
`StartTypeCorrect`. Proved together (`StartInv`): a command that has said something has ended, a poll uses up
an interval of the deadline, a launch that has failed after it began did so at the deadline, what is
being unpacked is an archive.

**TextsProofs**: `IndicesStayInside`, `TextTypeCorrect`, `PathIsCanonical`, `DecodingIsRight`, `ArgumentArrives`,
`MenuArrives`, for texts, paths, lists and menus of any length. The write index of
`canonicalize_path`, one at first, is at most the read index once the first component is behind it,
because that one is empty in an absolute path and not written; that of `GhettoURLDecode` never overtakes
the read index, and what it has not read it has not overwritten. What they return follows from an
invariant for each:

- `StackInv`: the write index is the number of names read, less the parents, and one for the root; every name that no
  parent read so far takes away is at the place of its height. It says nothing of the array once the
  root has been taken away, which is why the property has an exception there.
- `DecodedInv`: what has been written, followed by the rest of the text decoded, is the whole text
  decoded, and contains no terminator.
- `TransmitInv`: the buffer is the argument's line. `LineTokens` says that the line splits at its tabs into the
  escaped key and values, `DesanitizeSanitized` that a text comes back from its escapes.
- `MenuInv`: what `get_file_items` is given is the menu's lines, and what it returns is their parse. A coded text has no
  separator in it, so a line splits into its three texts and each is decoded to what it was
  (`OptionIsParted`); the inner part of a submenu is one level of coding less, and splits into the lines of its
  leaves (`InnerIsParsed`). `parse_menu` calls itself with texts it cut out of its argument;
  that it ends is `InnerIsShorter`, and `ParseMenuUnfolds` follows from it.

The induction theorems of the library take an operator as a parameter, which no prover here can
instantiate. `Induction`, `MeasureInduction` and `SequenceInduction2` say the same of sets, from the
well-foundedness of `<`, and `RecursiveFunction` proves that a function defined by recursion on a
measure exists, so that its definition can be unfolded (`DecodedFromUnfolds`, `CompressedFromUnfolds`, `TokensUnfold` and so on).
`CharactersAreStrings` states what TLA+ has and the provers have not, that a literal is an element of `STRING`.

Every invariant a passing run checks is stated by a theorem. Only model-checked is liveness: fairness and
`ENABLED` are beyond this prover.

## 5. What is not modelled

- Allocation failure, and GLib's own behaviour beyond what is said above.
- The helper macros (`async-io-coroutine.h` is modelled where `HookClient` uses it). Of the module
  entry points only the workaround that `dropbox.c:41` sets is.
- `cancel_update` and the invocation of `update_complete`: with that workaround they are never reached.
- `dropbox_client_force_reconnect`, which nothing calls.
- Encodings: a URI has a local path or it has not (`Remote`); characters are not split into bytes.
- The other commands of the script, autostart, documentation generator, packaging, data.
- Another program's process under the stale pid in the pid file.

## 6. Plan

Done, in the order of importance: command client and its refinement; hook client;
their composition; file tables; the wire; general commands; the start command; the functions on
texts; the proofs above.

What could follow:

1. Refinement of a request's step in `CommandClient` by `CommandWire`, so that their
   composition is a theorem and not a reading.
2. `dropbox start` against the docstrings of `start` ("auto install dropboxd if not
   available", although a timeout counts as not available) and of `grab_link_url_if_necessary`
   ("transport failures are retried", although a failed write is not).
   Likewise `FileTables` against `ChangeLog:180` and the comment at 226, by runs of their own.
3. A proof of `NoDanglingFile` with less than the assumption on freed keys.
