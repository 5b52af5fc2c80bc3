--------------------------- MODULE GeneralCommands ---------------------------
(***************************************************************************)
(* The commands src/src/nautilus-dropbox.c sends for itself and what their *)
(* handlers, which run in the command thread, share with the main loop.    *)
(*                                                                         *)
(* get_emblem_paths is sent whenever the client has connected.  Its        *)
(* handler keeps the answer, a reference counted table, in emblem_paths    *)
(* under a mutex and has the main loop add its paths to the icon theme;    *)
(* the next answer, or the end of the client connection, has them removed. *)
(*                                                                         *)
(* icon_overlay_context_options is sent for a context menu.  The main loop *)
(* blocks on a queue made for this one answer, for 50 ms; the handler      *)
(* pushes the answer however late it comes, and whoever drops the queue's  *)
(* last reference frees it with what is in it.  An answer that came in     *)
(* time is shown, and an item the user chooses becomes a request for       *)
(* icon_overlay_context_action, for whose answer there is no handler.      *)
(*                                                                         *)
(* The order in which requests are answered, and that each is answered     *)
(* once, is what CommandClient establishes.  Reports of the client         *)
(* connection come in any order and at any time: the thread may already be *)
(* on its next connection when the main loop hears of the end of the last. *)
(***************************************************************************)
EXTENDS Integers, Sequences, FiniteSets

CONSTANTS
    Tables,     \* the emblem path tables, one for each answer
    Paths,      \* directories with emblems
    Menus,      \* context menus, one for each time one is opened
    None,       \* NULL
    MaxReports  \* how many connects and disconnects the client reports

Commands == {"get_emblem_paths", "context_action"}
ASSUME HandlerNames ==
    /\ None \notin Tables \cup Menus
    /\ Menus \cap Tables = {} /\ Menus \cap Commands = {}
ASSUME ReportsBounded == MaxReports \in Nat

VARIABLES
    requests,   \* the command queue's share of these commands, oldest first
    thread,     \* where the command thread is: "idle", or inside a handler
    hand,       \* the table or menu the handler is about
    given,      \* that table is the daemon's answer, not the default one
    emblemPaths,    \* cvs->emblem_paths
    content,    \* [Tables -> SUBSET Paths]: the paths a table lists
    refs,       \* [Tables -> Nat]: reference counts
    used,       \* tables that have been created
    idles,      \* the idle sources waiting: [op, table]
    theme,      \* [Paths -> Nat]: how often a path is in the theme's search path
    unshown,    \* paths were added that no file has been redrawn with yet (history)
    overtaken,  \* the client connection was reported lost inside the handler (history)
    reports,    \* connects and disconnects reported so far
    asker,      \* [Menus -> what the main loop is doing about it]
    reply,      \* [Menus -> what is in its reply queue]
    queueRefs   \* [Menus -> references to its reply queue]

threadVars == <<thread, hand, given>>
emblemVars == <<emblemPaths, content, refs, used>>
mainVars == <<theme, unshown, overtaken, reports>>
menuVars == <<asker, reply, queueRefs>>
generalVars == <<requests, threadVars, emblemVars, idles, mainVars, menuVars>>

Ops == {"add", "remove", "reset"}
Idle(op, t) == [op |-> op, table |-> t]
Replies == {"nothing", "options", "empty"}

GeneralTypeOK ==
    /\ requests \in Seq(Menus \cup Commands)
    /\ thread \in {"idle", "stored", "added", "finishing", "replied"}
    /\ hand \in Tables \cup Menus \cup {None}
    /\ given \in BOOLEAN
    /\ emblemPaths \in Tables \cup {None}
    /\ content \in [Tables -> SUBSET Paths]
    /\ refs \in [Tables -> Int]
    /\ used \subseteq Tables
    /\ idles \in Seq([op : Ops, table : Tables \cup {None}])
    /\ theme \in [Paths -> Nat]
    /\ unshown \in BOOLEAN /\ overtaken \in BOOLEAN
    /\ reports \in 0..MaxReports
    /\ asker \in [Menus -> {"new", "waiting", "shown", "done"}]
    /\ reply \in [Menus -> Replies]
    /\ queueRefs \in [Menus -> Int]

GeneralInit ==
    /\ requests = <<>>
    /\ thread = "idle" /\ hand = None /\ given = FALSE
    /\ emblemPaths = None
    /\ content = [t \in Tables |-> {}] /\ refs = [t \in Tables |-> 0] /\ used = {}
    /\ idles = <<>>
    /\ theme = [p \in Paths |-> 0]
    /\ unshown = FALSE /\ overtaken = FALSE /\ reports = 0
    /\ asker = [m \in Menus |-> "new"]
    /\ reply = [m \in Menus |-> "nothing"]
    /\ queueRefs = [m \in Menus |-> 0]

-----------------------------------------------------------------------------
(* get_emblem_paths_cb, in the command thread. *)

TakeRequest ==
    /\ thread = "idle"
    /\ requests # <<>>
    /\ requests' = Tail(requests)

\* Wrong: relies on the reference of the command that is about to be freed.
StoreAnswerBorrowing(t, paths, isGiven) ==
    /\ TakeRequest /\ Head(requests) = "get_emblem_paths"
    /\ t \notin used
    /\ used' = used \cup {t}
    /\ content' = [content EXCEPT ![t] = paths]
    /\ refs' = [refs EXCEPT ![t] = 1]
    /\ idles' = IF emblemPaths = None THEN idles
                ELSE Append(idles, Idle("remove", emblemPaths))
    /\ emblemPaths' = t
    /\ thread' = "stored" /\ hand' = t /\ given' = isGiven
    /\ UNCHANGED <<mainVars, menuVars>>

\* Wrong: forgets the old paths.
StoreAnswerOverwriting(t, paths, isGiven) ==
    /\ TakeRequest /\ Head(requests) = "get_emblem_paths"
    /\ t \notin used
    /\ used' = used \cup {t}
    /\ content' = [content EXCEPT ![t] = paths]
    /\ refs' = [refs EXCEPT ![t] = IF isGiven THEN 2 ELSE 1]
    /\ emblemPaths' = t
    /\ thread' = "stored" /\ hand' = t /\ given' = isGiven
    /\ UNCHANGED <<idles, mainVars, menuVars>>

\* Up to the end of the locked section.  The daemon's table has the command's
\* reference and a new one; the default table, made here for want of an answer, has
\* the one that emblem_paths will own.
StoreAnswer(t, paths, isGiven) ==
    /\ TakeRequest /\ Head(requests) = "get_emblem_paths"
    /\ t \notin used
    /\ used' = used \cup {t}
    /\ content' = [content EXCEPT ![t] = paths]
    /\ refs' = [refs EXCEPT ![t] = IF isGiven THEN 2 ELSE 1]
    /\ idles' = IF emblemPaths = None THEN idles
                ELSE Append(idles, Idle("remove", emblemPaths))
    /\ emblemPaths' = t
    /\ thread' = "stored" /\ hand' = t /\ given' = isGiven
    /\ UNCHANGED <<mainVars, menuVars>>

ScheduleAdd ==
    /\ thread = "stored"
    /\ refs' = [refs EXCEPT ![hand] = @ + 1]
    /\ idles' = Append(idles, Idle("add", hand))
    /\ thread' = "added"
    /\ UNCHANGED <<requests, hand, given, emblemPaths, content, used, mainVars, menuVars>>

ScheduleReset ==
    /\ thread = "added"
    /\ idles' = Append(idles, Idle("reset", None))
    /\ thread' = "finishing"
    /\ UNCHANGED <<requests, hand, given, emblemVars, mainVars, menuVars>>

\* finish_general_command drops the command's reference on the response.
FinishGeneral ==
    /\ thread = "finishing"
    /\ refs' = IF given THEN [refs EXCEPT ![hand] = @ - 1] ELSE refs
    /\ thread' = "idle" /\ hand' = None /\ given' = FALSE
    /\ UNCHANGED <<requests, emblemPaths, content, used, idles, mainVars, menuVars>>

-----------------------------------------------------------------------------
(* get_file_items_callback, in the command thread. *)

\* A request without an answer gets an empty table.
ReplyToMenu(m, answer) ==
    /\ TakeRequest /\ Head(requests) = m
    /\ answer \in Replies \ {"nothing"}
    /\ reply' = [reply EXCEPT ![m] = answer]
    /\ thread' = "replied" /\ hand' = m
    /\ UNCHANGED <<given, emblemVars, idles, mainVars, asker, queueRefs>>

\* The queue goes with its last reference, and the answer nobody took with it.
DropQueue(m) ==
    /\ queueRefs' = [queueRefs EXCEPT ![m] = @ - 1]
    /\ reply' = IF queueRefs[m] = 1 THEN [reply EXCEPT ![m] = "nothing"] ELSE reply

LeaveReply ==
    /\ thread = "replied"
    /\ DropQueue(hand)
    /\ thread' = "idle" /\ hand' = None
    /\ UNCHANGED <<requests, given, emblemVars, idles, mainVars, asker>>

\* A context action has no handler: finish_general_command only frees it.
FinishAction ==
    /\ TakeRequest /\ Head(requests) = "context_action"
    /\ UNCHANGED <<threadVars, emblemVars, idles, mainVars, menuVars>>

-----------------------------------------------------------------------------
(* The main loop.  While it waits for a menu's reply nothing else runs in it. *)

MainFree == \A m \in Menus : asker[m] # "waiting"

\* on_connect: reset_all_files, ask for the emblem paths.
OnConnect ==
    /\ MainFree /\ reports < MaxReports
    /\ reports' = reports + 1
    /\ requests' = Append(requests, "get_emblem_paths")
    /\ unshown' = FALSE
    /\ UNCHANGED <<threadVars, emblemVars, idles, theme, overtaken, menuVars>>

\* on_disconnect: reset_all_files, give the table (NULL, perhaps) to its removal.
OnDisconnect ==
    /\ MainFree /\ reports < MaxReports
    /\ reports' = reports + 1
    /\ idles' = Append(idles, Idle("remove", emblemPaths))
    /\ emblemPaths' = None
    /\ unshown' = FALSE
    /\ overtaken' = (overtaken \/ thread = "stored")
    /\ UNCHANGED <<requests, threadVars, content, refs, used, theme, menuVars>>

AddEmblemPaths(t) ==
    /\ theme' = [p \in Paths |-> theme[p] + (IF p \in content[t] THEN 1 ELSE 0)]
    /\ refs' = [refs EXCEPT ![t] = @ - 1]
    /\ unshown' = TRUE

\* Every occurrence of a path goes.  There is nothing to do for NULL.
RemoveEmblemPaths(t) ==
    /\ IF t = None THEN UNCHANGED <<theme, refs>>
       ELSE /\ theme' = [p \in Paths |-> IF p \in content[t] THEN 0 ELSE theme[p]]
            /\ refs' = [refs EXCEPT ![t] = @ - 1]
    /\ UNCHANGED unshown

ResetAllFiles == unshown' = FALSE /\ UNCHANGED <<theme, refs>>

DispatchIdle ==
    /\ MainFree /\ idles # <<>>
    /\ idles' = Tail(idles)
    /\ LET idle == Head(idles) IN
          \/ idle.op = "add" /\ AddEmblemPaths(idle.table)
          \/ idle.op = "remove" /\ RemoveEmblemPaths(idle.table)
          \/ idle.op = "reset" /\ ResetAllFiles
    /\ UNCHANGED <<requests, threadVars, emblemPaths, content, used, overtaken, reports,
                   menuVars>>

\* nautilus_dropbox_get_file_items up to the wait: one reference to the queue is the
\* caller's, the other goes with the command.
AskForMenu(m) ==
    /\ MainFree /\ asker[m] = "new"
    /\ asker' = [asker EXCEPT ![m] = "waiting"]
    /\ queueRefs' = [queueRefs EXCEPT ![m] = 2]
    /\ requests' = Append(requests, m)
    /\ UNCHANGED <<threadVars, emblemVars, idles, mainVars, reply>>

\* Wrong: after a timeout the queue is left to the handler.
LeaveMenuForgetting(m) ==
    /\ asker[m] = "waiting"
    /\ asker' = [asker EXCEPT ![m] = "done"]
    /\ \/ reply[m] # "nothing" /\ DropQueue(m)
       \/ reply[m] = "nothing" /\ UNCHANGED <<queueRefs, reply>>
    /\ UNCHANGED <<requests, threadVars, emblemVars, idles, mainVars>>

\* The reply is popped, or 50 ms have passed without one; the caller's reference goes.
LeaveMenu(m) ==
    /\ asker[m] = "waiting"
    /\ asker' = [asker EXCEPT ![m] = IF reply[m] = "options" THEN "shown" ELSE "done"]
    /\ queueRefs' = [queueRefs EXCEPT ![m] = @ - 1]
    /\ reply' = [reply EXCEPT ![m] = "nothing"]
    /\ UNCHANGED <<requests, threadVars, emblemVars, idles, mainVars>>

\* menu_item_cb: one of the menu's items is chosen, and the menu closes.
ActivateItem(m) ==
    /\ MainFree /\ asker[m] = "shown"
    /\ asker' = [asker EXCEPT ![m] = "done"]
    /\ requests' = Append(requests, "context_action")
    /\ UNCHANGED <<threadVars, emblemVars, idles, mainVars, reply, queueRefs>>

-----------------------------------------------------------------------------
Handler ==
    \/ \E t \in Tables, paths \in SUBSET Paths, isGiven \in BOOLEAN :
          StoreAnswer(t, paths, isGiven)
    \/ ScheduleAdd \/ ScheduleReset \/ FinishGeneral
    \/ \E m \in Menus, answer \in Replies : ReplyToMenu(m, answer)
    \/ LeaveReply \/ FinishAction

MainLoop ==
    \/ OnConnect \/ OnDisconnect
    \/ DispatchIdle
    \/ \E m \in Menus : AskForMenu(m) \/ LeaveMenu(m) \/ ActivateItem(m)

GeneralNext == Handler \/ MainLoop

GeneralSpec == GeneralInit /\ [][GeneralNext]_generalVars

-----------------------------------------------------------------------------
(* Properties. *)

IdlesWith(t) == {i \in DOMAIN idles : idles[i].table = t}

(* A table's reference count is the number of its owners: emblem_paths, the idles
   it waits in, and the command until it is finished.  Fewer would free it under an
   owner, more would leak it; answers, replacements and losses interleave freely. *)
RefsAreOwned ==
    \A t \in Tables :
        refs[t] = (IF emblemPaths = t THEN 1 ELSE 0)
                    + Cardinality(IdlesWith(t))
                    + (IF hand = t /\ given THEN 1 ELSE 0)

(* Once everything scheduled has run, the icon theme has the paths of the answer
   that is kept, each once, and no others: unless the connection was reported lost
   while the handler had stored its answer and not scheduled its paths.  Paths that
   were added reach the screen: a reset of all files follows them. *)
ThemeFollowsAnswer ==
    /\ idles = <<>> /\ thread = "idle" /\ ~overtaken =>
          theme = [p \in Paths |->
                      IF emblemPaths # None /\ p \in content[emblemPaths] THEN 1 ELSE 0]
    /\ unshown => thread = "added" \/ \E i \in DOMAIN idles : idles[i].op = "reset"

(* A reply queue lives exactly as long as the main loop waits on it or its command
   is still to be answered, and no answer outlives it: a late answer is freed. *)
ReplyQueuesEnd ==
    \A m \in Menus :
        /\ queueRefs[m] = (IF asker[m] = "waiting" THEN 1 ELSE 0)
                + (IF hand = m \/ \E i \in DOMAIN requests : requests[i] = m THEN 1 ELSE 0)
        /\ queueRefs[m] = 0 => reply[m] = "nothing"

(* The comment at 846: the handler's table must not be deleted while it is still
   at work with it. *)
TableInUseIsAlive == thread = "stored" => refs[hand] > 0
=============================================================================
