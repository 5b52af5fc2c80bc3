----------------------------- MODULE FileTables -----------------------------
(***************************************************************************)
(* src/src/nautilus-dropbox.c: which files the extension knows.            *)
(*                                                                         *)
(* Two hash tables map names to NautilusFileInfo objects and back, so that *)
(* a shell_touch from the daemon, which names a path, can invalidate the   *)
(* object that shows it, and so that (re)connecting can invalidate all of  *)
(* them.  The tables hold bare pointers: a weak reference (when_file_dies) *)
(* takes an object out when it dies, a handler of its "changed" signal     *)
(* (changed_cb) follows it when it moves, and update_file_info repairs     *)
(* what it finds different.  A status request holds a real reference until *)
(* it is finished; the command thread reads the file's name when it        *)
(* executes it, the main loop adds the emblems later.  The extension is    *)
(* loaded with dropbox_use_operation_in_progress_workaround set            *)
(* (dropbox.c:41): update_file_info reports the operation complete while   *)
(* the request is in flight, so Nautilus has nothing to wait for or to     *)
(* cancel, and may ask again at once.                                      *)
(*                                                                         *)
(* The objects belong to Nautilus, which is modelled from how the code     *)
(* speaks of it: an object is born and dies, changes its path with or      *)
(* without emitting "changed" (comment at 256), and asks for the status of *)
(* an object whose extension information is invalid, having thrown away    *)
(* the emblems it had.                                                     *)
(***************************************************************************)
EXTENDS Naturals, Sequences, FiniteSets

CONSTANTS
    Files,      \* NautilusFileInfo objects (addresses: one may be used again)
    Names,      \* canonical local file names
    Remote,     \* a location without a local name: g_filename_from_uri gives NULL
    None,       \* NULL
    Unread,     \* the command thread has not looked at the request yet
    FreedKey,   \* what a lookup by a key that was just freed finds: "intact", the
                \* entry all the same; "garbage", nothing
    MaxRequests,    \* requests in flight
    MaxWeak         \* weak references per file

ASSUME FilesAndNames ==
    /\ None \notin Files \cup Names
    /\ Remote \notin Names \cup {None}
    /\ Unread \notin Names \cup {Remote}
ASSUME FreedKeyOutcomes == FreedKey \subseteq {"intact", "garbage"}
ASSUME FileBounds == MaxRequests \in Nat /\ MaxWeak \in Nat \ {0}

VARIABLES
    alive,          \* the objects that exist
    path,           \* where each object is: its URI (Remote if there is no object)
    filename2obj,   \* the two tables
    obj2filename,
    weak,           \* how often when_file_dies is registered on each object
    handlers,       \* how often changed_cb is connected to each object
    invalid,        \* objects Nautilus will ask about
    requests,       \* status requests in flight, in order, of each object
    shown           \* the answers whose emblems each object shows

tables == <<filename2obj, obj2filename>>
nautilus == <<alive, path>>
watching == <<weak, handlers>>
fileVars == <<alive, path, filename2obj, obj2filename, weak, handlers, invalid,
              requests, shown>>

Places == Names \cup {Remote}

\* A request and its answer: the name the command thread read; and, a history, whether
\* it has been outrun: since that name was read Nautilus has asked again under another
\* one, or the file, having moved unheard, has come back to the other name that it is
\* known by.
Requests == [name : Places \cup {Unread}, outrun : BOOLEAN]
Answers == [name : Names, outrun : BOOLEAN]

FileTypeOK ==
    /\ alive \subseteq Files
    /\ path \in [Files -> Places]
    /\ filename2obj \in [Names -> Files \cup {None}]
    /\ obj2filename \in [Files -> Names \cup {None}]
    /\ weak \in [Files -> Nat]
    /\ handlers \in [Files -> Nat]
    /\ invalid \subseteq Files
    /\ requests \in [Files -> Seq(Requests)]
    /\ shown \in [Files -> SUBSET Answers]

FileInit ==
    /\ alive = {}
    /\ path \in [Files -> {Remote}]
    /\ filename2obj = [n \in Names |-> None]
    /\ obj2filename = [f \in Files |-> None]
    /\ weak = [f \in Files |-> 0]
    /\ handlers = [f \in Files |-> 0]
    /\ invalid = {}
    /\ requests = [f \in Files |-> <<>>]
    /\ shown = [f \in Files |-> {}]

-----------------------------------------------------------------------------
(* The tables.  g_hash_table_remove of an absent key does nothing. *)

Forget(table, key) == IF key = None THEN table ELSE [table EXCEPT ![key] = None]

-----------------------------------------------------------------------------
(* nautilus_dropbox_update_file_info *)

\* g_object_weak_unref of a reference that is not there only warns.
OneLess(k) == IF k = 0 THEN 0 ELSE k - 1

\* Wrong: unregisters the old name and does not register the new one.
RegisterMovedUnwatched(f) ==
    LET stored == obj2filename[f] IN
    /\ stored \notin {None, path[f]}
    /\ filename2obj' = [Forget(filename2obj, stored) EXCEPT ![path[f]] = f]
    /\ obj2filename' = [obj2filename EXCEPT ![f] = path[f]]
    /\ weak' = [weak EXCEPT ![f] = OneLess(@)]
    /\ handlers' = [handlers EXCEPT ![f] = 0]

\* stored_filename differs: changed_cb has not heard of the move.  The table that
\* owns the stored name frees it first, the other is then searched for it.
RegisterMoved(f) ==
    LET stored == obj2filename[f] IN
    /\ stored \notin {None, path[f]}
    /\ \E outcome \in FreedKey :
          filename2obj' =
              [(IF outcome = "intact" THEN Forget(filename2obj, stored) ELSE filename2obj)
                  EXCEPT ![path[f]] = f]
    /\ obj2filename' = [obj2filename EXCEPT ![f] = path[f]]
    /\ weak' = [weak EXCEPT ![f] = OneLess(@) + 1]
    /\ handlers' = [handlers EXCEPT ![f] = 1]

\* Wrong: drops the older object from one table only.
RegisterNewKeepingOlder(f) ==
    LET older == filename2obj[path[f]] IN
    /\ obj2filename[f] = None
    /\ filename2obj' = [filename2obj EXCEPT ![path[f]] = f]
    /\ obj2filename' = [obj2filename EXCEPT ![f] = path[f]]
    /\ weak' = [g \in Files |-> (IF g = older THEN OneLess(weak[g]) ELSE weak[g])
                                    + (IF g = f THEN 1 ELSE 0)]
    /\ handlers' = [g \in Files |-> (IF g = older THEN 0 ELSE handlers[g])
                                        + (IF g = f THEN 1 ELSE 0)]

\* An object that is in no table; an older object of this name is dropped for it.
RegisterNew(f) ==
    LET older == filename2obj[path[f]] IN
    /\ obj2filename[f] = None
    /\ filename2obj' = [filename2obj EXCEPT ![path[f]] = f]
    /\ obj2filename' = [Forget(obj2filename, older) EXCEPT ![f] = path[f]]
    /\ weak' = [g \in Files |-> (IF g = older THEN OneLess(weak[g]) ELSE weak[g])
                                    + (IF g = f THEN 1 ELSE 0)]
    /\ handlers' = [g \in Files |-> (IF g = older THEN 0 ELSE handlers[g])
                                        + (IF g = f THEN 1 ELSE 0)]

Register(f) ==
    \/ RegisterMoved(f)
    \/ RegisterNew(f)
    \/ obj2filename[f] = path[f] /\ UNCHANGED <<tables, watching>>

\* Outrun, with the file known to be at p, if another name has been read.
Outrun(request, p) == [request EXCEPT !.outrun = request.name \notin {Unread, Remote, p}]

OutrunAll(queue, p) == [i \in 1..Len(queue) |-> Outrun(queue[i], p)]

InFlight == UNION {{f} \X DOMAIN requests[f] : f \in Files}

\* Disconnected, or the file is gone: no request.
MaybeRequest(f) ==
    LET earlier == OutrunAll(requests[f], path[f]) IN
    \/ /\ Cardinality(InFlight) < MaxRequests
       /\ requests' = [requests EXCEPT ![f] =
                          Append(earlier, [name |-> Unread, outrun |-> FALSE])]
    \/ requests' = [requests EXCEPT ![f] = earlier]

\* Reported complete at once, with the request in flight: nothing keeps Nautilus from
\* asking again.
UpdateFileInfo(f) ==
    /\ f \in alive \cap invalid
    /\ weak[f] < MaxWeak
    /\ \/ /\ path[f] \in Names
          /\ Register(f)
          /\ MaybeRequest(f)
       \/ /\ path[f] = Remote
          /\ UNCHANGED <<tables, watching, requests>>
    /\ invalid' = invalid \ {f}
    /\ shown' = [shown EXCEPT ![f] = {}]
    /\ UNCHANGED nautilus

-----------------------------------------------------------------------------
(* changed_cb, connected to f. *)

\* The file has no local name any more: off the tables, off the signal.
Offline(f) ==
    /\ path[f] = Remote
    /\ filename2obj' = Forget(filename2obj, obj2filename[f])
    /\ obj2filename' = [obj2filename EXCEPT ![f] = None]
    /\ weak' = [weak EXCEPT ![f] = OneLess(@)]
    /\ handlers' = [handlers EXCEPT ![f] = 0]
    /\ invalid' = invalid \cup {f}

\* Wrong: the old name keeps leading to f.
MovedKeepingOldName(f) ==
    /\ path[f] \notin {Remote, obj2filename[f]}
    /\ obj2filename' = [Forget(obj2filename, filename2obj[path[f]]) EXCEPT ![f] = path[f]]
    /\ filename2obj' = [filename2obj EXCEPT ![path[f]] = f]
    /\ invalid' = invalid \cup {f}
    /\ UNCHANGED watching

\* Wrong: does not ask whether there is a local name.
MovedUnchecked(f) ==
    /\ path[f] # obj2filename[f]
    /\ obj2filename' = [obj2filename EXCEPT ![f] = path[f]]
    /\ filename2obj' = Forget(filename2obj, obj2filename[f])
    /\ invalid' = invalid \cup {f}
    /\ UNCHANGED watching

\* Wrong: does not ask for the emblems of the new name.
MovedWithoutReset(f) ==
    LET other == Forget(filename2obj, obj2filename[f])[path[f]] IN
    /\ path[f] \notin {Remote, obj2filename[f]}
    /\ obj2filename' = Forget([obj2filename EXCEPT ![f] = path[f]], other)
    /\ filename2obj' = [Forget(filename2obj, obj2filename[f]) EXCEPT ![path[f]] = f]
    /\ UNCHANGED <<watching, invalid>>

\* f has a new name.  Another object of that name loses its mapping, but keeps its
\* weak reference and its handler.
Moved(f) ==
    LET other == Forget(filename2obj, obj2filename[f])[path[f]] IN
    /\ path[f] \notin {Remote, obj2filename[f]}
    /\ obj2filename' = Forget([obj2filename EXCEPT ![f] = path[f]], other)
    /\ filename2obj' = [Forget(filename2obj, obj2filename[f]) EXCEPT ![path[f]] = f]
    /\ invalid' = invalid \cup {f}
    /\ UNCHANGED watching

Changed(f) ==
    /\ f \in alive
    /\ handlers[f] > 0
    /\ obj2filename[f] # None
    /\ \/ Offline(f)
       \/ Moved(f)
       \/ path[f] = obj2filename[f] /\ UNCHANGED <<tables, watching, invalid>>
    /\ UNCHANGED <<nautilus, requests, shown>>

-----------------------------------------------------------------------------
(* Nautilus. *)

\* A new object, perhaps where a dead one was; Nautilus wants its status.
Birth(f, p) ==
    /\ f \notin alive
    /\ alive' = alive \cup {f}
    /\ path' = [path EXCEPT ![f] = p]
    /\ invalid' = invalid \cup {f}
    /\ UNCHANGED <<tables, watching, requests, shown>>

\* With or without a "changed" signal to follow: the handler may never hear of it.
Move(f, p) ==
    /\ f \in alive
    /\ p # path[f]
    /\ path' = [path EXCEPT ![f] = p]
    /\ \/ /\ p = obj2filename[f]
          /\ requests' = [requests EXCEPT ![f] = OutrunAll(@, p)]
          /\ shown' = [shown EXCEPT ![f] = {Outrun(answer, p) : answer \in @}]
       \/ /\ p # obj2filename[f]
          /\ UNCHANGED <<requests, shown>>
    /\ UNCHANGED <<alive, tables, watching, invalid>>

\* Wrong: forgets only one direction.
DiesLeavingName(f) ==
    /\ f \in alive
    /\ requests[f] = <<>>
    /\ alive' = alive \ {f}
    /\ obj2filename' = [obj2filename EXCEPT ![f] = None]
    /\ weak' = [weak EXCEPT ![f] = 0]
    /\ handlers' = [handlers EXCEPT ![f] = 0]
    /\ invalid' = invalid \ {f}
    /\ shown' = [shown EXCEPT ![f] = {}]
    /\ path' = [path EXCEPT ![f] = Remote]
    /\ UNCHANGED <<filename2obj, requests>>

\* The last reference goes, with when_file_dies if it is registered.
Dies(f) ==
    /\ f \in alive
    /\ requests[f] = <<>>
    /\ alive' = alive \ {f}
    /\ \/ /\ weak[f] > 0
          /\ filename2obj' = Forget(filename2obj, obj2filename[f])
          /\ obj2filename' = [obj2filename EXCEPT ![f] = None]
       \/ /\ weak[f] = 0
          /\ UNCHANGED tables
    /\ weak' = [weak EXCEPT ![f] = 0]
    /\ handlers' = [handlers EXCEPT ![f] = 0]
    /\ invalid' = invalid \ {f}
    /\ shown' = [shown EXCEPT ![f] = {}]
    /\ path' = [path EXCEPT ![f] = Remote]
    /\ UNCHANGED requests

-----------------------------------------------------------------------------
(* The requests and the daemon. *)

\* do_file_info_command, in the command thread, reads the file's location.  A
\* request dropped when the connection ends is one that FinishFileInfo finds unanswered.
ReadFileName(f, i) ==
    /\ requests[f][i].name = Unread
    /\ \A j \in 1..i - 1 : requests[f][j].name # Unread
    /\ requests' = [requests EXCEPT ![f][i].name = path[f]]
    /\ UNCHANGED <<nautilus, tables, watching, invalid, shown>>

\* nautilus_dropbox_finish_file_info_command: its emblems join those already there,
\* if the file had a local name and the daemon answered; then the reference on the file is dropped.
FinishFileInfo(f) ==
    /\ requests[f] # <<>>
    /\ LET request == Head(requests[f]) IN
          /\ request.name # Unread
          /\ \/ /\ request.name \in Names
                /\ shown' = [shown EXCEPT ![f] = @ \cup {request}]
             \/ UNCHANGED shown
    /\ requests' = [requests EXCEPT ![f] = Tail(@)]
    /\ UNCHANGED <<nautilus, tables, watching, invalid>>

\* handle_shell_touch
ShellTouch(n) ==
    /\ filename2obj[n] # None
    /\ invalid' = invalid \cup {filename2obj[n]}
    /\ UNCHANGED <<nautilus, tables, watching, requests, shown>>

\* reset_all_files, run by on_connect, on_disconnect and the emblem path answer.
ResetAllFiles ==
    /\ invalid' = invalid \cup {f \in Files : obj2filename[f] # None}
    /\ UNCHANGED <<nautilus, tables, watching, requests, shown>>

FileNext ==
    \/ \E f \in Files :
          \/ UpdateFileInfo(f)
          \/ Changed(f)
          \/ Dies(f)
          \/ FinishFileInfo(f)
          \/ \E p \in Places : Birth(f, p) \/ Move(f, p)
          \/ \E i \in DOMAIN requests[f] : ReadFileName(f, i)
    \/ \E n \in Names : ShellTouch(n)
    \/ ResetAllFiles

FileSpec == FileInit /\ [][FileNext]_fileVars

-----------------------------------------------------------------------------
(* Properties. *)

(* The tables hold no pointer to an object that has died: a shell_touch or a
   reconnect would invalidate freed memory. *)
NoDanglingFile ==
    /\ \A n \in Names : filename2obj[n] # None => filename2obj[n] \in alive
    /\ \A f \in Files : obj2filename[f] # None => f \in alive

(* What a name leads to knows itself by that name: whichever way an object leaves
   the tables (death, move, offline, a newer object), its name leaves with it. *)
NameLeadsToItsFile ==
    \A n \in Names : LET f == filename2obj[n] IN f # None => obj2filename[f] = n

(* The other direction holds until two objects share a name: a known object that its
   name leads to stays within reach of a shell_touch, unless another object goes by the
   same name or, having moved unheard, takes it over in update_file_info.  Deaths,
   moves and objects that supersede it otherwise leave neither half of an entry. *)
ReachableUnlessShared ==
    [][\A f \in Files : LET name == obj2filename'[f] IN
          name # None /\ filename2obj'[name] # f =>
              \/ obj2filename[f] = name /\ filename2obj[name] # f
              \/ \E g \in Files \ {f} :
                    \/ obj2filename[g] = name
                    \/ path[g] = name /\ obj2filename[g] # None]_tables

(* An object in the tables is watched: it cannot die or move unheard. *)
KnownFilesAreWatched ==
    \A f \in Files : obj2filename[f] # None => weak[f] > 0 /\ handlers[f] > 0

(* No known object is left with the emblems of another name, unless that answer was
   outrun: otherwise Nautilus is about to ask again, or changed_cb and update_file_info
   have still to find the move.  Moves, heard of or not, before and after the command
   thread reads the name, collisions and answers that come late do not change that;
   what Nautilus asks while an answer is on its way does. *)
KnownStatusIsCurrentUnlessOutrun ==
    \A f \in Files : \A answer \in shown[f] :
        obj2filename[f] # None /\ answer.name # path[f] /\ ~answer.outrun
            => f \in invalid \/ obj2filename[f] # path[f]
=============================================================================
