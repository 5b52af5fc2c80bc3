-------------------------- MODULE FileTablesProofs --------------------------
(***************************************************************************)
(* The two tables of FileTables lead to no dead object and agree with each *)
(* other, for any number of objects, names and requests, provided that a   *)
(* key that was just freed is still found (the FreedKey outcome "intact"). *)
(* The three facts need each other: that a name leads to an object that    *)
(* knows itself by it is what lets when_file_dies find the entry, and that *)
(* a known object is watched is what makes it run at all.                  *)
(***************************************************************************)
EXTENDS FileTables, TLAPS

TablesAgree == NoDanglingFile /\ NameLeadsToItsFile /\ KnownFilesAreWatched

FileInv == FileTypeOK /\ TablesAgree

-----------------------------------------------------------------------------
\* NULL is neither a name nor an object.
LEMMA TableTypes ==
    ASSUME FileTypeOK
    PROVE  /\ filename2obj \in [Names -> Files \cup {None}] /\ None \notin Names
           /\ obj2filename \in [Files -> Names \cup {None}] /\ None \notin Files
BY FilesAndNames DEF FileTypeOK

-----------------------------------------------------------------------------
(* Requests and answers. *)

\* An answer that may stay with a file known to be at p.
Fits(answer, p) == answer.name \in {Unread, Remote, p} \/ answer.outrun

LEMMA OutrunFits ==
    ASSUME NEW p
    PROVE  /\ \A r \in Requests : Outrun(r, p) \in Requests /\ Fits(Outrun(r, p), p)
           /\ \A r \in Answers : Outrun(r, p) \in Answers /\ Fits(Outrun(r, p), p)
<1>1. ASSUME NEW N, NEW r \in [name : N, outrun : BOOLEAN],
             NEW s, s = [r EXCEPT !.outrun = r.name \notin {Unread, Remote, p}]
      PROVE  /\ s \in [name : N, outrun : BOOLEAN]
             /\ s.name \in {Unread, Remote, p} \/ s.outrun
  <2>1. s.name = r.name /\ s.outrun = (r.name \notin {Unread, Remote, p})
    BY <1>1
  <2> QED BY <1>1, <2>1
<1> QED BY <1>1 DEF Requests, Answers, Outrun, Fits

LEMMA OutrunAllFits ==
    ASSUME NEW queue \in Seq(Requests), NEW p
    PROVE  /\ OutrunAll(queue, p) \in Seq(Requests)
           /\ \A i \in DOMAIN OutrunAll(queue, p) : Fits(OutrunAll(queue, p)[i], p)
<1>1. \A i \in 1..Len(queue) : queue[i] \in Requests
  OBVIOUS
<1>2. \A i \in 1..Len(queue) :
          Outrun(queue[i], p) \in Requests /\ Fits(Outrun(queue[i], p), p)
  BY <1>1, OutrunFits
<1>3. Len(queue) \in Nat
  OBVIOUS
<1>4. OutrunAll(queue, p) \in [1..Len(queue) -> Requests]
  BY <1>2 DEF OutrunAll
<1>5. \A i \in 1..Len(queue) : OutrunAll(queue, p)[i] = Outrun(queue[i], p)
  BY DEF OutrunAll
<1> QED BY <1>2, <1>3, <1>4, <1>5

\* Whatever update_file_info leaves in flight fits the name it has found.
LEMMA RequestsOnUpdate ==
    ASSUME FileTypeOK, NEW f \in Files, UpdateFileInfo(f)
    PROVE  /\ requests' \in [Files -> Seq(Requests)]
           /\ \A g \in Files \ {f} : requests'[g] = requests[g]
           /\ path[f] \in Names =>
                \A i \in DOMAIN requests'[f] : Fits(requests'[f][i], path[f])
<1> DEFINE earlier == OutrunAll(requests[f], path[f])
<1> DEFINE fresh == [name |-> Unread, outrun |-> FALSE]
<1>1. /\ requests \in [Files -> Seq(Requests)]
      /\ requests[f] \in Seq(Requests)
  BY DEF FileTypeOK
<1>2. earlier \in Seq(Requests) /\ \A i \in DOMAIN earlier : Fits(earlier[i], path[f])
  BY <1>1, OutrunAllFits
<1>3. fresh \in Requests /\ Fits(fresh, path[f])
  BY DEF Requests, Fits
<1>4. \/ path[f] \in Names /\ requests' = [requests EXCEPT ![f] = Append(earlier, fresh)]
      \/ path[f] \in Names /\ requests' = [requests EXCEPT ![f] = earlier]
      \/ path[f] = Remote /\ requests' = requests
  BY DEF UpdateFileInfo, MaybeRequest
<1> HIDE DEF earlier, fresh
<1>5. /\ Append(earlier, fresh) \in Seq(Requests)
      /\ \A i \in DOMAIN Append(earlier, fresh) :
            \/ Append(earlier, fresh)[i] = fresh
            \/ i \in DOMAIN earlier /\ Append(earlier, fresh)[i] = earlier[i]
  BY <1>2, <1>3
<1>6. \A i \in DOMAIN Append(earlier, fresh) : Fits(Append(earlier, fresh)[i], path[f])
  BY <1>2, <1>3, <1>5
<1>7. CASE requests' = [requests EXCEPT ![f] = Append(earlier, fresh)]
  BY <1>1, <1>5, <1>6, <1>7
<1>8. CASE requests' = [requests EXCEPT ![f] = earlier]
  BY <1>1, <1>2, <1>8
<1>9. CASE path[f] = Remote /\ requests' = requests
  BY <1>1, <1>9, FilesAndNames
<1> QED BY <1>4, <1>7, <1>8, <1>9

\* A file that comes back unheard leaves nothing but what fits the name it is known by.
LEMMA AnswersOnMove ==
    ASSUME FileTypeOK, NEW f \in Files, NEW p \in Places, Move(f, p)
    PROVE  /\ requests' \in [Files -> Seq(Requests)] /\ shown' \in [Files -> SUBSET Answers]
           /\ \A g \in Files \ {f} : requests'[g] = requests[g] /\ shown'[g] = shown[g]
           /\ p = obj2filename[f] =>
                /\ \A i \in DOMAIN requests'[f] : Fits(requests'[f][i], p)
                /\ \A answer \in shown'[f] : Fits(answer, p)
<1>1. /\ requests \in [Files -> Seq(Requests)] /\ shown \in [Files -> SUBSET Answers]
      /\ requests[f] \in Seq(Requests) /\ shown[f] \subseteq Answers
  BY DEF FileTypeOK
<1> DEFINE queue == OutrunAll(requests[f], p)
<1> DEFINE answers == {Outrun(answer, p) : answer \in shown[f]}
<1>2. queue \in Seq(Requests) /\ \A i \in DOMAIN queue : Fits(queue[i], p)
  BY <1>1, OutrunAllFits
<1>3. answers \subseteq Answers /\ \A answer \in answers : Fits(answer, p)
  BY <1>1, OutrunFits
<1>4. \/ /\ requests' = [requests EXCEPT ![f] = queue]
         /\ shown' = [shown EXCEPT ![f] = answers]
      \/ p # obj2filename[f] /\ UNCHANGED <<requests, shown>>
  BY DEF Move
<1> HIDE DEF queue, answers
<1> QED BY <1>1, <1>2, <1>3, <1>4

LEMMA ReadEdit ==
    ASSUME FileTypeOK, NEW f \in Files, NEW i \in DOMAIN requests[f], ReadFileName(f, i)
    PROVE  /\ requests' \in [Files -> Seq(Requests)]
           /\ \A g \in Files \ {f} : requests'[g] = requests[g]
           /\ DOMAIN requests'[f] = DOMAIN requests[f]
           /\ requests'[f][i].name = path[f]
           /\ \A k \in DOMAIN requests[f] \ {i} : requests'[f][k] = requests[f][k]
<1>1. /\ requests \in [Files -> Seq(Requests)] /\ path[f] \in Places
      /\ requests[f] \in Seq(Requests)
  BY DEF FileTypeOK
<1>2. requests[f][i] \in Requests
  BY <1>1
<1> DEFINE named == [requests[f][i] EXCEPT !.name = path[f]]
<1>3. named \in Requests /\ named.name = path[f]
  BY <1>1, <1>2 DEF Requests
<1>4. requests' = [requests EXCEPT ![f] = [requests[f] EXCEPT ![i] = named]]
  BY <1>1 DEF ReadFileName
<1> HIDE DEF named
<1>5. [requests[f] EXCEPT ![i] = named] \in Seq(Requests)
  BY <1>1, <1>3
<1> QED BY <1>1, <1>3, <1>4, <1>5

\* Of what is in flight the head leaves; it may come to be shown.
LEMMA FinishEdit ==
    ASSUME FileTypeOK, NEW f \in Files, FinishFileInfo(f)
    PROVE  /\ requests' \in [Files -> Seq(Requests)] /\ shown' \in [Files -> SUBSET Answers]
           /\ \A g \in Files \ {f} : requests'[g] = requests[g] /\ shown'[g] = shown[g]
           /\ \A k \in DOMAIN requests'[f] :
                 \E j \in DOMAIN requests[f] : requests'[f][k] = requests[f][j]
           /\ \A answer \in shown'[f] :
                 answer \in shown[f] \/ \E j \in DOMAIN requests[f] : answer = requests[f][j]
<1>1. /\ requests \in [Files -> Seq(Requests)] /\ shown \in [Files -> SUBSET Answers]
      /\ requests[f] \in Seq(Requests) /\ requests[f] # <<>>
  BY DEF FileTypeOK, FinishFileInfo
<1> DEFINE head == Head(requests[f])
<1> DEFINE rest == Tail(requests[f])
<1>2. /\ head \in Requests /\ 1 \in DOMAIN requests[f] /\ head = requests[f][1]
  BY <1>1
<1>3. /\ rest \in Seq(Requests)
      /\ \A k \in DOMAIN rest : k + 1 \in DOMAIN requests[f] /\ rest[k] = requests[f][k + 1]
  BY <1>1
<1>4. /\ requests' = [requests EXCEPT ![f] = rest]
      /\ \/ head.name \in Names /\ shown' = [shown EXCEPT ![f] = @ \cup {head}]
         \/ shown' = shown
  BY DEF FinishFileInfo
<1>5. head.name \in Names => head \in Answers
  BY <1>2 DEF Requests, Answers
<1> HIDE DEF head, rest
<1>6. /\ requests'[f] = rest
      /\ requests' \in [Files -> Seq(Requests)]
      /\ \A g \in Files \ {f} : requests'[g] = requests[g]
  BY <1>1, <1>3, <1>4
<1>7. /\ shown' \in [Files -> SUBSET Answers]
      /\ shown'[f] \subseteq shown[f] \cup {head}
      /\ \A g \in Files \ {f} : shown'[g] = shown[g]
  BY <1>1, <1>4, <1>5
<1> QED BY <1>2, <1>3, <1>6, <1>7

-----------------------------------------------------------------------------
(* update_file_info *)

LEMMA RegisterMovedKeeps ==
    ASSUME FreedKey \subseteq {"intact"}, FileInv, NEW f \in alive, path[f] \in Names,
           RegisterMoved(f), UNCHANGED alive
    PROVE  /\ filename2obj' \in [Names -> Files \cup {None}]
           /\ obj2filename' \in [Files -> Names \cup {None}]
           /\ weak' \in [Files -> Nat] /\ handlers' \in [Files -> Nat]
           /\ TablesAgree'
<1>0. f \in Files /\ obj2filename[f] \in Names /\ obj2filename[f] # path[f]
  BY DEF FileInv, FileTypeOK, RegisterMoved
<1> DEFINE cleaned == Forget(filename2obj, obj2filename[f])
<1>1. /\ cleaned \in [Names -> Files \cup {None}]
      /\ \A n \in Names : cleaned[n] = IF n = obj2filename[f] THEN None ELSE filename2obj[n]
  BY <1>0, TableTypes DEF Forget, FileInv
<1> HIDE DEF cleaned
<1>2. filename2obj' = [cleaned EXCEPT ![path[f]] = f]
  BY DEF RegisterMoved, cleaned
<1>3. obj2filename' = [obj2filename EXCEPT ![f] = path[f]]
  BY DEF RegisterMoved
<1>4. /\ weak' \in [Files -> Nat] /\ handlers' \in [Files -> Nat]
      /\ weak'[f] > 0 /\ handlers'[f] > 0
      /\ \A g \in Files \ {f} : weak'[g] = weak[g] /\ handlers'[g] = handlers[g]
  BY <1>0 DEF RegisterMoved, OneLess, FileInv, FileTypeOK
<1>5. /\ filename2obj' \in [Names -> Files \cup {None}]
      /\ obj2filename' \in [Files -> Names \cup {None}]
  BY <1>0, <1>1, <1>2, <1>3 DEF FileInv, FileTypeOK
<1>6. NameLeadsToItsFile'
  <2> SUFFICES ASSUME NEW n \in Names, filename2obj'[n] # None
               PROVE  obj2filename'[filename2obj'[n]] = n
    BY DEF NameLeadsToItsFile
  <2>1. CASE n = path[f]
    BY <2>1, <1>0, <1>1, <1>2, <1>3 DEF FileInv, FileTypeOK
  <2>2. CASE n # path[f]
    <3>1. filename2obj'[n] = filename2obj[n] /\ n # obj2filename[f]
      BY <2>2, <1>1, <1>2
    <3>2. filename2obj[n] \in Files /\ obj2filename[filename2obj[n]] = n
      BY <3>1 DEF FileInv, FileTypeOK, TablesAgree, NameLeadsToItsFile
    <3> QED BY <3>1, <3>2, <1>0, <1>3 DEF FileInv, FileTypeOK
  <2> QED BY <2>1, <2>2
<1>7. NoDanglingFile'
  BY <1>0, <1>1, <1>2, <1>3 DEF FileInv, FileTypeOK, TablesAgree, NoDanglingFile
<1>8. KnownFilesAreWatched'
  BY <1>0, <1>3, <1>4 DEF FileInv, FileTypeOK, TablesAgree, KnownFilesAreWatched
<1> QED BY <1>4, <1>5, <1>6, <1>7, <1>8 DEF TablesAgree

LEMMA RegisterNewKeeps ==
    ASSUME FileInv, NEW f \in alive, path[f] \in Names, RegisterNew(f), UNCHANGED alive
    PROVE  /\ filename2obj' \in [Names -> Files \cup {None}]
           /\ obj2filename' \in [Files -> Names \cup {None}]
           /\ weak' \in [Files -> Nat] /\ handlers' \in [Files -> Nat]
           /\ TablesAgree'
<1> DEFINE older == filename2obj[path[f]]
<1> DEFINE cleaned == Forget(obj2filename, older)
<1>0. f \in Files /\ obj2filename[f] = None /\ older \in Files \cup {None}
  BY DEF FileInv, FileTypeOK, RegisterNew
<1>1. /\ cleaned \in [Files -> Names \cup {None}]
      /\ \A g \in Files : cleaned[g] = IF g = older THEN None ELSE obj2filename[g]
  BY <1>0, TableTypes DEF Forget, FileInv
<1> HIDE DEF cleaned
<1>2. /\ filename2obj' = [filename2obj EXCEPT ![path[f]] = f]
      /\ obj2filename' = [cleaned EXCEPT ![f] = path[f]]
  BY DEF RegisterNew, cleaned
<1>3. /\ weak' \in [Files -> Nat] /\ handlers' \in [Files -> Nat]
      /\ weak'[f] > 0 /\ handlers'[f] > 0
      /\ \A g \in Files \ {f, older} : weak'[g] = weak[g] /\ handlers'[g] = handlers[g]
  BY <1>0 DEF RegisterNew, OneLess, FileInv, FileTypeOK
<1>4. /\ filename2obj' \in [Names -> Files \cup {None}]
      /\ obj2filename' \in [Files -> Names \cup {None}]
  BY <1>0, <1>1, <1>2 DEF FileInv, FileTypeOK
<1>5. older # None => obj2filename[older] = path[f]
  BY DEF FileInv, TablesAgree, NameLeadsToItsFile
<1>6. NameLeadsToItsFile'
  <2> SUFFICES ASSUME NEW n \in Names, filename2obj'[n] # None
               PROVE  obj2filename'[filename2obj'[n]] = n
    BY DEF NameLeadsToItsFile
  <2>1. CASE n = path[f]
    BY <2>1, <1>0, <1>1, <1>2 DEF FileInv, FileTypeOK
  <2>2. CASE n # path[f]
    <3>1. filename2obj'[n] = filename2obj[n]
      BY <2>2, <1>2 DEF FileInv, FileTypeOK
    <3>2. filename2obj[n] \in Files /\ obj2filename[filename2obj[n]] = n
      BY <3>1 DEF FileInv, FileTypeOK, TablesAgree, NameLeadsToItsFile
    <3>3. filename2obj[n] # older /\ filename2obj[n] # f
      BY <3>1, <3>2, <2>2, <1>0, <1>5, TableTypes DEF FileInv
    <3> QED BY <3>1, <3>2, <3>3, <1>1, <1>2
  <2> QED BY <2>1, <2>2
<1>7. NoDanglingFile'
  BY <1>0, <1>1, <1>2 DEF FileInv, FileTypeOK, TablesAgree, NoDanglingFile
<1>8. KnownFilesAreWatched'
  <2> SUFFICES ASSUME NEW g \in Files, obj2filename'[g] # None
               PROVE  weak'[g] > 0 /\ handlers'[g] > 0
    BY DEF KnownFilesAreWatched
  <2>1. g = f \/ (g # older /\ obj2filename[g] # None)
    BY <1>1, <1>2
  <2> QED BY <2>1, <1>3 DEF FileInv, TablesAgree, KnownFilesAreWatched
<1> QED BY <1>3, <1>4, <1>6, <1>7, <1>8 DEF TablesAgree
-----------------------------------------------------------------------------
(* changed_cb *)

LEMMA OfflineKeeps ==
    ASSUME FileInv, NEW f \in alive, obj2filename[f] # None, Offline(f), UNCHANGED alive
    PROVE  /\ filename2obj' \in [Names -> Files \cup {None}]
           /\ obj2filename' \in [Files -> Names \cup {None}]
           /\ weak' \in [Files -> Nat] /\ handlers' \in [Files -> Nat]
           /\ TablesAgree'
<1>0. f \in Files /\ obj2filename[f] \in Names
  BY DEF FileInv, FileTypeOK
<1>1. /\ filename2obj' \in [Names -> Files \cup {None}]
      /\ \A n \in Names :
            filename2obj'[n] = IF n = obj2filename[f] THEN None ELSE filename2obj[n]
  BY <1>0, TableTypes DEF Offline, Forget, FileInv
<1>2. obj2filename' = [obj2filename EXCEPT ![f] = None]
  BY DEF Offline
<1>3. /\ weak' \in [Files -> Nat] /\ handlers' \in [Files -> Nat]
      /\ \A g \in Files \ {f} : weak'[g] = weak[g] /\ handlers'[g] = handlers[g]
  BY <1>0 DEF Offline, OneLess, FileInv, FileTypeOK
<1>4. obj2filename' \in [Files -> Names \cup {None}]
  BY <1>2 DEF FileInv, FileTypeOK
<1>5. NameLeadsToItsFile'
  BY <1>0, <1>1, <1>2, TableTypes DEF FileInv, TablesAgree, NameLeadsToItsFile
<1>6. NoDanglingFile'
  BY <1>0, <1>1, <1>2, TableTypes DEF FileInv, TablesAgree, NoDanglingFile
<1>7. KnownFilesAreWatched'
  BY <1>0, <1>2, <1>3, TableTypes DEF FileInv, TablesAgree, KnownFilesAreWatched
<1> QED BY <1>1, <1>3, <1>4, <1>5, <1>6, <1>7 DEF TablesAgree

LEMMA MovedKeeps ==
    ASSUME FileInv, NEW f \in alive, obj2filename[f] # None, Moved(f), UNCHANGED alive
    PROVE  /\ filename2obj' \in [Names -> Files \cup {None}]
           /\ obj2filename' \in [Files -> Names \cup {None}]
           /\ weak' \in [Files -> Nat] /\ handlers' \in [Files -> Nat]
           /\ TablesAgree'
<1> DEFINE old == obj2filename[f]
<1> DEFINE new == path[f]
<1> DEFINE cleaned == Forget(filename2obj, old)
<1> DEFINE other == cleaned[new]
<1>0. f \in Files /\ old \in Names /\ new \in Names /\ new # old
  BY DEF FileInv, FileTypeOK, Moved, Places
<1>1. /\ cleaned \in [Names -> Files \cup {None}]
      /\ \A n \in Names : cleaned[n] = IF n = old THEN None ELSE filename2obj[n]
  BY <1>0, TableTypes DEF Forget, FileInv
<1>2. other = filename2obj[new] /\ other \in Files \cup {None}
  BY <1>0, <1>1
<1>3. other # None => obj2filename[other] = new /\ other # f
  BY <1>0, <1>2 DEF FileInv, TablesAgree, NameLeadsToItsFile
<1>4. /\ filename2obj' = [cleaned EXCEPT ![new] = f]
      /\ obj2filename' = Forget([obj2filename EXCEPT ![f] = new], other)
      /\ UNCHANGED watching
  BY DEF Moved
<1> HIDE DEF cleaned, other
<1>5. /\ obj2filename' \in [Files -> Names \cup {None}]
      /\ obj2filename'[f] = new
      /\ \A g \in Files \ {f} :
            obj2filename'[g] = IF g = other THEN None ELSE obj2filename[g]
  BY <1>0, <1>2, <1>3, <1>4, TableTypes DEF Forget, FileInv
<1>6. filename2obj' \in [Names -> Files \cup {None}]
  BY <1>0, <1>1, <1>4
<1>7. weak' \in [Files -> Nat] /\ handlers' \in [Files -> Nat]
  BY <1>4 DEF watching, FileInv, FileTypeOK
<1>8. NameLeadsToItsFile'
  <2> SUFFICES ASSUME NEW n \in Names, filename2obj'[n] # None
               PROVE  obj2filename'[filename2obj'[n]] = n
    BY DEF NameLeadsToItsFile
  <2>1. CASE n = new
    BY <2>1, <1>0, <1>1, <1>4, <1>5
  <2>2. CASE n # new
    <3>1. filename2obj'[n] = filename2obj[n] /\ n # old
      BY <2>2, <1>0, <1>1, <1>4
    <3>2. filename2obj[n] \in Files /\ obj2filename[filename2obj[n]] = n
      BY <3>1, TableTypes DEF FileInv, TablesAgree, NameLeadsToItsFile
    <3>3. filename2obj[n] # f /\ filename2obj[n] # other
      BY <3>1, <3>2, <2>2, <1>3, TableTypes DEF FileInv
    <3> QED BY <3>1, <3>2, <3>3, <1>5
  <2> QED BY <2>1, <2>2
<1>9. NoDanglingFile'
  BY <1>0, <1>1, <1>4, <1>5, TableTypes DEF FileInv, TablesAgree, NoDanglingFile
<1>10. KnownFilesAreWatched'
  BY <1>0, <1>4, <1>5, TableTypes DEF watching, FileInv, TablesAgree, KnownFilesAreWatched
<1> QED BY <1>5, <1>6, <1>7, <1>8, <1>9, <1>10 DEF TablesAgree

-----------------------------------------------------------------------------
(* when_file_dies *)

\* An object without a weak reference is in no table.
LEMMA DiesKeeps ==
    ASSUME FileInv, NEW f \in Files, Dies(f)
    PROVE  /\ filename2obj' \in [Names -> Files \cup {None}]
           /\ obj2filename' \in [Files -> Names \cup {None}]
           /\ TablesAgree'
<1>1. /\ filename2obj' \in [Names -> Files \cup {None}]
      /\ obj2filename' \in [Files -> Names \cup {None}]
      /\ obj2filename'[f] = None
      /\ \A n \in Names :
            filename2obj'[n] = IF n = obj2filename[f] THEN None ELSE filename2obj[n]
      /\ \A g \in Files \ {f} : obj2filename'[g] = obj2filename[g]
  <2>1. CASE /\ weak[f] > 0
             /\ filename2obj' = Forget(filename2obj, obj2filename[f])
             /\ obj2filename' = [obj2filename EXCEPT ![f] = None]
    BY <2>1, TableTypes DEF Forget, FileInv
  <2>2. CASE weak[f] = 0 /\ UNCHANGED tables
    <3>1. obj2filename[f] = None
      BY <2>2 DEF FileInv, TablesAgree, KnownFilesAreWatched
    <3> QED BY <2>2, <3>1, TableTypes DEF tables, FileInv
  <2> QED BY <2>1, <2>2 DEF Dies
<1>2. /\ alive' = alive \ {f}
      /\ \A g \in Files \ {f} : weak'[g] = weak[g] /\ handlers'[g] = handlers[g]
  BY DEF Dies, FileInv, FileTypeOK
<1>3. \A n \in Names : filename2obj'[n] # None =>
          filename2obj'[n] = filename2obj[n] /\ filename2obj[n] \in Files \ {f}
  BY <1>1, TableTypes DEF FileInv, TablesAgree, NameLeadsToItsFile
<1>4. NameLeadsToItsFile'
  BY <1>1, <1>3 DEF FileInv, TablesAgree, NameLeadsToItsFile
<1>5. NoDanglingFile'
  BY <1>1, <1>2, <1>3 DEF FileInv, TablesAgree, NoDanglingFile
<1>6. KnownFilesAreWatched'
  BY <1>1, <1>2 DEF FileInv, TablesAgree, KnownFilesAreWatched
<1> QED BY <1>1, <1>4, <1>5, <1>6 DEF TablesAgree
-----------------------------------------------------------------------------
(* The steps. *)

LEMMA FilesStart == FileInit => FileInv
<1> SUFFICES ASSUME FileInit PROVE FileInv
  OBVIOUS
<1>1. FileTypeOK
  BY FilesAndNames DEF FileInit, FileTypeOK, Places, Requests
<1>2. TablesAgree
  BY DEF FileInit, TablesAgree, NoDanglingFile, NameLeadsToItsFile, KnownFilesAreWatched
<1> QED BY <1>1, <1>2 DEF FileInv

\* Steps that leave the tables and the watching alone keep the agreement if nobody dies.
LEMMA TablesUntouched ==
    ASSUME TablesAgree, UNCHANGED <<tables, watching>>, alive \subseteq alive'
    PROVE  TablesAgree'
BY DEF tables, watching, TablesAgree, NoDanglingFile, NameLeadsToItsFile,
       KnownFilesAreWatched

LEMMA UpdateFileInfoKeeps ==
    ASSUME FreedKey \subseteq {"intact"}, FileInv, NEW f \in Files, UpdateFileInfo(f)
    PROVE  FileInv'
<1>1. /\ UNCHANGED <<alive, path>>
      /\ invalid' \subseteq Files
      /\ shown' \in [Files -> SUBSET Answers]
      /\ f \in alive
  BY DEF UpdateFileInfo, nautilus, FileInv, FileTypeOK
<1>2. requests' \in [Files -> Seq(Requests)]
  BY RequestsOnUpdate DEF FileInv
<1>3. /\ filename2obj' \in [Names -> Files \cup {None}]
      /\ obj2filename' \in [Files -> Names \cup {None}]
      /\ weak' \in [Files -> Nat] /\ handlers' \in [Files -> Nat]
      /\ TablesAgree'
  <2>1. CASE UNCHANGED <<tables, watching>>
    BY <2>1, <1>1, TablesUntouched DEF tables, watching, FileInv, FileTypeOK
  <2>2. CASE path[f] \in Names /\ RegisterMoved(f)
    BY <2>2, <1>1, RegisterMovedKeeps
  <2>3. CASE path[f] \in Names /\ RegisterNew(f)
    BY <2>3, <1>1, RegisterNewKeeps
  <2> QED BY <2>1, <2>2, <2>3 DEF UpdateFileInfo, Register
<1> QED BY <1>1, <1>2, <1>3 DEF FileInv, FileTypeOK

LEMMA ChangedKeeps ==
    ASSUME FileInv, NEW f \in Files, Changed(f)
    PROVE  FileInv'
<1>1. /\ UNCHANGED <<alive, path, requests, shown>>
      /\ f \in alive
  BY DEF Changed, nautilus, FileInv, FileTypeOK
<1>2. /\ filename2obj' \in [Names -> Files \cup {None}]
      /\ obj2filename' \in [Files -> Names \cup {None}]
      /\ weak' \in [Files -> Nat] /\ handlers' \in [Files -> Nat]
      /\ TablesAgree'
      /\ invalid' \subseteq Files
  <2>1. CASE UNCHANGED <<tables, watching, invalid>>
    BY <2>1, <1>1, TablesUntouched DEF tables, watching, FileInv, FileTypeOK
  <2>2. CASE obj2filename[f] # None /\ Offline(f)
    BY <2>2, <1>1, OfflineKeeps DEF Offline, FileInv, FileTypeOK
  <2>3. CASE obj2filename[f] # None /\ Moved(f)
    BY <2>3, <1>1, MovedKeeps DEF Moved, FileInv, FileTypeOK
  <2> QED BY <2>1, <2>2, <2>3 DEF Changed
<1> QED BY <1>1, <1>2 DEF FileInv, FileTypeOK

LEMMA DiesKeepsAll ==
    ASSUME FileInv, NEW f \in Files, Dies(f)
    PROVE  FileInv'
<1>1. /\ alive' \subseteq Files /\ invalid' \subseteq Files
      /\ path' \in [Files -> Places] /\ shown' \in [Files -> SUBSET Answers]
      /\ weak' \in [Files -> Nat] /\ handlers' \in [Files -> Nat]
      /\ requests' \in [Files -> Seq(Requests)]
  BY DEF Dies, FileInv, FileTypeOK, Places
<1> QED BY <1>1, DiesKeeps DEF FileInv, FileTypeOK

LEMMA NautilusKeeps ==
    ASSUME FileInv, NEW f \in Files, NEW p \in Places, Birth(f, p) \/ Move(f, p)
    PROVE  FileInv'
<1>1. /\ UNCHANGED <<tables, watching>>
      /\ alive \subseteq alive' /\ alive' \subseteq Files
      /\ path' \in [Files -> Places]
      /\ invalid' \subseteq Files
  <2>1. CASE Birth(f, p)
    BY <2>1 DEF Birth, FileInv, FileTypeOK
  <2>2. CASE Move(f, p)
    BY <2>2 DEF Move, FileInv, FileTypeOK
  <2> QED BY <2>1, <2>2
<1>2. requests' \in [Files -> Seq(Requests)] /\ shown' \in [Files -> SUBSET Answers]
  <2>1. CASE Birth(f, p)
    BY <2>1 DEF Birth, FileInv, FileTypeOK
  <2>2. CASE Move(f, p)
    BY <2>2, AnswersOnMove DEF FileInv
  <2> QED BY <2>1, <2>2
<1>3. TablesAgree'
  BY <1>1, TablesUntouched DEF FileInv
<1> QED BY <1>1, <1>2, <1>3 DEF tables, watching, FileInv, FileTypeOK

LEMMA RequestStepKeeps ==
    ASSUME FileInv, NEW f \in Files, NEW i \in DOMAIN requests[f], ReadFileName(f, i)
    PROVE  FileInv'
<1>1. UNCHANGED <<alive, path, tables, watching, invalid, shown>>
  BY DEF ReadFileName, nautilus
<1>2. requests' \in [Files -> Seq(Requests)]
  BY ReadEdit DEF FileInv
<1>3. TablesAgree'
  BY <1>1, TablesUntouched DEF FileInv
<1> QED BY <1>1, <1>2, <1>3 DEF tables, watching, FileInv, FileTypeOK

LEMMA FinishKeeps ==
    ASSUME FileInv, NEW f \in Files, FinishFileInfo(f)
    PROVE  FileInv'
<1>1. UNCHANGED <<alive, path, invalid, tables, watching>>
  BY DEF FinishFileInfo, nautilus
<1>2. requests' \in [Files -> Seq(Requests)] /\ shown' \in [Files -> SUBSET Answers]
  BY FinishEdit DEF FileInv
<1>3. TablesAgree'
  BY <1>1, TablesUntouched DEF FileInv
<1> QED BY <1>1, <1>2, <1>3 DEF tables, watching, FileInv, FileTypeOK

LEMMA InvalidateKeeps ==
    ASSUME FileInv, ResetAllFiles \/ \E n \in Names : ShellTouch(n)
    PROVE  FileInv'
<1>1. UNCHANGED <<alive, path, tables, watching, requests, shown>>
  BY DEF ResetAllFiles, ShellTouch, nautilus
<1>2. invalid' \subseteq Files
  BY DEF ResetAllFiles, ShellTouch, FileInv, FileTypeOK
<1>3. TablesAgree'
  BY <1>1, TablesUntouched DEF FileInv
<1> QED BY <1>1, <1>2, <1>3 DEF tables, watching, FileInv, FileTypeOK

LEMMA FileStepKeeps ==
    ASSUME FreedKey \subseteq {"intact"}, FileInv, [FileNext]_fileVars
    PROVE  FileInv'
<1>1. CASE UNCHANGED fileVars
  BY <1>1 DEF fileVars, FileInv, FileTypeOK, TablesAgree, NoDanglingFile,
              NameLeadsToItsFile, KnownFilesAreWatched
<1>2. ASSUME NEW f \in Files, UpdateFileInfo(f) PROVE FileInv'
  BY <1>2, UpdateFileInfoKeeps
<1>3. ASSUME NEW f \in Files, Changed(f) PROVE FileInv'
  BY <1>3, ChangedKeeps
<1>4. ASSUME NEW f \in Files, Dies(f) PROVE FileInv'
  BY <1>4, DiesKeepsAll
<1>5. ASSUME NEW f \in Files, FinishFileInfo(f) PROVE FileInv'
  BY <1>5, FinishKeeps
<1>6. ASSUME NEW f \in Files, NEW p \in Places, Birth(f, p) \/ Move(f, p) PROVE FileInv'
  BY <1>6, NautilusKeeps
<1>7. ASSUME NEW f \in Files, NEW i \in DOMAIN requests[f], ReadFileName(f, i)
      PROVE  FileInv'
  BY <1>7, RequestStepKeeps
<1>8. CASE ResetAllFiles \/ \E n \in Names : ShellTouch(n)
  BY <1>8, InvalidateKeeps
<1> QED BY <1>1, <1>2, <1>3, <1>4, <1>5, <1>6, <1>7, <1>8 DEF FileNext

LEMMA FileInvariant ==
    ASSUME FreedKey \subseteq {"intact"}
    PROVE  FileSpec => []FileInv
<1>1. FileInit => FileInv
  BY FilesStart
<1>2. FileInv /\ [FileNext]_fileVars => FileInv'
  BY FileStepKeeps
<1> QED BY <1>1, <1>2, PTL DEF FileSpec

-----------------------------------------------------------------------------
(* What an object shows.                                                   *)

Known(f) == obj2filename[f] # None

\* A file known by its name, of which Nautilus asks nothing.
Settled(f) == Known(f) /\ obj2filename[f] = path[f] /\ f \notin invalid

\* What a settled file shows, and what it will show, fits its name.  All that can change
\* a name without an answer being outrun leaves the file unsettled.
StatusOf(f) ==
    Settled(f) =>
        /\ \A i \in DOMAIN requests[f] : Fits(requests[f][i], path[f])
        /\ \A answer \in shown[f] : Fits(answer, path[f])

StatusInv == \A f \in Files : StatusOf(f)

\* An object nothing is done to, but that may be dropped from the tables.
LEMMA OtherStatus ==
    ASSUME NEW f, StatusOf(f), obj2filename'[f] \in {obj2filename[f], None},
           path'[f] = path[f], shown'[f] = shown[f], requests'[f] = requests[f],
           f \in invalid => f \in invalid'
    PROVE  StatusOf(f)'
BY DEF StatusOf, Settled, Known, Fits

\* How the steps on f change the tables.
LEMMA TablesOnUpdate ==
    ASSUME FreedKey \subseteq {"intact"}, FileInv, NEW f \in Files, UpdateFileInfo(f)
    PROVE  /\ obj2filename'[f] \in {obj2filename[f], path[f]}
           /\ path[f] \in Names => obj2filename'[f] = path[f]
           /\ path[f] \notin Names => obj2filename'[f] = obj2filename[f]
           /\ \A g \in Files \ {f} : obj2filename'[g] \in {obj2filename[g], None}
<1>1. obj2filename \in [Files -> Names \cup {None}] /\ None \notin Files /\ None \notin Names
    BY TableTypes DEF FileInv
<1>2. CASE path[f] \in Names /\ RegisterMoved(f) BY <1>1, <1>2 DEF RegisterMoved
<1>3. CASE path[f] \in Names /\ RegisterNew(f)
    <2> DEFINE cleaned == Forget(obj2filename, filename2obj[path[f]])
    <2>1. /\ cleaned \in [Files -> Names \cup {None}]
          /\ \A g \in Files : cleaned[g] \in {obj2filename[g], None}
        BY <1>1, <1>3, TableTypes DEF Forget, FileInv
    <2>2. obj2filename' = [cleaned EXCEPT ![f] = path[f]] BY <1>3 DEF RegisterNew
    <2> HIDE DEF cleaned
    <2> QED BY <1>3, <2>1, <2>2
<1>4. CASE path[f] \in Names /\ obj2filename[f] = path[f] /\ UNCHANGED <<tables, watching>>
    BY <1>4 DEF tables
<1>5. CASE path[f] = Remote /\ UNCHANGED tables
    <2>1. path[f] \notin Names BY <1>5, FilesAndNames
    <2> QED BY <1>5, <2>1 DEF tables
<1> QED BY <1>2, <1>3, <1>4, <1>5 DEF UpdateFileInfo, Register

LEMMA TablesOnMoved ==
    ASSUME FileInv, NEW f \in Files, Moved(f), Known(f)
    PROVE  /\ obj2filename'[f] = path[f]
           /\ \A g \in Files \ {f} : obj2filename'[g] \in {obj2filename[g], None}
<1> DEFINE other == Forget(filename2obj, obj2filename[f])[path[f]]
           placed == [obj2filename EXCEPT ![f] = path[f]]
<1>1. /\ obj2filename \in [Files -> Names \cup {None}] /\ None \notin Files /\ None \notin Names
      /\ filename2obj \in [Names -> Files \cup {None}]
    BY TableTypes DEF FileInv
<1>2. path[f] \in Names /\ path[f] # obj2filename[f] /\ obj2filename[f] \in Names
    BY <1>1 DEF Moved, Known, FileInv, FileTypeOK, Places
<1>3. other = filename2obj[path[f]] /\ other \in Files \cup {None}
    BY <1>1, <1>2 DEF Forget
<1>4. other # f
    BY <1>1, <1>2, <1>3 DEF FileInv, TablesAgree, NameLeadsToItsFile
<1>5. obj2filename' = Forget(placed, other) BY DEF Moved
<1>6. /\ placed \in [Files -> Names \cup {None}] /\ placed[f] = path[f]
      /\ \A g \in Files \ {f} : placed[g] = obj2filename[g]
    BY <1>1, <1>2
<1> HIDE DEF other, placed
<1> QED BY <1>1, <1>3, <1>4, <1>5, <1>6 DEF Forget

LEMMA StatusOnUpdate ==
    ASSUME FreedKey \subseteq {"intact"}, FileInv, StatusInv, NEW f \in Files, UpdateFileInfo(f)
    PROVE  StatusInv'
<1>1. /\ path' = path /\ invalid' = invalid \ {f}
      /\ shown' = [shown EXCEPT ![f] = {}] /\ shown \in [Files -> SUBSET Answers]
    BY DEF UpdateFileInfo, nautilus, FileInv, FileTypeOK
<1>2. /\ \A g \in Files \ {f} : requests'[g] = requests[g]
      /\ path[f] \in Names => \A i \in DOMAIN requests'[f] : Fits(requests'[f][i], path[f])
    BY RequestsOnUpdate DEF FileInv
<1>3. ASSUME NEW g \in Files \ {f} PROVE StatusOf(g)'
    <2>1. StatusOf(g) BY DEF StatusInv
    <2>2. shown'[g] = shown[g] BY <1>1
    <2> QED BY <1>1, <1>2, <2>1, <2>2, TablesOnUpdate, OtherStatus
<1>4. StatusOf(f)'
    <2>1. shown'[f] = {} BY <1>1
    <2>2. Settled(f)' => path[f] \in Names
        <3>1. obj2filename' [f] \in Names \cup {None}
            BY UpdateFileInfoKeeps DEF FileInv, FileTypeOK
        <3> QED BY <1>1, <3>1 DEF Settled, Known
    <2> QED BY <1>1, <1>2, <2>1, <2>2 DEF StatusOf, Fits
<1> QED BY <1>3, <1>4 DEF StatusInv

LEMMA StatusOnChanged ==
    ASSUME FileInv, StatusInv, NEW f \in Files, Changed(f)
    PROVE  StatusInv'
<1>1. UNCHANGED <<path, requests, shown>> /\ Known(f)
    BY DEF Changed, nautilus, Known
<1>2. \A g \in Files : StatusOf(g) BY DEF StatusInv
<1>3. obj2filename \in [Files -> Names \cup {None}] BY TableTypes DEF FileInv
<1>4. ASSUME invalid' = invalid \cup {f},
             \A g \in Files \ {f} : obj2filename'[g] \in {obj2filename[g], None}
      PROVE  StatusInv'
    <2>1. ASSUME NEW g \in Files \ {f} PROVE StatusOf(g)'
        BY <1>1, <1>2, <1>4, OtherStatus
    <2>2. StatusOf(f)' BY <1>4 DEF StatusOf, Settled
    <2> QED BY <2>1, <2>2 DEF StatusInv
<1>5. CASE Offline(f)
    <2>1. invalid' = invalid \cup {f} /\ obj2filename' = [obj2filename EXCEPT ![f] = None]
        BY <1>5 DEF Offline
    <2>2. \A g \in Files \ {f} : obj2filename'[g] = obj2filename[g] BY <1>3, <2>1
    <2> QED BY <1>4, <2>1, <2>2
<1>6. CASE Moved(f)
    <2>1. invalid' = invalid \cup {f} BY <1>6 DEF Moved
    <2> QED BY <1>1, <1>4, <1>6, <2>1, TablesOnMoved
<1>7. CASE UNCHANGED <<tables, watching, invalid>>
    BY <1>1, <1>2, <1>7, OtherStatus DEF tables, StatusInv
<1> QED BY <1>5, <1>6, <1>7 DEF Changed

LEMMA StatusOnRead ==
    ASSUME FileInv, StatusInv, NEW f \in Files, NEW i \in DOMAIN requests[f],
           ReadFileName(f, i)
    PROVE  StatusInv'
<1>1. UNCHANGED <<path, obj2filename, shown, invalid>>
    BY DEF ReadFileName, nautilus, tables
<1>2. \A g \in Files : StatusOf(g) BY DEF StatusInv
<1>3. /\ \A g \in Files \ {f} : requests'[g] = requests[g]
      /\ DOMAIN requests'[f] = DOMAIN requests[f]
      /\ requests'[f][i].name = path[f]
      /\ \A k \in DOMAIN requests[f] \ {i} : requests'[f][k] = requests[f][k]
    BY ReadEdit DEF FileInv
<1>4. ASSUME NEW g \in Files \ {f} PROVE StatusOf(g)'
    BY <1>1, <1>2, <1>3, OtherStatus
<1>5. StatusOf(f)'
    <2>1. \A k \in DOMAIN requests[f] :
              Fits(requests[f][k], path[f]) => Fits(requests'[f][k], path[f])
        BY <1>3 DEF Fits
    <2>2. Fits(requests'[f][i], path[f]) BY <1>3 DEF Fits
    <2> QED BY <1>1, <1>2, <1>3, <2>1, <2>2 DEF StatusOf, Settled, Known, Fits
<1> QED BY <1>4, <1>5 DEF StatusInv

LEMMA StatusOnFinish ==
    ASSUME FileInv, StatusInv, NEW f \in Files, FinishFileInfo(f)
    PROVE  StatusInv'
<1>1. UNCHANGED <<path, obj2filename, invalid>>
    BY DEF FinishFileInfo, nautilus, tables
<1>2. \A g \in Files : StatusOf(g) BY DEF StatusInv
<1>3. /\ \A g \in Files \ {f} : requests'[g] = requests[g] /\ shown'[g] = shown[g]
      /\ \A k \in DOMAIN requests'[f] :
            \E j \in DOMAIN requests[f] : requests'[f][k] = requests[f][j]
      /\ \A answer \in shown'[f] :
            answer \in shown[f] \/ \E j \in DOMAIN requests[f] : answer = requests[f][j]
    BY FinishEdit DEF FileInv
<1>4. ASSUME NEW g \in Files \ {f} PROVE StatusOf(g)'
    BY <1>1, <1>2, <1>3, OtherStatus
<1>5. StatusOf(f)'
    BY <1>1, <1>2, <1>3 DEF StatusOf, Settled, Known, Fits
<1> QED BY <1>4, <1>5 DEF StatusInv

LEMMA StatusOnNautilus ==
    ASSUME FileInv, StatusInv, NEW f \in Files,
           Dies(f) \/ \E p \in Places : Birth(f, p) \/ Move(f, p)
    PROVE  StatusInv'
<1>1. /\ path \in [Files -> Places] /\ obj2filename \in [Files -> Names \cup {None}]
      /\ requests \in [Files -> Seq(Requests)] /\ shown \in [Files -> SUBSET Answers]
      /\ \A g \in Files : StatusOf(g)
    BY DEF FileInv, FileTypeOK, StatusInv
<1>2. ASSUME NEW g \in Files \ {f} PROVE StatusOf(g)'
    <2>1. /\ path'[g] = path[g] /\ obj2filename'[g] = obj2filename[g]
          /\ g \in invalid => g \in invalid'
        BY <1>1 DEF Dies, Birth, Move, tables
    <2>2. requests'[g] = requests[g] /\ shown'[g] = shown[g]
        <3>1. CASE Dies(f) \/ \E p \in Places : Birth(f, p)
            BY <1>1, <3>1 DEF Dies, Birth
        <3>2. CASE \E p \in Places : Move(f, p)
            BY <3>2, AnswersOnMove DEF FileInv
        <3> QED BY <3>1, <3>2
    <2> QED BY <1>1, <2>1, <2>2, OtherStatus
<1>3. StatusOf(f)'
    <2>1. CASE Dies(f)
        <3>1. path'[f] = Remote /\ obj2filename'[f] \in Names \cup {None}
            BY <1>1, <2>1, DiesKeeps DEF Dies
        <3> QED BY <3>1, FilesAndNames DEF StatusOf, Settled, Known
    <2>2. ASSUME NEW p \in Places, Birth(f, p) PROVE StatusOf(f)'
        BY <2>2 DEF Birth, StatusOf, Settled
    <2>3. ASSUME NEW p \in Places, Move(f, p) PROVE StatusOf(f)'
        <3>1. path'[f] = p /\ obj2filename' = obj2filename
            BY <1>1, <2>3 DEF Move, tables
        <3>2. p = obj2filename[f] =>
                /\ \A i \in DOMAIN requests'[f] : Fits(requests'[f][i], p)
                /\ \A answer \in shown'[f] : Fits(answer, p)
            BY <2>3, AnswersOnMove DEF FileInv
        <3> QED BY <3>1, <3>2 DEF StatusOf, Settled, Fits
    <2> QED BY <2>1, <2>2, <2>3
<1> QED BY <1>2, <1>3 DEF StatusInv

LEMMA StatusStepKeeps ==
    ASSUME FreedKey \subseteq {"intact"}, FileInv, StatusInv, [FileNext]_fileVars
    PROVE  StatusInv'
<1>1. CASE UNCHANGED fileVars
    BY <1>1, OtherStatus DEF fileVars, StatusInv
<1>2. CASE ResetAllFiles \/ \E n \in Names : ShellTouch(n)
    <2>1. UNCHANGED <<obj2filename, path, requests, shown>> /\ invalid \subseteq invalid'
        BY <1>2 DEF ResetAllFiles, ShellTouch, nautilus, tables
    <2> QED BY <2>1, OtherStatus DEF StatusInv
<1> QED BY <1>1, <1>2, StatusOnUpdate, StatusOnChanged, StatusOnRead, StatusOnFinish,
           StatusOnNautilus
    DEF FileNext

-----------------------------------------------------------------------------
(* How a known object gets out of reach of its name. *)

OutOfReach(f) == obj2filename[f] # None /\ filename2obj[obj2filename[f]] # f

\* What ReachableUnlessShared asks of one object in one step.
StaysInReach(f) ==
    OutOfReach(f)' =>
        \/ obj2filename[f] = obj2filename'[f] /\ OutOfReach(f)
        \/ \E g \in Files \ {f} :
              \/ obj2filename[g] = obj2filename'[f]
              \/ path[g] = obj2filename'[f] /\ obj2filename[g] # None

\* An object that keeps its own half of the entry is at the mercy of the other half.
LEMMA KeepsOwnHalf ==
    ASSUME NEW f \in Files, NEW g \in Files \ {f}, obj2filename'[f] = obj2filename[f],
           obj2filename[f] # None =>
               \/ filename2obj'[obj2filename[f]] = filename2obj[obj2filename[f]]
               \/ filename2obj[obj2filename[f]] # f
               \/ obj2filename[g] = obj2filename[f]
               \/ path[g] = obj2filename[f] /\ obj2filename[g] # None
    PROVE  StaysInReach(f)
BY DEF StaysInReach, OutOfReach

LEMMA ReachOnRegisterMoved ==
    ASSUME FreedKey \subseteq {"intact"}, FileTypeOK, NEW f \in Files, RegisterMoved(f),
           path[f] \in Names, NEW h \in Files
    PROVE  StaysInReach(h)
<1> DEFINE cleaned == Forget(filename2obj, obj2filename[f])
<1>0. obj2filename[f] \in Names /\ obj2filename[f] # None
  BY DEF FileTypeOK, RegisterMoved
<1>1. /\ cleaned \in [Names -> Files \cup {None}]
      /\ \A n \in Names : n # obj2filename[f] => cleaned[n] = filename2obj[n]
  BY <1>0, TableTypes DEF Forget
<1>2. /\ filename2obj' = [cleaned EXCEPT ![path[f]] = f]
      /\ obj2filename' = [obj2filename EXCEPT ![f] = path[f]]
  BY DEF RegisterMoved
<1> HIDE DEF cleaned
<1>3. CASE h = f
  <2>1. obj2filename'[f] = path[f] /\ filename2obj'[path[f]] = f
    BY <1>1, <1>2 DEF FileTypeOK
  <2> QED BY <1>3, <2>1 DEF StaysInReach, OutOfReach
<1>4. CASE h # f
  <2>1. obj2filename'[h] = obj2filename[h] /\ obj2filename[h] \in Names \cup {None}
    BY <1>2, <1>4 DEF FileTypeOK
  <2>2. ASSUME obj2filename[h] # None, obj2filename[h] # obj2filename[f],
               obj2filename[h] # path[f]
        PROVE  filename2obj'[obj2filename[h]] = filename2obj[obj2filename[h]]
    BY <2>1, <2>2, <1>1, <1>2
  <2> QED BY <1>0, <1>4, <2>1, <2>2, KeepsOwnHalf
<1> QED BY <1>3, <1>4

LEMMA ReachOnRegisterNew ==
    ASSUME FileTypeOK, NEW f \in Files, RegisterNew(f), path[f] \in Names, NEW h \in Files
    PROVE  StaysInReach(h)
<1> DEFINE older == filename2obj[path[f]]
<1> DEFINE cleaned == Forget(obj2filename, older)
<1>0. older \in Files \cup {None}
  BY DEF FileTypeOK
<1>1. /\ cleaned \in [Files -> Names \cup {None}]
      /\ \A g \in Files : cleaned[g] = IF g = older THEN None ELSE obj2filename[g]
  BY <1>0, TableTypes DEF Forget
<1>2. /\ filename2obj' = [filename2obj EXCEPT ![path[f]] = f]
      /\ obj2filename' = [cleaned EXCEPT ![f] = path[f]]
  BY DEF RegisterNew
<1> HIDE DEF cleaned
<1>3. CASE h = f
  <2>1. obj2filename'[f] = path[f] /\ filename2obj'[path[f]] = f
    BY <1>1, <1>2 DEF FileTypeOK
  <2> QED BY <1>3, <2>1 DEF StaysInReach, OutOfReach
<1>4. CASE h # f /\ h = older
  BY <1>1, <1>2, <1>4 DEF StaysInReach, OutOfReach
<1>5. CASE h # f /\ h # older
  <2>1. obj2filename'[h] = obj2filename[h] /\ obj2filename[h] \in Names \cup {None}
    BY <1>1, <1>2, <1>5 DEF FileTypeOK
  <2>2. ASSUME obj2filename[h] # None
        PROVE  \/ filename2obj'[obj2filename[h]] = filename2obj[obj2filename[h]]
               \/ filename2obj[obj2filename[h]] # h
    BY <2>1, <2>2, <1>2, <1>5 DEF FileTypeOK
  <2> QED BY <1>5, <2>1, <2>2, KeepsOwnHalf
<1> QED BY <1>3, <1>4, <1>5

\* changed_cb finds f without a local name; or f dies, with when_file_dies on it.
LEMMA ReachOnLeaving ==
    ASSUME FileTypeOK, NEW f \in Files, NEW h \in Files,
           filename2obj' = Forget(filename2obj, obj2filename[f]),
           obj2filename' = [obj2filename EXCEPT ![f] = None]
    PROVE  StaysInReach(h)
<1>1. CASE h = f
  BY <1>1 DEF FileTypeOK, StaysInReach, OutOfReach
<1>2. CASE h # f
  <2>1. obj2filename'[h] = obj2filename[h] /\ obj2filename[h] \in Names \cup {None}
    BY <1>2 DEF FileTypeOK
  <2>2. ASSUME obj2filename[h] # None, obj2filename[h] # obj2filename[f]
        PROVE  filename2obj'[obj2filename[h]] = filename2obj[obj2filename[h]]
    BY <2>1, <2>2, TableTypes DEF Forget
  <2> QED BY <1>2, <2>1, <2>2, KeepsOwnHalf
<1> QED BY <1>1, <1>2

LEMMA ReachOnMoved ==
    ASSUME FileInv, NEW f \in Files, Moved(f), Known(f), NEW h \in Files
    PROVE  StaysInReach(h)
<1> DEFINE cleaned == Forget(filename2obj, obj2filename[f])
<1> DEFINE other == cleaned[path[f]]
<1> DEFINE placed == [obj2filename EXCEPT ![f] = path[f]]
<1>0. /\ path[f] \in Names /\ path[f] # obj2filename[f] /\ obj2filename[f] \in Names
      /\ obj2filename \in [Files -> Names \cup {None}]
  BY DEF Moved, Known, FileInv, FileTypeOK, Places
<1>1. /\ cleaned \in [Names -> Files \cup {None}]
      /\ \A n \in Names : n # obj2filename[f] => cleaned[n] = filename2obj[n]
  BY <1>0, TableTypes DEF Forget, FileInv
<1>2. other = filename2obj[path[f]] /\ other \in Files \cup {None}
  BY <1>0, <1>1
<1>3. /\ filename2obj' = [cleaned EXCEPT ![path[f]] = f]
      /\ obj2filename' = Forget(placed, other)
  BY DEF Moved
<1>4. /\ placed \in [Files -> Names \cup {None}]
      /\ \A g \in Files \ {f} : placed[g] = obj2filename[g]
  BY <1>0
<1> HIDE DEF cleaned, other, placed
<1>5. CASE h = f
  <2>1. obj2filename'[f] = path[f] /\ filename2obj'[path[f]] = f
    BY <1>0, <1>1, <1>3, TablesOnMoved
  <2> QED BY <1>5, <2>1 DEF StaysInReach, OutOfReach
<1>6. CASE h # f /\ h = other
  <2>1. other # None
    BY <1>6, TableTypes DEF FileInv
  <2>2. obj2filename'[h] = None
    BY <1>3, <1>4, <1>6, <2>1 DEF Forget
  <2> QED BY <2>2 DEF StaysInReach, OutOfReach
<1>7. CASE h # f /\ h # other
  <2>1. obj2filename'[h] = obj2filename[h] /\ obj2filename[h] \in Names \cup {None}
    BY <1>0, <1>2, <1>3, <1>4, <1>7 DEF Forget
  <2>2. ASSUME obj2filename[h] # None, obj2filename[h] # obj2filename[f]
        PROVE  \/ filename2obj'[obj2filename[h]] = filename2obj[obj2filename[h]]
               \/ filename2obj[obj2filename[h]] # h
    <3>1. CASE obj2filename[h] = path[f] BY <3>1, <1>2, <1>7
    <3>2. CASE obj2filename[h] # path[f] BY <3>2, <2>1, <2>2, <1>1, <1>3
    <3> QED BY <3>1, <3>2
  <2> QED BY <1>7, <2>1, <2>2, KeepsOwnHalf
<1> QED BY <1>5, <1>6, <1>7

LEMMA ReachStep ==
    ASSUME FreedKey \subseteq {"intact"}, FileInv, FileNext, NEW h \in Files
    PROVE  StaysInReach(h) \/ UNCHANGED tables
<1>1. ASSUME NEW f \in Files, UpdateFileInfo(f) PROVE StaysInReach(h) \/ UNCHANGED tables
  BY <1>1, ReachOnRegisterMoved, ReachOnRegisterNew
  DEF UpdateFileInfo, Register, FileInv, tables
<1>2. ASSUME NEW f \in Files, Changed(f) PROVE StaysInReach(h) \/ UNCHANGED tables
  <2>1. Known(f)
    BY <1>2 DEF Changed, Known
  <2>2. Offline(f) => StaysInReach(h)
    BY ReachOnLeaving DEF Offline, FileInv
  <2>3. Moved(f) => StaysInReach(h)
    BY <2>1, ReachOnMoved
  <2> QED BY <1>2, <2>2, <2>3 DEF Changed, tables
<1>3. ASSUME NEW f \in Files, Dies(f) PROVE StaysInReach(h) \/ UNCHANGED tables
  BY <1>3, ReachOnLeaving DEF Dies, FileInv, tables
<1>4. ASSUME NEW f \in Files, FinishFileInfo(f) \/ \E i \in DOMAIN requests[f] : ReadFileName(f, i)
      PROVE  UNCHANGED tables
  BY <1>4 DEF FinishFileInfo, ReadFileName, tables
<1>5. ASSUME NEW f \in Files, NEW p \in Places, Birth(f, p) \/ Move(f, p)
      PROVE  UNCHANGED tables
  BY <1>5 DEF Birth, Move, tables
<1>6. CASE ResetAllFiles \/ \E n \in Names : ShellTouch(n)
  BY <1>6 DEF ResetAllFiles, ShellTouch, tables
<1> QED BY <1>1, <1>2, <1>3, <1>4, <1>5, <1>6 DEF FileNext

-----------------------------------------------------------------------------
(* What follows. *)

(* The tables, the watching counts, the requests and what is shown keep their
   types through everything update_file_info, changed_cb and the answers do. *)
THEOREM FileTypeCorrect ==
    ASSUME FreedKey \subseteq {"intact"}
    PROVE  FileSpec => []FileTypeOK
<1>1. FileInv => FileTypeOK
  BY DEF FileInv
<1> QED BY <1>1, FileInvariant, PTL

(* handle_shell_touch and reset_all_files never meet a dead object, as long as the
   key freed at 259 is still found at 260. *)
THEOREM NothingDangles ==
    ASSUME FreedKey \subseteq {"intact"}
    PROVE  FileSpec => []NoDanglingFile
<1>1. FileInv => NoDanglingFile
  BY DEF FileInv, TablesAgree
<1> QED BY <1>1, FileInvariant, PTL

(* A name in filename2obj leads to an object that obj2filename knows by that name. *)
THEOREM NamesAgree ==
    ASSUME FreedKey \subseteq {"intact"}
    PROVE  FileSpec => []NameLeadsToItsFile
<1>1. FileInv => NameLeadsToItsFile
  BY DEF FileInv, TablesAgree
<1> QED BY <1>1, FileInvariant, PTL

(* A known object that its name leads to stays within reach of a shell_touch, unless
   another object has its name or takes it after a move that changed_cb missed. *)
THEOREM KnownStayInReach ==
    ASSUME FreedKey \subseteq {"intact"}
    PROVE  FileSpec => ReachableUnlessShared
<1>1. ASSUME FileInv, [FileNext]_fileVars
      PROVE  [\A f \in Files : LET name == obj2filename'[f] IN
                 name # None /\ filename2obj'[name] # f =>
                     \/ obj2filename[f] = name /\ filename2obj[name] # f
                     \/ \E g \in Files \ {f} :
                           \/ obj2filename[g] = name
                           \/ path[g] = name /\ obj2filename[g] # None]_tables
  <2>1. CASE UNCHANGED fileVars BY <2>1 DEF fileVars, tables
  <2>2. CASE FileNext /\ ~UNCHANGED tables
    <3>1. \A f \in Files : StaysInReach(f) BY <1>1, <2>2, ReachStep
    <3> QED BY <3>1 DEF StaysInReach, OutOfReach
  <2> QED BY <1>1, <2>1, <2>2
<1> QED BY <1>1, FileInvariant, PTL DEF FileSpec, ReachableUnlessShared

(* An object in the tables has when_file_dies and changed_cb on it, whichever of
   the six paths put it there. *)
THEOREM KnownAreWatched ==
    ASSUME FreedKey \subseteq {"intact"}
    PROVE  FileSpec => []KnownFilesAreWatched
<1>1. FileInv => KnownFilesAreWatched
  BY DEF FileInv, TablesAgree
<1> QED BY <1>1, FileInvariant, PTL

(* Moves, heard of or not, and answers that come late leave no known object with another
   name's emblems, unless the answer was outrun or Nautilus is about to ask again or the
   move is still to be found. *)
THEOREM StatusIsCurrentUnlessOutrun ==
    ASSUME FreedKey \subseteq {"intact"}
    PROVE  FileSpec => []KnownStatusIsCurrentUnlessOutrun
<1>1. FileInit => StatusInv
    BY DEF FileInit, StatusInv, StatusOf, Settled, Known
<1>2. FileInv /\ StatusInv /\ [FileNext]_fileVars => StatusInv'
    BY StatusStepKeeps
<1>3. FileInv /\ StatusInv => KnownStatusIsCurrentUnlessOutrun
    <2> SUFFICES ASSUME FileInv, StatusInv, NEW f \in Files, NEW answer \in shown[f],
                        obj2filename[f] # None, answer.name # path[f], ~answer.outrun,
                        f \notin invalid, obj2filename[f] = path[f]
                 PROVE  FALSE
        BY DEF KnownStatusIsCurrentUnlessOutrun
    <2>1. Fits(answer, path[f]) BY DEF StatusInv, StatusOf, Settled, Known
    <2>2. answer \in Answers BY DEF FileInv, FileTypeOK
    <2>3. answer.name \in Names BY <2>2 DEF Answers
    <2> QED BY <2>1, <2>3, FilesAndNames DEF Fits
<1> QED BY <1>1, <1>2, <1>3, FileInvariant, PTL DEF FileSpec
=============================================================================
