------------------------ MODULE GeneralCommandsProofs ------------------------
(***************************************************************************)
(* Proofs about GeneralCommands, for any number of answers, paths and      *)
(* menus: reference counts are the number of owners, a reply queue lives   *)
(* as long as somebody needs it, and the icon theme follows the answers.   *)
(***************************************************************************)
EXTENDS GeneralCommands, FiniteSetTheorems, TLAPS

(* How appending to a sequence of idles and taking its head change the number of
   those that hold a table. *)

With(s, t) == {i \in DOMAIN s : s[i].table = t}

LEMMA WithFinite ==
    ASSUME NEW S, NEW s \in Seq(S), NEW t
    PROVE  IsFiniteSet(With(s, t)) /\ Cardinality(With(s, t)) \in Nat
<1>1. IsFiniteSet(1..Len(s)) BY FS_Interval
<1>2. With(s, t) \in SUBSET (1..Len(s)) BY DEF With
<1> QED BY <1>1, <1>2, FS_Subset, FS_CardinalityType

LEMMA WithAppend ==
    ASSUME NEW S, NEW s \in Seq(S), NEW e \in S, NEW t
    PROVE  Cardinality(With(Append(s, e), t)) =
               Cardinality(With(s, t)) + (IF e.table = t THEN 1 ELSE 0)
<1> DEFINE n == Len(s) + 1
<1>1. /\ DOMAIN Append(s, e) = 1..n /\ DOMAIN s = 1..Len(s) /\ Len(s) \in Nat
      /\ Append(s, e)[n] = e
      /\ \A i \in 1..Len(s) : Append(s, e)[i] = s[i]
    OBVIOUS
<1>2. n \notin With(s, t) BY <1>1 DEF With
<1>3. CASE e.table = t
    <2>1. With(Append(s, e), t) = With(s, t) \cup {n} BY <1>1, <1>3 DEF With
    <2>2. Cardinality(With(s, t) \cup {n}) = Cardinality(With(s, t)) + 1
        <3> HIDE DEF n
        <3> QED BY <1>2, WithFinite, FS_AddElement
    <2> QED BY <1>3, <2>1, <2>2
<1>4. CASE e.table # t
    <2>1. With(Append(s, e), t) = With(s, t) BY <1>1, <1>4 DEF With
    <2> QED BY <1>4, <2>1, WithFinite
<1> QED BY <1>3, <1>4

LEMMA WithTail ==
    ASSUME NEW S, NEW s \in Seq(S), s # <<>>, NEW t
    PROVE  Cardinality(With(Tail(s), t)) =
               Cardinality(With(s, t)) - (IF Head(s).table = t THEN 1 ELSE 0)
<1> DEFINE rest == With(s, t) \ {1}
           shift == [i \in With(Tail(s), t) |-> i + 1]
<1>1. /\ DOMAIN Tail(s) = 1..(Len(s) - 1) /\ DOMAIN s = 1..Len(s)
      /\ Len(s) \in Nat \ {0} /\ Head(s) = s[1]
      /\ \A i \in 1..(Len(s) - 1) : Tail(s)[i] = s[i + 1]
    OBVIOUS
<1>2. shift \in Bijection(With(Tail(s), t), rest)
    <2>1. shift \in [With(Tail(s), t) -> rest] BY <1>1 DEF With
    <2>2. \A i, j \in With(Tail(s), t) : shift[i] = shift[j] => i = j BY <1>1 DEF With
    <2>3. ASSUME NEW k \in rest PROVE \E i \in With(Tail(s), t) : shift[i] = k
        <3>1. k \in 2..Len(s) /\ s[k].table = t BY <1>1, <2>3 DEF With
        <3>2. k - 1 \in 1..(Len(s) - 1) /\ Tail(s)[k - 1] = s[k] BY <1>1, <3>1
        <3>3. k - 1 \in With(Tail(s), t) BY <1>1, <3>1, <3>2 DEF With
        <3> QED BY <3>1, <3>3
    <2> QED BY <2>1, <2>2, <2>3 DEF Bijection, Injection, Surjection, IsInjective
<1>3. Tail(s) \in Seq(S) OBVIOUS
<1>4. IsFiniteSet(With(s, t)) /\ IsFiniteSet(With(Tail(s), t))
    BY <1>3, WithFinite
<1>5. Cardinality(rest) = Cardinality(With(Tail(s), t))
    <2> HIDE DEF rest, shift
    <2>1. ExistsBijection(With(Tail(s), t), rest) BY <1>2 DEF ExistsBijection
    <2> QED BY <1>4, <2>1, FS_Bijection
<1>6. Cardinality(rest) = Cardinality(With(s, t)) - (IF 1 \in With(s, t) THEN 1 ELSE 0)
    <2>1. Cardinality(With(s, t)) \in Nat BY <1>4, FS_CardinalityType
    <2>2. Cardinality(With(s, t) \ {1}) =
              IF 1 \in With(s, t) THEN Cardinality(With(s, t)) - 1 ELSE Cardinality(With(s, t))
        BY <1>4, FS_RemoveElement
    <2> QED BY <2>1, <2>2
<1>7. 1 \in With(s, t) <=> Head(s).table = t BY <1>1 DEF With
<1> QED BY <1>5, <1>6, <1>7

-----------------------------------------------------------------------------
(* The tables.                                                             *)

\* What is in whose hands.  A table that has not been created is in nobody's.
Hands ==
    /\ emblemPaths \in used \cup {None}
    /\ \A i \in DOMAIN idles :
          \/ idles[i].op = "add" /\ idles[i].table \in used
          \/ idles[i].op = "remove" /\ idles[i].table \in used \cup {None}
          \/ idles[i].op = "reset" /\ idles[i].table = None
    /\ thread = "idle" => hand = None
    /\ thread \in {"stored", "added", "finishing"} => hand \in used
    /\ thread = "replied" => hand \in Menus

Owners(t) ==
    (IF emblemPaths = t THEN 1 ELSE 0) + Cardinality(With(idles, t))
        + (IF hand = t /\ given THEN 1 ELSE 0)

TablesInv == GeneralTypeOK /\ Hands /\ \A t \in Tables : refs[t] = Owners(t)

Requests == Menus \cup Commands
IdleType == [op : Ops, table : Tables \cup {None}]

LEMMA TablesInvInit == GeneralInit => TablesInv
<1> SUFFICES ASSUME GeneralInit PROVE TablesInv OBVIOUS
<1>1. GeneralTypeOK
    <2>1. /\ requests \in Seq(Menus \cup Commands)
          /\ idles \in Seq([op : Ops, table : Tables \cup {None}])
        BY DEF GeneralInit
    <2>2. /\ thread \in {"idle", "stored", "added", "finishing", "replied"}
          /\ hand \in Tables \cup Menus \cup {None}
          /\ given \in BOOLEAN
          /\ emblemPaths \in Tables \cup {None}
          /\ used \subseteq Tables
          /\ unshown \in BOOLEAN /\ overtaken \in BOOLEAN
        BY DEF GeneralInit
    <2>5. reports \in 0..MaxReports BY ReportsBounded DEF GeneralInit
    <2>3. /\ content \in [Tables -> SUBSET Paths]
          /\ refs \in [Tables -> Int]
          /\ theme \in [Paths -> Nat]
        BY DEF GeneralInit
    <2>4. /\ asker \in [Menus -> {"new", "waiting", "shown", "done"}]
          /\ reply \in [Menus -> Replies]
          /\ queueRefs \in [Menus -> Int]
        BY DEF GeneralInit, Replies
    <2> QED BY <2>1, <2>2, <2>3, <2>4, <2>5 DEF GeneralTypeOK
<1>2. Hands BY DEF GeneralInit, Hands
<1>3. ASSUME NEW t \in Tables PROVE refs[t] = Owners(t)
    <2>1. With(idles, t) = {} BY DEF GeneralInit, With
    <2>2. t # None BY HandlerNames
    <2> QED BY <2>1, <2>2, FS_EmptySet DEF GeneralInit, Owners
<1> QED BY <1>1, <1>2, <1>3 DEF TablesInv

\* The types in three parts, each disturbed by few actions.
QueueTypes ==
    /\ requests \in Seq(Menus \cup Commands)
    /\ idles \in Seq([op : Ops, table : Tables \cup {None}])
PlainTypes ==
    /\ thread \in {"idle", "stored", "added", "finishing", "replied"}
    /\ hand \in Tables \cup Menus \cup {None}
    /\ given \in BOOLEAN
    /\ emblemPaths \in Tables \cup {None}
    /\ used \subseteq Tables
    /\ unshown \in BOOLEAN /\ overtaken \in BOOLEAN
    /\ reports \in 0..MaxReports
TableTypes ==
    /\ content \in [Tables -> SUBSET Paths]
    /\ refs \in [Tables -> Int]
    /\ theme \in [Paths -> Nat]
MenuTypes ==
    /\ asker \in [Menus -> {"new", "waiting", "shown", "done"}]
    /\ reply \in [Menus -> Replies]
    /\ queueRefs \in [Menus -> Int]

LEMMA TypesInParts == GeneralTypeOK <=> QueueTypes /\ PlainTypes /\ TableTypes /\ MenuTypes
BY DEF GeneralTypeOK, QueueTypes, PlainTypes, TableTypes, MenuTypes

LEMMA TypesInPartsNext ==
    GeneralTypeOK' <=> QueueTypes' /\ PlainTypes' /\ TableTypes' /\ MenuTypes'
BY DEF GeneralTypeOK, QueueTypes, PlainTypes, TableTypes, MenuTypes

LEMMA QueueTypesStep ==
    ASSUME QueueTypes, PlainTypes, Hands, [GeneralNext]_generalVars
    PROVE  QueueTypes'
<1> DEFINE R == Menus \cup Commands
           I == [op : Ops, table : Tables \cup {None}]
<1>1. requests \in Seq(R) /\ idles \in Seq(I) BY DEF QueueTypes
<1>2. ASSUME requests # <<>> PROVE Tail(requests) \in Seq(R) BY <1>1, <1>2
<1>3. ASSUME idles # <<>> PROVE Tail(idles) \in Seq(I) BY <1>1, <1>3
<1>4. ASSUME NEW r \in R PROVE Append(requests, r) \in Seq(R) BY <1>1
<1>5. ASSUME NEW op \in Ops, NEW t \in Tables \cup {None}
      PROVE  Append(idles, Idle(op, t)) \in Seq(I)
    <2>1. Idle(op, t) \in I BY DEF Idle
    <2> HIDE DEF I
    <2> QED BY <1>1, <2>1
<1>6. "add" \in Ops /\ "remove" \in Ops /\ "reset" \in Ops BY DEF Ops
<1>7. "get_emblem_paths" \in R /\ "context_action" \in R BY DEF Commands
<1>8. thread = "stored" => hand \in Tables BY DEF Hands, PlainTypes
<1>9. emblemPaths \in Tables \cup {None} BY DEF PlainTypes
<1>10. requests' \in Seq(R)
    <2>1. \/ requests' = requests
          \/ requests # <<>> /\ requests' = Tail(requests)
          \/ \E r \in R : requests' = Append(requests, r)
        BY <1>7 DEF GeneralNext, Handler, MainLoop, generalVars, TakeRequest, StoreAnswer,
            ScheduleAdd, ScheduleReset, FinishGeneral, ReplyToMenu, LeaveReply, FinishAction,
            OnConnect, OnDisconnect, DispatchIdle, AskForMenu, LeaveMenu, ActivateItem
    <2> QED BY <1>1, <1>2, <1>4, <2>1
<1>11. idles' \in Seq(I)
    <2>1. \/ idles' = idles
          \/ idles # <<>> /\ idles' = Tail(idles)
          \/ \E op \in Ops, t \in Tables \cup {None} : idles' = Append(idles, Idle(op, t))
        BY <1>6, <1>8, <1>9
        DEF GeneralNext, Handler, MainLoop, generalVars, StoreAnswer,
            ScheduleAdd, ScheduleReset, FinishGeneral, ReplyToMenu, LeaveReply, FinishAction,
            OnConnect, OnDisconnect, DispatchIdle, AskForMenu, LeaveMenu, ActivateItem
    <2> QED BY <1>1, <1>3, <1>5, <2>1
<1> QED BY <1>10, <1>11 DEF QueueTypes

LEMMA PlainTypesStep ==
    ASSUME PlainTypes, [GeneralNext]_generalVars
    PROVE  PlainTypes'
<1> USE DEF PlainTypes
<1>1. ASSUME NEW t \in Tables, NEW paths \in SUBSET Paths, NEW isGiven \in BOOLEAN,
             StoreAnswer(t, paths, isGiven)
      PROVE  PlainTypes'
    BY <1>1 DEF StoreAnswer, mainVars
<1>2. CASE ScheduleAdd BY <1>2 DEF ScheduleAdd, mainVars
<1>3. CASE ScheduleReset BY <1>3 DEF ScheduleReset, emblemVars, mainVars
<1>4. CASE FinishGeneral BY <1>4 DEF FinishGeneral, mainVars
<1>5. ASSUME NEW m \in Menus, NEW answer \in Replies, ReplyToMenu(m, answer)
      PROVE  PlainTypes'
    BY <1>5 DEF ReplyToMenu, emblemVars, mainVars
<1>6. CASE LeaveReply BY <1>6 DEF LeaveReply, emblemVars, mainVars
<1>7. CASE FinishAction BY <1>7 DEF FinishAction, threadVars, emblemVars, mainVars
<1>8. CASE OnConnect
    <2>1. reports' \in 0..MaxReports BY <1>8, ReportsBounded DEF OnConnect
    <2> QED BY <1>8, <2>1 DEF OnConnect, threadVars, emblemVars
<1>9. CASE OnDisconnect
    <2>1. reports' \in 0..MaxReports BY <1>9, ReportsBounded DEF OnDisconnect
    <2> QED BY <1>9, <2>1 DEF OnDisconnect, threadVars
<1>10. CASE DispatchIdle
    BY <1>10 DEF DispatchIdle, AddEmblemPaths, RemoveEmblemPaths, ResetAllFiles, threadVars
<1>11. ASSUME NEW m \in Menus, AskForMenu(m) \/ LeaveMenu(m) \/ ActivateItem(m)
       PROVE  PlainTypes'
    BY <1>11 DEF AskForMenu, LeaveMenu, ActivateItem, threadVars, emblemVars, mainVars
<1>12. CASE UNCHANGED generalVars
    BY <1>12 DEF generalVars, threadVars, emblemVars, mainVars
<1> QED BY <1>1, <1>2, <1>3, <1>4, <1>5, <1>6, <1>7, <1>8, <1>9, <1>10, <1>11, <1>12
        DEF GeneralNext, Handler, MainLoop

\* The idle that is run next.
LEMMA HeadOfIdles ==
    ASSUME QueueTypes, PlainTypes, Hands, idles # <<>>
    PROVE  /\ Head(idles).op = "add" => Head(idles).table \in Tables
           /\ Head(idles).op = "remove" => Head(idles).table \in Tables \cup {None}
           /\ Head(idles).op = "reset" => Head(idles).table = None
<1>1. 1 \in DOMAIN idles /\ Head(idles) = idles[1] BY DEF QueueTypes
<1> QED BY <1>1 DEF Hands, PlainTypes

LEMMA TableTypesStep ==
    ASSUME QueueTypes, PlainTypes, TableTypes, Hands, [GeneralNext]_generalVars
    PROVE  TableTypes'
<1>1. ASSUME NEW t \in Tables, NEW paths \in SUBSET Paths, NEW isGiven \in BOOLEAN,
             StoreAnswer(t, paths, isGiven)
      PROVE  TableTypes'
    BY <1>1 DEF TableTypes, StoreAnswer, mainVars
<1>2. CASE ScheduleAdd
    <2>1. hand \in Tables BY <1>2 DEF ScheduleAdd, Hands, PlainTypes
    <2> QED BY <1>2, <2>1 DEF TableTypes, ScheduleAdd, mainVars
<1>3. CASE ScheduleReset BY <1>3 DEF TableTypes, ScheduleReset, emblemVars, mainVars
<1>4. CASE FinishGeneral
    <2>1. hand \in Tables BY <1>4 DEF FinishGeneral, Hands, PlainTypes
    <2> QED BY <1>4, <2>1 DEF TableTypes, FinishGeneral, mainVars
<1>5. ASSUME NEW m \in Menus, NEW answer \in Replies, ReplyToMenu(m, answer)
      PROVE  TableTypes'
    BY <1>5 DEF TableTypes, ReplyToMenu, emblemVars, mainVars
<1>6. CASE LeaveReply BY <1>6 DEF TableTypes, LeaveReply, emblemVars, mainVars
<1>7. CASE FinishAction BY <1>7 DEF TableTypes, FinishAction, emblemVars, mainVars
<1>8. CASE OnConnect BY <1>8 DEF TableTypes, OnConnect, emblemVars
<1>9. CASE OnDisconnect BY <1>9 DEF TableTypes, OnDisconnect
<1>10. CASE DispatchIdle
    <2>1. content' = content BY <1>10 DEF DispatchIdle
    <2>2. \/ refs' = refs
          \/ \E t \in Tables : refs' = [refs EXCEPT ![t] = refs[t] - 1]
        BY <1>10, HeadOfIdles DEF DispatchIdle, AddEmblemPaths, RemoveEmblemPaths, ResetAllFiles
    <2>3. refs' \in [Tables -> Int] BY <2>2 DEF TableTypes
    <2>4. theme' \in [Paths -> Nat]
        <3>1. theme \in [Paths -> Nat] BY DEF TableTypes
        <3>2. \/ theme' = theme
              \/ \E t \in Tables :
                    theme' = [p \in Paths |-> theme[p] + (IF p \in content[t] THEN 1 ELSE 0)]
              \/ \E t \in Tables :
                    theme' = [p \in Paths |-> IF p \in content[t] THEN 0 ELSE theme[p]]
            BY <1>10, HeadOfIdles
            DEF DispatchIdle, AddEmblemPaths, RemoveEmblemPaths, ResetAllFiles
        <3> QED BY <3>1, <3>2
    <2> QED BY <2>1, <2>3, <2>4 DEF TableTypes
<1>11. ASSUME NEW m \in Menus, AskForMenu(m) \/ LeaveMenu(m) \/ ActivateItem(m)
       PROVE  TableTypes'
    BY <1>11 DEF TableTypes, AskForMenu, LeaveMenu, ActivateItem, emblemVars, mainVars
<1>12. CASE UNCHANGED generalVars BY <1>12 DEF TableTypes, generalVars, emblemVars, mainVars
<1> QED BY <1>1, <1>2, <1>3, <1>4, <1>5, <1>6, <1>7, <1>8, <1>9, <1>10, <1>11, <1>12
        DEF GeneralNext, Handler, MainLoop

LEMMA MenuTypesStep ==
    ASSUME PlainTypes, MenuTypes, Hands, [GeneralNext]_generalVars
    PROVE  MenuTypes'
<1>1. CASE LeaveReply
    <2>0. hand \in Menus BY <1>1 DEF LeaveReply, Hands
    <2>1. /\ asker' = asker
          /\ queueRefs' = [queueRefs EXCEPT ![hand] = @ - 1]
          /\ \/ reply' = reply
             \/ reply' = [reply EXCEPT ![hand] = "nothing"]
        BY <1>1 DEF LeaveReply, DropQueue
    <2>2. queueRefs' \in [Menus -> Int] BY <2>0, <2>1 DEF MenuTypes
    <2>3. reply' \in [Menus -> Replies] BY <2>1 DEF MenuTypes, Replies
    <2> QED BY <2>1, <2>2, <2>3 DEF MenuTypes
<1>2. ASSUME NEW m \in Menus, NEW answer \in Replies, ReplyToMenu(m, answer)
      PROVE  MenuTypes'
    BY <1>2 DEF MenuTypes, ReplyToMenu
<1>3. ASSUME NEW m \in Menus, AskForMenu(m) PROVE MenuTypes'
    BY <1>3 DEF MenuTypes, AskForMenu
<1>4. ASSUME NEW m \in Menus, LeaveMenu(m) PROVE MenuTypes'
    BY <1>4 DEF MenuTypes, LeaveMenu, Replies
<1>5. ASSUME NEW m \in Menus, ActivateItem(m) PROVE MenuTypes'
    BY <1>5 DEF MenuTypes, ActivateItem
<1>6. CASE UNCHANGED menuVars BY <1>6 DEF MenuTypes, menuVars
<1>7. ASSUME ~ UNCHANGED menuVars
      PROVE  \/ LeaveReply
             \/ \E m \in Menus, answer \in Replies : ReplyToMenu(m, answer)
             \/ \E m \in Menus : AskForMenu(m) \/ LeaveMenu(m) \/ ActivateItem(m)
    BY <1>7 DEF GeneralNext, Handler, MainLoop, generalVars, StoreAnswer, ScheduleAdd,
        ScheduleReset, FinishGeneral, FinishAction, OnConnect, OnDisconnect, DispatchIdle
<1> QED BY <1>1, <1>2, <1>3, <1>4, <1>5, <1>6, <1>7

LEMMA GeneralTypeStep ==
    ASSUME GeneralTypeOK, Hands, [GeneralNext]_generalVars
    PROVE  GeneralTypeOK'
BY QueueTypesStep, PlainTypesStep, TableTypesStep, MenuTypesStep, TypesInParts,
   TypesInPartsNext

LEMMA Appended ==
    ASSUME NEW S, NEW s \in Seq(S), NEW e \in S
    PROVE  \A i \in DOMAIN Append(s, e) :
               Append(s, e)[i] = e \/ (i \in DOMAIN s /\ Append(s, e)[i] = s[i])
<1>1. /\ DOMAIN Append(s, e) = 1..(Len(s) + 1) /\ DOMAIN s = 1..Len(s) /\ Len(s) \in Nat
      /\ Append(s, e)[Len(s) + 1] = e
      /\ \A i \in 1..Len(s) : Append(s, e)[i] = s[i]
    OBVIOUS
<1> QED BY <1>1

LEMMA HandsStep ==
    ASSUME GeneralTypeOK, Hands, [GeneralNext]_generalVars
    PROVE  Hands'
<1>0. QueueTypes /\ PlainTypes BY TypesInParts
<1> DEFINE Good(idle) == \/ idle.op = "add" /\ idle.table \in used'
                         \/ idle.op = "remove" /\ idle.table \in used' \cup {None}
                         \/ idle.op = "reset" /\ idle.table = None
<1>1. used \subseteq used'
    BY DEF GeneralNext, Handler, MainLoop, generalVars, emblemVars, StoreAnswer,
        ScheduleAdd, ScheduleReset, FinishGeneral, ReplyToMenu, LeaveReply, FinishAction,
        OnConnect, OnDisconnect, DispatchIdle, AskForMenu, LeaveMenu, ActivateItem
<1>2. \A i \in DOMAIN idles : Good(idles[i]) BY <1>1 DEF Hands
<1>3. /\ emblemPaths' \in used' \cup {None}
      /\ thread' = "idle" => hand' = None
      /\ thread' \in {"stored", "added", "finishing"} => hand' \in used'
      /\ thread' = "replied" => hand' \in Menus
    BY DEF Hands, GeneralNext, Handler, MainLoop, generalVars, threadVars, emblemVars,
        StoreAnswer, TakeRequest,
        ScheduleAdd, ScheduleReset, FinishGeneral, ReplyToMenu, LeaveReply, FinishAction,
        OnConnect, OnDisconnect, DispatchIdle, AskForMenu, LeaveMenu, ActivateItem
<1>4. \/ idles' = idles
      \/ idles # <<>> /\ idles' = Tail(idles)
      \/ \E op \in Ops, t \in Tables \cup {None} :
            idles' = Append(idles, Idle(op, t)) /\ Good(Idle(op, t))
    <2>1. ASSUME NEW op, NEW t PROVE Idle(op, t).op = op /\ Idle(op, t).table = t
        BY DEF Idle
    <2>2. "add" \in Ops /\ "remove" \in Ops /\ "reset" \in Ops BY DEF Ops
    <2>3. /\ emblemPaths \in Tables \cup {None} /\ emblemPaths \in used \cup {None}
          /\ thread = "stored" => hand \in Tables /\ hand \in used
        BY <1>0 DEF Hands, PlainTypes
    <2>4. Good(Idle("remove", emblemPaths)) /\ Good(Idle("reset", None))
        BY <1>1, <2>1, <2>3
    <2>5. thread = "stored" => Good(Idle("add", hand)) BY <1>1, <2>1, <2>3
    <2> HIDE DEF Good
    <2> QED BY <2>2, <2>3, <2>4, <2>5
        DEF GeneralNext, Handler, MainLoop, generalVars, StoreAnswer,
            ScheduleAdd, ScheduleReset, FinishGeneral, ReplyToMenu, LeaveReply, FinishAction,
            OnConnect, OnDisconnect, DispatchIdle, AskForMenu, LeaveMenu, ActivateItem
<1>5. \A i \in DOMAIN idles' : Good(idles'[i])
    <2>0. idles \in Seq([op : Ops, table : Tables \cup {None}]) BY <1>0 DEF QueueTypes
    <2> HIDE DEF Good
    <2>1. CASE idles' = idles BY <1>2, <2>1
    <2>2. CASE idles # <<>> /\ idles' = Tail(idles)
        <3>1. \A i \in DOMAIN Tail(idles) : i + 1 \in DOMAIN idles /\ Tail(idles)[i] = idles[i + 1]
            BY <2>0, <2>2
        <3> QED BY <1>2, <2>2, <3>1
    <2>3. ASSUME NEW op \in Ops, NEW t \in Tables \cup {None},
                 idles' = Append(idles, Idle(op, t)), Good(Idle(op, t))
          PROVE  \A i \in DOMAIN idles' : Good(idles'[i])
        <3>1. \A i \in DOMAIN idles' : \/ idles'[i] = Idle(op, t)
                                       \/ i \in DOMAIN idles /\ idles'[i] = idles[i]
            <4> DEFINE e == Idle(op, t)
            <4>1. idles' = Append(idles, e) BY <2>3
            <4>3. e \in [op : Ops, table : Tables \cup {None}] BY DEF Idle
            <4> HIDE DEF e
            <4>2. \A i \in DOMAIN idles' : idles'[i] = e \/ (i \in DOMAIN idles /\ idles'[i] = idles[i])
                BY <2>0, <4>1, <4>3, Appended
            <4> QED BY <4>2 DEF e
        <3> QED BY <1>2, <2>3, <3>1
    <2> QED BY <1>4, <2>1, <2>2, <2>3
<1> QED BY <1>3, <1>5 DEF Hands

\* How the number of idles with a table follows the three ways the list changes.
LEMMA WithAppended ==
    ASSUME GeneralTypeOK, NEW op \in Ops, NEW u \in Tables \cup {None},
           idles' = Append(idles, Idle(op, u)), NEW t
    PROVE  Cardinality(With(idles, t)') =
               Cardinality(With(idles, t)) + (IF u = t THEN 1 ELSE 0)
<1> DEFINE e == Idle(op, u)
<1>1. e \in [op : Ops, table : Tables \cup {None}] /\ e.table = u BY DEF Idle
<1>2. idles \in Seq([op : Ops, table : Tables \cup {None}]) BY DEF GeneralTypeOK
<1>4. idles' = Append(idles, e) OBVIOUS
<1> HIDE DEF e
<1>3. With(idles, t)' = With(Append(idles, e), t) BY <1>4 DEF With
<1>5. Cardinality(With(Append(idles, e), t)) =
          Cardinality(With(idles, t)) + (IF e.table = t THEN 1 ELSE 0)
    BY <1>1, <1>2, WithAppend
<1> QED BY <1>1, <1>3, <1>5

LEMMA WithDispatched ==
    ASSUME GeneralTypeOK, idles # <<>>, idles' = Tail(idles), NEW t
    PROVE  Cardinality(With(idles, t)') =
               Cardinality(With(idles, t)) - (IF Head(idles).table = t THEN 1 ELSE 0)
<1>1. idles \in Seq([op : Ops, table : Tables \cup {None}]) BY DEF GeneralTypeOK
<1>2. With(idles, t)' = With(Tail(idles), t) BY DEF With
<1> QED BY <1>1, <1>2, WithTail

LEMMA WithUnchanged ==
    ASSUME idles' = idles, NEW t
    PROVE  Cardinality(With(idles, t)') = Cardinality(With(idles, t))
BY DEF With

LEMMA OwnersStep ==
    ASSUME GeneralTypeOK, Hands, [GeneralNext]_generalVars,
           NEW t \in Tables, \A u \in Tables : refs[u] = Owners(u)
    PROVE  refs'[t] = Owners(t)'
<1> DEFINE n == Cardinality(With(idles, t))
           IsKept == IF emblemPaths = t THEN 1 ELSE 0
           InHand == IF hand = t /\ given THEN 1 ELSE 0
<1>1. refs[t] = IsKept + n + InHand BY DEF Owners
<1>2. SUFFICES refs'[t] = IsKept' + Cardinality(With(idles, t)') + InHand'
    BY DEF Owners
<1>3. n \in Nat
    <2>1. idles \in Seq([op : Ops, table : Tables \cup {None}]) BY DEF GeneralTypeOK
    <2> QED BY <2>1, WithFinite
<1>4. t # None /\ t \notin Menus /\ "add" \in Ops /\ "remove" \in Ops /\ "reset" \in Ops
    BY HandlerNames DEF Ops
<1>5. refs \in [Tables -> Int] /\ PlainTypes /\ QueueTypes
    BY TypesInParts DEF TableTypes
<1> DEFINE card == Cardinality(With(idles, t)')
<1> HIDE DEF n, card
<1> SUFFICES refs'[t] = IsKept' + card + InHand' BY DEF card
<1>c. /\ idles' = idles => card = n
      /\ idles # <<>> /\ idles' = Tail(idles) =>
            card = n - (IF Head(idles).table = t THEN 1 ELSE 0)
      /\ \A op \in Ops, u \in Tables \cup {None} :
            idles' = Append(idles, Idle(op, u)) => card = n + (IF u = t THEN 1 ELSE 0)
    BY WithUnchanged, WithDispatched, WithAppended DEF n, card
<1>6. ASSUME NEW u \in Tables, NEW paths \in SUBSET Paths, NEW isGiven \in BOOLEAN,
             StoreAnswer(u, paths, isGiven)
      PROVE  refs'[t] = IsKept' + card + InHand'
    <2>1. /\ u \notin used /\ emblemPaths' = u /\ hand' = u /\ given' = isGiven
          /\ hand = None
          /\ refs' = [refs EXCEPT ![u] = IF isGiven THEN 2 ELSE 1]
          /\ idles' = IF emblemPaths = None THEN idles
                      ELSE Append(idles, Idle("remove", emblemPaths))
        BY <1>6 DEF StoreAnswer, TakeRequest, Hands
    <2>2. card = n + IsKept
        <3>1. emblemPaths \in Tables \cup {None} BY <1>5 DEF PlainTypes
        <3> QED BY <1>3, <1>4, <1>c, <2>1, <3>1
    <2>3. CASE u = t
        <3>1. emblemPaths # t BY <2>1, <2>3, <1>4 DEF Hands
        <3>2. n = 0
            <4>1. With(idles, t) = {}
                BY <2>1, <2>3, <1>4 DEF With, Hands
            <4> QED BY <4>1, FS_EmptySet DEF n
        <3>3. refs'[t] = IF isGiven THEN 2 ELSE 1 BY <1>5, <2>1, <2>3
        <3> QED BY <2>1, <2>2, <2>3, <3>1, <3>2, <3>3
    <2>4. CASE u # t
        <3>1. refs'[t] = refs[t] BY <1>5, <2>1, <2>4
        <3>2. InHand = 0 /\ InHand' = 0 /\ IsKept' = 0 BY <2>1, <2>4, <1>4
        <3> QED BY <1>1, <1>3, <2>2, <3>1, <3>2
    <2> QED BY <2>3, <2>4
<1>7. CASE ScheduleAdd
    <2>1. hand \in Tables BY <1>5, <1>7 DEF ScheduleAdd, Hands, PlainTypes
    <2>2. card = n + (IF hand = t THEN 1 ELSE 0)
        BY <1>4, <1>7, <1>c, <2>1 DEF ScheduleAdd
    <2>3. refs'[t] = refs[t] + (IF hand = t THEN 1 ELSE 0)
        BY <1>5, <1>7, <2>1 DEF ScheduleAdd
    <2>4. IsKept' = IsKept /\ InHand' = InHand BY <1>7 DEF ScheduleAdd
    <2>5. IsKept \in Nat /\ InHand \in Nat OBVIOUS
    <2> HIDE DEF IsKept, InHand
    <2> QED BY <1>1, <1>3, <2>2, <2>3, <2>4, <2>5
<1>8. CASE ScheduleReset
    <2>1. card = n BY <1>3, <1>4, <1>8, <1>c DEF ScheduleReset
    <2>2. refs' = refs /\ IsKept' = IsKept /\ InHand' = InHand
        BY <1>8 DEF ScheduleReset, emblemVars
    <2> QED BY <1>1, <2>1, <2>2
<1>9. CASE FinishGeneral
    <2>1. hand \in Tables BY <1>5, <1>9 DEF FinishGeneral, Hands, PlainTypes
    <2>2. card = n /\ IsKept' = IsKept BY <1>9, <1>c DEF FinishGeneral
    <2>3. refs'[t] = refs[t] - InHand BY <1>5, <1>9, <2>1 DEF FinishGeneral
    <2>4. InHand' = 0 BY <1>4, <1>9 DEF FinishGeneral
    <2>5. IsKept \in Nat /\ InHand \in Nat OBVIOUS
    <2> HIDE DEF IsKept, InHand
    <2> QED BY <1>1, <1>3, <2>2, <2>3, <2>4, <2>5
<1>10. ASSUME NEW m \in Menus, NEW answer \in Replies, ReplyToMenu(m, answer)
      PROVE  refs'[t] = IsKept' + card + InHand'
    <2>1. hand' = m /\ hand = None BY <1>10 DEF ReplyToMenu, TakeRequest, Hands
    <2>2. InHand' = 0 /\ InHand = 0 BY <1>4, <2>1
    <2>3. refs' = refs /\ IsKept' = IsKept /\ card = n
        BY <1>10, <1>c DEF ReplyToMenu, emblemVars
    <2> QED BY <1>1, <2>2, <2>3
<1>11. CASE LeaveReply
    <2>1. hand \in Menus /\ hand' = None BY <1>11 DEF LeaveReply, Hands
    <2>2. InHand' = 0 /\ InHand = 0 BY <1>4, <2>1
    <2>3. refs' = refs /\ IsKept' = IsKept /\ card = n
        BY <1>11, <1>c DEF LeaveReply, emblemVars
    <2> QED BY <1>1, <2>2, <2>3
<1>12. CASE OnDisconnect
    <2>1. emblemPaths \in Tables \cup {None} BY <1>5 DEF PlainTypes
    <2>2. card = n + IsKept BY <1>4, <1>12, <1>c, <2>1 DEF OnDisconnect
    <2>3. refs' = refs /\ IsKept' = 0 /\ InHand' = InHand
        BY <1>4, <1>12 DEF OnDisconnect, threadVars
    <2>5. IsKept \in Nat /\ InHand \in Nat OBVIOUS
    <2> HIDE DEF IsKept, InHand
    <2> QED BY <1>1, <1>3, <2>2, <2>3, <2>5
<1>13. CASE DispatchIdle
    <2> DEFINE taken == IF Head(idles).table = t THEN 1 ELSE 0
    <2>1. card = n - taken BY <1>13, <1>c DEF DispatchIdle
    <2>2. IsKept' = IsKept /\ InHand' = InHand BY <1>13 DEF DispatchIdle, threadVars
    <2>3. refs'[t] = refs[t] - taken
        BY <1>4, <1>5, <1>13, HeadOfIdles
        DEF DispatchIdle, AddEmblemPaths, RemoveEmblemPaths, ResetAllFiles
    <2>5. IsKept \in Nat /\ InHand \in Nat /\ taken \in Nat OBVIOUS
    <2> HIDE DEF IsKept, InHand, taken
    <2> QED BY <1>1, <1>3, <2>1, <2>2, <2>3, <2>5
<1>14. CASE UNCHANGED <<idles, threadVars, emblemVars>>
    <2>1. refs' = refs /\ IsKept' = IsKept /\ card = n /\ InHand' = InHand
        BY <1>14, <1>c DEF threadVars, emblemVars
    <2> QED BY <1>1, <2>1
<1>15. ASSUME FinishAction \/ OnConnect \/ UNCHANGED generalVars
              \/ \E m \in Menus : AskForMenu(m) \/ LeaveMenu(m) \/ ActivateItem(m)
       PROVE  UNCHANGED <<idles, threadVars, emblemVars>>
    BY <1>15 DEF FinishAction, OnConnect, generalVars, AskForMenu, LeaveMenu, ActivateItem
<1> QED BY <1>6, <1>7, <1>8, <1>9, <1>10, <1>11, <1>12, <1>13, <1>14, <1>15
        DEF GeneralNext, Handler, MainLoop

LEMMA TablesInvStep == TablesInv /\ [GeneralNext]_generalVars => TablesInv'
<1> SUFFICES ASSUME TablesInv, [GeneralNext]_generalVars PROVE TablesInv' OBVIOUS
<1>1. GeneralTypeOK /\ Hands /\ \A t \in Tables : refs[t] = Owners(t) BY DEF TablesInv
<1>2. GeneralTypeOK' /\ Hands' BY <1>1, GeneralTypeStep, HandsStep
<1>3. \A t \in Tables : refs'[t] = Owners(t)' BY <1>1, OwnersStep
<1> QED BY <1>2, <1>3 DEF TablesInv

LEMMA TablesInvariant == GeneralSpec => []TablesInv
<1> QED BY TablesInvStep, TablesInvInit, PTL DEF GeneralSpec

(* The handler's data keeps its types whatever the main loop does meanwhile: what
   nautilus-dropbox.c takes from an idle, a request or a reply is of that kind. *)
THEOREM GeneralTypeCorrect == GeneralSpec => []GeneralTypeOK
<1>1. TablesInv => GeneralTypeOK BY DEF TablesInv
<1> QED BY <1>1, TablesInvariant, PTL

(* get_emblem_paths_cb, on_disconnect and the idle callbacks never free an emblem
   path table somebody still holds, and never leak one. *)
THEOREM TablesAreOwned == GeneralSpec => []RefsAreOwned
<1>1. TablesInv => RefsAreOwned BY DEF TablesInv, RefsAreOwned, Owners, With, IdlesWith
<1> QED BY <1>1, TablesInvariant, PTL

-----------------------------------------------------------------------------
(* The menus.                                                              *)

Asked(m) == \E i \in DOMAIN requests : requests[i] = m

\* Each menu is asked for once, and is in the queue or in hand, never in both.
AskedOnce(m) ==
    /\ \A i, j \in DOMAIN requests : requests[i] = m /\ requests[j] = m => i = j
    /\ hand = m => ~Asked(m)
    /\ asker[m] = "new" => ~Asked(m) /\ hand # m

Holders(m) == (IF asker[m] = "waiting" THEN 1 ELSE 0)
                + (IF hand = m \/ Asked(m) THEN 1 ELSE 0)

MenusInv == \A m \in Menus :
    /\ AskedOnce(m)
    /\ queueRefs[m] = Holders(m)
    /\ queueRefs[m] = 0 => reply[m] = "nothing"

LEMMA MenusInvInit == GeneralInit => MenusInv
<1> SUFFICES ASSUME GeneralInit, NEW m \in Menus
             PROVE  /\ AskedOnce(m)
                    /\ queueRefs[m] = Holders(m)
                    /\ queueRefs[m] = 0 => reply[m] = "nothing"
    BY DEF MenusInv
<1>1. requests = <<>> /\ hand = None /\ m # None BY HandlerNames DEF GeneralInit
<1>2. ~Asked(m) BY <1>1 DEF Asked
<1> QED BY <1>1, <1>2 DEF GeneralInit, AskedOnce, Holders

\* What becomes of one menu's entry when a request is taken or added.
LEMMA TakingRequest ==
    ASSUME QueueTypes, requests # <<>>, requests' = Tail(requests), NEW m,
           \A i, j \in DOMAIN requests : requests[i] = m /\ requests[j] = m => i = j
    PROVE  /\ \A i, j \in DOMAIN requests' : requests'[i] = m /\ requests'[j] = m => i = j
           /\ Asked(m)' <=> Asked(m) /\ Head(requests) # m
<1>1. requests \in Seq(Menus \cup Commands) BY DEF QueueTypes
<1>2. /\ DOMAIN Tail(requests) = 1..(Len(requests) - 1) /\ DOMAIN requests = 1..Len(requests)
      /\ Len(requests) \in Nat \ {0} /\ Head(requests) = requests[1]
      /\ \A i \in 1..(Len(requests) - 1) : Tail(requests)[i] = requests[i + 1]
    BY <1>1
<1>3. \A i, j \in DOMAIN requests' : requests'[i] = m /\ requests'[j] = m => i = j
    <2> SUFFICES ASSUME NEW i \in DOMAIN requests', NEW j \in DOMAIN requests',
                        requests'[i] = m, requests'[j] = m
                 PROVE  i = j
        OBVIOUS
    <2>1. i + 1 \in DOMAIN requests /\ j + 1 \in DOMAIN requests BY <1>2
    <2>2. requests[i + 1] = m /\ requests[j + 1] = m BY <1>2
    <2>3. i + 1 = j + 1 BY <2>1, <2>2
    <2> QED BY <1>2, <2>3
<1>4. Asked(m)' <=> \E i \in 2..Len(requests) : requests[i] = m
    <2>1. ASSUME NEW i \in DOMAIN requests', requests'[i] = m
          PROVE  \E k \in 2..Len(requests) : requests[k] = m
        <3>1. i + 1 \in 2..Len(requests) /\ requests[i + 1] = m BY <1>2, <2>1
        <3> QED BY <3>1
    <2>2. ASSUME NEW k \in 2..Len(requests), requests[k] = m
          PROVE  \E i \in DOMAIN requests' : requests'[i] = m
        <3>1. k - 1 \in DOMAIN requests' /\ requests'[k - 1] = m BY <1>2, <2>2
        <3> QED BY <3>1
    <2> QED BY <2>1, <2>2 DEF Asked
<1>5. (\E i \in 2..Len(requests) : requests[i] = m) <=> Asked(m) /\ Head(requests) # m
    <2>1. ASSUME NEW i \in 2..Len(requests), requests[i] = m
          PROVE  Asked(m) /\ Head(requests) # m
        <3>1. i \in DOMAIN requests /\ 1 \in DOMAIN requests /\ i # 1 BY <1>2
        <3>2. requests[1] # m BY <2>1, <3>1
        <3> QED BY <1>2, <2>1, <3>1, <3>2 DEF Asked
    <2>2. ASSUME Asked(m), Head(requests) # m
          PROVE  \E i \in 2..Len(requests) : requests[i] = m
        <3>1. PICK i \in DOMAIN requests : requests[i] = m BY <2>2 DEF Asked
        <3>2. i # 1 BY <1>2, <2>2, <3>1
        <3> QED BY <1>2, <3>1, <3>2
    <2> QED BY <2>1, <2>2
<1> QED BY <1>3, <1>4, <1>5

LEMMA AddingRequest ==
    ASSUME QueueTypes, NEW r \in Menus \cup Commands, requests' = Append(requests, r), NEW m,
           \A i, j \in DOMAIN requests : requests[i] = m /\ requests[j] = m => i = j,
           r = m => ~Asked(m)
    PROVE  /\ \A i, j \in DOMAIN requests' : requests'[i] = m /\ requests'[j] = m => i = j
           /\ Asked(m)' <=> Asked(m) \/ r = m
<1> DEFINE n == Len(requests) + 1
<1>1. requests \in Seq(Menus \cup Commands) BY DEF QueueTypes
<1>2. /\ DOMAIN Append(requests, r) = 1..n /\ DOMAIN requests = 1..Len(requests)
      /\ Len(requests) \in Nat /\ Append(requests, r)[n] = r
      /\ \A i \in 1..Len(requests) : Append(requests, r)[i] = requests[i]
    BY <1>1
<1>3. \A i \in DOMAIN requests' : \/ i = n
                                  \/ i \in DOMAIN requests /\ requests'[i] = requests[i]
    BY <1>2
<1>4. \A i, j \in DOMAIN requests' : requests'[i] = m /\ requests'[j] = m => i = j
    <2>1. CASE r = m
        <3>1. \A i \in DOMAIN requests : requests[i] # m BY <2>1 DEF Asked
        <3>2. \A i \in DOMAIN requests' : requests'[i] = m => i = n BY <1>3, <3>1
        <3> QED BY <3>2
    <2>2. CASE r # m
        <3>1. \A i \in DOMAIN requests' :
                  requests'[i] = m => i \in DOMAIN requests /\ requests[i] = m
            BY <1>2, <1>3, <2>2
        <3> QED BY <3>1
    <2> QED BY <2>1, <2>2
<1>5. Asked(m)' <=> Asked(m) \/ r = m
    <2>1. ASSUME Asked(m)' PROVE Asked(m) \/ r = m
        <3>1. PICK i \in DOMAIN requests' : requests'[i] = m BY <2>1 DEF Asked
        <3> QED BY <1>2, <1>3, <3>1 DEF Asked
    <2>2. ASSUME r = m PROVE Asked(m)'
        <3>1. n \in DOMAIN requests' /\ requests'[n] = m BY <1>2, <2>2
        <3> QED BY <3>1 DEF Asked
    <2>3. ASSUME Asked(m) PROVE Asked(m)'
        <3>1. PICK i \in DOMAIN requests : requests[i] = m BY <2>3 DEF Asked
        <3>2. i \in DOMAIN requests' /\ requests'[i] = m BY <1>2, <3>1
        <3> QED BY <3>2 DEF Asked
    <2> QED BY <2>1, <2>2, <2>3
<1> QED BY <1>4, <1>5

LEMMA MenusInvStep ==
    ASSUME TablesInv, MenusInv, [GeneralNext]_generalVars
    PROVE  MenusInv'
<1>1. /\ QueueTypes /\ PlainTypes /\ MenuTypes /\ Hands
    BY TypesInParts DEF TablesInv
<1> SUFFICES ASSUME NEW m \in Menus
             PROVE  /\ AskedOnce(m)'
                    /\ queueRefs'[m] = Holders(m)'
                    /\ queueRefs'[m] = 0 => reply'[m] = "nothing"
    BY DEF MenusInv
<1>2. /\ \A i, j \in DOMAIN requests : requests[i] = m /\ requests[j] = m => i = j
      /\ hand = m => ~Asked(m)
      /\ asker[m] = "new" => ~Asked(m) /\ hand # m
      /\ queueRefs[m] = Holders(m)
      /\ queueRefs[m] = 0 => reply[m] = "nothing"
    BY DEF MenusInv, AskedOnce
<1>3. m # None /\ m \notin Tables /\ m \notin Commands BY HandlerNames
<1>4. /\ asker \in [Menus -> {"new", "waiting", "shown", "done"}]
      /\ reply \in [Menus -> Replies]
      /\ queueRefs \in [Menus -> Int]
    BY <1>1 DEF MenuTypes
\* Nothing that counts for this menu changes.
<1> DEFINE Same == /\ Asked(m)' <=> Asked(m)
                   /\ \A i, j \in DOMAIN requests' :
                          requests'[i] = m /\ requests'[j] = m => i = j
                   /\ hand' = m <=> hand = m
                   /\ reply'[m] = reply[m] /\ queueRefs'[m] = queueRefs[m]
                   /\ \/ asker'[m] = asker[m]
                      \/ asker[m] = "shown" /\ asker'[m] = "done"
<1>5. Same => /\ AskedOnce(m)'
              /\ queueRefs'[m] = Holders(m)'
              /\ queueRefs'[m] = 0 => reply'[m] = "nothing"
    BY <1>2 DEF AskedOnce, Holders
<1>6. ASSUME UNCHANGED <<requests, menuVars>>, hand' = m <=> hand = m PROVE Same
    BY <1>2, <1>6 DEF menuVars, Asked
<1>7. ASSUME TakeRequest, Head(requests) # m
      PROVE  /\ Asked(m)' <=> Asked(m)
             /\ \A i, j \in DOMAIN requests' : requests'[i] = m /\ requests'[j] = m => i = j
    BY <1>1, <1>2, <1>7, TakingRequest DEF TakeRequest
<1>8. ASSUME NEW r \in Menus \cup Commands, requests' = Append(requests, r), r # m
      PROVE  /\ Asked(m)' <=> Asked(m)
             /\ \A i, j \in DOMAIN requests' : requests'[i] = m /\ requests'[j] = m => i = j
    BY <1>1, <1>2, <1>8, AddingRequest
<1>9. "get_emblem_paths" \in Commands /\ "context_action" \in Commands BY DEF Commands
<1>10. ASSUME NEW u \in Tables, NEW paths \in SUBSET Paths, NEW isGiven \in BOOLEAN,
              StoreAnswer(u, paths, isGiven)
       PROVE  Same
    <2>1. TakeRequest /\ Head(requests) # m BY <1>3, <1>9, <1>10 DEF StoreAnswer
    <2>2. hand # m /\ hand' # m
        BY <1>1, <1>3, <1>10 DEF StoreAnswer, TakeRequest, Hands
    <2>3. UNCHANGED menuVars BY <1>10 DEF StoreAnswer
    <2> QED BY <1>7, <2>1, <2>2, <2>3 DEF menuVars
<1>11. ASSUME FinishAction PROVE Same
    <2>1. TakeRequest /\ Head(requests) # m BY <1>3, <1>9, <1>11 DEF FinishAction
    <2>2. hand' = hand /\ UNCHANGED menuVars BY <1>11 DEF FinishAction, threadVars
    <2> QED BY <1>7, <2>1, <2>2 DEF menuVars
<1>12. ASSUME FinishGeneral PROVE Same
    <2>1. hand # m /\ hand' # m BY <1>1, <1>3, <1>12 DEF FinishGeneral, Hands, PlainTypes
    <2>2. UNCHANGED <<requests, menuVars>> BY <1>12 DEF FinishGeneral
    <2> QED BY <1>6, <2>1, <2>2
<1>13. ASSUME ScheduleAdd \/ ScheduleReset \/ OnDisconnect \/ DispatchIdle
              \/ UNCHANGED generalVars
       PROVE  Same
    <2>1. hand' = hand /\ UNCHANGED <<requests, menuVars>>
        BY <1>13 DEF ScheduleAdd, ScheduleReset, OnDisconnect, DispatchIdle, generalVars, threadVars
    <2> QED BY <1>6, <2>1
<1>14. ASSUME OnConnect PROVE Same
    <2>1. requests' = Append(requests, "get_emblem_paths") /\ hand' = hand /\ UNCHANGED menuVars
        BY <1>14 DEF OnConnect, threadVars
    <2> QED BY <1>3, <1>8, <1>9, <2>1 DEF menuVars
<1>15. ASSUME NEW k \in Menus, ActivateItem(k) PROVE Same
    <2>1. /\ requests' = Append(requests, "context_action") /\ hand' = hand
          /\ reply' = reply /\ queueRefs' = queueRefs
        BY <1>15 DEF ActivateItem, threadVars
    <2>2. \/ asker'[m] = asker[m]
          \/ asker[m] = "shown" /\ asker'[m] = "done"
        BY <1>4, <1>15 DEF ActivateItem
    <2> QED BY <1>3, <1>8, <1>9, <2>1, <2>2
<1>16. ASSUME NEW k \in Menus, NEW answer \in Replies, ReplyToMenu(k, answer)
       PROVE  /\ AskedOnce(m)'
              /\ queueRefs'[m] = Holders(m)'
              /\ queueRefs'[m] = 0 => reply'[m] = "nothing"
    <2>1. /\ TakeRequest /\ Head(requests) = k /\ hand' = k
          /\ reply' = [reply EXCEPT ![k] = answer]
          /\ asker' = asker /\ queueRefs' = queueRefs
        BY <1>16 DEF ReplyToMenu
    <2>2. hand = None BY <1>1, <2>1 DEF TakeRequest, Hands
    <2>3. CASE k # m
        <3>1. Same BY <1>3, <1>4, <1>7, <2>1, <2>2, <2>3
        <3> QED BY <1>5, <3>1
    <2>4. CASE k = m
        <3>1. /\ ~Asked(m)'
              /\ \A i, j \in DOMAIN requests' : requests'[i] = m /\ requests'[j] = m => i = j
            BY <1>1, <1>2, <2>1, <2>4, TakingRequest DEF TakeRequest
        <3>2. Asked(m)
            <4>1. 1 \in DOMAIN requests /\ Head(requests) = requests[1]
                BY <1>1, <2>1 DEF TakeRequest, QueueTypes
            <4> QED BY <2>1, <2>4, <4>1 DEF Asked
        <3>3. asker[m] # "new" BY <1>2, <3>2
        <3>4. Holders(m)' = Holders(m) /\ Holders(m) # 0
            BY <2>1, <2>4, <3>2 DEF Holders
        <3> QED BY <1>2, <2>1, <2>4, <3>1, <3>3, <3>4 DEF AskedOnce
    <2> QED BY <2>3, <2>4
<1>17. CASE LeaveReply
    <2>1. /\ hand \in Menus /\ hand' = None /\ requests' = requests /\ asker' = asker
          /\ queueRefs' = [queueRefs EXCEPT ![hand] = @ - 1]
          /\ reply' = IF queueRefs[hand] = 1 THEN [reply EXCEPT ![hand] = "nothing"] ELSE reply
        BY <1>1, <1>17 DEF LeaveReply, DropQueue, Hands
    <2>2. Asked(m)' <=> Asked(m) BY <2>1 DEF Asked
    <2>3. CASE hand # m
        <3>1. Same BY <1>2, <1>3, <1>4, <2>1, <2>2, <2>3
        <3> QED BY <1>5, <3>1
    <2>4. CASE hand = m
        <3>1. AskedOnce(m)' BY <1>2, <1>3, <2>1, <2>2, <2>4 DEF AskedOnce
        <3>2. queueRefs'[m] = queueRefs[m] - 1 BY <1>4, <2>1, <2>4
        <3>3. Holders(m)' = Holders(m) - 1
            BY <1>2, <1>3, <2>1, <2>2, <2>4 DEF Holders
        <3>4. queueRefs'[m] = 0 => reply'[m] = "nothing"
            BY <1>4, <2>1, <2>4, <3>2
        <3> QED BY <1>2, <3>1, <3>2, <3>3, <3>4
    <2> QED BY <2>3, <2>4
<1>18. ASSUME NEW k \in Menus, AskForMenu(k)
       PROVE  /\ AskedOnce(m)'
              /\ queueRefs'[m] = Holders(m)'
              /\ queueRefs'[m] = 0 => reply'[m] = "nothing"
    <2>1. /\ requests' = Append(requests, k) /\ hand' = hand /\ asker[k] = "new"
          /\ asker' = [asker EXCEPT ![k] = "waiting"]
          /\ queueRefs' = [queueRefs EXCEPT ![k] = 2]
          /\ reply' = reply
        BY <1>18 DEF AskForMenu, threadVars
    <2>2. CASE k # m
        <3>1. Same BY <1>4, <1>8, <2>1, <2>2
        <3> QED BY <1>5, <3>1
    <2>3. CASE k = m
        <3>1. /\ Asked(m)'
              /\ \A i, j \in DOMAIN requests' : requests'[i] = m /\ requests'[j] = m => i = j
            BY <1>1, <1>2, <2>1, <2>3, AddingRequest
        <3>2. hand' # m /\ asker'[m] = "waiting" /\ queueRefs'[m] = 2
            BY <1>2, <1>4, <2>1, <2>3
        <3> QED BY <3>1, <3>2 DEF AskedOnce, Holders
    <2> QED BY <2>2, <2>3
<1>19. ASSUME NEW k \in Menus, LeaveMenu(k)
       PROVE  /\ AskedOnce(m)'
              /\ queueRefs'[m] = Holders(m)'
              /\ queueRefs'[m] = 0 => reply'[m] = "nothing"
    <2>1. /\ requests' = requests /\ hand' = hand /\ asker[k] = "waiting"
          /\ asker' = [asker EXCEPT ![k] = IF reply[k] = "options" THEN "shown" ELSE "done"]
          /\ queueRefs' = [queueRefs EXCEPT ![k] = @ - 1]
          /\ reply' = [reply EXCEPT ![k] = "nothing"]
        BY <1>19 DEF LeaveMenu, threadVars
    <2>2. Asked(m)' <=> Asked(m) BY <2>1 DEF Asked
    <2>3. CASE k # m
        <3>1. Same BY <1>2, <1>4, <2>1, <2>2, <2>3
        <3> QED BY <1>5, <3>1
    <2>4. CASE k = m
        <3>1. /\ asker'[m] \in {"shown", "done"} /\ reply'[m] = "nothing"
              /\ queueRefs'[m] = queueRefs[m] - 1
            BY <1>4, <2>1, <2>4
        <3>2. AskedOnce(m)' BY <1>2, <2>1, <2>2, <3>1 DEF AskedOnce
        <3>3. Holders(m)' = Holders(m) - 1 BY <2>1, <2>2, <2>4, <3>1 DEF Holders
        <3> QED BY <1>2, <3>1, <3>2, <3>3
    <2> QED BY <2>3, <2>4
<1> HIDE DEF Same
<1> QED BY <1>5, <1>10, <1>11, <1>12, <1>13, <1>14, <1>15, <1>16, <1>17, <1>18, <1>19
        DEF GeneralNext, Handler, MainLoop

(* nautilus_dropbox_get_file_items and get_file_items_callback: however late the
   answer to a menu is, its queue is freed when the second of the two leaves it, and
   the answer with it. *)
THEOREM MenuQueuesEnd == GeneralSpec => []ReplyQueuesEnd
<1>1. TablesInv /\ MenusInv /\ [GeneralNext]_generalVars => MenusInv' BY MenusInvStep
<1>2. MenusInv => ReplyQueuesEnd BY DEF MenusInv, ReplyQueuesEnd, Holders, Asked
<1> QED BY <1>1, <1>2, MenusInvInit, TablesInvariant, PTL DEF GeneralSpec

-----------------------------------------------------------------------------
(* The theme.  An idle's effect depends on those before it, so the invariant says  *)
(* what each of them finds: table after table, each added to an icon theme without *)
(* emblem paths and removed from one that has just its own.                        *)

\* The theme has this table's paths, each once; None stands for no table.
ThemeHas(t) == theme = [p \in Paths |-> IF t # None /\ p \in content[t] THEN 1 ELSE 0]

\* The table in the theme after an idle has run, from the one before.
Follows(before, idle, after) ==
    \/ idle.op = "add" /\ before = None /\ after = idle.table
    \/ idle.op = "remove" /\ idle.table # None /\ before = idle.table /\ after = None
    \/ idle.op # "add" /\ idle.table = None /\ after = before

Leads(s, before, after) ==
    \E c \in [0..Len(s) -> Tables \cup {None}] :
        /\ c[0] = before /\ c[Len(s)] = after
        /\ \A i \in 1..Len(s) : Follows(c[i - 1], s[i], c[i])

\* The table in the theme when all that is scheduled so far has run: not yet that of
\* an answer just stored.
Scheduled == IF thread = "stored" THEN None ELSE emblemPaths

ThemeLeads == ~overtaken =>
    /\ thread = "stored" => hand = emblemPaths
    /\ \E t \in used \cup {None} : ThemeHas(t) /\ Leads(idles, t, Scheduled)

\* A reset comes after everything that adds paths.
Redraws ==
    /\ \A i \in DOMAIN idles : idles[i].op = "add" =>
          thread = "added" \/ \E j \in DOMAIN idles : j > i /\ idles[j].op = "reset"
    /\ unshown => thread = "added" \/ \E i \in DOMAIN idles : idles[i].op = "reset"

ThemeInv == TablesInv /\ ThemeLeads /\ Redraws

LEMMA LeadsNowhere == ASSUME NEW b, NEW a PROVE Leads(<<>>, b, a) => b = a
BY DEF Leads

LEMMA LeadsOn ==
    ASSUME NEW s \in Seq(IdleType), NEW e \in IdleType, NEW b, NEW x,
           NEW a \in Tables \cup {None}, Leads(s, b, x), Follows(x, e, a)
    PROVE  Leads(Append(s, e), b, a)
<1> DEFINE n == Len(s) + 1
<1>1. PICK c \in [0..Len(s) -> Tables \cup {None}] :
          /\ c[0] = b /\ c[Len(s)] = x
          /\ \A i \in 1..Len(s) : Follows(c[i - 1], s[i], c[i])
    BY DEF Leads
<1>2. /\ Len(s) \in Nat /\ Len(Append(s, e)) = n /\ Append(s, e)[n] = e
      /\ \A i \in 1..Len(s) : Append(s, e)[i] = s[i]
    OBVIOUS
<1> DEFINE d == [i \in 0..n |-> IF i = n THEN a ELSE c[i]]
<1>3. \A i \in 0..n : i # n => i \in 0..Len(s) BY <1>2
<1>4. d \in [0..n -> Tables \cup {None}] BY <1>3
<1>5. d[0] = b /\ d[n] = a BY <1>1, <1>2
<1>6. ASSUME NEW i \in 1..n PROVE Follows(d[i - 1], Append(s, e)[i], d[i])
    <2>1. CASE i = n
        <3>1. i - 1 = Len(s) /\ d[i - 1] = x /\ d[i] = a BY <1>1, <1>2, <2>1
        <3> QED BY <1>2, <2>1, <3>1
    <2>2. CASE i # n
        <3>1. i \in 1..Len(s) /\ d[i - 1] = c[i - 1] /\ d[i] = c[i] BY <1>2, <2>2
        <3> QED BY <1>1, <1>2, <3>1
    <2> QED BY <2>1, <2>2
<1> HIDE DEF d
<1> QED BY <1>2, <1>4, <1>5, <1>6 DEF Leads

LEMMA LeadsFromHead ==
    ASSUME NEW s \in Seq(IdleType), s # <<>>, NEW b, NEW a, Leads(s, b, a)
    PROVE  \E x \in Tables \cup {None} : Follows(b, Head(s), x) /\ Leads(Tail(s), x, a)
<1>1. PICK c \in [0..Len(s) -> Tables \cup {None}] :
          /\ c[0] = b /\ c[Len(s)] = a
          /\ \A i \in 1..Len(s) : Follows(c[i - 1], s[i], c[i])
    BY DEF Leads
<1> DEFINE n == Len(s) - 1
           d == [i \in 0..n |-> c[i + 1]]
<1>2. /\ Len(s) \in Nat \ {0} /\ Len(Tail(s)) = n /\ Head(s) = s[1] /\ n \in Nat
      /\ \A i \in 1..n : Tail(s)[i] = s[i + 1]
    OBVIOUS
<1>3. \A i \in 0..n : i + 1 \in 0..Len(s) BY <1>2
<1>4. d \in [0..n -> Tables \cup {None}] BY <1>3
<1>5. d[0] = c[1] /\ d[n] = a /\ c[1] \in Tables \cup {None} BY <1>1, <1>2
<1>6. Follows(b, Head(s), c[1])
    <2>1. 1 \in 1..Len(s) /\ 1 - 1 = 0 BY <1>2
    <2> QED BY <1>1, <1>2, <2>1
<1>7. ASSUME NEW i \in 1..n PROVE Follows(d[i - 1], Tail(s)[i], d[i])
    <2>1. i + 1 \in 1..Len(s) /\ (i + 1) - 1 = i /\ d[i - 1] = c[i] /\ d[i] = c[i + 1]
        BY <1>2
    <2>2. Follows(c[i], s[i + 1], c[i + 1]) BY <1>1, <2>1
    <2> QED BY <1>2, <2>1, <2>2
<1> HIDE DEF d
<1>8. Leads(Tail(s), c[1], a) BY <1>2, <1>4, <1>5, <1>7 DEF Leads
<1> QED BY <1>5, <1>6, <1>8

LEMMA ThemeLeadsStep ==
    ASSUME ThemeInv, [GeneralNext]_generalVars, ~overtaken'
    PROVE  ThemeLeads'
<1>1. QueueTypes /\ PlainTypes /\ TableTypes /\ Hands
    BY TypesInParts DEF ThemeInv, TablesInv
<1>2. idles \in Seq(IdleType) BY <1>1 DEF QueueTypes, IdleType
<1>3. ~overtaken
    BY DEF GeneralNext, Handler, MainLoop, generalVars, mainVars, StoreAnswer,
        ScheduleAdd, ScheduleReset, FinishGeneral, ReplyToMenu, LeaveReply, FinishAction,
        OnConnect, OnDisconnect, DispatchIdle, AskForMenu, LeaveMenu, ActivateItem
<1>4. PICK t \in used \cup {None} : ThemeHas(t) /\ Leads(idles, t, Scheduled)
    BY <1>3 DEF ThemeInv, ThemeLeads
<1>5. thread = "stored" => hand = emblemPaths BY <1>3 DEF ThemeInv, ThemeLeads
<1>6. emblemPaths \in Tables \cup {None} BY <1>1 DEF PlainTypes
<1>7. ASSUME NEW op \in Ops, NEW u \in Tables \cup {None}
      PROVE  /\ Idle(op, u) \in IdleType
             /\ Idle(op, u).op = op /\ Idle(op, u).table = u
    BY DEF Idle, IdleType
<1>8. "add" \in Ops /\ "remove" \in Ops /\ "reset" \in Ops BY DEF Ops
\* The theme stays, and the idles lead from there to what is scheduled now.
<1>9. ASSUME theme' = theme, used \subseteq used', Leads(idles', t, Scheduled'),
             \A u \in used : content'[u] = content[u],
             thread' = "stored" => hand' = emblemPaths'
      PROVE  ThemeLeads'
    <2>1. ThemeHas(t)' BY <1>4, <1>9 DEF ThemeHas
    <2> QED BY <1>4, <1>9, <2>1 DEF ThemeLeads
<1>10. ASSUME NEW u \in Tables, NEW paths \in SUBSET Paths, NEW isGiven \in BOOLEAN,
              StoreAnswer(u, paths, isGiven)
       PROVE  ThemeLeads'
    <2>1. /\ thread = "idle" /\ u \notin used /\ used' = used \cup {u}
          /\ content' = [content EXCEPT ![u] = paths]
          /\ idles' = IF emblemPaths = None THEN idles
                      ELSE Append(idles, Idle("remove", emblemPaths))
          /\ thread' = "stored" /\ hand' = u /\ emblemPaths' = u /\ theme' = theme
        BY <1>10 DEF StoreAnswer, TakeRequest, mainVars
    <2>2. \A v \in used : content'[v] = content[v]
        BY <1>1, <2>1 DEF TableTypes, PlainTypes
    <2>3. Scheduled = emblemPaths /\ Scheduled' = None BY <2>1 DEF Scheduled
    <2>4. Leads(idles', t, None)
        <3>1. CASE emblemPaths = None BY <1>4, <2>1, <2>3, <3>1
        <3>2. CASE emblemPaths # None
            <4> DEFINE e == Idle("remove", emblemPaths)
            <4>1. e \in IdleType /\ e.op = "remove" /\ e.table = emblemPaths
                BY <1>6, <1>7, <1>8
            <4>2. idles' = Append(idles, e) BY <2>1, <3>2
            <4> HIDE DEF e
            <4>3. Follows(emblemPaths, e, None) BY <3>2, <4>1 DEF Follows
            <4> QED BY <1>2, <1>4, <2>3, <4>1, <4>2, <4>3, LeadsOn
        <3> QED BY <3>1, <3>2
    <2> QED BY <1>9, <2>1, <2>2, <2>3, <2>4
<1>11. CASE ScheduleAdd
    <2>1. /\ thread = "stored" /\ thread' = "added" /\ emblemPaths' = emblemPaths
          /\ idles' = Append(idles, Idle("add", hand))
          /\ theme' = theme /\ used' = used /\ content' = content
        BY <1>11 DEF ScheduleAdd, mainVars
    <2>2. hand = emblemPaths /\ hand \in Tables BY <1>1, <1>5, <2>1 DEF Hands, PlainTypes
    <2> DEFINE e == Idle("add", hand)
    <2>3. e \in IdleType /\ e.op = "add" /\ e.table = hand BY <1>7, <1>8, <2>2
    <2>4. idles' = Append(idles, e) BY <2>1
    <2> HIDE DEF e
    <2>5. Scheduled = None /\ Scheduled' = hand BY <2>1, <2>2 DEF Scheduled
    <2>6. Follows(None, e, hand) BY <2>3 DEF Follows
    <2>7. Leads(idles', t, hand) BY <1>2, <1>4, <2>2, <2>3, <2>4, <2>5, <2>6, LeadsOn
    <2> QED BY <1>9, <2>1, <2>5, <2>7
<1>12. CASE ScheduleReset
    <2>1. /\ thread = "added" /\ thread' = "finishing" /\ emblemPaths' = emblemPaths
          /\ idles' = Append(idles, Idle("reset", None))
          /\ theme' = theme /\ used' = used /\ content' = content
        BY <1>12 DEF ScheduleReset, mainVars, emblemVars
    <2> DEFINE e == Idle("reset", None)
    <2>3. e \in IdleType /\ e.op = "reset" /\ e.table = None BY <1>7, <1>8
    <2>4. idles' = Append(idles, e) BY <2>1
    <2> HIDE DEF e
    <2>5. Scheduled = emblemPaths /\ Scheduled' = emblemPaths BY <2>1 DEF Scheduled
    <2>6. Follows(emblemPaths, e, emblemPaths) BY <2>3 DEF Follows
    <2>7. Leads(idles', t, emblemPaths) BY <1>2, <1>4, <1>6, <2>3, <2>4, <2>5, <2>6, LeadsOn
    <2> QED BY <1>9, <2>1, <2>5, <2>7
<1>13. CASE OnDisconnect
    <2>1. /\ thread # "stored" /\ thread' = thread /\ emblemPaths' = None
          /\ idles' = Append(idles, Idle("remove", emblemPaths))
          /\ theme' = theme /\ used' = used /\ content' = content
        BY <1>13 DEF OnDisconnect, threadVars
    <2> DEFINE e == Idle("remove", emblemPaths)
    <2>3. e \in IdleType /\ e.op = "remove" /\ e.table = emblemPaths BY <1>6, <1>7, <1>8
    <2>4. idles' = Append(idles, e) BY <2>1
    <2> HIDE DEF e
    <2>5. Scheduled = emblemPaths /\ Scheduled' = None BY <2>1 DEF Scheduled
    <2>6. Follows(emblemPaths, e, None) BY <2>3 DEF Follows
    <2>7. Leads(idles', t, None) BY <1>2, <1>4, <2>3, <2>4, <2>5, <2>6, LeadsOn
    <2> QED BY <1>9, <2>1, <2>5, <2>7
<1>14. CASE DispatchIdle
    <2>1. /\ idles # <<>> /\ idles' = Tail(idles)
          /\ \/ Head(idles).op = "add" /\ AddEmblemPaths(Head(idles).table)
             \/ Head(idles).op = "remove" /\ RemoveEmblemPaths(Head(idles).table)
             \/ Head(idles).op = "reset" /\ ResetAllFiles
          /\ UNCHANGED <<thread, hand, emblemPaths, content, used>>
        BY <1>14 DEF DispatchIdle, threadVars
    <2>2. PICK x \in Tables \cup {None} :
              Follows(t, Head(idles), x) /\ Leads(Tail(idles), x, Scheduled)
        BY <1>2, <1>4, <2>1, LeadsFromHead
    <2>3. Scheduled' = Scheduled BY <2>1 DEF Scheduled
    <2>4. \/ Head(idles).op = "add" /\ Head(idles).table \in used
          \/ Head(idles).op = "remove" /\ Head(idles).table \in used \cup {None}
          \/ Head(idles).op = "reset" /\ Head(idles).table = None
        <3>1. 1 \in DOMAIN idles /\ Head(idles) = idles[1] BY <1>2, <2>1
        <3> QED BY <1>1, <3>1 DEF Hands
    <2>5. None \notin used BY <1>1, HandlerNames DEF PlainTypes
    <2>6. CASE Head(idles).op = "add"
        <3>1. t = None /\ x = Head(idles).table /\ x \in used /\ x # None
            BY <2>2, <2>4, <2>5, <2>6 DEF Follows
        <3>2. theme' = [p \in Paths |-> theme[p] + (IF p \in content[x] THEN 1 ELSE 0)]
            BY <2>1, <2>6, <3>1 DEF AddEmblemPaths
        <3>3. theme = [p \in Paths |-> 0] BY <1>4, <3>1 DEF ThemeHas
        <3>4. \A p \in Paths : theme[p] + (IF p \in content[x] THEN 1 ELSE 0)
                                  = IF x # None /\ p \in content'[x] THEN 1 ELSE 0
            BY <2>1, <3>1, <3>3
        <3>5. ThemeHas(x)' BY <3>2, <3>4 DEF ThemeHas
        <3> QED BY <1>5, <2>1, <2>2, <2>3, <3>1, <3>5 DEF ThemeLeads
    <2>7. CASE Head(idles).op = "remove" /\ Head(idles).table # None
        <3>1. t = Head(idles).table /\ x = None BY <2>2, <2>7 DEF Follows
        <3>2. theme' = [p \in Paths |-> IF p \in content[t] THEN 0 ELSE theme[p]]
            BY <2>1, <2>7, <3>1 DEF RemoveEmblemPaths
        <3>3. \A p \in Paths : (IF p \in content[t] THEN 0 ELSE theme[p]) = 0
            BY <1>4 DEF ThemeHas
        <3>4. ThemeHas(None)' BY <3>2, <3>3 DEF ThemeHas
        <3> QED BY <1>5, <2>1, <2>2, <2>3, <3>1, <3>4 DEF ThemeLeads
    <2>8. CASE Head(idles).op # "add" /\ Head(idles).table = None
        <3>1. x = t BY <2>2, <2>8 DEF Follows
        <3>2. theme' = theme
            BY <2>1, <2>8 DEF RemoveEmblemPaths, ResetAllFiles
        <3> QED BY <1>5, <1>9, <2>1, <2>2, <2>3, <3>1, <3>2
    <2> QED BY <2>4, <2>6, <2>7, <2>8
<1>15. ASSUME UNCHANGED <<idles, theme, emblemPaths, content, used>>,
              thread # "stored", thread' # "stored"
       PROVE  ThemeLeads'
    BY <1>4, <1>9, <1>15 DEF Scheduled
<1>16. CASE UNCHANGED <<idles, theme, emblemPaths, content, used, thread, hand>>
    BY <1>4, <1>5, <1>9, <1>16 DEF Scheduled
<1>17. ASSUME FinishGeneral \/ LeaveReply
              \/ \E m \in Menus, answer \in Replies : ReplyToMenu(m, answer)
       PROVE  /\ UNCHANGED <<idles, theme, emblemPaths, content, used>>
              /\ thread # "stored" /\ thread' # "stored"
    BY <1>17 DEF FinishGeneral, LeaveReply, ReplyToMenu, TakeRequest, emblemVars, mainVars
<1>18. ASSUME FinishAction \/ OnConnect \/ UNCHANGED generalVars
              \/ \E m \in Menus : AskForMenu(m) \/ LeaveMenu(m) \/ ActivateItem(m)
       PROVE  UNCHANGED <<idles, theme, emblemPaths, content, used, thread, hand>>
    BY <1>18 DEF FinishAction, OnConnect, generalVars, AskForMenu, LeaveMenu, ActivateItem,
                 threadVars, emblemVars, mainVars
<1> QED BY <1>10, <1>11, <1>12, <1>13, <1>14, <1>15, <1>16, <1>17, <1>18
        DEF GeneralNext, Handler, MainLoop

LEMMA RedrawsStep ==
    ASSUME ThemeInv, [GeneralNext]_generalVars
    PROVE  Redraws'
<1>1. QueueTypes /\ PlainTypes /\ Redraws
    BY TypesInParts DEF ThemeInv, TablesInv
<1>2. idles \in Seq(IdleType) BY <1>1 DEF QueueTypes, IdleType
<1>3. ASSUME UNCHANGED idles, thread' = "added" <=> thread = "added", unshown' => unshown
      PROVE  Redraws'
    BY <1>1, <1>3 DEF Redraws
<1>4. ASSUME NEW u \in Tables \cup {None}, idles' = Append(idles, Idle("remove", u)),
             thread = "added" => thread' = "added", unshown' => unshown
      PROVE  Redraws'
    <2>1. /\ Len(idles) \in Nat /\ DOMAIN idles = 1..Len(idles)
          /\ DOMAIN idles' = 1..(Len(idles) + 1)
          /\ \A i \in DOMAIN idles : idles'[i] = idles[i]
          /\ idles'[Len(idles) + 1] = Idle("remove", u)
        <3> DEFINE e == Idle("remove", u)
        <3>1. e \in IdleType BY DEF Idle, IdleType, Ops
        <3>2. idles' = Append(idles, e) BY <1>4
        <3> HIDE DEF e
        <3> QED BY <1>2, <3>1, <3>2 DEF e
    <2>2. \A i \in DOMAIN idles' :
              idles'[i].op # "remove" => i \in DOMAIN idles /\ idles'[i] = idles[i]
        BY <2>1 DEF Idle
    <2>3. \A i \in DOMAIN idles : i \in DOMAIN idles' BY <2>1
    <2> QED BY <1>1, <1>4, <2>1, <2>2, <2>3 DEF Redraws
<1>5. CASE \E u \in Tables, paths \in SUBSET Paths, isGiven \in BOOLEAN :
               StoreAnswer(u, paths, isGiven)
    <2>1. /\ thread = "idle" /\ thread' = "stored" /\ unshown' = unshown
          /\ idles' = IF emblemPaths = None THEN idles
                      ELSE Append(idles, Idle("remove", emblemPaths))
        BY <1>5 DEF StoreAnswer, TakeRequest, mainVars
    <2>2. emblemPaths \in Tables \cup {None} BY <1>1 DEF PlainTypes
    <2> QED BY <1>3, <1>4, <2>1, <2>2
<1>6. CASE ScheduleAdd
    BY <1>6 DEF ScheduleAdd, Redraws
<1>7. CASE ScheduleReset
    <2>1. idles' = Append(idles, Idle("reset", None)) BY <1>7 DEF ScheduleReset
    <2>2. /\ Len(idles) \in Nat /\ DOMAIN idles = 1..Len(idles)
          /\ DOMAIN idles' = 1..(Len(idles) + 1)
          /\ idles'[Len(idles) + 1] = Idle("reset", None)
        <3> DEFINE e == Idle("reset", None)
        <3>1. e \in IdleType BY DEF Idle, IdleType, Ops
        <3>2. idles' = Append(idles, e) BY <2>1
        <3> HIDE DEF e
        <3> QED BY <1>2, <3>1, <3>2 DEF e
    <2>3. idles'[Len(idles) + 1].op = "reset" /\ Len(idles) + 1 \in DOMAIN idles'
        BY <2>2 DEF Idle
    <2>4. \A i \in DOMAIN idles' : idles'[i].op = "add" => Len(idles) + 1 > i
        BY <2>2, <2>3
    <2> QED BY <2>3, <2>4 DEF Redraws
<1>8. CASE OnDisconnect
    <2>1. emblemPaths \in Tables \cup {None} BY <1>1 DEF PlainTypes
    <2>2. /\ idles' = Append(idles, Idle("remove", emblemPaths))
          /\ thread' = thread /\ unshown' = FALSE
        BY <1>8 DEF OnDisconnect, threadVars
    <2> QED BY <1>4, <2>1, <2>2
<1>9. CASE DispatchIdle
    <2>1. /\ idles # <<>> /\ idles' = Tail(idles) /\ thread' = thread
          /\ \/ Head(idles).op = "add"
             \/ Head(idles).op = "remove" /\ unshown' = unshown
             \/ Head(idles).op = "reset" /\ unshown' = FALSE
        BY <1>9 DEF DispatchIdle, threadVars, AddEmblemPaths, RemoveEmblemPaths, ResetAllFiles
    <2>2. /\ Len(idles) \in Nat \ {0} /\ DOMAIN idles = 1..Len(idles)
          /\ DOMAIN idles' = 1..(Len(idles) - 1)
          /\ Head(idles) = idles[1] /\ 1 \in DOMAIN idles
          /\ \A i \in DOMAIN idles' : idles'[i] = idles[i + 1]
        BY <1>2, <2>1
    <2>3. \A i \in DOMAIN idles' : i + 1 \in DOMAIN idles BY <2>2
    <2>4. \A j \in DOMAIN idles : j > 1 => j - 1 \in DOMAIN idles' /\ idles'[j - 1] = idles[j]
        BY <2>2
    <2>5. ASSUME NEW i \in DOMAIN idles', idles'[i].op = "add", thread' # "added"
          PROVE  \E j \in DOMAIN idles' : j > i /\ idles'[j].op = "reset"
        <3>1. PICK j \in DOMAIN idles : j > i + 1 /\ idles[j].op = "reset"
            BY <1>1, <2>1, <2>2, <2>3, <2>5 DEF Redraws
        <3>2. j > 1 /\ j - 1 > i BY <2>2, <3>1
        <3> QED BY <2>4, <3>1, <3>2
    <2>6. ASSUME unshown', thread' # "added"
          PROVE  \E i \in DOMAIN idles' : idles'[i].op = "reset"
        <3>1. CASE Head(idles).op = "add"
            <4>1. PICK j \in DOMAIN idles : j > 1 /\ idles[j].op = "reset"
                BY <1>1, <2>1, <2>2, <2>6, <3>1 DEF Redraws
            <4> QED BY <2>4, <4>1
        <3>2. CASE Head(idles).op = "remove" /\ unshown
            <4>1. PICK j \in DOMAIN idles : idles[j].op = "reset"
                BY <1>1, <2>1, <2>6, <3>2 DEF Redraws
            <4>2. j > 1 BY <2>2, <3>2, <4>1
            <4> QED BY <2>4, <4>1, <4>2
        <3> QED BY <2>1, <2>6, <3>1, <3>2
    <2> QED BY <2>5, <2>6 DEF Redraws
<1>10. ASSUME FinishGeneral \/ LeaveReply \/ FinishAction \/ OnConnect \/ UNCHANGED generalVars
              \/ (\E m \in Menus, answer \in Replies : ReplyToMenu(m, answer))
              \/ \E m \in Menus : AskForMenu(m) \/ LeaveMenu(m) \/ ActivateItem(m)
       PROVE  /\ UNCHANGED idles /\ (unshown' => unshown)
              /\ thread' = "added" <=> thread = "added"
    BY <1>10 DEF FinishGeneral, LeaveReply, ReplyToMenu, TakeRequest, FinishAction, OnConnect,
                 generalVars, AskForMenu, LeaveMenu, ActivateItem, threadVars, mainVars
<1> QED BY <1>3, <1>5, <1>6, <1>7, <1>8, <1>9, <1>10 DEF GeneralNext, Handler, MainLoop

LEMMA ThemeInvariant == GeneralSpec => []ThemeInv
<1>1. GeneralInit => ThemeInv
    <2> SUFFICES ASSUME GeneralInit PROVE ThemeLeads /\ Redraws
        BY TablesInvInit DEF ThemeInv
    <2>1. ThemeHas(None) BY DEF GeneralInit, ThemeHas
    <2>2. Leads(idles, None, Scheduled)
        <3> DEFINE c == [i \in 0..0 |-> None]
        <3>1. idles = <<>> /\ Scheduled = None BY DEF GeneralInit, Scheduled
        <3>2. c \in [0..Len(<<>>) -> Tables \cup {None}] /\ c[0] = None /\ Len(<<>>) = 0
            OBVIOUS
        <3> HIDE DEF c
        <3>3. \A i \in 1..Len(<<>>) : Follows(c[i - 1], <<>>[i], c[i]) BY <3>2
        <3> QED BY <3>1, <3>2, <3>3 DEF Leads
    <2> QED BY <2>1, <2>2 DEF GeneralInit, ThemeLeads, Redraws
<1>2. TablesInv /\ [GeneralNext]_generalVars => TablesInv' BY TablesInvStep
<1>3. ThemeInv /\ [GeneralNext]_generalVars => ThemeInv'
    <2> SUFFICES ASSUME ThemeInv, [GeneralNext]_generalVars PROVE ThemeInv' OBVIOUS
    <2>1. ThemeLeads'
        <3>1. CASE overtaken' BY <3>1 DEF ThemeLeads
        <3>2. CASE ~overtaken' BY <3>2, ThemeLeadsStep
        <3> QED BY <3>1, <3>2
    <2> QED BY <1>2, <2>1, RedrawsStep DEF ThemeInv
<1> QED BY <1>1, <1>3, PTL DEF GeneralSpec

(* get_emblem_paths_cb, on_disconnect and the idles that change the icon theme: as
   long as the loss of the connection is never reported between the handler's two
   steps, the theme ends up with the paths of the answer that is kept, whatever was
   answered, replaced and lost before; and paths that are added get drawn. *)
THEOREM ThemeIsOfAnswer == GeneralSpec => []ThemeFollowsAnswer
<1>1. ThemeInv => ThemeFollowsAnswer
    <2> SUFFICES ASSUME ThemeInv PROVE ThemeFollowsAnswer OBVIOUS
    <2>1. ASSUME idles = <<>>, thread = "idle", ~overtaken
          PROVE  ThemeHas(emblemPaths)
        <3>1. PICK t \in used \cup {None} : ThemeHas(t) /\ Leads(idles, t, Scheduled)
            BY <2>1 DEF ThemeInv, ThemeLeads
        <3>2. t = emblemPaths BY <2>1, <3>1, LeadsNowhere DEF Scheduled
        <3> QED BY <3>1, <3>2
    <2>2. unshown => thread = "added" \/ \E i \in DOMAIN idles : idles[i].op = "reset"
        BY DEF ThemeInv, Redraws
    <2> QED BY <2>1, <2>2 DEF ThemeFollowsAnswer, ThemeHas
<1> QED BY <1>1, ThemeInvariant, PTL
=============================================================================
