------------------------ MODULE CommandClientProofs -------------------------
(***************************************************************************)
(* The safety theorems of CommandClient, for every set of requests and     *)
(* every value of the bounds: type correctness, one owner per request,     *)
(* completion in order, that every step is a step of RequestService, and   *)
(* that connects and disconnects are announced in turn.                    *)
(***************************************************************************)
EXTENDS CommandClient, TLAPS

\* Someone still holds the request and will complete it.
Owned(r) == Queued(r) \/ cur = r \/ Posted(r)

HeldWhileExecuting == cur # None <=> pc = "exec"

UnseenBeforePush == mainReq \in FileReqs => ticket[mainReq] = 0

TicketsUpToClock == \A r \in Reqs : ticket[r] <= clock

OwnedIsOpen == \A r \in Reqs : Owned(r) => ticket[r] > 0 /\ finished[r] = 0

RestIsFinished ==
    \A r \in Reqs : ~Owned(r) => finished[r] = (IF ticket[r] > 0 THEN 1 ELSE 0)

\* Tickets grow along the pipeline: completions waiting, request held, queue.
QueueInOrder ==
    \A i, j \in DOMAIN queue :
        i < j /\ queue[i] # Reset /\ queue[j] # Reset
        => ticket[queue[i]] < ticket[queue[j]]

HeldBeforeQueue ==
    cur # None => \A i \in DOMAIN queue :
                      queue[i] # Reset => ticket[cur] < ticket[queue[i]]

IsFinish(i) == idles[i].what = "finish"

PostedInOrder ==
    \A i, j \in DOMAIN idles :
        i < j /\ IsFinish(i) /\ IsFinish(j) => ticket[idles[i].req] < ticket[idles[j].req]

PostedBeforeHeld ==
    cur # None => \A i \in DOMAIN idles : IsFinish(i) => ticket[idles[i].req] < ticket[cur]

PostedBeforeQueue ==
    \A i \in DOMAIN idles, j \in DOMAIN queue :
        IsFinish(i) /\ queue[j] # Reset => ticket[idles[i].req] < ticket[queue[j]]

Pipeline ==
    /\ TicketsUpToClock
    /\ OwnedIsOpen
    /\ RestIsFinished
    /\ QueueInOrder
    /\ HeldBeforeQueue
    /\ PostedInOrder
    /\ PostedBeforeHeld
    /\ PostedBeforeQueue
    /\ CompletedInOrder

IInv == TypeOK /\ HeldWhileExecuting /\ UnseenBeforePush /\ Pipeline

-----------------------------------------------------------------------------
(* What the idle queue can hold. *)

LEMMA NoticesAreIdles ==
    ASSUME NEW w \in {"attempt", "connect", "disconnect"}
    PROVE  /\ Notice(w) \in Idles
           /\ Notice(w).what = w
BY DEF Idles, Notice

LEMMA FinishNoticesAreIdles ==
    ASSUME NEW r \in FileReqs
    PROVE  /\ FinishNotice(r) \in Idles
           /\ FinishNotice(r).what = "finish"
           /\ FinishNotice(r).req = r
BY DEF Idles, FinishNotice

LEMMA IdleShape ==
    ASSUME NEW n \in Idles
    PROVE  \/ /\ n.what \in {"attempt", "connect", "disconnect"}
           \/ /\ n.what = "finish"
              /\ n.req \in FileReqs
              /\ n = FinishNotice(n.req)
BY DEF Idles, Notice, FinishNotice

-----------------------------------------------------------------------------
(* Type correctness. *)

LEMMA InitTyping == Init => TypeOK
<1> SUFFICES ASSUME Init PROVE TypeOK
  OBVIOUS
<1>1. ticket \in [Reqs -> Nat] /\ finished \in [Reqs -> Nat]
  BY DEF Init
<1>2. connected \in BOOLEAN /\ told \in BOOLEAN
  BY DEF Init
<1>3. queue \in Seq(Reqs \cup {Reset}) /\ idles \in Seq(Idles)
  BY DEF Init
<1> QED BY <1>1, <1>2, <1>3 DEF Init, TypeOK, PCs

LEMMA CompleteTyping ==
    ASSUME TypeOK, NEW r \in Reqs, Complete(r)
    PROVE  idles' \in Seq(Idles) /\ finished' \in [Reqs -> Nat]
<1>1. CASE r \in FileReqs /\ IdleAdd(FinishNotice(r)) /\ UNCHANGED finished
  BY <1>1, FinishNoticesAreIdles DEF TypeOK, IdleAdd
<1>2. CASE r \in GeneralReqs /\ finished' = [finished EXCEPT ![r] = @ + 1] /\ UNCHANGED idles
  BY <1>2 DEF TypeOK
<1> QED BY <1>1, <1>2 DEF Complete

LEMMA EndRequestTyping ==
    ASSUME TypeOK, NEW dc \in Reqs \cup {Reset}, EndRequest(dc)
    PROVE  idles' \in Seq(Idles) /\ finished' \in [Reqs -> Nat]
BY CompleteTyping DEF EndRequest, TypeOK

LEMMA Typing == TypeOK /\ [Next]_vars => TypeOK'
<1> SUFFICES ASSUME TypeOK, [Next]_vars PROVE TypeOK'
  OBVIOUS
<1> USE DEF threadVars, historyVars
<1>1. CASE ConnectFail
  BY <1>1, NoticesAreIdles DEF ConnectFail, IdleAdd, TypeOK
<1>2. CASE ConnectOk
  BY <1>2 DEF ConnectOk, TypeOK, PCs
<1>3. CASE FlagUp
  BY <1>3 DEF FlagUp, TypeOK, PCs
<1>4. CASE AnnounceUp
  BY <1>4, NoticesAreIdles DEF AnnounceUp, IdleAdd, TypeOK, PCs
<1>5. CASE Pop
  BY <1>5 DEF Pop, TypeOK, PCs
<1>6. CASE PopTimeout
  BY <1>6 DEF PopTimeout, TypeOK, PCs
<1>7. CASE CheckOk
  BY <1>7 DEF CheckOk, TypeOK, PCs
<1>8. CASE CheckBad
  BY <1>8 DEF CheckBad, TypeOK, PCs
<1>9. CASE ExecOk
  <2>1. cur \in Reqs
    BY <1>9, KindsAreDisjoint DEF ExecOk, Complete, Reqs
  <2>2. idles' \in Seq(Idles) /\ finished' \in [Reqs -> Nat]
    BY <1>9, <2>1, CompleteTyping DEF ExecOk
  <2> QED BY <1>9, <2>2 DEF ExecOk, TypeOK, PCs
<1>10. CASE ExecError
  <2>1. cur \in Reqs \cup {Reset}
    BY <1>10 DEF ExecError, EndRequest, Complete, Reqs
  <2>2. idles' \in Seq(Idles) /\ finished' \in [Reqs -> Nat]
    BY <1>10, <2>1, EndRequestTyping DEF ExecError
  <2> QED BY <1>10, <2>2 DEF ExecError, TypeOK, PCs
<1>11. CASE DrainOne
  <2>1. Head(queue) \in Reqs \cup {Reset} /\ queue' \in Seq(Reqs \cup {Reset})
    BY <1>11 DEF DrainOne, TypeOK
  <2>2. idles' \in Seq(Idles) /\ finished' \in [Reqs -> Nat]
    BY <1>11, <2>1, EndRequestTyping DEF DrainOne
  <2> QED BY <1>11, <2>1, <2>2 DEF DrainOne, TypeOK
<1>12. CASE DrainDone
  BY <1>12 DEF DrainDone, TypeOK, PCs
<1>13. CASE FlagDown
  BY <1>13 DEF FlagDown, TypeOK, PCs
<1>14. CASE AnnounceDown
  BY <1>14, NoticesAreIdles DEF AnnounceDown, IdleAdd, TypeOK, PCs
<1>15. ASSUME NEW r \in GeneralReqs, SubmitGeneral(r) PROVE TypeOK'
  <2>1. r \in Reqs /\ queue' = Append(queue, r)
    BY <1>15 DEF SubmitGeneral, Push, Reqs
  <2>2. queue' \in Seq(Reqs \cup {Reset})
    BY <2>1 DEF TypeOK
  <2>3. clock' \in Nat /\ ticket' \in [Reqs -> Nat]
    BY <1>15, <2>1 DEF SubmitGeneral, Push, TypeOK
  <2> QED BY <1>15, <2>2, <2>3 DEF SubmitGeneral, TypeOK
<1>16. ASSUME NEW r \in FileReqs, SeeConnected(r) PROVE TypeOK'
  BY <1>16 DEF SeeConnected, TypeOK
<1>17. CASE ForceReconnect
  BY <1>17 DEF ForceReconnect, TypeOK
<1>18. CASE PushAfterCheck
  BY <1>18 DEF PushAfterCheck, Push, TypeOK, Reqs
<1>19. CASE Dispatch
  <2>1. Head(idles) \in Idles /\ idles' \in Seq(Idles)
    BY <1>19 DEF Dispatch, TypeOK
  <2>2. told' \in BOOLEAN
    BY <1>19 DEF Dispatch, TypeOK
  <2>3. Head(idles).what = "finish" => Head(idles).req \in Reqs
    BY <2>1, IdleShape DEF Reqs
  <2>4. finished' \in [Reqs -> Nat]
    BY <1>19, <2>3 DEF Dispatch, TypeOK
  <2>5. UNCHANGED <<pc, attempts, cur, queue, connected, mainReq, clock, ticket>>
    BY <1>19 DEF Dispatch
  <2> QED BY <2>1, <2>2, <2>4, <2>5 DEF TypeOK
<1>20. CASE UNCHANGED vars
  BY <1>20 DEF vars, TypeOK
<1> QED
  BY <1>1, <1>2, <1>3, <1>4, <1>5, <1>6, <1>7, <1>8, <1>9, <1>10, <1>11, <1>12, <1>13,
     <1>14, <1>15, <1>16, <1>17, <1>18, <1>19, <1>20
     DEF Next, ThreadStep, Serve, Check, Exec, Drain, MainStep

(* Every variable keeps its type, whatever the requests and the bounds. *)
THEOREM TypeCorrect == Spec => []TypeOK
BY InitTyping, Typing, PTL DEF Spec

-----------------------------------------------------------------------------
(* Sequences. *)

LEMMA TailFacts ==
    ASSUME NEW S, NEW s \in Seq(S), s # <<>>
    PROVE  /\ Tail(s) \in Seq(S)
           /\ 1 \in DOMAIN s /\ Head(s) = s[1] /\ Head(s) \in S
           /\ \A i \in DOMAIN Tail(s) :
                 /\ i \in Nat /\ i + 1 \in DOMAIN s /\ i + 1 # 1
                 /\ Tail(s)[i] = s[i + 1]
           /\ \A i \in DOMAIN s :
                 /\ i \in Nat
                 /\ i # 1 => /\ 1 < i /\ i - 1 \in DOMAIN Tail(s)
                            /\ Tail(s)[i - 1] = s[i]
OBVIOUS

LEMMA AppendFacts ==
    ASSUME NEW S, NEW s \in Seq(S), NEW e \in S
    PROVE  /\ Append(s, e) \in Seq(S)
           /\ \A i \in DOMAIN Append(s, e) :
                 \/ i \in DOMAIN s /\ Append(s, e)[i] = s[i]
                 \/ i = Len(s) + 1 /\ Append(s, e)[i] = e
           /\ \A i \in DOMAIN s :
                 /\ i \in Nat /\ i < Len(s) + 1
                 /\ i \in DOMAIN Append(s, e)
                 /\ Append(s, e)[i] = s[i]
           /\ Len(s) + 1 \in DOMAIN Append(s, e)
           /\ Append(s, e)[Len(s) + 1] = e
OBVIOUS

\* What Posted means, entry by entry.
LEMMA PostedMeans ==
    ASSUME NEW q \in Seq(Idles), NEW r
    PROVE  (\E i \in DOMAIN q : q[i] = FinishNotice(r))
             <=> (\E i \in DOMAIN q : q[i].what = "finish" /\ q[i].req = r)
<1>1. ASSUME NEW i \in DOMAIN q
      PROVE  q[i] = FinishNotice(r) <=> q[i].what = "finish" /\ q[i].req = r
  <2>1. q[i] \in Idles
    OBVIOUS
  <2> QED BY <2>1, IdleShape DEF FinishNotice
<1> QED BY <1>1

-----------------------------------------------------------------------------
(* How each effect of a step moves the pipeline. *)

LEMMA NothingMoves ==
    ASSUME Pipeline, UNCHANGED <<cur, queue, idles, clock, ticket, finished>>
    PROVE  Pipeline'
BY DEF Pipeline, TicketsUpToClock, OwnedIsOpen, RestIsFinished, QueueInOrder,
       HeldBeforeQueue, PostedInOrder, PostedBeforeHeld, PostedBeforeQueue,
       CompletedInOrder, Owned, Queued, Posted, IsFinish

\* A notice that finishes nothing is added.
LEMMA NoticeAdded ==
    ASSUME TypeOK, Pipeline, NEW w \in {"attempt", "connect", "disconnect"},
           IdleAdd(Notice(w)), UNCHANGED <<cur, queue, clock, ticket, finished>>
    PROVE  Pipeline'
<1>1. /\ \A i \in DOMAIN idles' :
            IsFinish(i)' => i \in DOMAIN idles /\ idles'[i] = idles[i] /\ IsFinish(i)
      /\ \A i \in DOMAIN idles : i \in DOMAIN idles' /\ idles'[i] = idles[i]
  BY NoticesAreIdles, AppendFacts DEF TypeOK, IdleAdd, IsFinish
<1>2. \A r : Posted(r)' <=> Posted(r)
  <2>1. idles \in Seq(Idles) /\ idles' \in Seq(Idles)
    BY NoticesAreIdles, AppendFacts DEF TypeOK, IdleAdd
  <2> QED BY <1>1, <2>1, PostedMeans DEF Posted, IsFinish
<1>3. OwnedIsOpen' /\ RestIsFinished' /\ TicketsUpToClock' /\ CompletedInOrder'
  BY <1>2 DEF Pipeline, OwnedIsOpen, RestIsFinished, TicketsUpToClock,
              CompletedInOrder, Owned, Queued
<1>4. QueueInOrder' /\ HeldBeforeQueue'
  BY DEF Pipeline, QueueInOrder, HeldBeforeQueue
<1>5. PostedInOrder'
  BY <1>1 DEF Pipeline, PostedInOrder
<1>6. PostedBeforeHeld' /\ PostedBeforeQueue'
  BY <1>1 DEF Pipeline, PostedBeforeHeld, PostedBeforeQueue
<1> QED BY <1>3, <1>4, <1>5, <1>6 DEF Pipeline

\* A request or a reset token is pushed.
LEMMA Pushed ==
    ASSUME TypeOK, Pipeline, NEW dc \in Reqs \cup {Reset},
           dc # Reset => ticket[dc] = 0,
           Push(dc), UNCHANGED <<cur, idles, finished>>
    PROVE  Pipeline'
<1>1. /\ \A i \in DOMAIN queue' :
            \/ i \in DOMAIN queue /\ queue'[i] = queue[i]
            \/ i = Len(queue) + 1 /\ queue'[i] = dc
      /\ \A i \in DOMAIN queue :
            /\ i \in Nat /\ i < Len(queue) + 1
            /\ i \in DOMAIN queue' /\ queue'[i] = queue[i]
      /\ Len(queue) + 1 \in DOMAIN queue' /\ queue'[Len(queue) + 1] = dc
  BY AppendFacts DEF Push, TypeOK
<1>2. CASE dc = Reset
  <2>1. clock' = clock /\ ticket' = ticket
    BY <1>2 DEF Push
  <2>2. \A r \in Reqs : Owned(r)' <=> Owned(r)
    BY <1>1, <1>2, TokensAreNoRequests DEF Owned, Queued, Posted
  <2>3. OwnedIsOpen' /\ RestIsFinished' /\ TicketsUpToClock' /\ CompletedInOrder'
    BY <2>1, <2>2 DEF Pipeline, OwnedIsOpen, RestIsFinished, TicketsUpToClock,
                      CompletedInOrder
  <2>4. QueueInOrder'
    BY <1>1, <1>2, <2>1 DEF Pipeline, QueueInOrder
  <2>5. HeldBeforeQueue'
    BY <1>1, <1>2, <2>1 DEF Pipeline, HeldBeforeQueue
  <2>6. PostedInOrder' /\ PostedBeforeHeld'
    BY <2>1 DEF Pipeline, PostedInOrder, PostedBeforeHeld, IsFinish
  <2>7. PostedBeforeQueue'
    BY <1>1, <1>2, <2>1 DEF Pipeline, PostedBeforeQueue, IsFinish
  <2> QED BY <2>3, <2>4, <2>5, <2>6, <2>7 DEF Pipeline
<1>3. CASE dc # Reset
  <2>1. dc \in Reqs /\ ticket[dc] = 0 /\ ~Owned(dc) /\ finished[dc] = 0
    BY <1>3 DEF Pipeline, OwnedIsOpen, RestIsFinished
  <2>2. /\ clock' = clock + 1 /\ ticket'[dc] = clock + 1
        /\ \A r \in Reqs : r # dc => ticket'[r] = ticket[r]
        /\ clock \in Nat /\ \A r \in Reqs : ticket[r] \in Nat /\ ticket[r] <= clock
    BY <1>3, <2>1 DEF Push, Pipeline, TicketsUpToClock, TypeOK
  <2>3. Owned(dc)' /\ \A r \in Reqs : r # dc => (Owned(r)' <=> Owned(r))
    BY <1>1, <2>1 DEF Owned, Queued, Posted
  <2>4. \A i \in DOMAIN queue : queue[i] # dc /\ queue[i] \in Reqs \cup {Reset}
    BY <2>1 DEF Owned, Queued, TypeOK
  <2>5. \A i \in DOMAIN idles :
            IsFinish(i) => idles[i].req # dc /\ idles[i].req \in Reqs
    BY <2>1, IdleShape DEF Owned, Posted, IsFinish, Reqs, TypeOK
  <2>6. cur # dc /\ (cur # None => cur \in Reqs)
    BY <2>1 DEF Owned, TypeOK
  <2>7. OwnedIsOpen' /\ RestIsFinished'
    BY <2>1, <2>2, <2>3 DEF Pipeline, OwnedIsOpen, RestIsFinished
  <2>8. TicketsUpToClock'
    BY <2>1, <2>2 DEF TicketsUpToClock
  <2>9. CompletedInOrder'
    BY <2>1, <2>2 DEF Pipeline, CompletedInOrder
  <2>10. QueueInOrder'
    BY <1>1, <2>2, <2>4 DEF Pipeline, QueueInOrder
  <2>11. HeldBeforeQueue'
    BY <1>1, <2>2, <2>4, <2>6 DEF Pipeline, HeldBeforeQueue
  <2>12. PostedInOrder' /\ PostedBeforeHeld'
    BY <2>2, <2>5, <2>6 DEF Pipeline, PostedInOrder, PostedBeforeHeld, IsFinish
  <2>13. PostedBeforeQueue'
    BY <1>1, <2>2, <2>4, <2>5 DEF Pipeline, PostedBeforeQueue, IsFinish
  <2> QED BY <2>7, <2>8, <2>9, <2>10, <2>11, <2>12, <2>13 DEF Pipeline
<1> QED BY <1>2, <1>3

\* What the head of the queue leaves behind.
LEMMA QueueTail ==
    ASSUME TypeOK, queue # <<>>, queue' = Tail(queue)
    PROVE  /\ Head(queue) = queue[1] /\ 1 \in DOMAIN queue
           /\ Head(queue) \in Reqs \cup {Reset}
           /\ \A i \in DOMAIN queue' :
                 /\ i \in Nat /\ i + 1 \in DOMAIN queue
                 /\ 1 < i + 1 /\ queue'[i] = queue[i + 1]
           /\ \A r : Queued(r) => r = Head(queue) \/ Queued(r)'
           /\ \A r : Queued(r)' => Queued(r)
           /\ \A i \in DOMAIN queue' : queue'[i] \in Reqs \cup {Reset}
<1>1. /\ queue \in Seq(Reqs \cup {Reset}) /\ Tail(queue) \in Seq(Reqs \cup {Reset})
      /\ \A i \in DOMAIN queue' : i \in Nat /\ 1 < i + 1
      /\ \A i \in DOMAIN queue' : queue'[i] \in Reqs \cup {Reset}
  BY TailFacts DEF TypeOK
<1>2. /\ Head(queue) = queue[1] /\ 1 \in DOMAIN queue
      /\ Head(queue) \in Reqs \cup {Reset}
      /\ \A i \in DOMAIN queue' : i + 1 \in DOMAIN queue /\ queue'[i] = queue[i + 1]
      /\ \A i \in DOMAIN queue :
            i # 1 => i - 1 \in DOMAIN queue' /\ queue'[i - 1] = queue[i]
  BY <1>1, TailFacts
<1>3. \A r : Queued(r) => r = Head(queue) \/ Queued(r)'
  BY <1>2 DEF Queued
<1>4. \A r : Queued(r)' => Queued(r)
  BY <1>2 DEF Queued
<1> QED BY <1>1, <1>2, <1>3, <1>4

\* A reset token is taken from the queue.
LEMMA TokenTaken ==
    ASSUME TypeOK, Pipeline, queue # <<>>, queue' = Tail(queue), Head(queue) = Reset,
           UNCHANGED <<cur, idles, clock, ticket, finished>>
    PROVE  Pipeline'
<1>1. \A r \in Reqs : Owned(r)' <=> Owned(r)
  BY QueueTail, TokensAreNoRequests DEF Owned, Posted
<1>2. OwnedIsOpen' /\ RestIsFinished' /\ TicketsUpToClock' /\ CompletedInOrder'
  BY <1>1 DEF Pipeline, OwnedIsOpen, RestIsFinished, TicketsUpToClock, CompletedInOrder
<1>3. QueueInOrder'
  <2> SUFFICES ASSUME NEW i \in DOMAIN queue', NEW j \in DOMAIN queue',
                      i < j, queue'[i] # Reset, queue'[j] # Reset
               PROVE  ticket[queue'[i]] < ticket[queue'[j]]
    BY DEF QueueInOrder
  <2>1. /\ i + 1 \in DOMAIN queue /\ j + 1 \in DOMAIN queue /\ i + 1 < j + 1
        /\ queue'[i] = queue[i + 1] /\ queue'[j] = queue[j + 1]
    BY QueueTail
  <2> QED BY <2>1 DEF Pipeline, QueueInOrder
<1>4. HeldBeforeQueue' /\ PostedBeforeQueue'
  BY QueueTail DEF Pipeline, HeldBeforeQueue, PostedBeforeQueue, IsFinish
<1>5. PostedInOrder' /\ PostedBeforeHeld'
  BY DEF Pipeline, PostedInOrder, PostedBeforeHeld, IsFinish
<1> QED BY <1>2, <1>3, <1>4, <1>5 DEF Pipeline

\* A request is taken from the queue by an idle thread.
LEMMA RequestTaken ==
    ASSUME TypeOK, Pipeline, queue # <<>>, queue' = Tail(queue), Head(queue) # Reset,
           cur = None, cur' = Head(queue),
           UNCHANGED <<idles, clock, ticket, finished>>
    PROVE  Pipeline'
<1>1. cur' \in Reqs /\ cur' = queue[1] /\ 1 \in DOMAIN queue /\ cur' # None
  BY QueueTail, TokensAreNoRequests
<1>2. \A r \in Reqs : Owned(r)' <=> Owned(r)
  <2>1. \A r : Posted(r)' <=> Posted(r)
    BY DEF Posted
  <2>2. Queued(cur')
    BY <1>1 DEF Queued
  <2> QED BY <1>1, <2>1, <2>2, QueueTail, TokensAreNoRequests DEF Owned
<1>3. OwnedIsOpen' /\ RestIsFinished' /\ TicketsUpToClock' /\ CompletedInOrder'
  BY <1>2 DEF Pipeline, OwnedIsOpen, RestIsFinished, TicketsUpToClock, CompletedInOrder
<1>4. QueueInOrder'
  <2> SUFFICES ASSUME NEW i \in DOMAIN queue', NEW j \in DOMAIN queue',
                      i < j, queue'[i] # Reset, queue'[j] # Reset
               PROVE  ticket[queue'[i]] < ticket[queue'[j]]
    BY DEF QueueInOrder
  <2>1. /\ i + 1 \in DOMAIN queue /\ j + 1 \in DOMAIN queue /\ i + 1 < j + 1
        /\ queue'[i] = queue[i + 1] /\ queue'[j] = queue[j + 1]
    BY QueueTail
  <2> QED BY <2>1 DEF Pipeline, QueueInOrder
<1>5. HeldBeforeQueue'
  BY <1>1, QueueTail DEF Pipeline, HeldBeforeQueue, QueueInOrder
<1>6. PostedBeforeQueue'
  BY QueueTail DEF Pipeline, PostedBeforeQueue, IsFinish
<1>7. PostedBeforeHeld'
  BY <1>1 DEF Pipeline, PostedBeforeQueue, PostedBeforeHeld, IsFinish
<1>8. PostedInOrder'
  BY DEF Pipeline, PostedInOrder, IsFinish
<1> QED BY <1>3, <1>4, <1>5, <1>6, <1>7, <1>8 DEF Pipeline

\* The foremost request of the thread and its queue is completed.
LEMMA ForemostCompleted ==
    ASSUME TypeOK, Pipeline, NEW r \in Reqs, Complete(r), UNCHANGED <<clock, ticket>>,
           Queued(r) \/ cur = r,
           cur' = None,
           \A s \in Reqs : Queued(s)' <=> (Queued(s) \/ cur = s) /\ s # r,
           \A i \in DOMAIN idles : IsFinish(i) => ticket[idles[i].req] < ticket[r],
           \A i \in DOMAIN queue' : queue'[i] # Reset => /\ queue'[i] \in Reqs
                                                         /\ ticket[r] < ticket[queue'[i]],
           QueueInOrder'
    PROVE  Pipeline'
<1>1. /\ finished[r] = 0 /\ ticket[r] > 0
      /\ \A s \in Reqs : ticket[s] \in Nat /\ finished[s] \in Nat
  BY DEF Pipeline, OwnedIsOpen, Owned, TypeOK
<1>2. ~Posted(r)
  <2>1. ASSUME NEW i \in DOMAIN idles PROVE idles[i] # FinishNotice(r)
    BY <1>1 DEF IsFinish, FinishNotice
  <2> QED BY <2>1 DEF Posted
<1>3. \A i \in DOMAIN idles : IsFinish(i) => idles[i].req \in Reqs
  BY IdleShape, SMTT(30) DEF IsFinish, Reqs, TypeOK
<1>4. \A s \in Reqs : cur' # s
  BY TokensAreNoRequests
<1>5. TicketsUpToClock' /\ HeldBeforeQueue' /\ PostedBeforeHeld'
  BY DEF Pipeline, TicketsUpToClock, HeldBeforeQueue, PostedBeforeHeld
<1>6. CASE /\ r \in FileReqs
           /\ IdleAdd(FinishNotice(r))
           /\ UNCHANGED finished
  <2>1. /\ \A i \in DOMAIN idles' :
               \/ i \in DOMAIN idles /\ idles'[i] = idles[i]
               \/ i = Len(idles) + 1 /\ idles'[i] = FinishNotice(r)
        /\ \A i \in DOMAIN idles :
               /\ i \in Nat /\ i < Len(idles) + 1
               /\ i \in DOMAIN idles' /\ idles'[i] = idles[i]
        /\ Len(idles) + 1 \in DOMAIN idles' /\ idles'[Len(idles) + 1] = FinishNotice(r)
        /\ Len(idles) + 1 \in Nat
    BY <1>6, AppendFacts, FinishNoticesAreIdles DEF IdleAdd, TypeOK
  <2>2. \A s \in Reqs : Posted(s)' <=> Posted(s) \/ s = r
    <3>1. \A s : FinishNotice(s) = FinishNotice(r) => s = r
      BY DEF FinishNotice
    <3> QED BY <2>1, <3>1 DEF Posted
  <2>3. \A s \in Reqs : Owned(s)' <=> Owned(s)
    BY <1>2, <1>4, <2>2 DEF Owned
  <2>4. OwnedIsOpen' /\ RestIsFinished' /\ CompletedInOrder'
    BY <1>6, <2>3 DEF Pipeline, OwnedIsOpen, RestIsFinished, CompletedInOrder
  <2>5. PostedInOrder'
    BY <2>1, FinishNoticesAreIdles, <1>6 DEF Pipeline, PostedInOrder, IsFinish
  <2>6. PostedBeforeQueue'
    <3> SUFFICES ASSUME NEW i \in DOMAIN idles', NEW j \in DOMAIN queue',
                        IsFinish(i)', queue'[j] # Reset
                 PROVE  ticket[idles'[i].req] < ticket[queue'[j]]
      BY DEF PostedBeforeQueue
    <3>1. queue'[j] \in Reqs /\ ticket[r] < ticket[queue'[j]]
      OBVIOUS
    <3>2. CASE i \in DOMAIN idles /\ idles'[i] = idles[i]
      BY <1>1, <1>3, <3>1, <3>2 DEF IsFinish
    <3>3. CASE idles'[i] = FinishNotice(r)
      BY <1>6, <3>1, <3>3, FinishNoticesAreIdles
    <3> QED BY <2>1, <3>2, <3>3
  <2> QED BY <1>5, <2>4, <2>5, <2>6 DEF Pipeline
<1>7. CASE /\ r \in GeneralReqs
           /\ finished' = [finished EXCEPT ![r] = @ + 1]
           /\ UNCHANGED idles
  <2>1. /\ finished'[r] = 1
        /\ \A s \in Reqs : s # r => finished'[s] = finished[s]
    BY <1>1, <1>7 DEF TypeOK
  <2>2. ~Owned(r)' /\ \A s \in Reqs : s # r => (Owned(s)' <=> Owned(s))
    BY <1>2, <1>4, <1>7 DEF Owned, Posted
  <2>3. OwnedIsOpen' /\ RestIsFinished'
    BY <1>1, <2>1, <2>2 DEF Pipeline, OwnedIsOpen, RestIsFinished
  <2>4. PostedInOrder'
    BY <1>7 DEF Pipeline, PostedInOrder, IsFinish
  <2>5. PostedBeforeQueue'
    BY <1>1, <1>3, <1>7 DEF PostedBeforeQueue, IsFinish
  <2>6. ASSUME NEW s \in Reqs, s \in GeneralReqs, 0 < ticket[s], ticket[s] < ticket[r]
        PROVE  finished[s] = 1
    <3>1. ~Posted(s)
      <4>1. ASSUME NEW i \in DOMAIN idles PROVE idles[i] # FinishNotice(s)
        BY IdleShape, KindsAreDisjoint, <2>6, SMTT(30) DEF FinishNotice, TypeOK
      <4> QED BY <4>1 DEF Posted
    <3>2. ~Queued(s)'
      BY <1>1, <2>6, TokensAreNoRequests DEF Queued
    <3>3. ~Owned(s)
      BY <1>1, <2>6, <3>1, <3>2 DEF Owned
    <3> QED BY <2>6, <3>3 DEF Pipeline, RestIsFinished
  <2>7. CompletedInOrder'
    <3> SUFFICES ASSUME NEW s \in Reqs, NEW t \in Reqs,
                        s \in FileReqs <=> t \in FileReqs,
                        0 < ticket[s], ticket[s] < ticket[t], finished'[t] > 0
                 PROVE  finished'[s] = 1
      BY DEF CompletedInOrder
    <3>1. CASE t = r
      <4>1. s \in GeneralReqs /\ s # r
        BY <1>1, <1>7, <3>1, KindsAreDisjoint DEF Reqs
      <4> QED BY <2>1, <2>6, <3>1, <4>1
    <3>2. CASE t # r
      <4>1. finished[s] = 1
        BY <2>1, <3>2 DEF Pipeline, CompletedInOrder
      <4> QED BY <1>1, <2>1, <4>1
    <3> QED BY <3>1, <3>2
  <2> QED BY <1>5, <2>3, <2>4, <2>5, <2>7 DEF Pipeline
<1> QED BY <1>6, <1>7 DEF Complete

\* The main loop dispatches the oldest idle.
LEMMA IdleTail ==
    ASSUME TypeOK, idles # <<>>, idles' = Tail(idles)
    PROVE  /\ Head(idles) = idles[1] /\ 1 \in DOMAIN idles /\ Head(idles) \in Idles
           /\ \A i \in DOMAIN idles' :
                 /\ i \in Nat /\ i + 1 \in DOMAIN idles
                 /\ 1 < i + 1 /\ idles'[i] = idles[i + 1]
           /\ \A r : Posted(r) => Head(idles) = FinishNotice(r) \/ Posted(r)'
           /\ \A r : Posted(r)' => Posted(r)
<1>1. /\ idles \in Seq(Idles) /\ Tail(idles) \in Seq(Idles)
      /\ \A i \in DOMAIN idles' : i \in Nat /\ 1 < i + 1
  BY TailFacts DEF TypeOK
<1>2. /\ Head(idles) = idles[1] /\ 1 \in DOMAIN idles /\ Head(idles) \in Idles
      /\ \A i \in DOMAIN idles' : i + 1 \in DOMAIN idles /\ idles'[i] = idles[i + 1]
      /\ \A i \in DOMAIN idles :
            i # 1 => i - 1 \in DOMAIN idles' /\ idles'[i - 1] = idles[i]
  BY <1>1, TailFacts
<1>3. \A r : Posted(r) => Head(idles) = FinishNotice(r) \/ Posted(r)'
  <2>1. ASSUME NEW r, NEW i \in DOMAIN idles, idles[i] = FinishNotice(r)
        PROVE  Head(idles) = FinishNotice(r) \/ Posted(r)'
    <3>1. CASE i = 1
      BY <1>2, <2>1, <3>1
    <3>2. CASE i # 1
      BY <1>2, <2>1, <3>2 DEF Posted
    <3> QED BY <3>1, <3>2
  <2> QED BY <2>1 DEF Posted
<1>4. \A r : Posted(r)' => Posted(r)
  BY <1>2 DEF Posted
<1> QED BY <1>1, <1>2, <1>3, <1>4

\* The idle's order among those that remain, whatever it was.
LEMMA RemainingIdles ==
    ASSUME TypeOK, Pipeline, idles # <<>>, idles' = Tail(idles),
           UNCHANGED <<cur, queue, clock, ticket>>
    PROVE  /\ TicketsUpToClock' /\ QueueInOrder' /\ HeldBeforeQueue'
           /\ PostedInOrder' /\ PostedBeforeHeld' /\ PostedBeforeQueue'
<1>1. TicketsUpToClock' /\ QueueInOrder' /\ HeldBeforeQueue'
  BY DEF Pipeline, TicketsUpToClock, QueueInOrder, HeldBeforeQueue
<1>2. PostedInOrder'
  <2> SUFFICES ASSUME NEW i \in DOMAIN idles', NEW j \in DOMAIN idles',
                      i < j, IsFinish(i)', IsFinish(j)'
               PROVE  ticket[idles'[i].req] < ticket[idles'[j].req]
    BY DEF PostedInOrder
  <2>1. /\ i + 1 \in DOMAIN idles /\ j + 1 \in DOMAIN idles /\ i + 1 < j + 1
        /\ idles'[i] = idles[i + 1] /\ idles'[j] = idles[j + 1]
    BY IdleTail
  <2> QED BY <2>1 DEF Pipeline, PostedInOrder, IsFinish
<1>3. PostedBeforeHeld' /\ PostedBeforeQueue'
  BY IdleTail DEF Pipeline, PostedBeforeHeld, PostedBeforeQueue, IsFinish
<1> QED BY <1>1, <1>2, <1>3

LEMMA NoticeDispatched ==
    ASSUME TypeOK, Pipeline, idles # <<>>, idles' = Tail(idles),
           Head(idles).what # "finish",
           UNCHANGED <<cur, queue, clock, ticket, finished>>
    PROVE  Pipeline'
<1>1. \A r \in Reqs : Owned(r)' <=> Owned(r)
  BY IdleTail DEF Owned, Queued, FinishNotice
<1>2. OwnedIsOpen' /\ RestIsFinished' /\ CompletedInOrder'
  BY <1>1 DEF Pipeline, OwnedIsOpen, RestIsFinished, CompletedInOrder
<1> QED BY <1>2, RemainingIdles DEF Pipeline

LEMMA CompletionDispatched ==
    ASSUME TypeOK, Pipeline, idles # <<>>, idles' = Tail(idles),
           Head(idles).what = "finish",
           finished' = [finished EXCEPT ![Head(idles).req] = @ + 1],
           UNCHANGED <<cur, queue, clock, ticket>>
    PROVE  Pipeline'
<1>0. PICK r : r = Head(idles).req
  OBVIOUS
<1>1. r \in FileReqs /\ r \in Reqs /\ Head(idles) = FinishNotice(r)
  BY <1>0, IdleTail, IdleShape DEF Reqs
<1>2. Posted(r) /\ IsFinish(1) /\ idles[1].req = r /\ 1 \in DOMAIN idles
  BY <1>0, <1>1, IdleTail DEF Posted, IsFinish
<1>3. finished[r] = 0 /\ \A s \in Reqs : ticket[s] \in Nat /\ finished[s] \in Nat
  BY <1>1, <1>2 DEF Pipeline, OwnedIsOpen, Owned, TypeOK
<1>4. /\ finished'[r] = 1
      /\ \A s \in Reqs : s # r => finished'[s] = finished[s]
  BY <1>0, <1>1, <1>3 DEF TypeOK
<1>5. \A i \in DOMAIN idles' :
          IsFinish(i)' => idles'[i].req \in Reqs /\ ticket[r] < ticket[idles'[i].req]
  <2> SUFFICES ASSUME NEW i \in DOMAIN idles', IsFinish(i)'
               PROVE  idles'[i].req \in Reqs /\ ticket[r] < ticket[idles'[i].req]
    OBVIOUS
  <2>1. i + 1 \in DOMAIN idles /\ 1 < i + 1 /\ idles'[i] = idles[i + 1] /\ i \in Nat
    BY IdleTail
  <2>2. IsFinish(i + 1) /\ idles[i + 1] \in Idles
    BY <2>1 DEF IsFinish, TypeOK
  <2> QED BY <1>2, <2>1, <2>2, IdleShape DEF Pipeline, PostedInOrder, IsFinish, Reqs
<1>6. \A s \in Reqs : Posted(s)' => ticket[r] < ticket[s]
  BY <1>5 DEF Posted, IsFinish, FinishNotice
<1>7. \A s \in Reqs : Queued(s) \/ cur = s => ticket[r] < ticket[s]
  BY <1>2, TokensAreNoRequests
     DEF Pipeline, PostedBeforeQueue, PostedBeforeHeld, Queued
<1>8. \A s \in Reqs : Owned(s)' <=> Owned(s) /\ s # r
  <2>1. ~Owned(r)'
    BY <1>1, <1>3, <1>6, <1>7 DEF Owned, Queued
  <2>2. ASSUME NEW s \in Reqs, s # r PROVE Posted(s)' <=> Posted(s)
    BY <1>1, <2>2, IdleTail DEF FinishNotice
  <2> QED BY <1>7, <2>1, <2>2 DEF Owned, Queued
<1>9. OwnedIsOpen' /\ RestIsFinished'
  <2>1. ticket[r] > 0
    BY <1>1, <1>2 DEF Pipeline, OwnedIsOpen, Owned
  <2> QED BY <1>4, <1>8, <2>1 DEF Pipeline, OwnedIsOpen, RestIsFinished
<1>10. CompletedInOrder'
  <2> SUFFICES ASSUME NEW s \in Reqs, NEW t \in Reqs,
                      s \in FileReqs <=> t \in FileReqs,
                      0 < ticket[s], ticket[s] < ticket[t], finished'[t] > 0
               PROVE  finished'[s] = 1
    BY DEF CompletedInOrder
  <2>1. CASE t = r
    <3>1. ~Owned(s) /\ s # r
      BY <1>2, <1>3, <1>6, <1>7, <1>8, <2>1 DEF Owned, Queued
    <3>2. finished[s] = 1
      BY <3>1 DEF Pipeline, RestIsFinished
    <3> QED BY <1>4, <3>1, <3>2
  <2>2. CASE t # r
    <3>1. finished[s] = 1
      BY <1>4, <2>2 DEF Pipeline, CompletedInOrder
    <3> QED BY <1>3, <1>4, <3>1
  <2> QED BY <2>1, <2>2
<1> QED BY <1>9, <1>10, RemainingIdles DEF Pipeline

-----------------------------------------------------------------------------
(* The inductive invariant. *)

LEMMA InitInvariant == Init => IInv
<1> SUFFICES ASSUME Init PROVE IInv
  OBVIOUS
<1>1. /\ cur = None /\ queue = <<>> /\ idles = <<>> /\ clock = 0
      /\ \A r \in Reqs : ticket[r] = 0 /\ finished[r] = 0
  BY DEF Init
<1>2. HeldWhileExecuting /\ UnseenBeforePush
  BY TokensAreNoRequests DEF Init, HeldWhileExecuting, UnseenBeforePush, Reqs
<1>3. \A r \in Reqs : ~Owned(r)
  BY <1>1, TokensAreNoRequests DEF Owned, Queued, Posted
<1>4. TicketsUpToClock /\ OwnedIsOpen /\ RestIsFinished /\ CompletedInOrder
  BY <1>1, <1>3 DEF TicketsUpToClock, OwnedIsOpen, RestIsFinished, CompletedInOrder
<1>5. QueueInOrder /\ HeldBeforeQueue /\ PostedInOrder /\ PostedBeforeHeld
        /\ PostedBeforeQueue
  BY <1>1 DEF QueueInOrder, HeldBeforeQueue, PostedInOrder, PostedBeforeHeld,
              PostedBeforeQueue
<1> QED BY <1>2, <1>4, <1>5, InitTyping DEF IInv, Pipeline

LEMMA ExecCompletes ==
    ASSUME IInv, pc = "exec", Complete(cur), cur' = None,
           UNCHANGED <<queue, clock, ticket>>
    PROVE  Pipeline'
<1>1. PICK r \in Reqs : r = cur
  BY TokensAreNoRequests DEF IInv, HeldWhileExecuting, TypeOK
<1>2. r # None
  BY <1>1, TokensAreNoRequests
<1>3. ~Queued(r)
  <2>1. ticket[r] \in Nat
    BY DEF IInv, TypeOK
  <2> QED BY <1>1, <1>2, <2>1, TokensAreNoRequests DEF IInv, Pipeline, HeldBeforeQueue, Queued
<1>4. \A s \in Reqs : Queued(s)' <=> (Queued(s) \/ cur = s) /\ s # r
  BY <1>1, <1>3 DEF Queued
<1>5. \A i \in DOMAIN idles : IsFinish(i) => ticket[idles[i].req] < ticket[r]
  BY <1>1, <1>2 DEF IInv, Pipeline, PostedBeforeHeld
<1>6. \A i \in DOMAIN queue' :
          queue'[i] # Reset => queue'[i] \in Reqs /\ ticket[r] < ticket[queue'[i]]
  BY <1>1, <1>2 DEF IInv, Pipeline, HeldBeforeQueue, TypeOK
<1>7. QueueInOrder'
  BY DEF IInv, Pipeline, QueueInOrder
<1> QED BY <1>1, <1>4, <1>5, <1>6, <1>7, ForemostCompleted DEF IInv

LEMMA DrainCompletes ==
    ASSUME IInv, pc = "drain", queue # <<>>, queue' = Tail(queue), Head(queue) # Reset,
           Complete(Head(queue)), UNCHANGED <<cur, clock, ticket>>
    PROVE  Pipeline'
<1> USE DEF IInv
<1>1. PICK r \in Reqs : r = Head(queue) /\ r = queue[1] /\ 1 \in DOMAIN queue
  BY QueueTail
<1>2. cur = None
  BY DEF HeldWhileExecuting
<1>3. r # Reset
  BY <1>1
<1>4. \A i \in DOMAIN queue' :
          queue'[i] # Reset => queue'[i] \in Reqs /\ ticket[r] < ticket[queue'[i]]
  BY <1>1, <1>3, QueueTail DEF Pipeline, QueueInOrder
<1>5. Queued(r) /\ ~Queued(r)'
  <2>1. Queued(r)
    BY <1>1 DEF Queued
  <2>2. ticket[r] \in Nat
    BY DEF TypeOK
  <2> QED BY <1>3, <1>4, <2>1, <2>2 DEF Queued
<1>6. \A s \in Reqs : Queued(s)' <=> (Queued(s) \/ cur = s) /\ s # r
  BY <1>1, <1>2, <1>5, QueueTail, TokensAreNoRequests
<1>7. \A i \in DOMAIN idles : IsFinish(i) => ticket[idles[i].req] < ticket[r]
  BY <1>1, <1>3 DEF Pipeline, PostedBeforeQueue
<1>8. QueueInOrder'
  <2> SUFFICES ASSUME NEW i \in DOMAIN queue', NEW j \in DOMAIN queue',
                      i < j, queue'[i] # Reset, queue'[j] # Reset
               PROVE  ticket[queue'[i]] < ticket[queue'[j]]
    BY DEF QueueInOrder
  <2>1. /\ i + 1 \in DOMAIN queue /\ j + 1 \in DOMAIN queue /\ i + 1 < j + 1
        /\ queue'[i] = queue[i + 1] /\ queue'[j] = queue[j + 1]
    BY QueueTail
  <2> QED BY <2>1 DEF Pipeline, QueueInOrder
<1>9. Complete(r) /\ cur' = None
  BY <1>1, <1>2
<1> QED BY <1>4, <1>5, <1>6, <1>7, <1>8, <1>9, ForemostCompleted

LEMMA Inductive == IInv /\ [Next]_vars => IInv'
<1> SUFFICES ASSUME IInv, [Next]_vars PROVE IInv'
  OBVIOUS
<1>1. TypeOK /\ TypeOK'
  BY Typing DEF IInv
<1>2. SUFFICES HeldWhileExecuting' /\ UnseenBeforePush' /\ Pipeline'
  BY <1>1 DEF IInv
<1> USE DEF IInv, HeldWhileExecuting, UnseenBeforePush, threadVars, historyVars
<1>3. CASE ConnectFail
  BY <1>1, <1>3, NoticeAdded DEF ConnectFail
<1>4. CASE ConnectOk
  BY <1>4, NothingMoves DEF ConnectOk
<1>5. CASE FlagUp
  BY <1>5, NothingMoves DEF FlagUp
<1>6. CASE AnnounceUp
  BY <1>1, <1>6, NoticeAdded DEF AnnounceUp
<1>7. CASE Pop
  <2>1. queue # <<>> /\ queue' = Tail(queue) /\ cur = None
        /\ Head(queue) \in Reqs \cup {Reset}
    BY <1>7, QueueTail DEF Pop
  <2>2. CASE Head(queue) = Reset
    BY <1>7, <2>1, <2>2, TokenTaken DEF Pop
  <2>3. CASE Head(queue) # Reset
    <3>1. Pipeline'
      BY <1>7, <2>1, <2>3, RequestTaken DEF Pop
    <3> QED BY <1>7, <2>1, <2>3, <3>1, TokensAreNoRequests DEF Pop
  <2> QED BY <2>2, <2>3
<1>8. CASE PopTimeout
  BY <1>8, NothingMoves DEF PopTimeout
<1>9. CASE CheckOk
  BY <1>9, NothingMoves DEF CheckOk
<1>10. CASE CheckBad
  BY <1>10, NothingMoves DEF CheckBad
<1>11. CASE ExecOk
  BY <1>11, ExecCompletes DEF ExecOk
<1>12. CASE ExecError
  <2>1. cur # Reset
    BY <1>1, <1>12, TokensAreNoRequests DEF ExecError, TypeOK
  <2>2. Complete(cur)
    BY <1>12, <2>1 DEF ExecError, EndRequest
  <2> QED BY <1>12, <2>2, ExecCompletes DEF ExecError
<1>13. CASE DrainOne
  <2>1. CASE Head(queue) = Reset
    BY <1>13, <2>1, TokenTaken DEF DrainOne, EndRequest
  <2>2. CASE Head(queue) # Reset
    BY <1>13, <2>2, DrainCompletes DEF DrainOne, EndRequest
  <2> QED BY <1>13, <2>1, <2>2 DEF DrainOne
<1>14. CASE DrainDone
  BY <1>14, NothingMoves DEF DrainDone
<1>15. CASE FlagDown
  BY <1>15, NothingMoves DEF FlagDown
<1>16. CASE AnnounceDown
  BY <1>1, <1>16, NoticeAdded DEF AnnounceDown
<1>17. ASSUME NEW r \in GeneralReqs, SubmitGeneral(r)
       PROVE  HeldWhileExecuting' /\ UnseenBeforePush' /\ Pipeline'
  <2>1. Pipeline'
    BY <1>1, <1>17, Pushed DEF SubmitGeneral, Reqs
  <2> QED BY <1>17, <2>1, TokensAreNoRequests DEF SubmitGeneral, Reqs
<1>18. ASSUME NEW r \in FileReqs, SeeConnected(r)
       PROVE  HeldWhileExecuting' /\ UnseenBeforePush' /\ Pipeline'
  BY <1>18, NothingMoves DEF SeeConnected
<1>19. CASE ForceReconnect
  BY <1>19, NothingMoves, TokensAreNoRequests DEF ForceReconnect, Reqs
<1>20. CASE PushAfterCheck
  <2>1. mainReq \in Reqs \cup {Reset}
    BY <1>1, <1>20 DEF PushAfterCheck, TypeOK, Reqs
  <2>2. mainReq # Reset => ticket[mainReq] = 0
    BY <1>1, <1>20 DEF PushAfterCheck, TypeOK
  <2>3. Pipeline'
    BY <1>1, <1>20, <2>1, <2>2, Pushed DEF PushAfterCheck
  <2> QED BY <1>20, <2>3, TokensAreNoRequests DEF PushAfterCheck, Reqs
<1>21. CASE Dispatch
  <2>1. Pipeline'
    <3>1. idles # <<>> /\ idles' = Tail(idles)
          /\ UNCHANGED <<cur, queue, clock, ticket>>
      BY <1>21 DEF Dispatch
    <3>2. CASE Head(idles).what # "finish"
      BY <1>1, <1>21, <3>1, <3>2, NoticeDispatched DEF Dispatch
    <3>3. CASE Head(idles).what = "finish"
      BY <1>1, <1>21, <3>1, <3>3, CompletionDispatched DEF Dispatch
    <3> QED BY <3>2, <3>3
  <2> QED BY <1>21, <2>1 DEF Dispatch
<1>22. CASE UNCHANGED vars
  BY <1>22, NothingMoves DEF vars
<1> QED
  BY <1>3, <1>4, <1>5, <1>6, <1>7, <1>8, <1>9, <1>10, <1>11, <1>12, <1>13, <1>14, <1>15,
     <1>16, <1>17, <1>18, <1>19, <1>20, <1>21, <1>22
     DEF Next, ThreadStep, Serve, Check, Exec, Drain, MainStep

(* The pipeline from queue to completion is in order in every reachable state. *)
THEOREM InvariantHolds == Spec => []IInv
BY InitInvariant, Inductive, PTL DEF Spec

(* No file info request or general command overtakes an earlier one of its kind:
   the completions (idle or in the thread) happen in the order of the pushes. *)
THEOREM OrderHolds == Spec => []CompletedInOrder
<1>1. IInv => CompletedInOrder
  BY DEF IInv, Pipeline
<1> QED BY <1>1, InvariantHolds, PTL

(* No request is lost, and none is completed (and freed) twice: every pushed
   request is queued, held by the thread, waiting as an idle, or completed, and
   never two of these. *)
THEOREM OneOwnerHolds == Spec => []OneOwner
<1>1. IInv => OneOwner
  <2> SUFFICES ASSUME IInv, NEW r \in Reqs
               PROVE  LET places ==
                            {w \in {"new", "queued", "held", "posted", "finished"} :
                               \/ w = "new" /\ ticket[r] = 0
                               \/ w = "queued" /\ Queued(r)
                               \/ w = "held" /\ cur = r
                               \/ w = "posted" /\ Posted(r)
                               \/ w = "finished" /\ finished[r] = 1}
                      IN finished[r] <= 1 /\ \E w \in places : places = {w}
    BY DEF OneOwner
  <2> USE DEF IInv, Pipeline
  <2>1. ticket[r] \in Nat /\ finished[r] \in Nat /\ r # None /\ r # Reset
    BY TokensAreNoRequests DEF TypeOK
  <2>2. ~(Queued(r) /\ cur = r)
    BY <2>1 DEF HeldBeforeQueue, Queued
  <2>3. Posted(r) => \E i \in DOMAIN idles : IsFinish(i) /\ idles[i].req = r
    BY DEF Posted, IsFinish, FinishNotice
  <2>4. ~(Posted(r) /\ cur = r)
    BY <2>1, <2>3 DEF PostedBeforeHeld
  <2>5. ~(Posted(r) /\ Queued(r))
    BY <2>1, <2>3 DEF PostedBeforeQueue, Queued
  <2>6. /\ Owned(r) => ticket[r] # 0 /\ finished[r] = 0
        /\ ~Owned(r) /\ ticket[r] = 0 => finished[r] = 0
        /\ ~Owned(r) /\ ticket[r] # 0 => finished[r] = 1
    BY <2>1 DEF OwnedIsOpen, RestIsFinished
  <2> HIDE DEF IInv, Pipeline
  <2>7. finished[r] <= 1
    BY <2>1, <2>6
  <2>8. CASE Queued(r)
    BY <2>2, <2>5, <2>6, <2>7, <2>8 DEF Owned
  <2>9. CASE cur = r
    BY <2>2, <2>4, <2>6, <2>7, <2>9 DEF Owned
  <2>10. CASE Posted(r)
    BY <2>4, <2>5, <2>6, <2>7, <2>10 DEF Owned
  <2>11. CASE ~Owned(r)
    BY <2>6, <2>7, <2>11 DEF Owned
  <2> QED BY <2>8, <2>9, <2>10, <2>11 DEF Owned
<1> QED BY <1>1, InvariantHolds, PTL

-----------------------------------------------------------------------------
(* The refinement. *)

\* A completion of r in the main loop or the thread is a Complete(r) of the service.
LEMMA CompletionRefines ==
    ASSUME IInv, IInv', NEW r \in Reqs, ticket[r] > 0, finished[r] = 0,
           finished' = [finished EXCEPT ![r] = @ + 1], UNCHANGED <<clock, ticket>>
    PROVE  Service!Next
<1>1. /\ \A s \in Reqs : ticket[s] \in Nat /\ finished[s] \in Nat
      /\ finished \in [Reqs -> Nat]
  BY DEF IInv, TypeOK
<1>2. finished' = [finished EXCEPT ![r] = 1]
  BY <1>1
<1>3. ASSUME NEW s \in Reqs, Service!SameKind(r, s), ticket[s] > 0, ticket[s] < ticket[r]
      PROVE  finished[s] = 1
  <2>1. finished'[r] > 0 /\ finished'[s] = finished[s]
    BY <1>1, <1>2, <1>3
  <2>2. finished'[s] = 1
    BY <1>3, <2>1 DEF IInv, Pipeline, CompletedInOrder, Service!SameKind
  <2> QED BY <2>1, <2>2
<1>4. Service!Complete(r)
  BY <1>2, <1>3 DEF Service!Complete, Service!Reqs, Reqs
<1> QED BY <1>4 DEF Service!Next, Service!Reqs, Reqs

LEMMA PushRefines ==
    ASSUME TypeOK, NEW r \in Reqs, ticket[r] = 0, Push(r), UNCHANGED finished
    PROVE  Service!Next
BY TokensAreNoRequests
   DEF Push, Service!Next, Service!Submit, Service!Reqs, Reqs

LEMMA StepRefines == IInv /\ [Next]_vars => [Service!Next]_(Service!vars)
<1> SUFFICES ASSUME IInv, [Next]_vars PROVE [Service!Next]_(Service!vars)
  OBVIOUS
<1>1. IInv' /\ TypeOK
  BY Inductive DEF IInv
<1>2. CASE UNCHANGED <<clock, ticket, finished>>
  BY <1>2 DEF Service!vars
<1>3. ASSUME NEW r \in GeneralReqs, SubmitGeneral(r)
      PROVE  Service!Next
  BY <1>1, <1>3, PushRefines DEF SubmitGeneral, Reqs
<1>4. CASE PushAfterCheck
  <2>1. CASE mainReq = Reset
    BY <1>2, <1>4, <2>1 DEF PushAfterCheck, Push
  <2>2. CASE mainReq # Reset
    <3>1. mainReq \in Reqs /\ ticket[mainReq] = 0
      BY <1>1, <1>4, <2>2 DEF PushAfterCheck, TypeOK, Reqs, IInv, UnseenBeforePush
    <3> QED BY <1>1, <1>4, <3>1, PushRefines DEF PushAfterCheck
  <2> QED BY <2>1, <2>2
<1>5. CASE Dispatch
  <2>1. CASE Head(idles).what # "finish"
    BY <1>2, <1>5, <2>1 DEF Dispatch
  <2>2. CASE Head(idles).what = "finish"
    <3>1. PICK r : r = Head(idles).req
      OBVIOUS
    <3>2. /\ r \in Reqs /\ Head(idles) = FinishNotice(r)
          /\ Head(idles) = idles[1] /\ 1 \in DOMAIN idles
      BY <1>1, <1>5, <2>2, <3>1, IdleTail, IdleShape DEF Dispatch, Reqs
    <3>3. Owned(r)
      BY <3>2 DEF Owned, Posted
    <3>4. ticket[r] > 0 /\ finished[r] = 0
      BY <3>2, <3>3 DEF IInv, Pipeline, OwnedIsOpen
    <3> QED BY <1>1, <1>5, <2>2, <3>1, <3>2, <3>4, CompletionRefines DEF Dispatch
  <2> QED BY <2>1, <2>2
<1>6. ASSUME NEW r \in Reqs, Complete(r), Owned(r), UNCHANGED <<clock, ticket>>
      PROVE  [Service!Next]_(Service!vars)
  <2>1. ticket[r] > 0 /\ finished[r] = 0
    BY <1>6 DEF IInv, Pipeline, OwnedIsOpen
  <2> QED BY <1>1, <1>2, <1>6, <2>1, CompletionRefines DEF Complete
<1>7. CASE pc = "exec" /\ Complete(cur) /\ UNCHANGED <<clock, ticket>>
  <2>1. cur \in Reqs
    BY <1>1, <1>7, TokensAreNoRequests DEF TypeOK, IInv, HeldWhileExecuting
  <2> QED BY <1>6, <1>7, <2>1 DEF Owned
<1>8. CASE ExecError
  BY <1>1, <1>7, <1>8, TokensAreNoRequests DEF ExecError, EndRequest, TypeOK
<1>9. CASE DrainOne
  <2>1. CASE Head(queue) = Reset
    BY <1>2, <1>9, <2>1 DEF DrainOne, EndRequest
  <2>2. CASE Head(queue) # Reset
    <3>1. Head(queue) \in Reqs /\ Queued(Head(queue))
      BY <1>1, <1>9, <2>2, QueueTail DEF DrainOne, Queued
    <3> QED BY <1>6, <1>9, <2>2, <3>1 DEF DrainOne, EndRequest, Owned
  <2> QED BY <2>1, <2>2
<1>10. CASE ThreadStep
  BY <1>2, <1>7, <1>8, <1>9, <1>10
     DEF ThreadStep, Serve, Check, Exec, Drain, ConnectFail, ConnectOk, FlagUp,
         AnnounceUp, Pop, PopTimeout, CheckOk, CheckBad, ExecOk, DrainDone, FlagDown,
         AnnounceDown, historyVars
<1>11. CASE MainStep
  BY <1>2, <1>3, <1>4, <1>5, <1>11
     DEF MainStep, SeeConnected, ForceReconnect, historyVars
<1> QED BY <1>2, <1>10, <1>11 DEF Next, vars

(* The thread, its queue and its idles implement RequestService: whatever happens
   to connections, requests are submitted once and completed once, in order. *)
THEOREM ImplementsService == Spec => ServiceSpec
<1>1. Init => Service!Init
  BY DEF Init, Service!Init, Service!Reqs, Reqs
<1> QED BY <1>1, StepRefines, InvariantHolds, PTL DEF Spec, ServiceSpec, Service!Spec

-----------------------------------------------------------------------------
(* The announcements.                                                       *)

Tells(e) == e.what \in {"connect", "disconnect"}

\* BelievedAfter of any list of idles and any belief to begin with.
Believes(s, b, n) ==
    \/ b = TRUE /\ \A i \in 1..n : ~Tells(s[i])
    \/ \E i \in 1..n : s[i].what = "connect" /\ \A j \in 1..n : Tells(s[j]) => j <= i

LEMMA BelievedMeans ==
    ASSUME TypeOK, NEW n
    PROVE  BelievedAfter(n) <=> Believes(idles, told, n)
<1> DEFINE before == {i \in 1..n : Announcement(i)}
<1>1. told = TRUE \/ told = FALSE BY DEF TypeOK
<1>2. CASE before = {}
    BY <1>1, <1>2 DEF BelievedAfter, Believes, Announcement, Tells
<1>3. CASE before # {}
    <2>1. \E i \in 1..n : Tells(idles[i]) BY <1>3 DEF Announcement, Tells
    <2>2. BelievedAfter(n) <=> \E i \in before : idles[i].what = "connect" /\ \A j \in before : j <= i
        BY <1>3 DEF BelievedAfter
    <2>3. \A i \in 1..n : idles[i].what = "connect" => i \in before BY DEF Announcement
    <2> QED BY <2>1, <2>2, <2>3 DEF Believes, Announcement, Tells
<1> QED BY <1>2, <1>3

LEMMA BelievesNothing == ASSUME NEW s, NEW b PROVE Believes(s, b, 0) <=> b = TRUE
BY DEF Believes

LEMMA BelievesAppend ==
    ASSUME NEW s \in Seq(Idles), NEW e \in Idles, NEW b
    PROVE  /\ \A n \in 0..Len(s) : Believes(Append(s, e), b, n) <=> Believes(s, b, n)
           /\ Believes(Append(s, e), b, Len(s) + 1) <=>
                  IF Tells(e) THEN e.what = "connect" ELSE Believes(s, b, Len(s))
<1> DEFINE m == Len(s) + 1
<1>1. /\ m \in Nat /\ Len(s) \in Nat
      /\ Append(s, e)[m] = e
      /\ \A i \in 1..Len(s) : Append(s, e)[i] = s[i]
    OBVIOUS
<1>2. ASSUME NEW n \in 0..Len(s) PROVE Believes(Append(s, e), b, n) <=> Believes(s, b, n)
    <2>1. \A i \in 1..n : Append(s, e)[i] = s[i] BY <1>1
    <2> QED BY <2>1 DEF Believes
<1>3. \A i \in 1..m : i = m \/ i \in 1..Len(s) BY <1>1
<1>4. CASE Tells(e)
    <2>1. ASSUME e.what = "connect" PROVE Believes(Append(s, e), b, m)
        <3>1. m \in 1..m /\ \A j \in 1..m : j <= m BY <1>1
        <3> QED BY <1>1, <2>1, <3>1 DEF Believes
    <2>2. ASSUME Believes(Append(s, e), b, m) PROVE e.what = "connect"
        <3>1. m \in 1..m /\ Tells(Append(s, e)[m]) BY <1>1, <1>4
        <3>2. PICK i \in 1..m : Append(s, e)[i].what = "connect"
                                  /\ \A j \in 1..m : Tells(Append(s, e)[j]) => j <= i
            BY <2>2, <3>1 DEF Believes
        <3>3. m <= i BY <3>1, <3>2
        <3>4. i = m BY <1>1, <3>3
        <3> QED BY <1>1, <3>2, <3>4
    <2> QED BY <1>2, <1>4, <2>1, <2>2
<1>5. CASE ~Tells(e)
    <2>1. e.what # "connect" BY <1>5 DEF Tells
    <2>2. \A i \in 1..m : Tells(Append(s, e)[i]) => i \in 1..Len(s) BY <1>1, <1>3, <1>5
    <2>3. \A i \in 1..m : Append(s, e)[i].what = "connect" => i \in 1..Len(s)
        BY <1>1, <1>3, <2>1
    <2>4. 1..Len(s) \subseteq 1..m BY <1>1
    <2>5. Believes(Append(s, e), b, m) <=> Believes(s, b, Len(s))
        BY <1>1, <2>2, <2>3, <2>4 DEF Believes
    <2> QED BY <1>2, <1>5, <2>5
<1> QED BY <1>4, <1>5

LEMMA BelievesTail ==
    ASSUME NEW s \in Seq(Idles), s # <<>>, NEW b, NEW c,
           c = IF Tells(Head(s)) THEN Head(s).what = "connect" ELSE b,
           NEW n \in 0..(Len(s) - 1)
    PROVE  Believes(Tail(s), c, n) <=> Believes(s, b, n + 1)
<1>1. /\ Len(s) \in Nat \ {0} /\ Head(s) = s[1] /\ n \in Nat
      /\ \A i \in 1..n : i + 1 \in 2..(n + 1) /\ Tail(s)[i] = s[i + 1]
    OBVIOUS
<1>2. \A i \in 2..(n + 1) : i - 1 \in 1..n /\ Tail(s)[i - 1] = s[i] BY <1>1
<1>3. \A i \in 1..(n + 1) : i = 1 \/ i \in 2..(n + 1) BY <1>1
<1>4. 1 \in 1..(n + 1) /\ 2..(n + 1) \subseteq 1..(n + 1) BY <1>1
<1>5. (\A i \in 1..n : ~Tells(Tail(s)[i])) <=> (\A i \in 2..(n + 1) : ~Tells(s[i]))
    BY <1>1, <1>2
<1>6. (\E i \in 1..n : /\ Tail(s)[i].what = "connect"
                       /\ \A j \in 1..n : Tells(Tail(s)[j]) => j <= i)
        <=> (\E i \in 2..(n + 1) : /\ s[i].what = "connect"
                                   /\ \A j \in 1..(n + 1) : Tells(s[j]) => j <= i)
    <2>1. ASSUME NEW i \in 1..n, Tail(s)[i].what = "connect",
                 \A j \in 1..n : Tells(Tail(s)[j]) => j <= i
          PROVE  \E k \in 2..(n + 1) : /\ s[k].what = "connect"
                                       /\ \A j \in 1..(n + 1) : Tells(s[j]) => j <= k
        <3>1. i + 1 \in 2..(n + 1) /\ s[i + 1].what = "connect" BY <1>1, <2>1
        <3>2. ASSUME NEW j \in 1..(n + 1), Tells(s[j]) PROVE j <= i + 1
            <4>1. CASE j = 1 BY <4>1
            <4>2. CASE j \in 2..(n + 1)
                <5>1. j - 1 \in 1..n /\ Tells(Tail(s)[j - 1]) BY <1>2, <3>2, <4>2
                <5>2. j - 1 <= i BY <2>1, <5>1
                <5> QED BY <5>2
            <4> QED BY <1>3, <4>1, <4>2
        <3> QED BY <3>1, <3>2
    <2>2. ASSUME NEW i \in 2..(n + 1), s[i].what = "connect",
                 \A j \in 1..(n + 1) : Tells(s[j]) => j <= i
          PROVE  \E k \in 1..n : /\ Tail(s)[k].what = "connect"
                                 /\ \A j \in 1..n : Tells(Tail(s)[j]) => j <= k
        <3>1. i - 1 \in 1..n /\ Tail(s)[i - 1].what = "connect" BY <1>2, <2>2
        <3>2. ASSUME NEW j \in 1..n, Tells(Tail(s)[j]) PROVE j <= i - 1
            <4>1. j + 1 \in 1..(n + 1) /\ Tells(s[j + 1]) BY <1>1, <1>4, <3>2
            <4>2. j + 1 <= i BY <2>2, <4>1
            <4> QED BY <4>2
        <3> QED BY <3>1, <3>2
    <2> QED BY <2>1, <2>2
<1>7. CASE \E i \in 2..(n + 1) : Tells(s[i])
    <2>1. Believes(Tail(s), c, n) <=>
              \E i \in 2..(n + 1) : /\ s[i].what = "connect"
                                    /\ \A j \in 1..(n + 1) : Tells(s[j]) => j <= i
        BY <1>5, <1>6, <1>7 DEF Believes
    <2>2. ~ \A j \in 1..(n + 1) : Tells(s[j]) => j <= 1 BY <1>4, <1>7
    <2>3. ~ \A i \in 1..(n + 1) : ~Tells(s[i]) BY <1>4, <1>7
    <2> QED BY <1>3, <1>4, <2>1, <2>2, <2>3 DEF Believes
<1>8. CASE \A i \in 2..(n + 1) : ~Tells(s[i])
    <2>1. \A i \in 2..(n + 1) : s[i].what # "connect" BY <1>8 DEF Tells
    <2>2. Believes(Tail(s), c, n) <=> c = TRUE BY <1>5, <1>6, <1>8, <2>1 DEF Believes
    <2>3. Believes(s, b, n + 1) <=> IF Tells(s[1]) THEN s[1].what = "connect" ELSE b = TRUE
        <3>1. \A j \in 1..(n + 1) : Tells(s[j]) => j <= 1 BY <1>3, <1>8
        <3>2. (\A i \in 1..(n + 1) : ~Tells(s[i])) <=> ~Tells(s[1]) BY <1>3, <1>4, <1>8
        <3>3. (\E i \in 1..(n + 1) : s[i].what = "connect"
                                        /\ \A j \in 1..(n + 1) : Tells(s[j]) => j <= i)
                <=> s[1].what = "connect"
            BY <1>3, <1>4, <2>1, <3>1
        <3>4. s[1].what = "connect" => Tells(s[1]) BY DEF Tells
        <3> QED BY <3>2, <3>3, <3>4 DEF Believes
    <2> QED BY <1>1, <2>2, <2>3
<1> QED BY <1>7, <1>8

\* Where the thread is while the last thing it announced is a connection.
AnnouncedUp == pc \in {"pop", "check", "exec", "drain", "flagDown", "announceDown"}

\* In terms of Believes: each idle fits what will be believed when it is dispatched,
\* and in the end the main loop will believe what the thread announced last.
Fits(s, b) ==
    \A i \in 1..Len(s) :
        /\ s[i].what = "connect" => ~Believes(s, b, i - 1)
        /\ s[i].what \in {"disconnect", "finish"} => Believes(s, b, i - 1)

AnnouncementsInv ==
    /\ Fits(idles, told)
    /\ Believes(idles, told, Len(idles)) <=> AnnouncedUp

\* An idle that fits is added.
LEMMA FitsAppend ==
    ASSUME NEW s \in Seq(Idles), NEW b, Fits(s, b), NEW e \in Idles,
           e.what = "connect" => ~Believes(s, b, Len(s)),
           e.what \in {"disconnect", "finish"} => Believes(s, b, Len(s))
    PROVE  /\ Fits(Append(s, e), b)
           /\ Believes(Append(s, e), b, Len(Append(s, e))) <=>
                  IF Tells(e) THEN e.what = "connect" ELSE Believes(s, b, Len(s))
<1>1. /\ Len(s) \in Nat /\ Len(Append(s, e)) = Len(s) + 1
      /\ Append(s, e)[Len(s) + 1] = e
      /\ \A i \in 1..Len(s) : Append(s, e)[i] = s[i] /\ i - 1 \in 0..Len(s)
    OBVIOUS
<1>2. ASSUME NEW i \in 1..(Len(s) + 1)
      PROVE  /\ Append(s, e)[i].what = "connect" => ~Believes(Append(s, e), b, i - 1)
             /\ Append(s, e)[i].what \in {"disconnect", "finish"} =>
                    Believes(Append(s, e), b, i - 1)
    <2>1. CASE i \in 1..Len(s)
        BY <1>1, <2>1, BelievesAppend DEF Fits
    <2>2. CASE i = Len(s) + 1
        <3>1. i - 1 = Len(s) /\ Len(s) \in 0..Len(s) BY <1>1, <2>2
        <3>2. Believes(Append(s, e), b, Len(s)) <=> Believes(s, b, Len(s))
            BY <3>1, BelievesAppend
        <3> QED BY <1>1, <2>2, <3>1, <3>2
    <2> QED BY <1>1, <2>1, <2>2
<1> QED BY <1>1, <1>2, BelievesAppend DEF Fits

\* The foremost idle is dispatched.
LEMMA FitsTail ==
    ASSUME NEW s \in Seq(Idles), s # <<>>, NEW b, Fits(s, b), NEW c,
           c = IF Tells(Head(s)) THEN Head(s).what = "connect" ELSE b
    PROVE  /\ Fits(Tail(s), c)
           /\ Believes(Tail(s), c, Len(Tail(s))) <=> Believes(s, b, Len(s))
<1>1. /\ Len(s) \in Nat \ {0} /\ Len(Tail(s)) = Len(s) - 1
      /\ \A i \in 1..(Len(s) - 1) :
            /\ i + 1 \in 1..Len(s) /\ Tail(s)[i] = s[i + 1]
            /\ i - 1 \in 0..(Len(s) - 1) /\ (i - 1) + 1 = i /\ (i + 1) - 1 = i
    OBVIOUS
<1>2. \A n \in 0..(Len(s) - 1) : Believes(Tail(s), c, n) <=> Believes(s, b, n + 1)
    BY BelievesTail
<1>3. Len(s) - 1 \in 0..(Len(s) - 1) /\ (Len(s) - 1) + 1 = Len(s) BY <1>1
<1>4. ASSUME NEW i \in 1..(Len(s) - 1)
      PROVE  /\ Tail(s)[i].what = "connect" => ~Believes(Tail(s), c, i - 1)
             /\ Tail(s)[i].what \in {"disconnect", "finish"} => Believes(Tail(s), c, i - 1)
    <2>1. Believes(Tail(s), c, i - 1) <=> Believes(s, b, (i + 1) - 1) BY <1>1, <1>2
    <2> QED BY <1>1, <2>1 DEF Fits
<1> QED BY <1>1, <1>2, <1>3, <1>4 DEF Fits

LEMMA AnnouncementsInvInit == Init => AnnouncementsInv
<1> SUFFICES ASSUME Init PROVE AnnouncementsInv OBVIOUS
<1>1. idles = <<>> /\ Len(idles) = 0 /\ told = FALSE /\ ~AnnouncedUp BY DEF Init, AnnouncedUp
<1>2. ~Believes(idles, told, 0) BY <1>1, BelievesNothing
<1> QED BY <1>1, <1>2 DEF AnnouncementsInv, Fits

\* Steps that add no idle.
LEMMA NothingAnnounced ==
    ASSUME AnnouncementsInv, idles' = idles, told' = told, AnnouncedUp' <=> AnnouncedUp
    PROVE  AnnouncementsInv'
BY DEF AnnouncementsInv

LEMMA Announced ==
    ASSUME TypeOK, AnnouncementsInv, NEW e \in Idles, IdleAdd(e), told' = told,
           e.what = "connect" => ~AnnouncedUp,
           e.what \in {"disconnect", "finish"} => AnnouncedUp,
           AnnouncedUp' <=> IF Tells(e) THEN e.what = "connect" ELSE AnnouncedUp
    PROVE  AnnouncementsInv'
<1>1. idles \in Seq(Idles) BY DEF TypeOK
<1>2. /\ Fits(Append(idles, e), told)
      /\ Believes(Append(idles, e), told, Len(Append(idles, e))) <=>
             IF Tells(e) THEN e.what = "connect" ELSE Believes(idles, told, Len(idles))
    BY <1>1, FitsAppend DEF AnnouncementsInv
<1> QED BY <1>2 DEF AnnouncementsInv, IdleAdd

LEMMA AnnouncementsStep ==
    ASSUME TypeOK, HeldWhileExecuting, AnnouncementsInv, [Next]_vars
    PROVE  AnnouncementsInv'
<1>1. CASE ConnectFail
    <2>1. Notice("attempt") \in Idles /\ Notice("attempt").what = "attempt"
        BY NoticesAreIdles
    <2> QED BY <1>1, <2>1, Announced DEF ConnectFail, AnnouncedUp, Tells
<1>2. CASE AnnounceUp
    <2>1. Notice("connect") \in Idles /\ Notice("connect").what = "connect"
        BY NoticesAreIdles
    <2> QED BY <1>2, <2>1, Announced DEF AnnounceUp, AnnouncedUp, Tells
<1>3. CASE AnnounceDown
    <2>1. Notice("disconnect") \in Idles /\ Notice("disconnect").what = "disconnect"
        BY NoticesAreIdles
    <2> QED BY <1>3, <2>1, Announced DEF AnnounceDown, AnnouncedUp, Tells
<1>4. ASSUME NEW dc \in Reqs \cup {Reset}, EndRequest(dc), told' = told, AnnouncedUp, AnnouncedUp'
      PROVE  AnnouncementsInv'
    <2>1. CASE dc \in FileReqs /\ IdleAdd(FinishNotice(dc))
        BY <1>4, <2>1, FinishNoticesAreIdles, Announced DEF Tells
    <2>2. CASE idles' = idles BY <1>4, <2>2, NothingAnnounced
    <2> QED BY <1>4, <2>1, <2>2 DEF EndRequest, Complete
<1>5. CASE Exec
    <2>1. cur \in Reqs /\ cur # Reset
        BY <1>5, TokensAreNoRequests DEF Exec, ExecOk, ExecError, HeldWhileExecuting, TypeOK
    <2>2. EndRequest(cur) /\ told' = told
        BY <1>5, <2>1 DEF Exec, ExecOk, ExecError, EndRequest
    <2>3. AnnouncedUp /\ AnnouncedUp' BY <1>5 DEF Exec, ExecOk, ExecError, AnnouncedUp
    <2> QED BY <1>4, <2>1, <2>2, <2>3
<1>6. CASE DrainOne
    <2>1. Head(queue) \in Reqs \cup {Reset} BY <1>6 DEF DrainOne, TypeOK
    <2>2. EndRequest(Head(queue)) /\ told' = told /\ AnnouncedUp /\ AnnouncedUp'
        BY <1>6 DEF DrainOne, AnnouncedUp, threadVars
    <2> QED BY <1>4, <2>1, <2>2
<1>7. CASE Dispatch
    <2>1. idles # <<>> /\ idles' = Tail(idles) /\ AnnouncedUp' = AnnouncedUp
        BY <1>7 DEF Dispatch, AnnouncedUp, threadVars
    <2>2. told' = IF Tells(Head(idles)) THEN Head(idles).what = "connect" ELSE told
        BY <1>7 DEF Dispatch, Tells
    <2>3. idles \in Seq(Idles) BY DEF TypeOK
    <2> QED BY <2>1, <2>2, <2>3, FitsTail DEF AnnouncementsInv
<1>8. CASE ConnectOk \/ FlagUp \/ Pop \/ PopTimeout \/ Check \/ DrainDone \/ FlagDown
    BY <1>8, NothingAnnounced
    DEF ConnectOk, FlagUp, Pop, PopTimeout, Check, CheckOk, CheckBad, DrainDone, FlagDown,
        AnnouncedUp
<1>9. ASSUME \/ \E r \in GeneralReqs : SubmitGeneral(r)
             \/ \E r \in FileReqs : SeeConnected(r)
             \/ ForceReconnect \/ PushAfterCheck \/ UNCHANGED vars
      PROVE  AnnouncementsInv'
    BY <1>9, NothingAnnounced
    DEF SubmitGeneral, SeeConnected, ForceReconnect, PushAfterCheck, vars, threadVars,
        AnnouncedUp
<1> QED BY <1>1, <1>2, <1>3, <1>5, <1>6, <1>7, <1>8, <1>9
        DEF Next, ThreadStep, Serve, Drain, MainStep

LEMMA AnnouncementsInvariant == Spec => [](IInv /\ AnnouncementsInv)
<1>1. IInv /\ AnnouncementsInv /\ [Next]_vars => AnnouncementsInv'
    BY AnnouncementsStep DEF IInv
<1> QED BY <1>1, AnnouncementsInvInit, InvariantHolds, PTL DEF Spec

(* However far the main loop lags behind the thread, on_connect and on_disconnect
   run in turn, on_connect first. *)
THEOREM AnnouncementsHold == Spec => []AnnouncementsAlternate
<1>1. IInv /\ AnnouncementsInv => AnnouncementsAlternate
    <2> SUFFICES ASSUME IInv, AnnouncementsInv, NEW i \in DOMAIN idles, Announcement(i)
                 PROVE  (idles[i].what = "connect") <=> ~BelievedAfter(i - 1)
        BY DEF AnnouncementsAlternate, BelievedAfter
    <2>1. i \in 1..Len(idles) BY DEF IInv, TypeOK
    <2> QED BY <2>1, BelievedMeans DEF AnnouncementsInv, Fits, Announcement, IInv
<1> QED BY <1>1, AnnouncementsInvariant, PTL

(* No completion of a connection is dispatched before its on_connect or after its
   on_disconnect. *)
THEOREM CompletionsHold == Spec => []CompletionsWithinConnection
<1>1. IInv /\ AnnouncementsInv => CompletionsWithinConnection
    <2> SUFFICES ASSUME IInv, AnnouncementsInv, NEW i \in DOMAIN idles,
                        idles[i].what = "finish"
                 PROVE  BelievedAfter(i - 1)
        BY DEF CompletionsWithinConnection
    <2>1. i \in 1..Len(idles) BY DEF IInv, TypeOK
    <2> QED BY <2>1, BelievedMeans DEF AnnouncementsInv, Fits, IInv
<1> QED BY <1>1, AnnouncementsInvariant, PTL
=============================================================================
