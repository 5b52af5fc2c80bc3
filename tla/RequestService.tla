--------------------------- MODULE RequestService ---------------------------
(***************************************************************************)
(* What the command client promises to the rest of the extension, with the *)
(* thread, its queue, the socket and the main loop left out: a request is  *)
(* submitted once, completed once, and within its kind (file info requests *)
(* and general commands) requests complete in the order they were          *)
(* submitted.  CommandClient is shown to implement this module.            *)
(***************************************************************************)
EXTENDS Naturals

CONSTANTS
    FileReqs,       \* the DropboxFileInfoCommand objects
    GeneralReqs     \* the DropboxGeneralCommand objects, none of them in FileReqs

Reqs == FileReqs \cup GeneralReqs

VARIABLES
    clock,      \* how many requests have been submitted
    ticket,     \* [Reqs -> Nat]: the request's place in that order, 0 = not submitted
    finished    \* [Reqs -> Nat]: how often the request's completion has run

vars == <<clock, ticket, finished>>

SameKind(r, s) == r \in FileReqs <=> s \in FileReqs

Init ==
    /\ clock = 0
    /\ ticket = [r \in Reqs |-> 0]
    /\ finished = [r \in Reqs |-> 0]

Submit(r) ==
    /\ ticket[r] = 0
    /\ clock' = clock + 1
    /\ ticket' = [ticket EXCEPT ![r] = clock + 1]
    /\ UNCHANGED finished

\* Every earlier request of the same kind has been completed already.
Complete(r) ==
    /\ ticket[r] > 0
    /\ finished[r] = 0
    /\ \A s \in Reqs : /\ SameKind(r, s)
                       /\ ticket[s] > 0
                       /\ ticket[s] < ticket[r]
                       => finished[s] = 1
    /\ finished' = [finished EXCEPT ![r] = 1]
    /\ UNCHANGED <<clock, ticket>>

Next == \E r \in Reqs : Submit(r) \/ Complete(r)

Spec == Init /\ [][Next]_vars
=============================================================================
