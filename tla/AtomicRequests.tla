---------------------------- MODULE AtomicRequests ----------------------------
(***************************************************************************)
(* What kozou promises a client of a surface that runs requests inside the *)
(* role-transaction envelope: a request's data changes become durable all  *)
(* at once and at most once, never after it was answered; "ok" and         *)
(* "notFound" (the row to change was not there, or a trigger took the      *)
(* change over) are only answered once what was changed is durable; and an *)
(* error is only answered for what is not durable, unless the database     *)
(* could not say (the connection was lost while COMMIT was in flight).     *)
(***************************************************************************)
CONSTANT Reqs

VARIABLES
    wrote,      \* requests that changed data, durably or not
    doubt,      \* requests whose commit was never confirmed
    committed,  \* requests whose changes are durable
    answer      \* [Reqs -> {"none", "ok", "notFound", "error"}]

vars == <<wrote, doubt, committed, answer>>

Init ==
    /\ wrote = {}
    /\ doubt = {}
    /\ committed = {}
    /\ answer = [r \in Reqs |-> "none"]

Unanswered == {r \in Reqs : answer[r] = "none"}

\* A request changes data inside its transaction.
Attempt(r) ==
    /\ r \in Unanswered
    /\ wrote' = wrote \cup {r}
    /\ UNCHANGED <<doubt, committed, answer>>

\* The changes of some unanswered requests become durable (of several at once
\* only when the process dies with their COMMITs sent).
Land(R) ==
    /\ R \subseteq (Unanswered \cap wrote) \ committed
    /\ committed' = committed \cup R
    /\ UNCHANGED <<wrote, doubt, answer>>

\* Contact is lost at the moment the changes of r may have become durable.
LoseTrack(r) ==
    /\ r \in Unanswered
    /\ doubt' = doubt \cup {r}
    /\ \/ committed' = committed
       \/ r \in wrote \ committed /\ committed' = committed \cup {r}
    /\ UNCHANGED <<wrote, answer>>

AnswerCompleted(r) ==
    /\ r \in Unanswered \ doubt
    /\ r \in wrote => r \in committed
    /\ \E a \in {"ok", "notFound"} : answer' = [answer EXCEPT ![r] = a]
    /\ UNCHANGED <<wrote, doubt, committed>>

AnswerError(r) ==
    /\ r \in Unanswered
    /\ r \in committed => r \in doubt
    /\ answer' = [answer EXCEPT ![r] = "error"]
    /\ UNCHANGED <<wrote, doubt, committed>>

Next ==
    \/ \E r \in Reqs : Attempt(r) \/ LoseTrack(r) \/ AnswerCompleted(r) \/ AnswerError(r)
    \/ \E R \in SUBSET Reqs : Land(R)

Spec == Init /\ [][Next]_vars
=============================================================================
