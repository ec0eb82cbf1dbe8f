----------------------------- MODULE RecentReads -----------------------------
(***************************************************************************)
(* What a cache with a lifetime promises to those who read through it: an  *)
(* answer is something the source said about that key, no longer than the  *)
(* lifetime before the question was asked.  A failed read of the source    *)
(* counts as the source saying so at that moment.                          *)
(***************************************************************************)
EXTENDS Naturals

CONSTANTS
    Keys,       \* what is asked about
    Lookups,    \* the questions
    Lifetime,   \* how old an answer may be
    Said        \* what the source can say about a key

VARIABLES
    clock,
    said,       \* [Keys -> [0..clock -> what the source said in that instant]]
    lookup      \* [Lookups -> question, with its answer once it has one]

vars == <<clock, said, lookup>>

Quiet == [state |-> "quiet"]
Question(k, t) == [state |-> "asked", key |-> k, since |-> t]
Reply(k, t, v) == [state |-> "answered", key |-> k, since |-> t, answer |-> v]

\* Everything the source said about k from Lifetime before t until now.
RecentlySaid(k, t) == UNION {said[k][u] : u \in {u \in 0..clock : u + Lifetime > t}}

Init ==
    /\ clock = 0
    /\ said \in [Keys -> [{0} -> {{v} : v \in Said}]]
    /\ lookup = [l \in Lookups |-> Quiet]

\* Time passes; the source still says one of the things it last said.
Elapse ==
    /\ clock' = clock + 1
    /\ \A k \in Keys : \E v \in said[k][clock] :
            said'[k] = [t \in 0..clock + 1 |-> IF t <= clock THEN said[k][t] ELSE {v}]
    /\ UNCHANGED lookup

\* The source says v about k.
Say(k, v) ==
    /\ said' = [said EXCEPT ![k][clock] = @ \cup {v}]
    /\ UNCHANGED <<clock, lookup>>

\* Lookup l begins: it is asked, or answered on the spot, or dropped.
Begins(l) ==
    /\ lookup[l].state # "asked"
    /\ \/ lookup'[l] = Quiet
       \/ \E k \in Keys :
            \/ lookup'[l] = Question(k, clock)
            \/ \E v \in RecentlySaid(k, clock) : lookup'[l] = Reply(k, clock, v)

\* Several lookups begin at once.
Ask ==
    /\ \A l \in Lookups : lookup'[l] = lookup[l] \/ Begins(l)
    /\ UNCHANGED <<clock, said>>

Answer(l) ==
    /\ lookup[l].state = "asked"
    /\ \E v \in RecentlySaid(lookup[l].key, lookup[l].since) :
            lookup' = [lookup EXCEPT ![l] = Reply(@.key, @.since, v)]
    /\ UNCHANGED <<clock, said>>

Next ==
    \/ Elapse
    \/ \E k \in Keys, v \in Said : Say(k, v)
    \/ Ask
    \/ \E l \in Lookups : Answer(l)

Spec == Init /\ [][Next]_vars
=============================================================================
