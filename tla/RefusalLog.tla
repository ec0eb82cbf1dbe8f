------------------------------ MODULE RefusalLog ------------------------------
(***************************************************************************)
(* The log of refused requests of the MCP HTTP endpoint                    *)
(* (packages/mcp/src/refusalLog.ts): one line per refusal, at most         *)
(* PER_WINDOW per reason and window, then a single count of the others.    *)
(*                                                                         *)
(* Times are kept as ages, so the clock needs no bound: an age of WINDOW   *)
(* stands for WINDOW or more.                                              *)
(***************************************************************************)
EXTENDS Naturals, Sequences, FiniteSets

CONSTANTS
    Codes,       \* the reasons
    PER_WINDOW,  \* lines per reason and window
    WINDOW,      \* WINDOW_MS
    MaxRecords,  \* bound on the refusals of one reason
    Unset

ASSUME RefusalLogAssumption ==
    /\ PER_WINDOW \in Nat \ {0} /\ WINDOW \in Nat \ {0} /\ MaxRecords \in Nat

VARIABLES
    windows,   \* [Codes -> Window \cup {Unset}]: the map
    closed,    \* close() was called
    \* history
    recorded,  \* [Codes -> Nat]: refusals
    lines,     \* [Codes -> Seq(0..WINDOW)]: ages of the lines written for one refusal each
    counted    \* [Codes -> Nat]: refusals reported by count lines

logVars == <<windows, closed, recorded, lines, counted>>

\* timer: how long until it is due; 0 when due, Unset when not armed.
Window == [age : 0..WINDOW, logged : 0..PER_WINDOW, suppressed : Nat,
           timer : (0..WINDOW) \cup {Unset}]

ASSUME UnsetAssumption == Unset \notin Nat /\ Unset \notin Window

LogTypeOK ==
    /\ windows \in [Codes -> Window \cup {Unset}]
    /\ closed \in BOOLEAN
    /\ recorded \in [Codes -> Nat] /\ counted \in [Codes -> Nat]
    /\ lines \in [Codes -> Seq(0..WINDOW)]

LogInit ==
    /\ windows = [code \in Codes |-> Unset]
    /\ closed = FALSE
    /\ recorded = [code \in Codes |-> 0]
    /\ lines = [code \in Codes |-> << >>]
    /\ counted = [code \in Codes |-> 0]

Open == {code \in Codes : windows[code] # Unset}
Expired(code) == code \in Open /\ windows[code].age >= WINDOW

\* Refusals of the window that wait for a count line.
Held(code) == IF code \in Open THEN windows[code].suppressed ELSE 0

-----------------------------------------------------------------------------
NewWindow == [age |-> 0, logged |-> 0, suppressed |-> 0, timer |-> Unset]

\* Mutant: an overdue window is replaced without its count.
OverdueDropped(code) == 0
\* What record() reports first: the count of a window whose timer is late.
Overdue(code) == IF Expired(code) THEN Held(code) ELSE 0

DueIn(w) == WINDOW - w.age

\* Mutant: the timer is armed when nothing is suppressed yet.
ArmedBeforeCounting(w) == IF w.suppressed = 1 THEN w.timer ELSE DueIn(w)
Armed(w) == IF w.timer = Unset THEN DueIn(w) ELSE w.timer

MayLog(w) == w.logged < PER_WINDOW

Record(code) ==
    LET w == IF code \in Open /\ ~Expired(code) THEN windows[code] ELSE NewWindow
        held == [w EXCEPT !.suppressed = @ + 1]
    IN
    /\ recorded[code] < MaxRecords
    /\ recorded' = [recorded EXCEPT ![code] = @ + 1]
    /\ counted' = [counted EXCEPT ![code] = @ + Overdue(code)]
    /\ \/ /\ MayLog(w)
          /\ windows' = [windows EXCEPT ![code] = [w EXCEPT !.logged = @ + 1]]
          /\ lines' = [lines EXCEPT ![code] = Append(@, 0)]
       \/ /\ ~MayLog(w)
          /\ windows' = [windows EXCEPT ![code] = [held EXCEPT !.timer = Armed(held)]]
          /\ UNCHANGED lines
    /\ UNCHANGED closed

\* flush() of the windows of some codes: their counts are written, their timers
\* cleared, and they are dropped from the map.
Flush(codes) ==
    /\ counted' = [code \in Codes |-> counted[code] + IF code \in codes THEN Held(code) ELSE 0]
    /\ windows' = [code \in Codes |-> IF code \in codes THEN Unset ELSE windows[code]]
    /\ UNCHANGED <<recorded, lines>>

\* The timer's callback, when it is due or any time later.
TimerFires(code) ==
    /\ code \in Open /\ windows[code].timer = 0
    /\ Flush({code})
    /\ UNCHANGED closed

\* close(), after the HTTP server has closed; a handler still awaiting a key
\* set may record a refusal even later.
Close ==
    /\ ~closed
    /\ closed' = TRUE
    /\ Flush(Open)

Older(age) == IF age < WINDOW THEN age + 1 ELSE age

Tick ==
    /\ windows' = [code \in Codes |->
         IF code \notin Open THEN Unset
         ELSE [windows[code] EXCEPT
                 !.age = Older(@),
                 !.timer = IF @ \in {Unset, 0} THEN @ ELSE @ - 1]]
    /\ lines' = [code \in Codes |-> [n \in 1..Len(lines[code]) |-> Older(lines[code][n])]]
    /\ UNCHANGED <<closed, recorded, counted>>

LogNext ==
    \/ \E code \in Codes : Record(code) \/ TimerFires(code)
    \/ Close
    \/ Tick

\* Time passes and due timers fire.
LogFairness == WF_logVars(Tick) /\ \A code \in Codes : WF_logVars(TimerFires(code))

LogSpec == LogInit /\ [][LogNext]_logVars
FairLogSpec == LogSpec /\ LogFairness

-----------------------------------------------------------------------------
Young(code) == {n \in 1..Len(lines[code]) : lines[code][n] < WINDOW}

\* No refusal is lost or counted twice, whichever of the timer, a late refusal
\* and close() ends its window.  "Volume is capped per reason" (refusalLog.ts:11-14), in any stretch of time
\* as long as a window and not only in those the windows happen to cover: two
\* windows fit in part, so fewer than twice PER_WINDOW lines do.  A closing
\* log forgets its windows, once.
EveryRefusalIsAccountedFor ==
    \A code \in Codes :
        /\ recorded[code] = Len(lines[code]) + counted[code] + Held(code)
        /\ ~closed => Cardinality(Young(code)) < 2 * PER_WINDOW

\* What is held back is reported, without another refusal and without close().
HeldBackIsReported == \A code \in Codes : (Held(code) > 0) ~> (Held(code) = 0)
=============================================================================
