--------------------------- MODULE SchemaCacheProofs ---------------------------
(***************************************************************************)
(* For any tables, foreign keys, callers, lifetimes and numbers of         *)
(* rebuilds: either schema cache runs one rebuild at a time, serves only   *)
(* schemas without dangling references, and never goes back to an older    *)
(* one.                                                                    *)
(***************************************************************************)
EXTENDS SchemaCache, SequenceTheorems, TLAPS

TypeOK ==
    /\ surface \in {"mcp", "ui"}
    /\ now \in 0..MaxTime
    /\ catalog \in SUBSET Tables
    /\ refreshes \in 0..MaxRefreshes
    /\ flights \in Seq(Flight) /\ Len(flights) <= MaxFlights
    /\ inflight \in 0..Len(flights)
    /\ cached \in 0..Len(flights)
    /\ call \in [Callers -> Call]

Over == {g \in 1..Len(flights) : flights[g].phase = "over"}

\* The rebuild that get() joins is the youngest and the only one running.
OneInFlight ==
    /\ \A g \in 1..Len(flights) : flights[g].phase \notin {"over", "failed"} <=> g = inflight
    /\ inflight # 0 => inflight = Len(flights)

\* What is cached is the youngest rebuild that succeeded.
CachedIsLatest == cached # 0 => cached \in Over /\ \A g \in Over : g <= cached

\* A rebuild that succeeded has pruned its references.
OverIsClosed ==
    \A g \in Over : flights[g].refs \subseteq flights[g].tables \X flights[g].tables

\* Callers wait for the rebuild in flight and were served one that succeeded.
CallInv(c) ==
    /\ call[c].state = "waiting" => call[c].flight = inflight /\ inflight # 0
    /\ call[c].state = "served" => call[c].flight \in Over

IInv ==
    /\ TypeOK /\ OneInFlight /\ CachedIsLatest /\ OverIsClosed
    /\ \A c \in Callers : CallInv(c)

-----------------------------------------------------------------------------
LEMMA InitIInv == Init => IInv
<1>. SUFFICES ASSUME Init PROVE IInv
  OBVIOUS
<1>1. flights = << >> /\ Len(flights) = 0 /\ inflight = 0 /\ cached = 0
  BY DEF Init
<1>2. TypeOK
  BY <1>1, SchemaCacheAssumption DEF Init, TypeOK, Call
<1>3. OneInFlight /\ CachedIsLatest /\ OverIsClosed
  BY <1>1 DEF OneInFlight, CachedIsLatest, OverIsClosed, Over
<1>4. \A c \in Callers : CallInv(c)
  BY DEF Init, CallInv
<1>. QED  BY <1>2, <1>3, <1>4 DEF IInv

\* Nobody is served an older rebuild than one already served.
NoStepBack ==
    \A c, d \in Callers :
        (call[d].state = "served" /\ call[c] # call'[c] /\ call'[c].state = "served")
            => call'[c].flight >= call[d].flight

\* One rebuild moves, the others stay.
LEMMA FlightMoves ==
    ASSUME TypeOK, NEW g \in 1..Len(flights), NEW new \in Flight,
           flights' = [flights EXCEPT ![g] = new]
    PROVE  /\ flights' \in Seq(Flight) /\ Len(flights') = Len(flights)
           /\ \A h \in 1..Len(flights) : flights'[h] = IF h = g THEN new ELSE flights[h]
BY ExceptSeq DEF TypeOK

\* A call of get() is recorded.
LEMMA AskedFields ==
    ASSUME TypeOK, NEW c \in Callers, NEW state \in {"waiting", "served"},
           NEW g \in 0..MaxFlights, Asked(c, state, g)
    PROVE  /\ call' \in [Callers -> Call]
           /\ \A d \in Callers \ {c} : call'[d] = call[d]
           /\ call'[c].state = state /\ call'[c].flight = g
<1>. DEFINE new == [state |-> state, flight |-> g, asked |-> refreshes, at |-> now]
<1>1. new \in Call /\ new.state = state /\ new.flight = g
  BY DEF TypeOK, Call
<1>2. call' = [call EXCEPT ![c] = new]
  BY DEF Asked
<1>. HIDE DEF new
<1>. QED  BY <1>1, <1>2 DEF TypeOK

LEMMA GetInv ==
    ASSUME IInv, NEW c \in Callers, Get(c)
    PROVE  IInv' /\ NoStepBack
<1>1. /\ TypeOK /\ OneInFlight /\ CachedIsLatest /\ OverIsClosed
      /\ \A d \in Callers : CallInv(d)
  BY DEF IInv
<1>2. UNCHANGED <<surface, now, catalog, refreshes, cached>>
  BY DEF Get
<1>3. Len(flights) \in Nat /\ MaxFlights \in Nat /\ Len(flights) <= MaxFlights
  BY <1>1, SchemaCacheAssumption DEF TypeOK
<1>4. CASE Hit(c)
  <2>1. cached \in Over /\ (\A g \in Over : g <= cached) /\ UNCHANGED <<flights, inflight>>
    BY <1>1, <1>4 DEF Hit, Fresh, CachedIsLatest
  <2>2. /\ call' \in [Callers -> Call]
        /\ \A d \in Callers \ {c} : call'[d] = call[d]
        /\ call'[c].state = "served" /\ call'[c].flight = cached
    BY <1>1, <1>3, <1>4, AskedFields DEF Hit, TypeOK
  <2>3. TypeOK' /\ OneInFlight' /\ CachedIsLatest' /\ OverIsClosed'
    BY <1>1, <1>2, <2>1, <2>2 DEF TypeOK, OneInFlight, CachedIsLatest, OverIsClosed, Over
  <2>4. \A d \in Callers : CallInv(d)'
    BY <1>1, <2>1, <2>2 DEF CallInv, Over
  <2>5. NoStepBack
    BY <1>1, <2>1, <2>2 DEF NoStepBack, CallInv, Over
  <2>. QED  BY <2>3, <2>4, <2>5 DEF IInv
<1>5. CASE Join(c)
  <2>1. inflight # 0 /\ UNCHANGED <<flights, inflight>>
    BY <1>5 DEF Join
  <2>2. /\ call' \in [Callers -> Call]
        /\ \A d \in Callers \ {c} : call'[d] = call[d]
        /\ call'[c].state = "waiting" /\ call'[c].flight = inflight
    BY <1>1, <1>3, <1>5, AskedFields DEF Join, TypeOK
  <2>3. TypeOK' /\ OneInFlight' /\ CachedIsLatest' /\ OverIsClosed'
    BY <1>1, <1>2, <2>1, <2>2 DEF TypeOK, OneInFlight, CachedIsLatest, OverIsClosed, Over
  <2>4. \A d \in Callers : CallInv(d)'
    BY <1>1, <2>1, <2>2 DEF CallInv, Over
  <2>5. NoStepBack
    BY <2>2 DEF NoStepBack
  <2>. QED  BY <2>3, <2>4, <2>5 DEF IInv
<1>6. CASE Start(c)
  <2>. DEFINE new == [phase |-> "tables", tables |-> {}, refs |-> {},
                      born |-> refreshes, settledAt |-> 0]
              n == Len(flights) + 1
  <2>1. new \in Flight /\ new.phase = "tables"
    BY <1>1, SchemaCacheAssumption DEF TypeOK, Flight
  <2>2. /\ inflight = 0 /\ n <= MaxFlights
        /\ flights' = Append(flights, new) /\ inflight' = n
        /\ Asked(c, "waiting", n)
    BY <1>3, <1>6 DEF Start, Asked
  <2>. HIDE DEF new
  <2>3. /\ flights' \in Seq(Flight) /\ Len(flights') = n /\ flights'[n] = new
        /\ \A g \in 1..Len(flights) : flights'[g] = flights[g]
    BY <1>1, <2>1, <2>2, AppendProperties DEF TypeOK
  <2>4. /\ call' \in [Callers -> Call]
        /\ \A d \in Callers \ {c} : call'[d] = call[d]
        /\ call'[c].state = "waiting" /\ call'[c].flight = n
    BY <1>1, <1>3, <2>2, AskedFields
  <2>5. \A g : g \in 1..Len(flights') <=> g \in 1..Len(flights) \/ g = n
    BY <1>3, <2>3
  <2>6. Over' = Over
    BY <2>1, <2>3, <2>5 DEF Over
  <2>7. OneInFlight'
    BY <1>1, <1>3, <2>1, <2>2, <2>3, <2>5 DEF OneInFlight
  <2>8. TypeOK'
    BY <1>1, <1>2, <1>3, <2>2, <2>3, <2>4 DEF TypeOK
  <2>9. CachedIsLatest' /\ OverIsClosed'
    BY <1>1, <1>2, <2>3, <2>6 DEF CachedIsLatest, OverIsClosed, Over
  <2>10. \A d \in Callers : CallInv(d)'
    BY <1>1, <1>3, <2>2, <2>4, <2>6 DEF CallInv
  <2>11. NoStepBack
    BY <2>4 DEF NoStepBack
  <2>. QED  BY <2>7, <2>8, <2>9, <2>10, <2>11 DEF IInv
<1>. QED  BY <1>4, <1>5, <1>6 DEF Get

\* A rebuild that goes on reading.
LEMMA ReadInv ==
    ASSUME IInv, NEW g \in 1..Len(flights), ReadTables(g) \/ ReadReferences(g)
    PROVE  IInv' /\ NoStepBack
<1>1. /\ TypeOK /\ OneInFlight /\ CachedIsLatest /\ OverIsClosed
      /\ \A d \in Callers : CallInv(d)
  BY DEF IInv
<1>2. UNCHANGED <<surface, now, catalog, refreshes, inflight, cached, call>>
  BY DEF ReadTables, ReadReferences
<1>3. flights[g] \in Flight /\ flights[g].phase \notin {"over", "failed"}
  BY <1>1, ElementOfSeq DEF TypeOK, ReadTables, ReadReferences
<1>4. PICK new \in Flight : /\ flights' = [flights EXCEPT ![g] = new]
                            /\ new.phase \notin {"over", "failed"}
  <2>1. CASE ReadTables(g)
    <3>. DEFINE new == [flights[g] EXCEPT !.phase = "references", !.tables = catalog]
    <3>1. new \in Flight /\ new.phase \notin {"over", "failed"}
      BY <1>1, <1>3 DEF TypeOK, Flight
    <3>2. flights' = [flights EXCEPT ![g] = new]
      BY <2>1 DEF ReadTables
    <3>. QED  BY <3>1, <3>2
  <2>2. CASE ReadReferences(g)
    <3>. DEFINE new == [flights[g] EXCEPT !.phase = "build",
                                          !.refs = References \cap (catalog \X catalog)]
    <3>1. new \in Flight /\ new.phase \notin {"over", "failed"}
      BY <1>1, <1>3 DEF TypeOK, Flight
    <3>2. flights' = [flights EXCEPT ![g] = new]
      BY <2>2 DEF ReadReferences
    <3>. QED  BY <3>1, <3>2
  <2>. QED  BY <2>1, <2>2
<1>5. /\ flights' \in Seq(Flight) /\ Len(flights') = Len(flights)
      /\ \A h \in 1..Len(flights) : flights'[h] = IF h = g THEN new ELSE flights[h]
  BY <1>1, <1>4, FlightMoves
<1>6. Over' = Over
  BY <1>3, <1>4, <1>5 DEF Over
<1>7. TypeOK'
  BY <1>1, <1>2, <1>5 DEF TypeOK
<1>8. OneInFlight'
  BY <1>1, <1>2, <1>3, <1>4, <1>5 DEF OneInFlight
<1>9. CachedIsLatest' /\ OverIsClosed'
  BY <1>1, <1>2, <1>3, <1>5, <1>6 DEF CachedIsLatest, OverIsClosed, Over
<1>10. (\A d \in Callers : CallInv(d)') /\ NoStepBack
  BY <1>1, <1>2, <1>6 DEF CallInv, NoStepBack
<1>. QED  BY <1>7, <1>8, <1>9, <1>10 DEF IInv

\* A rebuild that settles in either way: every waiting caller gets its outcome.
LEMMA Settled ==
    ASSUME TypeOK, \A d \in Callers : CallInv(d), NEW g, g = inflight,
           NEW state \in {"served", "failed"}, Settle(g, state)
    PROVE  /\ call' \in [Callers -> Call]
           /\ \A d \in Callers :
                IF call[d].state = "waiting"
                THEN call'[d].state = state /\ call'[d].flight = g
                ELSE call'[d] = call[d]
<1>1. \A d \in Callers : /\ [call[d] EXCEPT !.state = state] \in Call
                         /\ [call[d] EXCEPT !.state = state].state = state
                         /\ [call[d] EXCEPT !.state = state].flight = call[d].flight
  BY DEF TypeOK, Call
<1>2. \A d \in Callers : call[d].state = "waiting" => call[d].flight = g
  BY DEF CallInv
<1>. QED  BY <1>1, <1>2 DEF Settle, TypeOK

LEMMA ResolveInv ==
    ASSUME IInv, NEW g \in 1..Len(flights), Resolve(g)
    PROVE  IInv' /\ NoStepBack
<1>1. /\ TypeOK /\ OneInFlight /\ CachedIsLatest /\ OverIsClosed
      /\ \A d \in Callers : CallInv(d)
  BY DEF IInv
<1>2. /\ flights[g].phase = "build" /\ inflight' = 0 /\ cached' = g
      /\ UNCHANGED <<surface, now, catalog, refreshes>>
  BY DEF Resolve
<1>. DEFINE new == [flights[g] EXCEPT !.phase = "over", !.refs = Pruned(g), !.settledAt = now]
<1>3. flights[g] \in Flight
  BY <1>1, ElementOfSeq DEF TypeOK
<1>4. /\ new \in Flight /\ new.phase = "over"
      /\ new.refs \subseteq new.tables \X new.tables
  BY <1>1, <1>3 DEF TypeOK, Flight, Pruned
<1>5. flights' = [flights EXCEPT ![g] = new]
  BY DEF Resolve
<1>. HIDE DEF new
<1>6. /\ flights' \in Seq(Flight) /\ Len(flights') = Len(flights)
      /\ \A h \in 1..Len(flights) : flights'[h] = IF h = g THEN new ELSE flights[h]
  BY <1>1, <1>4, <1>5, FlightMoves
<1>7. g = inflight /\ g = Len(flights) /\ Len(flights) \in Nat
  BY <1>1, <1>2 DEF OneInFlight, TypeOK
<1>8. Over' = Over \cup {g}
  BY <1>4, <1>6 DEF Over
<1>9. /\ call' \in [Callers -> Call]
      /\ \A d \in Callers :
           IF call[d].state = "waiting"
           THEN call'[d].state = "served" /\ call'[d].flight = g
           ELSE call'[d] = call[d]
  BY <1>1, <1>7, Settled DEF Resolve
<1>10. TypeOK'
  BY <1>1, <1>2, <1>6, <1>7, <1>9 DEF TypeOK
<1>11. OneInFlight'
  BY <1>1, <1>2, <1>4, <1>6, <1>7 DEF OneInFlight
<1>12. CachedIsLatest' /\ OverIsClosed'
  BY <1>1, <1>2, <1>4, <1>6, <1>7, <1>8 DEF CachedIsLatest, OverIsClosed, Over
<1>13. \A d \in Callers : CallInv(d)'
  BY <1>1, <1>8, <1>9 DEF CallInv
<1>14. NoStepBack
  BY <1>1, <1>7, <1>9 DEF NoStepBack, CallInv, Over
<1>. QED  BY <1>10, <1>11, <1>12, <1>13, <1>14 DEF IInv

LEMMA RejectInv ==
    ASSUME IInv, NEW g \in 1..Len(flights), Reject(g)
    PROVE  IInv' /\ NoStepBack
<1>1. /\ TypeOK /\ OneInFlight /\ CachedIsLatest /\ OverIsClosed
      /\ \A d \in Callers : CallInv(d)
  BY DEF IInv
<1>2. /\ flights[g].phase \in {"tables", "references", "build"}
      /\ inflight' = 0 /\ cached' \in {0, cached}
      /\ UNCHANGED <<surface, now, catalog, refreshes>>
  BY DEF Reject, FlightAfterFailure, CachedAfterFailure
<1>. DEFINE new == [flights[g] EXCEPT !.phase = "failed"]
<1>3. flights[g] \in Flight
  BY <1>1, ElementOfSeq DEF TypeOK
<1>4. new \in Flight /\ new.phase = "failed"
  BY <1>3 DEF Flight
<1>5. flights' = [flights EXCEPT ![g] = new]
  BY DEF Reject
<1>. HIDE DEF new
<1>6. /\ flights' \in Seq(Flight) /\ Len(flights') = Len(flights)
      /\ \A h \in 1..Len(flights) : flights'[h] = IF h = g THEN new ELSE flights[h]
  BY <1>1, <1>4, <1>5, FlightMoves
<1>7. g = inflight /\ Len(flights) \in Nat
  BY <1>1, <1>2 DEF OneInFlight, TypeOK
<1>8. Over' = Over
  BY <1>2, <1>4, <1>6 DEF Over
<1>9. /\ call' \in [Callers -> Call]
      /\ \A d \in Callers :
           IF call[d].state = "waiting"
           THEN call'[d].state = "failed" /\ call'[d].flight = g
           ELSE call'[d] = call[d]
  BY <1>1, <1>7, Settled DEF Reject
<1>10. TypeOK'
  BY <1>1, <1>2, <1>6, <1>7, <1>9 DEF TypeOK
<1>11. OneInFlight'
  BY <1>1, <1>2, <1>4, <1>6, <1>7 DEF OneInFlight
<1>12. CachedIsLatest' /\ OverIsClosed'
  BY <1>1, <1>2, <1>6, <1>8 DEF CachedIsLatest, OverIsClosed, Over
<1>13. \A d \in Callers : CallInv(d)'
  BY <1>1, <1>8, <1>9 DEF CallInv
<1>14. NoStepBack
  BY <1>9 DEF NoStepBack
<1>. QED  BY <1>10, <1>11, <1>12, <1>13, <1>14 DEF IInv

\* A refresh, DDL and the clock move no rebuild and no call.
LEMMA AroundInv ==
    ASSUME IInv, Invalidate \/ Ddl \/ Tick \/ UNCHANGED vars
    PROVE  IInv' /\ NoStepBack
<1>1. /\ TypeOK /\ OneInFlight /\ CachedIsLatest /\ OverIsClosed
      /\ \A d \in Callers : CallInv(d)
  BY DEF IInv
<1>2. UNCHANGED <<surface, flights, inflight, call>> /\ cached' \in {0, cached}
  BY DEF Invalidate, Ddl, Tick, vars
<1>3. now' \in 0..MaxTime /\ catalog' \in SUBSET Tables /\ refreshes' \in 0..MaxRefreshes
  BY <1>1, SchemaCacheAssumption DEF TypeOK, Invalidate, Ddl, Tick, vars
<1>4. TypeOK'
  BY <1>1, <1>2, <1>3 DEF TypeOK
<1>5. OneInFlight' /\ CachedIsLatest' /\ OverIsClosed' /\ \A d \in Callers : CallInv(d)'
  BY <1>1, <1>2 DEF OneInFlight, CachedIsLatest, OverIsClosed, CallInv, Over
<1>6. NoStepBack
  BY <1>2 DEF NoStepBack
<1>. QED  BY <1>4, <1>5, <1>6 DEF IInv

LEMMA NextIInv == IInv /\ [Next]_vars => IInv' /\ NoStepBack
BY GetInv, ReadInv, ResolveInv, RejectInv, AroundInv DEF Next, Rebuild

LEMMA Invariance == Spec => []IInv
BY InitIInv, NextIInv, PTL DEF Spec

-----------------------------------------------------------------------------
(* The theorems.                                                           *)

\* Concurrent callers never start a second rebuild beside one that runs,
\* whatever refreshes, expiries and failures fall around it (get() of
\* schemaCache.ts and schema-cache.ts).
THEOREM SingleFlight == Spec => []OneRebuildAtATime
<1>1. IInv => OneRebuildAtATime
  BY DEF IInv, OneInFlight, OneRebuildAtATime
<1>. QED  BY <1>1, Invariance, PTL

\* A schema that is served refers to no table outside it, whatever DDL fell
\* between the statements it was read by (pruneDanglingForeignKeys).
THEOREM NoDanglingReference == Spec => []ServedSchemaIsClosed
<1>1. IInv => ServedSchemaIsClosed
  BY DEF IInv, OverIsClosed, CallInv, Over, ServedSchemaIsClosed
<1>. QED  BY <1>1, Invariance, PTL

\* Nobody is served an older rebuild than one that was already served.
THEOREM Monotonicity == Spec => NeverGoesBack
<1>1. IInv /\ [Next]_vars => [NoStepBack]_vars
  BY NextIInv
<1>. QED  BY <1>1, Invariance, PTL DEF Spec, NeverGoesBack, NoStepBack
=============================================================================
