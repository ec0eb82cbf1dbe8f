------------------------------ MODULE SchemaCache ------------------------------
(***************************************************************************)
(* The schema cache of the MCP server (packages/mcp/src/schemaCache.ts)    *)
(* and of the Admin UI (packages/ui-core/src/server/schema-cache.ts), over *)
(* the introspection both of them run (packages/introspect/src/index.ts).  *)
(*                                                                         *)
(* A rebuild reads the catalog with several statements of a READ COMMITTED *)
(* transaction, so DDL may fall between them.  Concurrent callers share    *)
(* the rebuild in flight; an operator may ask for a refresh at any moment. *)
(*                                                                         *)
(* The callbacks that follow a settled rebuild (`finally` clearing the     *)
(* flight, the assignment of the cache, the callers' continuations) run in *)
(* one drain of the microtask queue, so they are one step here.            *)
(***************************************************************************)
EXTENDS Naturals, Sequences, FiniteSets

CONSTANTS
    Surfaces,    \* whose cache this is: "mcp", "ui" or either
    Callers,     \* concurrent calls of get()
    Tables,      \* tables that may exist
    References,  \* foreign keys <<from, to>> that exist whenever both tables do
    TTL,         \* ttlMs
    MaxTime, MaxFlights, MaxRefreshes   \* bounds on the exploration

ASSUME SchemaCacheAssumption ==
    /\ Surfaces \subseteq {"mcp", "ui"}
    /\ References \subseteq Tables \X Tables
    /\ TTL \in Nat /\ MaxTime \in Nat /\ MaxFlights \in Nat /\ MaxRefreshes \in Nat

VARIABLES
    surface,    \* which of the two classes this is
    now,        \* the clock
    catalog,    \* SUBSET Tables: the database's schema
    refreshes,  \* how many times invalidate() was called
    flights,    \* every rebuild ever started, in order; its index names it
    inflight,   \* the rebuild get() joins, 0 for null
    cached,     \* the rebuild whose context is cached, 0 for null
    call        \* [Callers -> Call]: each caller's latest get()

vars == <<surface, now, catalog, refreshes, flights, inflight, cached, call>>

Flight == [phase     : {"tables", "references", "build", "over", "failed"},
           tables    : SUBSET Tables,
           refs      : SUBSET References,
           born      : 0..MaxRefreshes,   \* refreshes asked for before it began
           settledAt : 0..MaxTime]

Call == [state  : {"none", "waiting", "served", "failed"},
         flight : 0..MaxFlights,          \* the rebuild waited for or served
         asked  : 0..MaxRefreshes,        \* refreshes asked for before the call
         at     : 0..MaxTime]

Init ==
    /\ surface \in Surfaces
    /\ now = 0
    /\ catalog \in SUBSET Tables
    /\ refreshes = 0
    /\ flights = << >>
    /\ inflight = 0
    /\ cached = 0
    /\ call = [c \in Callers |-> [state |-> "none", flight |-> 0, asked |-> 0, at |-> 0]]

-----------------------------------------------------------------------------
(* get() and invalidate().                                                 *)

\* `expiresAt > now` (mcp), `now - lastBuiltAt <= ttlMs` (ui).
Fresh ==
    /\ cached # 0
    /\ IF surface = "mcp" THEN flights[cached].settledAt + TTL > now
                          ELSE flights[cached].settledAt + TTL >= now

Asked(c, state, g) ==
    call' = [call EXCEPT ![c] = [state |-> state, flight |-> g, asked |-> refreshes, at |-> now]]

Hit(c) ==
    /\ Fresh
    /\ Asked(c, "served", cached)
    /\ UNCHANGED <<flights, inflight>>

Join(c) ==
    /\ ~Fresh /\ inflight # 0
    /\ Asked(c, "waiting", inflight)
    /\ UNCHANGED <<flights, inflight>>

Start(c) ==
    /\ ~Fresh /\ inflight = 0 /\ Len(flights) < MaxFlights
    /\ flights' = Append(flights, [phase |-> "tables", tables |-> {}, refs |-> {},
                                   born |-> refreshes, settledAt |-> 0])
    /\ inflight' = Len(flights) + 1
    /\ Asked(c, "waiting", inflight')

Get(c) ==
    /\ call[c].state # "waiting"
    /\ Hit(c) \/ Join(c) \/ Start(c)
    /\ UNCHANGED <<surface, now, catalog, refreshes, cached>>

\* Mutant: invalidate() also forgets the rebuild in flight.
InvalidateForgetsFlight ==
    /\ surface = "mcp" /\ refreshes < MaxRefreshes
    /\ refreshes' = refreshes + 1
    /\ cached' = 0 /\ inflight' = 0
    /\ UNCHANGED <<surface, now, catalog, flights, call>>

\* POST /admin/refresh, or SIGHUP in stdio mode; the Admin UI has neither.
Invalidate ==
    /\ surface = "mcp" /\ refreshes < MaxRefreshes
    /\ refreshes' = refreshes + 1
    /\ cached' = 0
    /\ UNCHANGED <<surface, now, catalog, flights, inflight, call>>

-----------------------------------------------------------------------------
(* A rebuild.                                                              *)

\* fetchTables
ReadTables(g) ==
    /\ flights[g].phase = "tables"
    /\ flights' = [flights EXCEPT ![g].phase = "references", ![g].tables = catalog]
    /\ UNCHANGED <<surface, now, catalog, refreshes, inflight, cached, call>>

\* fetchForeignKeys
ReadReferences(g) ==
    /\ flights[g].phase = "references"
    /\ flights' = [flights EXCEPT ![g].phase = "build",
                                  ![g].refs = References \cap (catalog \X catalog)]
    /\ UNCHANGED <<surface, now, catalog, refreshes, inflight, cached, call>>

\* Mutant: references are attached to their tables but not pruned.
MergedOnly(g) == {ref \in flights[g].refs : ref[1] \in flights[g].tables}

\* mergeTableMetadata keeps the references of the tables read, and
\* pruneDanglingForeignKeys those that point to one.
Pruned(g) == flights[g].refs \cap (flights[g].tables \X flights[g].tables)

\* The callers waiting for rebuild g get its outcome.
Settle(g, state) ==
    call' = [c \in Callers |-> IF call[c].state = "waiting" /\ call[c].flight = g
                               THEN [call[c] EXCEPT !.state = state]
                               ELSE call[c]]

\* The remaining reads and buildSchemaContext succeed; the context is cached.
Resolve(g) ==
    /\ flights[g].phase = "build"
    /\ flights' = [flights EXCEPT ![g].phase = "over", ![g].refs = Pruned(g),
                                  ![g].settledAt = now]
    /\ inflight' = 0
    /\ cached' = g
    /\ Settle(g, "served")
    /\ UNCHANGED <<surface, now, catalog, refreshes>>

\* `this.cached = null` (mcp); the ui cache keeps what it has, expired.
CachedAfterFailure(g) == IF surface = "mcp" THEN 0 ELSE cached

\* Mutant: the flight is cleared on success only.
FlightSurvivesFailure(g) == inflight
FlightAfterFailure(g) == 0

\* The connection, a statement or buildSchemaContext fails.
Reject(g) ==
    /\ flights[g].phase \in {"tables", "references", "build"}
    /\ flights' = [flights EXCEPT ![g].phase = "failed"]
    /\ inflight' = FlightAfterFailure(g)
    /\ cached' = CachedAfterFailure(g)
    /\ Settle(g, "failed")
    /\ UNCHANGED <<surface, now, catalog, refreshes>>

Rebuild(g) == ReadTables(g) \/ ReadReferences(g) \/ Resolve(g) \/ Reject(g)

-----------------------------------------------------------------------------
(* The environment.                                                        *)

\* CREATE TABLE or DROP TABLE ... CASCADE.
Ddl ==
    /\ \E t \in Tables : catalog' = IF t \in catalog THEN catalog \ {t} ELSE catalog \cup {t}
    /\ UNCHANGED <<surface, now, refreshes, flights, inflight, cached, call>>

Tick ==
    /\ now < MaxTime
    /\ now' = now + 1
    /\ UNCHANGED <<surface, catalog, refreshes, flights, inflight, cached, call>>

Next ==
    \/ \E c \in Callers : Get(c)
    \/ Invalidate
    \/ \E g \in 1..Len(flights) : Rebuild(g)
    \/ Ddl
    \/ Tick

\* Introspection settles: statement_timeout bounds every statement.
Fairness == \A g \in 1..MaxFlights : WF_vars(g \in 1..Len(flights) /\ Rebuild(g))

Spec == Init /\ [][Next]_vars
FairSpec == Spec /\ Fairness

-----------------------------------------------------------------------------
(* Properties.                                                             *)

\* "Concurrent SvelteKit requests cannot trigger duplicate introspect calls"
\* (schema-cache.ts:3): at most one rebuild runs, whatever refreshes, expiries
\* and failures fall around it.
OneRebuildAtATime ==
    \A g, h \in 1..Len(flights) :
        (/\ flights[g].phase \notin {"over", "failed"}
         /\ flights[h].phase \notin {"over", "failed"}) => g = h

\* No consumer of a served schema meets a reference to a table that is not in
\* it (filter.ts:98-101), although tables and foreign keys are read by separate
\* statements with DDL between them.
ServedSchemaIsClosed ==
    \A c \in Callers : call[c].state = "served" =>
        LET f == flights[call[c].flight] IN
        \A ref \in f.refs : ref[1] \in f.tables /\ ref[2] \in f.tables

\* Time does not run backwards: nobody is served an older rebuild than one that
\* was already served.
NeverGoesBack ==
    [][\A c, d \in Callers :
         (call[d].state = "served" /\ call[c] # call'[c] /\ call'[c].state = "served")
             => call'[c].flight >= call[d].flight]_vars

\* Every get() settles, joined or not, before or after failures.
EveryGetSettles ==
    \A c \in Callers : (call[c].state = "waiting") ~> (call[c].state # "waiting")

\* "invalidate() forces the next get to return a new instance"
\* (mcp/test/schemaCache.test.ts:41): a call made after a refresh is served a
\* rebuild begun after it.  A refresh during a rebuild breaks this.
RefreshForcesReread ==
    \A c \in Callers : call[c].state = "served" =>
        flights[call[c].flight].born >= call[c].asked
=============================================================================
