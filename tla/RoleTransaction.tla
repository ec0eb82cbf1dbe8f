--------------------------- MODULE RoleTransaction ---------------------------
(***************************************************************************)
(* The role-transaction envelope (packages/core/src/roleTransaction.ts)    *)
(* and the two surfaces that run every query through it: the authenticated *)
(* REST dispatch (packages/api/src/startApiServer.ts, handler.ts) and the  *)
(* MCP `call` tool (packages/mcp/src/tools/call.ts).                       *)
(*                                                                         *)
(* A request is authenticated, reads its body, waits for a pooled client   *)
(* and then issues, one statement at a time,                               *)
(*    BEGIN; SET LOCAL ROLE; set_config; work; COMMIT   (or ROLLBACK)      *)
(* Every statement may succeed, be refused by PostgreSQL, or lose its      *)
(* connection, and the process may die between any two of them.            *)
(*                                                                         *)
(* pg.Pool and PostgreSQL are outside the repository: the variables under  *)
(* "external" and the operators that move them follow their documented     *)
(* behaviour as the envelope relies on it.                                 *)
(***************************************************************************)
EXTENDS Naturals, Sequences, FiniteSets

CONSTANTS
    Reqs,       \* the requests issued
    Clients,    \* the connections the pool may hold (pg.Pool `max`)
    Roles,      \* database roles a request may name
    LoginRole,  \* the role the connection string logs in as
    KindOf,     \* [Reqs -> Kinds]
    RoleOf,     \* [Reqs -> Roles]: the role of the verified identity
    None

\* "get": REST GET; "write": REST POST, PATCH, DELETE and /rpc;
\* "call": the MCP tool.
Kinds == {"get", "write", "call"}

ASSUME ConstantsAssumption ==
    /\ KindOf \in [Reqs -> Kinds]
    /\ RoleOf \in [Reqs -> Roles]
    /\ LoginRole \notin Roles
    /\ None \notin Reqs \cup Clients \cup Roles \cup {LoginRole}

VARIABLES
    \* the process
    pc,          \* [Reqs -> PC]: where each request's handler is
    conn,        \* [Reqs -> Clients \cup {None}]: the client it holds
    result,      \* [Reqs -> Results]: what it will answer, or has answered
    unclean,     \* [Reqs -> BOOLEAN]: the envelope's `unclean` flag
    \* external: pg.Pool
    queue,       \* Seq(Reqs): callers of pool.connect() not yet served
    slot,        \* [Clients -> {"absent", "idle", "busy"}]
    \* external: the PostgreSQL sessions and database
    txState,     \* [Clients -> TxStates]
    readOnly,    \* [Clients -> BOOLEAN]: BEGIN READ ONLY
    localRole,   \* role of SET LOCAL ROLE, None when unset
    localClaims, \* request whose claims set_config published, None when unset
    sessionRole, \* role in force once no transaction is open
    staged,      \* [Clients -> SUBSET Reqs]: writes of the open transaction
    committed,   \* requests whose write is durable
    \* history
    wrote,       \* requests whose statement changed data in its transaction
    doubt        \* requests that lost the connection with COMMIT in flight

poolVars    == <<queue, slot>>
sessionVars == <<txState, readOnly, localRole, localClaims, sessionRole, staged>>
history     == <<wrote, doubt>>
vars == <<pc, conn, result, unclean, poolVars, sessionVars, committed, history>>

\* Handler positions before a client is requested, while one is held, after.
Unserved  == {"authenticate", "readBody", "connect"}
Holding   == {"begin", "setRole", "setClaims", "work", "commit", "rollback", "release"}
Finished  == {"done", "gone"}
PC        == Unserved \cup Holding \cup Finished
Results   == {"none", "ok", "notFound", "error"}
Completed == {"ok", "notFound"}   \* what the work returns without having raised
TxStates  == {"none", "open", "aborted", "lost"}
AnyRole   == Roles \cup {LoginRole}

TypeOK ==
    /\ pc \in [Reqs -> PC]
    /\ conn \in [Reqs -> Clients \cup {None}]
    /\ result \in [Reqs -> Results]
    /\ unclean \in [Reqs -> BOOLEAN]
    /\ queue \in Seq(Reqs)
    /\ slot \in [Clients -> {"absent", "idle", "busy"}]
    /\ txState \in [Clients -> TxStates]
    /\ readOnly \in [Clients -> BOOLEAN]
    /\ localRole \in [Clients -> AnyRole \cup {None}]
    /\ localClaims \in [Clients -> Reqs \cup {None}]
    /\ sessionRole \in [Clients -> AnyRole]
    /\ staged \in [Clients -> SUBSET Reqs]
    /\ committed \subseteq Reqs
    /\ wrote \subseteq Reqs
    /\ doubt \subseteq Reqs

Init ==
    /\ pc = [r \in Reqs |-> "authenticate"]
    /\ conn = [r \in Reqs |-> None]
    /\ result = [r \in Reqs |-> "none"]
    /\ unclean = [r \in Reqs |-> FALSE]
    /\ queue = << >>
    /\ slot = [c \in Clients |-> "absent"]
    /\ txState = [c \in Clients |-> "none"]
    /\ readOnly = [c \in Clients |-> FALSE]
    /\ localRole = [c \in Clients |-> None]
    /\ localClaims = [c \in Clients |-> None]
    /\ sessionRole = [c \in Clients |-> LoginRole]
    /\ staged = [c \in Clients |-> {}]
    /\ committed = {}
    /\ wrote = {}
    /\ doubt = {}

-----------------------------------------------------------------------------
(* PostgreSQL and node-postgres, as the envelope uses them.                *)

\* The role PostgreSQL checks privileges and policies against.
EffectiveRole(c) == IF localRole[c] # None THEN localRole[c] ELSE sessionRole[c]

\* The end of a transaction, however it ends, in state s: SET LOCAL and
\* set_config(.., true) are undone and nothing stays staged.
EndTx(c, s) ==
    /\ txState' = [txState EXCEPT ![c] = s]
    /\ readOnly' = [readOnly EXCEPT ![c] = FALSE]
    /\ localRole' = [localRole EXCEPT ![c] = None]
    /\ localClaims' = [localClaims EXCEPT ![c] = None]
    /\ staged' = [staged EXCEPT ![c] = {}]

\* The connection breaks: the server aborts what was open.
LoseConnection(c) ==
    /\ EndTx(c, "lost")
    /\ UNCHANGED sessionRole

\* A refused statement leaves the transaction aborted.
Refuse(c) ==
    /\ txState' = [txState EXCEPT ![c] = "aborted"]
    /\ UNCHANGED <<readOnly, localRole, localClaims, sessionRole, staged>>

Goto(r, p) == pc' = [pc EXCEPT ![r] = p]

\* Mutant: a handler path that returns nothing.
AnswerUndefined(r, res) == result' = [result EXCEPT ![r] = None]

Answer(r, res) == result' = [result EXCEPT ![r] = res]

\* Mutant: an answer already prepared survives the exception.
ThrowKeepsResult(r) ==
    /\ Goto(r, "rollback")
    /\ IF result[r] = "none" THEN Answer(r, "error") ELSE UNCHANGED result

\* The exception a statement raises reaches the envelope's catch block.
Throw(r) == Goto(r, "rollback") /\ Answer(r, "error")

-----------------------------------------------------------------------------
(* Before the envelope: no client is held while a token is verified or a   *)
(* body is read.                                                           *)

\* authenticator.authenticate: a rejected token is answered 401 / 403.
Authenticate(r) ==
    /\ pc[r] = "authenticate"
    /\ \/ Goto(r, "readBody") /\ UNCHANGED result
       \/ Goto(r, "done") /\ Answer(r, "error")
    /\ UNCHANGED <<conn, unclean, poolVars, sessionVars, committed, history>>

\* REST: buildHttpRequest (413, 415, 400, an aborted upload).  MCP: input
\* parsing, function lookup, allow list and buildRpcCall.  Then pool.connect().
ReadBody(r) ==
    /\ pc[r] = "readBody"
    /\ \/ Goto(r, "connect") /\ queue' = Append(queue, r) /\ UNCHANGED result
       \/ Goto(r, "done") /\ Answer(r, "error") /\ UNCHANGED queue
    /\ UNCHANGED <<conn, unclean, slot, sessionVars, committed, history>>

\* The pool serves its oldest waiter with an idle client or a new connection.
Connect(r) ==
    /\ queue # << >> /\ r = Head(queue)
    /\ \E c \in Clients :
         /\ slot[c] = IF \E i \in Clients : slot[i] = "idle" THEN "idle" ELSE "absent"
         /\ slot' = [slot EXCEPT ![c] = "busy"]
         /\ conn' = [conn EXCEPT ![r] = c]
    /\ queue' = Tail(queue)
    /\ Goto(r, "begin")
    /\ UNCHANGED <<result, unclean, sessionVars, committed, history>>

\* A new connection cannot be opened: pool.connect() rejects before the
\* envelope's try block, so there is nothing to release.
ConnectFails(r) ==
    /\ queue # << >> /\ r = Head(queue)
    /\ \E c \in Clients : slot[c] = "absent"
    /\ \A c \in Clients : slot[c] # "idle"
    /\ queue' = Tail(queue)
    /\ Goto(r, "done") /\ Answer(r, "error")
    /\ UNCHANGED <<conn, unclean, slot, sessionVars, committed, history>>

-----------------------------------------------------------------------------
(* runInRoleTransaction: one action per statement.                         *)

\* A GET, and nothing else, opens READ ONLY.
OpensReadOnly(r) == KindOf[r] = "get"

\* Mutant: a read skips SET LOCAL ROLE and set_config.
IdentityOnlyForWrites(r) == IF KindOf[r] = "get" THEN "work" ELSE "setRole"
AfterBegin(r) == "setRole"

\* await client.query(readOnly ? 'BEGIN READ ONLY' : 'BEGIN')
Begin(r) ==
    LET c == conn[r] IN
    /\ pc[r] = "begin"
    /\ \/ /\ Goto(r, AfterBegin(r))
          /\ txState' = [txState EXCEPT ![c] = "open"]
          /\ readOnly' = [readOnly EXCEPT ![c] = OpensReadOnly(r)]
          /\ UNCHANGED <<result, localRole, localClaims, sessionRole, staged>>
       \/ Throw(r) /\ LoseConnection(c)
    /\ UNCHANGED <<conn, unclean, poolVars, committed, history>>

\* await client.query('SET LOCAL ROLE ...'): refused when the role does not
\* exist or the login role is not a member of it.
SetLocalRole(r) ==
    LET c == conn[r] IN
    /\ pc[r] = "setRole"
    /\ \/ /\ Goto(r, "setClaims")
          /\ localRole' = [localRole EXCEPT ![c] = RoleOf[r]]
          /\ UNCHANGED <<result, txState, readOnly, localClaims, sessionRole, staged>>
       \/ Throw(r) /\ Refuse(c)
       \/ Throw(r) /\ LoseConnection(c)
    /\ UNCHANGED <<conn, unclean, poolVars, committed, history>>

\* await client.query('SELECT set_config($1, $2, true)', ...)
SetConfig(r) ==
    LET c == conn[r] IN
    /\ pc[r] = "setClaims"
    /\ \/ /\ Goto(r, "work")
          /\ localClaims' = [localClaims EXCEPT ![c] = r]
          /\ UNCHANGED <<result, txState, readOnly, localRole, sessionRole, staged>>
       \/ Throw(r) /\ LoseConnection(c)
    /\ UNCHANGED <<conn, unclean, poolVars, committed, history>>

\* An UPDATE or DELETE that returns no row is answered 404, as a result and not
\* as an exception: a trigger may have changed data and returned NULL.
AnswerChange(r) ==
    \/ Answer(r, "ok")
    \/ KindOf[r] = "write" /\ Answer(r, "notFound")

\* One statement of the work changes data.  A function called by a SELECT may
\* do so too; READ ONLY refuses it (StatementFails).
StatementWrites(r) ==
    LET c == conn[r] IN
    /\ pc[r] = "work" /\ txState[c] = "open" /\ ~readOnly[c]
    /\ staged' = [staged EXCEPT ![c] = @ \cup {r}]
    /\ wrote' = wrote \cup {r}
    /\ Goto(r, "commit") /\ AnswerChange(r)
    /\ UNCHANGED <<conn, unclean, poolVars, txState, readOnly, localRole,
                   localClaims, sessionRole, committed, doubt>>

\* The work ends without changing data: its queries succeeded ("ok"), the row
\* asked for is not there ("notFound"), or the handler refused the request with
\* 400 / 404 / 405 ("error"; REST only: the MCP tool turned its refusals down
\* before it asked for a client).
WorkReads(r) ==
    /\ pc[r] = "work"
    /\ Goto(r, "commit")
    /\ \/ Answer(r, "ok")
       \/ KindOf[r] # "call" /\ (Answer(r, "notFound") \/ Answer(r, "error"))
    /\ UNCHANGED <<conn, unclean, poolVars, sessionVars, committed, history>>

\* A statement of the work is refused or loses its connection.  The REST
\* handler catches everything and returns a result, so the envelope goes on to
\* COMMIT; the MCP tool's work rejects, so it rolls back.  (listResource's
\* second query, if still queued, only meets the aborted transaction.)
StatementFails(r) ==
    LET c == conn[r] IN
    /\ pc[r] = "work"
    /\ IF KindOf[r] = "call" THEN Throw(r)
                             ELSE Goto(r, "commit") /\ Answer(r, "error")
    /\ Refuse(c) \/ LoseConnection(c)
    /\ UNCHANGED <<conn, unclean, poolVars, committed, history>>

Work(r) == StatementWrites(r) \/ WorkReads(r) \/ StatementFails(r)

\* COMMIT of an open transaction.  A function run by the work may have issued
\* SET ROLE without LOCAL: it takes hold of the session here.
CommitOpen(r) ==
    LET c == conn[r] IN
    /\ txState[c] = "open"
    /\ committed' = committed \cup staged[c]
    /\ EndTx(c, "none")
    /\ \/ UNCHANGED sessionRole
       \/ /\ KindOf[r] # "get"
          /\ \E role \in AnyRole : sessionRole' = [sessionRole EXCEPT ![c] = role]
    /\ Goto(r, "release")
    /\ UNCHANGED <<result, doubt>>

\* COMMIT of an aborted transaction rolls it back and raises no error.
CommitAborted(r) ==
    LET c == conn[r] IN
    /\ txState[c] = "aborted"
    /\ EndTx(c, "none")
    /\ Goto(r, "release")
    /\ UNCHANGED <<result, sessionRole, committed, doubt>>

\* A DEFERRABLE constraint fires at COMMIT, or the connection was lost before.
CommitRefused(r) ==
    LET c == conn[r] IN
    /\ \/ /\ txState[c] = "open" /\ staged[c] # {}
          /\ EndTx(c, "none")
          /\ UNCHANGED sessionRole
       \/ txState[c] = "lost" /\ UNCHANGED sessionVars
    /\ Throw(r)
    /\ UNCHANGED <<committed, doubt>>

\* Mutant: a COMMIT whose answer was lost is tried again on a new transaction.
CommitRetried(r) ==
    /\ txState[conn[r]] = "open"
    /\ committed' = committed \cup staged[conn[r]]
    /\ doubt' = doubt \cup {r}
    /\ EndTx(conn[r], "none")
    /\ Goto(r, "begin")
    /\ UNCHANGED <<result, sessionRole>>

\* The connection breaks with COMMIT in flight: it may or may not have taken
\* effect.
CommitInDoubt(r) ==
    LET c == conn[r] IN
    /\ txState[c] # "lost"
    /\ \/ UNCHANGED committed
       \/ txState[c] = "open" /\ committed' = committed \cup staged[c]
    /\ doubt' = doubt \cup {r}
    /\ LoseConnection(c)
    /\ Throw(r)

Commit(r) ==
    /\ pc[r] = "commit"
    /\ CommitOpen(r) \/ CommitAborted(r) \/ CommitRefused(r) \/ CommitInDoubt(r)
    /\ UNCHANGED <<conn, unclean, poolVars, wrote>>

\* The catch block.  When ROLLBACK fails (the connection is gone, or the query
\* is rejected for another reason) the client is flagged.
Rollback(r) ==
    LET c == conn[r] IN
    /\ pc[r] = "rollback"
    /\ Goto(r, "release")
    /\ \/ txState[c] # "lost" /\ EndTx(c, "none") /\ UNCHANGED <<sessionRole, unclean>>
       \/ unclean' = [unclean EXCEPT ![r] = TRUE] /\ UNCHANGED sessionVars
       \/ /\ txState[c] # "lost"
          /\ unclean' = [unclean EXCEPT ![r] = TRUE]
          /\ LoseConnection(c)
    /\ UNCHANGED <<conn, result, poolVars, committed, history>>

\* Mutant: the `unclean` flag is not passed to release().
DestroyedOnlyWhenLost(r) == txState[conn[r]] = "lost"
Destroyed(r) == unclean[r] \/ txState[conn[r]] = "lost"

\* Mutant: release() is skipped after a failed ROLLBACK.
SlotLeaked(r) == IF Destroyed(r) THEN "busy" ELSE "idle"
SlotReleased(r) == IF Destroyed(r) THEN "absent" ELSE "idle"

\* client.release(unclean): a flagged or broken client is destroyed, and its
\* session with it; any other goes back to the pool as it is.  The caller then
\* answers.
Release(r) ==
    LET c == conn[r] IN
    /\ pc[r] = "release"
    /\ slot' = [slot EXCEPT ![c] = SlotReleased(r)]
    /\ IF Destroyed(r)
       THEN EndTx(c, "none") /\ sessionRole' = [sessionRole EXCEPT ![c] = LoginRole]
       ELSE UNCHANGED sessionVars
    /\ conn' = [conn EXCEPT ![r] = None]
    /\ Goto(r, "done")
    /\ UNCHANGED <<result, unclean, queue, committed, history>>

-----------------------------------------------------------------------------
(* The environment.                                                        *)

\* The pool drops an idle client whose connection broke.
IdleLost(c) ==
    /\ slot[c] = "idle"
    /\ slot' = [slot EXCEPT ![c] = "absent"]
    /\ sessionRole' = [sessionRole EXCEPT ![c] = LoginRole]
    /\ UNCHANGED <<pc, conn, result, unclean, queue, txState, readOnly, localRole,
                   localClaims, staged, committed, history>>

\* Requests whose COMMIT may be on the wire.
Committing == {r \in Reqs : pc[r] = "commit" /\ txState[conn[r]] = "open"}

\* The process dies (kozou installs no 'error' listener on its pool, so an idle
\* client's failure is enough).  Every connection closes and PostgreSQL aborts
\* what was open, except a COMMIT it had already been sent.
Crash ==
    /\ \E r \in Reqs : pc[r] \notin Finished
    /\ \E landed \in SUBSET Committing :
         committed' = committed \cup UNION {staged[conn[r]] : r \in landed}
    /\ pc' = [r \in Reqs |-> IF pc[r] = "done" THEN "done" ELSE "gone"]
    /\ conn' = [r \in Reqs |-> None]
    /\ queue' = << >>
    /\ slot' = [c \in Clients |-> "absent"]
    /\ txState' = [c \in Clients |-> "none"]
    /\ readOnly' = [c \in Clients |-> FALSE]
    /\ localRole' = [c \in Clients |-> None]
    /\ localClaims' = [c \in Clients |-> None]
    /\ sessionRole' = [c \in Clients |-> LoginRole]
    /\ staged' = [c \in Clients |-> {}]
    /\ UNCHANGED <<result, unclean, history>>

\* Every request has been answered, or the process is gone.
AllFinished == (\A r \in Reqs : pc[r] \in Finished) /\ UNCHANGED vars

Step(r) ==
    \/ Authenticate(r) \/ ReadBody(r) \/ Connect(r) \/ ConnectFails(r)
    \/ Begin(r) \/ SetLocalRole(r) \/ SetConfig(r) \/ Work(r)
    \/ Commit(r) \/ Rollback(r) \/ Release(r)

Next ==
    \/ \E r \in Reqs : Step(r)
    \/ \E c \in Clients : IdleLost(c)
    \/ Crash
    \/ AllFinished

\* Each awaited call settles: a token is verified, a body ends, PostgreSQL
\* answers a statement or the connection breaks.
Fairness == \A r \in Reqs : WF_vars(Step(r))

Spec == Init /\ [][Next]_vars
FairSpec == Spec /\ Fairness

-----------------------------------------------------------------------------
(* Properties.                                                             *)

\* What the next request to take a pooled client meets: no transaction left
\* open or aborted, no role or claims of an earlier request, no staged write.
\* "Always return the connection to the pool" (roleTransaction.ts:8) must not
\* hand one request's identity or writes to the next, on any error path.
IdleClientsAreClean ==
    \A c \in Clients : slot[c] = "idle" =>
        /\ txState[c] = "none"
        /\ localRole[c] = None /\ localClaims[c] = None
        /\ staged[c] = {}

\* Work only ever runs as its own requester, whatever session role an earlier
\* user of the same connection left behind (roleTransaction.ts:76-83).
WorkRunsAsRequester ==
    \A r \in Reqs : pc[r] = "work" =>
        /\ EffectiveRole(conn[r]) = RoleOf[r]
        /\ localClaims[conn[r]] = r
        /\ readOnly[conn[r]] = (KindOf[r] = "get")

\* The answer agrees with the database.  Success is answered only for what is
\* durable; so is "notFound": whatever the triggers of an UPDATE or DELETE that
\* returned no row changed is committed with it (handler.ts:336, :348).  An error is
\* answered only for what is not durable, but for a COMMIT whose answer was
\* lost.  A GET leaves nothing durable even when the SELECT it runs tries to
\* write (startApiServer.ts:164-172).
\* (The REST handler turns errors into results, so COMMIT follows a failure.)
AnswersAreTrue ==
    /\ \A r \in Reqs : pc[r] = "done" =>
        /\ result[r] # "none"
        /\ (result[r] \in Completed /\ r \in wrote) => r \in committed
        /\ (result[r] = "error" /\ r \in committed) => r \in doubt
    /\ \A r \in committed : KindOf[r] # "get"

\* No client is leaked or shared: the busy clients are exactly those held, by
\* one request each, and a finished or waiting request holds none.
ClientsAccountedFor ==
    /\ \A c \in Clients : slot[c] = "busy" <=> \E r \in Reqs : conn[r] = c
    /\ \A r, s \in Reqs : conn[r] # None /\ conn[r] = conn[s] => r = s
    /\ \A r \in Reqs : conn[r] # None <=> pc[r] \in Holding

\* With fewer clients than requests everyone is served in the end.
EveryRequestFinishes == \A r \in Reqs : <>(pc[r] \in Finished)

\* The abstract answer: what the client has been told.
answer == [r \in Reqs |-> IF pc[r] = "done" THEN result[r] ELSE "none"]

Abstract == INSTANCE AtomicRequests WITH
    Reqs <- Reqs, wrote <- wrote, doubt <- doubt, committed <- committed, answer <- answer

\* Every step of the envelope is a step of the promise, or invisible to it.
ImplementsAtomicRequests == Abstract!Spec
=============================================================================
