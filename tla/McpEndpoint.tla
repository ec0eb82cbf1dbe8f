------------------------------ MODULE McpEndpoint ------------------------------
(***************************************************************************)
(* The MCP HTTP endpoint (packages/mcp/src/startHttpServer.ts) with the    *)
(* dispatch of its tools (packages/mcp/src/server.ts): requests of several *)
(* clients are verified, read and served concurrently, sessions open and   *)
(* close under them, and the server may be closed at any time.             *)
(*                                                                         *)
(* The SDK's transport is external: it opens its session on an initialize  *)
(* request, closes on DELETE, and hands the messages of a POST to the      *)
(* dispatcher.  What it answers once closed is left open.                  *)
(***************************************************************************)
EXTENDS Naturals, FiniteSets

CONSTANTS
    Requests,      \* HTTP requests; a session is named by the request that opens it
    Tokens,        \* bearer tokens that verify until they expire
    ScopesOf,      \* [Tokens -> SUBSET Scopes]
    RoleOf,        \* [Tokens -> Roles]
    AllowedRoles,  \* auth.allowedRoles
    FixedRole,     \* execution.role, used without auth only
    Bodies,        \* what the POSTs of a session may call: sets of tools
    Options,       \* how the server may be started
    None

Scopes == {"describe", "execute", "admin"}
Tools == {"describe", "call"}
Kinds == {"initialize", "post", "get", "delete", "refresh"}

ASSUME McpEndpointAssumption ==
    /\ ScopesOf \in [Tokens -> SUBSET Scopes]
    /\ Bodies \subseteq SUBSET Tools
    /\ Options \subseteq [auth : BOOLEAN, adminRefresh : BOOLEAN]
    /\ None \notin Tokens

VARIABLES
    options,     \* auth: it is an OAuth resource server; adminRefresh: auth.adminRefresh
    request,     \* [Requests -> Request]
    transport,   \* [Requests -> state]: the SDK transport a request opened
    transports,  \* SUBSET Requests: the keys of the map of sessions
    phase,       \* of the server
    expired,     \* SUBSET Tokens
    gone,        \* sessions whose client went away without a DELETE
    refreshed    \* history: requests that invalidated the schema cache

vars == <<options, request, transport, transports, phase, expired, gone, refreshed>>

Request ==
    [state   : {"new", "verifying", "reading", "running", "streaming", "done", "lost"},
     kind    : Kinds,
     token   : Tokens \cup {None},
     sid     : Requests,          \* mcp-session-id; its own name for an unknown one
     tools   : SUBSET Tools,      \* the tools/call messages of the body
     pending : SUBSET Tools,      \* those not dispatched yet
     ran     : SUBSET [tool : Tools, as : {RoleOf[t] : t \in Tokens} \cup {FixedRole}],
     answer  : {"none", "ok", "cut", "unauthorized", "forbidden", "insufficient_scope",
                "not_found", "bad_body"},
     stale   : BOOLEAN]           \* history: it arrived without a valid token

Init ==
    /\ options \in Options
    /\ request = [r \in Requests |->
         [state |-> "new", kind |-> "initialize", token |-> None, sid |-> r, tools |-> {},
          pending |-> {}, ran |-> {}, answer |-> "none", stale |-> FALSE]]
    /\ transport = [r \in Requests |-> "none"]
    /\ transports = {}
    /\ phase = "up"
    /\ expired = {}
    /\ gone = {}
    /\ refreshed = {}

-----------------------------------------------------------------------------
Auth == options.auth
AdminRefresh == options.adminRefresh

Valid(token) == token \in Tokens \ expired
Has(r, scope) == request[r].token \in Tokens /\ scope \in ScopesOf[request[r].token]
ScopeFor(tool) == IF tool = "call" THEN "execute" ELSE "describe"

Respond(r, answer) == request' = [request EXCEPT ![r].state = "done", ![r].answer = answer]
Move(r, state) == request' = [request EXCEPT ![r].state = state]

\* Mutant: the sessions of closed transports stay in the map.
StaysInMap(s) == transports
\* transport.onclose
Forget(s) == transports \ {s}

CloseTransport(s) ==
    /\ transport' = [transport EXCEPT ![s] = "closed"]
    /\ transports' = Forget(s)

MayRefresh(r) == Auth => Has(r, "admin")

HasAFacet(r) == Auth => Has(r, "describe") \/ Has(r, "execute")

\* POST /admin/refresh, once verified.
Refresh(r) ==
    /\ request[r].kind = "refresh"
    /\ \/ MayRefresh(r) /\ Respond(r, "ok") /\ refreshed' = refreshed \cup {r}
       \/ ~MayRefresh(r) /\ Respond(r, "insufficient_scope") /\ UNCHANGED refreshed
    /\ UNCHANGED <<transport, transports>>

\* handleMcp, up to its first await; `existing` is the transport the session id names.
HandleMcp(r) ==
    /\ request[r].kind # "refresh"
    /\ UNCHANGED refreshed
    /\ LET q == request[r] IN
       \/ /\ ~HasAFacet(r)
          /\ Respond(r, "insufficient_scope") /\ UNCHANGED <<transport, transports>>
       \/ /\ HasAFacet(r) /\ q.kind = "initialize"
          /\ Move(r, "reading") /\ UNCHANGED <<transport, transports>>
       \/ /\ HasAFacet(r) /\ q.kind # "initialize" /\ q.sid \notin transports
          /\ Respond(r, "not_found") /\ UNCHANGED <<transport, transports>>
       \/ /\ HasAFacet(r) /\ q.kind = "post" /\ q.sid \in transports
          /\ Move(r, "reading") /\ UNCHANGED <<transport, transports>>
       \/ /\ HasAFacet(r) /\ q.kind = "get" /\ q.sid \in transports
          /\ Move(r, "streaming") /\ UNCHANGED <<transport, transports>>
       \/ /\ HasAFacet(r) /\ q.kind = "delete" /\ q.sid \in transports
          /\ Respond(r, "ok") /\ CloseTransport(q.sid)

-----------------------------------------------------------------------------
(* A request's steps.                                                      *)

Received(r, kind, token, sid, tools) ==
    [request[r] EXCEPT !.kind = kind, !.token = token, !.sid = sid, !.tools = tools,
                       !.pending = tools, !.stale = ~Valid(token)]

\* A request arrives.  The server accepts connections until it drains; a disabled
\* refresh route is not found before anything is verified.  Without auth no
\* Authorization header is read.
Arrive(r) ==
    /\ request[r].state = "new" /\ phase \in {"up", "closing"}
    /\ \E kind \in Kinds, token \in Tokens \cup {None}, tools \in Bodies,
          sid \in {s \in Requests : s = r \/ transport[s] # "none"} \ gone :
         /\ kind # "post" => tools = {}
         /\ ~Auth => token = None
         /\ kind \in {"initialize", "refresh"} => sid = r
         /\ request' = [request EXCEPT ![r] =
              IF kind = "refresh" /\ Auth /\ ~AdminRefresh
              THEN [Received(r, kind, token, sid, tools) EXCEPT !.state = "done",
                                                                !.answer = "not_found"]
              ELSE [Received(r, kind, token, sid, tools) EXCEPT !.state = "verifying"]]
    /\ UNCHANGED <<options, transport, transports, phase, expired, gone, refreshed>>

\* Mutant: a request of an open session is not verified again.
SessionVouches(r) == ~Auth \/ Valid(request[r].token) \/ request[r].sid \in transports
Verified(r) == ~Auth \/ Valid(request[r].token)

RoleAllowed(r) == ~Auth \/ RoleOf[request[r].token] \in AllowedRoles

\* authenticate() comes back (at once without auth) and the request is routed.
Authenticate(r) ==
    /\ request[r].state = "verifying"
    /\ \/ /\ ~Verified(r)
          /\ Respond(r, "unauthorized") /\ UNCHANGED <<transport, transports, refreshed>>
       \/ /\ Verified(r) /\ request[r].token \in Tokens /\ ~RoleAllowed(r)
          /\ Respond(r, "forbidden") /\ UNCHANGED <<transport, transports, refreshed>>
       \/ /\ Verified(r) /\ (request[r].token \in Tokens => RoleAllowed(r))
          /\ Refresh(r) \/ HandleMcp(r)
    /\ UNCHANGED <<options, phase, expired, gone>>

\* Mutant: the body is refused without an answer.
Unanswered(r) == Move(r, "lost")
\* 413, 415 or 400: too large, not JSON, or not an initialize request.
RefuseBody(r) == Respond(r, "bad_body")

MissingToolScope(r) == Auth /\ \E tool \in request[r].tools : ~Has(r, ScopeFor(tool))

\* readJsonBody comes back: the messages go to the transport found before.
ReadBody(r) ==
    /\ request[r].state = "reading"
    /\ \/ RefuseBody(r) /\ UNCHANGED <<transport, transports>>
       \/ /\ request[r].kind = "post"
          /\ IF MissingToolScope(r) THEN Respond(r, "insufficient_scope") ELSE Move(r, "running")
          /\ UNCHANGED <<transport, transports>>
       \/ /\ request[r].kind = "initialize"
          /\ transport' = [transport EXCEPT ![r] = "open"]
          /\ transports' = transports \cup {r}
          /\ Respond(r, "ok")
    /\ UNCHANGED <<options, phase, expired, gone, refreshed>>

\* Mutant: a call runs as the token that opened the session.
SessionIdentity(r) ==
    LET opener == request[request[r].sid].token IN
    IF Auth /\ opener \in Tokens THEN RoleOf[opener] ELSE FixedRole
Identity(r) == IF Auth THEN RoleOf[request[r].token] ELSE FixedRole

AfterDispatch(r, tool) == request[r].pending \ {tool}

\* server.ts: the tool's own gates, then its work; or an error result (the gates,
\* an unavailable schema, a failed call).
Dispatch(r, tool) ==
    /\ request[r].state = "running" /\ tool \in request[r].pending
    /\ \/ /\ Auth => Has(r, ScopeFor(tool)) /\ RoleOf[request[r].token] \in AllowedRoles
          /\ request' = [request EXCEPT
               ![r].pending = AfterDispatch(r, tool),
               ![r].ran = @ \cup {[tool |-> tool, as |-> Identity(r)]}]
       \/ request' = [request EXCEPT ![r].pending = AfterDispatch(r, tool)]
    /\ UNCHANGED <<options, transport, transports, phase, expired, gone, refreshed>>

\* The transport answers; one that was closed meanwhile cuts the response short or
\* never ends it.
Finish(r) ==
    LET open == transport[request[r].sid] = "open" IN
    /\ request[r].state \in {"running", "streaming"} /\ request[r].pending = {}
    /\ \/ request[r].state = "running" /\ open /\ Respond(r, "ok")
       \/ ~open /\ Respond(r, "cut")
       \/ request[r].state = "running" /\ ~open /\ Move(r, "lost")
    /\ UNCHANGED <<options, transport, transports, phase, expired, gone, refreshed>>

-----------------------------------------------------------------------------
(* The server closes: each transport, then the listener.                   *)

BeginClose ==
    /\ phase = "up"
    /\ phase' = "closing"
    /\ UNCHANGED <<options, request, transport, transports, expired, gone, refreshed>>

CloseNext ==
    /\ phase = "closing"
    /\ \E s \in transports : CloseTransport(s)
    /\ UNCHANGED <<options, request, phase, expired, gone, refreshed>>

\* transports.clear(); closeServer
Drain ==
    /\ phase = "closing" /\ transports = {}
    /\ phase' = "draining"
    /\ UNCHANGED <<options, request, transport, transports, expired, gone, refreshed>>

Closed ==
    /\ phase = "draining"
    /\ \A r \in Requests : request[r].state \in {"new", "done"}
    /\ phase' = "closed"
    /\ UNCHANGED <<options, request, transport, transports, expired, gone, refreshed>>

-----------------------------------------------------------------------------
(* The world outside.                                                      *)

Expire(token) ==
    /\ Auth
    /\ expired' = expired \cup {token}
    /\ UNCHANGED <<options, request, transport, transports, phase, gone, refreshed>>

\* A client is closed or crashes without deleting its session.
Vanish(s) ==
    /\ transport[s] = "open"
    /\ gone' = gone \cup {s}
    /\ UNCHANGED <<options, request, transport, transports, phase, expired, refreshed>>

Step(r) ==
    \/ Authenticate(r)
    \/ ReadBody(r)
    \/ \E tool \in Tools : Dispatch(r, tool)
    \/ Finish(r)

Next ==
    \/ \E r \in Requests : Arrive(r) \/ Step(r)
    \/ BeginClose \/ CloseNext \/ Drain \/ Closed
    \/ \E token \in Tokens : Expire(token)
    \/ \E s \in Requests : Vanish(s)

\* Key sets, bodies and tools come back, and a close goes on.
Fairness ==
    /\ \A r \in Requests : WF_vars(Step(r))
    /\ WF_vars(CloseNext) /\ WF_vars(Drain)

Spec == Init /\ [][Next]_vars
FairSpec == Spec /\ Fairness

-----------------------------------------------------------------------------
\* Every tool that runs is within the scopes, and runs under the role, of the
\* token of its own request, whoever opened the session; a gated server "never
\* falls back to the fixed execution role" (server.ts:324-326).  The schema cache
\* is invalidated over HTTP by admin tokens only, and by nobody when the operator
\* did not enable it.  A batch holding one message beyond the token's scopes is
\* refused whole: none of its other messages runs (startHttpServer.ts:958-962).
WorkIsAuthorized ==
    /\ \A r \in Requests : \A done \in request[r].ran :
        IF Auth THEN /\ Has(r, ScopeFor(done.tool))
                     /\ done.as = RoleOf[request[r].token] /\ done.as \in AllowedRoles
                ELSE done.as = FixedRole
    /\ Auth => \A r \in refreshed : AdminRefresh /\ Has(r, "admin")
    /\ Auth => \A r \in Requests :
         (\E tool \in request[r].tools : ~Has(r, ScopeFor(tool))) => request[r].ran = {}

\* "A session id never substitutes for a token" (startHttpServer.ts:861-862): a
\* request that arrives without a valid token has no effect, however valid the
\* token was that opened the session it names.
SessionIsNoCredential ==
    Auth => \A r \in Requests : request[r].stale =>
        /\ request[r].ran = {} /\ r \notin refreshed /\ transport[r] = "none"
        /\ request[r].answer \in {"none", "unauthorized", "not_found"}

\* The map of sessions holds the open transports and no other, through deletes,
\* late initializations and the server's own close.
MapHoldsOpenTransports == transports = {s \in Requests : transport[s] = "open"}

\* Every request is answered, unless its session is closed under it.
EveryRequestSettles ==
    \A r \in Requests :
        (request[r].state \in {"verifying", "reading", "running"}) ~>
            \/ request[r].state \in {"done", "streaming"}
            \/ request[r].state = "lost" /\ transport[request[r].sid] = "closed"

=============================================================================
