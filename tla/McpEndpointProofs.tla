--------------------------- MODULE McpEndpointProofs ---------------------------
(***************************************************************************)
(* For any requests, tokens, scopes, roles and bodies: the MCP HTTP        *)
(* endpoint runs work within the scopes and under the role of the token of *)
(* the very request, a session is no credential, and the map of sessions   *)
(* holds the open transports.  For any reasons, window length and number   *)
(* of lines per window: its log of refusals neither loses nor repeats one, *)
(* and in no stretch of time as long as a window writes twice the lines of *)
(* one.                                                                    *)
(***************************************************************************)
EXTENDS McpEndpoint, RefusalLog, FiniteSetTheorems, SequenceTheorems, TLAPS

TypeOK ==
    /\ options \in [auth : BOOLEAN, adminRefresh : BOOLEAN]
    /\ request \in [Requests -> Request]
    /\ transport \in [Requests -> {"none", "open", "closed"}]
    /\ transports \subseteq Requests
    /\ phase \in {"up", "closing", "draining", "closed"}
    /\ expired \subseteq Tokens
    /\ gone \subseteq Requests
    /\ refreshed \subseteq Requests

\* Before it is routed, and while its body is read, a request has done nothing.
NothingDone(r) ==
    request[r].state \in {"new", "verifying", "reading"} =>
        /\ request[r].ran = {} /\ request[r].answer = "none"
        /\ r \notin refreshed /\ transport[r] = "none"

\* A body is dispatched once all of its messages are within the scopes.
WithinScopes(r) ==
    Auth /\ (request[r].state = "running" \/ request[r].ran # {}) => ~MissingToolScope(r)

\* What ran was asked for by this request and ran as its role.
RanAsItself(r) ==
    \A done \in request[r].ran :
        IF Auth THEN /\ Has(r, ScopeFor(done.tool))
                     /\ done.as = RoleOf[request[r].token] /\ done.as \in AllowedRoles
                ELSE done.as = FixedRole

\* A refresh is only routed when it is enabled.
RefreshAllowed(r) ==
    Auth => /\ r \in refreshed => AdminRefresh /\ Has(r, "admin")
            /\ request[r].state = "verifying" /\ request[r].kind = "refresh" => AdminRefresh

\* Without a valid token on arrival there is none later, and no effect.
WithoutToken(r) ==
    Auth /\ request[r].stale =>
        /\ ~Valid(request[r].token)
        /\ request[r].state \in {"verifying", "done"}
        /\ request[r].ran = {} /\ r \notin refreshed /\ transport[r] = "none"
        /\ request[r].answer \in {"none", "unauthorized", "not_found"}

RequestInv(r) ==
    /\ NothingDone(r) /\ WithinScopes(r) /\ RanAsItself(r) /\ RefreshAllowed(r)
    /\ WithoutToken(r)
    /\ request[r].pending \subseteq request[r].tools

IInv == TypeOK /\ MapHoldsOpenTransports /\ \A r \in Requests : RequestInv(r)

-----------------------------------------------------------------------------
LEMMA InitIInv == Init => IInv
<1>. SUFFICES ASSUME Init PROVE IInv
  OBVIOUS
<1>1. TypeOK
  BY McpEndpointAssumption DEF Init, TypeOK, Request, Kinds
<1>2. MapHoldsOpenTransports
  BY DEF Init, MapHoldsOpenTransports
<1>3. ASSUME NEW r \in Requests PROVE RequestInv(r)
  BY <1>3 DEF Init, RequestInv, NothingDone, WithinScopes, RanAsItself, RefreshAllowed,
              WithoutToken
<1>. QED  BY <1>1, <1>2, <1>3 DEF IInv

\* A step that leaves a request alone, but for closing its open transport.
Untouched(r) ==
    /\ request'[r] = request[r]
    /\ options' = options /\ expired \subseteq expired'
    /\ r \in refreshed' <=> r \in refreshed
    /\ transport[r] = "none" => transport'[r] = "none"

LEMMA UntouchedInv ==
    ASSUME NEW r \in Requests, RequestInv(r), Untouched(r)
    PROVE  RequestInv(r)'
BY DEF RequestInv, Untouched, NothingDone, WithinScopes, RanAsItself, RefreshAllowed,
       WithoutToken, Has, MissingToolScope, Valid, Auth, AdminRefresh

\* Respond and Move change the state and the answer of one request.
Answered(r, state, answer) ==
    request' = [request EXCEPT ![r].state = state, ![r].answer = answer]

LEMMA AnsweredFields ==
    ASSUME TypeOK, NEW r \in Requests,
           NEW state \in {"reading", "running", "streaming", "done", "lost"},
           NEW answer \in {"none", "ok", "cut", "unauthorized", "forbidden",
                           "insufficient_scope", "not_found", "bad_body"},
           Answered(r, state, answer)
    PROVE  /\ request' \in [Requests -> Request]
           /\ \A q \in Requests \ {r} : request'[q] = request[q]
           /\ request'[r].state = state /\ request'[r].answer = answer
           /\ request'[r].kind = request[r].kind /\ request'[r].token = request[r].token
           /\ request'[r].sid = request[r].sid /\ request'[r].tools = request[r].tools
           /\ request'[r].pending = request[r].pending /\ request'[r].ran = request[r].ran
           /\ request'[r].stale = request[r].stale
<1>. DEFINE new == [request[r] EXCEPT !.state = state, !.answer = answer]
<1>1. request[r] \in Request
  BY DEF TypeOK
<1>2. /\ new \in Request
      /\ new.state = state /\ new.answer = answer
      /\ new.kind = request[r].kind /\ new.token = request[r].token
      /\ new.sid = request[r].sid /\ new.tools = request[r].tools
      /\ new.pending = request[r].pending /\ new.ran = request[r].ran
      /\ new.stale = request[r].stale
  BY <1>1 DEF Request
<1>3. request' = [request EXCEPT ![r] = new]
  BY DEF Answered, TypeOK
<1>. HIDE DEF new
<1>4. request'[r] = new /\ \A q \in Requests \ {r} : request'[q] = request[q]
  BY <1>3 DEF TypeOK
<1>. QED  BY <1>2, <1>3, <1>4 DEF TypeOK

LEMMA MoveAnswers ==
    ASSUME TypeOK, NEW r \in Requests, NEW state, Move(r, state)
    PROVE  Answered(r, state, request[r].answer)
<1>1. request[r] = [request[r] EXCEPT !.answer = request[r].answer]
  BY DEF TypeOK, Request
<1>. QED  BY <1>1 DEF Move, Answered, TypeOK, Request

LEMMA ClosedTransport ==
    ASSUME TypeOK, MapHoldsOpenTransports, NEW s \in transports, CloseTransport(s)
    PROVE  /\ transport' \in [Requests -> {"none", "open", "closed"}]
           /\ transports' \subseteq Requests
           /\ MapHoldsOpenTransports'
           /\ \A q \in Requests : transport[q] = "none" => transport'[q] = "none"
BY DEF TypeOK, MapHoldsOpenTransports, CloseTransport, Forget

-----------------------------------------------------------------------------
LEMMA ArriveInv ==
    ASSUME IInv, NEW r \in Requests, Arrive(r)
    PROVE  IInv'
<1>1. TypeOK /\ MapHoldsOpenTransports /\ \A q \in Requests : RequestInv(q)
  BY DEF IInv
<1>2. PICK kind \in Kinds, token \in Tokens \cup {None}, tools \in Bodies, sid \in Requests :
        request' = [request EXCEPT ![r] =
              IF kind = "refresh" /\ Auth /\ ~AdminRefresh
              THEN [Received(r, kind, token, sid, tools) EXCEPT !.state = "done",
                                                                !.answer = "not_found"]
              ELSE [Received(r, kind, token, sid, tools) EXCEPT !.state = "verifying"]]
  BY DEF Arrive
<1>3. /\ request[r].state = "new"
      /\ UNCHANGED <<options, transport, transports, phase, expired, gone, refreshed>>
  BY DEF Arrive
<1>4. /\ request[r].ran = {} /\ request[r].answer = "none"
      /\ r \notin refreshed /\ transport[r] = "none"
  BY <1>1, <1>3 DEF RequestInv, NothingDone
<1>5. request[r] \in Request
  BY <1>1 DEF TypeOK
<1>. DEFINE base == Received(r, kind, token, sid, tools)
<1>6. /\ base \in Request
      /\ base.state = "new" /\ base.kind = kind /\ base.token = token /\ base.tools = tools
      /\ base.pending = tools /\ base.stale = ~Valid(token)
      /\ base.ran = {} /\ base.answer = "none"
  BY <1>3, <1>4, <1>5, McpEndpointAssumption DEF Received, Request, Valid
<1>. HIDE DEF base
<1>7. /\ request' \in [Requests -> Request]
      /\ \A q \in Requests \ {r} : request'[q] = request[q]
      /\ request'[r].kind = kind /\ request'[r].token = token /\ request'[r].tools = tools
      /\ request'[r].pending = tools /\ request'[r].stale = ~Valid(token)
      /\ request'[r].ran = {}
  <2>1. CASE kind = "refresh" /\ Auth /\ ~AdminRefresh
    BY <1>1, <1>2, <1>6, <2>1 DEF TypeOK, Request, base
  <2>2. CASE ~(kind = "refresh" /\ Auth /\ ~AdminRefresh)
    BY <1>1, <1>2, <1>6, <2>2 DEF TypeOK, Request, base
  <2>. QED  BY <2>1, <2>2
<1>8. \/ /\ kind = "refresh" /\ Auth /\ ~AdminRefresh
         /\ request'[r].state = "done" /\ request'[r].answer = "not_found"
      \/ /\ ~(kind = "refresh" /\ Auth /\ ~AdminRefresh)
         /\ request'[r].state = "verifying" /\ request'[r].answer = "none"
  <2>1. CASE kind = "refresh" /\ Auth /\ ~AdminRefresh
    BY <1>1, <1>2, <1>6, <2>1 DEF TypeOK, Request, base
  <2>2. CASE ~(kind = "refresh" /\ Auth /\ ~AdminRefresh)
    BY <1>1, <1>2, <1>6, <2>2 DEF TypeOK, Request, base
  <2>. QED  BY <2>1, <2>2
<1>9. TypeOK' /\ MapHoldsOpenTransports'
  BY <1>1, <1>3, <1>7 DEF TypeOK, MapHoldsOpenTransports
<1>10. RequestInv(r)'
  <2>1. NothingDone(r)' /\ WithinScopes(r)' /\ RanAsItself(r)'
    BY <1>3, <1>4, <1>7, <1>8 DEF NothingDone, WithinScopes, RanAsItself
  <2>2. RefreshAllowed(r)'
    BY <1>3, <1>4, <1>7, <1>8 DEF RefreshAllowed, Auth, AdminRefresh
  <2>3. WithoutToken(r)'
    BY <1>3, <1>4, <1>7, <1>8 DEF WithoutToken, Valid, Auth
  <2>. QED  BY <1>7, <2>1, <2>2, <2>3 DEF RequestInv
<1>11. ASSUME NEW q \in Requests \ {r} PROVE RequestInv(q)'
  BY <1>1, <1>3, <1>7, UntouchedInv DEF Untouched
<1>. QED  BY <1>9, <1>10, <1>11 DEF IInv

\* What a request may be answered, or moved to, once it was verified or found
\* without a token.
LEMMA RoutedInv ==
    ASSUME TypeOK, NEW r \in Requests, RequestInv(r),
           request[r].state = "verifying",
           UNCHANGED <<options, expired>>,
           NEW state, NEW answer,
           \/ state \in {"reading", "streaming"} /\ answer = "none"
           \/ /\ state = "done"
              /\ answer \in {"ok", "unauthorized", "forbidden", "insufficient_scope", "not_found"},
           Auth /\ ~Valid(request[r].token) => state = "done" /\ answer = "unauthorized",
           Answered(r, state, answer),
           transport'[r] = "none",
           r \in refreshed' =>
               state = "done" /\ answer = "ok" /\ (Auth => AdminRefresh /\ Has(r, "admin"))
    PROVE  RequestInv(r)'
<1>1. /\ request'[r].state = state /\ request'[r].answer = answer
      /\ request'[r].kind = request[r].kind /\ request'[r].token = request[r].token
      /\ request'[r].tools = request[r].tools
      /\ request'[r].pending = request[r].pending /\ request'[r].ran = request[r].ran
      /\ request'[r].stale = request[r].stale
  BY AnsweredFields
<1>2. request[r].ran = {} /\ r \notin refreshed
  BY DEF RequestInv, NothingDone
<1>3. NothingDone(r)' /\ WithinScopes(r)' /\ RanAsItself(r)'
  BY <1>1, <1>2 DEF NothingDone, WithinScopes, RanAsItself
<1>4. RefreshAllowed(r)'
  BY <1>1 DEF RefreshAllowed, Auth, AdminRefresh, Has
<1>5. WithoutToken(r)'
  BY <1>1, <1>2 DEF WithoutToken, RequestInv, Auth, Valid
<1>. QED  BY <1>1, <1>3, <1>4, <1>5 DEF RequestInv

LEMMA AuthenticateInv ==
    ASSUME IInv, NEW r \in Requests, Authenticate(r)
    PROVE  IInv'
<1>1. TypeOK /\ MapHoldsOpenTransports /\ \A q \in Requests : RequestInv(q)
  BY DEF IInv
<1>2. request[r].state = "verifying" /\ UNCHANGED <<options, phase, expired, gone>>
  BY DEF Authenticate
<1>3. /\ request[r].ran = {} /\ request[r].answer = "none"
      /\ r \notin refreshed /\ transport[r] = "none"
  BY <1>1, <1>2 DEF RequestInv, NothingDone
<1>. DEFINE Outcome(state, answer) ==
       /\ \/ state \in {"reading", "streaming"} /\ answer = "none"
          \/ /\ state = "done"
             /\ answer \in {"ok", "unauthorized", "forbidden", "insufficient_scope", "not_found"}
       /\ Answered(r, state, answer)
       /\ Auth /\ ~Valid(request[r].token) => state = "done" /\ answer = "unauthorized"
       /\ \/ UNCHANGED refreshed
          \/ /\ refreshed' = refreshed \cup {r} /\ state = "done" /\ answer = "ok"
             /\ Auth => AdminRefresh /\ Has(r, "admin")
       /\ \/ UNCHANGED <<transport, transports>>
          \/ \E s \in transports : CloseTransport(s)
<1>4. ASSUME NEW answer \in {"ok", "unauthorized", "forbidden", "insufficient_scope", "not_found"},
             Respond(r, answer)
      PROVE  Answered(r, "done", answer)
  BY <1>4 DEF Respond, Answered
<1>5. ASSUME NEW state, Move(r, state)
      PROVE  Answered(r, state, "none")
  BY <1>1, <1>3, <1>5, MoveAnswers
<1>6. \E state, answer : Outcome(state, answer)
  <2>1. CASE ~Verified(r)
    BY <1>4, <2>1 DEF Authenticate, Verified
  <2>2. CASE Verified(r)
    <3>1. CASE ~RoleAllowed(r) /\ request[r].token \in Tokens
      BY <1>4, <2>2, <3>1 DEF Authenticate, Verified
    <3>2. CASE Refresh(r)
      <4>1. CASE MayRefresh(r) /\ Respond(r, "ok") /\ refreshed' = refreshed \cup {r}
        <5>1. Auth => AdminRefresh /\ Has(r, "admin")
          BY <1>1, <1>2, <3>2, <4>1 DEF Refresh, MayRefresh, RequestInv, RefreshAllowed
        <5>2. Answered(r, "done", "ok") /\ UNCHANGED <<transport, transports>>
          BY <1>4, <3>2, <4>1 DEF Refresh
        <5>. QED  BY <2>2, <4>1, <5>1, <5>2 DEF Verified
      <4>2. CASE Respond(r, "insufficient_scope") /\ UNCHANGED refreshed
        BY <1>4, <2>2, <3>2, <4>2 DEF Refresh, Verified
      <4>. QED  BY <3>2, <4>1, <4>2 DEF Refresh
    <3>3. CASE HandleMcp(r)
      <4>1. UNCHANGED refreshed
        BY <3>3 DEF HandleMcp
      <4>2. CASE UNCHANGED <<transport, transports>>
                 /\ \/ Respond(r, "insufficient_scope") \/ Respond(r, "not_found")
        BY <1>4, <2>2, <4>1, <4>2 DEF Verified
      <4>3. CASE UNCHANGED <<transport, transports>>
                 /\ \/ Move(r, "reading") \/ Move(r, "streaming")
        BY <1>5, <2>2, <4>1, <4>3 DEF Verified
      <4>4. CASE Respond(r, "ok") /\ \E s \in transports : CloseTransport(s)
        BY <1>4, <2>2, <4>1, <4>4 DEF Verified
      <4>. QED  BY <3>3, <4>2, <4>3, <4>4 DEF HandleMcp
    <3>. QED  BY <2>2, <3>1, <3>2, <3>3 DEF Authenticate
  <2>. QED  BY <2>1, <2>2
<1>7. PICK state, answer : Outcome(state, answer)
  BY <1>6
<1>8. /\ request' \in [Requests -> Request]
      /\ \A q \in Requests \ {r} : request'[q] = request[q]
  BY <1>1, <1>7, AnsweredFields
<1>9. /\ transport' \in [Requests -> {"none", "open", "closed"}] /\ transports' \subseteq Requests
      /\ MapHoldsOpenTransports'
      /\ \A q \in Requests : transport[q] = "none" => transport'[q] = "none"
  <2>1. CASE UNCHANGED <<transport, transports>>
    BY <1>1, <2>1 DEF TypeOK, MapHoldsOpenTransports
  <2>2. CASE \E s \in transports : CloseTransport(s)
    BY <1>1, <2>2, ClosedTransport
  <2>. QED  BY <1>7, <2>1, <2>2
<1>10. TypeOK'
  BY <1>1, <1>2, <1>7, <1>8, <1>9 DEF TypeOK
<1>11. RequestInv(r)'
  BY <1>1, <1>2, <1>3, <1>7, <1>9, RoutedInv
<1>12. ASSUME NEW q \in Requests \ {r} PROVE RequestInv(q)'
  BY <1>1, <1>2, <1>7, <1>8, <1>9, UntouchedInv DEF Untouched
<1>. QED  BY <1>9, <1>10, <1>11, <1>12 DEF IInv

LEMMA ReadBodyInv ==
    ASSUME IInv, NEW r \in Requests, ReadBody(r)
    PROVE  IInv'
<1>1. TypeOK /\ MapHoldsOpenTransports /\ \A q \in Requests : RequestInv(q)
  BY DEF IInv
<1>2. /\ request[r].state = "reading"
      /\ UNCHANGED <<options, phase, expired, gone, refreshed>>
  BY DEF ReadBody
<1>3. /\ request[r].ran = {} /\ request[r].answer = "none"
      /\ r \notin refreshed /\ transport[r] = "none"
      /\ Auth => ~request[r].stale
  BY <1>1, <1>2 DEF RequestInv, NothingDone, WithoutToken
<1>. DEFINE Outcome(state, answer) ==
       /\ \/ state = "running" /\ answer = "none" /\ ~MissingToolScope(r)
          \/ state = "done" /\ answer \in {"ok", "bad_body", "insufficient_scope"}
       /\ Answered(r, state, answer)
       /\ \/ UNCHANGED <<transport, transports>>
          \/ /\ state = "done"
             /\ transport' = [transport EXCEPT ![r] = "open"] /\ transports' = transports \cup {r}
<1>4. \E state, answer : Outcome(state, answer)
  <2>1. ASSUME NEW answer \in {"ok", "bad_body", "insufficient_scope"}, Respond(r, answer)
        PROVE  Answered(r, "done", answer)
    BY <2>1 DEF Respond, Answered
  <2>2. ASSUME Move(r, "running") PROVE Answered(r, "running", "none")
    BY <1>1, <1>3, <2>2, MoveAnswers
  <2>3. CASE RefuseBody(r) /\ UNCHANGED <<transport, transports>>
    BY <2>1, <2>3 DEF RefuseBody
  <2>4. CASE /\ IF MissingToolScope(r) THEN Respond(r, "insufficient_scope") ELSE Move(r, "running")
             /\ UNCHANGED <<transport, transports>>
    BY <2>1, <2>2, <2>4
  <2>5. CASE /\ transport' = [transport EXCEPT ![r] = "open"] /\ transports' = transports \cup {r}
             /\ Respond(r, "ok")
    BY <2>1, <2>5
  <2>. QED  BY <2>3, <2>4, <2>5 DEF ReadBody
<1>5. PICK state, answer : Outcome(state, answer)
  BY <1>4
<1>6. /\ request' \in [Requests -> Request]
      /\ \A q \in Requests \ {r} : request'[q] = request[q]
      /\ request'[r].state = state /\ request'[r].answer = answer
      /\ request'[r].kind = request[r].kind /\ request'[r].token = request[r].token
      /\ request'[r].tools = request[r].tools
      /\ request'[r].pending = request[r].pending /\ request'[r].ran = request[r].ran
      /\ request'[r].stale = request[r].stale
  BY <1>1, <1>5, AnsweredFields
<1>7. /\ transport' \in [Requests -> {"none", "open", "closed"}] /\ transports' \subseteq Requests
      /\ MapHoldsOpenTransports'
      /\ \A q \in Requests \ {r} : transport'[q] = transport[q]
  BY <1>1, <1>5 DEF TypeOK, MapHoldsOpenTransports
<1>8. TypeOK'
  BY <1>1, <1>2, <1>6, <1>7 DEF TypeOK
<1>9. RequestInv(r)'
  <2>1. NothingDone(r)' /\ RanAsItself(r)' /\ RefreshAllowed(r)' /\ WithoutToken(r)'
    BY <1>2, <1>3, <1>5, <1>6
    DEF NothingDone, RanAsItself, RefreshAllowed, WithoutToken, Auth, Has
  <2>2. WithinScopes(r)'
    BY <1>2, <1>3, <1>5, <1>6 DEF WithinScopes, MissingToolScope, Auth, Has
  <2>3. request'[r].pending \subseteq request'[r].tools
    BY <1>1, <1>6 DEF RequestInv
  <2>. QED  BY <2>1, <2>2, <2>3 DEF RequestInv
<1>10. ASSUME NEW q \in Requests \ {r} PROVE RequestInv(q)'
  BY <1>1, <1>2, <1>6, <1>7, UntouchedInv DEF Untouched
<1>. QED  BY <1>7, <1>8, <1>9, <1>10 DEF IInv

LEMMA DispatchInv ==
    ASSUME IInv, NEW r \in Requests, NEW tool \in Tools, Dispatch(r, tool)
    PROVE  IInv'
<1>1. TypeOK /\ MapHoldsOpenTransports /\ \A q \in Requests : RequestInv(q)
  BY DEF IInv
<1>2. /\ request[r].state = "running" /\ tool \in request[r].pending
      /\ UNCHANGED <<options, transport, transports, phase, expired, gone, refreshed>>
  BY DEF Dispatch
<1>3. request[r] \in Request /\ Auth \in BOOLEAN
  BY <1>1 DEF TypeOK, Auth
<1>. DEFINE entry == [tool |-> tool, as |-> Identity(r)]
            left == AfterDispatch(r, tool)
            Fields(ran) ==
              /\ request' \in [Requests -> Request]
              /\ \A q \in Requests \ {r} : request'[q] = request[q]
              /\ request'[r].state = "running" /\ request'[r].answer = request[r].answer
              /\ request'[r].kind = request[r].kind /\ request'[r].token = request[r].token
              /\ request'[r].tools = request[r].tools /\ request'[r].pending = left
              /\ request'[r].stale = request[r].stale /\ request'[r].ran = ran
<1>4. left \in SUBSET Tools /\ left \subseteq request[r].pending
  BY <1>3 DEF AfterDispatch, Request
<1>5. \/ Fields(request[r].ran)
      \/ /\ Auth => Has(r, ScopeFor(tool)) /\ RoleOf[request[r].token] \in AllowedRoles
         /\ Fields(request[r].ran \cup {entry})
  <2>1. CASE /\ Auth => Has(r, ScopeFor(tool)) /\ RoleOf[request[r].token] \in AllowedRoles
             /\ request' = [request EXCEPT ![r].pending = left, ![r].ran = @ \cup {entry}]
    <3>1. Identity(r) \in {RoleOf[t] : t \in Tokens} \cup {FixedRole}
      BY <2>1 DEF Identity, Has
    <3>2. entry \in [tool : Tools, as : {RoleOf[t] : t \in Tokens} \cup {FixedRole}]
      BY <3>1
    <3>. DEFINE new == [request[r] EXCEPT !.pending = left, !.ran = @ \cup {entry}]
    <3>. HIDE DEF entry, left
    <3>3. /\ new \in Request
          /\ new.state = request[r].state /\ new.answer = request[r].answer
          /\ new.kind = request[r].kind /\ new.token = request[r].token
          /\ new.tools = request[r].tools /\ new.pending = left
          /\ new.stale = request[r].stale /\ new.ran = request[r].ran \cup {entry}
      BY <1>3, <1>4, <3>2 DEF Request
    <3>4. request' = [request EXCEPT ![r] = new]
      BY <2>1
    <3>. HIDE DEF new
    <3>5. request'[r] = new /\ request' \in [Requests -> Request]
          /\ \A q \in Requests \ {r} : request'[q] = request[q]
      BY <1>1, <3>3, <3>4 DEF TypeOK
    <3>. QED  BY <1>2, <2>1, <3>3, <3>5
  <2>2. CASE request' = [request EXCEPT ![r].pending = left]
    <3>. DEFINE new == [request[r] EXCEPT !.pending = left]
    <3>. HIDE DEF left
    <3>1. /\ new \in Request
          /\ new.state = request[r].state /\ new.answer = request[r].answer
          /\ new.kind = request[r].kind /\ new.token = request[r].token
          /\ new.tools = request[r].tools /\ new.pending = left
          /\ new.stale = request[r].stale /\ new.ran = request[r].ran
      BY <1>3, <1>4 DEF Request
    <3>2. request' = [request EXCEPT ![r] = new]
      BY <2>2
    <3>. HIDE DEF new
    <3>3. request'[r] = new /\ request' \in [Requests -> Request]
          /\ \A q \in Requests \ {r} : request'[q] = request[q]
      BY <1>1, <3>1, <3>2 DEF TypeOK
    <3>. QED  BY <1>2, <3>1, <3>3
  <2>. QED  BY <2>1, <2>2 DEF Dispatch
<1>6. /\ request' \in [Requests -> Request]
      /\ \A q \in Requests \ {r} : request'[q] = request[q]
      /\ request'[r].state = "running" /\ request'[r].answer = request[r].answer
      /\ request'[r].kind = request[r].kind /\ request'[r].token = request[r].token
      /\ request'[r].tools = request[r].tools /\ request'[r].pending = left
      /\ request'[r].stale = request[r].stale
  BY <1>5
<1>7. TypeOK' /\ MapHoldsOpenTransports'
  BY <1>1, <1>2, <1>6 DEF TypeOK, MapHoldsOpenTransports
<1>8. RequestInv(r)'
  <2>1. NothingDone(r)' /\ RefreshAllowed(r)' /\ request'[r].pending \subseteq request'[r].tools
    BY <1>1, <1>2, <1>4, <1>6
    DEF NothingDone, RefreshAllowed, RequestInv, Auth, AdminRefresh, Has
  <2>2. WithinScopes(r)'
    BY <1>1, <1>2, <1>6 DEF WithinScopes, RequestInv, MissingToolScope, Auth, Has
  <2>3. WithoutToken(r)'
    BY <1>1, <1>2, <1>6 DEF WithoutToken, RequestInv, Auth
  <2>4. RanAsItself(r)'
    <3>. SUFFICES ASSUME NEW done \in request'[r].ran
                  PROVE  IF Auth THEN /\ Has(r, ScopeFor(done.tool))
                                      /\ done.as = RoleOf[request[r].token]
                                      /\ done.as \in AllowedRoles
                                 ELSE done.as = FixedRole
      BY <1>2, <1>6 DEF RanAsItself, Auth, Has
    <3>1. CASE done \in request[r].ran
      BY <1>1, <3>1 DEF RequestInv, RanAsItself
    <3>2. CASE done = entry /\ (Auth => /\ Has(r, ScopeFor(tool))
                                        /\ RoleOf[request[r].token] \in AllowedRoles)
      BY <3>2 DEF Identity
    <3>. QED  BY <1>5, <3>1, <3>2
  <2>. QED  BY <2>1, <2>2, <2>3, <2>4 DEF RequestInv
<1>9. ASSUME NEW q \in Requests \ {r} PROVE RequestInv(q)'
  BY <1>1, <1>2, <1>6, UntouchedInv DEF Untouched
<1>. QED  BY <1>7, <1>8, <1>9 DEF IInv

LEMMA FinishInv ==
    ASSUME IInv, NEW r \in Requests, Finish(r)
    PROVE  IInv'
<1>1. TypeOK /\ MapHoldsOpenTransports /\ \A q \in Requests : RequestInv(q)
  BY DEF IInv
<1>2. /\ request[r].state \in {"running", "streaming"}
      /\ UNCHANGED <<options, transport, transports, phase, expired, gone, refreshed>>
  BY DEF Finish
<1>3. \E state \in {"done", "lost"}, answer \in {"ok", "cut", request[r].answer} :
        Answered(r, state, answer)
  BY <1>1, MoveAnswers DEF Finish, Respond, Answered
<1>4. request[r].answer \in {"none", "ok", "cut", "unauthorized", "forbidden",
                             "insufficient_scope", "not_found", "bad_body"}
  BY <1>1 DEF TypeOK, Request
<1>5. PICK state \in {"done", "lost"} :
        /\ request' \in [Requests -> Request]
        /\ \A q \in Requests \ {r} : request'[q] = request[q]
        /\ request'[r].state = state
        /\ request'[r].kind = request[r].kind /\ request'[r].token = request[r].token
        /\ request'[r].tools = request[r].tools
        /\ request'[r].pending = request[r].pending /\ request'[r].ran = request[r].ran
        /\ request'[r].stale = request[r].stale
  BY <1>1, <1>3, <1>4, AnsweredFields
<1>6. TypeOK' /\ MapHoldsOpenTransports'
  BY <1>1, <1>2, <1>5 DEF TypeOK, MapHoldsOpenTransports
<1>7. RequestInv(r)'
  BY <1>1, <1>2, <1>5
  DEF RequestInv, NothingDone, WithinScopes, RanAsItself, RefreshAllowed, WithoutToken,
      MissingToolScope, Auth, AdminRefresh, Has
<1>8. ASSUME NEW q \in Requests \ {r} PROVE RequestInv(q)'
  BY <1>1, <1>2, <1>5, UntouchedInv DEF Untouched
<1>. QED  BY <1>6, <1>7, <1>8 DEF IInv

\* The server's close and the world outside leave every request alone.
LEMMA AroundInv ==
    ASSUME IInv,
           \/ BeginClose \/ CloseNext \/ Drain \/ Closed
           \/ \E token \in Tokens : Expire(token)
           \/ \E s \in Requests : Vanish(s)
    PROVE  IInv'
<1>1. TypeOK /\ MapHoldsOpenTransports /\ \A q \in Requests : RequestInv(q)
  BY DEF IInv
<1>2. UNCHANGED <<options, request, refreshed>> /\ expired \subseteq expired'
  BY DEF BeginClose, CloseNext, Drain, Closed, Expire, Vanish
<1>3. /\ transport' \in [Requests -> {"none", "open", "closed"}] /\ transports' \subseteq Requests
      /\ MapHoldsOpenTransports'
      /\ \A q \in Requests : transport[q] = "none" => transport'[q] = "none"
  <2>1. CASE UNCHANGED <<transport, transports>>
    BY <1>1, <2>1 DEF TypeOK, MapHoldsOpenTransports
  <2>2. CASE CloseNext
    BY <1>1, <2>2, ClosedTransport DEF CloseNext
  <2>. QED  BY <2>1, <2>2 DEF BeginClose, Drain, Closed, Expire, Vanish
<1>4. TypeOK'
  <2>1. phase' \in {"up", "closing", "draining", "closed"}
    BY <1>1 DEF TypeOK, BeginClose, CloseNext, Drain, Closed, Expire, Vanish
  <2>2. expired' \subseteq Tokens /\ gone' \subseteq Requests
    BY <1>1 DEF TypeOK, BeginClose, CloseNext, Drain, Closed, Expire, Vanish
  <2>. QED  BY <1>1, <1>2, <1>3, <2>1, <2>2 DEF TypeOK
<1>5. ASSUME NEW q \in Requests PROVE RequestInv(q)'
  BY <1>1, <1>2, <1>3, UntouchedInv DEF Untouched
<1>. QED  BY <1>3, <1>4, <1>5 DEF IInv

LEMMA NextIInv == IInv /\ [Next]_vars => IInv'
<1>. SUFFICES ASSUME IInv, [Next]_vars PROVE IInv'
  OBVIOUS
<1>1. CASE UNCHANGED vars
  <2>1. UNCHANGED <<options, request, transport, transports, phase, expired, gone, refreshed>>
    BY <1>1 DEF vars
  <2>2. TypeOK' /\ MapHoldsOpenTransports'
    BY <2>1 DEF IInv, TypeOK, MapHoldsOpenTransports
  <2>3. ASSUME NEW q \in Requests PROVE RequestInv(q)'
    BY <2>1, UntouchedInv DEF IInv, Untouched
  <2>. QED  BY <2>2, <2>3 DEF IInv
<1>. QED
  BY <1>1, ArriveInv, AuthenticateInv, ReadBodyInv, DispatchInv, FinishInv, AroundInv
  DEF Next, Step

LEMMA Invariance == Spec => []IInv
  BY InitIInv, NextIInv, PTL DEF Spec

-----------------------------------------------------------------------------
(* The theorems.                                                           *)

\* Whoever opened the session, whatever expires or closes meanwhile: tools run
\* within the scopes and as the role of the request's own token, refreshes are
\* an admin token's and enabled, and a batch beyond the scopes runs nothing
\* (startHttpServer.ts, server.ts).
THEOREM Authorization == Spec => []WorkIsAuthorized
<1>1. IInv => WorkIsAuthorized
  <2>. SUFFICES ASSUME IInv PROVE WorkIsAuthorized
    OBVIOUS
  <2>1. ASSUME NEW r \in Requests, NEW done \in request[r].ran
        PROVE  IF Auth THEN /\ Has(r, ScopeFor(done.tool))
                            /\ done.as = RoleOf[request[r].token] /\ done.as \in AllowedRoles
                       ELSE done.as = FixedRole
    BY DEF IInv, RequestInv, RanAsItself
  <2>2. Auth => \A r \in refreshed : AdminRefresh /\ Has(r, "admin")
    BY DEF IInv, TypeOK, RequestInv, RefreshAllowed
  <2>3. Auth => \A r \in Requests :
          (\E tool \in request[r].tools : ~Has(r, ScopeFor(tool))) => request[r].ran = {}
    BY DEF IInv, RequestInv, WithinScopes, MissingToolScope
  <2>. QED  BY <2>1, <2>2, <2>3 DEF WorkIsAuthorized
<1>. QED  BY <1>1, Invariance, PTL

\* A request without a valid token has no effect, whatever session it names
\* (startHttpServer.ts: a session id never substitutes for a token).
THEOREM SessionsAreNoCredentials == Spec => []SessionIsNoCredential
<1>1. IInv => SessionIsNoCredential
  BY DEF IInv, RequestInv, WithoutToken, SessionIsNoCredential
<1>. QED  BY <1>1, Invariance, PTL

\* The map of sessions and the open transports agree, through deletes, late
\* initializations and the server's close (transport.onclose, closeServer).
THEOREM NoSessionLeak == Spec => []MapHoldsOpenTransports
<1>1. IInv => MapHoldsOpenTransports
  BY DEF IInv
<1>. QED  BY <1>1, Invariance, PTL

-----------------------------------------------------------------------------
(* The log of refusals. *)

Logged(code) == IF code \in Open THEN windows[code].logged ELSE 0

\* Lines are written in order: none is younger than a later one.
LinesAge(code) ==
    \A m, n \in 1..Len(lines[code]) : m <= n => lines[code][n] <= lines[code][m]

\* An open window began with its first line; what is held back waits for its end.
WindowInv(code) ==
    code \in Open =>
        LET w == windows[code] IN
        /\ w.logged \in 1..Len(lines[code])
        /\ lines[code][Len(lines[code]) - w.logged + 1] = w.age
        /\ w.timer # Unset => w.timer = WINDOW - w.age

\* Of the lines before the open window, fewer than PER_WINDOW are young: the
\* first line of the window before it is as old as that whole window.
YoungAreLate(code) ==
    ~closed => \A n \in 1..Len(lines[code]) :
        lines[code][n] < WINDOW => n + Logged(code) + PER_WINDOW > Len(lines[code]) + 1

Accounted(code) == recorded[code] = Len(lines[code]) + counted[code] + Held(code)

CodeInv(code) == LinesAge(code) /\ WindowInv(code) /\ YoungAreLate(code) /\ Accounted(code)

LogInv == LogTypeOK /\ \A code \in Codes : CodeInv(code)

-----------------------------------------------------------------------------
LEMMA InitLogInv == LogInit => LogInv
<1>. SUFFICES ASSUME LogInit PROVE LogInv
  OBVIOUS
<1>1. << >> \in Seq(0..WINDOW)
  BY EmptySeq
<1>2. LogTypeOK
  BY <1>1 DEF LogInit, LogTypeOK
<1>3. ASSUME NEW code \in Codes PROVE CodeInv(code)
  <2>1. lines[code] = << >> /\ code \notin Open /\ recorded[code] = 0 /\ counted[code] = 0
    BY <1>3 DEF LogInit, Open
  <2>. QED
    BY <2>1 DEF CodeInv, LinesAge, WindowInv, YoungAreLate, Accounted, Held
<1>. QED  BY <1>2, <1>3 DEF LogInv

\* The types of what one reason keeps.
LEMMA CodeTypes ==
  ASSUME LogTypeOK, NEW code \in Codes
  PROVE  /\ recorded[code] \in Nat /\ counted[code] \in Nat
         /\ lines[code] \in Seq(0..WINDOW) /\ Len(lines[code]) \in Nat
         /\ \A n \in 1..Len(lines[code]) : lines[code][n] \in 0..WINDOW
         /\ code \in Open => windows[code] \in Window
         /\ Held(code) \in Nat
<1>1. lines[code] \in Seq(0..WINDOW)
  BY DEF LogTypeOK
<1>2. /\ Len(lines[code]) \in Nat
      /\ \A n \in 1..Len(lines[code]) : lines[code][n] \in 0..WINDOW
  BY <1>1, ElementOfSeq, LenProperties
<1>. QED  BY <1>1, <1>2 DEF LogTypeOK, Open, Held, Window

\* When no window is open, or the one that is has lasted WINDOW, fewer than
\* PER_WINDOW lines are young.
LEMMA FreshStart ==
  ASSUME LogTypeOK, NEW code \in Codes, CodeInv(code), code \notin Open \/ windows[code].age = WINDOW,
         ~closed, NEW n \in 1..Len(lines[code]), lines[code][n] < WINDOW
  PROVE  n + PER_WINDOW > Len(lines[code]) + 1
<1>. USE RefusalLogAssumption
<1>1. CASE code \notin Open
  BY <1>1, CodeTypes DEF CodeInv, YoungAreLate, Logged
<1>2. CASE code \in Open
  <2>1. PICK len, logged : len = Len(lines[code]) /\ logged = windows[code].logged
    OBVIOUS
  <2>2. len \in Nat /\ logged \in 0..PER_WINDOW /\ windows[code].age = WINDOW
    BY <1>2, <2>1, CodeTypes DEF Window
  <2>3. logged \in 1..len /\ lines[code][len - logged + 1] = WINDOW
    BY <1>2, <2>1, <2>2 DEF CodeInv, WindowInv
  <2>4. len - logged + 1 \in 1..len
    BY <2>2, <2>3
  <2>5. n \in 1..len
    BY <2>1
  <2>6. ~(n <= len - logged + 1)
    <3>1. n <= len - logged + 1 => WINDOW <= lines[code][n]
      BY <2>1, <2>3, <2>4, <2>5 DEF CodeInv, LinesAge
    <3>2. lines[code][n] \in 0..WINDOW
      BY CodeTypes
    <3>. QED  BY <3>1, <3>2
  <2>7. n + PER_WINDOW > len + 1
    BY <2>2, <2>5, <2>6
  <2>. QED  BY <2>1, <2>7
<1>. QED  BY <1>1, <1>2

\* A reason of which a step changes nothing.
LeftAlone(code) ==
    /\ windows'[code] = windows[code] /\ lines'[code] = lines[code]
    /\ recorded'[code] = recorded[code] /\ counted'[code] = counted[code]

LEMMA LeftAloneInv ==
  ASSUME NEW code \in Codes, CodeInv(code), LeftAlone(code), closed' = FALSE => closed = FALSE,
         closed \in BOOLEAN, closed' \in BOOLEAN
  PROVE  CodeInv(code)'
<1>1. (code \in Open) <=> (code \in Open)'
  BY DEF LeftAlone, Open
<1>2. Held(code)' = Held(code) /\ Logged(code)' = Logged(code)
  BY <1>1 DEF Held, Logged, LeftAlone
<1>. QED
  BY <1>1, <1>2 DEF CodeInv, LinesAge, WindowInv, YoungAreLate, Accounted, LeftAlone

-----------------------------------------------------------------------------
\* What the window a refusal is recorded in may be.
Current(code) == IF code \in Open /\ ~Expired(code) THEN windows[code] ELSE NewWindow

LEMMA CurrentWindow ==
  ASSUME LogTypeOK, NEW code \in Codes
  PROVE  /\ Current(code) \in Window
         /\ \/ /\ code \in Open /\ windows[code].age < WINDOW
               /\ Current(code) = windows[code]
               /\ Overdue(code) = 0 /\ Held(code) = windows[code].suppressed
            \/ /\ code \notin Open \/ windows[code].age = WINDOW
               /\ Current(code) = NewWindow
               /\ Overdue(code) = Held(code)
<1>. USE RefusalLogAssumption
<1>1. NewWindow \in Window
  BY DEF NewWindow, Window
<1>2. code \in Open => windows[code] \in Window /\ windows[code].age \in 0..WINDOW
  BY CodeTypes DEF Window
<1>. QED  BY <1>1, <1>2 DEF Current, Expired, Overdue, Held

\* What every recorded refusal changes, for the window v it leaves behind.
Recorded(code, v) ==
    /\ windows' = [windows EXCEPT ![code] = v]
    /\ recorded' = [recorded EXCEPT ![code] = @ + 1]
    /\ counted' = [counted EXCEPT ![code] = @ + Overdue(code)]
    /\ UNCHANGED closed

\* A refusal that is written as a line of its own.
LEMMA LineInv ==
  ASSUME LogInv, NEW code \in Codes, NEW w \in Window, w = Current(code), MayLog(w),
         Recorded(code, [w EXCEPT !.logged = @ + 1]),
         lines' = [lines EXCEPT ![code] = Append(@, 0)]
  PROVE  LogInv'
<1>. USE RefusalLogAssumption
<1>t. LogTypeOK /\ CodeInv(code)
  BY DEF LogInv
<1>1. PICK v : v = [w EXCEPT !.logged = @ + 1]
  OBVIOUS
<1>2. /\ v \in Window /\ v.logged = w.logged + 1 /\ v.age = w.age
      /\ v.suppressed = w.suppressed /\ v.timer = w.timer
  BY <1>1 DEF Window, MayLog
<1>3. PICK len : len = Len(lines[code])
  OBVIOUS
<1>4. /\ len \in Nat /\ \A n \in 1..len : lines[code][n] \in 0..WINDOW
      /\ lines[code] \in Seq(0..WINDOW)
  BY <1>t, <1>3, CodeTypes
<1>5. /\ windows'[code] = v /\ lines'[code] = Append(lines[code], 0)
      /\ recorded'[code] = recorded[code] + 1
      /\ counted'[code] = counted[code] + Overdue(code)
  BY <1>1, <1>t DEF LogTypeOK, Recorded
<1>6. /\ Append(lines[code], 0) \in Seq(0..WINDOW)
      /\ Len(Append(lines[code], 0)) = len + 1
      /\ \A n \in 1..len : Append(lines[code], 0)[n] = lines[code][n]
      /\ Append(lines[code], 0)[len + 1] = 0
  BY <1>3, <1>4, AppendProperties
<1>c. PICK after : after = Append(lines[code], 0)
  OBVIOUS
<1>d. /\ lines'[code] = after /\ Len(after) = len + 1 /\ after[len + 1] = 0
      /\ \A n \in 1..len : after[n] = lines[code][n]
  BY <1>5, <1>6, <1>c
<1>7. Overdue(code) \in Nat /\ Held(code) \in Nat
  BY <1>t, CodeTypes DEF Overdue
<1>8. LogTypeOK'
  <2>1. windows' = [windows EXCEPT ![code] = v]
    BY <1>1 DEF Recorded
  <2>2. windows' \in [Codes -> Window \cup {Unset}]
    BY <1>t, <1>2, <2>1 DEF LogTypeOK
  <2>3. lines' \in [Codes -> Seq(0..WINDOW)]
    BY <1>t, <1>6 DEF LogTypeOK
  <2>4. recorded' \in [Codes -> Nat] /\ counted' \in [Codes -> Nat]
    BY <1>t, <1>7 DEF LogTypeOK, Recorded
  <2>. QED  BY <1>t, <2>2, <2>3, <2>4 DEF LogTypeOK, Recorded
<1>9. (code \in Open)' /\ Held(code)' = w.suppressed /\ Logged(code)' = w.logged + 1
  BY <1>2, <1>5, UnsetAssumption DEF Open, Held, Logged
<1>10. CodeInv(code)'
  <2>1. LinesAge(code)'
    BY <1>t, <1>3, <1>4, <1>5, <1>6 DEF LinesAge, CodeInv
  <2>2. Accounted(code)'
    <3>1. PICK r, c, o, h : /\ r = recorded[code] /\ c = counted[code]
                            /\ o = Overdue(code) /\ h = w.suppressed
      OBVIOUS
    <3>2. r \in Nat /\ c \in Nat /\ o \in Nat /\ h \in Nat /\ len \in Nat
      BY <1>t, <1>4, <1>7, <3>1, CodeTypes DEF Window
    <3>3. r = len + c + Held(code)
      BY <1>t, <1>3, <3>1 DEF CodeInv, Accounted
    <3>4. Held(code) = h + o
      BY <1>t, <3>1, <3>2, CurrentWindow DEF NewWindow
    <3>5. r + 1 = (len + 1) + (c + o) + h
      BY <3>2, <3>3, <3>4
    <3>6. recorded'[code] = (len + 1) + counted'[code] + Held(code)'
      BY <1>5, <1>9, <3>1, <3>5
    <3>. QED  BY <1>d, <3>6 DEF Accounted
  <2>3. WindowInv(code)'
    <3>1. CASE w = NewWindow
      <4>1. v.logged = 1 /\ v.age = 0 /\ v.timer = Unset
        BY <1>2, <3>1 DEF NewWindow
      <4>2. 1 \in 1..(len + 1) /\ (len + 1) - 1 + 1 = len + 1
        BY <1>4
      <4>. QED  BY <1>5, <1>d, <4>1, <4>2 DEF WindowInv
    <3>2. CASE code \in Open /\ w = windows[code]
      <4>1. /\ w.logged \in 1..len /\ lines[code][len - w.logged + 1] = w.age
            /\ w.timer # Unset => w.timer = WINDOW - w.age
        BY <1>t, <1>3, <3>2 DEF CodeInv, WindowInv
      <4>2. /\ v.logged \in 1..(len + 1) /\ len - w.logged + 1 \in 1..len
            /\ (len + 1) - v.logged + 1 = len - w.logged + 1
        <5>1. len \in Nat /\ w.logged \in 1..len /\ v.logged = w.logged + 1
          BY <1>2, <1>4, <4>1
        <5>. QED  BY <5>1
      <4>3. after[(len + 1) - v.logged + 1] = v.age
        BY <1>2, <1>d, <4>1, <4>2
      <4>4. v.timer # Unset => v.timer = WINDOW - v.age
        BY <1>2, <4>1
      <4>. QED  BY <1>5, <1>d, <4>2, <4>3, <4>4 DEF WindowInv
    <3>. QED  BY <1>t, <3>1, <3>2, CurrentWindow
  <2>4. YoungAreLate(code)'
    <3>. SUFFICES ASSUME ~closed, NEW n \in 1..(len + 1), Append(lines[code], 0)[n] < WINDOW
                  PROVE  n + (w.logged + 1) + PER_WINDOW > (len + 1) + 1
      BY <1>5, <1>6, <1>9 DEF YoungAreLate, Recorded
    <3>0. w.logged \in Nat
      BY DEF Window
    <3>1. CASE n = len + 1
      BY <1>4, <3>0, <3>1
    <3>2. CASE n \in 1..len /\ w = NewWindow
      <4>1. lines[code][n] < WINDOW /\ n \in 1..Len(lines[code])
        BY <1>3, <1>6, <3>2
      <4>2. n + PER_WINDOW > len + 1
        <5>1. CASE code \notin Open \/ windows[code].age = WINDOW
          BY <1>t, <1>3, <4>1, <5>1, FreshStart
        <5>2. CASE code \in Open /\ w = windows[code]
          <6>1. windows[code].logged = 0
            BY <3>2, <5>2 DEF NewWindow
          <6>. QED  BY <1>t, <5>2, <6>1, CodeTypes DEF CodeInv, WindowInv
        <5>. QED  BY <1>t, <5>1, <5>2, CurrentWindow
      <4>. QED  BY <1>4, <3>0, <3>2, <4>2
    <3>3. CASE n \in 1..len /\ code \in Open /\ w = windows[code]
      <4>1. lines[code][n] < WINDOW
        BY <1>6, <3>3
      <4>2. n + w.logged + PER_WINDOW > len + 1
        BY <1>t, <1>3, <3>3, <4>1 DEF CodeInv, YoungAreLate, Logged
      <4>. QED  BY <1>4, <3>0, <3>3, <4>2
    <3>. QED  BY <1>t, <1>4, <3>1, <3>2, <3>3, CurrentWindow
  <2>. QED  BY <2>1, <2>2, <2>3, <2>4 DEF CodeInv
<1>11. ASSUME NEW other \in Codes, other # code PROVE CodeInv(other)'
  <2>1. LeftAlone(other)
    BY <1>11, <1>t DEF LeftAlone, LogTypeOK, Recorded
  <2>. QED  BY <2>1, <1>8, <1>t, LeftAloneInv DEF LogInv, LogTypeOK, Recorded
<1>. QED  BY <1>8, <1>10, <1>11 DEF LogInv

\* A refusal that is held back: the window is open and has all its lines.
LEMMA HeldInv ==
  ASSUME LogInv, NEW code \in Codes, NEW w \in Window, w = Current(code), ~MayLog(w),
         NEW held, held = [w EXCEPT !.suppressed = @ + 1],
         Recorded(code, [held EXCEPT !.timer = Armed(held)]),
         UNCHANGED lines
  PROVE  LogInv'
<1>. USE RefusalLogAssumption
<1>t. LogTypeOK /\ CodeInv(code)
  BY DEF LogInv
<1>1. PICK v : v = [held EXCEPT !.timer = Armed(held)]
  OBVIOUS
<1>2. code \in Open /\ w = windows[code] /\ w.age < WINDOW /\ Overdue(code) = 0 /\ Held(code) = w.suppressed
  BY <1>t, CurrentWindow DEF MayLog, NewWindow
<1>3. /\ held.age = w.age /\ held.logged = w.logged /\ held.timer = w.timer
      /\ held.suppressed = w.suppressed + 1 /\ held \in Window
  BY DEF Window
<1>4. Armed(held) = IF w.timer = Unset THEN WINDOW - w.age ELSE w.timer
  BY <1>3 DEF Armed, DueIn
<1>5. w.timer # Unset => w.timer = WINDOW - w.age
  BY <1>t, <1>2 DEF CodeInv, WindowInv
<1>6. Armed(held) = WINDOW - w.age /\ WINDOW - w.age \in 0..WINDOW
  BY <1>4, <1>5 DEF Window
<1>7. /\ v \in Window /\ v.age = w.age /\ v.logged = w.logged /\ v.suppressed = w.suppressed + 1
      /\ v.timer = WINDOW - v.age
  BY <1>1, <1>3, <1>6 DEF Window
<1>8. /\ windows'[code] = v /\ lines'[code] = lines[code]
      /\ recorded'[code] = recorded[code] + 1 /\ counted'[code] = counted[code] + 0
  BY <1>1, <1>2, <1>t DEF LogTypeOK, Recorded
<1>9. LogTypeOK'
  <2>1. windows' = [windows EXCEPT ![code] = v]
    BY <1>1 DEF Recorded
  <2>2. windows' \in [Codes -> Window \cup {Unset}]
    BY <1>t, <1>7, <2>1 DEF LogTypeOK
  <2>3. recorded' \in [Codes -> Nat] /\ counted' \in [Codes -> Nat]
    BY <1>t, <1>2 DEF LogTypeOK, Recorded
  <2>. QED  BY <1>t, <2>2, <2>3 DEF LogTypeOK, Recorded
<1>10. (code \in Open)' /\ Held(code)' = w.suppressed + 1 /\ Logged(code)' = Logged(code)
  BY <1>2, <1>7, <1>8, UnsetAssumption DEF Open, Held, Logged
<1>11. CodeInv(code)'
  <2>1. LinesAge(code)'
    BY <1>t, <1>8 DEF LinesAge, CodeInv
  <2>2. Accounted(code)'
    <3>1. PICK r, c, h, len : /\ r = recorded[code] /\ c = counted[code]
                              /\ h = w.suppressed /\ len = Len(lines[code])
      OBVIOUS
    <3>2. r \in Nat /\ c \in Nat /\ h \in Nat /\ len \in Nat
      BY <1>t, <3>1, CodeTypes DEF Window
    <3>3. r = len + c + h
      BY <1>t, <1>2, <3>1 DEF CodeInv, Accounted
    <3>4. r + 1 = len + (c + 0) + (h + 1)
      BY <3>2, <3>3
    <3>. QED  BY <1>8, <1>10, <3>1, <3>4 DEF Accounted
  <2>3. WindowInv(code)'
    BY <1>t, <1>2, <1>7, <1>8 DEF CodeInv, WindowInv
  <2>4. YoungAreLate(code)'
    BY <1>t, <1>8, <1>10 DEF CodeInv, YoungAreLate, Recorded
  <2>. QED  BY <2>1, <2>2, <2>3, <2>4 DEF CodeInv
<1>12. ASSUME NEW other \in Codes, other # code PROVE CodeInv(other)'
  <2>1. LeftAlone(other)
    BY <1>12, <1>t DEF LeftAlone, LogTypeOK, Recorded
  <2>. QED  BY <2>1, <1>9, <1>t, LeftAloneInv DEF LogInv, LogTypeOK, Recorded
<1>. QED  BY <1>9, <1>11, <1>12 DEF LogInv

LEMMA RecordInv == ASSUME LogInv, NEW code \in Codes, Record(code) PROVE LogInv'
<1>1. PICK w : w = Current(code)
  OBVIOUS
<1>2. w \in Window
  BY <1>1, CurrentWindow DEF LogInv
<1>3. PICK held : held = [w EXCEPT !.suppressed = @ + 1]
  OBVIOUS
<1>4. \/ /\ MayLog(w) /\ Recorded(code, [w EXCEPT !.logged = @ + 1])
         /\ lines' = [lines EXCEPT ![code] = Append(@, 0)]
      \/ /\ ~MayLog(w) /\ Recorded(code, [held EXCEPT !.timer = Armed(held)])
         /\ UNCHANGED lines
  BY <1>1, <1>3 DEF Record, Recorded, Current
<1>. QED  BY <1>1, <1>2, <1>3, <1>4, LineInv, HeldInv

-----------------------------------------------------------------------------
\* The window of a reason ends, by its timer or by close().
LEMMA FlushedInv ==
  ASSUME LogTypeOK, NEW code \in Codes, CodeInv(code),
         windows'[code] = Unset, lines'[code] = lines[code], recorded'[code] = recorded[code],
         counted'[code] = counted[code] + Held(code),
         \/ closed' = TRUE
         \/ closed' = closed /\ (code \notin Open \/ windows[code].age = WINDOW)
  PROVE  CodeInv(code)'
<1>1. code \notin Open' /\ Held(code)' = 0 /\ Logged(code)' = 0
  BY DEF Open, Held, Logged
<1>2. LinesAge(code)' /\ WindowInv(code)'
  BY <1>1 DEF CodeInv, LinesAge, WindowInv
<1>3. Accounted(code)'
  <2>1. PICK r, c, h, len : /\ r = recorded[code] /\ c = counted[code]
                            /\ h = Held(code) /\ len = Len(lines[code])
    OBVIOUS
  <2>2. r \in Nat /\ c \in Nat /\ h \in Nat /\ len \in Nat
    BY <2>1, CodeTypes
  <2>3. r = len + c + h
    BY <2>1 DEF CodeInv, Accounted
  <2>4. r = len + (c + h) + 0
    BY <2>2, <2>3
  <2>. QED  BY <1>1, <2>1, <2>4 DEF Accounted
<1>4. YoungAreLate(code)'
  <2>. SUFFICES ASSUME ~closed', NEW n \in 1..Len(lines[code]), lines[code][n] < WINDOW
                PROVE  n + 0 + PER_WINDOW > Len(lines[code]) + 1
    BY <1>1 DEF YoungAreLate
  <2>1. n + PER_WINDOW > Len(lines[code]) + 1
    BY FreshStart
  <2>. QED  BY <2>1
<1>. QED  BY <1>2, <1>3, <1>4 DEF CodeInv

LEMMA TimerFiresInv == ASSUME LogInv, NEW code \in Codes, TimerFires(code) PROVE LogInv'
<1>. USE RefusalLogAssumption
<1>1. LogTypeOK /\ CodeInv(code)
  BY DEF LogInv
<1>2. \A c \in Codes : Held(c) \in Nat
  BY <1>1, CodeTypes
<1>3. LogTypeOK'
  BY <1>1, <1>2 DEF LogTypeOK, TimerFires, Flush
<1>4. windows[code].age = WINDOW
  <2>1. code \in Open /\ windows[code].timer = 0 /\ windows[code] \in Window
    BY <1>1, CodeTypes DEF TimerFires
  <2>2. 0 = WINDOW - windows[code].age
    BY <1>1, <2>1, UnsetAssumption DEF CodeInv, WindowInv
  <2>. QED  BY <2>1, <2>2 DEF Window
<1>5. CodeInv(code)'
  <2>1. /\ windows'[code] = Unset /\ lines'[code] = lines[code]
        /\ recorded'[code] = recorded[code] /\ counted'[code] = counted[code] + Held(code)
        /\ closed' = closed
    BY DEF TimerFires, Flush
  <2>. QED  BY <1>1, <1>4, <2>1, FlushedInv
<1>6. ASSUME NEW other \in Codes, other # code PROVE CodeInv(other)'
  <2>1. LeftAlone(other)
    BY <1>6, <1>1 DEF LeftAlone, LogTypeOK, TimerFires, Flush
  <2>. QED  BY <2>1, <1>1, <1>3, LeftAloneInv DEF LogInv, LogTypeOK, TimerFires
<1>. QED  BY <1>3, <1>5, <1>6 DEF LogInv

LEMMA CloseInv == ASSUME LogInv, Close PROVE LogInv'
<1>1. LogTypeOK
  BY DEF LogInv
<1>2. \A c \in Codes : Held(c) \in Nat
  BY <1>1, CodeTypes
<1>3. LogTypeOK'
  BY <1>1, <1>2 DEF LogTypeOK, Close, Flush
<1>4. ASSUME NEW code \in Codes PROVE CodeInv(code)'
  <2>1. counted[code] \in Nat
    BY <1>1 DEF LogTypeOK
  <2>2. code \notin Open => windows[code] = Unset /\ Held(code) = 0
    BY DEF Open, Held
  <2>3. /\ windows'[code] = Unset /\ lines'[code] = lines[code]
        /\ recorded'[code] = recorded[code] /\ counted'[code] = counted[code] + Held(code)
        /\ closed' = TRUE
    BY <2>1, <2>2 DEF Close, Flush
  <2>. QED  BY <1>1, <2>3, FlushedInv DEF LogInv
<1>. QED  BY <1>3, <1>4 DEF LogInv

\* Time passes.
LEMMA TickInv == ASSUME LogInv, Tick PROVE LogInv'
<1>. USE RefusalLogAssumption
<1>t. LogTypeOK
  BY DEF LogInv
<1>1. ASSUME NEW x \in 0..WINDOW
      PROVE  Older(x) \in 0..WINDOW /\ (Older(x) < WINDOW => x < WINDOW)
  BY <1>1 DEF Older
<1>2. ASSUME NEW x \in 0..WINDOW, NEW y \in 0..WINDOW, x <= y PROVE Older(x) <= Older(y)
  BY <1>2 DEF Older
<1>3. ASSUME NEW code \in Codes
      PROVE  /\ lines'[code] \in Seq(0..WINDOW)
             /\ Len(lines'[code]) = Len(lines[code])
             /\ \A n \in 1..Len(lines[code]) : lines'[code][n] = Older(lines[code][n])
  <2>1. /\ Len(lines[code]) \in Nat
        /\ \A n \in 1..Len(lines[code]) : lines[code][n] \in 0..WINDOW
    BY <1>t, <1>3, CodeTypes
  <2>2. lines'[code] = [n \in 1..Len(lines[code]) |-> Older(lines[code][n])]
    BY <1>3 DEF Tick
  <2>3. \A n \in 1..Len(lines[code]) : Older(lines[code][n]) \in 0..WINDOW
    BY <1>1, <2>1
  <2>. QED  BY <2>1, <2>2, <2>3
<1>4. ASSUME NEW code \in Codes, code \in Open
      PROVE  /\ windows'[code] \in Window
             /\ windows'[code].age = Older(windows[code].age)
             /\ windows'[code].logged = windows[code].logged
             /\ windows'[code].suppressed = windows[code].suppressed
             /\ windows'[code].timer # Unset => windows'[code].timer = WINDOW - windows'[code].age
  <2>1. PICK w : w = windows[code]
    OBVIOUS
  <2>2. w \in Window
    BY <1>t, <1>4, <2>1, CodeTypes
  <2>3. w.timer # Unset => w.timer = WINDOW - w.age
    BY <1>4, <2>1 DEF LogInv, CodeInv, WindowInv
  <2>4. PICK t : t = IF w.timer \in {Unset, 0} THEN w.timer ELSE w.timer - 1
    OBVIOUS
  <2>5. windows'[code] = [w EXCEPT !.age = Older(@), !.timer = t]
    BY <1>4, <2>1, <2>4 DEF Tick
  <2>6. t \in (0..WINDOW) \cup {Unset} /\ Older(w.age) \in 0..WINDOW
    BY <1>1, <2>2, <2>4 DEF Window
  <2>7. t # Unset => t = WINDOW - Older(w.age)
    BY <2>2, <2>3, <2>4, UnsetAssumption DEF Window, Older
  <2>. QED  BY <2>1, <2>2, <2>5, <2>6, <2>7 DEF Window
<1>5. \A code \in Codes : code \notin Open => windows'[code] = Unset
  BY DEF Tick
<1>6. LogTypeOK'
  <2>1. windows' \in [Codes -> Window \cup {Unset}]
    BY <1>4, <1>5 DEF Tick
  <2>2. lines' \in [Codes -> Seq(0..WINDOW)]
    BY <1>3 DEF Tick
  <2>. QED  BY <1>t, <2>1, <2>2 DEF LogTypeOK, Tick
<1>7. ASSUME NEW code \in Codes PROVE CodeInv(code)'
  <2>t. CodeInv(code) /\ \A n \in 1..Len(lines[code]) : lines[code][n] \in 0..WINDOW
    BY <1>t, <1>7, CodeTypes DEF LogInv
  <2>1. /\ (code \in Open)' <=> code \in Open
        /\ Held(code)' = Held(code) /\ Logged(code)' = Logged(code)
    BY <1>4, <1>5, UnsetAssumption DEF Open, Held, Logged
  <2>2. LinesAge(code)'
    BY <1>2, <1>3, <2>t DEF CodeInv, LinesAge
  <2>3. WindowInv(code)'
    <3>. SUFFICES ASSUME code \in Open
                  PROVE  WindowInv(code)'
      BY <2>1 DEF WindowInv
    <3>1. PICK n : n = Len(lines[code]) - windows[code].logged + 1
      OBVIOUS
    <3>2. windows[code].logged \in 1..Len(lines[code]) /\ lines[code][n] = windows[code].age
      BY <2>t, <3>1 DEF CodeInv, WindowInv
    <3>3. n \in 1..Len(lines[code])
      BY <1>t, <3>1, <3>2, CodeTypes
    <3>4. lines'[code][n] = windows'[code].age
      BY <1>3, <1>4, <3>2, <3>3
    <3>. QED  BY <1>3, <1>4, <3>1, <3>2, <3>4 DEF WindowInv
  <2>4. YoungAreLate(code)'
    <3>. SUFFICES ASSUME ~closed, NEW n \in 1..Len(lines[code]), lines'[code][n] < WINDOW
                  PROVE  n + Logged(code) + PER_WINDOW > Len(lines[code]) + 1
      BY <1>3, <2>1 DEF YoungAreLate, Tick
    <3>1. lines[code][n] < WINDOW
      BY <1>1, <1>3, <2>t
    <3>. QED  BY <2>t, <3>1 DEF CodeInv, YoungAreLate
  <2>5. Accounted(code)'
    BY <1>3, <2>t, <2>1 DEF CodeInv, Accounted, Tick
  <2>. QED  BY <2>2, <2>3, <2>4, <2>5 DEF CodeInv
<1>. QED  BY <1>6, <1>7 DEF LogInv

-----------------------------------------------------------------------------
LEMMA NextLogInv == ASSUME LogInv, [LogNext]_logVars PROVE LogInv'
<1>1. CASE LogNext
  BY <1>1, RecordInv, TimerFiresInv, CloseInv, TickInv DEF LogNext
<1>2. CASE UNCHANGED logVars
  <2>1. LogTypeOK'
    BY <1>2 DEF LogInv, LogTypeOK, logVars
  <2>2. ASSUME NEW code \in Codes PROVE CodeInv(code)'
    BY <1>2, <2>2, LeftAloneInv DEF LogInv, LogTypeOK, LeftAlone, logVars
  <2>. QED  BY <2>1, <2>2 DEF LogInv
<1>. QED  BY <1>1, <1>2

LEMMA LogInvariance == LogSpec => []LogInv
<1>. QED  BY InitLogInv, NextLogInv, PTL DEF LogSpec

\* The young lines of a reason are among its last Logged + PER_WINDOW - 1.
LEMMA YoungAreFew ==
  ASSUME LogTypeOK, NEW code \in Codes, CodeInv(code), ~closed
  PROVE  Cardinality(Young(code)) < 2 * PER_WINDOW
<1>. USE RefusalLogAssumption
<1>1. PICK len, logged : len = Len(lines[code]) /\ logged = Logged(code)
  OBVIOUS
<1>2. len \in Nat /\ logged \in 0..PER_WINDOW
  BY <1>1, CodeTypes DEF Logged, Window
<1>3. PICK first : first = len - logged - PER_WINDOW + 2
  OBVIOUS
<1>4. first \in Int /\ first <= len + 2
  BY <1>2, <1>3
<1>5. Young(code) \in SUBSET (first..len)
  <2>. SUFFICES ASSUME NEW n \in 1..len, lines[code][n] < WINDOW
                PROVE  n \in first..len
    BY <1>1 DEF Young
  <2>1. n + logged + PER_WINDOW > len + 1
    BY <1>1 DEF CodeInv, YoungAreLate
  <2>. QED  BY <1>2, <1>3, <2>1
<1>6. /\ IsFiniteSet(first..len)
      /\ Cardinality(first..len) = IF first > len THEN 0 ELSE len - first + 1
  BY <1>2, <1>4, FS_Interval
<1>7. Cardinality(first..len) < 2 * PER_WINDOW
  BY <1>2, <1>3, <1>6
<1>8. IsFiniteSet(Young(code)) /\ Cardinality(Young(code)) <= Cardinality(first..len)
  BY <1>5, <1>6, FS_Subset
<1>9. Cardinality(Young(code)) \in Nat /\ Cardinality(first..len) \in Nat
  BY <1>6, <1>8, FS_CardinalityType
<1>. QED  BY <1>7, <1>8, <1>9

\* No refusal is lost or counted twice, whichever of the timer, a late refusal
\* and close() ends its window, and fewer than twice PER_WINDOW lines per
\* reason are written in any time as long as a window (refusalLog.ts:11-14).
THEOREM Accounting == LogSpec => []EveryRefusalIsAccountedFor
<1>1. LogInv => EveryRefusalIsAccountedFor
  BY YoungAreFew DEF LogInv, CodeInv, Accounted, EveryRefusalIsAccountedFor
<1>. QED  BY <1>1, LogInvariance, PTL
=============================================================================
