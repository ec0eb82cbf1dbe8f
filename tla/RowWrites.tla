------------------------------ MODULE RowWrites ------------------------------
(***************************************************************************)
(* One row over the REST API, read, created, changed or deleted: what is   *)
(* refused before there is a statement (startApiServer.ts, handler.ts,     *)
(* query-builder.ts), what PostgreSQL makes of the statement (external),   *)
(* and the answer (core/src/dbError.ts).                                   *)
(*                                                                         *)
(* A request is [role, method, segments, options, body, event].  Of its    *)
(* body there is the form ("absent", "too_large", "other_media",           *)
(* "garbled", "no_object" or "object") and, of an object, what each field  *)
(* holds: "value" or "null".  Values that are malformed are in             *)
(* ValuePreflight, ids in EditForm.  The event is what else PostgreSQL     *)
(* meets: "none"; "gone", no row of that key; "vetoed", a trigger that     *)
(* drops the row; or the SQLSTATE of what is broken, a constraint or the   *)
(* condition of a policy.                                                  *)
(***************************************************************************)
EXTENDS RestSurface

\* readJsonBody: what it refuses before anything is routed.
ReadJsonBody(form) ==
    CASE form = "too_large" -> "payload_too_large"
      [] form = "other_media" -> "unsupported_media_type"
      [] form = "garbled" -> "bad_request"
      [] OTHER -> "read"

\* requireObjectBody and assertKnownColumns; an update sets something.
BodyFits(resource, op, body) ==
    op \in {"create", "update"} =>
      /\ body.form = "object"
      /\ DOMAIN body.fields \subseteq Names(resource.columns)
      /\ op = "update" => DOMAIN body.fields # {}

-----------------------------------------------------------------------------
(* PostgreSQL. *)

Command == [get |-> "select", create |-> "insert", update |-> "update", delete |-> "delete"]
Broken == {"23505", "23503", "23514", "42501"}

\* A statement is [op, fields, reads, event]: reads are the columns that it
\* returns or looks for.  The privileges that it needs; an INSERT of defaults
\* needs the table or any column.
MayRun(database, role, relation, statement) ==
    LET cmd == Command[statement.op]
        columns == Range(relation.columns)
        fields == DOMAIN statement.fields
        Permitted(c) == MayWrite(database, role, relation, c, cmd)
    IN /\ \A c \in columns : c.name \in statement.reads => MayWrite(database, role, relation, c, "select")
       /\ CASE statement.op = "get" -> TRUE
            [] statement.op = "delete" -> May(database, role, relation, cmd)
            [] OTHER -> \/ May(database, role, relation, cmd)
                        \/ fields = {} /\ \E c \in columns : Permitted(c)
                        \/ fields # {} /\ \A c \in columns : c.name \in fields => Permitted(c)

\* A NOT NULL column would be left without a value.
LeavesNull(relation, op, fields) ==
    \E c \in Range(relation.columns) :
        /\ c.notNull
        /\ \/ c.name \in DOMAIN fields /\ fields[c.name] = "null"
           \/ c.name \notin DOMAIN fields /\ op = "create" /\ ~MayBeOmitted(c)

\* What may stand in the way of a statement, in the order in which it is met.
Reasons(database, role, relation, statement) ==
    LET op == statement.op
        fields == statement.fields
        event == statement.event
        unseen == \E cmd \in {"select", Command[op]} : RlsRefuses(database, role, relation, cmd)
        writes == op # "get"
    IN << [of |-> ~(DOMAIN fields \subseteq Names(relation.columns)), is |-> "42703"],
          [of |-> op = "update" /\ fields = <<>>, is |-> "42601"],
          [of |-> \E c \in Range(relation.columns) : c.always /\ c.name \in DOMAIN fields, is |-> "428C9"],
          [of |-> ~MayRun(database, role, relation, statement), is |-> "42501"],
          [of |-> op # "create" /\ (unseen \/ event = "gone"), is |-> "no_row"],
          [of |-> writes /\ event = "vetoed", is |-> "no_row"],
          [of |-> op = "create" /\ unseen, is |-> "42501"],
          [of |-> LeavesNull(relation, op, fields), is |-> "23502"],
          [of |-> writes /\ event \in Broken, is |-> event],
          [of |-> TRUE, is |-> "row"] >>

\* How a statement ends: "row", "no_row" or a SQLSTATE.
RunStatement(database, role, relation, statement) ==
    LET reasons == Reasons(database, role, relation, statement)
        First == CHOOSE i \in DOMAIN reasons : reasons[i].of /\ \A j \in 1..(i - 1) : ~reasons[j].of
    IN reasons[First].is

-----------------------------------------------------------------------------
(* The answer. *)

\* Mutant: every constraint that is broken is a conflict.
ConflictsAlike ==
    [code \in {"42501", "23505", "23503", "23502", "23514"} |->
        IF code = "42501" THEN "forbidden" ELSE "conflict"]

\* classifyDatabaseError
Classified ==
    [code \in {"42501", "23505", "23503", "23502", "23514"} |->
        CASE code = "42501" -> "forbidden"
          [] code \in {"23505", "23503"} -> "conflict"
          [] code \in {"23502", "23514"} -> "bad_request"]

\* getResource, createResource, updateResource, deleteResource; what else is
\* thrown is an internal error.
AnswerTo(op, outcome) ==
    CASE op = "create" /\ outcome \in {"row", "no_row"} -> "created"
      [] op # "create" /\ outcome = "row" -> "ok"
      [] op # "create" /\ outcome = "no_row" -> "not_found"
      [] outcome \in DOMAIN Classified -> Classified[outcome]
      [] OTHER -> "internal"

\* What is refused before there is a statement.
Unrun(status) == [status |-> status, row |-> FALSE]

\* The handler of an operation on a row of a resource.
ServeRow(database, resource, relation, op, request) ==
    LET fields == IF op \in {"create", "update"} THEN request.body.fields ELSE <<>>
        outcome == RunStatement(database, request.role, relation,
                                [op |-> op, fields |-> fields, reads |-> Names(relation.columns),
                                 event |-> request.event])
    IN IF BodyFits(resource, op, request.body)
       THEN [status |-> AnswerTo(op, outcome), row |-> outcome = "row"]
       ELSE Unrun("bad_request")

\* dispatch: the body is read, then the request is routed.
Dispatch(database, ctx, request) ==
    LET routed == Route(ctx, request)
        resource == CHOOSE r \in Resources(ctx) : r.qualifiedName = routed.on
        relation == CHOOSE r \in database.relations : Flat(r) = routed.on
        read == ReadJsonBody(request.body.form)
    IN IF read # "read" THEN Unrun(read)
       ELSE IF routed.status # "ok" THEN Unrun(routed.status)
       ELSE ServeRow(database, resource, relation, routed.op, request)
=============================================================================
