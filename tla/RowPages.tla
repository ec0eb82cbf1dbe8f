------------------------------- MODULE RowPages -------------------------------
(***************************************************************************)
(* The pages of the Admin UI that create, change and delete one row, from  *)
(* what is submitted to what its user is told: the form actions of the     *)
(* routes (svelte-ui/src/routes/tables), the adapters that carry them out  *)
(* (ui-core/src/adapter), the REST API or PostgREST (external) behind      *)
(* them, and adapter-error.ts.                                             *)
(*                                                                         *)
(* A page is "done" (a redirect), a message ("conflict", "no permission",  *)
(* "no record", "not allowed", "rejected"), "form" (shown again before     *)
(* anything was sent) or "error page".  Of the events of RowWrites there   *)
(* is one more: "lost", the answer does not arrive.                        *)
(***************************************************************************)
EXTENDS EditForm, RowWrites

\* What is sent: [op, fields, event].  The API answers by Dispatch.
OverApi(database, ctx, role, relation, request) ==
    LET Method == [get |-> "GET", create |-> "POST", update |-> "PATCH", delete |-> "DELETE"]
        body == IF request.op \in {"create", "update"}
                THEN [form |-> "object", fields |-> request.fields] ELSE [form |-> "absent"]
        item == IF request.op = "create" THEN <<>> ELSE <<Id>>
    IN Dispatch(database, ctx, [role |-> role, method |-> Method[request.op],
                                segments |-> <<Flat(relation)>> \o item, options |-> FALSE,
                                body |-> body, event |-> request.event])

\* PostgREST, which is asked for exactly one row except by a DELETE: this
\* succeeds without one, and reads the key only.  The adapter sends no token,
\* so what is forbidden is unauthorized.
OverPostgrest(database, role, relation, request) ==
    LET reads == IF request.op = "delete" THEN Range(relation.primaryKey) ELSE Names(relation.columns)
        outcome == RunStatement(database, role, relation, request @@ [reads |-> reads])
        status == CASE outcome = "row" -> "ok"
                    [] outcome = "no_row" -> IF request.op = "delete" THEN "ok" ELSE "not acceptable"
                    [] outcome = "42501" -> "unauthorized"
                    [] outcome \in {"23505", "23503"} -> "conflict"
                    [] OTHER -> "bad_request"
    IN [status |-> status, row |-> outcome = "row"]

Carry(database, ctx, adapter, role, relation, request) ==
    LET reply == IF adapter = "api" THEN OverApi(database, ctx, role, relation, request)
                 ELSE OverPostgrest(database, role, relation, request)
    IN IF request.event = "lost" THEN [reply EXCEPT !.status = "network"] ELSE reply

\* assertOk and readJson: an answer without a body cannot be parsed.
Succeeds(op, reply) ==
    reply.status \in {"ok", "created"} /\ (op = "delete" \/ reply.row)

\* adapterErrorToFailure, messageForStatus: other than a 4xx is rethrown.
AdapterErrorToFailure(status) ==
    CASE status = "conflict" -> "conflict"
      [] status = "forbidden" -> "no permission"
      [] status = "not_found" -> "no record"
      [] status = "method_not_allowed" -> "not allowed"
      [] status \in {"ok", "created", "internal", "network"} -> "error page"
      [] OTHER -> "rejected"

\* The page that follows a request, and whether PostgreSQL did what it asks.
Page(op, reply) ==
    [page |-> IF Succeeds(op, reply) THEN "done" ELSE AdapterErrorToFailure(reply.status),
     row |-> reply.row]

\* The pages of a row read it first.
Opens(database, ctx, adapter, role, relation) ==
    Succeeds("get", Carry(database, ctx, adapter, role, relation,
                          [op |-> "get", fields |-> <<>>, event |-> "none"]))

\* The request of a form action, of which the question is [op, row, event]: a
\* link that leads to another key than the row's, by the rounding of a number,
\* leads to no row.
RequestOf(table, q, submission) ==
    LET payload == submission.payload
        own == q.op = "update" =>
                 submission.at = [i \in DOMAIN table.primaryKey |-> q.row[table.primaryKey[i]]]
    IN [op |-> q.op, event |-> IF own THEN q.event ELSE "gone",
        fields |-> IF q.op = "delete" THEN <<>>
                   ELSE [f \in DOMAIN payload |-> IF payload[f] = NULL THEN "null" ELSE "value"]]

\* The delete action is refused to a role known not to have the privilege.
MayDelete(table) == table.privileges.evaluated => "delete" \in table.privileges.may

\* The actions of the create and edit forms, from the submission on, and the
\* delete action.
PageAfter(database, ctx, relation, table, q, submission) ==
    CASE q.op = "delete" /\ ~MayDelete(table) -> [page |-> "error page", row |-> FALSE]
      [] q.op # "delete" /\ submission.status # "saved" -> [page |-> "form", row |-> FALSE]
      [] OTHER -> Page(q.op, Carry(database, ctx, q.adapter, q.role, relation,
                                   RequestOf(table, q, submission)))
=============================================================================
