------------------------------- MODULE McpTools -------------------------------
(***************************************************************************)
(* What the tools of packages/mcp/src/tools tell an agent of the compiled  *)
(* schema: list_tables, describe_table, describe_view and                  *)
(* get_concept_context.  A tool that finds nothing fails.                  *)
(***************************************************************************)
EXTENDS SchemaContext

ToolError == [found |-> FALSE]

\* list_tables: the tables of one schema, and whether it was introspected.
ListTables(ctx, schema, opts) ==
    [found |-> TRUE, outOfScope |-> schema \notin opts.schemas,
     tables |-> {t.qualifiedName : t \in {x \in ctx.tables : x.schema = schema}}]

\* referencesByField: the column an FK column refers to; of several foreign
\* keys on one column the last one counts.
References(table, name) ==
    LET on == {k \in DOMAIN table.relations : name \in Range(table.relations[k].fields)}
        r == table.relations[Max(on)]
        i == Max({k \in DOMAIN r.fields : r.fields[k] = name})
    IN IF on = {} THEN <<>> ELSE <<Target(r), r.columns[i]>>

\* describe_table.  The note on row-level security is its deniedCommands.
DescribeTable(ctx, qualifiedName) ==
    LET found == {t \in ctx.tables : t.qualifiedName = qualifiedName}
        table == CHOOSE t \in found : TRUE
    IN IF found = {} THEN ToolError
       ELSE [found |-> TRUE, privileges |-> table.privileges,
             rowSecurity |-> table.rowSecurity, policy |-> table.policy,
             columns |-> [i \in DOMAIN table.columns |->
                 [name |-> table.columns[i].name, privileges |-> table.columns[i].privileges,
                  isForeignKey |-> table.columns[i].isForeignKey,
                  references |-> References(table, table.columns[i].name)]]]

DescribeView(ctx, qualifiedName) ==
    LET found == {v \in ctx.views : v.qualifiedName = qualifiedName}
        view == CHOOSE v \in found : TRUE
    IN IF found = {} THEN ToolError
       ELSE [found |-> TRUE, privileges |-> view.privileges,
             policy |-> view.policy, underlyingTables |-> view.underlyingTables]

\* get_concept_context: views by their bare name.
GetConceptContext(ctx, name) ==
    LET concepts == {c \in ctx.concepts : c.name = name}
        concept == CHOOSE c \in concepts : TRUE
        view == CHOOSE v \in ctx.views : v.name = name
    IN IF concepts = {} THEN ToolError
       ELSE [found |-> TRUE, policies |-> concept.policies, examples |-> concept.examples,
             joins |-> concept.joins, relatedTables |-> view.underlyingTables]
=============================================================================
