---------------------------- MODULE SchemaContext ----------------------------
(***************************************************************************)
(* buildSchemaContext of packages/core: the raw schema compiled into the   *)
(* one every surface is generated from.  Tables and views are sets: their  *)
(* order only decides the order of lists.                                  *)
(***************************************************************************)
EXTENDS FunctionExposure

CONSTANTS ImageNames,      \* identifiers that speak of a URL or an image
          TextareaHints    \* lines of a comment that speak of long texts

NoEnum == <<>>

-----------------------------------------------------------------------------
(* Columns. *)

\* extractCheckEnums: the last CHECK of the form "column IN (values)" wins;
\* one without values is skipped.
CheckEnum(checks, name) ==
    LET of == SelectSeq(checks, LAMBDA c : c.column = name /\ c.values # <<>>)
    IN IF of = <<>> THEN NoEnum ELSE Last(of).values

\* findEnumValues: by the bare name of the type, the schema of the table first.
FindEnumValues(enums, udtName, schema) ==
    LET named == {e \in enums : e.name = udtName}
        near == {e \in named : e.schema = schema}
    IN IF named = {} THEN NoEnum
       ELSE (CHOOSE e \in (IF near = {} THEN named ELSE near) : TRUE).values

ForeignKeyColumns(table) == UNION {Range(fk.columns) : fk \in Range(table.foreignKeys)}

\* The foreign keys that a relation-select picker can serve: single columns.
SelectableColumns(table) ==
    {fk.columns[1] : fk \in {x \in Range(table.foreignKeys) : Len(x.columns) = 1}}

\* inferWidget: by the name of the type, of a DOMAIN its own.
TypeWidget(udt) ==
    CASE udt \in {"int2", "int4", "int8", "numeric", "float4", "float8"} -> "number"
      [] udt \in {"timestamp", "timestamptz", "time", "timetz"} -> "datetime"
      [] udt \in {"json", "jsonb"} -> "json"
      [] udt = "bool" -> "boolean"
      [] udt \in {"uuid", "date"} -> udt
      [] OTHER -> "text"
InferWidget(selectable, values, c, body) ==
    IF selectable THEN "relation-select"
    ELSE IF values # NoEnum THEN "enum-select"
    ELSE IF TypeWidget(c.udtName) # "text" THEN TypeWidget(c.udtName)
    ELSE IF c.udtName = "text" /\ c.name \in ImageNames THEN "image-url"
    ELSE IF c.udtName = "text" /\ \E line \in Range(body) : line.value \in TextareaHints
         THEN "textarea" ELSE "text"

\* inferDisplayField
DisplayField(table) ==
    LET named == SelectSeq(<<<<"name">>, <<"title">>, <<"label">>, <<"display_name">>,
                             <<"name_ja">>, <<"name_en">>>>,
                           LAMBDA n : n \in Names(table.columns)) \o table.primaryKey
    IN IF named = <<>> THEN <<>> ELSE Head(named)

\* buildColumn
ColumnContext(c, table, enums) ==
    LET check == CheckEnum(table.checks, c.name)
        native == FindEnumValues(enums, c.udtName, table.schema)
        values == IF check # NoEnum THEN check ELSE native
        parsed == ParseCommentTags(c.comment)
    IN [name |-> c.name, dataType |-> c.dataType, type |-> c.effectiveType,
        nullable |-> c.nullable, hasDefault |-> c.hasDefault,
        isPrimaryKey |-> c.name \in Range(table.primaryKey),
        isForeignKey |-> c.name \in ForeignKeyColumns(table),
        enumValues |-> values, nativeEnum |-> check = NoEnum /\ native # NoEnum,
        widget |-> IF parsed.widget # NoWidget THEN parsed.widget
                   ELSE InferWidget(c.name \in SelectableColumns(table), values, c, parsed.body),
        policy |-> parsed.policy, privileges |-> c.privileges]

-----------------------------------------------------------------------------
(* Tables and views. *)

RelationCardinality(table, fk) ==
    IF \E u \in table.unique \cup ({table.primaryKey} \ {<<>>}) : Range(u) = Range(fk.columns)
    THEN "one-to-one" ELSE "many-to-one"

Aligned(fk) == Len(fk.columns) = Len(fk.refColumns)

\* buildRelations: a misaligned key is reported and skipped.
Relations(table) ==
    LET aligned == Keep(table.foreignKeys, {fk \in Range(table.foreignKeys) : Aligned(fk)})
    IN [i \in DOMAIN aligned |->
          [fields |-> aligned[i].columns, columns |-> aligned[i].refColumns,
           schema |-> aligned[i].refSchema, table |-> aligned[i].refName,
           cardinality |-> RelationCardinality(table, aligned[i])]]

Target(relation) == relation.schema \o relation.table

TableContext(t, enums) ==
    [schema |-> t.schema, name |-> t.name, qualifiedName |-> Flat(t),
     policy |-> ParseCommentTags(t.comment).policy,
     privileges |-> t.privileges, rowSecurity |-> t.rowSecurity,
     primaryKey |-> t.primaryKey, relations |-> Relations(t), displayField |-> DisplayField(t),
     columns |-> [i \in DOMAIN t.columns |-> ColumnContext(t.columns[i], t, enums)]]

\* A view column has neither checks nor keys.
ViewContext(v, enums) ==
    LET bare == [checks |-> <<>>, foreignKeys |-> <<>>, primaryKey |-> <<>>, schema |-> v.schema]
        parsed == ParseCommentTags(v.comment)
    IN [schema |-> v.schema, name |-> v.name, qualifiedName |-> Flat(v),
        policy |-> parsed.policy, examples |-> parsed.examples,
        privileges |-> v.privileges, underlyingTables |-> v.underlyingTables,
        columns |-> [i \in DOMAIN v.columns |-> ColumnContext(v.columns[i], bare, enums)]]

\* A relation the role cannot SELECT is hidden, unless privileges are shown.
Visible(relation, opts) ==
    \/ opts.privilegeDisplay = "annotate"
    \/ ~relation.privileges.evaluated
    \/ "select" \in relation.privileges.may

\* deriveJoinSuggestions: the relations of the visible tables that the view
\* reads, to tables that it reads too.
JoinSuggestions(view, tables) ==
    LET Joins(t) == {r \in Range(t.relations) : Target(r) \in view.underlyingTables}
    IN UNION {{[from |-> t.qualifiedName, to |-> Target(r), on |-> <<r.fields, r.columns>>] :
                  r \in Joins(t)} :
                  t \in {x \in tables : x.qualifiedName \in view.underlyingTables}}

\* buildSchemaContext, without hints of the operator.
BuildSchemaContext(raw, rpc, opts) ==
    LET tables == {TableContext(t, raw.enums) : t \in {x \in raw.tables : Visible(x, opts)}}
        views == {ViewContext(v, raw.enums) : v \in {x \in raw.views : Visible(x, opts)}}
        exposure == BuildFunctionContexts(raw.functions, rpc)
        known == {Flat(x) : x \in raw.tables} \cup {Flat(x) : x \in raw.views}
        misaligned == {Flat(t) : t \in {x \in raw.tables : Visible(x, opts)
                                            /\ \E fk \in Range(x.foreignKeys) : ~Aligned(fk)}}
        unknown == {t.qualifiedName :
                      t \in {x \in tables : \E r \in Range(x.relations) : Target(r) \notin known}}
    IN [tables |-> tables, views |-> views,
        concepts |-> {[name |-> v.name, examples |-> v.examples, policies |-> v.policy,
                       joins |-> JoinSuggestions(v, tables)] : v \in views},
        functions |-> exposure.functions,
        issues |-> exposure.issues \cup misaligned \cup unknown]
=============================================================================
