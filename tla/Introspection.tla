---------------------------- MODULE Introspection ----------------------------
(***************************************************************************)
(* introspect() of packages/introspect: what kozou reads of the catalogs   *)
(* of a database, in one read-only transaction, before it decides          *)
(* anything.  The result is the raw schema: tables, views, enums and       *)
(* functions of the configured schemas, the tables and views filtered by   *)
(* the include and exclude patterns, and annotated with the privileges of  *)
(* one role when the options name one.                                     *)
(***************************************************************************)
EXTENDS Catalog

NoRole == "no role"

-----------------------------------------------------------------------------
(* filter.ts: a pattern is a name whose parts may be "*". *)

Qualified(pattern) == IF HasDot(pattern) THEN pattern ELSE <<"*">> \o pattern

MatchesAny(key, patterns) ==
    \E pattern \in patterns :
        LET q == Qualified(pattern)
        IN Len(q) = Len(key) /\ \A i \in DOMAIN q : q[i] \in {"*", key[i]}

ShouldRetain(object, opts) ==
    /\ opts.include # {} => MatchesAny(Flat(object), opts.include)
    /\ ~MatchesAny(Flat(object), opts.exclude)

\* pruneDanglingForeignKeys: a foreign key to a table that was filtered out,
\* or lies outside the configured schemas, is dropped.
PruneDanglingForeignKeys(tables) ==
    LET present == {Flat(t) : t \in tables}
        Kept(fks) == {fk \in Range(fks) : fk.refSchema \o fk.refName \in present}
    IN {[t EXCEPT !.foreignKeys = Keep(@, Kept(@))] : t \in tables}

-----------------------------------------------------------------------------
(* rowSecurity.ts *)

\* Mutant: a policy for ALL covers nothing.
DeniedUnlessNamed(rls) ==
    IF rls.enabled
    THEN Range(Commands) \ {p.cmd : p \in {x \in rls.policies : x.permissive}} ELSE {}

\* Commands that no permissive policy covers, whatever the roles it names.
DeniedCommands(rls) ==
    LET permissive == {p \in rls.policies : p.permissive}
        covered == {p.cmd : p \in permissive}
    IN IF ~rls.enabled \/ "all" \in covered THEN {} ELSE Range(Commands) \ covered

RowSecurity(rls) ==
    [enabled |-> rls.enabled, forced |-> rls.forced,
     hasPolicies |-> rls.policies # {}, deniedCommands |-> DeniedCommands(rls)]

-----------------------------------------------------------------------------
(* privileges.ts: evaluated for the named role, gated by USAGE. *)

NotEvaluated == [evaluated |-> FALSE, may |-> {}]

RelationPrivileges(db, role, relation) ==
    IF role = NoRole THEN NotEvaluated
    ELSE [evaluated |-> TRUE,
          may |-> {c \in Range(Commands) :
                      /\ Reaches(db, role, relation.schema)
                      /\ Holds(db, role, relation.grants[c])}]

ColumnPrivileges(db, role, relation, column) ==
    IF role = NoRole THEN NotEvaluated
    ELSE [evaluated |-> TRUE,
          may |-> {c \in {"insert", "update"} :
                      /\ Reaches(db, role, relation.schema)
                      /\ Holds(db, role, relation.grants[c] \cup column.grants[c])}]

-----------------------------------------------------------------------------
(* tables.ts, views.ts, fks.ts, checks.ts, enums.ts *)

\* A column of a table.  An identity column has no pg_attrdef entry, and
\* pg_attribute.attidentity is not read.  Of a DOMAIN the type it is declared
\* over is read, one level.
RawColumn(db, role, relation, column) ==
    [name |-> column.name, nullable |-> ~column.notNull, hasDefault |-> column.default,
     udtName |-> column.type, dataType |-> column.types[1], comment |-> column.comment,
     effectiveType |-> column.types[IF Len(column.types) > 1 THEN 2 ELSE 1],
     privileges |-> ColumnPrivileges(db, role, relation, column)]

Columns(db, role, relation) ==
    [i \in DOMAIN relation.columns |-> RawColumn(db, role, relation, relation.columns[i])]

\* fetchTables: ordinary tables and partitioned parents, never partitions.
FetchTables(db, opts) ==
    {[schema |-> r.schema, name |-> r.name, comment |-> r.comment,
      columns |-> Columns(db, opts.privilegeRole, r),
      primaryKey |-> r.primaryKey, unique |-> r.unique,
      foreignKeys |-> r.foreignKeys, checks |-> r.checks,
      rowSecurity |-> RowSecurity(r.rls),
      privileges |-> RelationPrivileges(db, opts.privilegeRole, r)] :
        r \in {x \in db.relations :
                 x.kind \in {"table", "partitioned"} /\ x.schema \in opts.schemas}}

\* The relations a view reads, the partitioned ones missing: relkind 'p' is
\* not among the kinds the dependency query accepts.
UnderlyingTables(db, view) ==
    {Flat(r) : r \in {x \in db.relations : x.kind # "partitioned" /\ Flat(x) \in view.reads}}

\* fetchViews: views and materialized views, without column privileges.
FetchViews(db, opts) ==
    {[schema |-> r.schema, name |-> r.name, comment |-> r.comment,
      columns |-> Columns(db, NoRole, r),
      underlyingTables |-> UnderlyingTables(db, r),
      privileges |-> RelationPrivileges(db, opts.privilegeRole, r)] :
        r \in {x \in db.relations : x.kind \in {"view", "matview"} /\ x.schema \in opts.schemas}}

FetchEnums(db, opts) == {e \in db.enums : e.schema \in opts.schemas}

-----------------------------------------------------------------------------
(* functions.ts *)

\* Mutant: counting the OUT arguments too.
DefaultsOfLastArguments(f) ==
    [i \in DOMAIN f.args |->
       [name |-> f.args[i].name, udtName |-> f.args[i].type, mode |-> f.args[i].mode,
        hasDefault |-> i > Len(f.args) - f.ndef]]

\* buildArgs: defaults apply to the trailing inputs.
BuildArgs(f) ==
    LET inputs == {i \in DOMAIN f.args : f.args[i].mode \in {"in", "inout", "variadic"}}
        After(i) == Cardinality({j \in inputs : j > i})
    IN [i \in DOMAIN f.args |->
          [name |-> f.args[i].name, udtName |-> f.args[i].type, mode |-> f.args[i].mode,
           hasDefault |-> i \in inputs /\ After(i) < f.ndef]]

\* The type after one level of DOMAIN.
EffectiveType(returns) ==
    IF returns.types[1] = "d" THEN returns.types[2] ELSE returns.types[1]

\* The attributes of a composite result, else the OUT and TABLE arguments.
ReturnColumns(f) ==
    IF EffectiveType(f.returns) = "c" THEN f.returns.attributes
    ELSE LET outs == Outputs(f) IN [i \in DOMAIN outs |-> outs[i].name]

ClassifyReturn(f) ==
    LET columns == ReturnColumns(f)
        scalar == EffectiveType(f.returns) = "b"
        Kind(kind, cols) == [kind |-> kind, columns |-> cols]
    IN CASE f.returns.void -> Kind("void", <<>>)
         [] ~f.returns.void /\ f.returns.set ->
              IF columns # <<>> \/ scalar THEN Kind("setof", columns)
              ELSE Kind("unsupported", <<>>)
         [] ~f.returns.void /\ ~f.returns.set ->
              IF EffectiveType(f.returns) = "c" /\ columns # <<>> THEN Kind("composite", columns)
              ELSE IF scalar THEN Kind("scalar", <<>>) ELSE Kind("unsupported", <<>>)

\* Who, besides the owner of the function, may create objects in a schema of
\* its search path: PUBLIC, or a role that is no superuser.
WritableByOthers(db, schema, owner) ==
    IF schema \notin DOMAIN db.schemas THEN "unknown"
    ELSE LET create == db.schemas[schema].create
             creators == {r \in DOMAIN db.memberOf \ db.superusers : Holds(db, r, create)}
         IN IF PUBLIC \in create \/ creators \ {owner} # {} THEN "yes" ELSE "no"

\* parseSearchPath, the writability filled in.
SearchPath(db, f) ==
    [i \in DOMAIN f.path |->
       LET el == f.path[i]
           temp == el.schema = <<"pg_temp">>
       IN [isTemp |-> temp, resolved |-> ~temp /\ ~el.dynamic,
           writableByOthers |-> IF temp \/ el.dynamic THEN "unknown"
                                ELSE WritableByOthers(db, el.schema, f.owner)]]

FetchFunctions(db, opts) ==
    {[schema |-> f.schema, name |-> f.name, arguments |-> BuildArgs(f),
      returns |-> ClassifyReturn(f), security |-> f.security,
      publicExecute |-> PUBLIC \in f.execute,
      searchPath |-> SearchPath(db, f), comment |-> f.comment] :
        f \in {x \in db.functions : x.schema \in opts.schemas}}

-----------------------------------------------------------------------------
(* index.ts *)

\* assertRoleExists, reached only when there is a relation to annotate.
PrivilegeRoleMissing(db, opts) ==
    /\ opts.privilegeRole \notin {NoRole} \cup DOMAIN db.memberOf
    /\ FetchTables(db, [opts EXCEPT !.privilegeRole = NoRole])
         \cup FetchViews(db, [opts EXCEPT !.privilegeRole = NoRole]) # {}

\* Schemas that do not exist are warned about and skipped.
Introspect(db, opts) ==
    LET valid == [opts EXCEPT !.schemas = @ \cap DOMAIN db.schemas]
    IN [tables |-> PruneDanglingForeignKeys(
                       {t \in FetchTables(db, valid) : ShouldRetain(t, opts)}),
        views |-> {v \in FetchViews(db, valid) : ShouldRetain(v, opts)},
        enums |-> FetchEnums(db, valid),
        functions |-> FetchFunctions(db, valid)]
=============================================================================
