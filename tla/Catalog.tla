------------------------------- MODULE Catalog -------------------------------
(***************************************************************************)
(* PostgreSQL as the compiler of kozou meets it: the system catalogs that  *)
(* packages/introspect/src reads, and the judgements the server itself     *)
(* passes at run time, which what kozou compiled is compared with.  It is  *)
(* external code: nothing here is translated from the repository.          *)
(*                                                                         *)
(* A database is a record:                                                 *)
(*   memberOf    role -> the roles whose grants it has, itself included    *)
(*   superusers  the roles no privilege check applies to                   *)
(*   schemas     name -> [usage, create], the grantees of both             *)
(*   relations, functions, enums   sets of records                         *)
(* An identifier is a sequence of the parts its dots separate, so that     *)
(* schema \o name is what the string "schema.name" says and what it may    *)
(* confuse: <<"a">> \o <<"b", "c">> = <<"a", "b">> \o <<"c">>.             *)
(***************************************************************************)
EXTENDS Lists, SequencesExt, FiniteSetsExt, Functions

PUBLIC == "PUBLIC"
Commands == <<"select", "insert", "update", "delete">>
Empty == <<"">>   \* the empty identifier: an argument without a name

Flat(object) == object.schema \o object.name
HasDot(name) == Len(name) > 1
Names(seq) == {seq[i].name : i \in DOMAIN seq}

-----------------------------------------------------------------------------
(* Privileges: has_schema_privilege, has_table_privilege, ... *)

Holds(db, role, grantees) ==
    role \in db.superusers \/ PUBLIC \in grantees \/ db.memberOf[role] \cap grantees # {}

\* Nothing in a schema can be reached without USAGE on it.
Reaches(db, role, schema) == Holds(db, role, db.schemas[schema].usage)

\* The privilege that a statement on the whole relation needs.
May(db, role, relation, command) ==
    /\ Reaches(db, role, relation.schema)
    /\ Holds(db, role, relation.grants[command])

\* A write to one column: a grant on the column or on the whole table.
MayWrite(db, role, relation, column, command) ==
    /\ Reaches(db, role, relation.schema)
    /\ Holds(db, role, relation.grants[command] \cup column.grants[command])

\* Row-level security applies to everyone but superusers and, unless it is
\* forced, the owner; a command that no permissive policy for the role covers
\* reads and writes no row.
RlsApplies(db, role, relation) ==
    /\ relation.rls.enabled
    /\ role \notin db.superusers
    /\ relation.rls.forced \/ relation.owner \notin db.memberOf[role]
RlsRefuses(db, role, relation, command) ==
    /\ RlsApplies(db, role, relation)
    /\ ~\E policy \in relation.rls.policies :
            /\ policy.permissive /\ policy.cmd \in {"all", command}
            /\ Holds(db, role, policy.roles)

-----------------------------------------------------------------------------
(* Functions. *)

OfModes(args, modes) == Selected(args, {i \in DOMAIN args : args[i].mode \in modes})
Inputs(f) == OfModes(f.args, {"in", "inout", "variadic"})
Outputs(f) == OfModes(f.args, {"out", "inout", "table"})

\* The last ndef inputs have a default.
HasDefault(f, i) == i > Len(Inputs(f)) - f.ndef

\* The definitions that schema.name(a => $1, ...) may call with arguments of
\* these names.  Named notation never matches a VARIADIC parameter.
Callees(db, schema, name, supplied) ==
    {f \in db.functions :
        /\ f.schema = schema /\ f.name = name
        /\ supplied \subseteq Names(Inputs(f)) \ {Empty}
        /\ \A i \in DOMAIN Inputs(f) :
              IF Inputs(f)[i].name \in supplied
              THEN Inputs(f)[i].mode # "variadic" ELSE HasDefault(f, i)}

MayExecute(db, role, f) == Reaches(db, role, f.schema) /\ Holds(db, role, f.execute)

\* The row a call in FROM yields: the attributes of a composite type, else the
\* OUT parameters, else one column named after the alias; a single OUT
\* parameter without a name is named after the alias too.  returns.types is
\* the chain of pg_type.typtype from the declared type through its domains.
RowOf(f, alias) ==
    IF Last(f.returns.types) = "c" THEN f.returns.attributes
    ELSE IF Outputs(f) = <<>> \/ (Len(Outputs(f)) = 1 /\ Outputs(f)[1].name = Empty)
         THEN <<alias>>
         ELSE [i \in DOMAIN Outputs(f) |-> Outputs(f)[i].name]

\* Whether a role other than the owner can make a SECURITY DEFINER function
\* run its own objects: through the temporary schema, which is searched first
\* unless it is listed, or by creating them in a schema of the path.
Hijackable(db, f) ==
    LET path == f.path
        Temporary(i) == path[i].schema = <<"pg_temp">>
        OthersCreateIn(schema) ==
            \/ schema \notin DOMAIN db.schemas
            \/ PUBLIC \in db.schemas[schema].create
            \/ \E role \in DOMAIN db.memberOf \ (db.superusers \cup {f.owner}) :
                  Holds(db, role, db.schemas[schema].create)
    IN \/ ~\E i \in DOMAIN path : Temporary(i)
       \/ \E i \in DOMAIN path :
             IF Temporary(i) THEN i # Len(path)
             ELSE path[i].dynamic \/ OthersCreateIn(path[i].schema)

-----------------------------------------------------------------------------
(* Relations. *)

\* The values a column of an enumerated type takes: its own type's labels.
Labels(db, column) ==
    Range((CHOOSE e \in db.enums : e.schema = column.typeSchema /\ e.name = column.type).values)
IsEnum(db, column) ==
    \E e \in db.enums : e.schema = column.typeSchema /\ e.name = column.type

\* What an INSERT may leave out: PostgreSQL supplies a default, an identity or
\* a generated value, or NULL.  (The generated ones have a default, and like
\* the identities GENERATED ALWAYS they are "always": no value can be given.)
MayBeOmitted(column) == ~column.notNull \/ column.default \/ column.identity
=============================================================================
