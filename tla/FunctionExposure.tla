--------------------------- MODULE FunctionExposure ---------------------------
(***************************************************************************)
(* Functions as RPC actions (packages/core): which of the functions of the *)
(* raw schema are exposed, decided when the schema is compiled             *)
(* (buildFunctionContexts), and how a call of one is checked, sent to      *)
(* PostgreSQL and shaped into an answer (rpc.ts), from the REST API and    *)
(* from the call tool of the MCP server.                                   *)
(***************************************************************************)
EXTENDS Introspection, CommentTags

PolymorphicTypes ==
    {"anyelement", "anyarray", "anynonarray", "anyenum", "anyrange", "anymultirange",
     "anycompatible", "anycompatiblearray", "anycompatiblenonarray", "anycompatiblerange",
     "anycompatiblemultirange"}

-----------------------------------------------------------------------------
(* buildFunctionContext.ts *)

\* normalizeAllowlist: exactly "schema.function", neither part empty.
NormalizeAllowlist(entries) == {e \in entries : Len(e) = 2 /\ "" \notin Range(e)}
InvalidEntries(entries) == entries \ NormalizeAllowlist(entries)

\* Mutant: pg_temp anywhere on the path.
TempAnywhere(path) ==
    /\ \E i \in DOMAIN path : path[i].isTemp
    /\ \A i \in DOMAIN path : ~path[i].isTemp =>
            path[i].resolved /\ path[i].writableByOthers = "no"

\* checkSafeSearchPath: pg_temp once and last, every other element a schema
\* in which the owner alone may create.
SafeSearchPath(path) ==
    /\ {i \in DOMAIN path : path[i].isTemp} = {Len(path)}
    /\ \A i \in DOMAIN path : ~path[i].isTemp =>
            path[i].resolved /\ path[i].writableByOthers = "no"

\* isInputArg
InputArgs(f) == OfModes(f.arguments, {"in", "inout", "variadic"})

UnsupportedArgument(f) ==
    \E a \in Range(InputArgs(f)) :
        a.mode = "variadic" \/ a.name = Empty \/ a.udtName \in PolymorphicTypes

\* decideAndBuild: the guards that a tagged function may fail.
UnsafeDefiner(f, rpc) ==
    /\ f.security = "definer"
    /\ Flat(f) \notin NormalizeAllowlist(rpc.allowDefiner) \/ ~SafeSearchPath(f.searchPath)
UnwantedPublic(f, expose, rpc) ==
    /\ f.publicExecute /\ expose # "rpc-public"
    /\ Flat(f) \notin NormalizeAllowlist(rpc.allowPublicExecute)
Refused(f, expose, rpc) ==
    \/ UnsupportedArgument(f)
    \/ f.returns.kind = "unsupported"
    \/ UnsafeDefiner(f, rpc)
    \/ UnwantedPublic(f, expose, rpc)

\* decideAndBuild: a function without an issue, shaped.
FunctionContext(f) ==
    [schema |-> f.schema, name |-> f.name, qualifiedName |-> Flat(f),
     args |-> InputArgs(f), returns |-> f.returns]

\* buildFunctionContexts: the exposed functions, and the identities reported
\* instead.  Functions are grouped by the dotted name, the untagged included.
BuildFunctionContexts(functions, rpc) ==
    LET Tag(f) == ParseCommentTags(f.comment).expose
        Group(q) == {f \in functions : Flat(f) = q}
        tagged == {q \in {Flat(f) : f \in functions} : \E f \in Group(q) : Tag(f) # "none"}
        single == {q \in tagged : Cardinality(Group(q)) = 1}
        Only(q) == CHOOSE f \in Group(q) : TRUE
        exposed == {q \in single : /\ ~HasDot(Only(q).schema) /\ ~HasDot(Only(q).name)
                                   /\ ~Refused(Only(q), Tag(Only(q)), rpc)}
        UnknownHints(q) == Range(ParseCommentTags(Only(q).comment).args)
                             \ Names(InputArgs(Only(q)))
    IN [functions |-> {FunctionContext(Only(q)) : q \in exposed},
        issues |-> (tagged \ exposed) \cup {q \in exposed : UnknownHints(q) # {}}
                     \cup InvalidEntries(rpc.allowDefiner)
                     \cup InvalidEntries(rpc.allowPublicExecute)]

-----------------------------------------------------------------------------
(* rpc.ts *)

NotFound == [status |-> "not_found", keys |-> <<>>, many |-> FALSE]
BadRequest == [status |-> "bad_request", keys |-> <<>>, many |-> FALSE]
Forbidden == [status |-> "forbidden", keys |-> <<>>, many |-> FALSE]
NoContent == [status |-> "no_content", keys |-> <<>>, many |-> FALSE]

\* buildRpcCall: what it raises RpcInputError for.
BadArguments(fn, supplied) ==
    \/ supplied \ Names(fn.args) # {}
    \/ \E a \in Range(fn.args) : ~a.hasDefault /\ a.name \notin supplied

\* selectForReturn: whether the call is aliased AS _rpc(result).
Aliased(returns) ==
    returns.kind = "scalar" \/ (returns.kind = "setof" /\ returns.columns = <<>>)

\* shapeRpcResult, for a row of the given columns: the value of the column
\* "result" for a scalar, null (which is no identifier) if there is none; the
\* row itself for a record.
NullValue == <<>>
ShapeRpcResult(returns, row) ==
    LET Value == IF <<"result">> \in Range(row) THEN <<>> ELSE <<NullValue>>
    IN CASE returns.kind = "void" -> NoContent
         [] returns.kind = "scalar" -> [status |-> "ok", keys |-> Value, many |-> FALSE]
         [] returns.kind = "composite" -> [status |-> "ok", keys |-> row, many |-> FALSE]
         [] returns.kind = "setof" ->
              [status |-> "ok", keys |-> IF returns.columns = <<>> THEN Value ELSE row,
               many |-> TRUE]

\* The rows PostgreSQL answers the built statement with, by the definition it
\* calls: a column alias renames the first column.
RowAnswered(f, returns) ==
    LET row == RowOf(f, <<"_rpc">>)
    IN IF Aliased(returns) THEN [row EXCEPT ![1] = <<"result">>] ELSE row

\* The statement as PostgreSQL answers it, for a role and argument names.
Execute(db, role, fn, supplied) ==
    LET callees == Callees(db, fn.schema, fn.name, supplied)
        f == CHOOSE x \in callees : TRUE
    IN IF Cardinality(callees) # 1 THEN BadRequest
       ELSE IF ~MayExecute(db, role, f) THEN Forbidden
       ELSE ShapeRpcResult(fn.returns, RowAnswered(f, fn.returns))

-----------------------------------------------------------------------------
(* handler.ts and the call tool *)

\* buildFunctionLookup: by the qualified name and nothing else.
LookupFunction(ctx, qualifiedName) ==
    {fn \in ctx.functions : fn.qualifiedName = qualifiedName}

\* callFunction of the REST handler, callToolAs of the MCP server: the latter
\* is further restricted to the functions execution.allow names, if it does.
CallFunction(db, ctx, role, qualifiedName, supplied, allow) ==
    LET found == LookupFunction(ctx, qualifiedName)
        fn == CHOOSE x \in found : TRUE
    IN IF found = {} \/ (allow.listed /\ qualifiedName \notin allow.names) THEN NotFound
       ELSE IF BadArguments(fn, supplied) THEN BadRequest
       ELSE Execute(db, role, fn, supplied)
=============================================================================
