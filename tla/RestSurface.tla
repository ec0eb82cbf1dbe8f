----------------------------- MODULE RestSurface -----------------------------
(***************************************************************************)
(* The REST API generated from the compiled schema (packages/api): how a   *)
(* request finds its resource (schema-lookup.ts, handler.ts), which        *)
(* relations ?embed= may inline (embed.ts), and the OpenAPI document that  *)
(* promises all of this to clients (openapi.ts).                           *)
(*                                                                         *)
(* A path is the sequence of its segments, each an identifier.             *)
(***************************************************************************)
EXTENDS SchemaContext, ValuePreflight

CONSTANTS MaxEmbedDepth, MaxEmbedRelations,
          IdStem   \* identifier -> the same without a trailing _id, _uuid, ...

ASSUME EmbedAssumption == MaxEmbedDepth \in Nat \ {0} /\ MaxEmbedRelations \in Nat \ {0}

-----------------------------------------------------------------------------
(* schema-lookup.ts *)

Resource(kind, x) ==
    [kind |-> kind, schema |-> x.schema, name |-> x.name, qualifiedName |-> x.qualifiedName,
     columns |-> x.columns,
     primaryKey |-> IF kind = "table" THEN x.primaryKey ELSE <<>>,
     relations |-> IF kind = "table" THEN x.relations ELSE <<>>]

Resources(ctx) ==
    {Resource("table", t) : t \in ctx.tables} \cup {Resource("view", v) : v \in ctx.views}

\* byKey: a qualified name, or a bare one that only one resource has; a
\* qualified name comes first.
Resolve(resources, name) ==
    LET exact == {r \in resources : r.qualifiedName = name}
        bare == {r \in resources : r.name = name}
    IN IF exact # {} THEN {CHOOSE r \in exact : TRUE}
       ELSE {r \in bare : bare = {r}}

\* reverseIndex: the foreign keys that refer to a resource, with their tables.
ReverseRelations(resources, qualifiedName) ==
    UNION {{[child |-> c, relation |-> c.relations[i], at |-> i] :
                i \in {k \in DOMAIN c.relations : Target(c.relations[k]) = qualifiedName}} :
                c \in resources}

-----------------------------------------------------------------------------
(* embed.ts *)

IsSingle(relation) == Len(relation.fields) = 1

\* matchForward: by the column of a single-column foreign key, else by the
\* name of the table referred to.
MatchForward(parent, selector) ==
    LET byField == SelectSeq(parent.relations,
                             LAMBDA r : IsSingle(r) /\ r.fields[1] = selector)
        byTable == SelectSeq(parent.relations, LAMBDA r : r.table = selector)
    IN IF byField # <<>> THEN <<Head(byField)>> ELSE byTable

\* matchReverse: by the name of the table the foreign key belongs to.
MatchReverse(resources, parent, selector) ==
    {e \in ReverseRelations(resources, parent.qualifiedName) : e.child.name = selector}

\* resolveSegment: what a selector selects; {} when it is unknown, ambiguous
\* or leads to a table that is not there.
ResolveSegment(resources, parent, selector) ==
    LET forward == MatchForward(parent, selector)
        reverse == MatchReverse(resources, parent, selector)
        Node(kind, relation, target) == [kind |-> kind, relation |-> relation, target |-> target]
    IN IF parent.kind = "view" THEN {}
       ELSE IF forward # <<>>
       THEN IF Len(forward) > 1 THEN {}
            ELSE {Node("to-one", forward[1], t) : t \in Resolve(resources, Target(forward[1]))}
       ELSE IF Cardinality(reverse) > 1 THEN {}
            ELSE {Node("to-many", e.relation, e.child) : e \in reverse}

\* pickEmbedKey, chooseKey: the first of three names that is neither a column
\* of the parent nor in use beside it; none in NoKey.
NoKey == <<>>
PickEmbedKey(name, field, taken, columns) ==
    LET stem == IdStem[field]
        Free(key) == key \notin taken \cup columns
    IN IF Free(name) THEN name ELSE IF Free(stem) THEN stem ELSE IF Free(field) THEN field ELSE NoKey
ChooseKey(node, siblings, parent) ==
    PickEmbedKey(node.target.name, node.relation.fields[1],
                 {s.key : s \in siblings}, Names(parent.columns))

\* insertPath, one segment of it.  The forest is the sequence of its nodes, a
\* node the list of the relations that lead to it from the root.
InsertSegment(resources, spec, selector) ==
    LET found == ResolveSegment(resources, spec.parent, selector)
        node == CHOOSE n \in found : TRUE
        at == Append(spec.at, <<node.kind, node.target.qualifiedName, node.relation.fields>>)
        siblings == {n \in Range(spec.nodes) : Front(n.at) = spec.at}
        key == ChooseKey(node, siblings, spec.parent)
        Rejected == [spec EXCEPT !.ok = FALSE]
        moved == [spec EXCEPT !.parent = node.target, !.at = at]
    IN IF ~spec.ok \/ found = {} THEN Rejected
       ELSE IF \E n \in siblings : n.at = at THEN moved
       ELSE IF Len(spec.nodes) >= MaxEmbedRelations \/ key = NoKey THEN Rejected
       ELSE [moved EXCEPT !.nodes = Append(@, [at |-> at, key |-> key])]

\* insertPath: its segments from the root, if they are not too many.
InsertPath(resources, root, spec, path) ==
    LET Segment(s, selector) == InsertSegment(resources, s, selector)
    IN IF Len(path) > MaxEmbedDepth THEN [spec EXCEPT !.ok = FALSE]
       ELSE FoldLeft(Segment, [spec EXCEPT !.parent = root, !.at = <<>>], path)

\* resolveEmbedSpec
ResolveEmbedSpec(resources, root, paths) ==
    LET Path(spec, path) == InsertPath(resources, root, spec, path)
        spec == FoldLeft(Path, [ok |-> TRUE, nodes |-> <<>>, parent |-> root, at |-> <<>>], paths)
    IN [ok |-> spec.ok, nodes |-> spec.nodes]

-----------------------------------------------------------------------------
(* handler.ts: route. *)

Outcome(status, op, on) == [status |-> status, op |-> op, on |-> on]
Missing == Outcome("not_found", "", <<>>)
NotAllowed == Outcome("method_not_allowed", "", <<>>)

\* A request for a resource by name.
OnResource(resources, name, Handle(_)) ==
    LET found == Resolve(resources, name)
    IN IF found = {} THEN Missing ELSE Handle(CHOOSE r \in found : TRUE)

Done(resource, op) == Outcome("ok", op, resource.qualifiedName)
\* Whatever addresses a row needs a primary key.
Keyed(resource, op) ==
    IF resource.primaryKey = <<>> THEN Outcome("bad_request", "", <<>>) ELSE Done(resource, op)
\* requireWritable
Writable(resource, outcome) == IF resource.kind = "view" THEN NotAllowed ELSE outcome

OnCollection(resource, request) ==
    CASE request.method = "GET" ->
            IF request.options THEN Keyed(resource, "options") ELSE Done(resource, "list")
      [] request.method = "POST" -> Writable(resource, Done(resource, "create"))
      [] OTHER -> NotAllowed

OnItem(resource, request) ==
    CASE request.method = "GET" -> Keyed(resource, "get")
      [] request.method = "PATCH" -> Writable(resource, Keyed(resource, "update"))
      [] request.method = "DELETE" -> Writable(resource, Keyed(resource, "delete"))
      [] OTHER -> NotAllowed

Route(ctx, request) ==
    LET segments == request.segments
        resources == Resources(ctx)
        OneOf(method, outcome) == IF request.method = method THEN outcome ELSE NotAllowed
    IN CASE segments = <<>> -> OneOf("GET", Outcome("ok", "root", <<>>))
         [] Len(segments) = 2 /\ segments[1] = <<"rpc">> ->
              OneOf("POST", IF LookupFunction(ctx, segments[2]) = {} THEN Missing
                            ELSE Outcome("ok", "call", segments[2]))
         [] segments = <<<<"openapi", "json">>>> -> OneOf("GET", Outcome("ok", "document", <<>>))
         [] Len(segments) = 1 /\ segments # <<<<"openapi", "json">>>> ->
              OnResource(resources, segments[1], LAMBDA r : OnCollection(r, request))
         [] Len(segments) = 2 /\ segments[1] # <<"rpc">> ->
              OnResource(resources, segments[1], LAMBDA r : OnItem(r, request))
         [] OTHER -> Missing

-----------------------------------------------------------------------------
(* openapi.ts *)

Id == <<"{id}">>

\* Mutant: the bare name, whoever shares it.
BareSegment(resources, r) == r.name

\* segmentFor
SegmentFor(resources, r) ==
    IF {x \in resources : x.name = r.name} = {r} THEN r.name ELSE r.qualifiedName

\* Mutant: every foreign key can be selected.
NeverHidden(r, rel) == FALSE

\* A composite key can be selected by the table's name alone.
HiddenByName(r, rel) ==
    ~IsSingle(rel) /\ Len(SelectSeq(r.relations, LAMBDA x : x.table = rel.table)) > 1

\* embedHints: first the foreign keys of the table itself, in order.
ForwardHints(resources, r) ==
    LET known == {x.qualifiedName : x \in resources}
        Hint(hints, rel) ==
            LET key == PickEmbedKey(rel.table, rel.fields[1], {h.key : h \in Range(hints)},
                                    Names(r.columns))
            IN IF Target(rel) \notin known \/ HiddenByName(r, rel) \/ key = NoKey THEN hints
               ELSE Append(hints, [kind |-> "to-one", fields |-> rel.fields, key |-> key,
                                   target |-> Target(rel), name |-> rel.table])
    IN FoldLeft(Hint, <<>>, r.relations)

\* ... then the tables that refer to it, those with several keys left out.
EmbedHints(resources, r) ==
    LET reverse == {e \in ReverseRelations(resources, r.qualifiedName) : e.child.kind = "table"}
        forwardTables == {r.relations[i].table : i \in DOMAIN r.relations}
        Usable(e) == /\ \A other \in reverse : other.child.name = e.child.name => other = e
                     /\ e.child.name \notin forwardTables
        Hint(e, hints) ==
            LET key == PickEmbedKey(e.child.name, e.relation.fields[1],
                                    {h.key : h \in Range(hints)}, Names(r.columns))
            IN IF key = NoKey THEN hints
               ELSE Append(hints, [kind |-> "to-many", fields |-> e.relation.fields, key |-> key,
                                   target |-> e.child.qualifiedName, name |-> e.child.name])
    IN FoldSet(Hint, ForwardHints(resources, r), {e \in reverse : Usable(e)})

\* requestInputSchema: what a create body must carry.
RequiredOnCreate(table) ==
    {c.name : c \in {x \in Range(table.columns) : ~x.nullable /\ ~x.hasDefault}}

\* The bodies that the document allows, by what each field holds.
MatchesInputSchema(table, op, fields) ==
    /\ DOMAIN fields \subseteq Names(table.columns)
    /\ \A c \in Range(table.columns) :
          c.name \in DOMAIN fields => c.nullable \/ fields[c.name] # "null"
    /\ op = "create" => RequiredOnCreate(table) \subseteq DOMAIN fields
    /\ op = "update" => DOMAIN fields # {}

\* resourcePaths: the answers documented for an operation on one row.
Responses(op) ==
    {"forbidden", IF op = "create" THEN "created" ELSE "ok"}
      \cup (IF op = "create" THEN {} ELSE {"not_found"})
      \cup (IF op = "get" THEN {} ELSE {"conflict"})
      \cup (IF op \in {"create", "update"} THEN {"bad_request"} ELSE {})

\* resourcePaths: the operations documented for a resource.
Documented(method, segments, options, op, on) ==
    [request |-> [method |-> method, segments |-> segments, options |-> options],
     op |-> op, on |-> on]
ResourcePaths(resources, r) ==
    LET segment == SegmentFor(resources, r)
        collection == <<segment>>
        item == <<segment, Id>>
        Op(method, path, options, op) == Documented(method, path, options, op, r.qualifiedName)
        keyed == r.primaryKey # <<>>
        writable == r.kind = "table"
    IN {Op("GET", collection, FALSE, "list")}
         \cup (IF keyed THEN {Op("GET", collection, TRUE, "options"), Op("GET", item, FALSE, "get")}
               ELSE {})
         \cup (IF writable THEN {Op("POST", collection, FALSE, "create")} ELSE {})
         \cup (IF keyed /\ writable
               THEN {Op("PATCH", item, FALSE, "update"), Op("DELETE", item, FALSE, "delete")}
               ELSE {})

\* rpcPaths
RpcPaths(fn) ==
    {Documented("POST", <<<<"rpc">>, fn.qualifiedName>>, FALSE, "call", fn.qualifiedName)}

\* buildOpenApiDocument
Paths(ctx) ==
    LET resources == Resources(ctx)
    IN UNION ({ResourcePaths(resources, r) : r \in resources}
                \cup {RpcPaths(fn) : fn \in ctx.functions})
=============================================================================
