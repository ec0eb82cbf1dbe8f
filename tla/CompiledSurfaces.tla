--------------------------- MODULE CompiledSurfaces ---------------------------
(***************************************************************************)
(* A database compiled once, and everything that is then generated from    *)
(* the compiled schema: calls of functions, requests to the REST API and   *)
(* its document, embedded relations, values of columns, the forms of the   *)
(* Admin UI, and the answers of the MCP tools.  Each is compared with what *)
(* PostgreSQL would have said, with what another surface says, or with     *)
(* what was asked for.                                                     *)
(*                                                                         *)
(* A catalog is [db, opts, rpc, ask]: a database, the options of the       *)
(* introspection, the operator's lists of allowed functions, and the kinds *)
(* of requests that are made of this one (a bound on the state space).     *)
(***************************************************************************)
EXTENDS McpTools, ListPage, ActionForm, RowPages

CONSTANTS Catalogs, Methods, Values, Texts,
          Urls,            \* the URLs under which a list is opened
          Totals,          \* how many rows a list may have
          InTexts,         \* what may stand between the parentheses of in.(...)
          MaxEmbedsAsked,  \* bound: paths in one ?embed=
          MaxPathAsked     \* bound: segments in one of these paths

\* Of a catalog only this matters to the proofs, and it is so in PostgreSQL: the
\* functions are finitely many, each in a schema, none without a name; two of
\* one name in one schema differ in their arguments; a relation is in a schema,
\* and its columns have different names; a foreign key names as many columns as
\* it refers to, in a table of the database; what is a list is one; and the
\* arguments and the result of a function are as IsSignature says: no two inputs
\* have one name, and of the chain of types only the last is no domain.
IsList(x) == x \in Seq(Range(x))
IsIdentifier(name) == IsList(name) /\ name # <<>>
ArgumentTypes(f) == [i \in DOMAIN f.args |-> <<f.args[i].mode, f.args[i].type>>]
IsSignature(f) ==
    /\ IsList(f.args) /\ f.ndef \in Nat /\ <<>> \notin Names(f.args)
    /\ \A i, j \in DOMAIN Inputs(f) :
          Inputs(f)[i].name = Inputs(f)[j].name => i = j \/ Inputs(f)[i].name = Empty
    /\ f.returns.void \in BOOLEAN /\ f.returns.set \in BOOLEAN
    /\ IsList(f.returns.attributes) /\ <<>> \notin Range(f.returns.attributes)
    /\ IsList(f.returns.types) /\ f.returns.types # <<>>
    /\ \A i \in DOMAIN f.returns.types : f.returns.types[i] = "d" <=> i < Len(f.returns.types)
ASSUME CatalogsAssumption ==
    \A c \in Catalogs :
        /\ {"schemas", "privilegeRole"} \subseteq DOMAIN c.opts /\ IsFiniteSet(c.db.functions)
        /\ \A f \in c.db.functions :
             /\ IsIdentifier(f.schema) /\ IsIdentifier(f.name) /\ f.schema \in DOMAIN c.db.schemas
             /\ IsList(f.comment) /\ IsList(f.path) /\ IsSignature(f)
        /\ \A f, g \in c.db.functions :
             f # g /\ f.schema = g.schema /\ f.name = g.name => ArgumentTypes(f) # ArgumentTypes(g)
        /\ \A r \in c.db.relations :
             /\ r.schema \in DOMAIN c.db.schemas /\ IsList(r.foreignKeys) /\ IsList(r.comment)
             /\ \A i, j \in DOMAIN r.columns : r.columns[i].name = r.columns[j].name => i = j
             /\ \A fk \in Range(r.foreignKeys) :
                  /\ IsList(fk.columns) /\ IsList(fk.refColumns) /\ Len(fk.columns) = Len(fk.refColumns)
                  /\ \E x \in c.db.relations : /\ x.kind \in {"table", "partitioned"}
                                               /\ x.schema = fk.refSchema /\ x.name = fk.refName

\* What a relation is made of has names, and of the types of a column only the
\* last, which is no domain, has the name of a text.
IsTyped(column) ==
    /\ IsList(column.types) /\ column.types # <<>>
    /\ \A i \in DOMAIN column.types :
         /\ column.types[i].array \in BOOLEAN
         /\ column.types[i].base \in TextTypes => i = Len(column.types)
ASSUME RelationsAssumption ==
    \A c \in Catalogs : \A r \in c.db.relations :
        /\ IsIdentifier(r.schema) /\ IsIdentifier(r.name) /\ IsList(r.primaryKey) /\ IsList(r.columns)
        /\ \A column \in Range(r.columns) : IsIdentifier(column.name) /\ IsTyped(column)

\* A URL, as ListPage describes it.
ASSUME UrlsAssumption ==
    /\ \A url \in Urls :
         /\ IsList(url.q) /\ IsList(url.sort)
         /\ {url.page, url.pageSize} \subseteq Seq(Nat) /\ {Len(url.page), Len(url.pageSize)} \subseteq 0..1
    /\ Totals \subseteq Nat

VARIABLES catalog, phase, ctx, answer
vars == <<catalog, phase, ctx, answer>>

db == catalog.db
opts == catalog.opts
resources == Resources(ctx)

NoContext == [tables |-> {}, views |-> {}, concepts |-> {}, functions |-> {}, issues |-> {}]
NoAnswer == [kind |-> "none"]

Init ==
    /\ catalog \in Catalogs
    /\ phase = "start" /\ ctx = NoContext /\ answer = NoAnswer

\* introspect() and buildSchemaContext(); a privilege role that does not
\* exist makes the introspection fail.
Compile ==
    /\ phase = "start"
    /\ IF PrivilegeRoleMissing(db, opts)
       THEN phase' = "failed" /\ UNCHANGED ctx
       ELSE /\ phase' = "compiled"
            /\ ctx' = BuildSchemaContext(Introspect(db, opts), catalog.rpc, opts)
    /\ UNCHANGED <<catalog, answer>>

\* One request, of a schema that is compiled.
Asks(kind) == phase = "compiled" /\ answer = NoAnswer /\ kind \in catalog.ask
Answers(kind, question, result) ==
    /\ answer' = [kind |-> kind, question |-> question, result |-> result]
    /\ UNCHANGED <<catalog, phase, ctx>>

ArgumentNames == UNION {Names(f.args) : f \in db.functions} \ {Empty}
Call ==
    /\ Asks("call")
    /\ \E role \in DOMAIN db.memberOf, name \in {Flat(f) : f \in db.functions},
          supplied \in SUBSET ArgumentNames,
          allow \in {[listed |-> FALSE, names |-> {}], [listed |-> TRUE, names |-> {}]} :
            Answers("call", [role |-> role, name |-> name, supplied |-> supplied],
                    CallFunction(db, ctx, role, name, supplied, allow))

\* The page of a function, as it is left and sent.
Act ==
    /\ Asks("act")
    /\ \E f \in db.functions, role \in DOMAIN db.memberOf, adapter \in Adapters, script \in BOOLEAN :
         \E deeds \in [Names(Inputs(f)) -> {"left", "filled", "cleared"}] :
            Answers("act", [f |-> f, adapter |-> adapter, deeds |-> deeds, script |-> script],
                    RunAction(db, ctx, adapter, role, Flat(f), deeds, script))

AskedNames ==
    UNION {{Flat(r), r.name} : r \in db.relations} \cup {Flat(f) : f \in db.functions}
Request ==
    /\ Asks("request")
    /\ \E method \in Methods, options \in BOOLEAN, name \in AskedNames :
         \E segments \in {<<>>, <<<<"openapi", "json">>>>, <<name>>, <<name, Id>>,
                          <<<<"rpc">>, name>>, <<name, Id, Id>>} :
            LET request == [method |-> method, segments |-> segments, options |-> options]
            IN Answers("request", request, Route(ctx, request))

\* A request for one row.
Body(form, fields) == [form |-> form, fields |-> fields]
Bodies(r) ==
    {Body(form, <<>>) : form \in {"absent", "too_large", "other_media", "garbled", "no_object"}}
      \cup {Body("object", fields) :
              fields \in UNION {[names -> {"value", "null"}] : names \in SUBSET Names(r.columns)}}
      \cup {Body("object", <<"unknown">> :> "value")}
Events == {"none", "gone", "vetoed"} \cup Broken
Write ==
    /\ Asks("write")
    /\ \E r \in db.relations, role \in DOMAIN db.memberOf, method \in Methods :
         \E segments \in {<<r.name, Id>>} \cup (IF method = "GET" THEN {} ELSE {<<r.name>>}),
            body \in Bodies(r) :
         \E event \in IF body.form \in {"absent", "object"} THEN Events ELSE {"none"} :
            LET request == [role |-> role, method |-> method, segments |-> segments,
                            options |-> FALSE, body |-> body, event |-> event]
            IN Answers("write", request, Dispatch(db, ctx, request))

\* Selectors worth trying: names of tables and columns of foreign keys.
Selectors ==
    {r.name : r \in db.relations}
      \cup UNION {UNION {Range(fk.columns) : fk \in Range(r.foreignKeys)} : r \in db.relations}
Embed ==
    /\ Asks("embed")
    /\ \E root \in resources :
         \E paths \in SeqOf(SeqOf(Selectors, MaxPathAsked) \ {<<>>}, MaxEmbedsAsked) :
            Answers("embed", [root |-> root, paths |-> paths],
                    ResolveEmbedSpec(resources, root, paths))

Value ==
    /\ Asks("value")
    /\ \E r \in resources : \E i \in DOMAIN r.columns :
         \E use \in Uses, value \in Values :
            Answers("value", [resource |-> r.qualifiedName, column |-> r.columns[i].name,
                              use |-> use, value |-> value],
                    Accepts(r.columns[i], use, value))

\* The texts in a column, which has a number or not; keys of the rows of a
\* table; and its rows, each of whose references is to a row.
TextsOf(column) == Texts[IsNumber(column)]
Keys(t) ==
    {key \in [DOMAIN t.primaryKey -> UNION Range(Texts)] :
       \A i \in DOMAIN key : \A c \in Range(t.columns) :
          c.name = t.primaryKey[i] => key[i] \in TextsOf(c)}
Rows(t) ==
    {row \in [Names(t.columns) -> {NULL} \cup UNION Range(Texts)] :
       \A c \in Range(t.columns) :
          row[c.name] \in TextsOf(c) \cup (IF c.nullable THEN {NULL} ELSE {})}

\* What a person does in the form of t: nothing, or something to one picker.
Deeds(t, mode) ==
    LET configs == RelationFieldConfigs(ctx, t)
        KeysOf(i) == Keys(CHOOSE x \in ctx.tables : x.qualifiedName = configs[i].resource)
        Deed(kind, i, key) == [kind |-> kind, picker |-> i, key |-> key]
    IN {Deed("none", 0, <<>>)}
         \cup UNION {{Deed("pick", i, key) : key \in KeysOf(i)}
                        \cup {Deed(kind, i, CHOOSE k \in KeysOf(i) : TRUE) : kind \in {"none", "clear"}} :
                        i \in Rendered(Form(ctx, t, mode), configs)}
Edit ==
    /\ Asks("edit")
    /\ \E t \in {x \in ctx.tables : x.relations # <<>>}, mode \in {"create", "update"} :
         \E deed \in Deeds(t, mode), adapter \in Adapters, script \in BOOLEAN,
            row \in IF mode = "update" THEN Rows(t) ELSE {CHOOSE x \in Rows(t) : TRUE} :
            LET act == deed @@ [adapter |-> adapter, mode |-> mode, script |-> script, row |-> row]
            IN /\ \A c \in Controls(ctx, t, act) : c.possible
               /\ Answers("edit", [table |-> t.qualifiedName, act |-> act], Submit(ctx, t, act))

\* A row created, changed or deleted in the Admin UI.  What is typed into the
\* form of a new row is a text, unless the input is left as it was; a page of a
\* row is opened by its link, and links with a comma are left to Edit (a bound).
PageIsOpen(t, r, q) ==
    IF q.op = "create"
    THEN \A f \in DOMAIN q.row : q.row[f] = NULL => Default(Form(ctx, t, q.op)[f]) = NULL
    ELSE /\ t.primaryKey # <<>> /\ Followed(q.row, t.primaryKey) # <<>>
         /\ Opens(db, ctx, q.adapter, q.role, r)
         /\ q.op = "delete" => ~q.script
Submission(t, q) ==
    IF q.op = "delete" THEN [status |-> "none"]
    ELSE Submit(ctx, t, [adapter |-> q.adapter, mode |-> q.op, script |-> q.script, row |-> q.row,
                         kind |-> "none", picker |-> 0, key |-> <<>>])
Save ==
    /\ Asks("save")
    /\ \E t \in ctx.tables, r \in db.relations :
         \E question \in [table : {t.qualifiedName}, role : DOMAIN db.memberOf, adapter : Adapters,
                           op : {"create", "update", "delete"}, event : Events \cup {"lost"},
                           script : BOOLEAN, row : {x \in Rows(t) : <<",">> \notin Range(x)}] :
            /\ Flat(r) = t.qualifiedName
            /\ PageIsOpen(t, r, question)
            /\ Answers("save", question,
                       PageAfter(db, ctx, r, t, question, Submission(t, question)))

\* A list as it is opened: what is run, and where its links lead.
Browse ==
    /\ Asks("browse")
    /\ \E r \in resources, adapter \in Adapters, url \in Urls, total \in Totals :
          LET params == ParseListParams(url)
          IN Answers("browse", [resource |-> r, adapter |-> adapter, url |-> url, total |-> total],
                     [run |-> List(adapter, r, url, total),
                      prev |-> PrevLink(params), next |-> NextLink(params, total),
                      sorts |-> [f \in Range(DisplayColumns(ctx, r)) |-> BuildSortHref(params, Spelled(f))]])

InList ==
    /\ Asks("in")
    /\ \E text \in InTexts : Answers("in", text, SplitInList(text))

Describe ==
    /\ Asks("describe")
    /\ \E r \in db.relations :
         \/ Answers("table", Flat(r), DescribeTable(ctx, Flat(r)))
         \/ Answers("view", Flat(r), DescribeView(ctx, Flat(r)))
         \/ Answers("concept", r.name, GetConceptContext(ctx, r.name))
         \/ Answers("list", r.schema, ListTables(ctx, r.schema, opts))

Next == Compile \/ Call \/ Act \/ Request \/ Write \/ Embed \/ Value \/ Edit \/ Save \/ Browse \/ InList \/ Describe
Spec == Init /\ [][Next]_vars

-----------------------------------------------------------------------------
(* Properties. *)

Compiled == phase = "compiled" /\ answer = NoAnswer
Answered(kind) == answer.kind = kind

RelationsNamed(qualifiedName) == {r \in db.relations : Flat(r) = qualifiedName}
\* Names with dots can make two relations of one name.
NamesDiffer == \A r \in db.relations : RelationsNamed(Flat(r)) = {r}
\* The segments of a path that the router takes for those of a relation, which
\* is not the one of a qualified name.
Addressable(segments) ==
    /\ segments[1] # <<"openapi", "json">> /\ RelationsNamed(segments[1]) = {}
    /\ Len(segments) = 2 => segments[1] # <<"rpc">>
Definitions(qualifiedName) == {f \in db.functions : Flat(f) = qualifiedName}
Exposed == {fn.qualifiedName : fn \in ctx.functions}

\* What makes a function callable by others: its author tagged it; if it is
\* SECURITY DEFINER, the operator listed it and nobody but its owner can put
\* objects on its search path; if PUBLIC may execute it, its author or the
\* operator says so (decideAndBuild).
Authorized(f) ==
    LET tag == ParseCommentTags(f.comment).expose
    IN /\ tag # "none"
       /\ f.security = "definer" => Flat(f) \in catalog.rpc.allowDefiner /\ ~Hijackable(db, f)
       /\ PUBLIC \in f.execute => Flat(f) \in catalog.rpc.allowPublicExecute \/ tag = "rpc-public"
ExposedAreAuthorized ==
    Compiled => \A q \in Exposed : \E f \in Definitions(q) : Authorized(f)

\* Exposed functions are authorized, each is the only one of its name, and its
\* tags stand in its comment; a tagged function that is not exposed is
\* reported (buildFunctionContexts).
ExposureIsAuthorized ==
    /\ ExposedAreAuthorized
    /\ Compiled =>
         /\ \A q \in Exposed : \E f \in Definitions(q) :
              /\ Definitions(q) = {f} /\ Exposes(f.comment)
              /\ PUBLIC \in f.execute =>
                   q \in catalog.rpc.allowPublicExecute \/ ExposesToPublic(f.comment)
         /\ \A f \in db.functions :
              f.schema \in opts.schemas /\ Exposes(f.comment) => Flat(f) \in Exposed \cup ctx.issues

NumberTypes == {"int2", "int4", "int8", "numeric", "float4", "float8"}

\* The form of a function sends what its user filled in, and of the rest only
\* the arguments without a DEFAULT that have a value of their own: 0, or a box
\* that is not ticked; so that PostgreSQL never finds an argument missing, and
\* applies its DEFAULT to what is blank.  It is not sent only if an argument
\* without a DEFAULT is blank, or nothing could be called (buildActionForm).
\* Left out: with JavaScript, a number with a DEFAULT that is filled in and
\* emptied again is sent as 0, and a box that was ticked and cleared as false.
ActionsAreFaithful ==
    Answered("act") =>
      LET q == answer.question
          result == answer.result
          inputs == Inputs(q.f)
          sent == DOMAIN result.sent
          Retracted(i) == q.script /\ q.deeds[inputs[i].name] = "cleared"
                            /\ inputs[i].type \in NumberTypes \cup {"bool"}
          Blanked(i) == ~HasDefault(q.f, i) /\ q.deeds[inputs[i].name] # "filled"
      IN /\ result.submitted =>
              /\ result.answer.status # "bad_request"
              /\ \A i \in DOMAIN inputs :
                    LET name == inputs[i].name
                        filled == q.deeds[name] = "filled"
                    IN /\ filled <=> name \in sent /\ result.sent[name] = "filled"
                       /\ name \in sent => result.sent[name] \notin {"", "null"}
                       /\ name \in sent <=> filled \/ ~HasDefault(q.f, i) \/ Retracted(i)
         /\ ~result.submitted =>
              \/ q.adapter = "postgrest" \/ Flat(q.f) \notin Exposed
              \/ \E i \in DOMAIN inputs : Blanked(i) /\ inputs[i].type # "bool"

\* A body that is documented for an operation on a row of r.
Documents(c, r, op, body) ==
    /\ body.form \in {"absent", "object"}
    /\ op \in {"create", "update"} =>
          \E t \in c.tables : t.qualifiedName = Flat(r) /\ body.form = "object"
                               /\ MatchesInputSchema(t, op, body.fields)

\* Who, by what is told of r, may do it with these fields and have the row back.
Permits(d, o, r, told, op, role, fields) ==
    LET cmd == Command[op]
        writes == op \in {"create", "update"}
        Allowed(c) == cmd \in c.privileges.may
    IN \/ role \in d.superusers
       \/ /\ role = o.privilegeRole /\ told.found
          /\ "select" \in told.privileges.may
          /\ writes => \A c \in Range(told.columns) : c.name \in fields => Allowed(c)
          /\ writes /\ fields = {} => \E c \in Range(told.columns) : Allowed(c)
          /\ ~writes => cmd \in told.privileges.may
          /\ \A x \in {"select", cmd} : ~RlsRefuses(d, role, r, x)

\* What is answered to a request q for operation op on a row of r, when both are
\* documented.
RowIsFaithful(d, o, c, r, op, q, result) ==
    LET writes == op \in {"create", "update"}
        fields == DOMAIN q.body.fields
        may == Permits(d, o, r, DescribeTable(c, Flat(r)), op, q.role, fields)
        always == writes /\ \E x \in Range(r.columns) : x.always /\ x.name \in fields
        done == {"ok", "created"}
        unread == q.body.form \in {"too_large", "other_media", "garbled"}
    IN /\ result.row => result.status \in done /\ ~unread /\ (writes => q.body.form = "object")
       /\ result.status = "conflict" => q.event \in {"23505", "23503"}
       /\ result.status \in done => result.row \/ q.event = "vetoed"
       /\ \/ result.status \in Responses(op) \/ unread
          \/ result.status = "internal" /\ always
          \/ result.status = "bad_request" /\ op = "delete" /\ q.event = "23514"
       /\ Documents(c, r, op, q.body) /\ may /\ ~always =>
            /\ q.event = "none" => result.row
            /\ q.event = "gone" /\ op # "create" => result.status = "not_found"
            /\ q.event \in {"23505", "23503"} /\ op # "get" => result.status = "conflict"
            /\ q.event = "42501" /\ op # "get" => result.status = "forbidden"
            /\ result.status # "internal"

\* A request that the document allows does what it is documented to do, unless
\* something that no document could know of comes in between: whoever may, by
\* describe_table, write each column of the body and read the table, and whom
\* row-level security does not deny the command, is answered the row that was
\* written.  What was not done is never answered as done, what was is answered
\* with its row, and the answer is one of those documented.
\* Left out: columns GENERATED ALWAYS, which are documented like any other and
\* are an internal error; a row that a trigger drops, after which a create
\* answers 201 and no row; the bodies refused before they are routed; a
\* delete that breaks the CHECK of a table which refers to the row; and names
\* that the router takes for something else, or that are not of one relation.
WritesAreFaithful ==
    Answered("write") /\ NamesDiffer /\ Addressable(answer.question.segments) =>
      LET q == answer.question
          result == answer.result
          routes == {d \in Paths(ctx) : d.request.method = q.method
                       /\ d.request.segments = q.segments /\ ~d.request.options}
          documented == CHOOSE d \in routes : TRUE
          r == CHOOSE x \in db.relations : Flat(x) = documented.on
      IN IF routes = {}
         THEN result.status \notin {"ok", "created", "internal", "forbidden"} /\ ~result.row
         ELSE RowIsFaithful(db, opts, ctx, r, documented.op, q, result)

\* A call runs the one function it names, and only for a role that may execute
\* it; it is refused as malformed exactly when PostgreSQL would find no
\* function for the arguments; and the answer has the shape that is documented,
\* made of what PostgreSQL returned (buildRpcCall, shapeRpcResult).
\* Left out: the columns of a result whose only column has no name, or whose type
\* is a domain over a domain, of which the introspection sees the outer one only.
CallsAreFaithful ==
  /\ ActionsAreFaithful
  /\ WritesAreFaithful
  /\ Answered("call") =>
      LET q == answer.question.name
          result == answer.result
          fn == CHOOSE x \in ctx.functions : x.qualifiedName = q
          callees == {f \in Definitions(q) :
                        Callees(db, f.schema, f.name, answer.question.supplied) = {f}}
          unnamed == Len(fn.returns.columns) = 1 /\ fn.returns.columns[1] = Empty
      IN /\ q \notin Exposed => result = NotFound
         /\ result.status = "bad_request" => callees = {}
         /\ result.status \in {"ok", "no_content", "forbidden"} =>
              \E f \in callees :
                /\ Exposes(f.comment)
                /\ MayExecute(db, answer.question.role, f) <=> result.status # "forbidden"
                /\ result.status = "ok" =>
                     /\ result.many = f.returns.set
                     /\ NullValue \notin Range(result.keys)
                     /\ fn.returns.columns # <<>> /\ ~unnamed /\ Len(f.returns.types) < 3 =>
                           result.keys = fn.returns.columns
                /\ result.status = "no_content" <=> f.returns.void /\ result.status # "forbidden"

\* The joins suggested for a concept are the foreign keys between tables that
\* its view v reads and that are shown, all of them and with their conditions;
\* the partitioned tables among them, which the introspection does not see,
\* are left out.
JoinsAreReal(d, o, tables, v, told) ==
    LET read == {r \in d.relations : Flat(r) \in v.reads /\ r.kind # "partitioned"}
        shown == {r \in read : \E t \in tables : t.qualifiedName = Flat(r)}
        Suggested(r, fk) == [from |-> Flat(r), to |-> fk.refSchema \o fk.refName,
                             on |-> <<fk.columns, fk.refColumns>>]
    IN /\ told.relatedTables = {Flat(r) : r \in read}
       /\ told.joins =
            UNION {{Suggested(r, fk) :
                      fk \in {k \in Range(r.foreignKeys) :
                                \E t \in read : /\ t.schema = k.refSchema /\ t.name = k.refName
                                                /\ t.schema \in o.schemas
                                                /\ ShouldRetain(t, o)}} : r \in shown}

\* What is told of a table r: whether it is there, the privileges of the role,
\* the commands that row-level security refuses to whomever it applies to, and
\* the column each foreign key column refers to.
TableIsDescribed(d, o, r, told) ==
    LET role == o.privilegeRole
        readable == role = NoRole \/ May(d, role, r, "select")
        Refers(column, ref) ==
            \E fk \in Range(r.foreignKeys) : \E i \in DOMAIN fk.columns :
                /\ fk.columns[i] = column
                /\ ref = <<fk.refSchema \o fk.refName, fk.refColumns[i]>>
    IN /\ told.found => r.kind \in {"table", "partitioned"} /\ r.schema \in o.schemas
       /\ r.kind \in {"table", "partitioned"} /\ r.schema \in o.schemas /\ ShouldRetain(r, o) =>
            (told.found <=> readable \/ o.privilegeDisplay = "annotate")
       /\ told.found =>
            /\ role # NoRole =>
                  told.privileges.may = {c \in Range(Commands) : May(d, role, r, c)}
            /\ \A c \in Range(Commands), user \in DOMAIN d.memberOf :
                  /\ RlsApplies(d, user, r)
                  /\ c \in told.rowSecurity.deniedCommands \/ ~told.rowSecurity.hasPolicies
                  => RlsRefuses(d, user, r, c)
            /\ \A i \in DOMAIN r.columns :
                  LET column == told.columns[i] IN
                  /\ column.name = r.columns[i].name
                  /\ role # NoRole => column.privileges.may =
                        {c \in {"insert", "update"} : MayWrite(d, role, r, r.columns[i], c)}
                  /\ column.references # <<>> => Refers(column.name, column.references)

\* What describe_table, describe_view and get_concept_context say is true of
\* PostgreSQL.  A table is hidden exactly when the role cannot read it and
\* hiding is asked for.  Left out: names with dots that are those of two
\* relations, and views of one name in two schemas, which are one concept.
AdviceIsTrue ==
    /\ Answered("concept") /\ answer.result.found /\ NamesDiffer =>
          \A v \in db.relations :
             {x \in db.relations : x.name = answer.question
                                  /\ \E w \in ctx.views : w.qualifiedName = Flat(x)} = {v} =>
                JoinsAreReal(db, opts, ctx.tables, v, answer.result)
    /\ Answered("view") /\ answer.result.found /\ opts.privilegeRole # NoRole =>
          \A v \in db.relations : RelationsNamed(answer.question) = {v} =>
             answer.result.privileges.may =
                 {c \in Range(Commands) : May(db, opts.privilegeRole, v, c)}
    /\ Answered("table") =>
          \A r \in db.relations : RelationsNamed(answer.question) = {r} =>
             TableIsDescribed(db, opts, r, answer.result)

\* Whether PostgreSQL runs the query with the value in it.  A value that is
\* compared has the type of the column without its precision, a value that is
\* stored has that too.  Only one level of a DOMAIN is known to the compiler.
PostgresTakes(column, use, value) ==
    LET type == BaseType(column)
        taking == IF use = "body" THEN type ELSE [type EXCEPT !.mods = <<>>]
    IN CASE use = "is true" -> type.base = "boolean" /\ ~type.array
         [] use = "like" -> type.base \in TextTypes /\ ~type.array
         [] use = "is null" -> TRUE
         [] OTHER -> IF IsEnum(db, column) THEN value.word \in Labels(db, column)
                     ELSE ~type.array => Takes(taking, value)

\* Compared with a column of numeric(p, s) that cannot hold it.
OutOfPrecision(column, use, value) ==
    /\ use \in {"eq", "key"} /\ BaseType(column).base = "numeric" /\ BaseType(column).mods # <<>>
    /\ ~Takes(BaseType(column), value)

\* What a list of values says: it is cut at commas into pieces that are either
\* without a comma and a quote in front, or quoted as a whole.  Of a run of
\* backslashes every other one escapes the next, and a last odd one a quote.
Slashes(t, i) ==   \* the backslashes right before i
    i - 1 - Max({0} \cup {j \in 1 .. i - 1 : t[j] # Backslash})
Escapes(t, i) ==
    t[i] = Backslash /\ Slashes(t, i) % 2 = 0 /\ i < Len(t) /\ t[i + 1] \in {Quote, Backslash}
Contents(piece) == SubSeq(piece, 2, Len(piece) - 1)
WellQuoted(piece) ==
    /\ Len(piece) >= 2 /\ piece[1] = Quote /\ piece[Len(piece)] = Quote
    /\ LET t == Append(Contents(piece), Quote)
       IN \A i \in DOMAIN t : t[i] = Quote => (Slashes(t, i) % 2 = 0 <=> i = Len(t))
Meant(piece) ==
    IF ~WellQuoted(piece) THEN piece
    ELSE LET t == Contents(piece) IN Selected(t, {i \in DOMAIN t : ~Escapes(t, i)})
Readings(text) ==
    {pieces \in {Cuts(text, at) : at \in SUBSET {i \in DOMAIN text : text[i] = ","}} :
       \A piece \in Range(pieces) :
          \/ WellQuoted(piece)
          \/ "," \notin Range(piece) /\ (piece = Blank \/ piece[1] # Quote)}

\* A value is refused with 400 exactly when PostgreSQL would refuse it; but
\* other spellings of what can be said otherwise are refused too, a CHECK is
\* left to PostgreSQL, and so are types other than the checked ones.  Against
\* "it must never reject a value PostgreSQL would accept" (query-builder.ts:454)
\* a filter or a key that a numeric(p, s) cannot hold is refused, which
\* PostgreSQL compares: that, and no more, is OutOfPrecision.  The name of an
\* enumerated type is unique: its labels are looked up by name alone
\* (findEnumValues).  A list of values is refused exactly when it is empty or
\* cannot be read, and can be read in one way only, which is how it is taken
\* (splitInList).
RefusalsAreDeserved ==
  /\ Answered("in") =>
      LET readings == Readings(answer.question)
      IN /\ answer.result.ok <=> answer.question # Blank /\ readings # {}
         /\ answer.result.ok =>
              readings = {CHOOSE r \in readings : TRUE}
                /\ \A r \in readings : answer.result.values = [k \in DOMAIN r |-> Meant(r[k])]
  /\ Answered("value") =>
      LET r == CHOOSE x \in db.relations : Flat(x) = answer.question.resource
          column == CHOOSE c \in Range(r.columns) : c.name = answer.question.column
          value == answer.question.value
          taken == PostgresTakes(column, answer.question.use, value)
          checked == IsEnum(db, column) => ~\E c \in Range(r.checks) : c.column = column.name
          unique == \A e \in db.enums : e.name = column.type => e.schema = column.typeSchema
          read == IsEnum(db, column) => column.typeSchema \in opts.schemas
      IN unique /\ Len(column.types) <= 2 =>
         /\ taken /\ value.form # "respelled" /\ value.word \notin Abbreviations =>
              (answer.result <=> ~OutOfPrecision(column, answer.question.use, value))
         /\ answer.result /\ read /\ checked /\ (value.tidy \/ value.form # "uuid") => taken

\* A form has no picker whose search would be refused, and what is found is
\* a key whose components the picker stores in their columns.
PickersCanSearch ==
    Compiled => \A t \in ctx.tables : \A c \in Range(RelationFieldConfigs(ctx, t)) :
      LET known == {x \in ctx.tables : x.qualifiedName = c.resource}
          unread == \E x \in known : \E n \in {c.label} \cup Range(x.primaryKey) :
                       ~PostgrestReads(Spelled(n))
          found(adapter) == SearchRelation(ctx, adapter, c.resource, c.label)
      IN \A adapter \in Adapters :
           \/ adapter = "postgrest" /\ unread
           \/ /\ found(adapter).ok
              /\ \E r \in Range(t.relations) :
                    /\ Target(r) = c.resource
                    /\ \A i \in DOMAIN found(adapter).id : \E j \in DOMAIN r.fields :
                          r.columns[j] = found(adapter).id[i] /\ r.fields[j] = c.keyFields[i]

\* What the Admin UI tells of a save is what happened: it redirects only if the
\* row is written, shows a message only if it is not, and gives the reason.  A
\* form whose role is the one of the introspection is never forbidden what it
\* offers.  What is typed is lost to an error page only if the answer is.
\* Left out: over PostgREST, a DELETE of no row is shown as done, and what is
\* forbidden or gone as values that were rejected; over the API, what holds a
\* column GENERATED ALWAYS and a row that a trigger drops end in an error page;
\* a form does not ask whether what is saved may be read.
PagesTellTheTruth ==
    Answered("save") =>
      LET q == answer.question
          page == answer.result.page
          done == answer.result.row
          r == CHOOSE x \in db.relations : Flat(x) = q.table
          t == CHOOSE x \in ctx.tables : x.qualifiedName = q.table
          api == q.adapter = "api"
          always == q.op # "delete" /\ \E c \in Range(r.columns) : c.always
          dropped == q.op = "create" /\ q.event = "vetoed"
          absent == q.event \in {"gone", "vetoed"}
          denied == q.event = "42501" \/ RlsRefuses(db, q.role, r, Command[q.op])
                      \/ RlsRefuses(db, q.role, r, "select")
          offered == /\ q.role = opts.privilegeRole
                     /\ \A c \in Range(r.columns) : MayWrite(db, q.role, r, c, "select")
                     /\ q.op = "create" => \E c \in Range(t.columns) : "insert" \in c.privileges.may
          withheld == \E c \in Range(r.columns) :
                        /\ c.notNull /\ ~MayBeOmitted(c)
                        /\ opts.privilegeRole # NoRole
                        /\ ~MayWrite(db, opts.privilegeRole, r, c, Command[q.op])
      IN /\ page = "done" => done \/ (~api /\ q.op = "delete")
         /\ done => page = "done" \/ (page = "error page" /\ q.event = "lost")
         /\ page = "conflict" => q.event \in {"23505", "23503"}
         /\ page = "no record" => absent \/ denied
         /\ page = "no permission" => denied \/ ~offered
         /\ page = "rejected" => \/ q.event = "23514" \/ (q.op = "create" /\ withheld)
                                 \/ ~api /\ (always \/ absent \/ denied \/ ~offered)
         /\ page = "error page" => \/ q.event = "lost" \/ (q.op = "delete" /\ ~MayDelete(t))
                                   \/ api /\ (always \/ dropped)

\* What a form saves is what its user asked for.  An edit reaches the row whose
\* link was followed.  Left alone it changes nothing; a pick stores the key of
\* the picked row in the columns that refer to it, component by component, and
\* touches no other; a clear leaves no reference.  On a create the columns of a
\* picker get what was picked, or nothing.  No column is sent that the role of
\* the introspection may not write.  An edit is refused only if the row
\* has no link (a comma in a composite key, an empty single one), there is
\* nothing to update, a picker of a NOT NULL column is without a choice, or the
\* form was sent without JavaScript and shows a part of the primary key in a
\* picker.
\* A number that no double holds is saved as the double next to it, the key of
\* the row included, unless a picker holds it; over PostgREST it is read as that
\* double, so that the row of such a key is not reached and a pick stores a
\* neighbour: only that is claimed of it.
\* An empty text is the forms' word for no value: where the submission or a
\* reference holds one, nothing is claimed; nor of a create without JavaScript
\* whose required picker was left alone, in which the browser chooses.
EditsDoWhatWasAsked ==
  /\ PickersCanSearch
  /\ PagesTellTheTruth
  /\ Answered("edit") =>
      LET act == answer.question.act
          result == answer.result
          t == CHOOSE x \in ctx.tables : x.qualifiedName = answer.question.table
          form == Form(ctx, t, act.mode)
          configs == RelationFieldConfigs(ctx, t)
          held == UNION {Range(configs[i].fields) : i \in Rendered(form, configs)}
          acted == IF act.kind = "none" THEN {} ELSE Range(configs[act.picker].fields)
          blank == Blank \in Range(act.key)
                     \/ \E f \in DOMAIN act.row : act.row[f] = Blank /\ (act.script => f \in held)
          After(f) == IF f \in DOMAIN result.payload THEN result.payload[f] ELSE act.row[f]
          remote == act.adapter = "postgrest"
          Near(value, text, rounded) == value \in {text} \cup (IF rounded THEN {ToDouble(text)} ELSE {})
          Same(f, value) == Near(value, act.row[f], form[f].number /\ (remote \/ ~form[f].picker))
          Stored == \A r \in Range(t.relations) : act.kind = "pick" /\ r.fields = configs[act.picker].fields
                      /\ Target(r) = configs[act.picker].resource =>
                        LET target == CHOOSE x \in ctx.tables : x.qualifiedName = Target(r)
                        IN \A i \in DOMAIN r.fields : \A j \in DOMAIN target.primaryKey :
                             target.primaryKey[j] = r.columns[i] =>
                                Near(After(r.fields[i]), act.key[j], remote)
      IN /\ result.status = "saved" /\ act.mode = "update" /\ ~blank =>
              /\ Len(result.at) = Len(t.primaryKey)
              /\ \A i \in DOMAIN result.at : Near(result.at[i], act.row[t.primaryKey[i]], remote)
              /\ \A f \in DOMAIN act.row \ acted : Same(f, After(f))
              /\ Stored
              /\ act.kind = "clear" => \E f \in acted : After(f) = NULL
         /\ result.status = "saved" /\ act.mode = "create" /\ Blank \notin Range(act.key) =>
              /\ Stored
              /\ \A i \in Rendered(form, configs) :
                    /\ act.kind # "pick" \/ act.picker # i
                    /\ act.script \/ ~Picker(form, configs[i], "create").required
                    => \A f \in Range(configs[i].fields) \cap DOMAIN result.payload :
                          result.payload[f] = NULL
         /\ result.status = "saved" /\ opts.privilegeRole # NoRole =>
              \A r \in {x \in db.relations : Flat(x) = t.qualifiedName} :
                \A c \in Range(r.columns) : c.name \in DOMAIN result.payload =>
                   MayWrite(db, opts.privilegeRole, r, c,
                            IF act.mode = "create" THEN "insert" ELSE "update")
         /\ result.status # "saved" /\ act.mode = "update" /\ ~blank =>
              \/ Len(t.primaryKey) > 1 /\ \E f \in Range(t.primaryKey) : "," \in Range(act.row[f])
              \/ Len(t.primaryKey) = 1 /\ act.row[t.primaryKey[1]] = Blank
              \/ \A f \in DOMAIN form : \/ form[f].readonly
                                        \/ form[f].supplied /\ act.row[f] = Blank
                                        \/ form[f].supplied /\ act.row[f] = NULL /\ ~act.script
              \/ ~act.script /\ \E f \in Range(t.primaryKey) : form[f].picker
              \/ \E i \in Rendered(form, configs) :
                    /\ Picker(form, configs[i], act.mode).required
                    /\ act.kind # "pick" \/ act.picker # i
                    /\ \E f \in Range(configs[i].fields) : act.row[f] = NULL

\* Whether PostgreSQL can match a column with ILIKE, and what the Admin UI takes
\* for a text although it cannot: arrays, types named like a text, and in views
\* uuids.
Likeable(c) == BaseType(c).base \in TextTypes /\ ~BaseType(c).array
TakenForText(r, c) ==
    \/ c.types[1].array \/ c.types[1].base \in Lookalikes
    \/ r.kind # "table" /\ c.types[1].base = "uuid"

\* A list fails only for a sort by what is no column, a page out of range and,
\* over PostgREST, for columns taken for texts and names with dots, commas or
\* colons.  It is ordered as asked and, over the API, totally if there is a
\* primary key.  The term is looked for as it stands in every plain text column.
RunsAsAsked(r, q, run) ==
    LET params == ParseListParams(q.url)
        sorted == {params.sort[i].field : i \in DOMAIN params.sort}
        searched == IF run.search = <<>> THEN {} ELSE run.search[1].fields
        ordered == {run.order[i].field : i \in DOMAIN run.order}
        api == q.adapter = "api"
        plain == {c \in Range(q.resource.columns) :
                    c.widget \in {"text", "textarea"} /\ c.dataType.base \in TextTypes}
    IN /\ ~run.ok =>
            \/ ~(sorted \subseteq SpelledNames(q.resource.columns))
            \/ run.offset > (IF api THEN MAX_SAFE_INTEGER ELSE q.total)
            \/ ~api /\ HasDot(r.schema)
            \/ ~api /\ \E text \in sorted \cup {Spelled(n) : n \in searched} : ~PostgrestReads(text)
       /\ run.ok =>
            /\ \A c \in Range(r.columns) : c.name \in searched =>
                  Likeable(c) \/ (~api /\ TakenForText(r, c))
            /\ IsPrefix(params.sort, run.order)
            /\ api => \A n \in Range(q.resource.primaryKey) : Spelled(n) \in ordered
            /\ Trim(q.url.q) # Blank =>
                  /\ \A c \in plain : c.dataType.array \/ c.name \in searched
                  /\ searched # {} /\ "*" \notin Range(q.url.q) /\ Trim(q.url.q) = q.url.q =>
                        run.search[1].pattern = <<"%">> \o q.url.q \o <<"%">>

\* The pages of a list join without gap or overlap: Next is offered exactly if
\* there are rows left and leads to the first of them, in the same order and
\* search, and Prev back (pages over the limit of the API excepted).
PagesJoin(q, run, links) ==
    LET api == q.adapter = "api"
        Run(url) == List(q.adapter, q.resource, url, q.total)
    IN run.ok /\ (api => ParseListParams(q.url).pageSize <= MAX_PAGE_SIZE) =>
         /\ links.next # <<>> <=> run.offset + run.limit < q.total
         /\ \A url \in Range(links.next) :
               Run(url) = [run EXCEPT !.offset = @ + run.limit,
                                      !.ok = api => run.offset + run.limit <= MAX_SAFE_INTEGER]
         /\ links.prev # <<>> <=> run.offset > 0
         /\ \A url \in Range(links.prev) : Run(url) = [run EXCEPT !.offset = @ - run.limit]

\* A column's header sorts by it, reverses it, keeps the search and the size,
\* and starts at the first page.  Not so if its name has a comma, a colon or a
\* space in front: buildSortHref writes them as they are, and other columns are
\* read, or none.
Linkable(text) ==
    text # Blank /\ {",", ":"} \cap Range(text) = {} /\ text[1] # " "
FirstReversed(order) == [order EXCEPT ![1].order = IF @ = "asc" THEN "desc" ELSE "asc"]
HeadersSort(q, run, sorts) ==
    LET sort == ParseListParams(q.url).sort
        Run(url) == List(q.adapter, q.resource, url, q.total)
    IN \A f \in DOMAIN sorts : Linkable(Spelled(f)) =>
         LET text == Spelled(f)
             sorted == Run(sorts[f])
             reversed == Run(BuildSortHref(ParseListParams(sorts[f]), text))
         IN /\ Head(sorted.order).field = text /\ sorted.offset = 0
            /\ run.ok /\ (q.adapter = "api" \/ PostgrestReads(text)) => sorted.ok
            /\ sorted.limit = run.limit /\ sorted.search = run.search
            /\ sort # <<>> /\ sort[1].field = text => sorted.order[1].order # sort[1].order
            /\ reversed = [sorted EXCEPT !.order = FirstReversed(@)]

\* A list shows what its URL asks for, its pages join, and its headers sort it.
ListsAreHonoured ==
    Answered("browse") =>
      LET q == answer.question
          result == answer.result
      IN /\ \E r \in RelationsNamed(q.resource.qualifiedName) : RunsAsAsked(r, q, result.run)
         /\ PagesJoin(q, result.run, result)
         /\ HeadersSort(q, result.run, result.sorts)

\* The OpenAPI document and the router agree: an operation in the document is
\* routed to the resource it is documented for, and an operation that a request
\* reaches is documented under some path.  A body that creates a row must hold a
\* column exactly when PostgreSQL would not supply it (requestInputSchema).
\* Left out: the item paths of a table named "rpc", which the RPC routes shadow
\* although they are documented, and so would "openapi.json" be; names with dots
\* that make a path name two resources; and identity columns, which are required.
DocumentMatchesRoutes ==
    /\ Compiled => \A d \in Paths(ctx) :
          LET segment == d.request.segments[1]
              named == {x \in resources : x.qualifiedName \in {segment, d.on}}
              shadowed == \/ Len(d.request.segments) = 2 /\ segment = <<"rpc">>
                          \/ segment = <<"openapi", "json">>
                          \/ \E x, y \in named : x # y
          IN d.op = "call" \/ ~shadowed => Route(ctx, d.request) = Outcome("ok", d.op, d.on)
    /\ Answered("request") /\ answer.result.status = "ok"
         /\ answer.result.op \notin {"root", "document"} =>
          \E d \in Paths(ctx) : d.op = answer.result.op /\ d.on = answer.result.on
    /\ Compiled => \A t \in ctx.tables : \A r \in db.relations :
          RelationsNamed(t.qualifiedName) = {r} =>
             \A column \in Range(r.columns) : ~column.identity =>
                (column.name \in RequiredOnCreate(t) <=> ~MayBeOmitted(column))

\* What a client sends in ?embed= to get the relation of a hint.
Selector(hint) ==
    IF hint.kind = "to-one" /\ Len(hint.fields) = 1 THEN hint.fields[1] ELSE hint.name

\* The hints whose selector is also the column of another foreign key.
Ambiguous(r, hint) ==
    \E rel \in Range(r.relations) :
        /\ rel.fields = <<Selector(hint)>>
        /\ hint.kind = "to-many" \/ rel.fields # hint.fields \/ Target(rel) # hint.target

\* What is embedded is the relation of each hint, in order.
IsOf(spec, hints) ==
    /\ spec.ok /\ Len(spec.nodes) = Len(hints)
    /\ \A i \in DOMAIN hints :
          spec.nodes[i].at = <<<<hints[i].kind, hints[i].target, hints[i].fields>>>>

\* One at a time, and all of them under the keys that are documented.
HintsAreHonoured(r, offered) ==
    LET clear == {h \in Range(offered) : ~Ambiguous(r, h)}
        together == {seq \in {offered} : Len(seq) <= MaxEmbedRelations /\ Range(seq) \subseteq clear}
        Given(spec, seq) ==
            /\ IsOf(spec, seq)
            /\ seq \in together => \A i \in DOMAIN seq : spec.nodes[i].key = seq[i].key
    IN \A seq \in {<<h>> : h \in clear} \cup together :
          Given(ResolveEmbedSpec(resources, r, [i \in DOMAIN seq |-> <<Selector(seq[i])>>]), seq)

\* In whatever is embedded, a key hides neither a column of its parent nor
\* another relation, and no relation is embedded twice in one parent
\* (insertPath and chooseKey, path after path).  Where the joined names of two
\* relations are equal, nothing is said of the columns of a nested parent.
EmbedsHideNothing ==
    Answered("embed") /\ answer.result.ok =>
        LET nodes == answer.result.nodes
            Parent(at) == IF Len(at) = 1 THEN answer.question.root
                          ELSE CHOOSE r \in resources : r.qualifiedName = at[Len(at) - 1][2]
        IN /\ Len(nodes) <= MaxEmbedRelations
           /\ \A i \in DOMAIN nodes :
                /\ Len(nodes[i].at) \in 1..MaxEmbedDepth
                /\ Len(nodes[i].at) = 1 \/ NamesDiffer =>
                      nodes[i].key \notin Names(Parent(nodes[i].at).columns)
                /\ \A j \in DOMAIN nodes \ {i} :
                     Front(nodes[i].at) = Front(nodes[j].at) =>
                         nodes[i].key # nodes[j].key /\ nodes[i].at # nodes[j].at

\* Every relation that the document offers for embedding can be embedded by its
\* selector, and all of them together, each under the key that is documented
\* (embedHints and resolveEmbedSpec, written twice with the same intent); and
\* what is embedded hides nothing.
EmbedsAreHonoured ==
    /\ Compiled => \A r \in resources : HintsAreHonoured(r, EmbedHints(resources, r))
    /\ EmbedsHideNothing

Comments ==
    {f.comment : f \in db.functions} \cup {r.comment : r \in db.relations}

\* Every line of a comment ends up where its author put it: in the note, rule
\* or example it continues, in the description, or as a directive; no line is
\* lost, moved or taken for part of a block that has ended (parseCommentTags).
EveryLineIsPlaced ==
    Compiled => \A lines \in Comments :
      LET c == ParseCommentTags(lines)
          Notes(kind) == LET blocks == Blocks(lines, kind)
                         IN [i \in DOMAIN blocks |-> NoteText(blocks[i])]
          examples == Blocks(lines, "example")
      IN /\ c.ai = Notes("ai") /\ c.policy = Notes("policy")
         /\ c.examples = [i \in DOMAIN examples |->
                            [description |-> Head(examples[i]).value,
                             sql |-> TrimEnd(Tail(examples[i]))]]
         /\ c.body = Description(lines)
         /\ c.expose # "none" <=> Exposes(lines)
         /\ c.pending = NotPending
=============================================================================
