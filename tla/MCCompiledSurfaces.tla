-------------------------- MODULE MCCompiledSurfaces --------------------------
(* Databases for CompiledSurfaces, in families: each varies what one part of *)
(* the compiler looks at and leaves the rest at the values of Base.          *)
EXTENDS CompiledSurfaces

Line(tag, value) == [indented |-> FALSE, tag |-> tag, value |-> value]
ExposedRpc == <<Line("expose", "rpc")>>
App == <<"app">>
Lab == <<"lab">>
None == [cmd \in Range(Commands) |-> {}]
All == [cmd \in Range(Commands) |-> {PUBLIC}]
NoRls == [enabled |-> FALSE, forced |-> FALSE, policies |-> {}]
ShowAll == [schemas |-> {App}, include |-> {}, exclude |-> {},
            privilegeRole |-> NoRole, privilegeDisplay |-> "filter"]
NoLists == [allowDefiner |-> {}, allowPublicExecute |-> {}]

Base ==
    [memberOf |-> [app |-> {"app"}, own |-> {"own"}, other |-> {"other", "app"}, pg |-> {"pg"}],
     superusers |-> {"pg"},
     schemas |-> (App :> [usage |-> {PUBLIC}, create |-> {"own"}])
                   @@ (Lab :> [usage |-> {"app"}, create |-> {}]),
     relations |-> {}, functions |-> {}, enums |-> {}]

-----------------------------------------------------------------------------
(* Functions. *)

Arg(name, mode) == [name |-> <<name>>, type |-> "text", mode |-> mode]
Scalar == [void |-> FALSE, set |-> FALSE, types |-> <<"b">>, attributes |-> <<>>]
F == [schema |-> App, name |-> <<"f">>, args |-> <<>>, ndef |-> 0, security |-> "invoker",
      owner |-> "own", execute |-> {"app"}, path |-> <<>>, returns |-> Scalar,
      comment |-> ExposedRpc]
Offer(functions, schemas, rpc) ==
    [db |-> [Base EXCEPT !.functions = functions], opts |-> [ShowAll EXCEPT !.schemas = schemas],
     rpc |-> rpc, ask |-> {"call"}]

At(schema) == [schema |-> schema, dynamic |-> FALSE]
Temp == At(<<"pg_temp">>)
User == [schema |-> <<"$user">>, dynamic |-> TRUE]
SearchPaths == {<<>>, <<At(App)>>, <<At(App), Temp>>, <<Temp, At(App)>>, <<Temp, At(App), Temp>>,
                <<User, Temp>>, <<At(<<"gone">>), Temp>>, <<At(Lab), At(App), Temp>>}
Tags == {<<>>, ExposedRpc, <<Line("expose", "rpc public")>>,
         <<Line("expose", "rpc public"), Line("expose", "rpc")>>,
         <<Line("expose", "rpc"), Line("expose", "everyone")>>}
Lists == [allowDefiner : {{}, {<<"app", "f">>}, {<<"f">>}, {<<"app", "f">>, <<"app", "">>}},
          allowPublicExecute : {{}, {<<"app", "f">>}}]

Security ==
    {[Offer({[F EXCEPT !.security = "definer", !.path = path, !.execute = execute,
                       !.comment = tag]}, {App}, rpc)
        EXCEPT !.db.schemas[App].create = create] :
        path \in SearchPaths, execute \in {{"app"}, {PUBLIC}}, rpc \in Lists,
        tag \in {ExposedRpc, <<Line("expose", "rpc public")>>},
        create \in {{}, {"own"}, {"other"}, {"pg"}, {PUBLIC}}}
      \cup {Offer({[F EXCEPT !.execute = execute, !.comment = tag]}, {App}, rpc) :
              execute \in {{}, {"app"}, {PUBLIC}}, tag \in Tags, rpc \in Lists}

\* Names that are the same once they are joined by a dot, and overloads.
Homonyms ==
    {F, [F EXCEPT !.args = <<Arg("x", "in")>>],
     [F EXCEPT !.args = <<[Arg("y", "in") EXCEPT !.type = "int8"]>>, !.comment = <<>>],
     [F EXCEPT !.name = <<"f", "g">>], [F EXCEPT !.schema = <<"app", "f">>, !.name = <<"g">>],
     [F EXCEPT !.schema = Lab], [F EXCEPT !.name = <<"h">>, !.comment = <<Line("arg", "z"),
                                                                        Line("expose", "rpc")>>]}
Overloads ==
    {[Offer(functions, schemas, NoLists)
        EXCEPT !.db.schemas = @ @@ (<<"app", "f">> :> [usage |-> {PUBLIC}, create |-> {}])] :
        functions \in UNION {kSubset(k, Homonyms) : k \in 1..3},
        schemas \in {{App}, {App, Lab, <<"app", "f">>}}}

In(name) == Arg(name, "in")
ArgumentLists ==
    {<<>>, <<In("a")>>, <<In("a"), In("b")>>, <<In("a"), Arg("b", "variadic")>>, <<In("")>>,
     <<[In("a") EXCEPT !.type = "anyelement"]>>, <<In("a"), Arg("o", "out")>>,
     <<Arg("", "out")>>, <<Arg("o", "out"), In("a"), Arg("c", "inout")>>,
     <<In("a"), Arg("o", "table")>>, <<Arg("o", "table"), Arg("p", "table")>>}
\* The types PostgreSQL gives a function, by its OUT arguments: none, one that
\* it returns, or a record of several.
ReturnTypes(args) ==
    LET outs == Len(Outputs([args |-> args]))
        Of(chains) == [void : {FALSE}, set : BOOLEAN, types : chains,
                       attributes : {<<<<"p">>, <<"q">>>>}]
    IN CASE outs = 0 -> Of({<<"b">>, <<"c">>, <<"d", "b">>, <<"d", "c">>, <<"d", "d", "b">>,
                            <<"d", "d", "c">>, <<"p">>})
                          \cup {[Scalar EXCEPT !.void = TRUE]}
         [] outs = 1 -> Of({<<"b">>, <<"c">>, <<"d", "b">>})
         [] OTHER -> Of({<<"p">>})
Shapes ==
    UNION {{Offer({[F EXCEPT !.args = args, !.returns = returns, !.ndef = ndef]}, {App}, NoLists) :
               returns \in ReturnTypes(args),
               ndef \in 0 .. Cardinality({i \in DOMAIN args : args[i].mode \in {"in", "inout"}})} :
               args \in ArgumentLists}

\* Forms of functions: arguments of each widget, with and without a DEFAULT.
Typeds == {[In(name) EXCEPT !.type = type] : name \in {"a", "b"}, type \in {"text", "int8", "bool"}}
Actions ==
    UNION {{[Offer({[F EXCEPT !.args = args, !.ndef = ndef, !.comment = tag]}, {App}, NoLists)
               EXCEPT !.ask = {"act"}] : ndef \in 0 .. Len(args), tag \in {ExposedRpc, <<>>}} :
              args \in {a \in SeqOf(Typeds, 2) : Cardinality(Names(a)) = Len(a)}}

-----------------------------------------------------------------------------
(* Relations. *)

Plain(base) == [base |-> base, array |-> FALSE, mods |-> <<>>]
Col(name) ==
    [name |-> <<name>>, notNull |-> FALSE, default |-> FALSE, identity |-> FALSE, always |-> FALSE,
     type |-> "text",
     types |-> <<Plain("text")>>, typeSchema |-> <<"pg_catalog">>, comment |-> <<>>, grants |-> None]
Key == [Col("id") EXCEPT !.notNull = TRUE, !.default = TRUE]
Table(name, columns) ==
    [schema |-> App, name |-> <<name>>, kind |-> "table", owner |-> "own", comment |-> <<>>,
     columns |-> <<Key>> \o columns, primaryKey |-> <<<<"id">>>>, unique |-> {},
     foreignKeys |-> <<>>, checks |-> <<>>, grants |-> All, rls |-> NoRls, reads |-> {}]
View(name, reads) ==
    [Table(name, <<Col("v")>>) EXCEPT !.kind = "view", !.reads = reads, !.primaryKey = <<>>]
Store(relations, options, ask) ==
    [db |-> [Base EXCEPT !.relations = relations], opts |-> options, rpc |-> NoLists, ask |-> ask]

\* Grants, and the options that evaluate them.
Grants ==
    {[Store({[Table("a", <<[Col("x") EXCEPT !.grants = [None EXCEPT !["insert"] = column]]>>)
                EXCEPT !.grants = [None EXCEPT !["select"] = select, !["insert"] = insert,
                                               !["delete"] = {"app"}]],
             View("w", {<<"app", "a">>})},
           [ShowAll EXCEPT !.privilegeRole = role, !.privilegeDisplay = display], {"describe"})
        EXCEPT !.db.schemas[App].usage = usage] :
        select \in {{}, {"app"}, {"other"}}, insert \in {{}, {"other"}}, column \in {{}, {"app"}},
        role \in {NoRole, "app", "other", "pg", "nobody"}, display \in {"filter", "annotate"},
        usage \in {{PUBLIC}, {"other"}}}

Policies ==
    [cmd : {"all", "select", "insert"}, permissive : BOOLEAN, roles : {{PUBLIC}, {"own"}}]
RowLevelSecurity ==
    {Store({[Table("a", <<>>) EXCEPT !.rls = [enabled |-> enabled, forced |-> forced,
                                              policies |-> policies]]}, ShowAll, {"describe"}) :
        enabled \in BOOLEAN, forced \in BOOLEAN,
        policies \in UNION {kSubset(k, Policies) : k \in 0..2}}

\* Foreign keys of book to author and series, of review to book.
Fk(columns, refName, refColumns) ==
    [columns |-> [i \in DOMAIN columns |-> <<columns[i]>>], refSchema |-> App,
     refName |-> <<refName>>, refColumns |-> [i \in DOMAIN refColumns |-> <<refColumns[i]>>]]
ToAuthor == Fk(<<"author_id">>, "author", <<"id">>)
OfBook ==
    {<<>>, <<ToAuthor>>, <<ToAuthor, Fk(<<"editor_id">>, "author", <<"id">>)>>,
     <<Fk(<<"author">>, "author", <<"id">>)>>,
     <<Fk(<<"author_id", "id">>, "author", <<"x", "id">>)>>,
     <<Fk(<<"author_id", "id">>, "author", <<"x", "id">>), ToAuthor>>,
     <<Fk(<<"author_id">>, "author", <<"id">>),
       Fk(<<"author_id">>, "series", <<"id">>)>>,
     <<Fk(<<"review">>, "author", <<"id">>)>>, <<Fk(<<"book_id">>, "book", <<"id">>)>>}
OfReview ==
    {<<>>, <<Fk(<<"book_id">>, "book", <<"id">>)>>,
     <<Fk(<<"book_id">>, "book", <<"id">>), Fk(<<"old_id">>, "book", <<"id">>)>>,
     <<Fk(<<"book_id">>, "book", <<"id">>), ToAuthor>>}
FkColumns(fks) == UNION {Range(fk.columns) : fk \in Range(fks)}
WithKeys(name, fks, more) ==
    LET others == SelectSeq(more, LAMBDA c : c.name \notin FkColumns(fks))
    IN [Table(name, SetToSeq({Col(c[1]) : c \in FkColumns(fks) \ {<<"id">>}}) \o others)
          EXCEPT !.foreignKeys = fks]
Library(ofBook, ofReview, more) ==
    {Table("author", <<Col("x")>>), Table("series", <<>>), WithKeys("book", ofBook, more),
     WithKeys("review", ofReview, <<>>),
     View("shelf", {<<"app", "author">>, <<"app", "book">>, <<"app", "review">>})}
ForeignKeys ==
    {Store(Library(ofBook, ofReview, more), [ShowAll EXCEPT !.exclude = exclude], {"describe"}) :
        ofBook \in OfBook, ofReview \in OfReview,
        more \in {<<>>, <<Col("author")>>, <<Col("review")>>},
        exclude \in {{}, {<<"author">>}, {<<"app", "*">>}}}
      \cup {[Store(Library(ofBook, ofReview, <<>>),
                  [ShowAll EXCEPT !.privilegeRole = "app", !.privilegeDisplay = display], {"describe"})
              EXCEPT !.db.relations =
                         {IF r.name = hidden THEN [r EXCEPT !.grants = None] ELSE r : r \in @}] :
              ofBook \in OfBook, ofReview \in OfReview, display \in {"filter", "annotate"},
              hidden \in {<<"author">>, <<"book">>}}
      \cup {[Store(Library(<<ToAuthor>>, <<Fk(<<"book_id">>, "book", <<"id">>)>>, <<>>),
                  ShowAll, {"describe"})
              EXCEPT !.db.relations = {IF r.name = <<"book">> THEN [r EXCEPT !.kind = "partitioned"]
                                       ELSE r : r \in @}]}

Embedded ==
    {Store(Library(ofBook, ofReview, <<>>), ShowAll, {"embed"}) :
        ofBook \in {<<ToAuthor, Fk(<<"editor_id">>, "author", <<"id">>)>>,
                    <<Fk(<<"book_id">>, "book", <<"id">>)>>},
        ofReview \in {<<Fk(<<"book_id">>, "book", <<"id">>), ToAuthor>>}}

\* Names of resources, across schemas, with a function beside them.
Named(schema, name) == [Table("a", <<Col("x")>>) EXCEPT !.schema = schema, !.name = name]
NamedRelations ==
    {Named(App, <<"a">>), Named(Lab, <<"a">>), [Named(Lab, <<"b">>) EXCEPT !.primaryKey = <<>>],
     Named(App, <<"rpc">>), [Named(App, <<"w">>) EXCEPT !.kind = "view", !.primaryKey = <<>>],
     [Named(App, <<"c">>) EXCEPT !.primaryKey = <<<<"id">>, <<"x">>>>]}
Resourceful ==
    {[Store(relations, [ShowAll EXCEPT !.schemas = {App, Lab}], {"request"})
        EXCEPT !.db.functions = functions] :
        relations \in UNION {kSubset(k, NamedRelations) : k \in 1..3}, functions \in {{}, {F}}}

\* Forms: a book refers to an author, whose key is one column or two, and whose
\* rows can be searched by name or not.
Number(column) == [column EXCEPT !.type = "int8", !.types = <<Plain("bigint")>>]
NotNull(column) == [column EXCEPT !.notNull = TRUE]
KeyedBy(table, key) == [table EXCEPT !.primaryKey = [i \in DOMAIN key |-> <<key[i]>>]]
IntKey == Number(NotNull(Col("id")))
Authors ==
    LET single == [Table("author", <<Col("name")>>) EXCEPT !.columns[1] = IntKey]
        double == [KeyedBy(Table("author", <<NotNull(Col("k")), Col("name")>>), <<"id", "k">>)
                     EXCEPT !.columns[1] = IntKey]
    IN {single, [single EXCEPT !.columns[1] = NotNull(Col("id"))], double,
        KeyedBy(double, <<"k", "id">>), [double EXCEPT !.columns[3].name = <<"motto">>]}
FormKeys(author) ==
    LET pair == Fk(<<"a", "b">>, "author", <<"id", "k">>)
        swapped == Fk(<<"b", "a">>, "author", <<"k", "id">>)
        other == Fk(<<"b">>, "series", <<"id">>)
    IN IF Len(author.primaryKey) = 1
       THEN {<<Fk(<<"a">>, "author", <<"id">>)>>,
             <<Fk(<<"a">>, "author", <<"id">>), Fk(<<"a">>, "series", <<"id">>)>>,
             IF author.columns[1].type = "int8" THEN <<>>
             ELSE <<Fk(<<"a">>, "author", <<"name">>)>>}
       ELSE {<<pair>>, <<swapped>>, <<pair, other>>, <<Fk(<<"b">>, "author", <<"k">>)>>}
Books(author) ==
    LET a(notNull, default) == [(IF author.columns[1].type = "int8" THEN Number(Col("a")) ELSE Col("a"))
                                  EXCEPT !.notNull = notNull, !.default = default]
        b(notNull) == [Col("b") EXCEPT !.notNull = notNull]
        book(x, y) == [Table("book", <<x, y>>) EXCEPT !.columns[1] = IntKey]
    IN {book(a(n[1], n[2]), b(n[3])) : n \in BOOLEAN \X BOOLEAN \X BOOLEAN}
         \cup {KeyedBy(book(a(TRUE, FALSE), b(TRUE)), key) : key \in {<<"a", "b">>, <<"b", "id">>, <<"b">>}}
Series(author) ==
    LET series == Table("series", <<Col("name")>>)
    IN IF Len(author.primaryKey) = 1 THEN [series EXCEPT !.columns[1] = author.columns[1]] ELSE series
ForApp(cmds) == [cmd \in Range(Commands) |-> IF cmd \in cmds THEN {"app"} ELSE {}]
Forms ==
    UNION {{Store({author, Series(author), [book EXCEPT !.foreignKeys = fks]},
                  ShowAll, {"edit"}) : book \in Books(author), fks \in FormKeys(author)} :
              author \in Authors}
      \cup UNION {{Store({author, [book EXCEPT !.foreignKeys = fks, !.grants["update"] = {},
                                              !.grants["insert"] = {}, !.columns[column].grants = ForApp(cmds)]},
                        [ShowAll EXCEPT !.privilegeRole = "app"], {"edit"}) :
                       book \in {x \in Books(author) : ~x.columns[3].notNull}, column \in 2..3,
                       cmds \in {{"insert"}, {"update"}},
                       fks \in {k \in FormKeys(author) : Len(k) = 1}} :
                    author \in Authors}

\* Enumerated columns.
Enum(schema, values) == [schema |-> schema, name |-> "mood", values |-> values]
Enumerated ==
    {[Store({[Table("a", <<[Col("m") EXCEPT !.type = type, !.types = <<Plain(type)>>,
                                           !.typeSchema = schema]>>)
                EXCEPT !.checks = checks]}, [ShowAll EXCEPT !.schemas = schemas], {"value"})
        EXCEPT !.db.enums = enums] :
        type \in {"text", "mood"}, schema \in {App, Lab},
        enums \in {{Enum(App, <<"ok", "sad">>)}, {Enum(Lab, <<"sad", "mad">>)},
                   {Enum(App, <<"ok">>), Enum(Lab, <<"sad">>)}},
        checks \in {<<>>, <<[column |-> <<"m">>, values |-> <<"ok">>]>>,
                    <<[column |-> <<"m">>, values |-> <<"ok">>],
                      [column |-> <<"m">>, values |-> <<>>]>>},
        schemas \in {{App}, {App, Lab}}}

\* Columns of checked types, through domains, with a CHECK, and of others.
Type(base, mods) == [Plain(base) EXCEPT !.mods = mods]
Domain == Plain("positive")
Types ==
    {<<Plain(base)>> : base \in {"smallint", "integer", "numeric", "real", "double precision",
                                 "boolean", "uuid", "text", "date"}}
      \cup {<<Type("numeric", mods)>> : mods \in {<<3, 1>>, <<2, -1>>, <<1, 2>>, <<3>>}}
      \cup {<<Domain, Type("numeric", <<3, 1>>)>>, <<Domain, Type("character varying", <<3>>)>>,
            <<Domain, Domain, Plain("boolean")>>, <<[Plain("integer") EXCEPT !.array = TRUE]>>,
            <<[Plain("text") EXCEPT !.array = TRUE]>>}
Typed ==
    {Store({[Table("a", <<[Col("m") EXCEPT !.types = types]>>) EXCEPT !.checks = checks]},
           ShowAll, {"value"}) :
        types \in Types, checks \in {<<>>, <<[column |-> <<"m">>, values |-> <<"ok">>]>>}}

Word(word) ==
    [form |-> "word", word |-> word, neg |-> FALSE, mantissa |-> 0, exp |-> 0,
     plain |-> FALSE, tidy |-> TRUE]
Whole(n) ==
    [Word("") EXCEPT !.form = "decimal", !.neg = n < 0, !.mantissa = IF n < 0 THEN -n ELSE n,
                     !.plain = TRUE]
Decimal(mantissa, exp) == [Whole(mantissa) EXCEPT !.exp = exp, !.plain = FALSE]
Uuid(digits, tidy) == [Word("") EXCEPT !.form = "uuid", !.mantissa = digits, !.tidy = tidy]
MCValues ==
    {Word(word) : word \in {"", "ok", "sad", "mad", "other", "nan", "-inf", "true", "off", "tr"}}
      \cup {Whole(n) : n \in {-33, -32, -9, -8, 0, 1, 7, 8, 31, 32, 99, 100, 120, 994, 995, 1000}}
      \cup {[Whole(1) EXCEPT !.tidy = FALSE], [Whole(7) EXCEPT !.form = "respelled"]}
      \cup {Decimal(10, -1), Decimal(999, -1), Decimal(9994, -2), Decimal(9995, -2), Decimal(1, 2),
            Decimal(1, 3), Decimal(5, -3), Decimal(94, -3), Decimal(95, -3), Decimal(4, -4),
            Decimal(1199, -1), Decimal(1201, -1), Decimal(12, 1), Decimal(15625, -6),
            Decimal(15626, -6), Decimal(1, -2), Decimal(2, -3), Decimal(1, -3), Decimal(0, -3)}
      \cup {Uuid(32, TRUE), Uuid(32, FALSE), Uuid(31, TRUE)}

\* 4, 6 and 8 bits for 16, 32 and 64; floats of 3 and 5 bits that end at 128 and 1024.
MCIntegerBits == [smallint |-> 4, integer |-> 6, bigint |-> 8]
MCFloatFormat ==
    ("real" :> [tiny |-> 5, huge |-> 112, next |-> 128])
      @@ ("double precision" :> [tiny |-> 8, huge |-> 992, next |-> 1024])

-----------------------------------------------------------------------------
(* Comments: every sequence of up to MaxLines lines of these kinds. *)

CONSTANTS MaxLines
Indented(line) == [line EXCEPT !.indented = TRUE]
LineKinds ==
    {Line("", ""), Line("", "prose"), Indented(Line("", "more")), Line("ai", "note"), Line("ai", ""),
     Line("policy", "rule"), Line("example", "how"), Indented(Line("example", "other")),
     Line("expose", "rpc"), Indented(Line("expose", "no")), Indented(Line("todo", "later"))}
Commented ==
    {Offer({[F EXCEPT !.comment = lines]}, {App}, NoLists) : lines \in SeqOf(LineKinds, MaxLines)}

-----------------------------------------------------------------------------
MCMethods == {"GET", "POST", "PATCH", "DELETE"}
MCIdStem ==
    LET plain == {<<n>> : n \in {"id", "author", "review", "x", "a", "b"}}
    IN [f \in {<<"author_id">>, <<"editor_id">>, <<"book_id">>, <<"old_id">>} \cup plain |->
          CASE f = <<"author_id">> -> <<"author">> [] f = <<"editor_id">> -> <<"editor">>
            [] f = <<"book_id">> -> <<"book">> [] f = <<"old_id">> -> <<"old">> [] OTHER -> f]

MCImageNames == {<<"avatar">>}
\* Doubles of three bits: 9 is not one of them.
MCAsDouble == (<<"1">> :> <<"1">>) @@ (<<"9">> :> <<"8">>)
MCTexts == (TRUE :> {<<"1">>, <<"9">>}) @@ (FALSE :> {Blank, <<",">>, <<"%">>})

\* The ways a column gets its value.
Supplied ==
    {Store({Table("a", <<[Col("x") EXCEPT !.notNull = notNull, !.default = default,
                                          !.identity = identity]>>)}, ShowAll, {"describe"}) :
        notNull \in BOOLEAN, default \in BOOLEAN, identity \in BOOLEAN}

\* One row written: by the ways its columns get their values, and by the
\* privileges and policies of the role that writes it.
Ways ==
    {[Col("x") EXCEPT !.notNull = n, !.default = d] : n \in BOOLEAN, d \in BOOLEAN}
      \cup {[Col("x") EXCEPT !.notNull = n, !.default = TRUE, !.always = TRUE] : n \in BOOLEAN}
      \cup {[NotNull(Col("x")) EXCEPT !.identity = TRUE, !.always = a] : a \in BOOLEAN}
PolicyOf(cmds) ==
    {[cmd |-> cmd, permissive |-> TRUE, roles |-> {PUBLIC}] : cmd \in cmds}
Written ==
    {[Store({KeyedBy(Table("a", <<x>>), key)}, ShowAll, {"write", "save"}) EXCEPT !.db.relations =
          @ \cup (IF key = <<>> THEN {View("v", {})} ELSE {})] : x \in Ways, key \in {<<>>, <<"id">>}}
      \cup {Store({[Table("a", <<[Col("x") EXCEPT !.grants = [None EXCEPT !["insert"] = column,
                                                                         !["update"] = column]]>>)
                      EXCEPT !.grants = ForApp(may),
                             !.rls = rls]},
                  [ShowAll EXCEPT !.privilegeRole = "app", !.privilegeDisplay = "annotate"], {"write", "save"}) :
              column \in {{}, {"app"}}, may \in {{}, {"select"}, {"select", "insert"}, {"insert", "update"},
                                               {"select", "update"}, {"select", "delete"}},
              rls \in {NoRls} \cup {[enabled |-> TRUE, forced |-> FALSE, policies |-> PolicyOf(cmds)] :
                          cmds \in {{}, {"select"}, {"insert"}, {"select", "insert"}, {"all"}}}}

\* Lists: a table with columns that are searched by all, by some and by none,
\* and a view of the same columns; names with the separators of a sort.
Of(column, type) == [column EXCEPT !.type = type, !.types = <<Plain(type)>>]
Dotted == [Col("a") EXCEPT !.name = <<"a", "asc">>]
Searchable ==
    {<<Col("name")>>, <<Number(Col("n")), Of(Col("u"), "uuid")>>,
     <<Col("name"), Of(Col("u"), "uuid"), Col("avatar")>>,
     <<Col("name"), [Col("tags") EXCEPT !.types[1].array = TRUE]>>,
     <<[Col("name") EXCEPT !.comment = <<Line("", "content")>>], Of(Col("k"), "text_kind")>>,
     <<[Col("name") EXCEPT !.comment = <<Line("widget", "number")>>],
       [Col("d") EXCEPT !.type = "label", !.types = <<Plain("label"), Plain("text")>>]>>,
     <<Dotted, Col("a")>>, <<Col("x,y"), Col("k:v")>>, <<Col(" s")>>}
MCSpelling ==
    ("x,y" :> <<"x", ",", "y">>) @@ ("k:v" :> <<"k", ":", "v">>) @@ (" s" :> <<" ", "s">>)
Listed ==
    UNION {{Store({KeyedBy(Table("a", columns), <<"id">>)}, ShowAll, {"browse"}),
            Store({[View("v", {}) EXCEPT !.columns = <<Key>> \o columns]}, ShowAll, {"browse"})} :
               columns \in Searchable}
      \cup {Store({KeyedBy(Table("a", <<NotNull(Col("name")), Col("a")>>), <<"name", "id">>)},
                  ShowAll, {"browse"})}
      \cup {[Store({Named(<<"app", "f">>, <<"a">>)}, [ShowAll EXCEPT !.schemas = {<<"app", "f">>}],
                   {"browse"})
              EXCEPT !.db.schemas = @ @@ (<<"app", "f">> :> [usage |-> {PUBLIC}, create |-> {}])]}

Half(n) == <<n>>
Sorts ==
    {Blank, <<"name", ":", "asc">>, <<"name", ":", "desc", ",", "id", ":", "asc">>,
     <<"id", ":", "desc">>, <<"id", ":", "asc", ",", "id", ":", "desc">>, <<"gone">>,
     <<" ", "a", ":", "down", ",">>, <<"a", ".", "asc", ":", "desc">>,
     <<":", "asc", ",", "id", ":", "desc", ":", "asc", " ">>, <<"x", ",", "y", ":", "asc">>}
Terms ==
    {Blank, <<" ">>, <<"x">>, <<" ", "x">>, <<"x", Quote>>, <<Quote, ",">>, <<Backslash>>,
     <<Backslash, Quote>>, <<"*">>, <<"%">>}
MCUrls ==
    [q : Terms, sort : Sorts, page : {<<>>, Half(4)}, pageSize : {<<>>}]
      \cup [q : {Blank, <<"x">>}, sort : {Blank, <<"id", ":", "desc">>},
            page : {<<>>} \cup {Half(n) : n \in {0, 1, 2, 3, 4, 5, 8, 14}},
            pageSize : {<<>>} \cup {Half(n) : n \in {0, 2, 4, 5, 6, 8, 10}}]

InLists == {Store({Table("a", <<>>)}, ShowAll, {"in"})}
MCInTexts == SeqOf({"a", ",", Quote, Backslash}, 6)

MCCatalogs ==
    UNION {Security, Overloads, Shapes, Grants, RowLevelSecurity, ForeignKeys, Embedded,
           Resourceful, Forms, Enumerated, Typed, Supplied, Listed, InLists,
           Actions, Written, Commented}
=============================================================================
