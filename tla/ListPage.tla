------------------------------- MODULE ListPage -------------------------------
(***************************************************************************)
(* The lists of the Admin UI: a URL is read (list-params.ts), becomes a    *)
(* request of one of the two adapters (kozou-api.ts, postgrest.ts), is     *)
(* answered by the REST API (handler.ts, query-builder.ts) or by PostgREST *)
(* and is written again into the links of the page (list-href.ts,          *)
(* ListTable.svelte).  Also the search of the pickers, which takes the     *)
(* same way, and the lists of values of a filter in.(...).                 *)
(*                                                                         *)
(* A text is the sequence of its characters, of which a word counts as     *)
(* one.  A URL is                                                          *)
(*   q, sort          the texts behind ?q= and ?sort=, empty if not given  *)
(*   page, pageSize   <<>>, or <<n>> for the number n / 2; 0 also stands   *)
(*                    for whatever is no number                            *)
(* Page, size and term have no other spelling here.  What is run is        *)
(*   [ok, search, order, limit, offset], with search <<>> or the columns   *)
(* and the pattern of an ILIKE, and order a list of [field, order] with    *)
(* the fields as texts.                                                    *)
(***************************************************************************)
EXTENDS EditForm

CONSTANTS DEFAULT_PAGE_SIZE, MAX_PAGE_SIZE, MAX_SAFE_INTEGER, DISPLAY_COLUMN_LIMIT,
          Lookalikes,  \* types other than texts whose name begins like that of one
          Spelling     \* word -> text, for words that hold a comma, a colon or a space

ASSUME PagesAssumption ==
    /\ {DEFAULT_PAGE_SIZE, MAX_PAGE_SIZE} \subseteq Nat \ {0}
    /\ {MAX_SAFE_INTEGER, DISPLAY_COLUMN_LIMIT} \subseteq Nat
    /\ \A word \in DOMAIN Spelling : Spelling[word] \in Seq(Range(Spelling[word]))

-----------------------------------------------------------------------------
(* Texts. *)

Trim(text) ==
    LET kept == {i \in DOMAIN text : text[i] # " "}
    IN IF kept = {} THEN Blank ELSE SubSeq(text, Min(kept), Max(kept))

\* A name as a text.
Letters(word) == IF word \in DOMAIN Spelling THEN Spelling[word] ELSE <<word>>
Spelled(name) == Joined([i \in DOMAIN name |-> Letters(name[i])], ".")
SpelledNames(columns) == {Spelled(n) : n \in Names(columns)}

-----------------------------------------------------------------------------
(* From the URL to the parameters of a list, and back. *)

Orders == {"asc", "desc"}

\* parsePositiveInt
ParsePositiveInt(raw, fallback) ==
    IF raw = <<>> \/ raw[1] < 2 THEN fallback ELSE raw[1] \div 2

\* parseSingleSort, of what the colons separate: any other word for an order is
\* "asc", and what follows it is dropped.
ReadSpec(parts) ==
    [field |-> parts[1],
     order |-> IF Len(parts) > 1 /\ parts[2] = <<"desc">> THEN "desc" ELSE "asc"]
ParseSortSpecs(raw) ==
    LET entries == Split(raw, ",")
        specs == [i \in DOMAIN entries |-> ReadSpec(Split(Trim(entries[i]), ":"))]
    IN Keep(specs, {s \in Range(specs) : s.field # Blank})

\* A sort as it is written in a link, and with "." for the mark in a request.
WriteSpec(spec, mark) == spec.field \o <<mark, spec.order>>
WriteSort(sort, mark) == Joined([i \in DOMAIN sort |-> WriteSpec(sort[i], mark)], ",")

ParseListParams(url) ==
    [search |-> url.q, sort |-> ParseSortSpecs(url.sort),
     page |-> ParsePositiveInt(url.page, 1),
     pageSize |-> ParsePositiveInt(url.pageSize, DEFAULT_PAGE_SIZE)]

\* Mutant: the size of the pages is not carried over.
BuildHrefOfDefaultSize(params) ==
    [q |-> params.search, sort |-> WriteSort(params.sort, ":"), pageSize |-> <<>>,
     page |-> IF params.page > 1 THEN <<2 * params.page>> ELSE <<>>]

\* buildHref: what is as it would be anyway is left out.
BuildHref(params) ==
    [q |-> params.search, sort |-> WriteSort(params.sort, ":"),
     page |-> IF params.page > 1 THEN <<2 * params.page>> ELSE <<>>,
     pageSize |-> IF params.pageSize # DEFAULT_PAGE_SIZE THEN <<2 * params.pageSize>> ELSE <<>>]

\* The current order of a column is the first that is given.
BuildSortHref(params, field) ==
    LET ascending == \E i \in DOMAIN params.sort :
                        /\ params.sort[i].field = field /\ params.sort[i].order = "asc"
                        /\ \A j \in 1..(i - 1) : params.sort[j].field # field
        next == IF ascending THEN "desc" ELSE "asc"
    IN [BuildHref(params) EXCEPT !.sort = WriteSpec([field |-> field, order |-> next], ":"),
                                 !.page = <<>>]

\* ListTable: the links to the pages before and after, if they are offered.
TotalPages(total, pageSize) == Max({1, (total + pageSize - 1) \div pageSize})
PrevLink(params) ==
    IF params.page > 1 THEN <<[BuildHref(params) EXCEPT !.page = <<2 * (params.page - 1)>>]>> ELSE <<>>
NextLink(params, total) ==
    IF params.page < TotalPages(total, params.pageSize)
    THEN <<[BuildHref(params) EXCEPT !.page = <<2 * (params.page + 1)>>]>> ELSE <<>>

\* pickDisplayColumns of a table, pickViewDisplayColumns.
DisplayColumns(ctx, resource) ==
    LET names == [i \in DOMAIN resource.columns |-> resource.columns[i].name]
        shown == UNION {{t.displayField} : t \in {x \in ctx.tables :
                             x.qualifiedName = resource.qualifiedName /\ resource.kind = "table"}}
        ordered == Keep(names, shown) \o Keep(names, Range(names) \ shown)
    IN SubSeq(ordered, 1, Min({DISPLAY_COLUMN_LIMIT, Len(ordered)}))

-----------------------------------------------------------------------------
(* Over the REST API. *)

\* searchableColumns
SearchableColumns(resource) ==
    {c.name : c \in {x \in Range(resource.columns) :
                       x.widget \in {"text", "textarea"} /\ IsTextLikeType(x.type)}}

\* parseSort: what is behind the last dot is an order if it reads like one.
ParseToken(token) ==
    LET n == Len(token)
    IN IF n > 2 /\ token[n] \in Orders /\ token[n - 1] = "."
       THEN [field |-> SubSeq(token, 1, n - 2), order |-> token[n]]
       ELSE [field |-> token, order |-> "asc"]
ParseSort(raw) ==
    LET entries == Split(raw, ",")
        tokens == [i \in DOMAIN entries |-> Trim(entries[i])]
        kept == Keep(tokens, Range(tokens) \ {Blank})
    IN [i \in DOMAIN kept |-> ParseToken(kept[i])]

\* appendSort of the adapter, and what the API makes of it.
ApiSort(sort) == ParseSort(WriteSort(sort, "."))

\* buildListQuery, without filters, cursors and embeds.
ApiList(resource, params) ==
    LET sort == ApiSort(params.sort)
        sorted == {s.field : s \in Range(sort)}
        tiebreakers == Keep(resource.primaryKey,
                            {n \in Range(resource.primaryKey) : Spelled(n) \notin sorted})
        term == Trim(params.search)
        fields == SearchableColumns(resource)
        limit == Min({params.pageSize, MAX_PAGE_SIZE})
        offset == (params.page - 1) * limit
    IN [ok |-> sorted \subseteq SpelledNames(resource.columns) /\ offset <= MAX_SAFE_INTEGER,
        search |-> IF term = Blank \/ fields = {} THEN <<>>
                   ELSE <<[fields |-> fields, pattern |-> <<"%">> \o term \o <<"%">>]>>,
        order |-> sort \o [i \in DOMAIN tiebreakers |->
                              [field |-> Spelled(tiebreakers[i]), order |-> "asc"]],
        limit |-> limit, offset |-> offset]

-----------------------------------------------------------------------------
(* Over PostgREST. *)

\* pickSearchFields of a table, pickViewSearchFields: by how the declared type
\* begins, which that of an array does too.
PickSearchFields(resource) ==
    LET begins == TextLikeBaseTypes \cup Lookalikes
                    \cup (IF resource.kind = "view" THEN {"uuid"} ELSE {})
    IN {c.name : c \in {x \in Range(resource.columns) : x.dataType.base \in begins}}

Quote == "\""
Backslash == "\\"

\* quoteLikeValue, which puts a backslash before quotes and backslashes.
WriteQuoted(text, c) ==
    IF c \in {Quote, Backslash} THEN Append(Append(text, Backslash), c) ELSE Append(text, c)
QuoteLikeValue(term) == FoldLeft(WriteQuoted, <<Quote, "*">>, term) \o <<"*", Quote>>

\* PostgREST reads a value in or=(...) that is quoted up to the next quote that
\* no backslash precedes, and what follows is no value.
ReadNext(s, c) ==
    LET To(mode) == [mode |-> mode, text |-> s.text]
    IN IF s.mode = "start" /\ c = Quote THEN To("in")
       ELSE IF s.mode = "in" /\ c = Quote THEN To("closed")
       ELSE IF s.mode = "in" /\ c = Backslash THEN To("escape")
       ELSE IF s.mode \in {"in", "escape"} THEN [mode |-> "in", text |-> Append(s.text, c)]
       ELSE To("bad")
ReadQuoted(value) == FoldLeft(ReadNext, [mode |-> "start", text |-> Blank], value)

\* In a pattern it also takes a * for a %.
LikePattern(text) == [i \in DOMAIN text |-> IF text[i] = "*" THEN "%" ELSE text[i]]

\* A name that PostgREST reads as it is written.  Others end early or, with
\* spaces around them, lose these: they name no column, at best another.
PostgrestReads(text) == {".", ",", ":"} \cap Range(text) = {} /\ Trim(text) = text

\* list of the adapter, and what PostgREST makes of it: since the rows are
\* counted (Prefer: count=exact), it answers 416 to an offset behind the last.
\* The schema of a resource ends at the first dot (splitResource).
PostgrestList(resource, params, total) ==
    LET fields == PickSearchFields(resource)
        searches == params.search # Blank /\ fields # {}
        value == ReadQuoted(QuoteLikeValue(params.search))
        named == {s.field : s \in Range(params.sort)}
                   \cup (IF searches THEN {Spelled(n) : n \in fields} ELSE {})
        offset == (params.page - 1) * params.pageSize
    IN [ok |-> /\ resource.schema = <<Head(resource.qualifiedName)>>
               /\ named \subseteq SpelledNames(resource.columns)
               /\ \A text \in named : PostgrestReads(text)
               /\ searches => value.mode = "closed"
               /\ offset <= total,
        search |-> IF searches THEN <<[fields |-> fields, pattern |-> LikePattern(value.text)]>>
                   ELSE <<>>,
        order |-> params.sort,
        limit |-> params.pageSize, offset |-> offset]

Adapters == {"api", "postgrest"}
List(adapter, resource, url, total) ==
    IF adapter = "api" THEN ApiList(resource, ParseListParams(url))
    ELSE PostgrestList(resource, ParseListParams(url), total)

-----------------------------------------------------------------------------
(* The search of a picker. *)

\* searchRelationOptions, relationOptions, buildRelationOptionsQuery: of a
\* request for options, whether it is answered and what their ids are made of.
SearchRelation(ctx, adapter, resource, label) ==
    LET known == {t \in ctx.tables : t.qualifiedName = resource /\ label \in Names(t.columns)}
        t == CHOOSE x \in known : TRUE
        column == CHOOSE c \in Range(t.columns) : c.name = label
    IN IF \/ known = {} \/ t.primaryKey = <<>>
          \/ adapter = "api" /\ ~IsTextLikeType(column.type)
          \/ adapter = "postgrest"
             /\ \E n \in {label} \cup Range(t.primaryKey) : ~PostgrestReads(Spelled(n))
       THEN [ok |-> FALSE] ELSE [ok |-> TRUE, id |-> t.primaryKey]

-----------------------------------------------------------------------------
(* A filter in.(...). *)

\* splitInList, which reads one character after another.
SplitInList(inner) ==
    LET To(s, mode, more) == [s EXCEPT !.mode = mode, !.value = @ \o more]
        Push(s) == [mode |-> "start", value |-> Blank, values |-> Append(s.values, s.value)]
        Step(s, c) ==
            CASE s.mode = "start" /\ c = Quote -> To(s, "quoted", Blank)
              [] s.mode \in {"start", "raw", "closed"} /\ c = "," -> Push(s)
              [] s.mode \in {"start", "raw"} /\ ~(s.mode = "start" /\ c = Quote) /\ c # "," ->
                     To(s, "raw", <<c>>)
              [] s.mode = "quoted" /\ c = Quote -> To(s, "closed", Blank)
              [] s.mode = "quoted" /\ c = Backslash -> To(s, "escape", Blank)
              [] s.mode = "quoted" /\ c \notin {Quote, Backslash} -> To(s, "quoted", <<c>>)
              [] s.mode = "escape" ->
                     To(s, "quoted", IF c \in {Quote, Backslash} THEN <<c>> ELSE <<Backslash, c>>)
              [] OTHER -> To(s, "bad", Blank)
        end == FoldLeft(Step, [mode |-> "start", value |-> Blank, values |-> <<>>], inner)
    IN [ok |-> inner # Blank /\ end.mode \notin {"quoted", "escape", "bad"},
        values |-> IF inner = Blank THEN <<>> ELSE Push(end).values]
=============================================================================
