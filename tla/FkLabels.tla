------------------------------- MODULE FkLabels -------------------------------
(***************************************************************************)
(* The labels a detail page shows for its foreign keys.  Every render      *)
(* resolves the relations of its table at once, each through the row cache *)
(* the Admin UI process keeps for its lifetime; the rows are read by the   *)
(* data adapter while other sessions write them.                           *)
(***************************************************************************)
EXTENDS Naturals, Sequences, FiniteSets

CONSTANTS
    Renders,     \* renders that may be under way at once
    Pages,       \* [relations, row]: what a detail page has to label
    Tables,      \* [name -> [primaryKey, displayField]]: the schema context
    Keys,        \* <<table, item id>>: the rows that can be looked up
    Labels,      \* values of a display column (NULL is Null)
    Alternate,   \* [Keys -> value]: a unique column beside the primary key
    Databases,   \* what the target rows hold to begin with
    Written,     \* the rows other sessions write
    Null, NoRow,
    TtlMs,       \* lifetime of an entry, in ticks
    MaxTime, MaxUpsets

ASSUME TtlAssumption == TtlMs \in Nat \ {0}
ASSUME DatabaseAssumption == Databases \subseteq [Keys -> Labels \cup {NoRow}]
ASSUME WrittenAssumption == Written \subseteq Keys

VARIABLES
    db,        \* [Keys -> label of the row, or NoRow]
    now,       \* the process's clock
    entries,   \* the cache: [Keys -> {} or {[row, fetchedAt]}]
    page,      \* [Renders -> {} or {the page it labels}]
    lookup,    \* [Renders \X relation positions -> its lookup]
    out,       \* [Renders -> [column -> label entry]]
    said,      \* history: what each row said in each instant
    upsets     \* writes and failed reads so far

vars == <<db, now, entries, page, lookup, out, said, upsets>>

-----------------------------------------------------------------------------
\* The relations of a page.

Said == Labels \cup {NoRow}

First(rel) == rel.fields[1]
IsComposite(rel) == Len(rel.fields) > 1

\* How many relations claim column c as their first.
Claims(p, c) == Cardinality({i \in DOMAIN p.relations : First(p.relations[i]) = c})

\* The position of an element of a sequence without repetitions.
IndexIn(s, e) == CHOOSE j \in DOMAIN s : s[j] = e
Elements(s) == {s[j] : j \in DOMAIN s}

List(s) == s \in Seq(Elements(s))
Distinct(s) == \A i, j \in DOMAIN s : s[i] = s[j] => i = j

HasValue(p, rel) == \A f \in Elements(rel.fields) : p.row[f] # Null
TargetKnown(rel) == rel.table \in DOMAIN Tables

\* The target can be addressed by id: a composite relation must cover its key.
CoversKey(rel) ==
    LET pk == Tables[rel.table].primaryKey
    IN  Len(pk) = Len(rel.columns) /\ Elements(pk) \subseteq Elements(rel.columns)

Orphaned(p, rel) == ~IsComposite(rel) /\ HasValue(p, rel) /\ ~TargetKnown(rel)

\* Mutant: a composite relation resolves although another claims its first column.
ResolvableUnclaimed(p, rel) ==
    /\ HasValue(p, rel) /\ TargetKnown(rel)
    /\ IsComposite(rel) => CoversKey(rel)

Resolvable(p, rel) ==
    /\ HasValue(p, rel) /\ TargetKnown(rel)
    /\ IsComposite(rel) => Claims(p, First(rel)) = 1 /\ CoversKey(rel)

\* The positions of the relations some page looks up.
Positions ==
    UNION {{i \in DOMAIN p.relations : Resolvable(p, p.relations[i])} : p \in Pages}

\* The item id a relation is looked up by: the value itself, or the components
\* in the order of the target's primary key.
ItemId(p, rel) ==
    IF IsComposite(rel)
    THEN LET pk == Tables[rel.table].primaryKey
         IN  [j \in DOMAIN pk |-> p.row[rel.fields[IndexIn(rel.columns, pk[j])]]]
    ELSE <<p.row[First(rel)]>>

KeyOf(p, rel) == <<rel.table, ItemId(p, rel)>>

\* A primary key names a column once, and so do the columns a foreign key references.
ASSUME TablesAssumption ==
    \A t \in DOMAIN Tables : List(Tables[t].primaryKey) /\ Distinct(Tables[t].primaryKey)

ASSUME PageAssumption ==
    \A p \in Pages :
        /\ List(p.relations)
        /\ \A i \in DOMAIN p.relations :
             LET rel == p.relations[i]
             IN  /\ List(rel.fields) /\ rel.fields # << >>
                 /\ List(rel.columns) /\ Distinct(rel.columns)
                 /\ Len(rel.fields) = Len(rel.columns)
                 /\ Resolvable(p, rel) => KeyOf(p, rel) \in Keys

projectLabel(rel, row) ==
    IF row = NoRow \/ ~TargetKnown(rel) \/ Tables[rel.table].displayField = Null
    THEN Null ELSE row

Entry(p, rel, row) ==
    [value |-> ItemId(p, rel), label |-> projectLabel(rel, row), table |-> rel.table]

-----------------------------------------------------------------------------
\* One lookup: asked (the request is on its way), read (the row was read, its
\* answer is on its way back), answered.

Unasked == [state |-> "quiet"]
Sent(k) == [state |-> "asked", key |-> k, since |-> now]
Answered(k, t, row) == [state |-> "answered", key |-> k, since |-> t, answer |-> row]

Pending(r) == {i \in Positions : lookup[<<r, i>>].state \in {"asked", "read"}}
Resolving(r) == Pending(r) # {}

Fresh(entry) == now - entry.fetchedAt < TtlMs
Hits(k) == {e \in entries[k] : Fresh(e)}

\* What a lookup of k is right after cache.get was called.
Begin(k) ==
    IF Hits(k) = {} THEN Sent(k) ELSE LET e == CHOOSE e \in Hits(k) : TRUE IN Answered(k, now, e.row)

\* Mutant: the entry is stamped when the load ends.
StampOnArrival(l) == now

\* The instant a loaded row is stamped with: get() read the clock before the load.
Stamp(l) == l.since

Init ==
    /\ db \in Databases
    /\ now = 0
    /\ entries = [k \in Keys |-> {}]
    /\ page = [r \in Renders |-> {}]
    /\ lookup = [l \in Renders \X Positions |-> Unasked]
    /\ out = [r \in Renders |-> <<>>]
    /\ said = [k \in Keys |-> [t \in {0} |-> {db[k]}]]
    /\ upsets = 0

\* resolveFkLabels: the loop over the relations runs without a pause, so every
\* cache.get sees the same cache and clock, and no lookup sees another's load.
\* Orphaned targets get their entry in the loop, cached rows right after it.
Render(r, p) ==
    LET rels == p.relations
        loaded == {i \in DOMAIN rels : Resolvable(p, rels[i])}
        next == [i \in Positions |-> IF i \in loaded THEN Begin(KeyOf(p, rels[i])) ELSE Unasked]
        hit == {i \in loaded : next[i].state = "answered"}
        orphan == {i \in DOMAIN rels : Orphaned(p, rels[i])}
        \* The relations written last under a column: the cached ones in order.
        Last(c) == LET H == {i \in hit : First(rels[i]) = c}
                       O == {i \in orphan : First(rels[i]) = c}
                       W == IF H # {} THEN H ELSE O
                   IN  CHOOSE i \in W : \A j \in W : j <= i
    IN  /\ ~Resolving(r)
        /\ page' = [page EXCEPT ![r] = {p}]
        /\ lookup' = [l \in Renders \X Positions |-> IF l[1] = r THEN next[l[2]] ELSE lookup[l]]
        /\ out' = [out EXCEPT ![r] =
                     [c \in {First(rels[i]) : i \in hit \cup orphan} |->
                        LET i == Last(c)
                        IN  Entry(p, rels[i], IF i \in hit THEN next[i].answer ELSE NoRow)]]
        /\ UNCHANGED <<db, now, entries, said, upsets>>

\* The adapter's request reaches the database.
ReadRow(r, i) ==
    LET l == lookup[<<r, i>>]
    IN  /\ l.state = "asked"
        /\ lookup' = [lookup EXCEPT ![<<r, i>>] =
                        [state |-> "read", key |-> l.key, since |-> l.since, row |-> db[l.key]]]
        /\ UNCHANGED <<db, now, entries, page, out, said, upsets>>

\* The request or its answer is lost, or refused: the loader's catch makes it null.
FailRead(r, i) ==
    LET l == lookup[<<r, i>>]
    IN  /\ upsets < MaxUpsets
        /\ upsets' = upsets + 1
        /\ l.state = "asked" \/ (l.state = "read" /\ l.row # NoRow)
        /\ lookup' = [lookup EXCEPT ![<<r, i>>] =
                        [state |-> "read", key |-> l.key, since |-> l.since, row |-> NoRow]]
        /\ said' = [said EXCEPT ![l.key][now] = @ \cup {NoRow}]
        /\ UNCHANGED <<db, now, entries, page, out>>

\* The loader resolves: the row is cached, whatever was cached meanwhile, and
\* its label written under the relation's first column.
Deliver(r, i) ==
    LET l == lookup[<<r, i>>]
    IN  /\ l.state = "read"
        /\ entries' = [entries EXCEPT ![l.key] = {[row |-> l.row, fetchedAt |-> Stamp(l)]}]
        /\ lookup' = [lookup EXCEPT ![<<r, i>>] = Answered(l.key, l.since, l.row)]
        /\ \E p \in page[r] :
             LET rel == p.relations[i]
             IN  out' = [out EXCEPT ![r] =
                           [c \in DOMAIN @ \cup {First(rel)} |->
                              IF c = First(rel) THEN Entry(p, rel, l.row) ELSE @[c]]]
        /\ UNCHANGED <<db, now, page, said, upsets>>

\* Somebody writes or deletes a row, the Admin UI's own form included: nothing
\* tells the cache.
WriteRow(k, v) ==
    /\ upsets < MaxUpsets
    /\ v # db[k]
    /\ upsets' = upsets + 1
    /\ db' = [db EXCEPT ![k] = v]
    /\ said' = [said EXCEPT ![k][now] = @ \cup {v}]
    /\ UNCHANGED <<now, entries, page, lookup, out>>

Tick ==
    /\ now < MaxTime
    /\ now' = now + 1
    /\ said' = [k \in Keys |-> [t \in 0..now + 1 |-> IF t <= now THEN said[k][t] ELSE {db[k]}]]
    /\ UNCHANGED <<db, entries, page, lookup, out, upsets>>

Next ==
    \/ \E r \in Renders, p \in Pages : Render(r, p)
    \/ \E r \in Renders, i \in Positions : ReadRow(r, i) \/ FailRead(r, i) \/ Deliver(r, i)
    \/ \E k \in Written, v \in Said : WriteRow(k, v)
    \/ Tick

Spec == Init /\ [][Next]_vars
-----------------------------------------------------------------------------
Lookups == Renders \X Positions

\* What a lookup is to the promise: a row on its way back is still a question.
Seen(l) ==
    IF l.state = "read" THEN [state |-> "asked", key |-> l.key, since |-> l.since] ELSE l

questions == [l \in Lookups |-> Seen(lookup[l])]

Promise == INSTANCE RecentReads WITH
    clock <- now,
    said <- said,
    lookup <- questions,
    Lifetime <- TtlMs

\* However renders, loads, failures and writes interleave, what a lookup
\* answers is what the row said no longer than the lifetime before it was
\* asked: a load that is overtaken by a younger one, and overwrites its entry,
\* included (FkRowCache.get).
ImplementsRecentReads == Promise!Spec

\* The value of a column of a row: a component of its key or the unique column.
ColumnOf(k, c) ==
    LET pk == Tables[k[1]].primaryKey
    IN  IF c \in Elements(pk) THEN k[2][IndexIn(pk, c)] ELSE Alternate[k]

\* The rows a foreign key of the page's row references, as PostgreSQL has it.
ReferencedBy(p, rel) ==
    {k \in Keys : /\ k[1] = rel.table
                  /\ Len(k[2]) = Len(Tables[rel.table].primaryKey)
                  /\ \A j \in DOMAIN rel.fields : ColumnOf(k, rel.columns[j]) = p.row[rel.fields[j]]}

\* What the page may show for rel when it was looked up at t.
ShownFor(p, rel, t) ==
    {projectLabel(rel, v) : v \in UNION {Promise!RecentlySaid(k, t) : k \in ReferencedBy(p, rel)}}

\* A label stands under a column because a relation whose first column it is
\* references the row the label and the link are of.
NamesTheRow(r, p, rel, t) ==
    LET entry == out[r][First(rel)]
    IN  /\ entry.table = rel.table
        /\ entry.label # Null =>
             /\ <<rel.table, entry.value>> \in ReferencedBy(p, rel)
             /\ entry.label \in ShownFor(p, rel, t)

ReferencesKey(rel) == TargetKnown(rel) => CoversKey(rel)

Labelled(r, only(_)) ==
    \A p \in page[r] : \A c \in DOMAIN out[r] :
        \E i \in DOMAIN p.relations :
            LET rel == p.relations[i]
            IN  /\ First(rel) = c
                /\ only(rel) =>
                     NamesTheRow(r, p, rel, IF Resolvable(p, rel) THEN lookup[<<r, i>>].since ELSE now)

\* Once a render has settled, a reference whose row had a label all the while
\* shows one.
NoneMissing(r) ==
    \A p \in page[r] : \A i \in DOMAIN p.relations :
        LET rel == p.relations[i]
        IN  (/\ ~Resolving(r) /\ Resolvable(p, rel) /\ ReferencesKey(rel)
             /\ Claims(p, First(rel)) = 1
             /\ ReferencedBy(p, rel) # {}
             /\ Null \notin ShownFor(p, rel, lookup[<<r, i>>].since))
            => First(rel) \in DOMAIN out[r] /\ out[r][First(rel)].label # Null

\* Which relation a column's label is of does not depend on the order answers
\* come in, unless two foreign keys of that one column alone claim it.
SameInEveryOrder ==
    \A r, s \in Renders : \A p \in page[r] \cap page[s] : \A c \in DOMAIN out[r] \cap DOMAIN out[s] :
        (/\ ~Resolving(r) /\ ~Resolving(s)
         /\ \A i, j \in DOMAIN p.relations :
               p.relations[i].fields = <<c>> /\ p.relations[j].fields = <<c>> => i = j)
        => out[r][c].table = out[s][c].table

\* Every label under a foreign key that references a primary key is the
\* referenced row's, within the lifetime, whichever lookups share its column
\* or its row, whatever order their answers come in, and none is missing.
LabelsNameTheRow ==
    /\ \A r \in Renders : Labelled(r, ReferencesKey) /\ NoneMissing(r)
    /\ SameInEveryOrder

AnyReference(rel) == TRUE

\* The same of every foreign key: resolve-fk-labels.ts:1 "Resolve foreign-key
\* columns on a detail row to the referenced row's displayField label."  A
\* foreign key may reference a unique column that is not the primary key.
EveryLabelNamesTheRow == \A r \in Renders : Labelled(r, AnyReference)
=============================================================================
