----------------------------- MODULE KeysetPaging -----------------------------
(***************************************************************************)
(* Paging through a resource with the cursors of the REST API              *)
(* (packages/api/src/query-builder.ts, handler.ts and cursor.ts) while     *)
(* other clients insert, update and delete rows of it.                     *)
(***************************************************************************)
EXTENDS Keyset, SequencesExt

CONSTANTS
    Ids,          \* primary keys, integers in the column "id"
    Contents,     \* what the other columns of a row may hold
    Sorts,        \* sort parameters clients send: sequences of order keys
    PageSizes,    \* pageSize parameters, 0 for none
    MAX_PAGE_SIZE, DEFAULT_PAGE_SIZE,
    MaxEdits, MaxPages,   \* bounds on the exploration
    None

Cursor == [order : Order, values : Seq(Value)]

ASSUME KeysetPagingAssumption ==
    /\ "id" \in Fields \ Nullable
    /\ Ids \subseteq Int /\ IsFiniteSet(Ids)
    /\ Contents \subseteq [Fields \ {"id"} -> Value]
    /\ \A content \in Contents, f \in Fields \ (Nullable \cup {"id"}) : content[f] # NULL
    /\ Sorts \subseteq Order
    /\ PageSizes \subseteq Nat /\ {MAX_PAGE_SIZE, DEFAULT_PAGE_SIZE} \subseteq Nat \ {0}
    /\ None \notin Rows /\ None \notin Cursor /\ None \notin Contents

Absent == None

VARIABLES
    table,    \* [Ids -> Contents \cup {Absent}]
    page,     \* the last answer: its rows and cursors
    walk,     \* history: the pages read in one direction so far
    touched,  \* history: ids edited since the walk began
    edits, pages

vars == <<table, page, walk, touched, edits, pages>>

Row(id) == [f \in Fields |-> IF f = "id" THEN id ELSE table[id][f]]
Present == {Row(id) : id \in {i \in Ids : table[i] # Absent}}

Init ==
    /\ table \in [Ids -> Contents \cup {Absent}]
    /\ page = [rows |-> << >>, next |-> None, prev |-> None]
    /\ walk = [order |-> << >>, backward |-> FALSE, from |-> None, to |-> None,
               more |-> TRUE, ids |-> << >>]
    /\ touched = {}
    /\ edits = 0 /\ pages = 0

-----------------------------------------------------------------------------
(* buildListQuery                                                          *)

ClampPageSize(size) ==
    IF size < 1 THEN DEFAULT_PAGE_SIZE ELSE IF size > MAX_PAGE_SIZE THEN MAX_PAGE_SIZE ELSE size

\* Mutant: no primary-key tiebreaker.
SortAlone(sort) == sort
\* The sort columns, then the primary key unless it is among them.
EffectiveOrder(sort) ==
    IF \E i \in DOMAIN sort : sort[i].field = "id" THEN sort
    ELSE Append(sort, [field |-> "id", desc |-> FALSE])

\* Mutant: a cursor is taken for any order.
AnyOrder(cursor, order) == TRUE
CursorMatchesOrder(cursor, order) == cursor.order = order

\* ORDER BY over one snapshot of the table, then OFFSET and LIMIT.
Sorted(order, rows) ==
    CHOOSE s \in [1..Cardinality(rows) -> rows] :
        IsInjective(s) /\ \A i, j \in DOMAIN s : i < j => ~RowBefore(order, s[j], s[i])
Limited(rows, limit) == SubSeq(rows, 1, IF Len(rows) < limit THEN Len(rows) ELSE limit)

-----------------------------------------------------------------------------
(* listResource                                                            *)

\* Mutant: the over-fetched row stays on the page.
Untrimmed(fetched, size) == fetched
Trimmed(fetched, size) == Limited(fetched, size)

InForwardOrder(rows, backward) == IF backward THEN Reverse(rows) ELSE rows

CursorAt(order, row) == [order |-> order, values |-> KeyOf(order, row)]

\* listCursors
Cursors(order, rows, backward, more, hasPrev) ==
    IF rows = << >> THEN [next |-> None, prev |-> None]
    ELSE LET first == CursorAt(order, rows[1])
             last == CursorAt(order, rows[Len(rows)])
         IN  IF backward
             THEN [next |-> last, prev |-> IF more THEN first ELSE None]
             ELSE [next |-> IF more THEN last ELSE None, prev |-> IF hasPrev THEN first ELSE None]

IdsOf(rows) == [i \in 1..Len(rows) |-> rows[i]["id"]]

\* The page read from `matching`, in traversal order; earlier is what the walk read
\* before it, from the boundary its first page started at.
Answer(order, matching, size, backward, hasPrev, earlier, from) ==
    LET fetched == Limited(matching, size + 1)
        more == Len(fetched) > size
        traversed == Trimmed(fetched, size)
        rows == InForwardOrder(traversed, backward)
        cursors == Cursors(order, rows, backward, more, hasPrev)
    IN  /\ page' = [rows |-> rows, next |-> cursors.next, prev |-> cursors.prev]
        /\ walk' = [order |-> order, backward |-> backward, from |-> from,
                    to |-> IF traversed = << >> THEN None ELSE traversed[Len(traversed)],
                    more |-> more,
                    ids |-> earlier \o IdsOf(traversed)]

\* GET without a cursor: a walk begins.  `page` skips rows by OFFSET.
FirstPage(sort, size, number) ==
    LET order == EffectiveOrder(sort)
        sorted == Sorted(order, Present)
        skipped == (number - 1) * ClampPageSize(size)
    IN  /\ Answer(order, SubSeq(sorted, skipped + 1, Len(sorted)), ClampPageSize(size), FALSE,
                  number > 1, << >>,
                  IF skipped = 0 \/ sorted = << >> THEN None ELSE Last(Limited(sorted, skipped)))
        /\ touched' = {}

\* GET with `after` or `before`: the walk goes on, or turns round at the cursor.
FollowCursor(sort, size, cursor, backward) ==
    LET order == EffectiveOrder(sort)
        traversal == IF backward THEN FlipOrder(order) ELSE order
        matching == {row \in Present : KeysetPredicate(traversal, cursor.values, row)}
        goesOn == backward = walk.backward
    IN  /\ cursor # None /\ CursorMatchesOrder(cursor, order)
        /\ Answer(order, Sorted(traversal, matching), ClampPageSize(size), backward, ~backward,
                  IF goesOn THEN walk.ids ELSE << >>,
                  IF goesOn THEN walk.from
                  ELSE IF backward THEN page.rows[1] ELSE page.rows[Len(page.rows)])
        /\ touched' = IF goesOn THEN touched ELSE {}

List ==
    /\ pages < MaxPages
    /\ pages' = pages + 1
    /\ \E sort \in Sorts, size \in PageSizes :
         \/ \E number \in 1..2 : FirstPage(sort, size, number)
         \/ FollowCursor(sort, size, page.next, FALSE)
         \/ FollowCursor(sort, size, page.prev, TRUE)
    /\ UNCHANGED <<table, edits>>

\* Another client inserts, updates or deletes a row.
Edit ==
    /\ edits < MaxEdits
    /\ edits' = edits + 1
    /\ \E id \in Ids, content \in Contents \cup {Absent} :
         /\ content # table[id]
         /\ table' = [table EXCEPT ![id] = content]
         /\ touched' = touched \cup {id}
    /\ UNCHANGED <<page, walk, pages>>

Next == List \/ Edit

Spec == Init /\ [][Next]_vars

-----------------------------------------------------------------------------
\* The rows a walk has passed: those after where it began and not beyond the last
\* row it read; all of those after where it began once it was told of no more.
Passed(row) ==
    LET traversal == IF walk.backward THEN FlipOrder(walk.order) ELSE walk.order IN
    /\ walk.from # None => RowBefore(traversal, walk.from, row)
    /\ walk.more => walk.to # None /\ ~RowBefore(traversal, walk.to, row)

\* A walk in one direction reads every row it passes exactly once, whatever others
\* insert, update and delete meanwhile; only rows edited during it may be missed or
\* seen twice.  NULLs, ties, page sizes that change and turns included.
WalkIsGapless ==
    pages > 0 => \A id \in Ids \ touched : table[id] # Absent =>
        LET seen == {i \in 1..Len(walk.ids) : walk.ids[i] = id} IN
        IF Passed(Row(id)) THEN Cardinality(seen) = 1 ELSE seen = {}

\* A page that is offered exists: until a row is edited, following `next` of a page
\* read forwards, or `prev` of one read backwards, finds a row, and a page that
\* offers none was the last in its direction.
OfferedPagesExist ==
    pages > 0 /\ touched = {} /\ page.rows # << >> =>
        LET onward == IF walk.backward THEN page.prev ELSE page.next
            traversal == IF walk.backward THEN FlipOrder(walk.order) ELSE walk.order
            edge == IF walk.backward THEN page.rows[1] ELSE Last(page.rows)
        IN  onward # None <=> \E row \in Present : RowBefore(traversal, edge, row)
=============================================================================
