-------------------------------- MODULE Keyset --------------------------------
(***************************************************************************)
(* The keyset predicate of the REST API (packages/api/src/query-builder.ts)*)
(* as an operator on rows, next to the order PostgreSQL sorts by.  A row   *)
(* gives every field a value or NULL; a comparison with NULL is not true.  *)
(***************************************************************************)
EXTENDS Integers, Sequences

CONSTANTS
    Fields,    \* columns of the resource
    Nullable,  \* those that accept NULL
    NULL

ASSUME KeysetAssumption == Nullable \subseteq Fields /\ NULL \notin Int

Value == Int \cup {NULL}
Rows == {row \in [Fields -> Value] : \A f \in Fields \ Nullable : row[f] # NULL}

\* CursorOrderKey: a column and its direction.
OrderKey == [field : Fields, desc : BOOLEAN]
Order == Seq(OrderKey)

\* What a cursor keeps of its boundary row.
KeyOf(order, row) == [i \in DOMAIN order |-> row[order[i].field]]

\* The reversed traversal of a `before` cursor.
FlipOrder(order) == [i \in DOMAIN order |-> [order[i] EXCEPT !.desc = ~@]]

-----------------------------------------------------------------------------
(* PostgreSQL.                                                             *)

SqlEq(x, y) == x # NULL /\ y # NULL /\ x = y
SqlLess(x, y) == x # NULL /\ y # NULL /\ x < y

\* ASC puts NULLs last and DESC puts them first.
SortsBefore(key, x, y) ==
    IF key.desc THEN SqlLess(y, x) \/ (x = NULL /\ y # NULL)
                ELSE SqlLess(x, y) \/ (x # NULL /\ y = NULL)

\* ORDER BY: the first key on which two rows differ decides.
RowBefore(order, r, s) ==
    \E i \in DOMAIN order :
        /\ SortsBefore(order[i], r[order[i].field], s[order[i].field])
        /\ \A j \in 1..(i - 1) : r[order[j].field] = s[order[j].field]

-----------------------------------------------------------------------------
(* buildKeysetPredicate: v is the boundary's value and x the row's.        *)

AfterIsEmpty(key, v) == key.field \in Nullable /\ v = NULL /\ ~key.desc

\* Mutant: NULL boundaries are compared like values.
PlainEq(field, v, x) == SqlEq(x, v)
EqPredicate(field, v, x) ==
    IF field \in Nullable /\ v = NULL THEN x = NULL ELSE SqlEq(x, v)

\* Mutant: ascending, the NULLs that sort last are forgotten.
AfterWithoutNulls(key, v, x) ==
    IF key.field \in Nullable /\ v = NULL THEN x # NULL
    ELSE IF key.desc THEN SqlLess(x, v) ELSE SqlLess(v, x)
AfterPredicate(key, v, x) ==
    IF key.field \in Nullable /\ v = NULL THEN x # NULL
    ELSE IF key.desc THEN SqlLess(x, v)
    ELSE SqlLess(v, x) \/ (key.field \in Nullable /\ x = NULL)

KeysetPredicate(order, values, row) ==
    \E i \in DOMAIN order :
        /\ ~AfterIsEmpty(order[i], values[i])
        /\ AfterPredicate(order[i], values[i], row[order[i].field])
        /\ \A j \in 1..(i - 1) : EqPredicate(order[j].field, values[j], row[order[j].field])
=============================================================================
