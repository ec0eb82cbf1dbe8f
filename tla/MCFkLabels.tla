------------------------------ MODULE MCFkLabels ------------------------------
(***************************************************************************)
(* Two renders of detail pages over two target tables: a plain one, whose  *)
(* rows also have a unique code, and one with a key of two columns.        *)
(***************************************************************************)
EXTENDS FkLabels

CONSTANTS a, b, x, r1, r2

MCTables ==
    [customers |-> [primaryKey |-> <<"id">>, displayField |-> "name"],
     seats     |-> [primaryKey |-> <<"hall", "no">>, displayField |-> "name"]]

Customer(v) == <<"customers", <<v>>>>
Seat(v, w) == <<"seats", <<v, w>>>>

MCKeys == {Customer(a), Customer(b), Seat(a, b), Seat(b, a)}

\* Customer a has code b, and b has code a.
MCAlternate == [k \in MCKeys |-> IF k = Customer(a) THEN b ELSE a]

MCWritten == {Customer(a), Seat(b, a)}

MCDatabases == {[k \in MCKeys |-> x]}

To(table, fields, columns) == [table |-> table, fields |-> fields, columns |-> columns]
Single(field) == To("customers", <<field>>, <<"id">>)

Row == [buyer |-> a, code |-> a, no |-> a, desk |-> a, hall |-> b, gone |-> a]

MCPages ==
    {\* one value twice: a reference to a row by its id, and by its code
     [relations |-> <<Single("buyer"), To("customers", <<"code">>, <<"code">>)>>, row |-> Row],
     \* a composite key in another order, one that shares its first column with
     \* a single one, and a table that is not there
     [relations |-> <<Single("no"),
                      To("seats", <<"desk", "hall">>, <<"no", "hall">>),
                      To("seats", <<"no", "hall">>, <<"no", "hall">>),
                      To("dropped", <<"gone">>, <<"id">>)>>, row |-> Row]}
=============================================================================
