---------------------------- MODULE MCKeysetPaging ----------------------------
(* A small instance of KeysetPaging for TLC. *)
EXTENDS KeysetPaging

Key(f, d) == [field |-> f, desc |-> d]

\* Unsorted, by a nullable column either way, and by it before the key descending.
MCSorts == {<< >>, <<Key("amount", FALSE)>>, <<Key("amount", TRUE), Key("id", TRUE)>>}

MCContents == [{"amount"} -> {1, 2, NULL}]
MCFields == {"id", "amount"}
MCNullable == {"amount"}
=============================================================================
