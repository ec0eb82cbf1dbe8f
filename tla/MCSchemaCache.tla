---------------------------- MODULE MCSchemaCache ----------------------------
(* Small instances of SchemaCache for TLC. *)
EXTENDS SchemaCache

CONSTANTS t1, t2

\* Two tables that refer to each other.
MutualReferences == {<<t1, t2>>, <<t2, t1>>}
=============================================================================
