-------------------------------- MODULE Lists --------------------------------
(***************************************************************************)
(* What is selected of a list, its order kept.  SelectSeq would do, but no *)
(* prover knows anything of it.                                            *)
(***************************************************************************)
EXTENDS Integers, FiniteSets, Sequences

\* The numbers of a finite set in ascending order.
Ascending(S) ==
    [k \in 1 .. Cardinality(S) |-> CHOOSE i \in S : Cardinality({j \in S : j < i}) = k - 1]

\* The elements of a list at some positions, and those that are in a set.
Selected(seq, positions) ==
    LET at == Ascending(positions) IN [k \in DOMAIN at |-> seq[at[k]]]
Keep(seq, S) == Selected(seq, {i \in DOMAIN seq : seq[i] \in S})
==============================================================================
