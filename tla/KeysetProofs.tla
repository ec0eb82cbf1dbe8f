----------------------------- MODULE KeysetProofs -----------------------------
(***************************************************************************)
(* For every set of columns, every order and all rows: the predicate the   *)
(* API sends selects exactly the rows PostgreSQL sorts after the boundary, *)
(* the flipped order is the reverse one, and an order that has the key is  *)
(* total; so that paging through a resource that others edit skips and     *)
(* repeats no row, whatever its size, its NULLs and the page sizes.        *)
(***************************************************************************)
EXTENDS KeysetPaging, FiniteSetTheorems, SequenceTheorems, NaturalsInduction,
        WellFoundedInduction, TLAPS

\* What a component of a row can be.
LEMMA RowValues ==
    ASSUME NEW row \in Rows, NEW f \in Fields
    PROVE  row[f] \in Value /\ (f \notin Nullable => row[f] # NULL)
BY DEF Rows

\* The equality test of the predicate, against a value of the same column, is equality.
LEMMA EqIsEquality ==
    ASSUME NEW f \in Fields, NEW r \in Rows, NEW s \in Rows
    PROVE  EqPredicate(f, r[f], s[f]) <=> r[f] = s[f]
BY RowValues DEF EqPredicate, SqlEq

\* Where it is not skipped, the strictly-after test is PostgreSQL's sort order; where
\* it is skipped, nothing sorts after.
LEMMA AfterIsSortsBefore ==
    ASSUME NEW key \in OrderKey, NEW r \in Rows, NEW s \in Rows
    PROVE  ~AfterIsEmpty(key, r[key.field]) /\ AfterPredicate(key, r[key.field], s[key.field])
           <=> SortsBefore(key, r[key.field], s[key.field])
<1>1. key.field \in Fields /\ key.desc \in BOOLEAN  BY DEF OrderKey
<1>2. /\ r[key.field] \in Value /\ s[key.field] \in Value
      /\ key.field \notin Nullable => r[key.field] # NULL /\ s[key.field] # NULL
  BY <1>1, RowValues
<1> QED  BY <1>1, <1>2, KeysetAssumption
         DEF AfterIsEmpty, AfterPredicate, SortsBefore, SqlLess, Value

\* The components of an order.
LEMMA OrderKeys ==
    ASSUME NEW order \in Order, NEW i \in DOMAIN order
    PROVE  /\ order[i] \in OrderKey /\ order[i].field \in Fields /\ i \in Nat \ {0}
           /\ \A j \in 1..(i - 1) : j \in DOMAIN order
<1>1. order[i] \in OrderKey /\ i \in 1..Len(order) /\ Len(order) \in Nat
  BY DEF Order
<1>2. \A k \in OrderKey : k.field \in Fields  BY DEF OrderKey
<1>3. DOMAIN order = 1..Len(order)  BY DEF Order
<1> QED  BY <1>1, <1>2, <1>3

\* The WHERE clause of a cursor (buildKeysetPredicate) selects a row iff ORDER BY
\* sorts it after the boundary row, NULLs and ties included.
THEOREM PredicateIsTheOrder ==
    ASSUME NEW order \in Order, NEW r \in Rows, NEW s \in Rows
    PROVE  KeysetPredicate(order, KeyOf(order, r), s) <=> RowBefore(order, r, s)
<1> DEFINE f(i) == order[i].field
<1>1. ASSUME NEW i \in DOMAIN order
      PROVE  /\ ~AfterIsEmpty(order[i], r[f(i)]) /\ AfterPredicate(order[i], r[f(i)], s[f(i)])
                <=> SortsBefore(order[i], r[f(i)], s[f(i)])
             /\ EqPredicate(f(i), r[f(i)], s[f(i)]) <=> r[f(i)] = s[f(i)]
  BY <1>1, OrderKeys, AfterIsSortsBefore, EqIsEquality
<1>2. \A i \in DOMAIN order : KeyOf(order, r)[i] = r[f(i)]
  BY DEF KeyOf
<1>3. \A i \in DOMAIN order : \A j \in 1..(i - 1) : j \in DOMAIN order
  BY OrderKeys
<1> QED  BY <1>1, <1>2, <1>3 DEF KeysetPredicate, RowBefore

\* Reversing one key reverses its comparison.
LEMMA FlippedKey ==
    ASSUME NEW key \in OrderKey, NEW x \in Value, NEW y \in Value
    PROVE  SortsBefore([key EXCEPT !.desc = ~@], x, y) <=> SortsBefore(key, y, x)
BY KeysetAssumption DEF OrderKey, SortsBefore, SqlLess, Value

\* What flipOrder leaves and what it changes.
LEMMA FlippedOrder ==
    ASSUME NEW order \in Order
    PROVE  /\ FlipOrder(order) \in Order
           /\ DOMAIN FlipOrder(order) = DOMAIN order
           /\ \A i \in DOMAIN order : /\ FlipOrder(order)[i] = [order[i] EXCEPT !.desc = ~@]
                                      /\ FlipOrder(order)[i].field = order[i].field
<1>1. \A i \in DOMAIN order : order[i] \in OrderKey  BY OrderKeys
<1>2. \A k \in OrderKey : /\ [k EXCEPT !.desc = ~@] \in OrderKey
                          /\ [k EXCEPT !.desc = ~@].field = k.field
  BY DEF OrderKey
<1>3. PICK n \in Nat : DOMAIN order = 1..n  BY DEF Order
<1>4. FlipOrder(order) = [i \in 1..n |-> [order[i] EXCEPT !.desc = ~@]]  BY <1>3 DEF FlipOrder
<1>5. FlipOrder(order) \in [1..n -> OrderKey]  BY <1>1, <1>2, <1>3, <1>4
<1>6. FlipOrder(order) \in Order  BY <1>5, <1>3 DEF Order
<1> QED  BY <1>1, <1>2, <1>3, <1>4, <1>6

\* A `before` page walks the exact reverse of the order (flipOrder), NULL placement
\* included.
THEOREM FlipReverses ==
    ASSUME NEW order \in Order, NEW r \in Rows, NEW s \in Rows
    PROVE  RowBefore(FlipOrder(order), r, s) <=> RowBefore(order, s, r)
<1> DEFINE flip == FlipOrder(order)
           f(i) == order[i].field
<1>1. ASSUME NEW i \in DOMAIN order
      PROVE  SortsBefore(flip[i], r[f(i)], s[f(i)]) <=> SortsBefore(order[i], s[f(i)], r[f(i)])
  <2>1. order[i] \in OrderKey /\ f(i) \in Fields  BY OrderKeys
  <2>2. r[f(i)] \in Value /\ s[f(i)] \in Value  BY <2>1, RowValues
  <2>3. flip[i] = [order[i] EXCEPT !.desc = ~@]  BY <1>1, FlippedOrder
  <2> HIDE DEF flip, f
  <2> QED  BY <2>1, <2>2, <2>3, FlippedKey
<1>2. DOMAIN flip = DOMAIN order /\ \A i \in DOMAIN order : flip[i].field = f(i)
  BY FlippedOrder
<1>3. \A i \in DOMAIN order : \A j \in 1..(i - 1) : j \in DOMAIN order
  BY OrderKeys
<1> HIDE DEF flip
<1>4. RowBefore(flip, r, s) <=> RowBefore(order, s, r)
  BY <1>1, <1>2, <1>3 DEF RowBefore
<1> QED  BY <1>4 DEF flip

\* A column distinguishes its values: of two different ones, one sorts first.
LEMMA KeyIsTotal ==
    ASSUME NEW key \in OrderKey, NEW x \in Value, NEW y \in Value, x # y
    PROVE  SortsBefore(key, x, y) \/ SortsBefore(key, y, x)
BY KeysetAssumption DEF OrderKey, SortsBefore, SqlLess, Value

\* The effective order ends in the primary key, so two rows with different keys are
\* never tied: the boundary of a page is unambiguous.
THEOREM OrderIsTotal ==
    ASSUME NEW order \in Order, NEW r \in Rows, NEW s \in Rows,
           \E i \in DOMAIN order : r[order[i].field] # s[order[i].field]
    PROVE  RowBefore(order, r, s) \/ RowBefore(order, s, r)
<1> DEFINE Differ == {i \in DOMAIN order : r[order[i].field] # s[order[i].field]}
<1>1. Differ \subseteq Nat /\ Differ # {}  BY OrderKeys
<1>2. PICK i \in Differ : \A j \in Differ : <<j, i>> \notin OpToRel(<, Nat)
  BY <1>1, NatLessThanWellFounded, WFMin
<1>3. i \in DOMAIN order /\ i \in Nat /\ order[i] \in OrderKey /\ order[i].field \in Fields
  BY <1>2, OrderKeys
<1>4. \A j \in 1..(i - 1) : r[order[j].field] = s[order[j].field]
  <2> TAKE j \in 1..(i - 1)
  <2>1. j \in DOMAIN order /\ j \in Nat /\ j < i  BY <1>3, OrderKeys
  <2>2. j \notin Differ  BY <1>2, <1>3, <2>1 DEF OpToRel
  <2> QED  BY <2>1, <2>2
<1>5. r[order[i].field] \in Value /\ s[order[i].field] \in Value  BY <1>3, RowValues
<1>6. \/ SortsBefore(order[i], r[order[i].field], s[order[i].field])
      \/ SortsBefore(order[i], s[order[i].field], r[order[i].field])
  BY <1>2, <1>3, <1>5, KeyIsTotal
<1> QED  BY <1>3, <1>4, <1>6 DEF RowBefore

-----------------------------------------------------------------------------
(* The order of a page is a strict one.                                    *)

LEMMA KeyIsTransitive ==
    ASSUME NEW key \in OrderKey, NEW x \in Value, NEW y \in Value, NEW z \in Value
    PROVE  /\ ~SortsBefore(key, x, x)
           /\ SortsBefore(key, x, y) /\ SortsBefore(key, y, z) => SortsBefore(key, x, z)
BY KeysetAssumption DEF OrderKey, SortsBefore, SqlLess, Value

LEMMA Irreflexive ==
    ASSUME NEW order \in Order, NEW r \in Rows
    PROVE  ~RowBefore(order, r, r)
<1>1. ASSUME NEW i \in DOMAIN order
      PROVE  ~SortsBefore(order[i], r[order[i].field], r[order[i].field])
  <2>1. order[i] \in OrderKey /\ r[order[i].field] \in Value  BY OrderKeys, RowValues
  <2> QED  BY <2>1, KeyIsTransitive
<1> QED  BY <1>1 DEF RowBefore

LEMMA Transitive ==
    ASSUME NEW order \in Order, NEW r \in Rows, NEW s \in Rows, NEW t \in Rows,
           RowBefore(order, r, s), RowBefore(order, s, t)
    PROVE  RowBefore(order, r, t)
<1> DEFINE f(i) == order[i].field
           less(i, u, v) == SortsBefore(order[i], u[f(i)], v[f(i)])
           same(i, u, v) == \A j \in 1..(i - 1) : u[f(j)] = v[f(j)]
<1>1. PICK i \in DOMAIN order : less(i, r, s) /\ same(i, r, s)  BY DEF RowBefore
<1>2. PICK k \in DOMAIN order : less(k, s, t) /\ same(k, s, t)  BY DEF RowBefore
<1>3. i \in Nat \ {0} /\ k \in Nat \ {0}  BY OrderKeys
<1>4. \A j \in DOMAIN order : /\ order[j] \in OrderKey
                              /\ r[f(j)] \in Value /\ s[f(j)] \in Value /\ t[f(j)] \in Value
  BY OrderKeys, RowValues
<1>5. CASE i = k
  <2>1. less(i, r, t)  BY <1>1, <1>2, <1>4, <1>5, KeyIsTransitive
  <2>2. same(i, r, t)  BY <1>1, <1>2, <1>5
  <2> QED  BY <2>1, <2>2 DEF RowBefore
<1>6. CASE i < k
  <2>1. i \in 1..(k - 1)  BY <1>3, <1>6
  <2>2. less(i, r, t)  BY <1>1, <1>2, <2>1
  <2>3. \A j \in 1..(i - 1) : j \in 1..(k - 1)  BY <1>3, <1>6
  <2>4. same(i, r, t)  BY <1>1, <1>2, <2>3
  <2> QED  BY <2>2, <2>4 DEF RowBefore
<1>7. CASE k < i
  <2>1. k \in 1..(i - 1)  BY <1>3, <1>7
  <2>2. less(k, r, t)  BY <1>1, <1>2, <2>1
  <2>3. \A j \in 1..(k - 1) : j \in 1..(i - 1)  BY <1>3, <1>7
  <2>4. same(k, r, t)  BY <1>1, <1>2, <2>3
  <2> QED  BY <2>2, <2>4 DEF RowBefore
<1> QED  BY <1>3, <1>5, <1>6, <1>7

\* An order a page is read in: the primary key is among its columns.
Complete(order) == order \in Order /\ \E i \in DOMAIN order : order[i].field = "id"

\* What the rows of a table are to that order: finitely many, told apart by their keys.
Keyed(rows) == /\ rows \subseteq Rows /\ IsFiniteSet(rows)
               /\ \A r, s \in rows : r["id"] = s["id"] => r = s

LEMMA StrictOrder ==
    ASSUME NEW order, Complete(order), NEW r \in Rows, NEW s \in Rows
    PROVE  /\ RowBefore(order, r, s) => ~RowBefore(order, s, r)
           /\ r["id"] # s["id"] => RowBefore(order, r, s) \/ RowBefore(order, s, r)
<1>1. order \in Order  BY DEF Complete
<1>2. RowBefore(order, r, s) => ~RowBefore(order, s, r)
  BY <1>1, Irreflexive, Transitive
<1>3. r["id"] # s["id"] => \E i \in DOMAIN order : r[order[i].field] # s[order[i].field]
  BY DEF Complete
<1> QED  BY <1>1, <1>2, <1>3, OrderIsTotal

LEMMA FlippedIsComplete ==
    ASSUME NEW order, Complete(order)
    PROVE  Complete(FlipOrder(order))
BY FlippedOrder DEF Complete

-----------------------------------------------------------------------------
(* ORDER BY over a set of rows.                                            *)

\* A row sorts at the place that the number of the rows before it says.
LEMMA Ranks ==
    ASSUME NEW order, Complete(order), NEW rows, Keyed(rows)
    PROVE  \E rank \in Bijection(rows, 1..Cardinality(rows)) :
              \A r, s \in rows : RowBefore(order, r, s) => rank[r] < rank[s]
<1> DEFINE n == Cardinality(rows)
           below(r) == {s \in rows : RowBefore(order, s, r)}
           rank == [r \in rows |-> Cardinality(below(r)) + 1]
<1>1. order \in Order /\ rows \subseteq Rows /\ IsFiniteSet(rows) /\ n \in Nat
  BY FS_CardinalityType DEF Complete, Keyed
<1>2. ASSUME NEW r \in rows
      PROVE  /\ IsFiniteSet(below(r)) /\ Cardinality(below(r)) \in Nat
             /\ Cardinality(below(r)) < n
  <2>1. below(r) \in SUBSET rows  OBVIOUS
  <2>2. r \notin below(r)  BY <1>1, Irreflexive
  <2>3. below(r) # rows  BY <2>2
  <2>4. /\ IsFiniteSet(below(r)) /\ Cardinality(below(r)) <= n
        /\ n = Cardinality(below(r)) => rows = below(r)
    BY <1>1, <2>1, FS_Subset
  <2>5. Cardinality(below(r)) \in Nat  BY <2>4, FS_CardinalityType
  <2> HIDE DEF below, n
  <2> QED  BY <1>1, <2>3, <2>4, <2>5
<1>3. ASSUME NEW r \in rows, NEW s \in rows, RowBefore(order, r, s)
      PROVE  rank[r] < rank[s]
  <2>1. ASSUME NEW t \in below(r)  PROVE t \in below(s)
    <3>1. t \in Rows /\ r \in Rows /\ s \in Rows /\ RowBefore(order, t, r)  BY <1>1
    <3>2. RowBefore(order, t, s)  BY <1>1, <1>3, <3>1, Transitive
    <3> QED  BY <3>2
  <2>2. r \in below(s) /\ r \notin below(r)  BY <1>1, <1>3, Irreflexive
  <2>3. below(r) # below(s)  BY <2>2
  <2>4. /\ Cardinality(below(r)) <= Cardinality(below(s))
        /\ Cardinality(below(s)) = Cardinality(below(r)) => below(s) = below(r)
    <3>1. below(r) \in SUBSET below(s)  BY <2>1
    <3>2. IsFiniteSet(below(s))  BY <1>2
    <3> HIDE DEF below, rank, n
    <3> QED  BY <3>1, <3>2, FS_Subset
  <2>5. rank[r] = Cardinality(below(r)) + 1 /\ rank[s] = Cardinality(below(s)) + 1  OBVIOUS
  <2>6. Cardinality(below(r)) \in Nat /\ Cardinality(below(s)) \in Nat  BY <1>2
  <2> HIDE DEF below, rank
  <2> QED  BY <2>3, <2>4, <2>5, <2>6
<1>4. rank \in [rows -> 1..n]
  <2>1. ASSUME NEW r \in rows  PROVE Cardinality(below(r)) + 1 \in 1..n
    <3>1. Cardinality(below(r)) \in Nat /\ Cardinality(below(r)) < n  BY <1>2
    <3> HIDE DEF below, rank, n
    <3> QED  BY <1>1, <3>1
  <2> QED  BY <2>1
<1>5. \A r, s \in rows : r # s => rank[r] # rank[s]
  <2> TAKE r, s \in rows
  <2> HAVE r # s
  <2>1. RowBefore(order, r, s) \/ RowBefore(order, s, r)
    BY <1>1, StrictOrder DEF Keyed
  <2>2. rank[r] \in 1..n /\ rank[s] \in 1..n  BY <1>4
  <2> HIDE DEF rank
  <2>3. rank[r] < rank[s] \/ rank[s] < rank[r]  BY <1>3, <2>1
  <2> QED  BY <2>2, <2>3
<1>6. rank \in Injection(rows, 1..n)  BY <1>4, <1>5 DEF Injection, IsInjective
<1>7. IsFiniteSet(1..n) /\ Cardinality(1..n) = n  BY <1>1, FS_Interval
<1> HIDE DEF rank
<1>8. rank \in Surjection(rows, 1..n)  BY <1>6, <1>7, FS_Injection
<1> QED  BY <1>3, <1>6, <1>8 DEF Bijection

\* Beyond a boundary, None for the beginning.
After(order, from, row) == from # None => RowBefore(order, from, row)

\* What a query answers with: the rows beyond a boundary, each at its place.
Reads(order, rows, from, answer) ==
    /\ answer \in Seq(rows)
    /\ \A i, j \in 1..Len(answer) : i < j => RowBefore(order, answer[i], answer[j])
    /\ \A i \in 1..Len(answer) : After(order, from, answer[i])
    /\ \A row \in rows : After(order, from, row) => \E i \in 1..Len(answer) : answer[i] = row

\* Every row of a set, in order.
Lists(order, rows, answer) ==
    /\ answer \in Seq(rows)
    /\ \A i, j \in 1..Len(answer) : i < j => RowBefore(order, answer[i], answer[j])
    /\ \A row \in rows : \E i \in 1..Len(answer) : answer[i] = row

\* ORDER BY lists the rows, each at its place.
LEMMA SortedLists ==
    ASSUME NEW order, Complete(order), NEW rows, Keyed(rows)
    PROVE  Lists(order, rows, Sorted(order, rows))
<1> DEFINE n == Cardinality(rows)
           listed(s) == /\ IsInjective(s)
                        /\ \A i, j \in DOMAIN s : i < j => ~RowBefore(order, s[j], s[i])
           m == Sorted(order, rows)
<1>1. rows \subseteq Rows /\ IsFiniteSet(rows) /\ n \in Nat
  BY FS_CardinalityType DEF Keyed
<1>2. \E s \in [1..n -> rows] : listed(s)
  <2>1. PICK rank \in Bijection(rows, 1..n) :
                \A r, s \in rows : RowBefore(order, r, s) => rank[r] < rank[s]
    BY Ranks
  <2>2. rank \in [rows -> 1..n] /\ \A i \in 1..n : \E r \in rows : rank[r] = i
    BY <2>1 DEF Bijection, Surjection
  <2> DEFINE s == [i \in 1..n |-> CHOOSE r \in rows : rank[r] = i]
  <2>3. s \in [1..n -> rows] /\ \A i \in 1..n : rank[s[i]] = i
    BY <2>2
  <2> HIDE DEF s, n
  <2>4. \A i, j \in 1..n : s[i] = s[j] => i = j
    BY <2>3
  <2>5. ASSUME NEW i \in 1..n, NEW j \in 1..n, i < j  PROVE ~RowBefore(order, s[j], s[i])
    <3>1. s[i] \in rows /\ s[j] \in rows /\ rank[s[i]] = i /\ rank[s[j]] = j  BY <2>3
    <3>2. RowBefore(order, s[j], s[i]) => j < i  BY <2>1, <3>1
    <3> QED  BY <1>1, <2>5, <3>2
  <2>6. listed(s)  BY <2>3, <2>4, <2>5 DEF IsInjective
  <2> QED  BY <2>3, <2>6
<1>3. m = CHOOSE s \in [1..n -> rows] : listed(s)  BY DEF Sorted
<1>4. m \in [1..n -> rows] /\ listed(m)
  <2> HIDE DEF listed, m, n
  <2> QED  BY <1>2, <1>3
<1> HIDE DEF m, n
<1>5. m \in Seq(rows) /\ Len(m) = n  BY <1>1, <1>4
<1>6. \A row \in rows : \E i \in 1..n : m[i] = row
  <2>1. m \in Injection(1..n, rows)  BY <1>4 DEF Injection
  <2>2. Cardinality(1..n) = Cardinality(rows)  BY <1>1, FS_Interval DEF n
  <2>3. m \in Surjection(1..n, rows)  BY <1>1, <2>1, <2>2, FS_Injection
  <2> QED  BY <2>3 DEF Surjection
<1>7. ASSUME NEW i \in 1..n, NEW j \in 1..n, i < j  PROVE RowBefore(order, m[i], m[j])
  <2>1. m[i] \in rows /\ m[j] \in rows /\ m[i] # m[j] /\ ~RowBefore(order, m[j], m[i])
    BY <1>1, <1>4, <1>7 DEF IsInjective
  <2>2. m[i]["id"] # m[j]["id"]  BY <2>1 DEF Keyed
  <2> QED  BY <1>1, <2>1, <2>2, StrictOrder
<1>8. Lists(order, rows, m)  BY <1>5, <1>6, <1>7 DEF Lists
<1> QED  BY <1>8 DEF m

\* The first page of a listing, whatever OFFSET skips, reads on from what was skipped.
LEMMA OffsetReads ==
    ASSUME NEW order, Complete(order), NEW rows, Keyed(rows), NEW skipped \in Nat
    PROVE  LET sorted == Sorted(order, rows)
               from == IF skipped = 0 \/ sorted = << >> THEN None
                       ELSE Last(Limited(sorted, skipped))
           IN  /\ Reads(order, rows, from, SubSeq(sorted, skipped + 1, Len(sorted)))
               /\ from \in rows \cup {None}
<1> DEFINE sorted == Sorted(order, rows)
           n == Len(sorted)
           k == IF n < skipped THEN n ELSE skipped
           from == IF skipped = 0 \/ sorted = << >> THEN None ELSE Last(Limited(sorted, skipped))
           m == SubSeq(sorted, skipped + 1, n)
<1>1. /\ sorted \in Seq(rows) /\ n \in Nat
      /\ \A i, j \in 1..n : i < j => RowBefore(order, sorted[i], sorted[j])
      /\ \A row \in rows : \E i \in 1..n : sorted[i] = row
      /\ \A i \in 1..n : sorted[i] \in rows
  <2>1. Lists(order, rows, sorted)  BY SortedLists
  <2> HIDE DEF sorted
  <2> QED  BY <2>1, LenProperties, ElementOfSeq DEF Lists
<1>2. rows \subseteq Rows /\ None \notin rows  BY KeysetPagingAssumption DEF Keyed
<1> HIDE DEF sorted
<1>3. /\ m \in Seq(rows)
      /\ Len(m) = IF skipped + 1 <= n THEN n - skipped ELSE 0
      /\ \A i \in 1..(n - skipped) : m[i] = sorted[skipped + i]
  <2>1. skipped + 1 \in Int /\ n \in Int  BY <1>1
  <2>2. \A i \in (skipped + 1)..n : sorted[i] \in rows  BY <1>1
  <2>3. /\ m \in Seq(rows)
        /\ Len(m) = IF skipped + 1 <= n THEN n - (skipped + 1) + 1 ELSE 0
        /\ \A i \in 1..(n - (skipped + 1) + 1) : m[i] = sorted[skipped + 1 + i - 1]
    <3> HIDE DEF n
    <3> QED  BY <2>1, <2>2, SubSeqProperties
  <2> HIDE DEF m, n
  <2>4. n - (skipped + 1) + 1 = n - skipped  BY <2>1
  <2>5. \A i \in 1..(n - skipped) : skipped + 1 + i - 1 = skipped + i  BY <2>1
  <2> QED  BY <2>3, <2>4, <2>5
<1> HIDE DEF m
<1>4. k \in 0..n /\ k <= skipped /\ (k = 0 <=> skipped = 0 \/ n = 0)
  BY <1>1
<1>5. IF skipped = 0 \/ n = 0 THEN from = None ELSE from = sorted[k] /\ k \in 1..n
  <2>1. CASE skipped = 0 \/ n = 0
    <3>1. n = 0 => sorted = << >>  BY <1>1, EmptySeq
    <3> QED  BY <2>1, <3>1
  <2>2. CASE ~(skipped = 0 \/ n = 0)
    <3>1. k \in 1..n  BY <1>1, <1>4, <2>2
    <3>2. Limited(sorted, skipped) = SubSeq(sorted, 1, k)  BY DEF Limited
    <3>3. Len(SubSeq(sorted, 1, k)) = k /\ SubSeq(sorted, 1, k)[k] = sorted[k]
      <4>1. k \in Int /\ 1 <= k  BY <3>1
      <4>2. \A i \in 1..k : sorted[i] \in rows  BY <1>1, <3>1
      <4> HIDE DEF k
      <4>3. Len(SubSeq(sorted, 1, k)) = k - 1 + 1
        BY <4>1, <4>2, SubSeqProperties
      <4>4. \A i \in 1..k - 1 + 1 : SubSeq(sorted, 1, k)[i] = sorted[1 + i - 1]
        BY <4>1, <4>2, SubSeqProperties
      <4>5. k \in 1..k - 1 + 1 /\ k - 1 + 1 = k /\ 1 + k - 1 = k  BY <4>1
      <4> QED  BY <4>3, <4>4, <4>5
    <3>4. sorted # << >>  BY <1>1, <2>2, EmptySeq
    <3> HIDE DEF k
    <3> QED  BY <2>2, <3>1, <3>2, <3>3, <3>4 DEF Last
  <2> QED  BY <2>1, <2>2
<1> HIDE DEF from
<1>6. ASSUME NEW i \in 1..Len(m)
      PROVE  skipped + i \in 1..n /\ m[i] = sorted[skipped + i] /\ i \in Nat /\ k < skipped + i
  <2>1. i \in 1..(n - skipped)  BY <1>1, <1>3
  <2>2. k \in Nat /\ k <= skipped  BY <1>1, <1>4
  <2> HIDE DEF k, n
  <2>3. n \in Nat  BY <1>1 DEF n
  <2> QED  BY <1>3, <2>1, <2>2, <2>3
<1>7. from \in rows \cup {None}  BY <1>1, <1>5
<1>8. ASSUME NEW i \in 1..Len(m), NEW j \in 1..Len(m), i < j
      PROVE  RowBefore(order, m[i], m[j])
  <2>1. skipped + i < skipped + j  BY <1>6, <1>8
  <2> QED  BY <1>1, <1>6, <2>1
<1>9. ASSUME NEW i \in 1..Len(m)  PROVE After(order, from, m[i])
  <2>1. CASE skipped = 0 \/ n = 0  BY <1>5, <2>1 DEF After
  <2>2. CASE ~(skipped = 0 \/ n = 0)
    <3>1. from = sorted[k] /\ k \in 1..n  BY <1>5, <2>2
    <3>2. skipped + i \in 1..n /\ m[i] = sorted[skipped + i] /\ k < skipped + i  BY <1>6
    <3>3. RowBefore(order, sorted[k], sorted[skipped + i])  BY <1>1, <3>1, <3>2
    <3> HIDE DEF k
    <3> QED  BY <3>1, <3>2, <3>3 DEF After
  <2> QED  BY <2>1, <2>2
<1>10. ASSUME NEW row \in rows, After(order, from, row)
       PROVE  \E i \in 1..Len(m) : m[i] = row
  <2>1. PICK j \in 1..n : sorted[j] = row  BY <1>1
  <2>2. skipped < j
    <3>1. CASE skipped = 0 \/ n = 0  BY <1>1, <2>1, <3>1
    <3>2. CASE ~(skipped = 0 \/ n = 0)
      <4>1. from = sorted[k] /\ k \in 1..n /\ from # None  BY <1>1, <1>2, <1>5, <3>2
      <4>2. RowBefore(order, sorted[k], sorted[j])  BY <1>10, <2>1, <4>1 DEF After
      <4>3. order \in Order /\ sorted[j] \in Rows /\ sorted[k] \in Rows  BY <1>1, <1>2, <4>1 DEF Complete
      <4>4. j # k  BY <4>2, <4>3, Irreflexive
      <4>5. ~(j < k)
        <5>1. j < k => RowBefore(order, sorted[j], sorted[k])  BY <1>1, <4>1
        <5> QED  BY <4>2, <4>3, <5>1, StrictOrder
      <4>6. k < j  BY <4>1, <4>4, <4>5
      <4> QED  BY <1>1, <4>6
    <3> QED  BY <3>1, <3>2
  <2>3. j - skipped \in 1..Len(m) /\ j - skipped \in 1..(n - skipped) /\ skipped + (j - skipped) = j
    BY <1>1, <1>3, <2>2
  <2> QED  BY <1>3, <2>1, <2>3
<1>11. Reads(order, rows, from, m)  BY <1>3, <1>8, <1>9, <1>10 DEF Reads
<1> QED  BY <1>7, <1>11 DEF from, m, sorted

\* A page that follows a cursor reads on from the boundary the cursor keeps.
LEMMA CursorReads ==
    ASSUME NEW order, Complete(order), NEW rows, Keyed(rows), NEW from \in Rows
    PROVE  Reads(order, rows, from,
                 Sorted(order, {row \in rows : KeysetPredicate(order, KeyOf(order, from), row)}))
<1>1. order \in Order /\ rows \subseteq Rows /\ IsFiniteSet(rows) /\ from # None
  BY KeysetPagingAssumption DEF Complete, Keyed
<1>2. PICK matching : matching = {row \in rows : KeysetPredicate(order, KeyOf(order, from), row)}
  OBVIOUS
<1>3. /\ matching \subseteq rows
      /\ \A row \in rows : row \in matching <=> After(order, from, row)
  BY <1>1, <1>2, PredicateIsTheOrder DEF After
<1>4. Keyed(matching)
  <2>1. IsFiniteSet(matching)  BY <1>1, <1>3, FS_Subset
  <2> QED  BY <1>3, <2>1 DEF Keyed
<1>5. PICK m : m = Sorted(order, matching)  OBVIOUS
<1>6. Lists(order, matching, m)  BY <1>4, <1>5, SortedLists
<1>7. m \in Seq(rows) /\ \A i \in 1..Len(m) : m[i] \in matching
  BY <1>3, <1>6, SeqMonotonic, ElementOfSeq DEF Lists
<1>8. \A i \in 1..Len(m) : After(order, from, m[i])  BY <1>3, <1>7
<1>9. \A row \in rows : After(order, from, row) => \E i \in 1..Len(m) : m[i] = row
  BY <1>3, <1>6 DEF Lists
<1>10. Reads(order, rows, from, m)  BY <1>6, <1>7, <1>8, <1>9 DEF Reads, Lists
<1> QED  BY <1>2, <1>5, <1>10

-----------------------------------------------------------------------------
(* One page of an answer.                                                  *)

Once(ids, id) ==
    \E i \in 1..Len(ids) : ids[i] = id /\ \A j \in 1..Len(ids) : ids[j] = id => j = i
Never(ids, id) == \A i \in 1..Len(ids) : ids[i] # id

LEMMA SeenOnce ==
    ASSUME NEW ids, Len(ids) \in Nat, NEW id
    PROVE  LET seen == {i \in 1..Len(ids) : ids[i] = id}
           IN  /\ Once(ids, id) => Cardinality(seen) = 1
               /\ Never(ids, id) <=> seen = {}
<1> DEFINE seen == {i \in 1..Len(ids) : ids[i] = id}
<1>1. ASSUME Once(ids, id)  PROVE Cardinality(seen) = 1
  <2>1. PICK i : seen = {i}  BY <1>1 DEF Once
  <2> HIDE DEF seen
  <2> QED  BY <2>1, FS_Singleton
<1>2. Never(ids, id) <=> seen = {}  BY DEF Never
<1> QED  BY <1>1, <1>2

LEMMA JoinedWalks ==
    ASSUME NEW S, NEW a \in Seq(S), NEW b \in Seq(S), NEW id
    PROVE  /\ Never(a, id) /\ Never(b, id) => Never(a \o b, id)
           /\ Once(a, id) /\ Never(b, id) => Once(a \o b, id)
           /\ Never(a, id) /\ Once(b, id) => Once(a \o b, id)
<1>1. PICK n \in Nat : n = Len(a)  BY LenProperties
<1>2. PICK m \in Nat : m = Len(b)  BY LenProperties
<1>3. PICK k \in Nat : k = Len(a \o b) /\ k = n + m
  <2>1. n + m \in Nat  OBVIOUS
  <2>2. Len(a \o b) = n + m  BY <1>1, <1>2, ConcatProperties
  <2> QED  BY <2>1, <2>2
<1>4. \A i \in 1..k : (a \o b)[i] = IF i <= n THEN a[i] ELSE b[i - n]
  BY <1>1, <1>2, <1>3, ConcatProperties
<1>5. PICK c : c = a \o b  OBVIOUS
<1>6. \A i \in 1..n : i \in 1..k /\ c[i] = a[i]
  <2> TAKE i \in 1..n
  <2>1. i \in 1..k /\ i <= n  BY <1>3
  <2> QED  BY <1>4, <1>5, <2>1
<1>7. \A i \in 1..m : i + n \in 1..k /\ c[i + n] = b[i]
  <2> TAKE i \in 1..m
  <2>1. i + n \in 1..k /\ ~(i + n <= n) /\ (i + n) - n = i  BY <1>3
  <2> QED  BY <1>4, <1>5, <2>1
<1>8. \A i \in 1..k : i \in 1..n \/ (i - n \in 1..m /\ c[i] = b[i - n] /\ ~(i <= n))
  <2> TAKE i \in 1..k
  <2>1. i \in 1..n \/ (i - n \in 1..m /\ ~(i <= n))  BY <1>3
  <2> QED  BY <1>4, <1>5, <2>1
<1>9. Never(a, id) /\ Never(b, id) => Never(c, id)
  BY <1>1, <1>2, <1>3, <1>5, <1>6, <1>8 DEF Never
<1>10. ASSUME Once(a, id), Never(b, id)  PROVE Once(c, id)
  <2>1. PICK i \in 1..n : a[i] = id /\ \A j \in 1..n : a[j] = id => j = i
    BY <1>1, <1>10 DEF Once
  <2>2. \A j \in 1..k : c[j] = id => j = i
    BY <1>2, <1>6, <1>8, <1>10, <2>1 DEF Never
  <2> QED  BY <1>3, <1>5, <1>6, <2>1, <2>2 DEF Once
<1>11. ASSUME Never(a, id), Once(b, id)  PROVE Once(c, id)
  <2>1. PICK i \in 1..m : b[i] = id /\ \A j \in 1..m : b[j] = id => j = i
    BY <1>2, <1>11 DEF Once
  <2>2. \A j \in 1..k : c[j] = id => j = i + n
    <3> TAKE j \in 1..k
    <3> HAVE c[j] = id
    <3>1. j \notin 1..n  BY <1>1, <1>6, <1>11 DEF Never
    <3>2. j - n \in 1..m /\ b[j - n] = id  BY <1>8, <3>1
    <3>3. j - n = i  BY <2>1, <3>2
    <3> QED  BY <1>1, <3>3
  <2>3. i + n \in 1..k /\ c[i + n] = id  BY <1>7, <2>1
  <2> QED  BY <1>3, <1>5, <2>2, <2>3 DEF Once
<1> QED  BY <1>5, <1>9, <1>10, <1>11

\* The start of a sequence.
LEMMA LimitedIsAPrefix ==
    ASSUME NEW S, NEW m \in Seq(S), NEW limit \in Nat
    PROVE  /\ Limited(m, limit) \in Seq(S)
           /\ Len(Limited(m, limit)) = IF Len(m) < limit THEN Len(m) ELSE limit
           /\ \A i \in 1..Len(Limited(m, limit)) : Limited(m, limit)[i] = m[i] /\ i \in 1..Len(m)
<1>1. PICK n \in Nat : n = Len(m)  BY LenProperties
<1>2. PICK k \in Nat : k = (IF n < limit THEN n ELSE limit) /\ k <= n  BY <1>1
<1>3. \A i \in 1..k : m[i] \in S  BY <1>1, <1>2, ElementOfSeq
<1>4. /\ SubSeq(m, 1, k) \in Seq(S)
      /\ Len(SubSeq(m, 1, k)) = IF 1 <= k THEN k - 1 + 1 ELSE 0
      /\ \A i \in 1..k - 1 + 1 : SubSeq(m, 1, k)[i] = m[1 + i - 1]
  <2>1. 1 \in Int /\ k \in Int  OBVIOUS
  <2> QED  BY <1>3, <2>1, SubSeqProperties
<1>5. Limited(m, limit) = SubSeq(m, 1, k)  BY <1>1, <1>2 DEF Limited
<1>6. PICK t : t = Limited(m, limit)  OBVIOUS
<1>7. Len(t) = k  BY <1>4, <1>5, <1>6
<1>8. \A i \in 1..k : t[i] = m[i]
  <2> TAKE i \in 1..k
  <2>1. i \in 1..k - 1 + 1 /\ 1 + i - 1 = i  OBVIOUS
  <2> QED  BY <1>4, <1>5, <1>6, <2>1
<1>9. \A i \in 1..k : i \in 1..n  BY <1>2
<1> QED  BY <1>1, <1>2, <1>4, <1>5, <1>6, <1>7, <1>8, <1>9

\* One row more than the page is fetched: whether it is there says whether there is more.
LEMMA PageOfAnswer ==
    ASSUME NEW S, NEW m \in Seq(S), NEW size \in Nat \ {0}
    PROVE  LET fetched == Limited(m, size + 1)
               t == Trimmed(fetched, size)
           IN  /\ t \in Seq(S)
               /\ Len(t) = IF Len(m) < size THEN Len(m) ELSE size
               /\ \A i \in 1..Len(t) : t[i] = m[i] /\ i \in 1..Len(m)
               /\ Len(fetched) > size <=> size < Len(m)
<1> DEFINE fetched == Limited(m, size + 1)
           t == Trimmed(fetched, size)
<1>1. PICK n \in Nat : n = Len(m)  BY LenProperties
<1>2. /\ fetched \in Seq(S)
      /\ Len(fetched) = IF n < size + 1 THEN n ELSE size + 1
      /\ \A i \in 1..Len(fetched) : fetched[i] = m[i] /\ i \in 1..n
  BY <1>1, LimitedIsAPrefix
<1> HIDE DEF fetched
<1>3. /\ t \in Seq(S)
      /\ Len(t) = IF Len(fetched) < size THEN Len(fetched) ELSE size
      /\ \A i \in 1..Len(t) : t[i] = fetched[i] /\ i \in 1..Len(fetched)
  BY <1>2, LimitedIsAPrefix DEF Trimmed
<1> HIDE DEF t
<1>4. Len(t) = IF n < size THEN n ELSE size  BY <1>1, <1>2, <1>3
<1>5. Len(fetched) > size <=> size < n  BY <1>1, <1>2
<1>6. \A i \in 1..Len(t) : t[i] = m[i] /\ i \in 1..n  BY <1>2, <1>3
<1> QED  BY <1>1, <1>3, <1>4, <1>5, <1>6 DEF t, fetched

\* Not beyond the end of what was read, unless that was all.
UpTo(order, more, to, row) == more => to # None /\ ~RowBefore(order, to, row)

\* A page of an answer holds the rows beyond the boundary up to its last one, each once;
\* it is full when there is more, and says so exactly when there is.
LEMMA PageIsGapless ==
    ASSUME NEW order, Complete(order), NEW rows, Keyed(rows), NEW from \in Rows \cup {None},
           NEW m, Reads(order, rows, from, m), NEW size \in Nat \ {0}
    PROVE  LET fetched == Limited(m, size + 1)
               more == Len(fetched) > size
               t == Trimmed(fetched, size)
               to == IF t = << >> THEN None ELSE t[Len(t)]
           IN  /\ t \in Seq(rows)
               /\ more => t # << >>
               /\ t # << >> => /\ to \in rows /\ After(order, from, to)
                               /\ more <=> \E row \in rows : RowBefore(order, to, row)
               /\ \A row \in rows :
                     IF After(order, from, row) /\ UpTo(order, more, to, row)
                     THEN Once(IdsOf(t), row["id"]) ELSE Never(IdsOf(t), row["id"])
<1> DEFINE fetched == Limited(m, size + 1)
           more == Len(fetched) > size
           t == Trimmed(fetched, size)
           to == IF t = << >> THEN None ELSE t[Len(t)]
<1>1. m \in Seq(rows)  BY DEF Reads
<1>2. PICK k \in Nat : k = Len(m)  BY <1>1, LenProperties
<1>3. PICK n \in Nat : n = (IF k < size THEN k ELSE size)  BY <1>2
<1>4. /\ \A i \in 1..k : m[i] \in rows /\ m[i] \in Rows /\ After(order, from, m[i])
      /\ \A i, j \in 1..k : i < j => RowBefore(order, m[i], m[j])
      /\ \A row \in rows : After(order, from, row) => \E i \in 1..k : m[i] = row
  BY <1>1, <1>2, ElementOfSeq DEF Reads, Keyed
<1>5. /\ t \in Seq(rows) /\ Len(t) = n
      /\ \A i \in 1..n : t[i] = m[i] /\ i \in 1..k
      /\ more <=> size < k
  <2>1. /\ t \in Seq(rows)
        /\ Len(t) = IF Len(m) < size THEN Len(m) ELSE size
        /\ \A i \in 1..Len(t) : t[i] = m[i] /\ i \in 1..Len(m)
        /\ more <=> size < Len(m)
    BY <1>1, PageOfAnswer
  <2> HIDE DEF t, more
  <2> QED  BY <1>2, <1>3, <2>1
<1>6. t = << >> <=> n = 0  BY <1>5, EmptySeq
<1>7. order \in Order /\ rows \subseteq Rows /\ None \notin Rows
  BY KeysetPagingAssumption DEF Complete, Keyed
<1>8. IdsOf(t) = [i \in 1..n |-> t[i]["id"]]  BY <1>5 DEF IdsOf
<1> DEFINE ids == [i \in 1..n |-> t[i]["id"]]
<1>9. Len(ids) = n /\ \A i \in 1..n : ids[i] = t[i]["id"]  BY <1>3
<1> HIDE DEF t, more, ids
<1>10. more => n = size /\ n + 1 \in 1..k /\ n \in 1..k /\ t # << >>  BY <1>2, <1>3, <1>5, <1>6
<1>11. ~more => n = k  BY <1>2, <1>3, <1>5
<1>12. t # << >> => n \in 1..n /\ n \in 1..k /\ to = m[n] /\ to \in rows /\ After(order, from, to)
  <2> HAVE t # << >>
  <2>1. n \in 1..n  BY <1>3, <1>6
  <2> QED  BY <1>4, <1>5, <2>1
<1> HIDE DEF to
<1>13. ASSUME NEW i \in 1..k, NEW j \in 1..k, RowBefore(order, m[i], m[j])  PROVE i < j
  <2>1. m[i] \in Rows /\ m[j] \in Rows  BY <1>4
  <2>2. i # j  BY <1>7, <1>13, <2>1, Irreflexive
  <2>3. ~(j < i)
    <3>1. j < i => RowBefore(order, m[j], m[i])  BY <1>4
    <3> QED  BY <1>13, <2>1, <3>1, StrictOrder
  <2> QED  BY <2>2, <2>3
<1>14. ASSUME t # << >>  PROVE more <=> \E row \in rows : RowBefore(order, to, row)
  <2>1. to = m[n] /\ n \in 1..k /\ to \in rows /\ After(order, from, to)  BY <1>12, <1>14
  <2>2. ASSUME more  PROVE \E row \in rows : RowBefore(order, to, row)
    <3>1. n + 1 \in 1..k /\ n < n + 1  BY <1>10, <2>2
    <3>2. m[n + 1] \in rows /\ RowBefore(order, m[n], m[n + 1])  BY <1>4, <2>1, <3>1
    <3> QED  BY <2>1, <3>2
  <2>3. ASSUME ~more, NEW row \in rows, RowBefore(order, to, row)  PROVE FALSE
    <3>1. After(order, from, row)
      <4>1. CASE from = None  BY <4>1 DEF After
      <4>2. CASE from # None
        <5>1. from \in Rows /\ to \in Rows /\ row \in Rows  BY <1>7, <2>1, <4>2
        <5>2. RowBefore(order, from, to)  BY <2>1, <4>2 DEF After
        <5> QED  BY <1>7, <2>3, <5>1, <5>2, Transitive DEF After
      <4> QED  BY <4>1, <4>2
    <3>2. PICK j \in 1..k : m[j] = row  BY <1>4, <3>1
    <3>3. n < j  BY <1>13, <2>1, <2>3, <3>2
    <3> QED  BY <1>2, <1>11, <2>3, <3>3
  <2> QED  BY <2>2, <2>3
<1>15. ASSUME NEW row \in rows
       PROVE  IF After(order, from, row) /\ UpTo(order, more, to, row)
              THEN Once(ids, row["id"]) ELSE Never(ids, row["id"])
  <2>1. \A i \in 1..n : ids[i] = row["id"] => m[i] = row
    BY <1>4, <1>5, <1>9 DEF Keyed
  <2>2. CASE ~After(order, from, row)
    <3>1. Never(ids, row["id"])  BY <1>4, <1>5, <1>9, <2>1, <2>2 DEF Never
    <3> QED  BY <2>2, <3>1
  <2>3. CASE After(order, from, row)
    <3>1. PICK j \in 1..k : m[j] = row  BY <1>4, <2>3
    <3>2. \A i \in 1..k : m[i] = row => i = j
      <4> TAKE i \in 1..k
      <4> HAVE m[i] = row
      <4>1. ~RowBefore(order, row, row)  BY <1>7, Irreflexive
      <4>2. ~(i < j) /\ ~(j < i)  BY <1>4, <3>1, <4>1
      <4> QED  BY <4>2
    <3>3. CASE j \in 1..n
      <4>1. UpTo(order, more, to, row)
        <5> SUFFICES ASSUME more  PROVE to # None /\ ~RowBefore(order, to, row)
          BY DEF UpTo
        <5>1. t # << >> /\ n \in 1..k /\ to = m[n] /\ to \in rows  BY <1>10, <1>12
        <5>2. RowBefore(order, to, row) => n < j  BY <1>13, <3>1, <5>1
        <5> QED  BY <1>3, <1>7, <3>3, <5>1, <5>2
      <4>2. ids[j] = row["id"] /\ \A i \in 1..n : ids[i] = row["id"] => i = j
        BY <1>5, <1>9, <2>1, <3>1, <3>2, <3>3
      <4>3. Once(ids, row["id"])  BY <1>9, <3>3, <4>2 DEF Once
      <4> QED  BY <2>3, <4>1, <4>3
    <3>4. CASE j \notin 1..n
      <4>1. n < j  BY <1>3, <3>1, <3>4
      <4>2. more  BY <1>2, <1>11, <4>1
      <4>3. ~UpTo(order, more, to, row)
        <5>1. to = m[n] /\ n \in 1..k  BY <1>10, <1>12, <4>2
        <5>2. RowBefore(order, to, row)  BY <1>4, <3>1, <4>1, <5>1
        <5> QED  BY <4>2, <5>2 DEF UpTo
      <4>4. Never(ids, row["id"])
        <5> SUFFICES ASSUME NEW i \in 1..n, ids[i] = row["id"]  PROVE FALSE
          BY <1>9 DEF Never
        <5>1. m[i] = row /\ i \in 1..k  BY <1>5, <2>1
        <5> QED  BY <3>2, <3>4, <5>1
      <4> QED  BY <4>3, <4>4
    <3> QED  BY <3>3, <3>4
  <2> QED  BY <2>2, <2>3
<1>16. IdsOf(t) = ids  BY <1>8 DEF ids
<1>17. \A row \in rows :
         IF After(order, from, row) /\ UpTo(order, more, to, row)
         THEN Once(IdsOf(t), row["id"]) ELSE Never(IdsOf(t), row["id"])
  BY <1>15, <1>16
<1> QED  BY <1>5, <1>10, <1>12, <1>14, <1>17 DEF t, more, to, fetched

-----------------------------------------------------------------------------
(* What listResource answers and remembers.                                *)

LEMMA EffectiveOrderIsComplete ==
    ASSUME NEW sort \in Sorts
    PROVE  Complete(EffectiveOrder(sort))
<1>1. sort \in Order /\ "id" \in Fields  BY KeysetPagingAssumption
<1>2. CASE \E i \in DOMAIN sort : sort[i].field = "id"
  BY <1>1, <1>2 DEF EffectiveOrder, Complete
<1>3. CASE ~\E i \in DOMAIN sort : sort[i].field = "id"
  <2> DEFINE key == [field |-> "id", desc |-> FALSE]
  <2>1. key \in OrderKey /\ key.field = "id"  BY <1>1 DEF OrderKey
  <2>2. EffectiveOrder(sort) = Append(sort, key)  BY <1>3 DEF EffectiveOrder
  <2> HIDE DEF key
  <2>3. PICK order : order = Append(sort, key)  OBVIOUS
  <2>4. order \in Order /\ Len(sort) + 1 \in DOMAIN order /\ order[Len(sort) + 1] = key
    BY <1>1, <2>1, <2>3 DEF Order
  <2> QED  BY <2>1, <2>2, <2>3, <2>4 DEF Complete
<1> QED  BY <1>2, <1>3

LEMMA PageSizeIsPositive ==
    ASSUME NEW size \in PageSizes
    PROVE  ClampPageSize(size) \in Nat \ {0}
BY KeysetPagingAssumption DEF ClampPageSize

\* A cursor is never mistaken for none.
LEMMA CursorsAreCursors ==
    ASSUME NEW order \in Order, NEW row \in Rows
    PROVE  CursorAt(order, row) # None
<1>1. \A i \in DOMAIN order : row[order[i].field] \in Value  BY OrderKeys, RowValues
<1>2. PICK n \in Nat : DOMAIN order = 1..n  BY DEF Order
<1>3. KeyOf(order, row) \in [1..n -> Value]  BY <1>1, <1>2 DEF KeyOf
<1>4. KeyOf(order, row) \in Seq(Value)  BY <1>3
<1>5. CursorAt(order, row) \in Cursor  BY <1>4 DEF CursorAt, Cursor
<1> QED  BY <1>5, KeysetPagingAssumption

LEMMA ReversedRows ==
    ASSUME NEW S, NEW t \in Seq(S)
    PROVE  /\ Reverse(t) \in Seq(S)
           /\ Reverse(t) = << >> <=> t = << >>
           /\ t # << >> => Reverse(t)[1] = t[Len(t)]
<1>1. PICK n \in Nat : n = Len(t)  BY LenProperties
<1>2. PICK r : r = Reverse(t)  OBVIOUS
<1>3. r = [i \in 1..n |-> t[(n - i) + 1]]  BY <1>1, <1>2 DEF Reverse
<1>4. \A i \in 1..n : t[(n - i) + 1] \in S
  <2> TAKE i \in 1..n
  <2>1. (n - i) + 1 \in 1..n  OBVIOUS
  <2> QED  BY <1>1, <2>1, ElementOfSeq
<1>5. r \in [1..n -> S]  BY <1>3, <1>4
<1>6. r \in Seq(S) /\ Len(r) = n  BY <1>5
<1>7. (r = << >> <=> n = 0) /\ (t = << >> <=> n = 0)  BY <1>1, <1>6, EmptySeq
<1>8. n # 0 => 1 \in 1..n /\ (n - 1) + 1 = n  OBVIOUS
<1> QED  BY <1>1, <1>2, <1>3, <1>6, <1>7, <1>8

LEMMA IdsAreValues ==
    ASSUME NEW t \in Seq(Rows)
    PROVE  IdsOf(t) \in Seq(Value)
<1>1. PICK n \in Nat : n = Len(t)  BY LenProperties
<1>2. "id" \in Fields  BY KeysetPagingAssumption
<1>3. \A i \in 1..n : t[i]["id"] \in Value  BY <1>1, <1>2, ElementOfSeq, RowValues
<1>4. IdsOf(t) \in [1..n -> Value]  BY <1>1, <1>3 DEF IdsOf
<1> QED  BY <1>4

Traversal(order, backward) == IF backward THEN FlipOrder(order) ELSE order

\* An answer part by part: the walk goes to the last row read, and the page's cursors
\* keep the rows at its edges, the one ahead only when there is more.
Answered(rows, order, backward, earlier, from, more, t, to) ==
    /\ walk'.order = order /\ walk'.backward = backward /\ walk'.from = from
    /\ walk'.to = to /\ walk'.more = more /\ walk'.ids = earlier \o IdsOf(t)
    /\ page'.rows \in Seq(rows)
    /\ page'.rows = << >> <=> t = << >>
    /\ t = << >> => page'.next = None /\ page'.prev = None
    /\ t # << >> /\ ~backward =>
         /\ Last(page'.rows) = to
         /\ page'.next = IF more THEN CursorAt(order, to) ELSE None
         /\ page'.prev \in {CursorAt(order, page'.rows[1]), None}
    /\ t # << >> /\ backward =>
         /\ page'.rows[1] = to
         /\ page'.next = CursorAt(order, Last(page'.rows))
         /\ page'.prev = IF more THEN CursorAt(order, to) ELSE None

LEMMA AnswerSays ==
    ASSUME NEW S, NEW order, NEW m \in Seq(S), NEW size \in Nat \ {0},
           NEW backward \in BOOLEAN, NEW hasPrev, NEW earlier, NEW from,
           Answer(order, m, size, backward, hasPrev, earlier, from)
    PROVE  LET fetched == Limited(m, size + 1)
               more == Len(fetched) > size
               t == Trimmed(fetched, size)
               to == IF t = << >> THEN None ELSE t[Len(t)]
           IN  Answered(S, order, backward, earlier, from, more, t, to)
<1> DEFINE fetched == Limited(m, size + 1)
           more == Len(fetched) > size
           t == Trimmed(fetched, size)
           rows == InForwardOrder(t, backward)
           cursors == Cursors(order, rows, backward, more, hasPrev)
           to == IF t = << >> THEN None ELSE t[Len(t)]
<1>1. /\ page' = [rows |-> rows, next |-> cursors.next, prev |-> cursors.prev]
      /\ walk' = [order |-> order, backward |-> backward, from |-> from,
                  to |-> to, more |-> more, ids |-> earlier \o IdsOf(t)]
  BY DEF Answer
<1>2. t \in Seq(S)  BY PageOfAnswer
<1> HIDE DEF t, more, to, rows, cursors
<1>3. /\ rows \in Seq(S)
      /\ rows = << >> <=> t = << >>
      /\ t # << >> /\ ~backward => Last(rows) = to
      /\ t # << >> /\ backward => rows[1] = to
  <2>1. CASE backward  BY <1>2, <2>1, ReversedRows DEF rows, to, InForwardOrder
  <2>2. CASE ~backward  BY <1>2, <2>2 DEF rows, to, InForwardOrder, Last
  <2> QED  BY <2>1, <2>2
<1>4. /\ page'.rows = rows /\ page'.next = cursors.next /\ page'.prev = cursors.prev
      /\ walk'.order = order /\ walk'.backward = backward /\ walk'.from = from
      /\ walk'.to = to /\ walk'.more = more /\ walk'.ids = earlier \o IdsOf(t)
  BY <1>1
<1>5. t = << >> => cursors.next = None /\ cursors.prev = None
  BY <1>3 DEF cursors, Cursors
<1>6. ASSUME t # << >>, ~backward
      PROVE  /\ cursors.next = IF more THEN CursorAt(order, Last(rows)) ELSE None
             /\ cursors.prev = IF hasPrev THEN CursorAt(order, rows[1]) ELSE None
  BY <1>3, <1>6 DEF cursors, Cursors, Last
<1>7. ASSUME t # << >>, backward
      PROVE  /\ cursors.next = CursorAt(order, Last(rows))
             /\ cursors.prev = IF more THEN CursorAt(order, rows[1]) ELSE None
  BY <1>3, <1>7 DEF cursors, Cursors, Last
<1>8. Answered(S, order, backward, earlier, from, more, t, to)
  BY <1>3, <1>4, <1>5, <1>6, <1>7 DEF Answered
<1> QED  BY <1>8 DEF t, more, to, fetched

-----------------------------------------------------------------------------
(* The invariant of paging.                                                *)

LEMMA PresentIsKeyed ==
    ASSUME table \in [Ids -> Contents \cup {None}]
    PROVE  /\ Keyed(Present)
           /\ \A id \in Ids : table[id] # None => Row(id) \in Present /\ Row(id)["id"] = id
<1>1. /\ "id" \in Fields /\ "id" \notin Nullable /\ Ids \subseteq Int /\ IsFiniteSet(Ids)
      /\ NULL \notin Int
  BY KeysetPagingAssumption, KeysetAssumption
<1>2. ASSUME NEW id \in Ids, table[id] # None
      PROVE  /\ Row(id) \in [Fields -> Value] /\ Row(id)["id"] = id
             /\ \A f \in Fields \ Nullable : Row(id)[f] # NULL
  <2>1. PICK content \in Contents : table[id] = content  BY <1>2
  <2>2. /\ content \in [Fields \ {"id"} -> Value]
        /\ \A f \in Fields \ (Nullable \cup {"id"}) : content[f] # NULL
    BY KeysetPagingAssumption
  <2>3. Row(id) = [f \in Fields |-> IF f = "id" THEN id ELSE content[f]]  BY <2>1 DEF Row
  <2>4. id \in Int /\ id \in Value /\ id # NULL  BY <1>1 DEF Value
  <2>5. \A f \in Fields : (IF f = "id" THEN id ELSE content[f]) \in Value  BY <2>2, <2>4
  <2>6. Row(id) \in [Fields -> Value]  BY <2>3, <2>5
  <2>7. \A f \in Fields \ Nullable : Row(id)[f] # NULL  BY <2>2, <2>3, <2>4
  <2> QED  BY <1>1, <2>3, <2>6, <2>7
<1>3. Present \subseteq Rows
  <2> SUFFICES ASSUME NEW id \in Ids, table[id] # None  PROVE Row(id) \in Rows
    BY DEF Present, Absent
  <2> QED  BY <1>2 DEF Rows
<1>4. \A row \in Present : \E id \in Ids : table[id] # None /\ row = Row(id) /\ row["id"] = id
  BY <1>2 DEF Present, Absent
<1>5. \A r, s \in Present : r["id"] = s["id"] => r = s  BY <1>4
<1>6. IsFiniteSet(Present)
  <2> DEFINE key == [row \in Present |-> row["id"]]
  <2>1. key \in [Present -> Ids]  BY <1>4
  <2>2. \A r, s \in Present : key[r] = key[s] => r = s  BY <1>5
  <2>3. key \in Injection(Present, Ids)
    <3> HIDE DEF key
    <3> QED  BY <2>1, <2>2 DEF Injection, IsInjective
  <2> HIDE DEF key
  <2> QED  BY <1>1, <2>3, FS_Injection
<1>7. \A id \in Ids : table[id] # None => Row(id) \in Present /\ Row(id)["id"] = id
  BY <1>2 DEF Present, Absent
<1> QED  BY <1>3, <1>5, <1>6, <1>7 DEF Keyed

\* What the pages of a walk have read so far.
Gapless(order, from, more, to, ids) ==
    \A id \in Ids \ touched : table[id] # None =>
        IF After(order, from, Row(id)) /\ UpTo(order, more, to, Row(id))
        THEN Once(ids, id) ELSE Never(ids, id)

WalkIsRead ==
    /\ Complete(walk.order) /\ walk.backward \in BOOLEAN /\ walk.more \in BOOLEAN
    /\ walk.from \in Rows \cup {None} /\ walk.to \in Rows \cup {None}
    /\ walk.ids \in Seq(Value)
    /\ walk.to # None => After(Traversal(walk.order, walk.backward), walk.from, walk.to)
    /\ Gapless(Traversal(walk.order, walk.backward), walk.from, walk.more, walk.to, walk.ids)

\* A cursor keeps a row at an edge of the page; the one ahead is the end of the walk.
CursorsKeepEdges ==
    /\ page.next # None =>
         /\ page.rows # << >> /\ page.next = CursorAt(walk.order, Last(page.rows))
         /\ ~walk.backward => walk.more /\ walk.to = Last(page.rows)
    /\ page.prev # None =>
         /\ page.rows # << >> /\ page.prev = CursorAt(walk.order, page.rows[1])
         /\ walk.backward => walk.more /\ walk.to = page.rows[1]

IInv ==
    /\ table \in [Ids -> Contents \cup {None}]
    /\ pages \in Nat
    /\ page.rows \in Seq(Rows)
    /\ pages = 0 => page.next = None /\ page.prev = None
    /\ pages > 0 => WalkIsRead /\ CursorsKeepEdges
    /\ OfferedPagesExist

LEMMA InitIInv == Init => IInv
<1> SUFFICES ASSUME Init  PROVE IInv
  OBVIOUS
<1>1. page = [rows |-> << >>, next |-> None, prev |-> None] /\ pages = 0  BY DEF Init
<1>2. page.rows = << >> /\ page.next = None /\ page.prev = None  BY <1>1
<1>3. table \in [Ids -> Contents \cup {None}]  BY DEF Init, Absent
<1> QED  BY <1>1, <1>2, <1>3, EmptySeq DEF IInv, OfferedPagesExist

\* An edit touches a row, and leaves what the walk says of the others.
LEMMA EditIInv == IInv /\ Edit => IInv'
<1> SUFFICES ASSUME IInv, Edit  PROVE IInv'
  OBVIOUS
<1>1. page' = page /\ walk' = walk /\ pages' = pages  BY DEF Edit
<1>2. PICK id \in Ids, content \in Contents \cup {None} :
             table' = [table EXCEPT ![id] = content] /\ touched' = touched \cup {id}
  BY DEF Edit, Absent
<1>3. table' \in [Ids -> Contents \cup {None}]  BY <1>2 DEF IInv
<1>4. \A i \in Ids \ touched' : /\ i \in Ids \ touched /\ table'[i] = table[i]
                                /\ Row(i)' = Row(i)
  BY <1>2 DEF IInv, Row
<1>5. ASSUME NEW order, NEW from, NEW more, NEW to, NEW ids, Gapless(order, from, more, to, ids)
      PROVE  \A i \in Ids \ touched' : table'[i] # None =>
                 IF After(order, from, Row(i)') /\ UpTo(order, more, to, Row(i)')
                 THEN Once(ids, i) ELSE Never(ids, i)
  BY <1>4, <1>5 DEF Gapless
<1>6. WalkIsRead => WalkIsRead'  BY <1>1, <1>5 DEF WalkIsRead, Gapless
<1>7. CursorsKeepEdges => CursorsKeepEdges'  BY <1>1 DEF CursorsKeepEdges
<1>8. OfferedPagesExist'  BY <1>2 DEF OfferedPagesExist
<1> QED  BY <1>1, <1>3, <1>6, <1>7, <1>8 DEF IInv

\* What an answer needs to know of what was read before it, up to the boundary it reads
\* on from: that those rows, and no others, were read once.
ReadsOn(order, earlier, from, boundary) ==
    /\ \A row \in Rows : After(order, boundary, row) => After(order, from, row)
    /\ \A id \in Ids \ touched' : table[id] # None =>
          IF After(order, from, Row(id)) /\ ~After(order, boundary, Row(id))
          THEN Once(earlier, id) ELSE Never(earlier, id)

\* An answer read in the order's direction from where the walk stands goes on with it.
GoesOn(order, backward, size, hasPrev, earlier, from, boundary, m) ==
    /\ Complete(order) /\ backward \in BOOLEAN /\ size \in Nat \ {0}
    /\ earlier \in Seq(Value)
    /\ from \in Rows \cup {None} /\ boundary \in Rows \cup {None}
    /\ Reads(Traversal(order, backward), Present, boundary, m)
    /\ ReadsOn(Traversal(order, backward), earlier, from, boundary)
    /\ Answer(order, m, size, backward, hasPrev, earlier, from)

\* What holds once a page was read.
WalkInv ==
    page.rows \in Seq(Rows) /\ WalkIsRead /\ CursorsKeepEdges /\ OfferedPagesExist

LEMMA AnswerGoesOn ==
    ASSUME IInv, UNCHANGED table, NEW order, NEW backward, NEW size, NEW hasPrev,
           NEW earlier, NEW from, NEW boundary, NEW m,
           GoesOn(order, backward, size, hasPrev, earlier, from, boundary, m)
    PROVE  WalkInv'
<1> SUFFICES ASSUME Complete(order), backward \in BOOLEAN, size \in Nat \ {0},
                    earlier \in Seq(Value),
                    from \in Rows \cup {None}, boundary \in Rows \cup {None},
                    Reads(Traversal(order, backward), Present, boundary, m),
                    ReadsOn(Traversal(order, backward), earlier, from, boundary),
                    Answer(order, m, size, backward, hasPrev, earlier, from)
             PROVE  WalkInv'
  BY DEF GoesOn
<1> DEFINE T == Traversal(order, backward)
           fetched == Limited(m, size + 1)
           more == Len(fetched) > size
           t == Trimmed(fetched, size)
           to == IF t = << >> THEN None ELSE t[Len(t)]
<1>1. /\ Keyed(Present) /\ Present \subseteq Rows
      /\ \A id \in Ids : table[id] # None => Row(id) \in Present /\ Row(id)["id"] = id
  BY PresentIsKeyed DEF IInv, Keyed
<1>2. Complete(T)  BY FlippedIsComplete DEF Traversal
<1>3. /\ t \in Seq(Present)
      /\ more => t # << >>
      /\ t # << >> => /\ to \in Present /\ After(T, boundary, to)
                      /\ more <=> \E row \in Present : RowBefore(T, to, row)
      /\ \A row \in Present :
            IF After(T, boundary, row) /\ UpTo(T, more, to, row)
            THEN Once(IdsOf(t), row["id"]) ELSE Never(IdsOf(t), row["id"])
  BY <1>1, <1>2, PageIsGapless
<1>4. PICK P : P = Present /\ m \in Seq(P)  BY DEF Reads
<1>5. Answered(P, order, backward, earlier, from, more, t, to)
  BY <1>4, AnswerSays
<1>6. more \in BOOLEAN /\ (t = << >> => to = None)  OBVIOUS
<1> HIDE DEF T, fetched, more, t, to
<1>7. None \notin Rows /\ order \in Order  BY KeysetPagingAssumption DEF Complete
<1>8. to \in Rows \cup {None} /\ (to # None => t # << >> /\ to \in Rows)
  BY <1>1, <1>3, <1>6
<1>9. page'.rows \in Seq(Rows) /\ t \in Seq(Rows)  BY <1>1, <1>3, <1>4, <1>5, SeqMonotonic DEF Answered
<1>10. IdsOf(t) \in Seq(Value)  BY <1>9, IdsAreValues
<1>11. earlier \o IdsOf(t) \in Seq(Value)  BY <1>10, ConcatProperties
<1>12. to # None => After(T, from, to)
  BY <1>3, <1>8 DEF ReadsOn, T
<1>13. ASSUME NEW id \in Ids \ touched', table[id] # None
       PROVE  IF After(T, from, Row(id)) /\ UpTo(T, more, to, Row(id))
              THEN Once(earlier \o IdsOf(t), id) ELSE Never(earlier \o IdsOf(t), id)
  <2> DEFINE r == Row(id)
  <2>1. r \in Present /\ r \in Rows /\ r["id"] = id  BY <1>1, <1>13
  <2>2. /\ IF After(T, from, r) /\ ~After(T, boundary, r) THEN Once(earlier, id) ELSE Never(earlier, id)
        /\ After(T, boundary, r) => After(T, from, r)
    BY <1>13, <2>1 DEF ReadsOn, T
  <2>3. IF After(T, boundary, r) /\ UpTo(T, more, to, r)
        THEN Once(IdsOf(t), id) ELSE Never(IdsOf(t), id)
    BY <1>3, <2>1
  <2> HIDE DEF r
  <2>4. CASE After(T, boundary, r)
    BY <1>10, <2>2, <2>3, <2>4, JoinedWalks DEF r
  <2>5. CASE ~After(T, boundary, r)
    <3>1. UpTo(T, more, to, r)
      <4> SUFFICES ASSUME more, RowBefore(T, to, r)  PROVE FALSE
        BY <1>3, <1>7, <1>1 DEF UpTo
      <4>1. to \in Rows /\ After(T, boundary, to)  BY <1>1, <1>3
      <4>2. boundary \in Rows /\ boundary # None /\ ~RowBefore(T, boundary, r)  BY <2>5 DEF After
      <4>3. RowBefore(T, boundary, to)  BY <4>1, <4>2 DEF After
      <4> QED  BY <1>2, <2>1, <4>1, <4>2, <4>3, Transitive DEF Complete
    <3>2. Never(IdsOf(t), id)  BY <2>3, <2>5
    <3> QED  BY <1>10, <2>2, <2>5, <3>1, <3>2, JoinedWalks DEF r
  <2> QED  BY <2>4, <2>5
<1>14. table' = table /\ \A id : Row(id)' = Row(id)  BY DEF Row
<1>15. Traversal(walk'.order, walk'.backward) = T  BY <1>5 DEF T, Answered
<1>16. Gapless(T, from, more, to, earlier \o IdsOf(t))'
  <2>1. \A id \in Ids \ touched' : table'[id] # None =>
            IF After(T, from, Row(id)') /\ UpTo(T, more, to, Row(id)')
            THEN Once(earlier \o IdsOf(t), id) ELSE Never(earlier \o IdsOf(t), id)
    BY <1>13, <1>14
  <2> QED  BY <2>1 DEF Gapless
<1>17. WalkIsRead'
  BY <1>5, <1>6, <1>8, <1>11, <1>12, <1>15, <1>16 DEF WalkIsRead, Answered
<1>18. CursorsKeepEdges'
  BY <1>3, <1>5 DEF CursorsKeepEdges, Answered
<1>19. OfferedPagesExist'
  <2>1. Present' = Present  BY <1>14 DEF Present
  <2>2. ASSUME t # << >>  PROVE to \in Rows /\ CursorAt(order, to) # None
    BY <1>1, <1>3, <1>7, <2>2, CursorsAreCursors
  <2>3. ASSUME t # << >>
        PROVE  /\ (IF backward THEN page'.prev ELSE page'.next) # None <=> more
               /\ (IF backward THEN page'.rows[1] ELSE Last(page'.rows)) = to
    BY <1>5, <2>2, <2>3 DEF Answered
  <2>4. T = IF walk'.backward THEN FlipOrder(walk'.order) ELSE walk'.order
    BY <1>5 DEF T, Answered, Traversal
  <2>5. walk'.backward = backward /\ (page'.rows = << >> <=> t = << >>)
    BY <1>5 DEF Answered
  <2> QED  BY <1>3, <2>1, <2>3, <2>4, <2>5 DEF OfferedPagesExist
<1> QED  BY <1>9, <1>17, <1>18, <1>19 DEF WalkInv

-----------------------------------------------------------------------------
\* The order of walk.ids is never taken up: a new walk has read nothing.
LEMMA NothingReadYet ==
    ASSUME NEW order, NEW from
    PROVE  << >> \in Seq(Value) /\ ReadsOn(order, << >>, from, from)
<1>1. Len(<< >>) = 0 /\ << >> \in Seq(Value)  BY EmptySeq
<1>2. \A id : Never(<< >>, id)  BY <1>1 DEF Never
<1> QED  BY <1>1, <1>2 DEF ReadsOn

LEMMA FirstPageReads ==
    ASSUME IInv, UNCHANGED table,
           NEW sort \in Sorts, NEW size \in PageSizes, NEW number \in 1..2,
           FirstPage(sort, size, number)
    PROVE  WalkInv'
<1>1. PICK order : order = EffectiveOrder(sort)  OBVIOUS
<1>2. PICK limit \in Nat \ {0} : limit = ClampPageSize(size)  BY PageSizeIsPositive
<1>3. PICK skipped \in Nat : skipped = (number - 1) * limit
  <2>1. number \in Nat /\ number >= 1  OBVIOUS
  <2>2. PICK less \in Nat : less = number - 1  BY <2>1
  <2>3. less * limit \in Nat  OBVIOUS
  <2> QED  BY <2>2, <2>3
<1>4. Complete(order) /\ Keyed(Present)
  BY <1>1, EffectiveOrderIsComplete, PresentIsKeyed DEF IInv
<1>5. PICK rows : rows = Present  OBVIOUS
<1>6. PICK sorted : sorted = Sorted(order, rows)  OBVIOUS
<1>7. PICK from : from = IF skipped = 0 \/ sorted = << >> THEN None ELSE Last(Limited(sorted, skipped))
  OBVIOUS
<1>8. PICK m : m = SubSeq(sorted, skipped + 1, Len(sorted))  OBVIOUS
<1>9. Reads(order, Present, from, m) /\ from \in rows \cup {None}
  BY <1>4, <1>5, <1>6, <1>7, <1>8, OffsetReads
<1>10. from \in Rows \cup {None}  BY <1>4, <1>5, <1>9 DEF Keyed
<1>11. PICK hasPrev : hasPrev = (number > 1)  OBVIOUS
<1>12. Answer(order, m, limit, FALSE, hasPrev, << >>, from)
  BY <1>1, <1>2, <1>3, <1>5, <1>6, <1>7, <1>8, <1>11 DEF FirstPage
<1>13. Traversal(order, FALSE) = order  BY DEF Traversal
<1>14. GoesOn(order, FALSE, limit, hasPrev, << >>, from, from, m)
  BY <1>4, <1>9, <1>10, <1>12, <1>13, NothingReadYet DEF GoesOn
<1> QED  BY <1>14, AnswerGoesOn

\* Following a cursor that keeps the row `kept`.
LEMMA CursorPageReads ==
    ASSUME IInv, pages > 0, UNCHANGED table,
           NEW sort \in Sorts, NEW size \in PageSizes, NEW cursor, NEW backward \in BOOLEAN,
           NEW kept \in Rows, cursor = CursorAt(walk.order, kept),
           backward = walk.backward => walk.more /\ walk.to = kept,
           kept = IF backward THEN page.rows[1] ELSE page.rows[Len(page.rows)],
           FollowCursor(sort, size, cursor, backward)
    PROVE  WalkInv'
<1>1. PICK order : order = walk.order  OBVIOUS
<1>2. WalkIsRead /\ Complete(order) /\ order \in Order  BY <1>1 DEF IInv, WalkIsRead, Complete
<1>3. /\ cursor.order = order /\ cursor.values = KeyOf(order, kept)
      /\ order = EffectiveOrder(sort)
  BY <1>1 DEF FollowCursor, CursorMatchesOrder, CursorAt
<1>4. PICK limit \in Nat \ {0} : limit = ClampPageSize(size)  BY PageSizeIsPositive
<1>5. PICK T : T = Traversal(order, backward)  OBVIOUS
<1>6. Complete(T) /\ Keyed(Present)
  BY <1>2, <1>5, FlippedIsComplete, PresentIsKeyed DEF Traversal, IInv
<1>7. KeyOf(T, kept) = KeyOf(order, kept)
  BY <1>2, <1>5, FlippedOrder DEF Traversal, KeyOf
<1>8. PICK rows : rows = Present  OBVIOUS
<1>9. PICK m : m = Sorted(T, {row \in rows : KeysetPredicate(T, KeyOf(T, kept), row)})  OBVIOUS
<1>10. Reads(T, Present, kept, m)  BY <1>6, <1>8, <1>9, CursorReads
<1>11. PICK hasPrev : hasPrev = ~backward  OBVIOUS
<1>12. PICK earlier : earlier = IF backward = walk.backward THEN walk.ids ELSE << >>  OBVIOUS
<1>13. PICK from : from = IF backward = walk.backward THEN walk.from ELSE kept  OBVIOUS
<1>14. Answer(order, m, limit, backward, hasPrev, earlier, from)
  BY <1>3, <1>4, <1>5, <1>7, <1>8, <1>9, <1>11, <1>12, <1>13 DEF FollowCursor, Traversal
<1>15. touched' = IF backward = walk.backward THEN touched ELSE {}
  BY DEF FollowCursor
<1>16. CASE backward # walk.backward
  <2>1. from = kept /\ earlier = << >>  BY <1>12, <1>13, <1>16
  <2>2. GoesOn(order, backward, limit, hasPrev, earlier, from, kept, m)
    BY <1>2, <1>5, <1>10, <1>14, <2>1, NothingReadYet DEF GoesOn
  <2> QED  BY <2>2, AnswerGoesOn
<1>17. CASE backward = walk.backward
  <2>1. /\ walk.more /\ walk.to = kept /\ earlier = walk.ids /\ from = walk.from
        /\ touched' = touched /\ T = Traversal(walk.order, walk.backward)
    BY <1>1, <1>5, <1>12, <1>13, <1>15, <1>17
  <2>2. /\ from \in Rows \cup {None} /\ earlier \in Seq(Value) /\ After(T, from, kept)
        /\ Gapless(T, from, TRUE, kept, earlier)
    BY <1>2, <2>1, KeysetPagingAssumption DEF WalkIsRead
  <2>3. None \notin Rows /\ T \in Order  BY <1>6, KeysetPagingAssumption DEF Complete
  <2>4. ASSUME NEW row \in Rows  PROVE ~After(T, kept, row) <=> UpTo(T, TRUE, kept, row)
    BY <2>3 DEF After, UpTo
  <2>5. ASSUME NEW row \in Rows, After(T, kept, row)  PROVE After(T, from, row)
    <3>1. RowBefore(T, kept, row)  BY <2>3, <2>5 DEF After
    <3>2. CASE from = None  BY <3>2 DEF After
    <3>3. CASE from # None
      <4>1. from \in Rows /\ RowBefore(T, from, kept)  BY <2>2, <3>3 DEF After
      <4> QED  BY <2>3, <3>1, <4>1, Transitive DEF After
    <3> QED  BY <3>2, <3>3
  <2>6. \A id \in Ids : table[id] # None => Row(id) \in Rows
    BY PresentIsKeyed DEF IInv, Keyed
  <2>7. ReadsOn(T, earlier, from, kept)
    BY <2>1, <2>2, <2>4, <2>5, <2>6 DEF ReadsOn, Gapless
  <2>8. GoesOn(order, backward, limit, hasPrev, earlier, from, kept, m)
    BY <1>2, <1>5, <1>10, <1>14, <2>2, <2>7 DEF GoesOn
  <2> QED  BY <2>8, AnswerGoesOn
<1> QED  BY <1>16, <1>17

LEMMA ListIInv == IInv /\ List => IInv'
<1> SUFFICES ASSUME IInv, List  PROVE IInv'
  OBVIOUS
<1>1. UNCHANGED table /\ pages' = pages + 1 /\ pages \in Nat  BY DEF List, IInv
<1>2. table' \in [Ids -> Contents \cup {None}] /\ pages' \in Nat /\ pages' > 0
  BY <1>1 DEF IInv
<1>3. PICK sort \in Sorts, size \in PageSizes :
         \/ \E number \in 1..2 : FirstPage(sort, size, number)
         \/ FollowCursor(sort, size, page.next, FALSE)
         \/ FollowCursor(sort, size, page.prev, TRUE)
  BY DEF List
<1>4. WalkInv'
  <2>1. CASE \E number \in 1..2 : FirstPage(sort, size, number)
    BY <1>1, <2>1, FirstPageReads
  <2>2. CASE FollowCursor(sort, size, page.next, FALSE)
    <3>1. PICK cursor : cursor = page.next /\ cursor # None  BY <2>2 DEF FollowCursor
    <3>2. pages > 0 /\ WalkIsRead /\ CursorsKeepEdges  BY <1>1, <3>1 DEF IInv
    <3>3. PICK kept : kept = page.rows[Len(page.rows)]  OBVIOUS
    <3>4. kept \in Rows
      <4>1. page.rows \in Seq(Rows) /\ page.rows # << >>
        BY <3>1, <3>2 DEF IInv, CursorsKeepEdges
      <4>2. Len(page.rows) \in 1..Len(page.rows)  BY <4>1, EmptySeq
      <4> QED  BY <3>3, <4>1, <4>2, ElementOfSeq
    <3>5. cursor = CursorAt(walk.order, kept) /\ (FALSE = walk.backward => walk.more /\ walk.to = kept)
      BY <3>1, <3>2, <3>3 DEF CursorsKeepEdges, Last, WalkIsRead
    <3> QED  BY <1>1, <2>2, <3>1, <3>2, <3>3, <3>4, <3>5, CursorPageReads
  <2>3. CASE FollowCursor(sort, size, page.prev, TRUE)
    <3>1. PICK cursor : cursor = page.prev /\ cursor # None  BY <2>3 DEF FollowCursor
    <3>2. pages > 0 /\ WalkIsRead /\ CursorsKeepEdges  BY <1>1, <3>1 DEF IInv
    <3>3. PICK kept : kept = page.rows[1]  OBVIOUS
    <3>4. kept \in Rows
      <4>1. page.rows \in Seq(Rows) /\ page.rows # << >>
        BY <3>1, <3>2 DEF IInv, CursorsKeepEdges
      <4>2. 1 \in 1..Len(page.rows)  BY <4>1, EmptySeq
      <4> QED  BY <3>3, <4>1, <4>2, ElementOfSeq
    <3>5. cursor = CursorAt(walk.order, kept) /\ (TRUE = walk.backward => walk.more /\ walk.to = kept)
      BY <3>1, <3>2, <3>3 DEF CursorsKeepEdges, WalkIsRead
    <3> QED  BY <1>1, <2>3, <3>1, <3>2, <3>3, <3>4, <3>5, CursorPageReads
  <2> QED  BY <1>3, <2>1, <2>2, <2>3
<1> QED  BY <1>2, <1>4 DEF IInv, WalkInv

LEMMA NextIInv == IInv /\ [Next]_vars => IInv'
<1>1. ASSUME IInv, UNCHANGED vars  PROVE IInv'
  BY <1>1 DEF IInv, vars, WalkIsRead, Gapless, CursorsKeepEdges, OfferedPagesExist, Present, Row
<1> QED  BY <1>1, ListIInv, EditIInv DEF Next

THEOREM PagingInvariance == Spec => []IInv
BY InitIInv, NextIInv, PTL DEF Spec

\* Whatever other clients insert, update and delete, a walk through the pages of a
\* resource reads every row it passes, and no other, exactly once: for all rows and
\* orders, page sizes that change, OFFSETs and turns.
THEOREM NothingSkippedOrRepeated == Spec => []WalkIsGapless
<1>1. ASSUME IInv  PROVE WalkIsGapless
  <2> SUFFICES ASSUME pages > 0, NEW id \in Ids \ touched, table[id] # Absent
               PROVE  LET seen == {i \in 1..Len(walk.ids) : walk.ids[i] = id} IN
                      IF Passed(Row(id)) THEN Cardinality(seen) = 1 ELSE seen = {}
    BY DEF WalkIsGapless
  <2>1. WalkIsRead /\ Len(walk.ids) \in Nat  BY <1>1, LenProperties DEF IInv, WalkIsRead
  <2>2. IF Passed(Row(id)) THEN Once(walk.ids, id) ELSE Never(walk.ids, id)
    BY <2>1 DEF WalkIsRead, Gapless, Passed, After, UpTo, Traversal, Absent
  <2> QED  BY <2>1, <2>2, SeenOnce
<1> QED  BY <1>1, PagingInvariance, PTL

\* A page is offered exactly when there is a row for it.
THEOREM PagesOffered == Spec => []OfferedPagesExist
<1>1. IInv => OfferedPagesExist  BY DEF IInv
<1> QED  BY <1>1, PagingInvariance, PTL
=============================================================================
