------------------------------- MODULE ListProofs -------------------------------
(***************************************************************************)
(* Proofs about the lists of the Admin UI, for every resource, URL and     *)
(* number of rows: that what a URL says is read from it again, what is run *)
(* for it over both adapters, and where the links of a page lead.  Before  *)
(* that, what is known of folds, of what is kept of a list, and of texts   *)
(* that are cut and joined.                                                *)
(***************************************************************************)
EXTENDS CompiledSurfaces, FiniteSetTheorems, SequenceTheorems, NaturalsInduction,
        WellFoundedInduction, TLAPS

-----------------------------------------------------------------------------
(* What a fold computes.  FoldLeft recurs on the parts of the set of        *)
(* positions: that the recursion has a solution, and that it goes through   *)
(* the list element by element, is shown by the least counterexample.       *)

\* A non-empty part of an interval has a largest element.
LEMMA MaxOfPart ==
  ASSUME NEW n \in Nat, NEW W, W \subseteq 1..n, W # {}
  PROVE  Max(W) \in W /\ \A j \in W : j <= Max(W)
<1>1. PICK D : D = {n - i : i \in W}
  OBVIOUS
<1>2. ASSUME NEW i \in W PROVE i \in Nat /\ n - i \in Nat
  OBVIOUS
<1>3. D \subseteq Nat /\ D # {}
  BY <1>1, <1>2
<1>4. PICK d \in D : \A e \in D : <<e, d>> \notin OpToRel(<, Nat)
  BY <1>3, NatLessThanWellFounded, WFMin
<1>5. PICK i \in W : d = n - i
  BY <1>1, <1>4
<1>6. ASSUME NEW j \in W PROVE j <= i
  <2>1. n - j \in D /\ n - j \in Nat /\ n - i \in Nat
    BY <1>1, <1>2
  <2>2. ~(n - j < n - i)
    BY <1>4, <1>5, <2>1 DEF OpToRel
  <2>. QED  BY <1>2, <2>2
<1>7. \A x \in W : (\A j \in W : j <= x) => x \in W /\ \A j \in W : j <= x
  OBVIOUS
<1>. QED  BY <1>5, <1>6 DEF Max

\* A part of an interval is finite.
LEMMA FinitePart ==
  ASSUME NEW n \in Nat, NEW T, T \subseteq 1..n
  PROVE  IsFiniteSet(T) /\ Cardinality(T) \in Nat /\ Cardinality(T) <= n
<1>1. n \in Int /\ 1 \in Int
  OBVIOUS
<1>2. IsFiniteSet(1..n)
  BY <1>1, FS_Interval
<1>3. Cardinality(1..n) = n
  <2>1. Cardinality(1..n) = IF 1 > n THEN 0 ELSE n - 1 + 1
    BY <1>1, FS_Interval
  <2>. QED  BY <2>1
<1>4. IsFiniteSet(T) /\ Cardinality(T) <= Cardinality(1..n)
  BY <1>2, FS_Subset
<1>. QED  BY <1>3, <1>4, FS_CardinalityType

\* A set of naturals that holds 0 and every successor of its elements holds all.
LEMMA AllNaturals ==
  ASSUME NEW S, 0 \in S, \A m \in Nat : m \in S => m + 1 \in S
  PROVE  Nat \subseteq S
<1>. SUFFICES ASSUME Nat \ S # {} PROVE FALSE
  OBVIOUS
<1>1. PICK m \in Nat \ S : \A e \in Nat \ S : <<e, m>> \notin OpToRel(<, Nat)
  BY NatLessThanWellFounded, WFMin
<1>2. m \in Nat /\ m # 0
  BY <1>1
<1>3. m - 1 \in Nat /\ m - 1 < m /\ (m - 1) + 1 = m
  BY <1>2
<1>4. m - 1 \in S
  <2>1. <<m - 1, m>> \in OpToRel(<, Nat)
    BY <1>2, <1>3 DEF OpToRel
  <2>. QED  BY <1>1, <1>3, <2>1
<1>. QED  BY <1>1, <1>3, <1>4

Parts(n, m) == {T \in SUBSET (1..n) : Cardinality(T) <= m}

\* A step of the loops that the model folds.
Stepped(loop, before, element) ==
    CASE loop.of = "lines" -> ParseLine(before, element)
      [] loop.of = "segments" -> InsertSegment(loop.resources, before, element)
      [] loop.of = "paths" -> InsertPath(loop.resources, loop.root, before, element)
      [] loop.of = "written" -> WriteQuoted(before, element)
      [] loop.of = "read" -> ReadNext(before, element)

\* What a loop makes of a part of a list, by f for what precedes its last element.
Looped(loop, f, list, T) ==
    IF T = {} THEN loop.base ELSE Stepped(loop, f[T \ {Max(T)}], list[Max(T)])

\* f is what a loop makes of each of the parts.
IsLoop(loop, list, parts, f) == f = [T \in parts |-> Looped(loop, f, list, T)]
Positions(n) == SUBSET (1..n)

\* On the parts of up to m positions the recursion has a solution.
LEMMA LoopedParts ==
  ASSUME NEW loop, NEW list, NEW n \in Nat, NEW m \in Nat
  PROVE  \E f : IsLoop(loop, list, Parts(n, m), f)
<1>. DEFINE Good == {k \in Nat : \E f : f = [T \in Parts(n, k) |-> Looped(loop, f, list, T)]}
<1>1. ASSUME NEW T \in SUBSET (1..n), T # {}
      PROVE  /\ IsFiniteSet(T) /\ Max(T) \in T
             /\ Cardinality(T) \in Nat /\ Cardinality(T \ {Max(T)}) = Cardinality(T) - 1
  <2>1. IsFiniteSet(T)
    BY FinitePart
  <2>2. Max(T) \in T
    BY <1>1, MaxOfPart
  <2>. QED  BY <2>1, <2>2, FS_RemoveElement, FS_CardinalityType
<1>2. 0 \in Good
  <2>1. \A T \in Parts(n, 0) : T = {}
    <3>. SUFFICES ASSUME NEW T \in Parts(n, 0), T # {} PROVE FALSE
      OBVIOUS
    <3>1. T \in SUBSET (1..n) /\ T # {} /\ Cardinality(T) <= 0
      BY DEF Parts
    <3>2. Cardinality(T \ {Max(T)}) \in Nat
      <4>1. T \ {Max(T)} \subseteq 1..n
        BY <3>1
      <4>. QED  BY <4>1, FinitePart
    <3>. QED  BY <1>1, <3>1, <3>2
  <2>2. PICK f : f = [T \in Parts(n, 0) |-> loop.base]
    OBVIOUS
  <2>3. f = [T \in Parts(n, 0) |-> Looped(loop, f, list, T)]
    BY <2>1, <2>2 DEF Looped
  <2>. QED  BY <2>3
<1>3. ASSUME NEW k \in Nat, k \in Good PROVE k + 1 \in Good
  <2>1. PICK f : f = [T \in Parts(n, k) |-> Looped(loop, f, list, T)]
    BY <1>3
  <2>2. PICK g : g = [T \in Parts(n, k + 1) |-> Looped(loop, f, list, T)]
    OBVIOUS
  <2>3. ASSUME NEW T \in Parts(n, k) PROVE T \in Parts(n, k + 1) /\ g[T] = f[T]
    <3>1. T \in Parts(n, k + 1)
      <4>1. T \subseteq 1..n /\ Cardinality(T) <= k
        BY DEF Parts
      <4>2. Cardinality(T) \in Nat
        BY <4>1, FinitePart
      <4>3. Cardinality(T) <= k + 1
        BY <4>1, <4>2
      <4>. QED  BY <4>1, <4>3 DEF Parts
    <3>. QED  BY <2>1, <2>2, <3>1
  <2>4. ASSUME NEW T \in Parts(n, k + 1) PROVE Looped(loop, f, list, T) = Looped(loop, g, list, T)
    <3>1. CASE T = {}
      BY <3>1 DEF Looped
    <3>2. CASE T # {}
      <4>1. T \in SUBSET (1..n) /\ Cardinality(T) <= k + 1
        BY DEF Parts
      <4>2. T \ {Max(T)} \in Parts(n, k)
        <5>1. Cardinality(T) \in Nat /\ Cardinality(T \ {Max(T)}) = Cardinality(T) - 1
          BY <1>1, <3>2, <4>1
        <5>2. Cardinality(T \ {Max(T)}) <= k
          BY <4>1, <5>1
        <5>. QED  BY <4>1, <5>2 DEF Parts
      <4>. QED  BY <2>3, <3>2, <4>2 DEF Looped
    <3>. QED  BY <3>1, <3>2
  <2>. QED  BY <2>2, <2>4
<1>. HIDE DEF Good
<1>4. m \in Good
  BY <1>2, <1>3, AllNaturals
<1>. QED  BY <1>4 DEF Good, IsLoop

\* c is what a loop has made of a list before and after each of its elements.
GoesThrough(loop, list, n, c) ==
    c[0] = loop.base /\ \A k \in 1..n : c[k] = Stepped(loop, c[k - 1], list[k])

\* A list of lines, segments or paths is gone through element by element.
LEMMA LoopOverList ==
  ASSUME NEW loop, NEW list, NEW n \in Nat, NEW rec,
         IsLoop(loop, list, Positions(n), rec)
  PROVE  \E c : GoesThrough(loop, list, n, c) /\ c[n] = rec[1..n]
<1>1. rec = [T \in SUBSET (1..n) |-> Looped(loop, rec, list, T)]
  BY DEF IsLoop, Positions
<1>2. rec[1..0] = loop.base
  BY <1>1 DEF Looped
<1>3. ASSUME NEW k \in 1..n PROVE rec[1..k] = Stepped(loop, rec[1..(k - 1)], list[k])
  <2>1. 1..k \in SUBSET (1..n) /\ 1..k # {}
    <3>1. k \in Nat /\ k <= n /\ 1 \in 1..k
      OBVIOUS
    <3>2. 1..k \subseteq 1..n
      OBVIOUS
    <3>. QED  BY <3>1, <3>2
  <2>2. Max(1..k) = k
    <3>1. k \in Nat /\ 1..k \subseteq 1..k /\ 1..k # {} /\ k \in 1..k
      BY <2>1
    <3>2. Max(1..k) \in 1..k /\ k <= Max(1..k)
      BY <3>1, MaxOfPart
    <3>. QED  BY <3>2
  <2>3. (1..k) \ {k} = 1..(k - 1)
    OBVIOUS
  <2>4. rec[1..k] = Looped(loop, rec, list, 1..k)
    BY <1>1, <2>1
  <2>. QED  BY <2>1, <2>2, <2>3, <2>4 DEF Looped
<1>4. PICK c : c = [k \in 0..n |-> rec[1..k]]
  OBVIOUS
<1>5. c[0] = loop.base /\ c[n] = rec[1..n]
  BY <1>2, <1>4
<1>6. ASSUME NEW k \in 1..n PROVE c[k] = Stepped(loop, c[k - 1], list[k])
  <2>1. k \in 0..n /\ k - 1 \in 0..n
    OBVIOUS
  <2>. QED  BY <1>3, <1>4, <2>1
<1>. QED  BY <1>5, <1>6 DEF GoesThrough

\* The recursion has a solution.
LEMMA LoopIsDefined ==
  ASSUME NEW loop, NEW list, NEW n \in Nat
  PROVE  \E f : IsLoop(loop, list, Positions(n), f)
<1>1. Parts(n, n) = SUBSET (1..n)
  <2>1. ASSUME NEW T \in SUBSET (1..n) PROVE Cardinality(T) <= n
    BY FinitePart
  <2>. QED  BY <2>1 DEF Parts
<1>2. PICK f : IsLoop(loop, list, Parts(n, n), f)
  BY LoopedParts
<1>. QED  BY <1>1, <1>2 DEF Positions

\* The loop that quotes a term ends with what is quoted.
LEMMA TermIsWritten ==
  ASSUME NEW term, NEW n \in Nat, DOMAIN term = 1..n
  PROVE  \E c : /\ c[0] = <<Quote, "*">>
                /\ \A k \in 1..n : c[k] = WriteQuoted(c[k - 1], term[k])
                /\ QuoteLikeValue(term) = c[n] \o <<"*", Quote>>
<1>1. PICK base : base = <<Quote, "*">>
  OBVIOUS
<1>2. PICK loop : loop = [of |-> "written", base |-> base]
  OBVIOUS
<1>3. /\ loop.base = base
      /\ \A s, x : Stepped(loop, s, x) = WriteQuoted(s, x)
  BY <1>2 DEF Stepped
<1>4. PICK iter : IsLoop(loop, term, Positions(n), iter)
  BY LoopIsDefined
<1>. DEFINE Part(f, T) == IF T = {} THEN <<Quote, "*">>
                          ELSE WriteQuoted(f[T \ {Max(T)}], term[Max(T)])
            rec == CHOOSE f : f = [T \in SUBSET (1..n) |-> Part(f, T)]
<1>5. \A f, T : Looped(loop, f, term, T) = Part(f, T)
  BY <1>1, <1>3 DEF Looped
<1>6. rec = [T \in SUBSET (1..n) |-> Part(rec, T)]
  <2>1. iter = [T \in SUBSET (1..n) |-> Part(iter, T)]
    BY <1>4, <1>5 DEF IsLoop, Positions
  <2>. QED  BY <2>1
<1>7. QuoteLikeValue(term) = rec[1..n] \o <<"*", Quote>>
  BY DEF FoldLeft, MapThenFoldSet, QuoteLikeValue
<1>. HIDE DEF rec
<1>8. IsLoop(loop, term, Positions(n), rec)
  BY <1>5, <1>6 DEF IsLoop, Positions
<1>. HIDE DEF Part
<1>9. PICK r : r = rec
  OBVIOUS
<1>10. IsLoop(loop, term, Positions(n), r)
  BY <1>8, <1>9
<1>11. PICK c : GoesThrough(loop, term, n, c) /\ c[n] = r[1..n]
  BY <1>10, LoopOverList
<1>. QED  BY <1>1, <1>3, <1>7, <1>9, <1>11 DEF GoesThrough

\* A value before its first character, and the states that reading it passes.
Unread == [mode |-> "start", text |-> Blank]

ReadThrough(value, n, c) ==
    /\ c[0] = Unread /\ \A k \in 1..n : c[k] = ReadNext(c[k - 1], value[k])
    /\ ReadQuoted(value) = c[n]

\* The loop that reads a value ends with what is read.
LEMMA ValueIsRead ==
  ASSUME NEW value, NEW n \in Nat, DOMAIN value = 1..n
  PROVE  \E c : ReadThrough(value, n, c)
<1>1. PICK base : base = [mode |-> "start", text |-> Blank]
  OBVIOUS
<1>2. PICK loop : loop = [of |-> "read", base |-> base]
  OBVIOUS
<1>3. /\ loop.base = base
      /\ \A s, x : Stepped(loop, s, x) = ReadNext(s, x)
  BY <1>2 DEF Stepped
<1>4. PICK iter : IsLoop(loop, value, Positions(n), iter)
  BY LoopIsDefined
<1>. DEFINE Part(f, T) == IF T = {} THEN [mode |-> "start", text |-> Blank]
                          ELSE ReadNext(f[T \ {Max(T)}], value[Max(T)])
            rec == CHOOSE f : f = [T \in SUBSET (1..n) |-> Part(f, T)]
<1>5. \A f, T : Looped(loop, f, value, T) = Part(f, T)
  BY <1>1, <1>3 DEF Looped
<1>6. rec = [T \in SUBSET (1..n) |-> Part(rec, T)]
  <2>1. iter = [T \in SUBSET (1..n) |-> Part(iter, T)]
    BY <1>4, <1>5 DEF IsLoop, Positions
  <2>. QED  BY <2>1
<1>7. ReadQuoted(value) = rec[1..n]
  BY DEF FoldLeft, MapThenFoldSet, ReadQuoted
<1>. HIDE DEF rec
<1>8. IsLoop(loop, value, Positions(n), rec)
  BY <1>5, <1>6 DEF IsLoop, Positions
<1>. HIDE DEF Part
<1>9. PICK r : r = rec
  OBVIOUS
<1>10. IsLoop(loop, value, Positions(n), r)
  BY <1>8, <1>9
<1>11. PICK c : GoesThrough(loop, value, n, c) /\ c[n] = r[1..n]
  BY <1>10, LoopOverList
<1>. QED  BY <1>1, <1>3, <1>7, <1>9, <1>11 DEF GoesThrough, ReadThrough, Unread

-----------------------------------------------------------------------------
(* What is kept of a list. *)

Rank(S, i) == Cardinality({j \in S : j < i})

\* The ascending list of a finite set of numbers holds each of them at its rank.
LEMMA AscendingRanks ==
    ASSUME NEW n \in Nat, NEW S, S \subseteq 1..n
    PROVE  /\ Cardinality(S) \in Nat /\ DOMAIN Ascending(S) = 1..Cardinality(S)
           /\ \A k \in 1..Cardinality(S) : Ascending(S)[k] \in S /\ Rank(S, Ascending(S)[k]) = k - 1
           /\ \A i \in S : Rank(S, i) \in 0..(Cardinality(S) - 1) /\ Ascending(S)[Rank(S, i) + 1] = i
<1> DEFINE Below(i) == {j \in S : j < i}
<1>1. PICK m \in Nat : m = Cardinality(S) /\ IsFiniteSet(S)
  BY FinitePart
<1>2. PICK rank : rank = [i \in S |-> Cardinality(Below(i))]
  OBVIOUS
<1>3. ASSUME NEW i \in S, NEW j \in S, i < j PROVE rank[i] < rank[j]
  <2>1. Below(i) \subseteq Below(j) /\ i \in Below(j) /\ i \notin Below(i)
    <3>1. \A x \in S : x \in Nat
      OBVIOUS
    <3>2. \A x \in S : x < i => x < j
      BY <1>3, <3>1
    <3>3. Below(i) \subseteq Below(j)
      BY <3>2
    <3>4. i \in Below(j)
      BY <1>3
    <3>5. ~(i < i)
      BY <3>1
    <3>. QED  BY <3>3, <3>4, <3>5
  <2>2. IsFiniteSet(Below(j)) /\ IsFiniteSet(Below(i))
    BY <1>1, FS_Subset, Below(i) \subseteq S, Below(j) \subseteq S
  <2>3. Cardinality(Below(i)) \in Nat /\ Cardinality(Below(j)) \in Nat
    BY <2>2, FS_CardinalityType
  <2>. HIDE DEF Below
  <2>4. Cardinality(Below(i)) <= Cardinality(Below(j)) /\ Cardinality(Below(i)) # Cardinality(Below(j))
    BY <2>1, <2>2, FS_Subset
  <2>. QED  BY <1>2, <2>3, <2>4
<1>4. ASSUME NEW i \in S PROVE rank[i] \in 0..(m - 1)
  <2>1. Below(i) \subseteq S /\ i \notin Below(i)
    OBVIOUS
  <2>. HIDE DEF Below
  <2>2. Cardinality(Below(i)) <= m /\ Cardinality(Below(i)) # m /\ IsFiniteSet(Below(i))
    BY <1>1, <2>1, FS_Subset
  <2>3. Cardinality(Below(i)) \in Nat
    BY <2>2, FS_CardinalityType
  <2>. QED  BY <1>2, <2>2, <2>3
<1>5. rank \in Injection(S, 0..(m - 1))
  <2>1. rank \in [S -> 0..(m - 1)]
    BY <1>2, <1>4
  <2>2. ASSUME NEW i \in S, NEW j \in S, rank[i] = rank[j] PROVE i = j
    <3>1. i \in Nat /\ j \in Nat /\ rank[i] \in Nat
      BY <1>4
    <3>. QED  BY <1>3, <2>2, <3>1
  <2>. HIDE DEF Below
  <2>. QED  BY <2>1, <2>2 DEF Injection, IsInjective
<1>6. IsFiniteSet(0..(m - 1)) /\ Cardinality(0..(m - 1)) = m
  <2>1. 0 \in Int /\ m - 1 \in Int
    OBVIOUS
  <2>2. IsFiniteSet(0..(m - 1)) /\ Cardinality(0..(m - 1)) = IF 0 > m - 1 THEN 0 ELSE m - 1 - 0 + 1
    BY <2>1, FS_Interval
  <2>. QED  BY <2>2
<1>7. rank \in Surjection(S, 0..(m - 1))
  BY <1>1, <1>5, <1>6, FS_Injection
<1>8. ASSUME NEW k \in 1..m PROVE \E i \in S : rank[i] = k - 1
  <2>1. k - 1 \in 0..(m - 1)
    OBVIOUS
  <2>. QED  BY <1>7, <2>1 DEF Surjection
<1>9. Ascending(S) = [k \in 1..m |-> CHOOSE i \in S : rank[i] = k - 1]
  <2>1. \A i \in S : rank[i] = Cardinality({j \in S : j < i})
    BY <1>2
  <2>2. \A k \in 1..m : (CHOOSE i \in S : rank[i] = k - 1)
                          = CHOOSE i \in S : Cardinality({j \in S : j < i}) = k - 1
    BY <2>1
  <2>. QED  BY <1>1, <2>2 DEF Ascending
<1>. HIDE DEF Below
<1>10. ASSUME NEW k \in 1..m PROVE Ascending(S)[k] \in S /\ rank[Ascending(S)[k]] = k - 1
  BY <1>8, <1>9
<1>11. ASSUME NEW i \in S PROVE rank[i] \in 0..(m - 1) /\ Ascending(S)[rank[i] + 1] = i
  <2>1. rank[i] \in 0..(m - 1)
    BY <1>4
  <2>2. PICK k \in 1..m : k = rank[i] + 1
    BY <2>1
  <2>3. rank[Ascending(S)[k]] = rank[i] /\ Ascending(S)[k] \in S
    BY <1>10, <2>1, <2>2
  <2>4. Ascending(S)[k] = i
    BY <1>5, <2>3 DEF Injection, IsInjective
  <2>. QED  BY <2>1, <2>2, <2>4
<1>12. \A i \in S : rank[i] = Rank(S, i)
  BY <1>2 DEF Rank, Below
<1>13. DOMAIN Ascending(S) = 1..m
  BY <1>9
<1>. QED  BY <1>1, <1>10, <1>11, <1>12, <1>13

\* The ascending list of a set of positions.
LEMMA AscendingLists ==
    ASSUME NEW n \in Nat, NEW S, S \subseteq 1..n
    PROVE  /\ Cardinality(S) \in Nat /\ DOMAIN Ascending(S) = 1..Cardinality(S)
           /\ \A k \in 1..Cardinality(S) : Ascending(S)[k] \in S
           /\ \A i \in S : \E k \in 1..Cardinality(S) : Ascending(S)[k] = i
<1>1. /\ Cardinality(S) \in Nat /\ DOMAIN Ascending(S) = 1..Cardinality(S)
      /\ \A k \in 1..Cardinality(S) : Ascending(S)[k] \in S
      /\ \A i \in S : Rank(S, i) \in 0..(Cardinality(S) - 1) /\ Ascending(S)[Rank(S, i) + 1] = i
  BY AscendingRanks
<1>2. ASSUME NEW i \in S PROVE \E k \in 1..Cardinality(S) : Ascending(S)[k] = i
  <2>1. PICK k : k = Rank(S, i) + 1
    OBVIOUS
  <2>2. k \in 1..Cardinality(S) /\ Ascending(S)[k] = i
    BY <1>1, <2>1
  <2>. QED  BY <2>2
<1>. QED  BY <1>1, <1>2

\* A number above all others comes last.
LEMMA AscendingAppended ==
    ASSUME NEW n \in Nat, NEW S, S \subseteq 1..n, NEW m \in Nat, n < m
    PROVE  /\ Cardinality(S \cup {m}) = Cardinality(S) + 1
           /\ \A k \in 1..Cardinality(S) : Ascending(S \cup {m})[k] = Ascending(S)[k]
           /\ Ascending(S \cup {m})[Cardinality(S) + 1] = m
<1>1. S \cup {m} \subseteq 1..m
  <2>1. m \in 1..m
    OBVIOUS
  <2>2. \A i \in 1..n : i \in 1..m
    OBVIOUS
  <2>. QED  BY <2>1, <2>2
<1>2. PICK T : T = S \cup {m} /\ T \subseteq 1..m
  BY <1>1
<1>3. PICK size : size = Cardinality(S) /\ size \in Nat /\ IsFiniteSet(S)
  BY FinitePart
<1>4. Cardinality(T) = size + 1
  <2>1. m \notin S
    OBVIOUS
  <2>. QED  BY <1>2, <1>3, <2>1, FS_AddElement
<1>5. \A i \in T : Rank(T, i) \in 0..(Cardinality(T) - 1) /\ Ascending(T)[Rank(T, i) + 1] = i
  BY <1>2, AscendingRanks
<1>6. \A k \in 1..size : Ascending(S)[k] \in S /\ Rank(S, Ascending(S)[k]) = k - 1
  BY <1>3, AscendingRanks
<1>7. \A i \in S : Rank(T, i) = Rank(S, i)
  <2>1. ASSUME NEW i \in S PROVE {j \in T : j < i} = {j \in S : j < i}
    BY <1>2
  <2>. QED  BY <2>1 DEF Rank
<1>8. Rank(T, m) = size
  <2>1. \A j \in S : j < m
    <3>1. \A j \in 1..n : j < m
      OBVIOUS
    <3>. QED  BY <3>1
  <2>2. ~(m < m)
    OBVIOUS
  <2>3. {j \in T : j < m} = S
    BY <1>2, <2>1, <2>2
  <2>. QED  BY <1>3, <2>3 DEF Rank
<1>9. ASSUME NEW k \in 1..size PROVE Ascending(T)[k] = Ascending(S)[k]
  <2>1. PICK i \in S : i = Ascending(S)[k] /\ Rank(T, i) = k - 1 /\ i \in T
    BY <1>2, <1>6, <1>7
  <2>2. Ascending(T)[Rank(T, i) + 1] = i
    BY <1>5, <2>1
  <2>. QED  BY <2>1, <2>2
<1>10. Ascending(T)[size + 1] = m
  BY <1>2, <1>5, <1>8
<1>. QED  BY <1>2, <1>3, <1>4, <1>9, <1>10

\* Of no positions, nothing is selected.
LEMMA NothingSelected ==
    ASSUME NEW f
    PROVE  Selected(f, {}) = <<>>
<1>1. PICK at : at = Ascending({})
  OBVIOUS
<1>2. Cardinality({}) = 0
  BY FS_EmptySet
<1>3. DOMAIN at = 1..Cardinality({})
  BY <1>1 DEF Ascending
<1>4. Selected(f, {}) = [k \in 1..0 |-> f[at[k]]]
  BY <1>1, <1>2, <1>3 DEF Selected
<1>. QED  BY <1>4

\* What is kept of a list is a list of its elements that are in the set.
LEMMA KeptElements ==
    ASSUME NEW s, NEW n \in Nat, DOMAIN s = 1..n, NEW S
    PROVE  /\ \E m \in Nat : DOMAIN Keep(s, S) = 1..m
           /\ Range(Keep(s, S)) = Range(s) \cap S
<1>1. PICK T, at : T = {i \in DOMAIN s : s[i] \in S} /\ at = Ascending(T)
  OBVIOUS
<1>2. Keep(s, S) = [k \in DOMAIN at |-> s[at[k]]]
  BY <1>1 DEF Keep, Selected
<1>3. /\ Cardinality(T) \in Nat /\ DOMAIN at = 1..Cardinality(T)
      /\ \A k \in DOMAIN at : at[k] \in T
      /\ \A i \in T : \E k \in DOMAIN at : at[k] = i
  <2>1. T \subseteq 1..n
    BY <1>1
  <2>2. /\ Cardinality(T) \in Nat /\ DOMAIN Ascending(T) = 1..Cardinality(T)
        /\ \A k \in 1..Cardinality(T) : Ascending(T)[k] \in T
        /\ \A i \in T : \E k \in 1..Cardinality(T) : Ascending(T)[k] = i
    BY <2>1, AscendingLists
  <2>. QED  BY <1>1, <2>2
<1>4. Range(Keep(s, S)) = {s[at[k]] : k \in DOMAIN at}
  BY <1>2 DEF Range
<1>5. {s[at[k]] : k \in DOMAIN at} = {s[i] : i \in T}
  BY <1>3
<1>6. {s[i] : i \in T} = Range(s) \cap S
  BY <1>1 DEF Range
<1>. QED  BY <1>2, <1>3, <1>4, <1>5, <1>6

-----------------------------------------------------------------------------
(* Texts that are cut and joined. *)

\* What FlattenSeq computes: its parts one after the other.
IsFlattened(parts, n, S, f) ==
    f \in [1..n -> Seq(S)] /\ f[1] = parts[1] /\ \A i \in 2..n : f[i] = f[i - 1] \o parts[i]

\* A flat list holds the elements of its parts, each where the lengths before it put it.
LEMMA Flattened ==
    ASSUME NEW n \in Nat \ {0}, NEW S, NEW parts \in [1..n -> Seq(S)]
    PROVE  \E f : IsFlattened(parts, n, S, f) /\ FlattenSeq(parts) = f[n]
<1>. DEFINE Longer(f, i) == IF i = 1 THEN parts[i] ELSE f[i - 1] \o parts[i]
            Good == {k \in Nat : \E f : f = [i \in 1..k |-> Longer(f, i)]}
<1>1. ASSUME NEW f, NEW g, NEW i \in Nat, i # 1 => f[i - 1] = g[i - 1] PROVE Longer(f, i) = Longer(g, i)
  BY <1>1
<1>. HIDE DEF Longer
<1>2. 0 \in Good
  <2>1. PICK f : f = [i \in 1..0 |-> parts[i]]
    OBVIOUS
  <2>2. f = [i \in 1..0 |-> Longer(f, i)]
    BY <2>1
  <2>. QED  BY <2>2
<1>3. ASSUME NEW k \in Nat, k \in Good PROVE k + 1 \in Good
  <2>1. PICK f : f = [i \in 1..k |-> Longer(f, i)]
    BY <1>3
  <2>2. PICK g : g = [i \in 1..(k + 1) |-> Longer(f, i)]
    OBVIOUS
  <2>3. ASSUME NEW i \in 1..k PROVE g[i] = f[i]
    <3>1. i \in 1..(k + 1)
      OBVIOUS
    <3>. QED  BY <2>1, <2>2, <3>1
  <2>4. ASSUME NEW i \in 1..(k + 1) PROVE Longer(f, i) = Longer(g, i)
    <3>1. i # 1 => i - 1 \in 1..k
      OBVIOUS
    <3>. QED  BY <1>1, <2>3, <3>1
  <2>5. g = [i \in 1..(k + 1) |-> Longer(g, i)]
    BY <2>2, <2>4
  <2>6. k + 1 \in Nat
    OBVIOUS
  <2>. QED  BY <2>5, <2>6
<1>. HIDE DEF Good
<1>4. n \in Good
  BY <1>2, <1>3, AllNaturals
<1>. DEFINE rec == CHOOSE f : f = [i \in 1..n |-> IF i = 1 THEN parts[i] ELSE f[i - 1] \o parts[i]]
<1>5. rec = [i \in 1..n |-> IF i = 1 THEN parts[i] ELSE rec[i - 1] \o parts[i]]
  <2>1. \E f : f = [i \in 1..n |-> Longer(f, i)]
    BY <1>4 DEF Good
  <2>. QED  BY <2>1 DEF Longer
<1>6. Len(parts) = n
  BY LenProperties
<1>7. FlattenSeq(parts) = rec[n]
  BY <1>6 DEF FlattenSeq
<1>. HIDE DEF rec
<1>. DEFINE Typed == {k \in Nat : k + 1 \in 1..n => rec[k + 1] \in Seq(S)}
<1>8. 0 \in Typed
  BY <1>5
<1>9. ASSUME NEW k \in Nat, k \in Typed PROVE k + 1 \in Typed
  <2>. SUFFICES ASSUME (k + 1) + 1 \in 1..n PROVE rec[(k + 1) + 1] \in Seq(S)
    OBVIOUS
  <2>1. k + 1 \in 1..n /\ ((k + 1) + 1) - 1 = k + 1 /\ (k + 1) + 1 # 1
    OBVIOUS
  <2>2. rec[(k + 1) + 1] = rec[k + 1] \o parts[(k + 1) + 1]
    BY <1>5, <2>1
  <2>3. rec[k + 1] \in Seq(S) /\ parts[(k + 1) + 1] \in Seq(S)
    BY <1>9, <2>1
  <2>. QED  BY <2>2, <2>3, ConcatProperties
<1>. HIDE DEF Typed
<1>10. Nat \subseteq Typed
  BY <1>8, <1>9, AllNaturals
<1>11. ASSUME NEW i \in 1..n PROVE rec[i] \in Seq(S)
  <2>1. i - 1 \in Typed /\ (i - 1) + 1 = i
    BY <1>10
  <2>. QED  BY <2>1 DEF Typed
<1>12. PICK f : f = rec
  OBVIOUS
<1>13. f \in [1..n -> Seq(S)] /\ FlattenSeq(parts) = f[n]
  BY <1>5, <1>7, <1>11, <1>12
<1>14. f[1] = parts[1] /\ \A i \in 2..n : f[i] = f[i - 1] \o parts[i]
  <2>1. \A i \in 1..n : f[i] = IF i = 1 THEN parts[i] ELSE f[i - 1] \o parts[i]
    BY <1>5, <1>12
  <2>2. f[1] = parts[1]
    <3>1. 1 \in 1..n
      OBVIOUS
    <3>. QED  BY <2>1, <3>1
  <2>3. ASSUME NEW i \in 2..n PROVE f[i] = f[i - 1] \o parts[i]
    <3>1. i \in 1..n /\ i # 1
      OBVIOUS
    <3>. QED  BY <2>1, <3>1
  <2>. QED  BY <2>2, <2>3
<1>. QED  BY <1>13, <1>14 DEF IsFlattened

-----------------------------------------------------------------------------
(* What is joined by a separator is cut at it again. *)

Marks(text, c) == {i \in DOMAIN text : text[i] = c}
Without(text, c) == \A i \in DOMAIN text : text[i] # c

\* Of two numbers in a set the smaller has the smaller rank.
LEMMA RankGrows ==
    ASSUME NEW n \in Nat, NEW S, S \subseteq 1..n, NEW i \in S, NEW j \in S, i < j
    PROVE  Rank(S, i) < Rank(S, j) /\ Rank(S, i) \in Nat
<1>1. PICK below, rest, above : below = {x \in S : x < i} /\ rest = {x \in S : x < j} /\ above = below \cup {i}
  OBVIOUS
<1>2. below \subseteq 1..n /\ rest \subseteq 1..n /\ i \in 1..n /\ j \in 1..n
  BY <1>1
<1>3. IsFiniteSet(below) /\ IsFiniteSet(rest) /\ Cardinality(below) \in Nat /\ Cardinality(rest) \in Nat
  BY <1>2, FinitePart
<1>4. i \notin below
  BY <1>1, <1>2
<1>5. above \subseteq rest
  <2>1. ASSUME NEW x \in S, x < i PROVE x < j
    <3>1. x \in 1..n
      OBVIOUS
    <3>. QED  BY <1>2, <2>1, <3>1
  <2>. QED  BY <1>1, <2>1
<1>6. Cardinality(above) = Cardinality(below) + 1
  BY <1>1, <1>3, <1>4, FS_AddElement
<1>7. Cardinality(above) <= Cardinality(rest)
  BY <1>3, <1>5, FS_Subset
<1>. QED  BY <1>1, <1>3, <1>6, <1>7 DEF Rank

\* A text is cut into texts without the separator.
LEMMA SplitPieces ==
    ASSUME NEW C, NEW text \in Seq(C), NEW c
    PROVE  \E n \in Nat \ {0} :
             Split(text, c) \in [1..n -> Seq(C)] /\ \A k \in 1..n : Without(Split(text, c)[k], c)
<1>1. PICK len \in Nat : len = Len(text) /\ DOMAIN text = 1..len /\ \A i \in 1..len : text[i] \in C
  BY LenProperties
<1>2. PICK S : S = Marks(text, c) \cup {len + 1}
  OBVIOUS
<1>3. S \subseteq 1..(len + 1) /\ len + 1 \in S /\ len + 1 \in Nat
  BY <1>1, <1>2 DEF Marks
<1>4. PICK ends, n : ends = Ascending(S) /\ n = Cardinality(S)
  OBVIOUS
<1>5. /\ n \in Nat /\ DOMAIN ends = 1..n
      /\ \A k \in 1..n : ends[k] \in S /\ Rank(S, ends[k]) = k - 1
      /\ \A i \in S : Rank(S, i) \in 0..(n - 1) /\ ends[Rank(S, i) + 1] = i
  BY <1>3, <1>4, AscendingRanks
<1>6. n \in Nat \ {0}
  BY <1>3, <1>5
<1>. DEFINE From(k) == IF k = 1 THEN 1 ELSE ends[k - 1] + 1
<1>7. PICK pieces : pieces = [k \in 1..n |-> SubSeq(text, From(k), ends[k] - 1)]
  OBVIOUS
<1>8. Split(text, c) = pieces
  BY <1>1, <1>2, <1>4, <1>5, <1>7 DEF Split, Cuts, Marks
<1>9. ASSUME NEW k \in 1..n PROVE pieces[k] \in Seq(C) /\ Without(pieces[k], c)
  <2>1. PICK a, b : a = From(k) /\ b = ends[k]
    OBVIOUS
  <2>2. b \in 1..(len + 1) /\ Rank(S, b) = k - 1 /\ b \in S
    BY <1>3, <1>5, <2>1
  <2>3. a \in Nat \ {0} /\ (k # 1 => a - 1 \in S /\ Rank(S, a - 1) = k - 2) /\ (k = 1 => a = 1)
    <3>1. CASE k = 1
      BY <2>1, <3>1
    <3>2. CASE k # 1
      <4>1. k - 1 \in 1..n
        BY <1>6, <3>2
      <4>2. ends[k - 1] \in S /\ Rank(S, ends[k - 1]) = (k - 1) - 1 /\ ends[k - 1] \in 1..(len + 1)
        BY <1>3, <1>5, <4>1
      <4>. QED  BY <2>1, <3>2, <4>2
    <3>. QED  BY <3>1, <3>2
  <2>. HIDE DEF From
  <2>4. \A j \in a..(b - 1) : j \in 1..len /\ text[j] \in C
    BY <1>1, <2>2, <2>3
  <2>5. PICK piece : piece = SubSeq(text, a, b - 1)
    OBVIOUS
  <2>6. /\ piece \in Seq(C) /\ Len(piece) = IF a <= b - 1 THEN (b - 1) - a + 1 ELSE 0
        /\ \A i \in 1..((b - 1) - a + 1) : piece[i] = text[a + i - 1]
    BY <2>2, <2>3, <2>4, <2>5, SubSeqProperties
  <2>7. ASSUME NEW i \in DOMAIN piece PROVE piece[i] # c
    <3>1. i \in 1..((b - 1) - a + 1)
      BY <2>2, <2>3, <2>6, LenProperties
    <3>2. PICK j : j = a + i - 1
      OBVIOUS
    <3>a. piece[i] = text[j]
      BY <2>6, <3>1, <3>2
    <3>3. j \in 1..len /\ a <= j /\ j < b /\ piece[i] = text[j]
      BY <1>1, <2>2, <2>3, <3>1, <3>2, <3>a
    <3>4. SUFFICES ASSUME text[j] = c PROVE FALSE
      BY <3>3
    <3>5. j \in S /\ j \in 1..(len + 1)
      BY <1>1, <1>2, <3>3, <3>4 DEF Marks
    <3>6. Rank(S, j) < k - 1 /\ Rank(S, j) \in Nat
      <4>1. Rank(S, j) < Rank(S, b)
        BY <1>3, <2>2, <3>3, <3>5, RankGrows
      <4>. QED  BY <1>5, <2>2, <3>5, <4>1
    <3>7. k # 1 /\ k \in Nat
      BY <1>6, <3>6
    <3>8. a - 1 \in S /\ a - 1 < j /\ Rank(S, a - 1) = k - 2
      BY <2>3, <3>3, <3>7
    <3>9. Rank(S, a - 1) < Rank(S, j)
      BY <1>3, <3>5, <3>8, RankGrows
    <3>. QED  BY <3>6, <3>7, <3>8, <3>9
  <2>. QED  BY <1>7, <2>1, <2>5, <2>6, <2>7 DEF Without
<1>. QED  BY <1>6, <1>7, <1>8, <1>9

\* One more piece puts one more mark at the end.
IsOneMore(g, q, c, h) ==
    /\ Len(g) \in Nat /\ Len(q) \in Nat /\ Len(h) = Len(g) + Len(q) + 1 /\ h[Len(h)] = c
    /\ \A i \in 1..Len(g) : h[i] = g[i]
    /\ \A i \in 1..Len(q) : h[Len(g) + i] = q[i]
    /\ Marks(g, c) \subseteq 1..Len(g) /\ Marks(h, c) = Marks(g, c) \cup {Len(h)}

\* A text that goes on by a piece without the mark, and the mark, has one mark more.
LEMMA OneMoreMark ==
    ASSUME NEW C, NEW c \in C, NEW g \in Seq(C), NEW q \in Seq(C), Without(q, c),
           NEW h, h = g \o Append(q, c)
    PROVE  h \in Seq(C) /\ IsOneMore(g, q, c, h)
<1>1. PICK m \in Nat, n \in Nat : m = Len(g) /\ n = Len(q) /\ DOMAIN g = 1..m /\ DOMAIN q = 1..n
  BY LenProperties
<1>2. PICK e : e = Append(q, c)
  OBVIOUS
<1>3. /\ e \in Seq(C) /\ Len(e) = n + 1 /\ e[n + 1] = c
      /\ \A i \in 1..n : e[i] = q[i]
  BY <1>1, <1>2, AppendProperties
<1>4. /\ h \in Seq(C) /\ Len(h) = m + (n + 1)
      /\ \A i \in 1..(m + (n + 1)) : h[i] = IF i <= m THEN g[i] ELSE e[i - m]
  BY <1>1, <1>2, <1>3, ConcatProperties
<1>5. \A i \in 1..m : h[i] = g[i]
  BY <1>4
<1>6. \A i \in 1..n : h[m + i] = q[i]
  <2>1. ASSUME NEW i \in 1..n PROVE h[m + i] = q[i]
    <3>1. m + i \in 1..(m + (n + 1)) /\ ~(m + i <= m) /\ (m + i) - m = i
      OBVIOUS
    <3>. QED  BY <1>3, <1>4, <3>1
  <2>. QED  BY <2>1
<1>7. h[m + n + 1] = c
  <2>1. m + n + 1 \in 1..(m + (n + 1)) /\ ~(m + n + 1 <= m) /\ (m + n + 1) - m = n + 1
    OBVIOUS
  <2>. QED  BY <1>3, <1>4, <2>1
<1>8. DOMAIN h = 1..(m + n + 1) /\ Len(h) = m + n + 1
  BY <1>1, <1>4, LenProperties
<1>9. ASSUME NEW i \in 1..(m + n + 1) PROVE h[i] = c <=> (i \in 1..m /\ g[i] = c) \/ i = m + n + 1
  <2>1. CASE i \in 1..m
    BY <1>1, <1>5, <2>1
  <2>2. CASE i \in (m + 1)..(m + n)
    <3>1. i - m \in 1..n /\ m + (i - m) = i
      BY <2>2
    <3>. QED  BY <1>1, <1>6, <2>2, <3>1 DEF Without
  <2>3. CASE i = m + n + 1
    BY <1>1, <1>7, <2>3
  <2>4. i \in 1..m \/ i \in (m + 1)..(m + n) \/ i = m + n + 1
    OBVIOUS
  <2>. QED  BY <2>1, <2>2, <2>3, <2>4
<1>10. Marks(h, c) = Marks(g, c) \cup {m + n + 1}
  <2>1. 1..m \subseteq 1..(m + n + 1) /\ m + n + 1 \in 1..(m + n + 1)
    BY <1>1
  <2>. QED  BY <1>1, <1>8, <1>9, <2>1 DEF Marks
<1>11. Marks(g, c) \subseteq 1..m
  BY <1>1 DEF Marks
<1>12. Len(h) = m + n + 1 /\ Len(g) = m /\ Len(q) = n /\ h \in Seq(C) /\ h[Len(h)] = c
  BY <1>1, <1>4, <1>7, <1>8
<1>. QED  BY <1>1, <1>5, <1>6, <1>10, <1>11, <1>12 DEF IsOneMore

\* What the first k pieces make, each with the separator behind it.
EndOf(f, k) == IF k = 0 THEN 0 ELSE Len(f[k])
Reached(f, k, c) ==
    /\ Cardinality(Marks(f[k], c)) = k
    /\ \A j \in 1..k : /\ Ascending(Marks(f[k], c))[j] = EndOf(f, j) /\ EndOf(f, j) <= EndOf(f, k)
                       /\ \A i \in 1..EndOf(f, j) : f[k][i] = f[j][i]
LastPiece(f, parts, k, c) ==
    /\ EndOf(f, k - 1) \in Nat /\ Len(parts[k]) \in Nat
    /\ EndOf(f, k) = EndOf(f, k - 1) + Len(parts[k]) + 1 /\ f[k][EndOf(f, k)] = c
    /\ \A i \in 1..Len(parts[k]) : f[k][EndOf(f, k - 1) + i] = parts[k][i]
IsJoining(f, parts, n, c) ==
    \A k \in 1..n : Reached(f, k, c) /\ LastPiece(f, parts, k, c)

\* A mark behind all others.
ComesLast(S, m) ==
    /\ Cardinality(S \cup {m}) = Cardinality(S) + 1
    /\ \A j \in 1..Cardinality(S) : Ascending(S \cup {m})[j] = Ascending(S)[j]
    /\ Ascending(S \cup {m})[Cardinality(S) + 1] = m

\* A larger position comes last.
LEMMA LargestComesLast ==
    ASSUME NEW n \in Nat, NEW S, S \subseteq 1..n, NEW m \in Nat, n < m
    PROVE  ComesLast(S, m)
  BY AscendingAppended DEF ComesLast

\* One piece after the other.
LEMMA FurtherPiece ==
    ASSUME NEW C, NEW c \in C, NEW f, NEW parts, NEW k \in Nat \ {0}, NEW g \in Seq(C),
           parts[k] \in Seq(C), Without(parts[k], c), f[k] = g \o Append(parts[k], c),
           k = 1 => g = <<>>, k # 1 => g = f[k - 1] /\ Reached(f, k - 1, c)
    PROVE  Reached(f, k, c) /\ LastPiece(f, parts, k, c)
<1>1. PICK q, h, S, m, a : q = parts[k] /\ h = f[k] /\ S = Marks(g, c) /\ m = Len(h) /\ a = Len(g)
  OBVIOUS
<1>2. h \in Seq(C) /\ IsOneMore(g, q, c, h)
  <2>1. q \in Seq(C) /\ Without(q, c) /\ h = g \o Append(q, c)
    BY <1>1
  <2>. QED  BY <2>1, OneMoreMark
<1>3. /\ a \in Nat /\ Len(q) \in Nat /\ m = a + Len(q) + 1 /\ h[m] = c
      /\ \A i \in 1..a : h[i] = g[i]
      /\ \A i \in 1..Len(q) : h[a + i] = q[i]
      /\ S \subseteq 1..a /\ Marks(h, c) = S \cup {m}
  BY <1>1, <1>2 DEF IsOneMore
<1>4. m \in Nat /\ a < m
  BY <1>3
<1>5. /\ a = EndOf(f, k - 1) /\ m = EndOf(f, k)
      /\ Cardinality(S) = k - 1
      /\ \A j \in 1..(k - 1) : /\ Ascending(S)[j] = EndOf(f, j) /\ EndOf(f, j) <= a
                               /\ \A i \in 1..EndOf(f, j) : g[i] = f[j][i]
  <2>1. m = EndOf(f, k)
    BY <1>1 DEF EndOf
  <2>2. CASE k = 1
    <3>1. g = <<>> /\ S = {}
      BY <1>1, <2>2 DEF Marks
    <3>2. a = 0 /\ Cardinality(S) = 0
      BY <1>1, <3>1, FS_EmptySet
    <3>3. k - 1 = 0
      BY <2>2
    <3>4. \A j \in 1..(k - 1) : FALSE
      BY <3>3
    <3>. QED  BY <2>1, <3>2, <3>3, <3>4 DEF EndOf
  <2>3. CASE k # 1
    <3>1. g = f[k - 1] /\ Reached(f, k - 1, c) /\ k - 1 # 0
      BY <2>3
    <3>2. a = EndOf(f, k - 1)
      BY <1>1, <3>1 DEF EndOf
    <3>. QED  BY <1>1, <2>1, <3>1, <3>2 DEF Reached
  <2>. QED  BY <2>2, <2>3
<1>6. PICK e, size : e = Ascending(S \cup {m}) /\ size = Cardinality(S \cup {m})
  OBVIOUS
<1>7. /\ size = Cardinality(S) + 1
      /\ \A j \in 1..Cardinality(S) : e[j] = Ascending(S)[j]
      /\ e[Cardinality(S) + 1] = m
  <2>1. /\ Cardinality(S \cup {m}) = Cardinality(S) + 1
        /\ \A j \in 1..Cardinality(S) : Ascending(S \cup {m})[j] = Ascending(S)[j]
        /\ Ascending(S \cup {m})[Cardinality(S) + 1] = m
    <3>1. a \in Nat /\ S \subseteq 1..a /\ m \in Nat /\ a < m
      BY <1>3, <1>4
    <3>2. ComesLast(S, m)
      BY <3>1, LargestComesLast
    <3>. QED  BY <3>2 DEF ComesLast
  <2>. QED  BY <1>6, <2>1
<1>8. size = k
  <2>1. (k - 1) + 1 = k
    OBVIOUS
  <2>. QED  BY <1>5, <1>7, <2>1
<1>9. e[k] = m
  <2>1. (k - 1) + 1 = k
    OBVIOUS
  <2>. QED  BY <1>5, <1>7, <2>1
<1>10. \A j \in 1..(k - 1) : e[j] = EndOf(f, j)
  BY <1>5, <1>7
<1>11. ASSUME NEW j \in 1..k
       PROVE  e[j] = EndOf(f, j) /\ EndOf(f, j) <= m /\ \A i \in 1..EndOf(f, j) : h[i] = f[j][i]
  <2>1. CASE j = k
    <3>1. e[j] = m /\ EndOf(f, j) = m /\ f[j] = h
      BY <1>1, <1>5, <1>9, <2>1
    <3>. QED  BY <1>4, <3>1
  <2>2. CASE j # k
    <3>1. j \in 1..(k - 1)
      BY <2>2
    <3>2. EndOf(f, j) <= a /\ \A i \in 1..EndOf(f, j) : g[i] = f[j][i]
      BY <1>5, <3>1
    <3>3. EndOf(f, j) \in Nat
      <4>1. Ascending(S)[j] \in S
        <5>1. j \in 1..Cardinality(S)
          BY <1>5, <3>1
        <5>. QED  BY <1>3, <5>1, AscendingRanks
      <4>2. EndOf(f, j) \in S
        BY <1>5, <3>1, <4>1
      <4>3. a \in Nat /\ S \subseteq 1..a
        BY <1>3
      <4>4. EndOf(f, j) \in 1..a
        BY <4>2, <4>3
      <4>. QED  BY <4>3, <4>4
    <3>4. \A i \in 1..EndOf(f, j) : i \in 1..a
      BY <1>3, <3>2, <3>3
    <3>5. EndOf(f, j) <= m
      BY <1>3, <1>4, <3>2, <3>3
    <3>. QED  BY <1>3, <1>10, <3>1, <3>2, <3>4, <3>5
  <2>. QED  BY <2>1, <2>2
<1>12. Reached(f, k, c)
  BY <1>1, <1>3, <1>5, <1>6, <1>8, <1>11 DEF Reached
<1>. QED  BY <1>1, <1>3, <1>5, <1>12 DEF LastPiece

\* How far the joined parts reach, one after another.
LEMMA JoinedReaches ==
    ASSUME NEW C, NEW c \in C, NEW n \in Nat \ {0}, NEW parts \in [1..n -> Seq(C)],
           \A k \in 1..n : Without(parts[k], c)
    PROVE  \E f \in [1..n -> Seq(C)] : Joined(parts, c) = Front(f[n]) /\ IsJoining(f, parts, n, c)
<1>1. PICK closed : closed = [k \in 1..n |-> Append(parts[k], c)]
  OBVIOUS
<1>2. closed \in [1..n -> Seq(C)]
  <2>1. ASSUME NEW k \in 1..n PROVE Append(parts[k], c) \in Seq(C)
    BY AppendProperties
  <2>. QED  BY <1>1, <2>1
<1>3. PICK f : IsFlattened(closed, n, C, f) /\ FlattenSeq(closed) = f[n]
  BY <1>2, Flattened
<1>4. /\ f \in [1..n -> Seq(C)] /\ f[1] = Append(parts[1], c)
      /\ \A k \in 2..n : f[k] = f[k - 1] \o Append(parts[k], c)
  <2>1. 1 \in 1..n /\ 2..n \subseteq 1..n
    OBVIOUS
  <2>. QED  BY <1>1, <1>3, <2>1 DEF IsFlattened
<1>5. Joined(parts, c) = Front(f[n])
  <2>1. DOMAIN parts = 1..n /\ parts # <<>>
    OBVIOUS
  <2>. QED  BY <1>1, <1>3, <2>1 DEF Joined
<1>6. ASSUME NEW k \in 1..n, k # 1 => Reached(f, k - 1, c)
      PROVE  Reached(f, k, c) /\ LastPiece(f, parts, k, c)
  <2>1. PICK g : g = IF k = 1 THEN <<>> ELSE f[k - 1]
    OBVIOUS
  <2>2. (k = 1 => g = <<>>) /\ (k # 1 => g = f[k - 1] /\ Reached(f, k - 1, c))
    BY <1>6, <2>1
  <2>3. g \in Seq(C) /\ f[k] = g \o Append(parts[k], c)
    <3>1. CASE k = 1
      <4>1. Append(parts[1], c) \in Seq(C)
        BY <3>1, AppendProperties
      <4>2. f[k] = Append(parts[k], c) /\ g = <<>>
        BY <1>4, <2>2, <3>1
      <4>3. g \in Seq(C)
        BY <4>2
      <4>4. <<>> \o Append(parts[k], c) = Append(parts[k], c)
        BY <3>1, <4>1, ConcatEmptySeq
      <4>. QED  BY <4>2, <4>3, <4>4
    <3>2. CASE k # 1
      <4>1. k - 1 \in 1..n /\ k \in 2..n
        BY <3>2
      <4>. QED  BY <1>4, <2>2, <3>2, <4>1
    <3>. QED  BY <3>1, <3>2
  <2>4. k \in Nat \ {0} /\ parts[k] \in Seq(C) /\ Without(parts[k], c)
    OBVIOUS
  <2>. QED  BY <2>2, <2>3, <2>4, FurtherPiece
<1>. DEFINE Good == {k \in Nat : k + 1 \in 1..n => Reached(f, k + 1, c)}
<1>7. 0 \in Good
  <2>1. 1 \in 1..n
    OBVIOUS
  <2>. QED  BY <1>6, <2>1
<1>8. ASSUME NEW k \in Nat, k \in Good PROVE k + 1 \in Good
  <2>. SUFFICES ASSUME (k + 1) + 1 \in 1..n PROVE Reached(f, (k + 1) + 1, c)
    OBVIOUS
  <2>1. k + 1 \in 1..n /\ ((k + 1) + 1) - 1 = k + 1
    OBVIOUS
  <2>. QED  BY <1>6, <1>8, <2>1
<1>. HIDE DEF Good
<1>9. Nat \subseteq Good
  BY <1>7, <1>8, AllNaturals
<1>10. ASSUME NEW k \in 1..n PROVE Reached(f, k, c)
  <2>1. k - 1 \in Good /\ (k - 1) + 1 = k
    BY <1>9
  <2>. QED  BY <2>1 DEF Good
<1>11. ASSUME NEW k \in 1..n PROVE LastPiece(f, parts, k, c)
  <2>1. k # 1 => k - 1 \in 1..n
    OBVIOUS
  <2>. QED  BY <1>6, <1>10, <2>1
<1>12. IsJoining(f, parts, n, c)
  BY <1>10, <1>11 DEF IsJoining
<1>. QED  BY <1>4, <1>5, <1>12

\* Cut at the separator that none of them holds, joined parts are the parts again.
LEMMA JoinedSplits ==
    ASSUME NEW C, NEW c \in C, NEW n \in Nat \ {0}, NEW parts \in [1..n -> Seq(C)],
           \A k \in 1..n : Without(parts[k], c)
    PROVE  Split(Joined(parts, c), c) = parts /\ Joined(parts, c) \in Seq(C)
<1>1. PICK f \in [1..n -> Seq(C)] : Joined(parts, c) = Front(f[n]) /\ IsJoining(f, parts, n, c)
  BY JoinedReaches
<1>2. PICK t, u, len : t = f[n] /\ u = Front(t) /\ len = Len(t)
  OBVIOUS
<1>3. n \in 1..n /\ n # 0 /\ t \in Seq(C) /\ len \in Nat /\ DOMAIN t = 1..len
  BY <1>1, <1>2, LenProperties
<1>4. len = EndOf(f, n)
  BY <1>2, <1>3 DEF EndOf
<1>5. Reached(f, n, c) /\ LastPiece(f, parts, n, c)
  BY <1>1, <1>3 DEF IsJoining
<1>6. len \in Nat \ {0} /\ t[len] = c
  BY <1>2, <1>4, <1>5 DEF LastPiece
<1>7. u \in Seq(C) /\ Len(u) = len - 1 /\ (\A i \in 1..(len - 1) : u[i] = t[i]) /\ DOMAIN u = 1..(len - 1)
  <2>1. \A i \in 1..(len - 1) : t[i] \in C
    BY <1>3, <1>6, LenProperties
  <2>2. u = SubSeq(t, 1, len - 1)
    BY <1>2 DEF Front
  <2>3. /\ u \in Seq(C) /\ Len(u) = IF 1 <= len - 1 THEN (len - 1) - 1 + 1 ELSE 0
        /\ \A i \in 1..((len - 1) - 1 + 1) : u[i] = t[1 + i - 1]
    BY <1>6, <2>1, <2>2, SubSeqProperties
  <2>4. Len(u) = len - 1
    BY <1>6, <2>3
  <2>5. ASSUME NEW i \in 1..(len - 1) PROVE u[i] = t[i]
    <3>1. i \in 1..((len - 1) - 1 + 1) /\ 1 + i - 1 = i
      BY <1>6
    <3>. QED  BY <2>3, <3>1
  <2>. QED  BY <2>3, <2>4, <2>5, LenProperties
<1>8. Marks(u, c) \cup {Len(u) + 1} = Marks(t, c)
  <2>1. 1..(len - 1) \subseteq 1..len /\ len \in 1..len /\ (\A i \in 1..len : i \in 1..(len - 1) \/ i = len) /\ (len - 1) + 1 = len
    BY <1>6
  <2>. QED  BY <1>3, <1>6, <1>7, <2>1 DEF Marks
<1>9. PICK E : E = Ascending(Marks(t, c))
  OBVIOUS
<1>10. DOMAIN E = 1..n /\ \A k \in 1..n : E[k] = EndOf(f, k)
  <2>1. Cardinality(Marks(t, c)) = n /\ \A k \in 1..n : E[k] = EndOf(f, k)
    BY <1>2, <1>5, <1>9 DEF Reached
  <2>2. Marks(t, c) \subseteq 1..len
    BY <1>3 DEF Marks
  <2>3. DOMAIN Ascending(Marks(t, c)) = 1..Cardinality(Marks(t, c))
    BY <1>3, <2>2, AscendingRanks
  <2>. QED  BY <1>9, <2>1, <2>3
<1>. DEFINE From(k) == IF k = 1 THEN 1 ELSE E[k - 1] + 1
<1>11. Split(u, c) = [k \in 1..n |-> SubSeq(u, From(k), E[k] - 1)]
  BY <1>8, <1>9, <1>10 DEF Split, Cuts, Marks
<1>12. ASSUME NEW k \in 1..n PROVE SubSeq(u, From(k), E[k] - 1) = parts[k]
  <2>1. PICK a, b, g, before, q, size :
           /\ a = From(k) /\ b = E[k] /\ g = f[k] /\ before = EndOf(f, k - 1) /\ q = parts[k]
           /\ size = Len(q)
    OBVIOUS
  <2>2. a = before + 1
    <3>1. CASE k = 1
      BY <2>1, <3>1 DEF EndOf
    <3>2. CASE k # 1
      <4>1. k - 1 \in 1..n
        BY <3>2
      <4>. QED  BY <1>10, <2>1, <3>2, <4>1
    <3>. QED  BY <3>1, <3>2
  <2>. HIDE DEF From
  <2>3. LastPiece(f, parts, k, c)
    BY <1>1 DEF IsJoining
  <2>4. before \in Nat /\ size \in Nat /\ q \in Seq(C) /\ b = EndOf(f, k)
    BY <1>10, <2>1, <2>3 DEF LastPiece
  <2>5. b = before + size + 1
    BY <2>1, <2>3, <2>4 DEF LastPiece
  <2>6. \A i \in 1..size : g[before + i] = q[i]
    BY <2>1, <2>3 DEF LastPiece
  <2>7. b <= len /\ \A i \in 1..b : t[i] = g[i]
    BY <1>2, <1>4, <1>5, <2>1, <2>4 DEF Reached
  <2>8. ASSUME NEW i \in 1..size PROVE u[a + i - 1] = q[i] /\ a + i - 1 \in 1..(len - 1)
    <3>1. i \in Nat /\ 1 <= i /\ i <= size
      BY <2>4
    <3>2. a + i - 1 = before + i /\ before + i \in 1..(len - 1) /\ before + i \in 1..b
      BY <1>6, <2>2, <2>4, <2>5, <2>7, <3>1
    <3>. QED  BY <1>7, <2>6, <2>7, <3>2
  <2>9. \A i \in a..(b - 1) : u[i] \in C
    <3>1. \A i \in a..(b - 1) : i \in 1..(len - 1)
      BY <1>6, <2>2, <2>4, <2>5, <2>7
    <3>. QED  BY <1>7, <3>1, LenProperties
  <2>10. PICK piece : piece = SubSeq(u, a, b - 1)
    OBVIOUS
  <2>11. a \in Int /\ b - 1 \in Int /\ (b - 1) - a + 1 = size /\ (a <= b - 1 <=> size # 0)
    BY <2>2, <2>4, <2>5
  <2>12. PICK z : z = b - 1
    OBVIOUS
  <2>13. /\ piece \in Seq(C) /\ Len(piece) = size
         /\ \A i \in 1..size : piece[i] = u[a + i - 1]
    <3>1. a \in Int /\ z \in Int /\ (\A i \in a..z : u[i] \in C) /\ piece = SubSeq(u, a, z)
      BY <2>9, <2>10, <2>11, <2>12
    <3>2. z - a + 1 = size /\ size = IF a <= z THEN z - a + 1 ELSE 0
      BY <2>4, <2>11, <2>12
    <3>3. piece \in Seq(C) /\ Len(piece) = IF a <= z THEN z - a + 1 ELSE 0
      BY <3>1, SubSeqProperties
    <3>4. \A i \in 1..(z - a + 1) : piece[i] = u[a + i - 1]
      BY <3>1, SubSeqProperties
    <3>. QED  BY <3>2, <3>3, <3>4
  <2>14. piece = q
    <3>1. piece \in Seq(C) /\ q \in Seq(C) /\ Len(piece) = Len(q)
      BY <2>1, <2>4, <2>13
    <3>2. \A i \in 1..Len(piece) : piece[i] = q[i]
      BY <2>8, <2>13
    <3>. QED  BY <3>1, <3>2, SeqEqual
  <2>. QED  BY <2>1, <2>10, <2>14
<1>13. parts = [k \in 1..n |-> parts[k]]
  OBVIOUS
<1>. HIDE DEF From
<1>. QED  BY <1>1, <1>2, <1>7, <1>11, <1>12, <1>13

\* A text over its own characters is one over more of them, and the other way round.
LEMMA TextOver ==
    ASSUME NEW text, IsList(text), NEW C, Range(text) \subseteq C
    PROVE  text \in Seq(C)
<1>1. Seq(Range(text)) \subseteq Seq(C)
  BY SeqMonotonic
<1>. QED  BY <1>1 DEF IsList

\* A list is one of its elements, or of more than these.
LEMMA OwnCharacters ==
    ASSUME NEW C, NEW text \in Seq(C)
    PROVE  IsList(text) /\ Range(text) \subseteq C
<1>1. PICK n \in Nat : DOMAIN text = 1..n /\ text = [i \in 1..n |-> text[i]] /\ \A i \in 1..n : text[i] \in C
  BY LenProperties
<1>2. PICK S : S = Range(text)
  OBVIOUS
<1>3. \A i \in 1..n : text[i] \in S
  BY <1>1, <1>2 DEF Range
<1>4. text \in Seq(S)
  BY <1>1, <1>3
<1>. QED  BY <1>1, <1>2, <1>4 DEF IsList, Range

\* A text without a character is a text of the others.
LEMMA TextWithout ==
    ASSUME NEW C, NEW text \in Seq(C), NEW c, Without(text, c)
    PROVE  text \in Seq(C \ {c})
<1>1. Range(text) \subseteq C \ {c} /\ IsList(text)
  BY OwnCharacters DEF Without, Range
<1>. QED  BY <1>1, TextOver

\* The least number of a set.
LEMMA MinOfPart ==
    ASSUME NEW n \in Nat, NEW S, S \subseteq 1..n, S # {}
    PROVE  Min(S) \in S /\ \A j \in S : Min(S) <= j
<1>1. PICK k : k \in S
  OBVIOUS
<1>2. Cardinality(S) \in Nat /\ Rank(S, k) \in 0..(Cardinality(S) - 1)
  BY <1>1, AscendingRanks
<1>3. 1 \in 1..Cardinality(S)
  BY <1>2
<1>4. Ascending(S)[1] \in S /\ Rank(S, Ascending(S)[1]) = 1 - 1
  BY <1>3, AscendingRanks
<1>5. PICK i, below : i \in S /\ i = Ascending(S)[1] /\ below = {j \in S : j < i}
  BY <1>4
<1>6. below = {}
  <2>1. IsFiniteSet(below) /\ Cardinality(below) = 0
    <3>1. below \subseteq 1..n
      BY <1>5
    <3>2. IsFiniteSet(below)
      BY <3>1, FinitePart
    <3>. QED  BY <1>4, <1>5, <3>2 DEF Rank
  <2>. QED  BY <2>1, FS_EmptySet
<1>7. \A j \in S : i <= j
  BY <1>5, <1>6
<1>8. \A x \in S : (\A j \in S : x <= j) => x \in S /\ \A j \in S : x <= j
  OBVIOUS
<1>. QED  BY <1>5, <1>7 DEF Min

\* A text without what is blank around it.
Stripped(text, blank) ==
    LET kept == {i \in DOMAIN text : text[i] # blank}
    IN IF kept = {} THEN Blank ELSE SubSeq(text, Min(kept), Max(kept))

\* A text that neither begins nor ends with a blank is its own trimming.
LEMMA TextIsStripped ==
    ASSUME NEW C, NEW text \in Seq(C), NEW blank
    PROVE  /\ Stripped(text, blank) \in Seq(C)
           /\ Stripped(text, blank) # <<>> => Stripped(text, blank)[1] # blank
           /\ text # <<>> /\ text[1] # blank /\ text[Len(text)] # blank => Stripped(text, blank) = text
<1>1. PICK n \in Nat : n = Len(text) /\ DOMAIN text = 1..n /\ \A i \in 1..n : text[i] \in C
  BY LenProperties
<1>2. PICK kept, stripped : kept = {i \in 1..n : text[i] # blank} /\ stripped = Stripped(text, blank)
  OBVIOUS
<1>3. CASE kept = {}
  <2>1. stripped = <<>>
    BY <1>1, <1>2, <1>3 DEF Stripped, Blank
  <2>2. text # <<>> => 1 \in 1..n
    BY <1>1, EmptySeq
  <2>3. <<>> \in Seq(C)
    OBVIOUS
  <2>. QED  BY <1>2, <1>3, <2>1, <2>2, <2>3
<1>4. CASE kept # {}
  <2>1. PICK a, b : a = Min(kept) /\ b = Max(kept)
    OBVIOUS
  <2>2. a \in kept /\ b \in kept /\ \A j \in kept : a <= j /\ j <= b
    <3>1. kept \subseteq 1..n
      BY <1>2
    <3>. QED  BY <1>4, <2>1, <3>1, MinOfPart, MaxOfPart
  <2>3. a \in 1..n /\ b \in 1..n /\ a <= b /\ text[a] # blank
    BY <1>2, <2>2
  <2>4. stripped = SubSeq(text, a, b)
    BY <1>1, <1>2, <1>4, <2>1 DEF Stripped
  <2>5. \A i \in a..b : text[i] \in C
    BY <1>1, <2>3
  <2>6. stripped \in Seq(C)
    BY <2>3, <2>4, <2>5, SubSeqProperties
  <2>7. stripped[1] = text[a]
    <3>1. 1 \in 1..(b - a + 1) /\ a + 1 - 1 = a
      BY <2>3
    <3>2. stripped[1] = text[a + 1 - 1]
      BY <2>3, <2>4, <2>5, <3>1, SubSeqProperties
    <3>. QED  BY <3>1, <3>2
  <2>8. ASSUME text # <<>>, text[1] # blank, text[n] # blank PROVE stripped = text
    <3>1. 1 \in 1..n /\ n \in 1..n
      BY <2>3
    <3>2. 1 \in kept /\ n \in kept
      BY <1>2, <2>8, <3>1
    <3>3. a = 1 /\ b = n
      BY <2>2, <2>3, <3>2
    <3>. QED  BY <1>1, <2>4, <3>3, SubSeqFull
  <2>. QED  BY <1>1, <1>2, <2>3, <2>6, <2>7, <2>8
<1>. QED  BY <1>3, <1>4

\* Trim takes the blanks off both ends.
LEMMA TrimStrips == ASSUME NEW text PROVE Trim(text) = Stripped(text, " ")
  BY Zenon DEF Trim, Stripped

\* The first piece of a text is how it begins.
LEMMA FirstPiece ==
    ASSUME NEW C, NEW text \in Seq(C), NEW c
    PROVE  /\ Split(text, c)[1] \in Seq(C) /\ Without(Split(text, c)[1], c)
           /\ Split(text, c)[1] # <<>> => Split(text, c)[1][1] = text[1]
<1>1. PICK n \in Nat \ {0} : Split(text, c) \in [1..n -> Seq(C)] /\ \A k \in 1..n : Without(Split(text, c)[k], c)
  BY SplitPieces
<1>2. PICK pieces, first : pieces = Split(text, c) /\ first = pieces[1]
  OBVIOUS
<1>3. 1 \in 1..n /\ first \in Seq(C) /\ Without(first, c)
  BY <1>1, <1>2
<1>4. PICK ends : ends = Ascending({i \in DOMAIN text : text[i] = c} \cup {Len(text) + 1})
  OBVIOUS
<1>. DEFINE Piece(k) == SubSeq(text, IF k = 1 THEN 1 ELSE ends[k - 1] + 1, ends[k] - 1)
<1>5. pieces = [k \in DOMAIN ends |-> Piece(k)]
  BY <1>2, <1>4 DEF Split, Cuts
<1>6. 1 \in DOMAIN ends
  <2>1. DOMAIN pieces = 1..n /\ DOMAIN pieces = DOMAIN ends
    BY <1>1, <1>2, <1>5
  <2>. QED  BY <1>3, <2>1
<1>7. PICK b : b = ends[1] - 1
  OBVIOUS
<1>8. first = SubSeq(text, 1, b)
  BY <1>2, <1>5, <1>6, <1>7
<1>9. b \in Int /\ \A i \in 1..b : text[i] \in C
  <2>1. PICK l \in Nat : l = Len(text) /\ DOMAIN text = 1..l /\ \A i \in 1..l : text[i] \in C
    BY LenProperties
  <2>2. l + 1 \in Nat /\ {i \in DOMAIN text : text[i] = c} \cup {l + 1} \subseteq 1..(l + 1)
    BY <2>1
  <2>3. ends[1] \in 1..(l + 1)
    BY <1>4, <1>6, <2>1, <2>2, AscendingRanks
  <2>. QED  BY <1>7, <2>1, <2>3
<1>10. ASSUME first # <<>> PROVE first[1] = text[1]
  <2>1. Len(first) \in Nat \ {0}
    BY <1>3, <1>10, EmptySeq, LenProperties
  <2>2. Len(first) = IF 1 <= b THEN b - 1 + 1 ELSE 0
    BY <1>8, <1>9, SubSeqProperties
  <2>3. 1 \in 1..(b - 1 + 1) /\ 1 + 1 - 1 = 1
    BY <1>9, <2>1, <2>2
  <2>4. \A i \in 1..(b - 1 + 1) : first[i] = text[1 + i - 1]
    BY <1>8, <1>9, SubSeqProperties
  <2>. QED  BY <2>3, <2>4
<1>. QED  BY <1>2, <1>3, <1>10

\* A text but for what is behind its first n characters.
IsFrontOf(u, text, C, n) == u \in Seq(C) /\ Len(u) = n /\ \A i \in 1..n : u[i] = text[i]

\* The front of a text is the text but for its last character.
LEMMA FrontOfText ==
    ASSUME NEW C, NEW n \in Nat, NEW text \in Seq(C), Len(text) = n + 1
    PROVE  Front(text) \in Seq(C) /\ Len(Front(text)) = n /\ \A i \in 1..n : Front(text)[i] = text[i]
<1>1. (n + 1) - 1 = n /\ DOMAIN text = 1..(n + 1) /\ 1 \in Int /\ n \in Int
  BY LenProperties
<1>2. \A i \in 1..n : text[i] \in C
  BY <1>1, LenProperties
<1>3. PICK u : u = SubSeq(text, 1, n)
  OBVIOUS
<1>4. u = Front(text)
  BY <1>1, <1>3 DEF Front
<1>5. u \in Seq(C) /\ Len(u) = IF 1 <= n THEN n - 1 + 1 ELSE 0
  BY <1>1, <1>2, <1>3, SubSeqProperties
<1>6. \A i \in 1..(n - 1 + 1) : u[i] = text[1 + i - 1]
  BY <1>1, <1>2, <1>3, SubSeqProperties
<1>7. ASSUME NEW i \in 1..n PROVE u[i] = text[i]
  <2>1. i \in 1..(n - 1 + 1) /\ 1 + i - 1 = i
    OBVIOUS
  <2>. QED  BY <1>6, <2>1
<1>8. Len(u) = n
  BY <1>5
<1>. QED  BY <1>4, <1>5, <1>7, <1>8

\* What is joined is a text, and one text alone is joined to itself.
LEMMA JoinedTexts ==
    ASSUME NEW C, NEW c \in C, NEW n \in Nat, NEW parts \in [1..n -> Seq(C)]
    PROVE  Joined(parts, c) \in Seq(C) /\ (n = 1 => Joined(parts, c) = parts[1])
<1>1. CASE n = 0
  <2>1. parts = <<>>
    BY <1>1
  <2>. QED  BY <1>1, <2>1 DEF Joined, Blank
<1>2. CASE n # 0
  <2>1. PICK closed : closed = [k \in 1..n |-> Append(parts[k], c)]
    OBVIOUS
  <2>2. closed \in [1..n -> Seq(C)]
    <3>1. ASSUME NEW k \in 1..n PROVE Append(parts[k], c) \in Seq(C)
      BY AppendProperties
    <3>. QED  BY <2>1, <3>1
  <2>3. PICK f : IsFlattened(closed, n, C, f) /\ FlattenSeq(closed) = f[n]
    BY <1>2, <2>2, Flattened
  <2>4. f \in [1..n -> Seq(C)] /\ f[1] = Append(parts[1], c) /\ \A i \in 2..n : f[i] = f[i - 1] \o closed[i]
    <3>1. 1 \in 1..n
      BY <1>2
    <3>. QED  BY <2>1, <2>3, <3>1 DEF IsFlattened
  <2>5. Joined(parts, c) = Front(f[n])
    <3>1. DOMAIN parts = 1..n /\ parts # <<>>
      BY <1>2
    <3>. QED  BY <2>1, <2>3, <3>1 DEF Joined
  <2>6. f[n] \in Seq(C) /\ f[n] # <<>>
    <3>1. CASE n = 1
      <4>1. parts[1] \in Seq(C)
        BY <3>1
      <4>. QED  BY <2>4, <3>1, <4>1, AppendProperties
    <3>2. CASE n # 1
      <4>1. n \in 2..n /\ n - 1 \in 1..n /\ n \in 1..n
        BY <1>2, <3>2
      <4>2. f[n - 1] \in Seq(C) /\ parts[n] \in Seq(C) /\ f[n] = f[n - 1] \o Append(parts[n], c)
        BY <2>1, <2>4, <4>1
      <4>3. PICK g, e : g = f[n - 1] /\ e = Append(parts[n], c)
        OBVIOUS
      <4>4. e \in Seq(C) /\ Len(e) = Len(parts[n]) + 1 /\ Len(parts[n]) \in Nat
        BY <4>2, <4>3, AppendProperties, LenProperties
      <4>5. g \o e \in Seq(C) /\ Len(g \o e) = Len(g) + Len(e) /\ Len(g) \in Nat
        BY <4>2, <4>3, <4>4, ConcatProperties, LenProperties
      <4>6. Len(g \o e) # 0
        BY <4>4, <4>5
      <4>. QED  BY <4>2, <4>3, <4>5, <4>6, EmptySeq
    <3>. QED  BY <3>1, <3>2
  <2>7. Front(f[n]) \in Seq(C)
    <3>1. PICK t, m : t = f[n] /\ m = Len(t) - 1
      OBVIOUS
    <3>2. m \in Nat /\ Len(t) = m + 1 /\ t \in Seq(C)
      BY <2>6, <3>1, EmptySeq, LenProperties
    <3>. QED  BY <3>1, <3>2, FrontOfText
  <2>8. ASSUME n = 1 PROVE Front(f[n]) = parts[1]
    <3>1. PICK p, t, m : p = parts[1] /\ t = Append(p, c) /\ m = Len(p)
      OBVIOUS
    <3>2. p \in Seq(C) /\ m \in Nat /\ t \in Seq(C) /\ Len(t) = m + 1 /\ \A i \in 1..m : t[i] = p[i]
      BY <2>8, <3>1, AppendProperties, LenProperties
    <3>3. Front(t) \in Seq(C) /\ Len(Front(t)) = m /\ \A i \in 1..m : Front(t)[i] = t[i]
      BY <3>2, FrontOfText
    <3>4. Front(t) = p
      BY <3>1, <3>2, <3>3, SeqEqual
    <3>. QED  BY <2>4, <2>8, <3>1, <3>4
  <2>. QED  BY <2>5, <2>7, <2>8
<1>. QED  BY <1>1, <1>2

\* A text, a mark and a word: it begins and ends as they do, and is cut at the mark.
LEMMA WrittenText ==
    ASSUME NEW C, NEW c \in C, NEW o \in C, NEW field \in Seq(C), NEW n \in Nat, n = Len(field),
           NEW text, text = field \o <<c, o>>
    PROVE  /\ text \in Seq(C) /\ Len(text) = n + 2 /\ text[n + 1] = c /\ text[n + 2] = o
           /\ \A i \in 1..n : text[i] = field[i]
           /\ SubSeq(text, 1, n) = field
<1>1. <<c, o>> \in Seq(C) /\ Len(<<c, o>>) = 2 /\ <<c, o>>[1] = c /\ <<c, o>>[2] = o
  OBVIOUS
<1>2. PICK e : e = <<c, o>>
  OBVIOUS
<1>3. /\ text \in Seq(C) /\ Len(text) = n + 2
      /\ \A i \in 1..(n + 2) : text[i] = IF i <= n THEN field[i] ELSE e[i - n]
  BY <1>1, <1>2, ConcatProperties
<1>4. text[n + 1] = c /\ text[n + 2] = o
  <2>1. n + 1 \in 1..(n + 2) /\ n + 2 \in 1..(n + 2) /\ ~(n + 1 <= n) /\ ~(n + 2 <= n) /\ (n + 1) - n = 1 /\ (n + 2) - n = 2
    OBVIOUS
  <2>. QED  BY <1>1, <1>2, <1>3, <2>1
<1>5. \A i \in 1..n : text[i] = field[i]
  BY <1>3
<1>6. SubSeq(text, 1, n) = field
  <2>1. PICK u : u = SubSeq(text, 1, n)
    OBVIOUS
  <2>2. \A i \in 1..n : text[i] \in C
    BY <1>5, LenProperties
  <2>3. u \in Seq(C) /\ Len(u) = IF 1 <= n THEN n - 1 + 1 ELSE 0
    BY <2>1, <2>2, SubSeqProperties
  <2>4. \A i \in 1..(n - 1 + 1) : u[i] = text[1 + i - 1]
    BY <2>1, <2>2, SubSeqProperties
  <2>5. ASSUME NEW i \in 1..n PROVE u[i] = field[i]
    <3>1. i \in 1..(n - 1 + 1) /\ 1 + i - 1 = i
      OBVIOUS
    <3>. QED  BY <1>5, <2>4, <3>1
  <2>6. Len(u) = n
    BY <2>3
  <2>. QED  BY <2>1, <2>3, <2>5, <2>6, SeqEqual
<1>. QED  BY <1>3, <1>4, <1>5, <1>6

\* An entry that was written is cut at its last mark.
LEMMA WrittenIsSplit ==
    ASSUME NEW C, NEW c \in C, NEW o \in C, o # c, NEW field \in Seq(C), Without(field, c)
    PROVE  Split(field \o <<c, o>>, c) = <<field, <<o>>>>
<1>1. PICK m, word : m = 2 /\ word = <<o>>
  OBVIOUS
<1>2. PICK parts : parts = [k \in 1..m |-> IF k = 1 THEN field ELSE word]
  OBVIOUS
<1>3. /\ m \in Nat \ {0} /\ 1 \in 1..m /\ m \in 1..m /\ m \in 2..m /\ m # 1 /\ m - 1 = 1
      /\ word \in Seq(C) /\ Without(word, c)
  BY <1>1 DEF Without
<1>4. parts \in [1..m -> Seq(C)] /\ \A k \in 1..m : Without(parts[k], c)
  BY <1>2, <1>3
<1>5. Split(Joined(parts, c), c) = parts
  BY <1>3, <1>4, JoinedSplits
<1>p. parts = <<field, <<o>>>>
  BY <1>1, <1>2
<1>6. PICK text, t : text = field \o <<c, o>> /\ t = Joined(parts, c)
  OBVIOUS
<1>7. PICK a, b, h : a = Append(field, c) /\ b = Append(word, c) /\ h = a \o b
  OBVIOUS
<1>8. a \in Seq(C) /\ b \in Seq(C) /\ Len(b) = 2 /\ b[1] = o
  <2>1. a \in Seq(C) /\ b \in Seq(C)
    BY <1>3, <1>7, AppendProperties
  <2>2. Len(word) = 1 /\ word[1] = o /\ 1 \in 1..Len(word)
    BY <1>1
  <2>3. Len(b) = Len(word) + 1 /\ \A i \in 1..Len(word) : b[i] = word[i]
    BY <1>3, <1>7, AppendProperties
  <2>. QED  BY <2>1, <2>2, <2>3
<1>9. t = Front(h)
  <2>1. PICK closed : closed = [k \in 1..m |-> Append(parts[k], c)]
    OBVIOUS
  <2>2. closed[1] = a /\ closed[m] = b
    BY <1>2, <1>3, <1>7, <2>1
  <2>3. closed \in [1..m -> Seq(C)]
    <3>1. ASSUME NEW k \in 1..m PROVE Append(parts[k], c) \in Seq(C)
      BY <1>4, AppendProperties
    <3>. QED  BY <2>1, <3>1
  <2>4. PICK f : IsFlattened(closed, m, C, f) /\ FlattenSeq(closed) = f[m]
    BY <1>3, <2>3, Flattened
  <2>5. f[1] = closed[1] /\ f[m] = f[1] \o closed[m]
    <3>1. f[1] = closed[1] /\ f[m] = f[m - 1] \o closed[m]
      BY <1>3, <2>4 DEF IsFlattened
    <3>. QED  BY <1>3, <3>1
  <2>6. FlattenSeq(closed) = h
    BY <1>7, <2>2, <2>4, <2>5
  <2>7. DOMAIN parts = 1..m /\ parts # <<>>
    <3>1. m \in Nat \ {0} /\ parts \in [1..m -> Seq(C)]
      BY <1>3, <1>4
    <3>. QED  BY <3>1
  <2>. QED  BY <1>6, <2>1, <2>6, <2>7 DEF Joined
<1>10. PICK n \in Nat : n = Len(field)
  BY LenProperties
<1>11. Len(a) = n + 1 /\ a[n + 1] = c /\ (\A i \in 1..n : a[i] = field[i])
  BY <1>7, <1>10, AppendProperties
<1>12. /\ h \in Seq(C) /\ Len(h) = (n + 1) + 2
       /\ \A i \in 1..((n + 1) + 2) : h[i] = IF i <= n + 1 THEN a[i] ELSE b[i - (n + 1)]
  BY <1>7, <1>8, <1>11, ConcatProperties
<1>13. /\ text \in Seq(C) /\ Len(text) = n + 2 /\ text[n + 1] = c /\ text[n + 2] = o
       /\ \A i \in 1..n : text[i] = field[i]
  BY <1>6, <1>10, WrittenText
<1>14. ASSUME NEW i \in 1..(n + 2) PROVE h[i] = text[i]
  <2>1. CASE i \in 1..n
    <3>1. i \in 1..((n + 1) + 2) /\ i <= n + 1
      BY <2>1
    <3>. QED  BY <1>11, <1>12, <1>13, <2>1, <3>1
  <2>2. CASE i = n + 1
    <3>1. i \in 1..((n + 1) + 2) /\ i <= n + 1
      BY <2>2
    <3>. QED  BY <1>11, <1>12, <1>13, <2>2, <3>1
  <2>3. CASE i = n + 2
    <3>1. i \in 1..((n + 1) + 2) /\ ~(i <= n + 1) /\ i - (n + 1) = 1
      BY <2>3
    <3>. QED  BY <1>8, <1>12, <1>13, <2>3, <3>1
  <2>4. i \in 1..n \/ i = n + 1 \/ i = n + 2
    OBVIOUS
  <2>. QED  BY <2>1, <2>2, <2>3, <2>4
<1>15. t = text
  <2>1. PICK l \in Nat : l = n + 2
    OBVIOUS
  <2>2. h \in Seq(C) /\ Len(h) = l + 1
    BY <1>12, <2>1
  <2>3. t \in Seq(C) /\ Len(t) = l /\ \A i \in 1..l : t[i] = h[i]
    <3>1. \A u \in Seq(C) : Len(u) = l + 1 => IsFrontOf(Front(u), u, C, l)
      BY FrontOfText DEF IsFrontOf
    <3>2. IsFrontOf(Front(h), h, C, l)
      BY <2>2, <3>1
    <3>. QED  BY <1>9, <3>2 DEF IsFrontOf
  <2>4. text \in Seq(C) /\ Len(text) = l /\ \A i \in 1..l : t[i] = text[i]
    BY <1>13, <1>14, <2>1, <2>3
  <2>. QED  BY <2>3, <2>4, SeqEqual
<1>. QED  BY <1>5, <1>p, <1>6, <1>15

\* All of a list is kept, or nothing.
LEMMA IntervalSize ==
    ASSUME NEW n \in Nat PROVE Cardinality(1..n) = n
<1>1. n \in Int /\ 1 \in Int
  OBVIOUS
<1>2. Cardinality(1..n) = IF 1 > n THEN 0 ELSE n - 1 + 1
  BY <1>1, FS_Interval
<1>. QED  BY <1>2

\* A selection of all elements is the list.
LEMMA AllKept ==
    ASSUME NEW s, NEW n \in Nat, DOMAIN s = 1..n, s = [i \in 1..n |-> s[i]], NEW S
    PROVE  /\ Range(s) \subseteq S => Keep(s, S) = s
           /\ Range(s) \cap S = {} => Keep(s, S) = <<>>
<1>1. PICK T : T = {i \in DOMAIN s : s[i] \in S}
  OBVIOUS
<1>2. Keep(s, S) = Selected(s, T)
  BY <1>1 DEF Keep
<1>3. ASSUME Range(s) \cap S = {} PROVE Keep(s, S) = <<>>
  <2>1. T = {}
    BY <1>1, <1>3 DEF Range
  <2>. QED  BY <1>2, <2>1, NothingSelected
<1>4. ASSUME Range(s) \subseteq S PROVE Keep(s, S) = s
  <2>1. T = 1..n
    BY <1>1, <1>4 DEF Range
  <2>2. PICK at : at = Ascending(T)
    OBVIOUS
  <2>3. ASSUME NEW i \in 1..n PROVE Rank(T, i) = i - 1
    <3>1. {j \in T : j < i} = 1..(i - 1)
      BY <2>1
    <3>2. PICK k \in Nat : k = i - 1
      OBVIOUS
    <3>. QED  BY <3>1, <3>2, IntervalSize DEF Rank
  <2>4. ASSUME NEW i \in 1..n PROVE at[i] = i
    <3>1. PICK r : r = Rank(T, i) + 1
      OBVIOUS
    <3>2. r = i
      BY <2>3, <3>1
    <3>3. i \in T /\ T \subseteq 1..n
      BY <2>1
    <3>4. Ascending(T)[Rank(T, i) + 1] = i
      BY <3>3, AscendingRanks
    <3>. QED  BY <2>2, <3>1, <3>2, <3>4, Zenon
  <2>5. DOMAIN at = 1..n
    <3>1. Cardinality(T) = n /\ T \subseteq 1..n
      BY <2>1, IntervalSize
    <3>. QED  BY <2>2, <3>1, AscendingRanks
  <2>6. Selected(s, T) = [k \in 1..n |-> s[at[k]]]
    BY <2>2, <2>5 DEF Selected
  <2>. QED  BY <1>2, <2>4, <2>6
<1>. QED  BY <1>3, <1>4

-----------------------------------------------------------------------------
(* Sorts, as they are written and read. *)

\* The parameters of a list: what is searched, how it is sorted, which page of which size.
SortSpec(field, order) == [field |-> field, order |-> order]
IsSort(sort) ==
    /\ IsList(sort)
    /\ \A i \in DOMAIN sort : /\ sort[i] = SortSpec(sort[i].field, sort[i].order)
                              /\ IsList(sort[i].field) /\ Linkable(sort[i].field)
                              /\ sort[i].order \in Orders
Params(search, sort, page, pageSize) ==
    [search |-> search, sort |-> sort, page |-> page, pageSize |-> pageSize]
IsParams(p) ==
    /\ p = Params(p.search, p.sort, p.page, p.pageSize)
    /\ IsSort(p.sort) /\ p.page \in Nat \ {0} /\ p.pageSize \in Nat \ {0}

\* A sort is read from an entry, whatever it says.
LEMMA SpecIsRead ==
    ASSUME NEW parts
    PROVE  \E order \in Orders : ReadSpec(parts) = SortSpec(parts[1], order)
  BY Zenon DEF ReadSpec, SortSpec, Orders

\* The order is read as it was written.
LEMMA OrderIsRead ==
    ASSUME NEW field, NEW order \in Orders
    PROVE  ReadSpec(<<field, <<order>>>>) = SortSpec(field, order)
<1>1. PICK parts : parts = <<field, <<order>>>>
  OBVIOUS
<1>2. Len(parts) > 1 /\ parts[1] = field /\ parts[2] = <<order>>
  BY <1>1
<1>3. <<order>> = <<"desc">> <=> order = "desc"
  OBVIOUS
<1>4. order = IF Len(parts) > 1 /\ parts[2] = <<"desc">> THEN "desc" ELSE "asc"
  BY <1>2, <1>3 DEF Orders
<1>. QED  BY <1>1, <1>2, <1>4, Zenon DEF ReadSpec, SortSpec

\* What is read of an entry: its field has no mark, and no blank in front.
ReadEntry(entry, colon, blank) == ReadSpec(Split(Stripped(entry, blank), colon))

\* The empty text is one empty piece.
LEMMA NothingIsSplit ==
    ASSUME NEW c PROVE Split(<<>>, c)[1] = <<>>
<1>1. PICK none, text : none = {} /\ text = <<>>
  OBVIOUS
<1>2. text \in Seq(none)
  BY <1>1
<1>3. Split(text, c)[1] \in Seq(none)
  BY <1>2, FirstPiece
<1>. QED  BY <1>1, <1>3

\* The empty text names no sort.
LEMMA NothingIsEntered ==
    ASSUME NEW colon, NEW blank PROVE ReadEntry(<<>>, colon, blank).field = <<>>
<1>1. PICK text : text = Stripped(<<>>, blank)
  OBVIOUS
<1>2. text = <<>>
  <2>1. DOMAIN <<>> = {}
    OBVIOUS
  <2>2. {i \in DOMAIN <<>> : <<>>[i] # blank} = {}
    BY <2>1
  <2>. QED  BY <1>1, <2>2 DEF Stripped, Blank
<1>3. PICK order : ReadEntry(<<>>, colon, blank) = SortSpec(Split(text, colon)[1], order)
  BY <1>1, SpecIsRead DEF ReadEntry
<1>4. Split(text, colon)[1] = <<>>
  BY <1>2, NothingIsSplit
<1>. QED  BY <1>3, <1>4 DEF SortSpec

\* An entry is read as a field and an order.
LEMMA EntryIsRead ==
    ASSUME NEW C, NEW entry \in Seq(C), NEW colon, NEW blank, NEW spec, spec = ReadEntry(entry, colon, blank)
    PROVE  /\ spec = SortSpec(spec.field, spec.order) /\ spec.order \in Orders
           /\ spec.field \in Seq(C) /\ Without(spec.field, colon)
           /\ spec.field # <<>> => spec.field[1] # blank
<1>1. PICK text, field : text = Stripped(entry, blank) /\ field = Split(text, colon)[1]
  OBVIOUS
<1>2. text \in Seq(C) /\ (text # <<>> => text[1] # blank)
  BY <1>1, TextIsStripped
<1>3. field \in Seq(C) /\ Without(field, colon) /\ (field # <<>> => field[1] = text[1])
  BY <1>1, <1>2, FirstPiece
<1>4. text = <<>> => field = <<>>
  BY <1>1, NothingIsSplit
<1>5. PICK order \in Orders : spec = SortSpec(field, order)
  BY <1>1, SpecIsRead DEF ReadEntry
<1>6. spec.field = field /\ spec.order = order
  BY <1>5 DEF SortSpec
<1>. QED  BY <1>2, <1>3, <1>4, <1>5, <1>6

\* Whatever a URL says, what is read is a sort.
ReadSort(raw, comma, colon, blank) ==
    LET entries == Split(raw, comma)
        specs == [i \in DOMAIN entries |-> ReadEntry(entries[i], colon, blank)]
    IN Keep(specs, {s \in Range(specs) : s.field # <<>>})
IsRead(spec, comma, colon, blank) ==
    /\ spec = SortSpec(spec.field, spec.order) /\ spec.order \in Orders
    /\ IsList(spec.field) /\ spec.field # <<>> /\ spec.field[1] # blank
    /\ Without(spec.field, comma) /\ Without(spec.field, colon)

\* What is read of a text is a list of fields and orders.
LEMMA SortIsRead ==
    ASSUME NEW C, NEW raw \in Seq(C), NEW comma, NEW colon, NEW blank,
           NEW sort, sort = ReadSort(raw, comma, colon, blank)
    PROVE  IsList(sort) /\ \A i \in DOMAIN sort : IsRead(sort[i], comma, colon, blank)
<1>1. PICK n \in Nat \ {0} : Split(raw, comma) \in [1..n -> Seq(C)] /\ \A k \in 1..n : Without(Split(raw, comma)[k], comma)
  BY SplitPieces
<1>2. PICK entries, specs : /\ entries = Split(raw, comma)
                            /\ specs = [i \in 1..n |-> ReadEntry(entries[i], colon, blank)]
  OBVIOUS
<1>3. PICK fine : fine = {s \in Range(specs) : s.field # <<>>}
  OBVIOUS
<1>4. sort = Keep(specs, fine)
  <2>1. DOMAIN entries = 1..n
    BY <1>1, <1>2
  <2>. QED  BY <1>2, <1>3, <2>1, Zenon DEF ReadSort
<1>5. PICK m \in Nat : DOMAIN sort = 1..m
  BY <1>2, <1>4, KeptElements
<1>6. Range(sort) = Range(specs) \cap fine
  BY <1>2, <1>4, KeptElements
<1>7. sort = [i \in 1..m |-> sort[i]]
  BY <1>4, <1>5 DEF Keep, Selected
<1>8. IsList(sort)
  <2>1. PICK S : S = Range(sort)
    OBVIOUS
  <2>2. \A i \in 1..m : sort[i] \in S
    BY <1>5, <2>1 DEF Range
  <2>3. sort \in Seq(S)
    BY <1>7, <2>2
  <2>. QED  BY <2>1, <2>3 DEF IsList
<1>9. ASSUME NEW i \in 1..m PROVE IsRead(sort[i], comma, colon, blank)
  <2>1. sort[i] \in Range(sort)
    BY <1>5 DEF Range
  <2>2. sort[i].field # <<>> /\ sort[i] \in Range(specs)
    BY <1>3, <1>6, <2>1
  <2>3. PICK j \in 1..n : sort[i] = specs[j]
    BY <1>2, <2>2 DEF Range
  <2>4. PICK entry, spec, D : entry = entries[j] /\ spec = sort[i] /\ D = C \ {comma}
    OBVIOUS
  <2>5. entry \in Seq(D) /\ spec = ReadEntry(entry, colon, blank)
    <3>1. entries[j] \in Seq(C) /\ Without(entries[j], comma)
      BY <1>1, <1>2
    <3>. QED  BY <1>2, <2>3, <2>4, <3>1, TextWithout
  <2>6. /\ spec = SortSpec(spec.field, spec.order) /\ spec.order \in Orders
        /\ spec.field \in Seq(D) /\ Without(spec.field, colon)
        /\ spec.field # <<>> => spec.field[1] # blank
    BY <2>5, EntryIsRead
  <2>7. IsList(spec.field) /\ Range(spec.field) \subseteq D
    BY <2>6, OwnCharacters
  <2>8. Without(spec.field, comma)
    BY <2>4, <2>7 DEF Without, Range
  <2>. QED  BY <2>2, <2>4, <2>6, <2>7, <2>8 DEF IsRead
<1>. QED  BY <1>5, <1>8, <1>9

\* Of nothing, no sort is read.
LEMMA NoSortIsRead ==
    ASSUME NEW comma, NEW colon, NEW blank
    PROVE  ReadSort(<<>>, comma, colon, blank) = <<>>
<1>1. PICK none, raw : none = {} /\ raw = <<>>
  OBVIOUS
<1>2. raw \in Seq(none)
  BY <1>1
<1>3. PICK n \in Nat \ {0} : Split(raw, comma) \in [1..n -> Seq(none)]
  BY <1>2, SplitPieces
<1>4. PICK entries, specs : /\ entries = Split(raw, comma)
                            /\ specs = [i \in 1..n |-> ReadEntry(entries[i], colon, blank)]
  OBVIOUS
<1>5. PICK fine : fine = {s \in Range(specs) : s.field # <<>>}
  OBVIOUS
<1>6. ReadSort(raw, comma, colon, blank) = Keep(specs, fine)
  <2>1. DOMAIN entries = 1..n
    BY <1>3, <1>4
  <2>. QED  BY <1>4, <1>5, <2>1, Zenon DEF ReadSort
<1>7. ASSUME NEW i \in 1..n PROVE specs[i].field = <<>>
  <2>1. PICK entry, spec : entry = entries[i] /\ spec = specs[i]
    OBVIOUS
  <2>2. entry \in Seq(none) /\ spec = ReadEntry(entry, colon, blank)
    BY <1>3, <1>4, <2>1
  <2>3. entry = <<>>
    BY <1>1, <2>2
  <2>. QED  BY <2>1, <2>2, <2>3, NothingIsEntered
<1>8. Range(specs) \cap fine = {}
  BY <1>4, <1>5, <1>7 DEF Range
<1>9. Keep(specs, fine) = <<>>
  <2>1. DOMAIN specs = 1..n /\ specs = [i \in 1..n |-> specs[i]] /\ n \in Nat
    BY <1>4
  <2>. QED  BY <1>8, <2>1, AllKept
<1>. QED  BY <1>1, <1>6, <1>9

\* A sort that can be written, and the characters that it is written with.
IsWritable(sort, n, C, comma, blank) ==
    /\ DOMAIN sort = 1..n /\ sort = [i \in 1..n |-> sort[i]]
    /\ \A i \in 1..n :
         /\ sort[i] = SortSpec(sort[i].field, sort[i].order) /\ sort[i].order \in Orders
         /\ sort[i].field \in Seq(C) /\ sort[i].field # <<>> /\ sort[i].field[1] # blank
         /\ Without(sort[i].field, comma)
Entries(sort, n, mark) == [i \in 1..n |-> sort[i].field \o <<mark, sort[i].order>>]
Characters(C, comma, mark, blank) ==
    comma \in C /\ mark \in C /\ comma # mark /\ Orders \subseteq C \ {comma, mark, blank}

\* An entry of a sort has no comma, and nothing to strip.
IsEntry(text, C, comma, blank) ==
    text \in Seq(C) /\ text # <<>> /\ Without(text, comma) /\ Stripped(text, blank) = text

\* What is written of a field and an order is such an entry.
LEMMA EntryIsWritten ==
    ASSUME NEW C, NEW comma, NEW mark, NEW blank, Characters(C, comma, mark, blank),
           NEW field \in Seq(C), field # <<>>, field[1] # blank, Without(field, comma), NEW order \in Orders,
           NEW text, text = field \o <<mark, order>>
    PROVE  IsEntry(text, C, comma, blank)
<1>1. mark \in C /\ order \in C /\ mark # comma /\ order # comma /\ order # blank
  BY DEF Characters
<1>2. PICK n \in Nat : n = Len(field) /\ n # 0
  BY EmptySeq, LenProperties
<1>3. /\ text \in Seq(C) /\ Len(text) = n + 2 /\ text[n + 1] = mark /\ text[n + 2] = order
      /\ \A i \in 1..n : text[i] = field[i]
  BY <1>1, <1>2, WrittenText
<1>4. 1 \in 1..n
  BY <1>2
<1>5. text # <<>>
  <2>1. Len(text) # 0
    BY <1>3
  <2>. QED  BY <1>3, <2>1, EmptySeq
<1>6. text[1] # blank
  BY <1>3, <1>4
<1>7. text[Len(text)] # blank
  BY <1>1, <1>3
<1>8. Stripped(text, blank) = text
  BY <1>3, <1>5, <1>6, <1>7, TextIsStripped
<1>9. ASSUME NEW i \in DOMAIN text PROVE text[i] # comma
  <2>1. i \in 1..n \/ i = n + 1 \/ i = n + 2
    <3>1. DOMAIN text = 1..(n + 2)
      BY <1>3, LenProperties
    <3>. QED  BY <3>1
  <2>2. ASSUME i \in 1..n PROVE text[i] # comma
    <3>1. i \in DOMAIN field /\ text[i] = field[i]
      BY <1>2, <1>3, <2>2, LenProperties
    <3>. QED  BY <3>1 DEF Without
  <2>. QED  BY <1>1, <1>3, <2>1, <2>2
<1>. QED  BY <1>3, <1>5, <1>8, <1>9 DEF Without, IsEntry

\* A sort that was written is cut into its entries again.
IsCut(parts, n, C, comma, blank) ==
    /\ parts \in [1..n -> Seq(C)] /\ Joined(parts, comma) \in Seq(C)
    /\ \A i \in 1..n : parts[i] # <<>> /\ Stripped(parts[i], blank) = parts[i]
    /\ n # 0 => Split(Joined(parts, comma), comma) = parts

\* A sort that was written is cut into its entries.
LEMMA SortIsCut ==
    ASSUME NEW C, NEW comma, NEW mark, NEW blank, Characters(C, comma, mark, blank),
           NEW n \in Nat, NEW sort, IsWritable(sort, n, C, comma, blank),
           NEW parts, parts = Entries(sort, n, mark)
    PROVE  IsCut(parts, n, C, comma, blank)
<1>1. ASSUME NEW i \in 1..n
      PROVE  parts[i] \in Seq(C) /\ parts[i] # <<>> /\ Without(parts[i], comma) /\ Stripped(parts[i], blank) = parts[i]
  <2>1. PICK field, order, text : field = sort[i].field /\ order = sort[i].order /\ text = parts[i]
    OBVIOUS
  <2>2. field \in Seq(C) /\ field # <<>> /\ field[1] # blank /\ Without(field, comma) /\ order \in Orders
    BY <2>1 DEF IsWritable
  <2>3. text = field \o <<mark, order>>
    BY <2>1 DEF Entries
  <2>4. IsEntry(text, C, comma, blank)
    BY <2>2, <2>3, EntryIsWritten, Zenon
  <2>. QED  BY <2>1, <2>4 DEF IsEntry
<1>2. parts \in [1..n -> Seq(C)]
  BY <1>1 DEF Entries
<1>3. comma \in C
  BY DEF Characters
<1>4. Joined(parts, comma) \in Seq(C)
  BY <1>2, <1>3, JoinedTexts
<1>5. ASSUME n # 0 PROVE Split(Joined(parts, comma), comma) = parts
  <2>1. \A k \in 1..n : Without(parts[k], comma)
    BY <1>1
  <2>2. PICK m \in Nat \ {0} : m = n
    BY <1>5
  <2>3. PICK p : p = parts
    OBVIOUS
  <2>4. p \in [1..m -> Seq(C)] /\ \A k \in 1..m : Without(p[k], comma)
    BY <1>2, <2>1, <2>2, <2>3
  <2>5. Split(Joined(p, comma), comma) = p
    BY <1>3, <2>4, JoinedSplits
  <2>. QED  BY <2>3, <2>5
<1>. QED  BY <1>1, <1>2, <1>4, <1>5 DEF IsCut

\* What was written is read again.
LEMMA WrittenIsRead ==
    ASSUME NEW C, NEW comma, NEW mark, NEW blank, Characters(C, comma, mark, blank),
           NEW n \in Nat, NEW sort, IsWritable(sort, n, C, comma, blank),
           \A i \in 1..n : Without(sort[i].field, mark),
           NEW parts, parts = Entries(sort, n, mark)
    PROVE  ReadSort(Joined(parts, comma), comma, mark, blank) = sort
<1>1. IsCut(parts, n, C, comma, blank)
  BY SortIsCut
<1>2. CASE n = 0
  <2>1. parts = <<>> /\ sort = <<>>
    BY <1>2 DEF IsWritable, Entries
  <2>2. Joined(parts, comma) = <<>>
    BY <2>1 DEF Joined, Blank
  <2>. QED  BY <2>1, <2>2, NoSortIsRead
<1>3. CASE n # 0
  <2>1. ASSUME NEW i \in 1..n PROVE ReadEntry(parts[i], mark, blank) = sort[i] /\ sort[i].field # <<>>
    <3>1. PICK field, order, text : field = sort[i].field /\ order = sort[i].order /\ text = parts[i]
      OBVIOUS
    <3>2. field \in Seq(C) /\ field # <<>> /\ Without(field, mark) /\ order \in Orders /\ sort[i] = SortSpec(field, order)
      BY <3>1 DEF IsWritable
    <3>3. text = field \o <<mark, order>> /\ Stripped(text, blank) = text
      BY <1>1, <3>1 DEF IsCut, Entries
    <3>4. mark \in C /\ order \in C /\ order # mark
      BY <3>2 DEF Characters
    <3>5. Split(text, mark) = <<field, <<order>>>>
      BY <3>2, <3>3, <3>4, WrittenIsSplit
    <3>6. ReadEntry(text, mark, blank) = SortSpec(field, order)
      <4>1. ReadSpec(<<field, <<order>>>>) = SortSpec(field, order)
        BY <3>2, OrderIsRead
      <4>. QED  BY <3>3, <3>5, <4>1 DEF ReadEntry
    <3>. QED  BY <3>1, <3>2, <3>6
  <2>2. DOMAIN sort = 1..n /\ sort = [i \in 1..n |-> sort[i]]
    BY DEF IsWritable
  <2>3. Split(Joined(parts, comma), comma) = parts /\ DOMAIN parts = 1..n
    BY <1>1, <1>3 DEF IsCut, Entries
  <2>4. [i \in 1..n |-> ReadEntry(parts[i], mark, blank)] = sort
    BY <2>1, <2>2
  <2>5. ReadSort(Joined(parts, comma), comma, mark, blank) = Keep(sort, {s \in Range(sort) : s.field # <<>>})
    BY <2>3, <2>4 DEF ReadSort
  <2>6. Range(sort) \subseteq {s \in Range(sort) : s.field # <<>>}
    BY <2>1, <2>2 DEF Range
  <2>. QED  BY <2>2, <2>5, <2>6, AllKept
<1>. QED  BY <1>2, <1>3

\* The order behind the last dot of a token is read as it was written.
ReadToken(token, dot) ==
    IF Len(token) > 2 /\ token[Len(token)] \in Orders /\ token[Len(token) - 1] = dot
    THEN SortSpec(SubSeq(token, 1, Len(token) - 2), token[Len(token)])
    ELSE SortSpec(token, "asc")

\* What the API reads of the entry of an adapter.
LEMMA TokenIsRead ==
    ASSUME NEW C, NEW dot \in C, NEW field \in Seq(C), field # <<>>, NEW order \in C, order \in Orders,
           NEW token, token = field \o <<dot, order>>
    PROVE  ReadToken(token, dot) = SortSpec(field, order)
<1>1. PICK n \in Nat : n = Len(field) /\ n # 0
  BY EmptySeq, LenProperties
<1>2. /\ Len(token) = n + 2 /\ token[n + 1] = dot /\ token[n + 2] = order
      /\ SubSeq(token, 1, n) = field
  BY <1>1, WrittenText
<1>3. PICK l : l = n + 2
  OBVIOUS
<1>4. l > 2 /\ l - 1 = n + 1 /\ l - 2 = n /\ Len(token) = l
  BY <1>1, <1>2, <1>3
<1>5. token[l] = order /\ token[l - 1] = dot /\ SubSeq(token, 1, l - 2) = field
  BY <1>2, <1>3, <1>4
<1>. QED  BY <1>4, <1>5, Zenon DEF ReadToken

\* What was sent is read again.
ReadTokens(raw, comma, dot, blank) ==
    LET entries == Split(raw, comma)
        tokens == [i \in DOMAIN entries |-> Stripped(entries[i], blank)]
        kept == Keep(tokens, Range(tokens) \ {Blank})
    IN [i \in DOMAIN kept |-> ReadToken(kept[i], dot)]

\* Of the empty text, the API reads no sort.
LEMMA NoTokenIsRead ==
    ASSUME NEW comma, NEW dot, NEW blank
    PROVE  ReadTokens(<<>>, comma, dot, blank) = <<>>
<1>1. PICK none, raw : none = {} /\ raw = <<>>
  OBVIOUS
<1>2. raw \in Seq(none)
  BY <1>1
<1>3. PICK n \in Nat \ {0} : Split(raw, comma) \in [1..n -> Seq(none)]
  BY <1>2, SplitPieces
<1>4. PICK tokens, rest : /\ tokens = [i \in 1..n |-> Stripped(Split(raw, comma)[i], blank)]
                          /\ rest = Range(tokens) \ {Blank}
  OBVIOUS
<1>5. ASSUME NEW i \in 1..n PROVE tokens[i] = Blank
  <2>1. PICK entry, token : entry = Split(raw, comma)[i] /\ token = tokens[i]
    OBVIOUS
  <2>2. entry \in Seq(none) /\ token = Stripped(entry, blank)
    BY <1>3, <1>4, <2>1
  <2>3. token \in Seq(none)
    BY <2>2, TextIsStripped
  <2>. QED  BY <1>1, <2>1, <2>3 DEF Blank
<1>6. Range(tokens) \cap rest = {}
  BY <1>4, <1>5 DEF Range
<1>7. Keep(tokens, rest) = <<>>
  <2>1. DOMAIN tokens = 1..n /\ tokens = [i \in 1..n |-> tokens[i]] /\ n \in Nat
    BY <1>4
  <2>. QED  BY <1>6, <2>1, AllKept
<1>8. DOMAIN Split(raw, comma) = 1..n
  BY <1>3
<1>9. ReadTokens(raw, comma, dot, blank) = [i \in DOMAIN <<>> |-> ReadToken(<<>>[i], dot)]
  BY <1>4, <1>7, <1>8, Zenon DEF ReadTokens
<1>. QED  BY <1>1, <1>9

\* What the API reads of a sort is what the adapter was given.
LEMMA SentIsRead ==
    ASSUME NEW C, NEW comma, NEW dot, NEW blank, Characters(C, comma, dot, blank),
           NEW n \in Nat, NEW sort, IsWritable(sort, n, C, comma, blank),
           NEW parts, parts = Entries(sort, n, dot)
    PROVE  ReadTokens(Joined(parts, comma), comma, dot, blank) = sort
<1>1. IsCut(parts, n, C, comma, blank)
  BY SortIsCut
<1>2. CASE n = 0
  <2>1. parts = <<>> /\ sort = <<>>
    BY <1>2 DEF IsWritable, Entries
  <2>2. Joined(parts, comma) = <<>>
    BY <2>1 DEF Joined, Blank
  <2>. QED  BY <2>1, <2>2, NoTokenIsRead
<1>3. CASE n # 0
  <2>1. ASSUME NEW i \in 1..n PROVE ReadToken(parts[i], dot) = sort[i]
    <3>1. PICK field, order, text : field = sort[i].field /\ order = sort[i].order /\ text = parts[i]
      OBVIOUS
    <3>2. field \in Seq(C) /\ field # <<>> /\ order \in Orders /\ sort[i] = SortSpec(field, order)
      BY <3>1 DEF IsWritable
    <3>3. text = field \o <<dot, order>> /\ dot \in C /\ order \in C
      BY <3>1, <3>2 DEF Characters, Entries
    <3>4. ReadToken(text, dot) = SortSpec(field, order)
      BY <3>2, <3>3, TokenIsRead
    <3>. QED  BY <3>1, <3>2, <3>4
  <2>2. DOMAIN sort = 1..n /\ sort = [i \in 1..n |-> sort[i]]
    BY DEF IsWritable
  <2>3. /\ Split(Joined(parts, comma), comma) = parts /\ DOMAIN parts = 1..n
        /\ \A i \in 1..n : parts[i] # Blank /\ Stripped(parts[i], blank) = parts[i]
    BY <1>1, <1>3 DEF IsCut, Blank, Entries
  <2>4. [i \in 1..n |-> Stripped(parts[i], blank)] = parts
    <3>1. parts = [i \in 1..n |-> parts[i]]
      BY DEF Entries
    <3>. QED  BY <2>3, <3>1
  <2>5. Range(parts) \subseteq Range(parts) \ {Blank}
    BY <2>3 DEF Range
  <2>6. Keep(parts, Range(parts) \ {Blank}) = parts
    <3>1. parts = [i \in 1..n |-> parts[i]]
      BY DEF Entries
    <3>. QED  BY <2>3, <2>5, <3>1, AllKept
  <2>7. ReadTokens(Joined(parts, comma), comma, dot, blank) = [i \in 1..n |-> ReadToken(parts[i], dot)]
    <3>1. PICK raw : raw = Joined(parts, comma)
      OBVIOUS
    <3>2. Split(raw, comma) = parts /\ DOMAIN Split(raw, comma) = 1..n
      BY <2>3, <3>1
    <3>3. PICK entries : entries = Split(raw, comma)
      OBVIOUS
    <3>4. [i \in DOMAIN entries |-> Stripped(entries[i], blank)] = parts
      BY <2>4, <3>2, <3>3
    <3>5. ReadTokens(raw, comma, dot, blank) = [i \in DOMAIN parts |-> ReadToken(parts[i], dot)]
      BY <2>6, <3>3, <3>4, Zenon DEF ReadTokens
    <3>. QED  BY <2>3, <3>1, <3>5
  <2>. QED  BY <2>1, <2>2, <2>7
<1>. QED  BY <1>2, <1>3

-----------------------------------------------------------------------------
(* The sort of a URL. *)

\* A sort that is read can be written, in characters that the marks are among.
FieldCharacters(sort) == UNION {Range(sort[i].field) : i \in DOMAIN sort}
SortMarks == {",", ":", ".", " "}
Written(sort) == FieldCharacters(sort) \cup Orders \cup SortMarks

\* The characters of a sort and of what it is written with.
LEMMA MarksAreCharacters ==
    ASSUME NEW sort, NEW mark \in {":", "."}
    PROVE  Characters(Written(sort), ",", mark, " ")
<1>1. Orders \cap {",", ":", ".", " "} = {}
  <2>1. /\ "asc" # "," /\ "asc" # ":" /\ "asc" # "." /\ "asc" # " "
        /\ "desc" # "," /\ "desc" # ":" /\ "desc" # "." /\ "desc" # " "
    OBVIOUS
  <2>. QED  BY <2>1, Zenon DEF Orders
<1>2. "," # ":" /\ "," # "."
  OBVIOUS
<1>3. Orders \subseteq Written(sort) /\ SortMarks \subseteq Written(sort)
  BY DEF Written
<1>. QED  BY <1>1, <1>2, <1>3, Zenon DEF Characters, SortMarks

\* A sort that was read can be written without ambiguity.
LEMMA SortIsWritable ==
    ASSUME NEW sort, IsSort(sort), NEW n \in Nat, DOMAIN sort = 1..n
    PROVE  IsWritable(sort, n, Written(sort), ",", " ")
<1>1. sort = [i \in 1..n |-> sort[i]]
  BY DEF IsSort, IsList
<1>2. ASSUME NEW i \in 1..n
      PROVE  /\ sort[i] = SortSpec(sort[i].field, sort[i].order) /\ sort[i].order \in Orders
             /\ sort[i].field \in Seq(Written(sort)) /\ sort[i].field # <<>> /\ sort[i].field[1] # " "
             /\ Without(sort[i].field, ",")
  <2>1. PICK field : field = sort[i].field
    OBVIOUS
  <2>2. IsList(field) /\ Linkable(field)
    BY <1>2, <2>1 DEF IsSort
  <2>3. Range(field) \subseteq Written(sort)
    BY <1>2, <2>1 DEF Written, FieldCharacters
  <2>4. field \in Seq(Written(sort))
    BY <2>2, <2>3, TextOver
  <2>5. field # <<>> /\ field[1] # " " /\ "," \notin Range(field)
    BY <2>2 DEF Linkable, Blank
  <2>6. Without(field, ",")
    BY <2>5 DEF Without, Range
  <2>. QED  BY <1>2, <2>1, <2>4, <2>5, <2>6 DEF IsSort
<1>. QED  BY <1>1, <1>2 DEF IsWritable

\* The orders of a sort.
LEMMA SortIsOfOrders ==
    ASSUME NEW sort, IsSort(sort), NEW i \in DOMAIN sort
    PROVE  Without(sort[i].field, ":")
  BY DEF IsSort, Linkable, Without, Range

\* The sort of a URL is read as one, whatever it says.
LEMMA ParsedIsRead ==
    ASSUME NEW raw
    PROVE  ParseSortSpecs(raw) = ReadSort(raw, ",", ":", " ")
<1>1. PICK entries : entries = Split(raw, ",")
  OBVIOUS
<1>2. \A entry : ReadSpec(Split(Trim(entry), ":")) = ReadEntry(entry, ":", " ")
  BY TrimStrips DEF ReadEntry
<1>3. [i \in DOMAIN entries |-> ReadSpec(Split(Trim(entries[i]), ":"))]
        = [i \in DOMAIN entries |-> ReadEntry(entries[i], ":", " ")]
  BY <1>2
<1>. QED  BY <1>1, <1>3, Zenon DEF ParseSortSpecs, ReadSort, Blank

\* The sort of a URL.
LEMMA SortIsParsed ==
    ASSUME NEW raw, IsList(raw)
    PROVE  IsSort(ParseSortSpecs(raw))
<1>1. PICK sort, C : sort = ParseSortSpecs(raw) /\ C = Range(raw)
  OBVIOUS
<1>2. raw \in Seq(C)
  BY <1>1 DEF IsList
<1>3. IsList(sort) /\ \A i \in DOMAIN sort : IsRead(sort[i], ",", ":", " ")
  BY <1>1, <1>2, ParsedIsRead, SortIsRead
<1>4. ASSUME NEW i \in DOMAIN sort
      PROVE  /\ sort[i] = SortSpec(sort[i].field, sort[i].order)
             /\ IsList(sort[i].field) /\ Linkable(sort[i].field) /\ sort[i].order \in Orders
  <2>1. PICK spec, field : spec = sort[i] /\ field = spec.field
    OBVIOUS
  <2>2. /\ spec = SortSpec(field, spec.order) /\ spec.order \in Orders /\ IsList(field)
        /\ field # <<>> /\ field[1] # " " /\ Without(field, ",") /\ Without(field, ":")
    BY <1>3, <2>1 DEF IsRead
  <2>3. Linkable(field)
    <3>1. "," \notin Range(field) /\ ":" \notin Range(field)
      BY <2>2 DEF Without, Range
    <3>2. {",", ":"} \cap Range(field) = {}
      BY <3>1
    <3>. QED  BY <2>2, <3>2 DEF Linkable, Blank
  <2>. QED  BY <2>1, <2>2, <2>3
<1>. QED  BY <1>1, <1>3, <1>4 DEF IsSort

\* What is written of a sort, for a URL or a request, is read from it again.
LEMMA SortIsReadBack ==
    ASSUME NEW sort, IsSort(sort)
    PROVE  IsList(WriteSort(sort, ":")) /\ ParseSortSpecs(WriteSort(sort, ":")) = sort
<1>1. PICK n \in Nat : DOMAIN sort = 1..n
  BY DEF IsSort, IsList
<1>2. PICK C, comma, mark, blank : C = Written(sort) /\ comma = "," /\ mark = ":" /\ blank = " "
  OBVIOUS
<1>3. IsWritable(sort, n, C, comma, blank) /\ Characters(C, comma, mark, blank)
  <2>1. ":" \in {":", "."}
    OBVIOUS
  <2>2. IsWritable(sort, n, C, ",", " ") /\ Characters(C, ",", ":", " ")
    BY <1>1, <1>2, <2>1, SortIsWritable, MarksAreCharacters
  <2>. QED  BY <1>2, <2>2
<1>4. PICK parts : parts = Entries(sort, n, mark)
  OBVIOUS
<1>5. WriteSort(sort, ":") = Joined(parts, comma)
  BY <1>2, <1>1, <1>4, Zenon DEF WriteSort, WriteSpec, Entries
<1>6. IsCut(parts, n, C, comma, blank)
  BY <1>3, <1>4, SortIsCut
<1>7. IsList(Joined(parts, comma))
  BY <1>6, OwnCharacters DEF IsCut
<1>8. \A i \in 1..n : Without(sort[i].field, mark)
  BY <1>2, <1>1, SortIsOfOrders
<1>9. ReadSort(Joined(parts, comma), comma, mark, blank) = sort
  BY <1>3, <1>4, <1>8, WrittenIsRead
<1>10. ParseSortSpecs(Joined(parts, comma)) = sort
  BY <1>2, <1>9, ParsedIsRead, Zenon
<1>. QED  BY <1>5, <1>7, <1>10

\* parseSort reads a token as ReadToken does.
LEMMA TokenIsParsed ==
    ASSUME NEW token
    PROVE  ParseToken(token) = ReadToken(token, ".")
  BY Zenon DEF ParseToken, ReadToken, SortSpec

\* The sort that the API is sent is the one that the URL names.
LEMMA SortIsSent ==
    ASSUME NEW sort, IsSort(sort)
    PROVE  ApiSort(sort) = sort
<1>1. PICK n \in Nat : DOMAIN sort = 1..n
  BY DEF IsSort, IsList
<1>2. PICK C, comma, mark, blank : C = Written(sort) /\ comma = "," /\ mark = "." /\ blank = " "
  OBVIOUS
<1>3. IsWritable(sort, n, C, comma, blank) /\ Characters(C, comma, mark, blank)
  <2>1. "." \in {":", "."}
    OBVIOUS
  <2>2. IsWritable(sort, n, C, ",", " ") /\ Characters(C, ",", ".", " ")
    BY <1>1, <1>2, <2>1, SortIsWritable, MarksAreCharacters
  <2>. QED  BY <1>2, <2>2
<1>4. PICK parts : parts = Entries(sort, n, mark)
  OBVIOUS
<1>5. WriteSort(sort, ".") = Joined(parts, comma)
  BY <1>2, <1>1, <1>4, Zenon DEF WriteSort, WriteSpec, Entries
<1>6. ReadTokens(Joined(parts, comma), comma, mark, blank) = sort
  BY <1>3, <1>4, SentIsRead
<1>7. PICK raw : raw = Joined(parts, comma)
  OBVIOUS
<1>8. ParseSort(raw) = ReadTokens(raw, ",", ".", " ")
  <2>1. PICK entries : entries = Split(raw, ",")
    OBVIOUS
  <2>2. PICK tokens : tokens = [i \in DOMAIN entries |-> Trim(entries[i])]
    OBVIOUS
  <2>3. [i \in DOMAIN entries |-> Stripped(entries[i], " ")] = tokens
    BY <2>2, TrimStrips
  <2>4. PICK kept : kept = Keep(tokens, Range(tokens) \ {Blank})
    OBVIOUS
  <2>5. ParseSort(raw) = [i \in DOMAIN kept |-> ParseToken(kept[i])]
    BY <2>1, <2>2, <2>4, Zenon DEF ParseSort
  <2>6. ReadTokens(raw, ",", ".", " ") = [i \in DOMAIN kept |-> ReadToken(kept[i], ".")]
    BY <2>1, <2>3, <2>4, Zenon DEF ReadTokens
  <2>. QED  BY <2>5, <2>6, TokenIsParsed
<1>. QED  BY <1>2, <1>5, <1>6, <1>7, <1>8, Zenon DEF ApiSort

\* What is written of one column is a sort by it.
LEMMA OneSpecSorts ==
    ASSUME NEW field, IsList(field), Linkable(field), NEW order \in Orders
    PROVE  /\ IsSort(<<SortSpec(field, order)>>)
           /\ WriteSort(<<SortSpec(field, order)>>, ":") = WriteSpec(SortSpec(field, order), ":")
<1>1. PICK by : by = <<SortSpec(field, order)>>
  OBVIOUS
<1>2. DOMAIN by = {1} /\ by[1] = SortSpec(field, order)
  BY <1>1
<1>3. PICK S : S = Range(by)
  OBVIOUS
<1>4. by[1] \in S
  BY <1>2, <1>3 DEF Range
<1>5. by \in Seq(S)
  BY <1>1, <1>2, <1>4
<1>6. by[1].field = field /\ by[1].order = order
  BY <1>2 DEF SortSpec
<1>7. IsSort(by)
  BY <1>2, <1>3, <1>5, <1>6 DEF IsSort, IsList
<1>8. WriteSort(by, ":") = WriteSpec(SortSpec(field, order), ":")
  <2>1. PICK C, comma, mark, blank : C = Written(by) /\ comma = "," /\ mark = ":" /\ blank = " "
    OBVIOUS
  <2>2. PICK n : n = 1
    OBVIOUS
  <2>3. DOMAIN by = 1..n /\ n \in Nat
    BY <1>2, <2>2
  <2>4. IsWritable(by, n, C, comma, blank) /\ Characters(C, comma, mark, blank)
    <3>1. ":" \in {":", "."}
      OBVIOUS
    <3>2. IsWritable(by, n, C, ",", " ") /\ Characters(C, ",", ":", " ")
      BY <1>7, <2>1, <2>3, <3>1, SortIsWritable, MarksAreCharacters
    <3>. QED  BY <2>1, <3>2
  <2>5. PICK parts : parts = Entries(by, n, mark)
    OBVIOUS
  <2>6. IsCut(parts, n, C, comma, blank)
    BY <2>3, <2>4, <2>5, SortIsCut
  <2>7. parts \in [1..n -> Seq(C)] /\ comma \in C
    BY <2>4, <2>6 DEF IsCut, Characters
  <2>8. Joined(parts, comma) = parts[1]
    BY <2>2, <2>3, <2>7, JoinedTexts
  <2>9. parts[1] = by[1].field \o <<mark, by[1].order>>
    BY <2>2, <2>5 DEF Entries
  <2>10. WriteSort(by, ":") = Joined(parts, comma)
    BY <2>1, <2>3, <2>5, Zenon DEF WriteSort, WriteSpec, Entries
  <2>. QED  BY <1>2, <2>1, <2>8, <2>9, <2>10, Zenon DEF WriteSpec
<1>. QED  BY <1>1, <1>7, <1>8

\* A number of a URL is read as a positive one, whatever it says.
LEMMA NumberIsParsed ==
    ASSUME NEW raw \in Seq(Nat), NEW fallback \in Nat \ {0}
    PROVE  ParsePositiveInt(raw, fallback) \in Nat \ {0}
<1>1. CASE raw = <<>> \/ raw[1] < 2
  BY <1>1 DEF ParsePositiveInt
<1>2. CASE raw # <<>> /\ ~(raw[1] < 2)
  <2>1. raw[1] \in Nat
    BY <1>2
  <2>2. raw[1] \div 2 \in Nat /\ raw[1] \div 2 # 0
    BY <1>2, <2>1
  <2>. QED  BY <1>2, <2>2 DEF ParsePositiveInt
<1>. QED  BY <1>1, <1>2

\* A positive number is read as it was written, and none as the fallback.
LEMMA NumberIsReadBack ==
    ASSUME NEW n \in Nat \ {0}, NEW fallback
    PROVE  ParsePositiveInt(<<2 * n>>, fallback) = n /\ ParsePositiveInt(<<>>, fallback) = fallback
<1>1. <<2 * n>> # <<>> /\ <<2 * n>>[1] = 2 * n
  OBVIOUS
<1>2. ~(2 * n < 2) /\ (2 * n) \div 2 = n
  OBVIOUS
<1>. QED  BY <1>1, <1>2 DEF ParsePositiveInt

\* A URL is read as the parameters of a list.
LEMMA UrlIsParsed ==
    ASSUME NEW url \in Urls
    PROVE  IsParams(ParseListParams(url)) /\ ParseListParams(url).search = url.q
<1>1. IsList(url.sort) /\ url.page \in Seq(Nat) /\ url.pageSize \in Seq(Nat)
  BY UrlsAssumption
<1>2. IsSort(ParseSortSpecs(url.sort))
  BY <1>1, SortIsParsed
<1>3. ParsePositiveInt(url.page, 1) \in Nat \ {0} /\ ParsePositiveInt(url.pageSize, DEFAULT_PAGE_SIZE) \in Nat \ {0}
  BY <1>1, NumberIsParsed, PagesAssumption
<1>4. PICK s, m, n : s = ParseSortSpecs(url.sort) /\ m = ParsePositiveInt(url.page, 1) /\ n = ParsePositiveInt(url.pageSize, DEFAULT_PAGE_SIZE)
  OBVIOUS
<1>5. ParseListParams(url) = Params(url.q, s, m, n)
  BY <1>4 DEF ParseListParams, Params
<1>. QED  BY <1>2, <1>3, <1>4, <1>5 DEF IsParams, Params

\* What a link says is read from it again.
LEMMA LinkIsRead ==
    ASSUME NEW p, IsParams(p), NEW f, NEW sort, IsSort(sort), NEW page, NEW n, n = ParsePositiveInt(page, 1),
           f.q = p.search, f.sort = WriteSort(sort, ":"), f.page = page, f.pageSize = BuildHref(p).pageSize
    PROVE  ParseListParams(f) = Params(p.search, sort, n, p.pageSize)
<1>1. PICK sizes : sizes = IF p.pageSize # DEFAULT_PAGE_SIZE THEN <<2 * p.pageSize>> ELSE <<>>
  OBVIOUS
<1>2. f.pageSize = sizes
  BY <1>1 DEF BuildHref
<1>3. ParsePositiveInt(sizes, DEFAULT_PAGE_SIZE) = p.pageSize
  BY <1>1, NumberIsReadBack DEF IsParams
<1>4. ParseSortSpecs(f.sort) = sort
  BY SortIsReadBack
<1>. HIDE DEF ParsePositiveInt, ParseSortSpecs
<1>. QED  BY <1>2, <1>3, <1>4 DEF ParseListParams, Params

\* The link to a page is read as the same list at that page.
LEMMA PageLinkIsRead ==
    ASSUME NEW p, IsParams(p), NEW n \in Nat \ {0}
    PROVE  ParseListParams([BuildHref(p) EXCEPT !.page = <<2 * n>>]) = Params(p.search, p.sort, n, p.pageSize)
<1>1. PICK h, page : h = BuildHref(p) /\ page = <<2 * n>>
  OBVIOUS
<1>2. DOMAIN h = {"q", "sort", "page", "pageSize"} /\ h.q = p.search /\ h.sort = WriteSort(p.sort, ":")
  BY <1>1 DEF BuildHref
<1>3. PICK f : f = [h EXCEPT !.page = page]
  OBVIOUS
<1>4. f.q = p.search /\ f.sort = WriteSort(p.sort, ":") /\ f.page = page /\ f.pageSize = BuildHref(p).pageSize
  BY <1>1, <1>2, <1>3
<1>5. n = ParsePositiveInt(page, 1) /\ IsSort(p.sort)
  BY <1>1, NumberIsReadBack DEF IsParams
<1>6. ParseListParams(f) = Params(p.search, p.sort, n, p.pageSize)
  <2>1. PICK sort : sort = p.sort
    OBVIOUS
  <2>2. ParseListParams(f) = Params(p.search, sort, n, p.pageSize)
    BY <1>4, <1>5, <2>1, LinkIsRead
  <2>. QED  BY <2>1, <2>2
<1>. QED  BY <1>1, <1>3, <1>6

\* A link that sorts is read as the same list so sorted, at its first page.
LEMMA SortLinkIsRead ==
    ASSUME NEW p, IsParams(p), NEW sort, IsSort(sort), NEW raw, raw = WriteSort(sort, ":")
    PROVE  ParseListParams([BuildHref(p) EXCEPT !.sort = raw, !.page = <<>>]) = Params(p.search, sort, 1, p.pageSize)
<1>1. PICK h : h = BuildHref(p)
  OBVIOUS
<1>2. DOMAIN h = {"q", "sort", "page", "pageSize"} /\ h.q = p.search
  BY <1>1 DEF BuildHref
<1>3. PICK f : f = [h EXCEPT !.sort = raw, !.page = <<>>]
  OBVIOUS
<1>4. f.q = p.search /\ f.sort = WriteSort(sort, ":") /\ f.page = <<>> /\ f.pageSize = BuildHref(p).pageSize
  BY <1>1, <1>2, <1>3
<1>5. 1 = ParsePositiveInt(<<>>, 1)
  BY DEF ParsePositiveInt
<1>6. ParseListParams(f) = Params(p.search, sort, 1, p.pageSize)
  BY <1>4, <1>5, LinkIsRead
<1>. QED  BY <1>1, <1>3, <1>6

-----------------------------------------------------------------------------
(* What a list is run as. *)

\* The smaller and the larger of two numbers.
LEMMA SmallerOfTwo ==
    ASSUME NEW a \in Nat, NEW b \in Nat
    PROVE  /\ Min({a, b}) = IF a <= b THEN a ELSE b
           /\ Max({a, b}) = IF a <= b THEN b ELSE a
<1>1. \A x \in {a, b} : (\A y \in {a, b} : x <= y) => x = IF a <= b THEN a ELSE b
  OBVIOUS
<1>2. \E x \in {a, b} : \A y \in {a, b} : x <= y
  OBVIOUS
<1>3. \A x \in {a, b} : (\A y \in {a, b} : y <= x) => x = IF a <= b THEN b ELSE a
  OBVIOUS
<1>4. \E x \in {a, b} : \A y \in {a, b} : y <= x
  OBVIOUS
<1>5. Min({a, b}) = IF a <= b THEN a ELSE b
  BY <1>1, <1>2 DEF Min
<1>6. Max({a, b}) = IF a <= b THEN b ELSE a
  BY <1>3, <1>4 DEF Max
<1>. QED  BY <1>5, <1>6

\* What a list is run as, apart from its page: the search, what it is ordered by
\* in the end, and whether its columns are fine.
SortFields(sort) == {s.field : s \in Range(sort)}

SearchOver(adapter, resource, search) ==
    IF adapter = "api"
    THEN IF Trim(search) = Blank \/ SearchableColumns(resource) = {} THEN <<>>
         ELSE <<[fields |-> SearchableColumns(resource), pattern |-> <<"%">> \o Trim(search) \o <<"%">>]>>
    ELSE IF search = Blank \/ PickSearchFields(resource) = {} THEN <<>>
         ELSE <<[fields |-> PickSearchFields(resource),
                 pattern |-> LikePattern(ReadQuoted(QuoteLikeValue(search)).text)]>>

Tiebreakers(resource, sorted) ==
    Keep(resource.primaryKey, {n \in Range(resource.primaryKey) : Spelled(n) \notin sorted})

InTheEnd(adapter, resource, sorted) ==
    IF adapter # "api" THEN <<>>
    ELSE [i \in DOMAIN Tiebreakers(resource, sorted) |->
            [field |-> Spelled(Tiebreakers(resource, sorted)[i]), order |-> "asc"]]

SearchedOver(resource, search) ==
    IF search # Blank /\ PickSearchFields(resource) # {}
    THEN {Spelled(n) : n \in PickSearchFields(resource)} ELSE {}
IsQuoted(resource, search) ==
    search # Blank /\ PickSearchFields(resource) # {} =>
        ReadQuoted(QuoteLikeValue(search)).mode = "closed"
IsFine(adapter, resource, search, sorted) ==
    LET named == sorted \cup SearchedOver(resource, search)
    IN IF adapter = "api" THEN sorted \subseteq SpelledNames(resource.columns)
       ELSE /\ resource.schema = <<Head(resource.qualifiedName)>>
            /\ named \subseteq SpelledNames(resource.columns)
            /\ \A text \in named : PostgrestReads(text)
            /\ IsQuoted(resource, search)

LimitOf(adapter, size) == IF adapter = "api" /\ MAX_PAGE_SIZE < size THEN MAX_PAGE_SIZE ELSE size
Bound(adapter, total) == IF adapter = "api" THEN MAX_SAFE_INTEGER ELSE total

RunOf(adapter, resource, p, total) ==
    LET limit == LimitOf(adapter, p.pageSize)
    IN [ok |-> /\ IsFine(adapter, resource, p.search, SortFields(p.sort))
               /\ (p.page - 1) * limit <= Bound(adapter, total),
        search |-> SearchOver(adapter, resource, p.search),
        order |-> p.sort \o InTheEnd(adapter, resource, SortFields(p.sort)),
        limit |-> limit, offset |-> (p.page - 1) * limit]

\* A list is run as RunOf says over the REST API.
LEMMA ApiListRuns ==
    ASSUME NEW resource, NEW p, IsParams(p), NEW total
    PROVE  ApiList(resource, p) = RunOf("api", resource, p, total)
<1>1. PICK sort, search, page, size : sort = p.sort /\ search = p.search /\ page = p.page /\ size = p.pageSize
  OBVIOUS
<1>2. ApiSort(sort) = sort
  BY <1>1, SortIsSent DEF IsParams
<1>3. PICK sorted, term, fields, limit :
        /\ sorted = SortFields(sort) /\ term = Trim(search) /\ fields = SearchableColumns(resource)
        /\ limit = LimitOf("api", size)
  OBVIOUS
<1>4. Min({size, MAX_PAGE_SIZE}) = limit
  BY <1>1, <1>3, SmallerOfTwo, PagesAssumption DEF LimitOf, IsParams
<1>5. PICK tiebreakers : tiebreakers = Tiebreakers(resource, sorted)
  OBVIOUS
<1>6. ApiList(resource, p) =
        [ok |-> sorted \subseteq SpelledNames(resource.columns) /\ (page - 1) * limit <= MAX_SAFE_INTEGER,
         search |-> IF term = Blank \/ fields = {} THEN <<>>
                    ELSE <<[fields |-> fields, pattern |-> <<"%">> \o term \o <<"%">>]>>,
         order |-> sort \o [i \in DOMAIN tiebreakers |-> [field |-> Spelled(tiebreakers[i]), order |-> "asc"]],
         limit |-> limit, offset |-> (page - 1) * limit]
  BY <1>1, <1>2, <1>3, <1>4, <1>5, Zenon DEF ApiList, Tiebreakers, SortFields
<1>7. SearchOver("api", resource, search) = IF term = Blank \/ fields = {} THEN <<>>
                    ELSE <<[fields |-> fields, pattern |-> <<"%">> \o term \o <<"%">>]>>
  BY <1>3 DEF SearchOver
<1>8. InTheEnd("api", resource, sorted) = [i \in DOMAIN tiebreakers |-> [field |-> Spelled(tiebreakers[i]), order |-> "asc"]]
  BY <1>5 DEF InTheEnd
<1>9. IsFine("api", resource, search, sorted) <=> sorted \subseteq SpelledNames(resource.columns)
  BY DEF IsFine
<1>. HIDE DEF SearchOver, InTheEnd, IsFine
<1>10. RunOf("api", resource, p, total) =
        [ok |-> sorted \subseteq SpelledNames(resource.columns) /\ (page - 1) * limit <= MAX_SAFE_INTEGER,
         search |-> SearchOver("api", resource, search),
         order |-> sort \o InTheEnd("api", resource, sorted),
         limit |-> limit, offset |-> (page - 1) * limit]
  BY <1>1, <1>3, <1>9 DEF RunOf, Bound
<1>. QED  BY <1>6, <1>7, <1>8, <1>10

\* A list is run as RunOf says over PostgREST.
LEMMA PostgrestListRuns ==
    ASSUME NEW resource, NEW p, IsParams(p), NEW total, NEW adapter, adapter # "api"
    PROVE  PostgrestList(resource, p, total) = RunOf(adapter, resource, p, total)
<1>1. PICK sort, search, page, size : sort = p.sort /\ search = p.search /\ page = p.page /\ size = p.pageSize
  OBVIOUS
<1>2. PICK sorted, fields, value :
        /\ sorted = SortFields(sort) /\ fields = PickSearchFields(resource)
        /\ value = ReadQuoted(QuoteLikeValue(search))
  OBVIOUS
<1>3. PICK searches : searches = (search # Blank /\ fields # {})
  OBVIOUS
<1>4. searches \in BOOLEAN
  BY <1>3
<1>5. PICK named : named = sorted \cup (IF searches THEN {Spelled(n) : n \in fields} ELSE {})
  OBVIOUS
<1>. DEFINE fine == /\ resource.schema = <<Head(resource.qualifiedName)>>
                    /\ named \subseteq SpelledNames(resource.columns)
                    /\ \A text \in named : PostgrestReads(text)
                    /\ searches => value.mode = "closed"
            ok == /\ resource.schema = <<Head(resource.qualifiedName)>>
                  /\ named \subseteq SpelledNames(resource.columns)
                  /\ \A text \in named : PostgrestReads(text)
                  /\ searches => value.mode = "closed"
                  /\ (page - 1) * size <= total
<1>6. PostgrestList(resource, p, total) =
        [ok |-> ok,
         search |-> IF searches THEN <<[fields |-> fields, pattern |-> LikePattern(value.text)]>> ELSE <<>>,
         order |-> sort, limit |-> size, offset |-> (page - 1) * size]
  BY <1>1, <1>2, <1>3, <1>5, Zenon DEF PostgrestList, SortFields
<1>7. IsFine(adapter, resource, search, sorted) <=> fine
  <2>1. SearchedOver(resource, search) = IF searches THEN {Spelled(n) : n \in fields} ELSE {}
    BY <1>2, <1>3, Zenon DEF SearchedOver
  <2>2. IsQuoted(resource, search) <=> (searches => value.mode = "closed")
    BY <1>2, <1>3, Zenon DEF IsQuoted
  <2>3. named = sorted \cup SearchedOver(resource, search)
    BY <1>5, <2>1
  <2>. QED  BY <2>2, <2>3, Zenon DEF IsFine
<1>8. SearchOver(adapter, resource, search) =
        IF searches THEN <<[fields |-> fields, pattern |-> LikePattern(value.text)]>> ELSE <<>>
  BY <1>2, <1>3 DEF SearchOver
<1>9. InTheEnd(adapter, resource, sorted) = <<>> /\ LimitOf(adapter, size) = size
  BY DEF InTheEnd, LimitOf
<1>10. sort \o <<>> = sort
  BY <1>1, ConcatEmptySeq DEF IsParams, IsSort, IsList
<1>11. ok \in BOOLEAN
  OBVIOUS
<1>12. fine \in BOOLEAN /\ (ok <=> fine /\ (page - 1) * size <= total)
  OBVIOUS
<1>. HIDE DEF SearchOver, InTheEnd, IsFine, fine, ok
<1>13. RunOf(adapter, resource, p, total) =
        [ok |-> fine /\ (page - 1) * size <= total,
         search |-> SearchOver(adapter, resource, search),
         order |-> sort, limit |-> size, offset |-> (page - 1) * size]
  BY <1>1, <1>2, <1>7, <1>9, <1>10, <1>12 DEF RunOf, Bound
<1>14. ok = (fine /\ (page - 1) * size <= total)
  BY <1>12, <1>11
<1>. QED  BY <1>6, <1>8, <1>13, <1>14

\* A list is run as RunOf says, whatever adapter runs it.
LEMMA ListRuns ==
    ASSUME NEW adapter, NEW resource, NEW url, NEW total, IsParams(ParseListParams(url))
    PROVE  List(adapter, resource, url, total) = RunOf(adapter, resource, ParseListParams(url), total)
  BY ApiListRuns, PostgrestListRuns DEF List

-----------------------------------------------------------------------------
(* The pages of a list. *)

\* There is a page after this one if there are rows left.
LEMMA PageArithmetic ==
    ASSUME NEW p \in Nat \ {0}, NEW s \in Nat \ {0}, NEW total \in Nat
    PROVE  /\ (p - 1) * s \in Nat /\ (p - 1) * s + s = p * s /\ (p > 1 <=> (p - 1) * s > 0)
           /\ p > 1 => (p - 2) * s = (p - 1) * s - s
           /\ p < TotalPages(total, s) <=> (p - 1) * s + s < total
<1>1. (p - 1) * s \in Nat /\ (p - 1) * s + s = p * s /\ (p - 2) * s = (p - 1) * s - s
  OBVIOUS
<1>2. p > 1 <=> (p - 1) * s > 0
  <2>1. CASE p = 1
    BY <2>1
  <2>2. CASE p > 1
    <3>1. (p - 1) * s = (p - 2) * s + s /\ (p - 2) * s \in Nat
      BY <1>1, <2>2
    <3>. QED  BY <2>2, <3>1
  <2>. QED  BY <2>1, <2>2
<1>3. PICK k : k = (total + s - 1) \div s
  OBVIOUS
<1>4. k \in Nat /\ k * s <= total + s - 1 /\ total + s - 1 < k * s + s
  BY <1>3
<1>5. TotalPages(total, s) = IF 1 <= k THEN k ELSE 1
  BY <1>3, <1>4, SmallerOfTwo DEF TotalPages
<1>6. p < TotalPages(total, s) <=> p < k
  BY <1>4, <1>5
<1>7. ASSUME p < k PROVE p * s < total
  <2>1. p + 1 <= k
    BY <1>4, <1>7
  <2>2. (p + 1) * s <= k * s
    <3>1. k - (p + 1) \in Nat
      BY <1>4, <2>1
    <3>2. (k - (p + 1)) * s \in Nat
      BY <3>1
    <3>3. k * s = (p + 1) * s + (k - (p + 1)) * s
      BY <1>4
    <3>. QED  BY <1>4, <3>2, <3>3
  <2>3. (p + 1) * s = p * s + s
    OBVIOUS
  <2>. QED  BY <1>4, <2>2, <2>3
<1>8. ASSUME ~(p < k) PROVE ~(p * s < total)
  <2>1. p - k \in Nat
    BY <1>4, <1>8
  <2>2. (p - k) * s \in Nat
    BY <2>1
  <2>3. p * s = k * s + (p - k) * s
    BY <1>4
  <2>. QED  BY <1>4, <2>2, <2>3
<1>. QED  BY <1>1, <1>2, <1>6, <1>7, <1>8

\* Another page of a list that runs is run alike, at that page's offset.
LEMMA PageIsRun ==
    ASSUME NEW adapter, NEW resource, NEW p, IsParams(p), NEW n \in Nat \ {0}, NEW total,
           NEW run, run = RunOf(adapter, resource, p, total), run.ok,
           NEW offset, offset = (n - 1) * LimitOf(adapter, p.pageSize)
    PROVE  RunOf(adapter, resource, Params(p.search, p.sort, n, p.pageSize), total)
             = [ok |-> offset <= Bound(adapter, total), search |-> run.search,
                order |-> run.order, limit |-> run.limit, offset |-> offset]
<1>1. PICK m : m = Params(p.search, p.sort, n, p.pageSize)
  OBVIOUS
<1>2. m.search = p.search /\ m.sort = p.sort /\ m.page = n /\ m.pageSize = p.pageSize
  BY <1>1 DEF Params
<1>3. PICK fine, search, order, limit :
        /\ fine = IsFine(adapter, resource, p.search, SortFields(p.sort))
        /\ search = SearchOver(adapter, resource, p.search)
        /\ order = p.sort \o InTheEnd(adapter, resource, SortFields(p.sort))
        /\ limit = LimitOf(adapter, p.pageSize)
  OBVIOUS
<1>4. run = [ok |-> fine /\ (p.page - 1) * limit <= Bound(adapter, total),
             search |-> search, order |-> order, limit |-> limit, offset |-> (p.page - 1) * limit]
  BY <1>3, Zenon DEF RunOf
<1>5. RunOf(adapter, resource, m, total)
        = [ok |-> fine /\ (n - 1) * limit <= Bound(adapter, total),
           search |-> search, order |-> order, limit |-> limit, offset |-> (n - 1) * limit]
  BY <1>2, <1>3, Zenon DEF RunOf
<1>6. fine = TRUE /\ run.search = search /\ run.order = order /\ run.limit = limit
  <2>1. fine \in BOOLEAN
    <3>1. IsFine(adapter, resource, p.search, SortFields(p.sort)) \in BOOLEAN
      BY DEF IsFine
    <3>. QED  BY <1>3, <3>1
  <2>. QED  BY <1>4, <2>1
<1>7. (fine /\ (n - 1) * limit <= Bound(adapter, total)) = (offset <= Bound(adapter, total)) /\ offset = (n - 1) * limit
  BY <1>3, <1>6
<1>. QED  BY <1>1, <1>5, <1>6, <1>7

\* A run is the record of its fields.
LEMMA FieldsAreAll ==
    ASSUME NEW ok, NEW search, NEW order, NEW limit, NEW x, NEW g,
           g = [k \in {"ok", "search", "order", "limit", "offset"} |-> g[k]], g.offset = x,
           g.ok = ok, g.search = search, g.order = order, g.limit = limit
    PROVE  g = [ok |-> ok, search |-> search, order |-> order, limit |-> limit, offset |-> x]
<1>1. PICK h : h = [ok |-> ok, search |-> search, order |-> order, limit |-> limit, offset |-> x]
  OBVIOUS
<1>2. /\ DOMAIN h = {"ok", "search", "order", "limit", "offset"} /\ h.ok = ok /\ h.offset = x
      /\ h.search = search /\ h.order = order /\ h.limit = limit
  BY <1>1
<1>3. \A k \in {"ok", "search", "order", "limit", "offset"} : g[k] = h[k]
  BY <1>2
<1>4. h = [k \in DOMAIN h |-> h[k]]
  BY <1>1
<1>. QED  BY <1>1, <1>2, <1>3, <1>4

\* A run, and the run that differs from it in its offset, or in that and whether it is fine.
RunRecord(ok, search, order, limit, offset) ==
    [ok |-> ok, search |-> search, order |-> order, limit |-> limit, offset |-> offset]

AtOffset(run, x) == [run EXCEPT !.offset = x]

AtOffsetIf(run, x, y) == [run EXCEPT !.offset = x, !.ok = y]

\* A run moved to another offset keeps its other fields.
LEMMA OffsetReplaced ==
    ASSUME NEW ok, NEW search, NEW order, NEW limit, NEW offset, NEW x
    PROVE  AtOffset(RunRecord(ok, search, order, limit, offset), x)
             = RunRecord(ok, search, order, limit, x)
<1>1. PICK run : run = RunRecord(ok, search, order, limit, offset)
  OBVIOUS
<1>2. PICK e : e = [run EXCEPT !.offset = x]
  OBVIOUS
<1>3. /\ DOMAIN run = {"ok", "search", "order", "limit", "offset"}
      /\ run.ok = ok /\ run.search = search /\ run.order = order /\ run.limit = limit
  BY <1>1 DEF RunRecord
<1>4. /\ DOMAIN e = DOMAIN run /\ e.ok = ok /\ e.offset = x
      /\ e.search = search /\ e.order = order /\ e.limit = limit
  BY <1>2, <1>3
<1>5. e = [k \in DOMAIN e |-> e[k]]
  BY <1>2, Zenon
<1>. QED  BY <1>1, <1>2, <1>3, <1>4, <1>5, FieldsAreAll DEF AtOffset, RunRecord

\* So does one whose verdict is replaced with its offset.
LEMMA OffsetAndOkReplaced ==
    ASSUME NEW ok, NEW search, NEW order, NEW limit, NEW offset, NEW x, NEW y
    PROVE  AtOffsetIf(RunRecord(ok, search, order, limit, offset), x, y)
             = RunRecord(y, search, order, limit, x)
<1>1. PICK run : run = RunRecord(ok, search, order, limit, offset)
  OBVIOUS
<1>2. PICK e : e = [run EXCEPT !.offset = x, !.ok = y]
  OBVIOUS
<1>3. /\ DOMAIN run = {"ok", "search", "order", "limit", "offset"}
      /\ run.ok = ok /\ run.search = search /\ run.order = order /\ run.limit = limit
  BY <1>1 DEF RunRecord
<1>4. /\ DOMAIN e = DOMAIN run /\ e.ok = y /\ e.offset = x
      /\ e.search = search /\ e.order = order /\ e.limit = limit
  BY <1>2, <1>3
<1>5. e = [k \in DOMAIN e |-> e[k]]
  BY <1>2, Zenon
<1>6. e = RunRecord(y, search, order, limit, x)
  BY <1>3, <1>4, <1>5, FieldsAreAll DEF RunRecord
<1>. QED  BY <1>1, <1>2, <1>6 DEF AtOffsetIf

\* The links to the pages before and after lead there.
LEMMA PagesAreJoined ==
    ASSUME NEW q, q.url \in Urls, q.total \in Totals,
           NEW run, run = List(q.adapter, q.resource, q.url, q.total),
           NEW links, links.next = NextLink(ParseListParams(q.url), q.total),
           links.prev = PrevLink(ParseListParams(q.url))
    PROVE  PagesJoin(q, run, links)
<1>1. PICK p, adapter, resource, total :
        p = ParseListParams(q.url) /\ adapter = q.adapter /\ resource = q.resource /\ total = q.total
  OBVIOUS
<1>2. IsParams(p) /\ run = RunOf(adapter, resource, p, total)
  BY <1>1, UrlIsParsed, ListRuns
<1>3. SUFFICES ASSUME run.ok, adapter = "api" => p.pageSize <= MAX_PAGE_SIZE
               PROVE  /\ links.next # <<>> <=> run.offset + run.limit < total
                      /\ \A url \in Range(links.next) :
                            List(adapter, resource, url, total)
                              = [run EXCEPT !.offset = @ + run.limit,
                                            !.ok = adapter = "api" => run.offset + run.limit <= MAX_SAFE_INTEGER]
                      /\ links.prev # <<>> <=> run.offset > 0
                      /\ \A url \in Range(links.prev) :
                            List(adapter, resource, url, total) = [run EXCEPT !.offset = @ - run.limit]
  BY <1>1, Zenon DEF PagesJoin
<1>4. PICK page, size, limit : page = p.page /\ size = p.pageSize /\ limit = LimitOf(adapter, size)
  OBVIOUS
<1>5. page \in Nat \ {0} /\ size \in Nat \ {0} /\ limit = size /\ total \in Nat
  <2>1. page \in Nat \ {0} /\ size \in Nat \ {0}
    BY <1>2, <1>4 DEF IsParams
  <2>2. limit = size
    BY <1>3, <1>4, <2>1, PagesAssumption DEF LimitOf
  <2>3. total \in Nat
    BY <1>1, UrlsAssumption
  <2>. QED  BY <2>1, <2>2, <2>3
<1>6. PICK search, order, offset :
         /\ run = [ok |-> TRUE, search |-> search, order |-> order, limit |-> size, offset |-> offset]
         /\ offset = (page - 1) * size /\ offset <= Bound(adapter, total)
  <2>1. PICK fine, search, order, offset :
          /\ fine = IsFine(adapter, resource, p.search, SortFields(p.sort))
          /\ search = SearchOver(adapter, resource, p.search)
          /\ order = p.sort \o InTheEnd(adapter, resource, SortFields(p.sort))
          /\ offset = (page - 1) * size
    OBVIOUS
  <2>2. run = [ok |-> fine /\ offset <= Bound(adapter, total), search |-> search,
               order |-> order, limit |-> size, offset |-> offset]
    BY <1>2, <1>4, <1>5, <2>1, Zenon DEF RunOf
  <2>3. run.ok = (fine /\ offset <= Bound(adapter, total))
    BY <2>2
  <2>4. (fine /\ offset <= Bound(adapter, total)) = TRUE
    BY <1>3, <2>3
  <2>. QED  BY <2>1, <2>2, <2>4
<1>7. /\ run.search = search /\ run.order = order /\ run.limit = size /\ run.offset = offset
      /\ run.ok = TRUE /\ offset = (page - 1) * size /\ offset <= Bound(adapter, total)
  BY <1>6
<1>8. ASSUME NEW n \in Nat \ {0}, NEW url, url = [BuildHref(p) EXCEPT !.page = <<2 * n>>]
      PROVE  List(adapter, resource, url, total)
               = [ok |-> (n - 1) * size <= Bound(adapter, total), search |-> run.search,
                  order |-> run.order, limit |-> run.limit, offset |-> (n - 1) * size]
  <2>1. PICK m : m = Params(p.search, p.sort, n, p.pageSize)
    OBVIOUS
  <2>2. ParseListParams(url) = m
    BY <1>2, <1>8, <2>1, PageLinkIsRead
  <2>3. IsParams(m)
    <3>1. m.search = p.search /\ m.sort = p.sort /\ m.page = n /\ m.pageSize = p.pageSize
      BY <2>1 DEF Params
    <3>. QED  BY <1>2, <2>1, <3>1 DEF IsParams
  <2>4. List(adapter, resource, url, total) = RunOf(adapter, resource, m, total)
    BY <2>2, <2>3, ListRuns
  <2>5. PICK at : at = (n - 1) * size /\ at = (n - 1) * LimitOf(adapter, p.pageSize)
    BY <1>4, <1>5
  <2>6. RunOf(adapter, resource, m, total)
          = [ok |-> at <= Bound(adapter, total), search |-> run.search,
             order |-> run.order, limit |-> run.limit, offset |-> at]
    BY <1>2, <1>3, <2>1, <2>5, PageIsRun
  <2>. QED  BY <2>4, <2>5, <2>6
<1>9. /\ run.offset + run.limit = page * size /\ (page > 1 <=> run.offset > 0)
      /\ page > 1 => (page - 2) * size = run.offset - run.limit
      /\ page < TotalPages(total, size) <=> run.offset + run.limit < total
  BY <1>5, <1>7, PageArithmetic
<1>10. links.next = IF page < TotalPages(total, size)
                   THEN <<[BuildHref(p) EXCEPT !.page = <<2 * (page + 1)>>]>> ELSE <<>>
  BY <1>1, <1>4, Zenon DEF NextLink
<1>11. links.prev = IF page > 1 THEN <<[BuildHref(p) EXCEPT !.page = <<2 * (page - 1)>>]>> ELSE <<>>
  BY <1>1, <1>4, Zenon DEF PrevLink
<1>12. ASSUME NEW url \in Range(links.next)
       PROVE  List(adapter, resource, url, total)
                = [run EXCEPT !.offset = @ + run.limit,
                              !.ok = adapter = "api" => run.offset + run.limit <= MAX_SAFE_INTEGER]
  <2>1. url = [BuildHref(p) EXCEPT !.page = <<2 * (page + 1)>>]
    BY <1>10 DEF Range
  <2>2. List(adapter, resource, url, total)
          = [ok |-> page * size <= Bound(adapter, total), search |-> run.search,
             order |-> run.order, limit |-> run.limit, offset |-> page * size]
    <3>1. page + 1 \in Nat \ {0} /\ (page + 1) - 1 = page
      BY <1>5
    <3>. QED  BY <1>8, <2>1, <3>1
  <2>3. PICK fits : fits = (adapter = "api" => run.offset + run.limit <= MAX_SAFE_INTEGER)
    OBVIOUS
  <2>4. [run EXCEPT !.offset = @ + run.limit, !.ok = fits]
          = [ok |-> fits, search |-> run.search, order |-> run.order, limit |-> run.limit,
             offset |-> run.offset + run.limit]
    <3>1. PICK x : x = run.offset + run.limit
      OBVIOUS
    <3>2. PICK yes : yes = TRUE
      OBVIOUS
    <3>3. run = RunRecord(yes, search, order, size, offset)
      BY <1>6, <3>2 DEF RunRecord
    <3>4. AtOffsetIf(run, x, fits) = RunRecord(fits, search, order, size, x)
      BY <3>3, OffsetAndOkReplaced
    <3>5. [run EXCEPT !.offset = @ + run.limit, !.ok = fits] = AtOffsetIf(run, x, fits)
      BY <3>1, Zenon DEF AtOffsetIf
    <3>. QED  BY <1>7, <3>1, <3>4, <3>5, <3>2 DEF RunRecord
  <2>5. (page * size <= Bound(adapter, total)) = fits
    <3>1. page * size = run.offset + run.limit
      BY <1>9
    <3>2. page < TotalPages(total, size)
      BY <1>10, <1>12 DEF Range
    <3>3. run.offset + run.limit <= total
      BY <1>5, <1>9, <3>1, <3>2
    <3>. QED  BY <2>3, <3>1, <3>3 DEF Bound
  <2>. QED  BY <1>9, <2>2, <2>3, <2>4, <2>5
<1>13. ASSUME NEW url \in Range(links.prev)
       PROVE  List(adapter, resource, url, total) = [run EXCEPT !.offset = @ - run.limit]
  <2>1. url = [BuildHref(p) EXCEPT !.page = <<2 * (page - 1)>>] /\ page > 1
    BY <1>11 DEF Range
  <2>2. page - 1 \in Nat \ {0} /\ (page - 1) - 1 = page - 2
    BY <1>5, <2>1
  <2>3. List(adapter, resource, url, total)
          = [ok |-> (page - 2) * size <= Bound(adapter, total), search |-> run.search,
             order |-> run.order, limit |-> run.limit, offset |-> (page - 2) * size]
    BY <1>8, <2>1, <2>2
  <2>4. (page - 2) * size = run.offset - run.limit
    BY <1>9, <2>1
  <2>5. run.offset \in Nat /\ run.limit \in Nat
    BY <1>5, <1>7, PageArithmetic
  <2>6. ((page - 2) * size <= Bound(adapter, total)) = TRUE
    <3>1. Bound(adapter, total) \in Nat
      BY <1>5, PagesAssumption DEF Bound
    <3>. QED  BY <1>7, <2>4, <2>5, <3>1
  <2>7. [run EXCEPT !.offset = @ - run.limit]
          = [ok |-> TRUE, search |-> run.search, order |-> run.order, limit |-> run.limit,
             offset |-> run.offset - run.limit]
    <3>1. PICK x : x = run.offset - run.limit
      OBVIOUS
    <3>2. PICK yes : yes = TRUE
      OBVIOUS
    <3>3. run = RunRecord(yes, search, order, size, offset)
      BY <1>6, <3>2 DEF RunRecord
    <3>4. AtOffset(run, x) = RunRecord(yes, search, order, size, x)
      BY <3>3, OffsetReplaced
    <3>5. [run EXCEPT !.offset = @ - run.limit] = AtOffset(run, x)
      BY <3>1, Zenon DEF AtOffset
    <3>. QED  BY <1>7, <3>1, <3>4, <3>5, <3>2 DEF RunRecord
  <2>. QED  BY <2>3, <2>4, <2>6, <2>7
<1>14. links.next # <<>> <=> run.offset + run.limit < total
  BY <1>9, <1>10
<1>15. links.prev # <<>> <=> run.offset > 0
  BY <1>9, <1>11
<1>. QED  BY <1>12, <1>13, <1>14, <1>15

-----------------------------------------------------------------------------
(* The headers of a list. *)

\* The other order, and the run in another order.
Other(order) == IF order = "asc" THEN "desc" ELSE "asc"

WithOrder(run, x) == [run EXCEPT !.order = x]

\* A run put in another order keeps its other fields.
LEMMA OrderReplaced ==
    ASSUME NEW ok, NEW search, NEW order, NEW limit, NEW offset, NEW x
    PROVE  WithOrder(RunRecord(ok, search, order, limit, offset), x)
             = RunRecord(ok, search, x, limit, offset)
<1>1. PICK run : run = RunRecord(ok, search, order, limit, offset)
  OBVIOUS
<1>2. PICK e : e = [run EXCEPT !.order = x]
  OBVIOUS
<1>3. /\ DOMAIN run = {"ok", "search", "order", "limit", "offset"}
      /\ run.ok = ok /\ run.search = search /\ run.limit = limit /\ run.offset = offset
  BY <1>1 DEF RunRecord
<1>4. /\ DOMAIN e = DOMAIN run /\ e.ok = ok /\ e.offset = offset
      /\ e.search = search /\ e.order = x /\ e.limit = limit
  BY <1>2, <1>3
<1>5. e = [k \in DOMAIN e |-> e[k]]
  BY <1>2, Zenon
<1>. QED  BY <1>1, <1>2, <1>3, <1>4, <1>5, FieldsAreAll DEF WithOrder, RunRecord

\* To reverse the first of an order is to reverse what it was put in front as.
LEMMA FirstIsReversed ==
    ASSUME NEW field, NEW order, NEW S, NEW rest \in Seq(S)
    PROVE  /\ Head(<<SortSpec(field, order)>> \o rest) = SortSpec(field, order)
           /\ (<<SortSpec(field, order)>> \o rest)[1] = SortSpec(field, order)
           /\ FirstReversed(<<SortSpec(field, order)>> \o rest)
                = <<SortSpec(field, Other(order))>> \o rest
<1>1. PICK a, b, T : a = SortSpec(field, order) /\ b = SortSpec(field, Other(order)) /\ T = S \cup {a, b}
  OBVIOUS
<1>2. rest \in Seq(T)
  BY <1>1, SeqMonotonic
<1>3. PICK n \in Nat : n = Len(rest)
  BY <1>2
<1>4. PICK x, y : x = <<a>> \o rest /\ y = <<b>> \o rest
  OBVIOUS
<1>5. /\ x \in Seq(T) /\ Len(x) = n + 1 /\ x[1] = a
      /\ y \in Seq(T) /\ Len(y) = n + 1 /\ y[1] = b
      /\ \A i \in 2..(n + 1) : x[i] = rest[i - 1] /\ y[i] = rest[i - 1]
  BY <1>1, <1>2, <1>3, <1>4
<1>6. DOMAIN x = 1..(n + 1) /\ DOMAIN y = 1..(n + 1)
  BY <1>5
<1>7. Head(x) = a
  BY <1>5
<1>8. FirstReversed(x) = [x EXCEPT ![1] = [a EXCEPT !.order = Other(order)]]
  <2>1. a.order = order
    BY <1>1 DEF SortSpec
  <2>. QED  BY <1>5, <2>1, Zenon DEF FirstReversed, Other
<1>9. [a EXCEPT !.order = Other(order)] = b
  BY <1>1 DEF SortSpec
<1>10. [x EXCEPT ![1] = b] = y
  BY <1>5, <1>6
<1>. QED  BY <1>1, <1>4, <1>5, <1>7, <1>8, <1>9, <1>10

\* A header sorts by its column, the other way round if that is the first already.
LEMMA SortLinks ==
    ASSUME NEW p, IsParams(p), NEW field, IsList(field), Linkable(field)
    PROVE  \E order \in Orders :
             /\ ParseListParams(BuildSortHref(p, field))
                  = Params(p.search, <<SortSpec(field, order)>>, 1, p.pageSize)
             /\ IsParams(Params(p.search, <<SortSpec(field, order)>>, 1, p.pageSize))
             /\ p.sort # <<>> /\ p.sort[1].field = field => order = Other(p.sort[1].order)
<1>. DEFINE ascending == \E i \in DOMAIN p.sort :
                            /\ p.sort[i].field = field /\ p.sort[i].order = "asc"
                            /\ \A j \in 1..(i - 1) : p.sort[j].field # field
<1>1. PICK order : order = IF ascending THEN "desc" ELSE "asc"
  OBVIOUS
<1>2. order \in Orders
  BY <1>1 DEF Orders
<1>3. PICK sort : sort = <<SortSpec(field, order)>>
  OBVIOUS
<1>4. PICK raw : raw = WriteSpec(SortSpec(field, order), ":")
  OBVIOUS
<1>5. BuildSortHref(p, field) = [BuildHref(p) EXCEPT !.sort = raw, !.page = <<>>]
  BY <1>1, <1>4, Zenon DEF BuildSortHref, SortSpec
<1>6. IsSort(sort) /\ raw = WriteSort(sort, ":")
  BY <1>2, <1>3, <1>4, OneSpecSorts
<1>7. ParseListParams(BuildSortHref(p, field)) = Params(p.search, sort, 1, p.pageSize)
  BY <1>6, <1>5, SortLinkIsRead
<1>8. IsParams(Params(p.search, sort, 1, p.pageSize))
  <2>1. PICK m : m = Params(p.search, sort, 1, p.pageSize)
    OBVIOUS
  <2>2. m.search = p.search /\ m.sort = sort /\ m.page = 1 /\ m.pageSize = p.pageSize
    BY <2>1 DEF Params
  <2>. QED  BY <1>6, <2>1, <2>2 DEF IsParams
<1>9. ASSUME p.sort # <<>>, p.sort[1].field = field PROVE order = Other(p.sort[1].order)
  <2>1. PICK n \in Nat : DOMAIN p.sort = 1..n /\ n >= 1
    <3>1. p.sort \in Seq(Range(p.sort))
      BY DEF IsParams, IsSort, IsList
    <3>2. PICK S : S = Range(p.sort)
      OBVIOUS
    <3>3. p.sort \in Seq(S)
      BY <3>1, <3>2
    <3>. QED  BY <1>9, <3>3
  <2>2. p.sort[1].order \in Orders
    BY <2>1 DEF IsParams, IsSort
  <2>3. CASE p.sort[1].order = "asc"
    <3>1. ascending
      BY <1>9, <2>1, <2>3
    <3>. QED  BY <1>1, <2>3, <3>1 DEF Other
  <2>4. CASE p.sort[1].order = "desc"
    <3>1. ASSUME NEW i \in 1..n, p.sort[i].order = "asc", \A j \in 1..(i - 1) : p.sort[j].field # field
          PROVE  FALSE
      <4>1. i # 1
        BY <2>4, <3>1
      <4>2. 1 \in 1..(i - 1)
        BY <2>1, <4>1
      <4>. QED  BY <1>9, <3>1, <4>2
    <3>2. ~ascending
      BY <2>1, <3>1
    <3>. QED  BY <1>1, <2>4, <3>2 DEF Other
  <2>. QED  BY <2>2, <2>3, <2>4 DEF Orders
<1>. QED  BY <1>2, <1>3, <1>7, <1>8, <1>9

\* What follows in the order are the columns of the primary key that are not in it.
KeyTexts(resource) == {Spelled(n) : n \in Range(resource.primaryKey)}

\* The primary key behind the sort, without what is sorted by already.
LEMMA TiesAreListed ==
    ASSUME NEW adapter, NEW resource, IsList(resource.primaryKey), NEW sorted
    PROVE  /\ \E S : InTheEnd(adapter, resource, sorted) \in Seq(S)
           /\ adapter = "api" => SortFields(InTheEnd(adapter, resource, sorted)) = KeyTexts(resource) \ sorted
<1>1. PICK ties, key, kept : /\ ties = Tiebreakers(resource, sorted) /\ key = resource.primaryKey
                             /\ kept = {n \in Range(key) : Spelled(n) \notin sorted}
  OBVIOUS
<1>2. ties = Keep(key, kept) /\ IsList(key)
  BY <1>1, Zenon DEF Tiebreakers
<1>3. PICK m \in Nat : DOMAIN ties = 1..m
  BY <1>2, KeptElements DEF IsList
<1>4. Range(ties) = kept
  <2>1. Range(ties) = Range(key) \cap kept
    BY <1>2, KeptElements DEF IsList
  <2>. QED  BY <1>1, <2>1
<1>5. PICK end : end = [i \in 1..m |-> [field |-> Spelled(ties[i]), order |-> "asc"]]
  OBVIOUS
<1>6. InTheEnd(adapter, resource, sorted) = IF adapter # "api" THEN <<>> ELSE end
  BY <1>1, <1>3, <1>5, Zenon DEF InTheEnd
<1>7. PICK S : S = Range(end)
  OBVIOUS
<1>8. end \in Seq(S)
  <2>1. \A i \in 1..m : end[i] \in S
    BY <1>5, <1>7 DEF Range
  <2>. QED  BY <1>5, <2>1
<1>9. <<>> \in Seq(S)
  OBVIOUS
<1>10. SortFields(end) = {Spelled(n) : n \in Range(ties)}
  <2>1. Range(end) = {[field |-> Spelled(ties[i]), order |-> "asc"] : i \in 1..m}
    BY <1>5, Zenon DEF Range
  <2>2. Range(ties) = {ties[i] : i \in 1..m}
    BY <1>3 DEF Range
  <2>3. \A i \in 1..m : [field |-> Spelled(ties[i]), order |-> "asc"].field = Spelled(ties[i])
    OBVIOUS
  <2>4. {o.field : o \in Range(end)} = {[field |-> Spelled(ties[i]), order |-> "asc"].field : i \in 1..m}
    BY <2>1
  <2>5. {Spelled(n) : n \in Range(ties)} = {Spelled(ties[i]) : i \in 1..m}
    BY <2>2
  <2>. QED  BY <2>3, <2>4, <2>5 DEF SortFields
<1>11. {Spelled(n) : n \in kept} = KeyTexts(resource) \ sorted
  BY <1>1 DEF KeyTexts
<1>. QED  BY <1>4, <1>6, <1>8, <1>9, <1>10, <1>11

\* Sorted by one column a list is run from its start, ordered by that and the key.
LEMMA SortedRun ==
    ASSUME NEW adapter, NEW resource, NEW p, NEW field, NEW order, NEW total,
           NEW run, run = RunOf(adapter, resource, p, total),
           NEW m, m = Params(p.search, <<SortSpec(field, order)>>, 1, p.pageSize), p.pageSize \in Nat
    PROVE  RunOf(adapter, resource, m, total)
             = RunRecord(IsFine(adapter, resource, p.search, {field})
                           /\ 0 <= Bound(adapter, total),
                         run.search, <<SortSpec(field, order)>> \o InTheEnd(adapter, resource, {field}),
                         run.limit, 0)
<1>1. m.search = p.search /\ m.sort = <<SortSpec(field, order)>> /\ m.page = 1 /\ m.pageSize = p.pageSize
  BY DEF Params
<1>2. SortFields(m.sort) = {field}
  <2>1. Range(m.sort) = {SortSpec(field, order)}
    BY <1>1 DEF Range
  <2>2. SortSpec(field, order).field = field
    BY DEF SortSpec
  <2>. QED  BY <2>1, <2>2 DEF SortFields
<1>3. PICK fine, search, last, limit :
        /\ fine = IsFine(adapter, resource, p.search, {field})
        /\ search = SearchOver(adapter, resource, p.search)
        /\ last = InTheEnd(adapter, resource, {field})
        /\ limit = LimitOf(adapter, p.pageSize)
  OBVIOUS
<1>4. run.search = search /\ run.limit = limit
  BY <1>3 DEF RunOf
<1>5. (m.page - 1) * limit = 0
  <2>1. limit \in Nat
    BY <1>3, PagesAssumption DEF LimitOf
  <2>2. 0 * limit = 0 /\ 1 - 1 = 0
    BY <2>1
  <2>. QED  BY <1>1, <2>2
<1>6. RunOf(adapter, resource, m, total)
        = RunRecord(fine /\ (m.page - 1) * limit <= Bound(adapter, total),
                    search, m.sort \o last, limit, (m.page - 1) * limit)
  BY <1>1, <1>2, <1>3, Zenon DEF RunOf, RunRecord
<1>. QED  BY <1>1, <1>3, <1>4, <1>5, <1>6

\* The headers of a list sort it.
LEMMA HeadersAreSorted ==
    ASSUME NEW q, q.url \in Urls, q.total \in Totals, IsList(q.resource.primaryKey),
           NEW run, run = List(q.adapter, q.resource, q.url, q.total), NEW sorts,
           \A f \in DOMAIN sorts : /\ IsList(Spelled(f)) /\ Spelled(f) \in SpelledNames(q.resource.columns)
                                  /\ sorts[f] = BuildSortHref(ParseListParams(q.url), Spelled(f))
    PROVE  HeadersSort(q, run, sorts)
<1>1. PICK p, adapter, resource, total :
        p = ParseListParams(q.url) /\ adapter = q.adapter /\ resource = q.resource /\ total = q.total
  OBVIOUS
<1>2. IsParams(p) /\ run = RunOf(adapter, resource, p, total)
  BY <1>1, UrlIsParsed, ListRuns
<1>3. p.pageSize \in Nat
  BY <1>2 DEF IsParams
<1>. DEFINE Sorts(f, sorted, reversed) ==
              /\ Head(sorted.order).field = f /\ sorted.offset = 0
              /\ run.ok /\ (adapter = "api" \/ PostgrestReads(f)) => sorted.ok
              /\ sorted.limit = run.limit /\ sorted.search = run.search
              /\ p.sort # <<>> /\ p.sort[1].field = f => sorted.order[1].order # p.sort[1].order
              /\ reversed = [sorted EXCEPT !.order = FirstReversed(@)]
<1>4. (\A f \in DOMAIN sorts : Linkable(Spelled(f)) =>
          Sorts(Spelled(f), List(adapter, resource, sorts[f], total),
                List(adapter, resource, BuildSortHref(ParseListParams(sorts[f]), Spelled(f)), total)))
       => HeadersSort(q, run, sorts)
  BY <1>1, Zenon DEF HeadersSort
<1>. SUFFICES ASSUME NEW e \in DOMAIN sorts, Linkable(Spelled(e))
              PROVE  Sorts(Spelled(e), List(adapter, resource, sorts[e], total),
                           List(adapter, resource, BuildSortHref(ParseListParams(sorts[e]), Spelled(e)), total))
  BY <1>4
<1>5. PICK sorted, reversed :
        /\ sorted = List(adapter, resource, sorts[e], total)
        /\ reversed = List(adapter, resource, BuildSortHref(ParseListParams(sorts[e]), Spelled(e)), total)
  OBVIOUS
<1>6. PICK f : f = Spelled(e)
  OBVIOUS
<1>7. /\ IsList(f) /\ Linkable(f) /\ f \in SpelledNames(resource.columns)
      /\ sorts[e] = BuildSortHref(p, f)
  BY <1>1, <1>6
<1>8. PICK order \in Orders :
        /\ ParseListParams(sorts[e]) = Params(p.search, <<SortSpec(f, order)>>, 1, p.pageSize)
        /\ IsParams(Params(p.search, <<SortSpec(f, order)>>, 1, p.pageSize))
        /\ p.sort # <<>> /\ p.sort[1].field = f => order = Other(p.sort[1].order)
  BY <1>2, <1>7, SortLinks
<1>9. PICK m : m = Params(p.search, <<SortSpec(f, order)>>, 1, p.pageSize)
  OBVIOUS
<1>10. m.search = p.search /\ m.sort = <<SortSpec(f, order)>> /\ m.pageSize = p.pageSize
  BY <1>9 DEF Params
<1>11. PICK again \in Orders :
        /\ ParseListParams(BuildSortHref(m, f)) = Params(m.search, <<SortSpec(f, again)>>, 1, m.pageSize)
        /\ IsParams(Params(m.search, <<SortSpec(f, again)>>, 1, m.pageSize))
        /\ m.sort # <<>> /\ m.sort[1].field = f => again = Other(m.sort[1].order)
  BY <1>7, <1>8, <1>9, SortLinks
<1>12. again = Other(order)
  BY <1>10, <1>11 DEF SortSpec
<1>13. PICK l : l = Params(p.search, <<SortSpec(f, again)>>, 1, p.pageSize)
  OBVIOUS
<1>14. sorted = RunOf(adapter, resource, m, total) /\ reversed = RunOf(adapter, resource, l, total)
  <2>1. ParseListParams(sorts[e]) = m /\ IsParams(m)
    BY <1>8, <1>9
  <2>2. PICK link : link = BuildSortHref(m, f)
    OBVIOUS
  <2>3. ParseListParams(link) = l /\ IsParams(l)
    BY <1>10, <1>11, <1>13, <2>2
  <2>. QED  BY <1>5, <1>6, <2>1, <2>2, <2>3, ListRuns
<1>15. PICK fine, last : fine = (IsFine(adapter, resource, p.search, {f})
                                  /\ 0 <= Bound(adapter, total))
                         /\ last = InTheEnd(adapter, resource, {f})
  OBVIOUS
<1>16. sorted = RunRecord(fine, run.search, <<SortSpec(f, order)>> \o last, run.limit, 0)
  BY <1>2, <1>3, <1>9, <1>14, <1>15, SortedRun
<1>17. reversed = RunRecord(fine, run.search, <<SortSpec(f, again)>> \o last, run.limit, 0)
  BY <1>2, <1>3, <1>13, <1>14, <1>15, SortedRun
<1>18. PICK S : last \in Seq(S)
  BY <1>1, <1>15, TiesAreListed
<1>19. PICK by : by = <<SortSpec(f, order)>> \o last
  OBVIOUS
<1>20. /\ Head(by) = SortSpec(f, order) /\ by[1] = SortSpec(f, order)
       /\ FirstReversed(by) = <<SortSpec(f, again)>> \o last
  BY <1>12, <1>18, <1>19, FirstIsReversed
<1>21. /\ sorted.order = by /\ sorted.offset = 0 /\ sorted.limit = run.limit /\ sorted.search = run.search
  BY <1>16, <1>19 DEF RunRecord
<1>22. reversed = WithOrder(sorted, FirstReversed(sorted.order))
  <2>1. PICK search, limit, x : search = run.search /\ limit = run.limit /\ x = FirstReversed(by)
    OBVIOUS
  <2>2. WithOrder(RunRecord(fine, search, by, limit, 0), x) = RunRecord(fine, search, x, limit, 0)
    BY OrderReplaced
  <2>. QED  BY <1>16, <1>17, <1>19, <1>20, <1>21, <2>1, <2>2
<1>23. SortSpec(f, order).field = f /\ SortSpec(f, order).order = order
  BY DEF SortSpec
<1>24. p.sort # <<>> /\ p.sort[1].field = f => order # p.sort[1].order
  BY <1>8 DEF Other
<1>25. reversed = [sorted EXCEPT !.order = FirstReversed(@)]
  BY <1>22, Zenon DEF WithOrder
<1>26. ASSUME run.ok, adapter = "api" \/ PostgrestReads(f) PROVE sorted.ok
  <2>1. PICK kept : kept = SortFields(p.sort)
    OBVIOUS
  <2>2. PICK ok, limit, offset :
          /\ ok = IsFine(adapter, resource, p.search, kept)
          /\ limit = LimitOf(adapter, p.pageSize) /\ offset = (p.page - 1) * limit
    OBVIOUS
  <2>3. run.ok = (ok /\ offset <= Bound(adapter, total))
    <3>1. RunOf(adapter, resource, p, total).ok
            = (IsFine(adapter, resource, p.search, SortFields(p.sort))
                 /\ (p.page - 1) * LimitOf(adapter, p.pageSize) <= Bound(adapter, total))
      BY DEF RunOf
    <3>. QED  BY <1>2, <2>1, <2>2, <3>1
  <2>4. IsFine(adapter, resource, p.search, kept)
    BY <1>26, <2>2, <2>3
  <2>5. IsFine(adapter, resource, p.search, {f})
    <3>1. CASE adapter = "api"
      BY <1>7, <3>1 DEF IsFine
    <3>2. CASE adapter # "api"
      <4>1. /\ resource.schema = <<Head(resource.qualifiedName)>> /\ IsQuoted(resource, p.search)
            /\ SearchedOver(resource, p.search) \subseteq SpelledNames(resource.columns)
            /\ \A text \in SearchedOver(resource, p.search) : PostgrestReads(text)
        BY <2>4, <3>2 DEF IsFine
      <4>. QED  BY <1>7, <1>26, <3>2, <4>1 DEF IsFine
    <3>. QED  BY <3>1, <3>2
  <2>6. 0 <= Bound(adapter, total)
    <3>1. Bound(adapter, total) \in Nat
      BY <1>1, UrlsAssumption, PagesAssumption DEF Bound
    <3>. QED  BY <3>1
  <2>7. fine = TRUE
    <3>1. IsFine(adapter, resource, p.search, {f}) \in BOOLEAN
      BY DEF IsFine
    <3>. QED  BY <1>15, <2>5, <2>6, <3>1
  <2>8. sorted.ok = fine
    BY <1>16 DEF RunRecord
  <2>. QED  BY <2>7, <2>8
<1>27. Sorts(f, sorted, reversed)
  BY <1>20, <1>21, <1>23, <1>24, <1>25, <1>26
<1>. HIDE DEF Sorts
<1>. QED  BY <1>5, <1>27, <1>6

-----------------------------------------------------------------------------
(* What is searched, and where. *)

\* A value is read character by character.
LEMMA ReadFurther ==
    ASSUME NEW S, NEW v \in Seq(S), NEW x \in S
    PROVE  ReadQuoted(Append(v, x)) = ReadNext(ReadQuoted(v), x)
<1>1. PICK n, w : n \in Nat /\ n = Len(v) /\ w = Append(v, x)
  <2>1. Len(v) \in Nat
    OBVIOUS
  <2>. QED  BY <2>1
<1>2. /\ DOMAIN v = 1..n /\ DOMAIN w = 1..(n + 1) /\ n + 1 \in Nat
      /\ w[n + 1] = x /\ \A i \in 1..n : w[i] = v[i]
  BY <1>1
<1>3. PICK c : ReadThrough(v, n, c)
  BY <1>1, <1>2, ValueIsRead
<1>4. PICK m : m = n + 1
  OBVIOUS
<1>5. PICK e : ReadThrough(w, m, e)
  BY <1>2, <1>4, ValueIsRead
<1>. DEFINE Same == {k \in Nat : k <= n => e[k] = c[k]}
<1>6. 0 \in Same
  BY <1>3, <1>5 DEF ReadThrough
<1>7. ASSUME NEW k \in Nat, k \in Same PROVE k + 1 \in Same
  <2>. SUFFICES ASSUME k + 1 <= n PROVE e[k + 1] = c[k + 1]
    OBVIOUS
  <2>1. k + 1 \in 1..n /\ k + 1 \in 1..m /\ (k + 1) - 1 = k /\ e[k] = c[k]
    BY <1>1, <1>4, <1>7
  <2>2. e[k + 1] = ReadNext(e[k], w[k + 1]) /\ c[k + 1] = ReadNext(c[k], v[k + 1])
    BY <1>3, <1>5, <2>1 DEF ReadThrough
  <2>. QED  BY <1>2, <2>1, <2>2
<1>8. Nat \subseteq Same
  <2>. HIDE DEF Same
  <2>. QED  BY <1>6, <1>7, AllNaturals
<1>9. e[n] = c[n]
  BY <1>1, <1>8
<1>10. e[m] = ReadNext(e[n], x)
  <2>1. m \in 1..m /\ m - 1 = n
    BY <1>1, <1>4
  <2>. QED  BY <1>2, <1>4, <1>5, <2>1 DEF ReadThrough
<1>. QED  BY <1>1, <1>3, <1>5, <1>9, <1>10 DEF ReadThrough

\* The characters that quoting is made of differ.
LEMMA MarksDiffer == Quote # Backslash /\ Quote # "*" /\ Backslash # "*"
  BY Zenon DEF Quote, Backslash

\* Of nothing, nothing is read.
LEMMA NothingIsRead == ReadQuoted(<<>>) = Unread
<1>1. PICK v : v = <<>>
  OBVIOUS
<1>2. DOMAIN v = 1..0
  BY <1>1
<1>3. PICK c : ReadThrough(v, 0, c)
  BY <1>2, ValueIsRead
<1>4. ReadQuoted(v) = Unread
  BY <1>3 DEF ReadThrough
<1>. QED  BY <1>1, <1>4

\* How far a value is read, and what it says so far.
Reading(mode, text) == [mode |-> mode, text |-> text]

\* How one more character is read.
LEMMA ReadSteps ==
    ASSUME NEW text, NEW c
    PROVE  /\ ReadNext(Reading("start", text), Quote) = Reading("in", text)
           /\ ReadNext(Reading("in", text), Quote) = Reading("closed", text)
           /\ ReadNext(Reading("in", text), Backslash) = Reading("escape", text)
           /\ c \notin {Quote, Backslash} => ReadNext(Reading("in", text), c) = Reading("in", Append(text, c))
           /\ ReadNext(Reading("escape", text), c) = Reading("in", Append(text, c))
  BY MarksDiffer DEF ReadNext, Reading

\* A character that was written is read as that character.
LEMMA CharacterIsRead ==
    ASSUME NEW S, NEW v \in Seq(S), NEW c \in S, {Quote, Backslash} \subseteq S, NEW text,
           ReadQuoted(v) = Reading("in", text)
    PROVE  /\ WriteQuoted(v, c) \in Seq(S)
           /\ ReadQuoted(WriteQuoted(v, c)) = Reading("in", Append(text, c))
<1>1. CASE c \in {Quote, Backslash}
  <2>1. PICK b : b = Append(v, Backslash)
    OBVIOUS
  <2>2. b \in Seq(S)
    BY <2>1
  <2>3. WriteQuoted(v, c) = Append(b, c)
    BY <1>1, <2>1, Zenon DEF WriteQuoted
  <2>4. ReadQuoted(b) = Reading("escape", text)
    <3>1. ReadQuoted(Append(v, Backslash)) = ReadNext(ReadQuoted(v), Backslash)
      BY ReadFurther
    <3>. QED  BY <2>1, <3>1, ReadSteps
  <2>5. ReadQuoted(Append(b, c)) = ReadNext(ReadQuoted(b), c)
    BY <2>2, ReadFurther
  <2>6. ReadQuoted(Append(b, c)) = Reading("in", Append(text, c))
    BY <2>4, <2>5, ReadSteps
  <2>7. Append(b, c) \in Seq(S)
    BY <2>2
  <2>. QED  BY <2>3, <2>6, <2>7
<1>2. CASE c \notin {Quote, Backslash}
  <2>1. WriteQuoted(v, c) = Append(v, c)
    BY <1>2, Zenon DEF WriteQuoted
  <2>2. ReadQuoted(Append(v, c)) = ReadNext(ReadQuoted(v), c)
    BY ReadFurther
  <2>3. Append(v, c) \in Seq(S)
    OBVIOUS
  <2>. QED  BY <1>2, <2>1, <2>2, <2>3, ReadSteps
<1>. QED  BY <1>1, <1>2

\* PostgREST reads the term between two stars, whatever characters it has.
LEMMA QuotedIsRead ==
    ASSUME NEW term, IsList(term)
    PROVE  ReadQuoted(QuoteLikeValue(term)) = Reading("closed", <<"*">> \o term \o <<"*">>)
<1>1. PICK S : S = Range(term) \cup {Quote, Backslash, "*"}
  OBVIOUS
<1>2. term \in Seq(S)
  <2>1. Seq(Range(term)) \subseteq Seq(S)
    BY <1>1, SeqMonotonic
  <2>. QED  BY <2>1 DEF IsList
<1>3. PICK n \in Nat : n = Len(term) /\ DOMAIN term = 1..n
  BY <1>2
<1>4. PICK w : /\ w[0] = <<Quote, "*">>
               /\ \A k \in 1..n : w[k] = WriteQuoted(w[k - 1], term[k])
               /\ QuoteLikeValue(term) = w[n] \o <<"*", Quote>>
  BY <1>3, TermIsWritten
<1>5. PICK T : T = <<"*">> \o term
  OBVIOUS
<1>6. T \in Seq(S) /\ Len(T) = n + 1 /\ T[1] = "*" /\ \A k \in 1..n : T[k + 1] = term[k]
  BY <1>1, <1>2, <1>3, <1>5
<1>7. Quote \in S /\ Backslash \in S /\ "*" \in S
  BY <1>1
<1>. DEFINE Good == {k \in Nat : k <= n => /\ w[k] \in Seq(S)
                                           /\ ReadQuoted(w[k]) = Reading("in", SubSeq(T, 1, k + 1))}
<1>8. 0 \in Good
  <2>1. PICK empty, one, two : empty = <<>> /\ one = Append(empty, Quote) /\ two = Append(one, "*")
    OBVIOUS
  <2>2. empty \in Seq(S) /\ one \in Seq(S) /\ two \in Seq(S)
    BY <1>7, <2>1
  <2>3. w[0] = two
    BY <1>4, <2>1
  <2>4. ReadQuoted(empty) = Reading("start", <<>>)
    BY <2>1, NothingIsRead DEF Unread, Reading, Blank
  <2>5. ReadQuoted(one) = Reading("in", <<>>)
    <3>1. ReadQuoted(Append(empty, Quote)) = ReadNext(ReadQuoted(empty), Quote)
      BY <1>7, <2>2, ReadFurther
    <3>. QED  BY <2>1, <2>4, <3>1, ReadSteps
  <2>6. ReadQuoted(two) = Reading("in", Append(<<>>, "*"))
    <3>1. ReadQuoted(Append(one, "*")) = ReadNext(ReadQuoted(one), "*")
      BY <1>7, <2>2, ReadFurther
    <3>2. "*" \notin {Quote, Backslash}
      BY MarksDiffer
    <3>. QED  BY <2>1, <2>5, <3>1, <3>2, ReadSteps
  <2>7. SubSeq(T, 1, 0 + 1) = Append(<<>>, "*")
    <3>1. PICK t : t = SubSeq(T, 1, 0 + 1)
      OBVIOUS
    <3>2. t \in Seq(S) /\ Len(t) = 1 /\ t[1] = T[1]
      BY <1>6, <3>1, SubSeqProperties
    <3>3. t = <<T[1]>>
      BY <3>2
    <3>4. Append(<<>>, "*") = <<"*">>
      OBVIOUS
    <3>5. t = <<"*">>
      BY <1>6, <3>3
    <3>. QED  BY <3>1, <3>4, <3>5
  <2>. QED  BY <2>2, <2>3, <2>6, <2>7
<1>9. ASSUME NEW k \in Nat, k \in Good PROVE k + 1 \in Good
  <2>. SUFFICES ASSUME k + 1 <= n
                PROVE  /\ w[k + 1] \in Seq(S)
                       /\ ReadQuoted(w[k + 1]) = Reading("in", SubSeq(T, 1, (k + 1) + 1))
    OBVIOUS
  <2>1. PICK v, text, c : v = w[k] /\ text = SubSeq(T, 1, k + 1) /\ c = term[k + 1]
    OBVIOUS
  <2>2. v \in Seq(S) /\ ReadQuoted(v) = Reading("in", text)
    BY <1>9, <2>1
  <2>3. k + 1 \in 1..n /\ (k + 1) - 1 = k
    OBVIOUS
  <2>4. c \in S /\ w[k + 1] = WriteQuoted(v, c)
    BY <1>2, <1>3, <1>4, <2>1, <2>3
  <2>5. WriteQuoted(v, c) \in Seq(S) /\ ReadQuoted(WriteQuoted(v, c)) = Reading("in", Append(text, c))
    BY <1>7, <2>2, <2>4, CharacterIsRead
  <2>6. Append(text, c) = SubSeq(T, 1, (k + 1) + 1)
    <3>1. T[(k + 1) + 1] = c
      BY <1>6, <2>1, <2>3
    <3>. QED  BY <1>6, <2>1, <3>1
  <2>. QED  BY <2>4, <2>5, <2>6
<1>10. n \in Good
  <2>. HIDE DEF Good
  <2>. QED  BY <1>8, <1>9, AllNaturals
<1>11. w[n] \in Seq(S) /\ ReadQuoted(w[n]) = Reading("in", T)
  <2>1. SubSeq(T, 1, n + 1) = T
    BY <1>6, SubSeqFull
  <2>2. n <= n => w[n] \in Seq(S) /\ ReadQuoted(w[n]) = Reading("in", SubSeq(T, 1, n + 1))
    BY <1>10, Zenon
  <2>3. n <= n
    OBVIOUS
  <2>. QED  BY <2>1, <2>2, <2>3
<1>12. PICK v, one, two : v = w[n] /\ one = Append(v, "*") /\ two = Append(one, Quote)
  OBVIOUS
<1>13. v \in Seq(S) /\ one \in Seq(S)
  BY <1>7, <1>11, <1>12
<1>14. QuoteLikeValue(term) = two
  BY <1>4, <1>7, <1>12, <1>13
<1>15. ReadQuoted(one) = Reading("in", Append(T, "*"))
  <2>1. ReadQuoted(Append(v, "*")) = ReadNext(ReadQuoted(v), "*")
    BY <1>7, <1>13, ReadFurther
  <2>2. "*" \notin {Quote, Backslash}
    BY MarksDiffer
  <2>. QED  BY <1>11, <1>12, <2>1, <2>2, ReadSteps
<1>16. ReadQuoted(two) = Reading("closed", Append(T, "*"))
  <2>1. ReadQuoted(Append(one, Quote)) = ReadNext(ReadQuoted(one), Quote)
    BY <1>7, <1>13, ReadFurther
  <2>. QED  BY <1>12, <1>15, <2>1, ReadSteps
<1>17. Append(T, "*") = T \o <<"*">>
  BY <1>6, <1>7
<1>. QED  BY <1>5, <1>14, <1>16, <1>17

\* The relations that are introspected as views.
ViewKinds == {"view", "matview"}

\* What a resource tells of its relation that decides how it is listed.
ListsColumns(columns, r) ==
    /\ DOMAIN columns = DOMAIN r.columns
    /\ \A i \in DOMAIN r.columns :
         /\ columns[i].name = r.columns[i].name /\ columns[i].dataType = r.columns[i].types[1]
         /\ columns[i].type = r.columns[i].types[IF Len(r.columns[i].types) > 1 THEN 2 ELSE 1]

ListedOf(r, x) ==
    /\ x.qualifiedName = Flat(r) /\ x.schema = r.schema /\ ListsColumns(x.columns, r)
    /\ x.primaryKey \in {r.primaryKey, <<>>}
    /\ x.kind = "view" => r.kind \in ViewKinds

\* The types that the compiler takes for texts are those of PostgreSQL.
LEMMA TextsAreAlike == TextLikeBaseTypes = TextTypes /\ NoScalar \notin TextTypes
<1>1. TextLikeBaseTypes = TextTypes
  BY Zenon DEF TextLikeBaseTypes, TextTypes
<1>2. NoScalar \notin TextTypes
  BY Zenon DEF NoScalar, TextTypes
<1>. QED  BY <1>1, <1>2

\* The type that the compiler takes for the one a DOMAIN comes to.
Effective(c) == c.types[IF Len(c.types) > 1 THEN 2 ELSE 1]

\* Of the types of a column the last is the one of its values.
LEMMA TextIsLast ==
    ASSUME NEW c, IsTyped(c)
    PROVE  /\ c.types[1].array \in BOOLEAN /\ Effective(c).array \in BOOLEAN
           /\ c.types[1].base \in TextTypes => BaseType(c) = c.types[1] /\ Effective(c) = c.types[1]
           /\ Effective(c).base \in TextTypes => BaseType(c) = Effective(c)
<1>1. PICK types, S : types = c.types /\ S = Range(types)
  OBVIOUS
<1>2. types \in Seq(S) /\ types # <<>>
  BY <1>1 DEF IsTyped, IsList
<1>3. PICK n : n = Len(types)
  OBVIOUS
<1>4. n \in Nat /\ n >= 1 /\ DOMAIN types = 1..n
  BY <1>2, <1>3
<1>5. \A i \in 1..n : types[i].array \in BOOLEAN /\ (types[i].base \in TextTypes => i = n)
  BY <1>1, <1>3, <1>4 DEF IsTyped
<1>6. PICK e : e = IF n > 1 THEN 2 ELSE 1
  OBVIOUS
<1>7. e \in 1..n /\ 1 \in 1..n
  BY <1>4, <1>6
<1>8. Effective(c) = types[e] /\ BaseType(c) = types[n]
  BY <1>1, <1>3, <1>6, Zenon DEF Effective, BaseType, Last
<1>9. types[1].base \in TextTypes => n = 1 /\ e = 1
  BY <1>4, <1>5, <1>6, <1>7
<1>10. types[e].base \in TextTypes => e = n
  BY <1>5, <1>7
<1>. QED  BY <1>1, <1>5, <1>7, <1>8, <1>9, <1>10

\* The columns that a term is looked for in, and the relations that have some.
Fields(adapter, x) == IF adapter = "api" THEN SearchableColumns(x) ELSE PickSearchFields(x)

IsColumned(r) ==
    /\ IsIdentifier(r.schema) /\ IsIdentifier(r.name) /\ IsList(r.primaryKey) /\ IsList(r.columns)
    /\ \A column \in Range(r.columns) : IsIdentifier(column.name) /\ IsTyped(column)
    /\ \A i, j \in DOMAIN r.columns : r.columns[i].name = r.columns[j].name => i = j

\* The term is looked for in every plain text and only in what is taken for one.
LEMMA TextsAreSearched ==
    ASSUME NEW r, IsColumned(r), NEW x, ListedOf(r, x), x.kind \in {"table", "view"}, NEW adapter \in Adapters
    PROVE  /\ Fields(adapter, x) \subseteq Names(x.columns)
           /\ \A c \in Range(r.columns) : c.name \in Fields(adapter, x) =>
                 Likeable(c) \/ (adapter # "api" /\ TakenForText(r, c))
           /\ \A c \in Range(x.columns) :
                 c.widget \in {"text", "textarea"} /\ c.dataType.base \in TextTypes =>
                    c.dataType.array \/ c.name \in Fields(adapter, x)
<1>1. Range(x.columns) = {x.columns[i] : i \in DOMAIN x.columns} /\ Range(r.columns) = {r.columns[i] : i \in DOMAIN r.columns}
  BY DEF Range
<1>. DEFINE begins == TextLikeBaseTypes \cup Lookalikes \cup (IF x.kind = "view" THEN {"uuid"} ELSE {})
<1>2. SearchableColumns(x) = {c.name : c \in {y \in Range(x.columns) :
                                y.widget \in {"text", "textarea"} /\ IsTextLikeType(y.type)}}
  BY Zenon DEF SearchableColumns
<1>3. PickSearchFields(x) = {c.name : c \in {y \in Range(x.columns) : y.dataType.base \in begins}}
  BY Zenon DEF PickSearchFields
<1>4. PICK B : B = begins
  OBVIOUS
<1>5. \A b \in B : b \in TextTypes \/ b \in Lookalikes \/ (x.kind = "view" /\ b = "uuid")
  BY <1>4, TextsAreAlike
<1>6. TextTypes \subseteq B
  BY <1>4, TextsAreAlike
<1>7. \A type : type.array \in BOOLEAN => (IsTextLikeType(type) <=> ~type.array /\ type.base \in TextTypes)
  BY TextsAreAlike DEF IsTextLikeType, BaseScalarType
<1>. HIDE DEF begins
<1>8. Fields(adapter, x) \subseteq Names(x.columns)
  BY <1>1, <1>2, <1>3 DEF Fields, Names
<1>9. ASSUME NEW i \in DOMAIN r.columns
      PROVE  /\ i \in DOMAIN x.columns /\ IsTyped(r.columns[i])
             /\ x.columns[i].name = r.columns[i].name /\ x.columns[i].dataType = r.columns[i].types[1]
             /\ x.columns[i].type = Effective(r.columns[i])
  BY <1>1 DEF ListedOf, ListsColumns, IsColumned, Effective
<1>10. ASSUME NEW c \in Range(r.columns), c.name \in Fields(adapter, x)
       PROVE  Likeable(c) \/ (adapter # "api" /\ TakenForText(r, c))
  <2>1. PICK i \in DOMAIN r.columns : c = r.columns[i]
    BY <1>1
  <2>2. PICK y \in Range(x.columns) :
          /\ y.name = c.name
          /\ adapter = "api" => IsTextLikeType(y.type)
          /\ adapter # "api" => y.dataType.base \in B
    BY <1>2, <1>3, <1>4, <1>10 DEF Fields
  <2>3. PICK j \in DOMAIN x.columns : y = x.columns[j]
    BY <1>1
  <2>4. j \in DOMAIN r.columns
    BY DEF ListedOf, ListsColumns
  <2>5. i = j
    <3>1. r.columns[i].name = r.columns[j].name
      BY <1>9, <2>1, <2>2, <2>3, <2>4
    <3>. QED  BY <2>4, <3>1 DEF IsColumned
  <2>6. IsTyped(c) /\ y.dataType = c.types[1] /\ y.type = Effective(c)
    BY <1>9, <2>1, <2>3, <2>5
  <2>7. CASE adapter = "api"
    <3>1. ~Effective(c).array /\ Effective(c).base \in TextTypes
      BY <1>7, <2>2, <2>6, <2>7, TextIsLast
    <3>2. BaseType(c) = Effective(c)
      BY <2>6, <3>1, TextIsLast
    <3>. QED  BY <3>1, <3>2 DEF Likeable
  <2>8. CASE adapter # "api"
    <3>1. c.types[1].base \in TextTypes \/ c.types[1].base \in Lookalikes
            \/ (x.kind = "view" /\ c.types[1].base = "uuid")
      BY <1>5, <2>2, <2>6, <2>8
    <3>2. x.kind = "view" => r.kind # "table"
      BY DEF ListedOf, ViewKinds
    <3>3. c.types[1].base \in TextTypes => BaseType(c) = c.types[1]
      BY <2>6, TextIsLast
    <3>. QED  BY <2>8, <3>1, <3>2, <3>3 DEF Likeable, TakenForText
  <2>. QED  BY <2>7, <2>8
<1>11. ASSUME NEW c \in Range(x.columns), c.widget \in {"text", "textarea"}, c.dataType.base \in TextTypes
       PROVE  c.dataType.array \/ c.name \in Fields(adapter, x)
  <2>1. PICK i \in DOMAIN x.columns : c = x.columns[i]
    BY <1>1
  <2>2. i \in DOMAIN r.columns
    BY DEF ListedOf, ListsColumns
  <2>3. PICK column : column = r.columns[i]
    OBVIOUS
  <2>4. IsTyped(column) /\ c.dataType = column.types[1] /\ c.type = Effective(column)
    BY <1>9, <2>1, <2>2, <2>3
  <2>5. c.type = c.dataType /\ c.dataType.array \in BOOLEAN
    BY <1>11, <2>4, TextIsLast
  <2>6. CASE adapter = "api"
    BY <1>2, <1>7, <1>11, <2>5, <2>6 DEF Fields
  <2>7. CASE adapter # "api"
    BY <1>3, <1>4, <1>6, <1>11, <2>7 DEF Fields
  <2>. QED  BY <2>6, <2>7
<1>. QED  BY <1>8, <1>10, <1>11

\* Nothing is left of nothing.
LEMMA NothingIsTrimmed == Trim(Blank) = Blank
<1>1. PICK text : text = Blank
  OBVIOUS
<1>2. DOMAIN text = {}
  BY <1>1 DEF Blank
<1>3. {i \in DOMAIN text : text[i] # " "} = {}
  BY <1>2, Zenon
<1>. QED  BY <1>1, <1>3, Zenon DEF Trim

\* What is looked for, and where.
Searches(adapter, text) == IF adapter = "api" THEN Trim(text) # Blank ELSE text # Blank

SearchedIn(search) == IF search = <<>> THEN {} ELSE search[1].fields

\* PostgREST takes the two stars for the wildcards of a pattern.
LEMMA StarsAreWild ==
    ASSUME NEW text, IsList(text), "*" \notin Range(text)
    PROVE  LikePattern(<<"*">> \o text \o <<"*">>) = <<"%">> \o text \o <<"%">>
<1>1. PICK S : S = Range(text) \cup {"*", "%"}
  OBVIOUS
<1>2. text \in Seq(S)
  <2>1. Seq(Range(text)) \subseteq Seq(S)
    BY <1>1, SeqMonotonic
  <2>. QED  BY <2>1 DEF IsList
<1>3. PICK n \in Nat : n = Len(text)
  BY <1>2
<1>4. PICK a, b : a = <<"*">> \o text \o <<"*">> /\ b = <<"%">> \o text \o <<"%">>
  OBVIOUS
<1>5. /\ a \in Seq(S) /\ Len(a) = n + 2 /\ a[1] = "*" /\ a[n + 2] = "*"
      /\ b \in Seq(S) /\ Len(b) = n + 2 /\ b[1] = "%" /\ b[n + 2] = "%"
      /\ \A i \in 2..(n + 1) : a[i] = text[i - 1] /\ b[i] = text[i - 1]
  <2>1. PICK one, two : one = <<"*">> \o text /\ two = <<"%">> \o text
    OBVIOUS
  <2>2. /\ one \in Seq(S) /\ Len(one) = n + 1 /\ one[1] = "*"
        /\ two \in Seq(S) /\ Len(two) = n + 1 /\ two[1] = "%"
        /\ \A i \in 2..(n + 1) : one[i] = text[i - 1] /\ two[i] = text[i - 1]
    BY <1>1, <1>2, <1>3, <2>1
  <2>3. a = one \o <<"*">> /\ b = two \o <<"%">>
    BY <1>4, <2>1
  <2>. QED  BY <1>1, <2>2, <2>3
<1>6. PICK m : m = n + 2
  OBVIOUS
<1>7. DOMAIN a = 1..m /\ DOMAIN b = 1..m
  BY <1>5, <1>6
<1>8. ASSUME NEW i \in 1..m PROVE (IF a[i] = "*" THEN "%" ELSE a[i]) = b[i]
  <2>1. CASE i = 1 \/ i = m
    BY <1>5, <1>6, <2>1
  <2>2. CASE i \in 2..(n + 1)
    <3>1. a[i] = text[i - 1] /\ b[i] = text[i - 1] /\ i - 1 \in 1..n
      BY <1>5, <2>2
    <3>2. text[i - 1] \in Range(text)
      BY <1>2, <1>3, <3>1 DEF Range
    <3>. QED  BY <3>1, <3>2
  <2>3. i = 1 \/ i = m \/ i \in 2..(n + 1)
    BY <1>3, <1>6
  <2>. QED  BY <2>1, <2>2, <2>3
<1>9. LikePattern(a) = [i \in 1..m |-> IF a[i] = "*" THEN "%" ELSE a[i]]
  BY <1>7 DEF LikePattern
<1>10. b = [i \in 1..m |-> b[i]]
  <2>1. b \in Seq(S)
    BY <1>5
  <2>2. PICK k \in Nat : DOMAIN b = 1..k /\ b = [i \in 1..k |-> b[i]]
    BY <2>1
  <2>. QED  BY <1>7, <2>2
<1>. QED  BY <1>4, <1>8, <1>9, <1>10

\* The pattern of a search is the term between wildcards.
AsItStands(search, text) ==
    SearchedIn(search) # {} /\ "*" \notin Range(text) /\ Trim(text) = text =>
        search[1].pattern = <<"%">> \o text \o <<"%">>

\* The term is looked for as it stands.
LEMMA SearchIsAsAsked ==
    ASSUME NEW adapter \in Adapters, NEW x, NEW text, IsList(text), NEW search,
           search = SearchOver(adapter, x, text)
    PROVE  /\ SearchedIn(search) \subseteq Fields(adapter, x)
           /\ Searches(adapter, text) => SearchedIn(search) = Fields(adapter, x)
           /\ AsItStands(search, text)
<1>1. PICK fields, wanted, trimmed, value :
        /\ fields = Fields(adapter, x) /\ wanted = Searches(adapter, text)
        /\ trimmed = Trim(text) /\ value = ReadQuoted(QuoteLikeValue(text))
  OBVIOUS
<1>2. PICK pattern : pattern = IF adapter = "api" THEN <<"%">> \o trimmed \o <<"%">> ELSE LikePattern(value.text)
  OBVIOUS
<1>3. PICK by : by = [fields |-> fields, pattern |-> pattern]
  OBVIOUS
<1>4. search = IF wanted /\ fields # {} THEN <<by>> ELSE <<>>
  <2>1. CASE adapter = "api"
    BY <1>1, <1>2, <1>3, <2>1, Zenon DEF SearchOver, Fields, Searches
  <2>2. CASE adapter # "api"
    BY <1>1, <1>2, <1>3, <2>2, Zenon DEF SearchOver, Fields, Searches
  <2>. QED  BY <2>1, <2>2
<1>5. by.fields = fields /\ by.pattern = pattern /\ <<by>> # <<>> /\ <<by>>[1] = by
  BY <1>3
<1>6. SearchedIn(search) = IF wanted THEN fields ELSE {}
  BY <1>4, <1>5 DEF SearchedIn
<1>7. ASSUME SearchedIn(search) # {}, "*" \notin Range(text), trimmed = text
      PROVE  search[1].pattern = <<"%">> \o text \o <<"%">>
  <2>1. search[1] = by
    BY <1>4, <1>5, <1>7 DEF SearchedIn
  <2>2. pattern = <<"%">> \o text \o <<"%">>
    <3>1. CASE adapter = "api"
      BY <1>2, <1>7, <3>1
    <3>2. CASE adapter # "api"
      <4>1. value.text = <<"*">> \o text \o <<"*">>
        BY <1>1, QuotedIsRead DEF Reading
      <4>. QED  BY <1>2, <1>7, <3>2, <4>1, StarsAreWild
    <3>. QED  BY <3>1, <3>2
  <2>. QED  BY <1>5, <2>1, <2>2
<1>8. AsItStands(search, text)
  BY <1>1, <1>7, Zenon DEF AsItStands
<1>. QED  BY <1>1, <1>6, <1>8

-----------------------------------------------------------------------------
(* What is run for a URL is what it asks for. *)

\* The schema of a resource is cut off short only at a dot.
LEMMA DotsInSchema ==
    ASSUME NEW r, IsColumned(r), NEW x, ListedOf(r, x), x.schema # <<Head(x.qualifiedName)>>
    PROVE  HasDot(r.schema)
<1>1. PICK schema, name, S : schema = r.schema /\ name = r.name /\ S = Range(schema) \cup Range(name)
  OBVIOUS
<1>2. schema \in Seq(S) /\ name \in Seq(S) /\ schema # <<>>
  <2>1. Seq(Range(schema)) \subseteq Seq(S) /\ Seq(Range(name)) \subseteq Seq(S)
    BY <1>1, SeqMonotonic
  <2>. QED  BY <1>1, <2>1 DEF IsColumned, IsIdentifier, IsList
<1>3. x.schema = schema /\ x.qualifiedName = schema \o name
  BY <1>1 DEF ListedOf, Flat
<1>4. Head(schema \o name) = schema[1]
  BY <1>2
<1>5. Len(schema) = 1 => schema = <<schema[1]>>
  BY <1>2
<1>6. Len(schema) \in Nat \ {0}
  BY <1>2
<1>7. PICK first : first = schema[1]
  OBVIOUS
<1>8. schema # <<first>>
  BY <1>3, <1>4, <1>7
<1>9. Len(schema) # 1
  BY <1>5, <1>7, <1>8
<1>10. Len(schema) > 1
  <2>1. PICK n : n = Len(schema)
    OBVIOUS
  <2>2. n \in Nat /\ n # 0 /\ n # 1
    BY <1>6, <1>9, <2>1
  <2>. QED  BY <2>1, <2>2
<1>. QED  BY <1>1, <1>10 DEF HasDot

\* A list fails only as it may.
LEMMA ListsFail ==
    ASSUME NEW r, IsColumned(r), NEW x, ListedOf(r, x), x.kind \in {"table", "view"},
           NEW adapter \in Adapters, NEW p, IsParams(p), IsList(p.search), NEW total \in Nat,
           NEW run, run = RunOf(adapter, x, p, total), ~run.ok, NEW sorted, sorted = SortFields(p.sort)
    PROVE  \/ ~(sorted \subseteq SpelledNames(x.columns))
           \/ run.offset > Bound(adapter, total)
           \/ adapter # "api" /\ HasDot(r.schema)
           \/ adapter # "api" /\ \E text \in sorted \cup {Spelled(n) : n \in SearchedIn(run.search)} : ~PostgrestReads(text)
<1>1. PICK fine, limit, offset :
        /\ fine = IsFine(adapter, x, p.search, sorted)
        /\ limit = LimitOf(adapter, p.pageSize) /\ offset = (p.page - 1) * limit
  OBVIOUS
<1>2. /\ run.offset = offset /\ run.search = SearchOver(adapter, x, p.search)
      /\ run.ok = (fine /\ offset <= Bound(adapter, total))
  <2>1. PICK whole : whole = RunOf(adapter, x, p, total)
    OBVIOUS
  <2>2. /\ whole.offset = (p.page - 1) * LimitOf(adapter, p.pageSize) /\ whole.search = SearchOver(adapter, x, p.search)
        /\ whole.ok = (IsFine(adapter, x, p.search, SortFields(p.sort))
                         /\ (p.page - 1) * LimitOf(adapter, p.pageSize) <= Bound(adapter, total))
    BY <2>1 DEF RunOf
  <2>. QED  BY <1>1, <2>1, <2>2
<1>3. offset \in Nat /\ Bound(adapter, total) \in Nat
  <2>1. limit \in Nat /\ p.page \in Nat \ {0}
    BY <1>1, PagesAssumption DEF LimitOf, IsParams
  <2>2. PICK before : before = p.page - 1
    OBVIOUS
  <2>3. before \in Nat /\ offset = before * limit
    BY <1>1, <2>1, <2>2
  <2>4. offset \in Nat
    BY <2>1, <2>3
  <2>5. Bound(adapter, total) \in Nat
    BY PagesAssumption DEF Bound
  <2>. QED  BY <2>4, <2>5
<1>4. ~(fine /\ offset <= Bound(adapter, total))
  BY <1>2
<1>5. PICK fields : fields = Fields(adapter, x)
  OBVIOUS
<1>6. fields \subseteq Names(x.columns)
  BY <1>5, TextsAreSearched
<1>7. Searches(adapter, p.search) => SearchedIn(run.search) = fields
  <2>1. PICK text, search : text = p.search /\ search = run.search
    OBVIOUS
  <2>. QED  BY <1>2, <1>5, <2>1, SearchIsAsAsked
<1>8. CASE adapter = "api"
  <2>1. fine <=> sorted \subseteq SpelledNames(x.columns)
    BY <1>1, <1>8 DEF IsFine
  <2>. QED  BY <1>2, <1>3, <1>4, <1>8, <2>1
<1>9. CASE adapter # "api"
  <2>. SUFFICES ASSUME ~(run.offset > Bound(adapter, total))
                PROVE  \/ ~(sorted \subseteq SpelledNames(x.columns)) \/ HasDot(r.schema)
                       \/ \E text \in sorted \cup {Spelled(n) : n \in SearchedIn(run.search)} : ~PostgrestReads(text)
    BY <1>9
  <2>1. ~fine
    BY <1>2, <1>3, <1>4
  <2>2. PICK searched : searched = SearchedOver(x, p.search)
    OBVIOUS
  <2>3. ~(/\ x.schema = <<Head(x.qualifiedName)>> /\ sorted \cup searched \subseteq SpelledNames(x.columns)
          /\ \A text \in sorted \cup searched : PostgrestReads(text)
          /\ IsQuoted(x, p.search))
    BY <1>1, <1>9, <2>1, <2>2, Zenon DEF IsFine
  <2>4. IsQuoted(x, p.search)
    <3>1. PICK text : text = p.search
      OBVIOUS
    <3>2. ReadQuoted(QuoteLikeValue(text)).mode = "closed"
      BY <3>1, QuotedIsRead DEF Reading
    <3>. QED  BY <3>1, <3>2 DEF IsQuoted
  <2>5. fields = PickSearchFields(x)
    BY <1>5, <1>9 DEF Fields
  <2>6. searched \subseteq {Spelled(n) : n \in SearchedIn(run.search)}
    BY <1>7, <1>9, <2>2, <2>5 DEF SearchedOver, Searches
  <2>7. searched \subseteq SpelledNames(x.columns)
    BY <1>6, <2>2, <2>5 DEF SearchedOver, SpelledNames
  <2>8. x.schema # <<Head(x.qualifiedName)>> => HasDot(r.schema)
    BY DotsInSchema
  <2>. QED  BY <2>3, <2>4, <2>6, <2>7, <2>8
<1>. QED  BY <1>8, <1>9

\* A list is ordered as asked, then by what is left of the primary key.
LEMMA OrderIsAsAsked ==
    ASSUME NEW adapter, NEW x, IsList(x.primaryKey), NEW p, IsParams(p), NEW total,
           NEW run, run = RunOf(adapter, x, p, total)
    PROVE  /\ IsPrefix(p.sort, run.order)
           /\ adapter = "api" => KeyTexts(x) \subseteq SortFields(run.order)
<1>1. PICK sort, sorted, last : sort = p.sort /\ sorted = SortFields(sort) /\ last = InTheEnd(adapter, x, sorted)
  OBVIOUS
<1>2. run.order = sort \o last
  BY <1>1, Zenon DEF RunOf
<1>3. PICK S : last \in Seq(S)
  BY <1>1, TiesAreListed
<1>4. PICK T : T = Range(sort) \cup S
  OBVIOUS
<1>5. sort \in Seq(T) /\ last \in Seq(T)
  <2>1. Seq(Range(sort)) \subseteq Seq(T) /\ Seq(S) \subseteq Seq(T)
    BY <1>4, SeqMonotonic
  <2>. QED  BY <1>1, <1>3, <2>1 DEF IsParams, IsSort, IsList
<1>6. PICK m, n : m \in Nat /\ n \in Nat /\ m = Len(sort) /\ n = Len(last)
  <2>1. Len(sort) \in Nat /\ Len(last) \in Nat
    BY <1>5
  <2>. QED  BY <2>1
<1>7. PICK order : order = sort \o last
  OBVIOUS
<1>8. /\ order \in Seq(T) /\ Len(order) = m + n
      /\ \A i \in 1..m : order[i] = sort[i]
      /\ \A i \in 1..n : order[m + i] = last[i]
  BY <1>5, <1>6, <1>7
<1>9. IsPrefix(sort, order)
  <2>1. Len(sort) <= Len(order)
    BY <1>6, <1>8
  <2>2. SubSeq(sort, 1, Len(sort)) = sort
    BY <1>5, SubSeqFull
  <2>3. SubSeq(order, 1, Len(sort)) = sort
    <3>1. PICK s : s = SubSeq(order, 1, m)
      OBVIOUS
    <3>2. s \in Seq(T) /\ Len(s) = m /\ \A i \in 1..m : s[i] = sort[i]
      BY <1>6, <1>8, <3>1
    <3>3. s = sort
      BY <1>5, <1>6, <3>2
    <3>. QED  BY <1>6, <3>1, <3>3
  <2>. QED  BY <2>1, <2>2, <2>3 DEF IsPrefix
<1>10. Range(sort) \subseteq Range(order) /\ Range(last) \subseteq Range(order)
  <2>1. DOMAIN sort = 1..m /\ DOMAIN last = 1..n /\ DOMAIN order = 1..(m + n)
    BY <1>5, <1>6, <1>8
  <2>2. \A i \in 1..m : i \in 1..(m + n) /\ order[i] = sort[i]
    BY <1>6, <1>8
  <2>3. \A i \in 1..n : m + i \in 1..(m + n) /\ order[m + i] = last[i]
    BY <1>6, <1>8
  <2>. QED  BY <2>1, <2>2, <2>3 DEF Range
<1>11. ASSUME adapter = "api" PROVE KeyTexts(x) \subseteq SortFields(order)
  <2>1. SortFields(last) = KeyTexts(x) \ sorted
    BY <1>1, <1>11, TiesAreListed
  <2>2. SortFields(sort) \subseteq SortFields(order) /\ SortFields(last) \subseteq SortFields(order)
    BY <1>10 DEF SortFields
  <2>. QED  BY <1>1, <2>1, <2>2
<1>. QED  BY <1>1, <1>2, <1>7, <1>9, <1>11

\* What is run for a list is what its URL asks for.
LEMMA ListsRunAsAsked ==
    ASSUME NEW r, IsColumned(r), NEW q, ListedOf(r, q.resource), q.resource.kind \in {"table", "view"},
           q.adapter \in Adapters, q.url \in Urls, q.total \in Totals,
           NEW run, run = List(q.adapter, q.resource, q.url, q.total)
    PROVE  RunsAsAsked(r, q, run)
<1>1. PICK p, adapter, x, text, total :
        p = ParseListParams(q.url) /\ adapter = q.adapter /\ x = q.resource /\ text = q.url.q /\ total = q.total
  OBVIOUS
<1>2. IsParams(p) /\ p.search = text /\ IsList(text) /\ run = RunOf(adapter, x, p, total) /\ total \in Nat
  <2>1. IsParams(p) /\ p.search = text /\ IsList(text) /\ total \in Nat
    BY <1>1, UrlIsParsed, UrlsAssumption
  <2>2. List(adapter, x, q.url, total) = RunOf(adapter, x, ParseListParams(q.url), total)
    BY <1>1, <2>1, ListRuns
  <2>. QED  BY <1>1, <2>1, <2>2
<1>3. PICK sorted : sorted = {p.sort[i].field : i \in DOMAIN p.sort}
  OBVIOUS
<1>4. sorted = SortFields(p.sort)
  BY <1>3 DEF SortFields, Range
<1>5. PICK searched : searched = SearchedIn(run.search)
  OBVIOUS
<1>6. PICK ordered : ordered = {run.order[i].field : i \in DOMAIN run.order}
  OBVIOUS
<1>. DEFINE Fails == \/ ~(sorted \subseteq SpelledNames(x.columns))
                     \/ run.offset > (IF adapter = "api" THEN MAX_SAFE_INTEGER ELSE total)
                     \/ ~(adapter = "api") /\ HasDot(r.schema)
                     \/ ~(adapter = "api") /\ \E t \in sorted \cup {Spelled(n) : n \in searched} : ~PostgrestReads(t)
            Fair == \A c \in Range(r.columns) : c.name \in searched =>
                       Likeable(c) \/ (~(adapter = "api") /\ TakenForText(r, c))
            Ordered == /\ IsPrefix(p.sort, run.order)
                       /\ adapter = "api" => \A n \in Range(x.primaryKey) : Spelled(n) \in ordered
            plain == {c \in Range(x.columns) : c.widget \in {"text", "textarea"} /\ c.dataType.base \in TextTypes}
            Found == Trim(text) # Blank =>
                       /\ \A c \in plain : c.dataType.array \/ c.name \in searched
                       /\ searched # {} /\ "*" \notin Range(text) /\ Trim(text) = text =>
                             run.search[1].pattern = <<"%">> \o text \o <<"%">>
<1>7. (~run.ok => Fails) /\ (run.ok => Fair /\ Ordered /\ Found) => RunsAsAsked(r, q, run)
  BY <1>1, <1>3, <1>5, <1>6, Zenon DEF RunsAsAsked, SearchedIn
<1>8. ~run.ok => Fails
  BY <1>1, <1>2, <1>4, <1>5, ListsFail DEF Bound
<1>9. PICK fields : fields = Fields(adapter, x)
  OBVIOUS
<1>10. searched \subseteq fields /\ (Searches(adapter, text) => searched = fields) /\ AsItStands(run.search, text)
  <2>1. PICK search : search = run.search
    OBVIOUS
  <2>2. search = SearchOver(adapter, x, text)
    BY <1>2, <2>1 DEF RunOf
  <2>3. adapter \in Adapters
    BY <1>1
  <2>. QED  BY <1>2, <1>5, <1>9, <2>1, <2>2, <2>3, SearchIsAsAsked
<1>11. /\ \A c \in Range(r.columns) : c.name \in fields =>
             Likeable(c) \/ (adapter # "api" /\ TakenForText(r, c))
       /\ \A c \in Range(x.columns) :
             c.widget \in {"text", "textarea"} /\ c.dataType.base \in TextTypes =>
                c.dataType.array \/ c.name \in fields
  BY <1>1, <1>9, TextsAreSearched
<1>12. Fair
  <2>1. ASSUME NEW c \in Range(r.columns), c.name \in searched
        PROVE  Likeable(c) \/ (~(adapter = "api") /\ TakenForText(r, c))
    <3>1. c.name \in fields
      BY <1>10, <2>1
    <3>. QED  BY <1>11, <3>1, Zenon
  <2>. QED  BY <2>1, Zenon
<1>13. Ordered
  <2>1. IsList(x.primaryKey)
    <3>1. IsList(<<>>)
      BY DEF IsList
    <3>. QED  BY <1>1, <3>1 DEF ListedOf, IsColumned
  <2>2. IsPrefix(p.sort, run.order)
    BY <1>2, <2>1, OrderIsAsAsked
  <2>3. adapter = "api" => KeyTexts(x) \subseteq SortFields(run.order)
    BY <1>2, <2>1, OrderIsAsAsked
  <2>4. SortFields(run.order) = ordered
    BY <1>6 DEF Range, SortFields
  <2>. QED  BY <2>2, <2>3, <2>4 DEF KeyTexts
<1>14. Trim(text) # Blank => Searches(adapter, text)
  BY NothingIsTrimmed DEF Searches
<1>15. Found
  <2>1. ASSUME Trim(text) # Blank PROVE searched = fields
    BY <1>10, <1>14, <2>1
  <2>2. ASSUME Trim(text) # Blank, NEW c \in plain PROVE c.dataType.array \/ c.name \in searched
    <3>1. c \in Range(x.columns) /\ c.widget \in {"text", "textarea"} /\ c.dataType.base \in TextTypes
      BY <2>2, Zenon
    <3>2. c.dataType.array \/ c.name \in fields
      BY <1>11, <3>1, Zenon
    <3>. QED  BY <2>1, <2>2, <3>2
  <2>3. searched # {} /\ "*" \notin Range(text) /\ Trim(text) = text =>
          run.search[1].pattern = <<"%">> \o text \o <<"%">>
    BY <1>5, <1>10, Zenon DEF AsItStands
  <2>. QED  BY <2>2, <2>3, Zenon
<1>. HIDE DEF Fails, Fair, Ordered, Found
<1>. QED  BY <1>7, <1>8, <1>12, <1>13, <1>15

\* The columns that are shown are columns of the resource.
LEMMA DisplayedAreNamed ==
    ASSUME NEW c, NEW x, NEW n \in Nat, DOMAIN x.columns = 1..n, NEW f \in Range(DisplayColumns(c, x))
    PROVE  f \in Names(x.columns)
<1>. DEFINE names == [i \in DOMAIN x.columns |-> x.columns[i].name]
            shown == UNION {{t.displayField} : t \in {y \in c.tables :
                                y.qualifiedName = x.qualifiedName /\ x.kind = "table"}}
<1>1. PICK front, back : front = Keep(names, shown) /\ back = Keep(names, Range(names) \ shown)
  OBVIOUS
<1>2. DisplayColumns(c, x) = SubSeq(front \o back, 1, Min({DISPLAY_COLUMN_LIMIT, Len(front \o back)}))
  BY <1>1, Zenon DEF DisplayColumns
<1>3. PICK list : list = names
  OBVIOUS
<1>4. DOMAIN list = 1..n /\ Range(list) = Names(x.columns)
  BY <1>3 DEF Range, Names
<1>5. PICK S : S = Names(x.columns)
  OBVIOUS
<1>6. ASSUME NEW T PROVE Keep(list, T) \in Seq(S)
  <2>1. PICK kept : kept = Keep(list, T)
    OBVIOUS
  <2>2. (\E m \in Nat : DOMAIN kept = 1..m) /\ Range(kept) \subseteq S
    BY <1>4, <1>5, <2>1, KeptElements
  <2>3. kept = [k \in DOMAIN kept |-> kept[k]]
    BY <2>1 DEF Keep, Selected
  <2>4. \A k \in DOMAIN kept : kept[k] \in S
    BY <2>2 DEF Range
  <2>. QED  BY <2>1, <2>2, <2>3, <2>4
<1>. HIDE DEF names, shown
<1>7. front \in Seq(S) /\ back \in Seq(S)
  BY <1>1, <1>3, <1>6
<1>8. PICK ordered, m : ordered = front \o back /\ m = Len(ordered)
  OBVIOUS
<1>9. ordered \in Seq(S) /\ m \in Nat
  BY <1>7, <1>8
<1>10. PICK k : k = Min({DISPLAY_COLUMN_LIMIT, m})
  OBVIOUS
<1>11. k \in Nat /\ k <= m
  BY <1>9, <1>10, SmallerOfTwo, PagesAssumption
<1>12. PICK cut : cut = SubSeq(ordered, 1, k)
  OBVIOUS
<1>13. cut \in Seq(S)
  BY <1>8, <1>9, <1>11, <1>12
<1>14. f \in Range(cut)
  BY <1>2, <1>8, <1>10, <1>12
<1>. QED  BY <1>5, <1>13, <1>14 DEF Range

\* A name can be written.
SpellingCharacters == UNION {Range(Spelling[word]) : word \in DOMAIN Spelling}
LEMMA NameIsSpelled ==
    ASSUME NEW name, IsIdentifier(name)
    PROVE  IsList(Spelled(name))
<1>1. PICK n \in Nat : DOMAIN name = 1..n
  BY LenProperties DEF IsIdentifier, IsList
<1>2. PICK dot : dot = "."
  OBVIOUS
<1>3. PICK C : C = Range(name) \cup SpellingCharacters \cup {dot}
  OBVIOUS
<1>4. dot \in C /\ Range(name) \subseteq C /\ \A w \in DOMAIN Spelling : Range(Spelling[w]) \subseteq C
  BY <1>3 DEF SpellingCharacters
<1>5. ASSUME NEW i \in 1..n PROVE Letters(name[i]) \in Seq(C)
  <2>1. PICK word : word = name[i]
    OBVIOUS
  <2>2. word \in C
    BY <1>1, <1>4, <2>1 DEF Range
  <2>3. CASE word \in DOMAIN Spelling
    <3>1. PICK text, S : text = Spelling[word] /\ S = Range(text)
      OBVIOUS
    <3>2. text \in Seq(S) /\ S \subseteq C
      BY <1>4, <2>3, <3>1, PagesAssumption
    <3>3. text \in Seq(C)
      BY <3>2, SeqMonotonic
    <3>. QED  BY <2>1, <2>3, <3>1, <3>3 DEF Letters
  <2>4. CASE word \notin DOMAIN Spelling
    <3>1. <<word>> \in Seq(C)
      BY <2>2
    <3>. QED  BY <2>1, <2>4, <3>1 DEF Letters
  <2>. QED  BY <2>3, <2>4
<1>6. PICK parts : parts = [i \in 1..n |-> Letters(name[i])]
  OBVIOUS
<1>7. parts \in [1..n -> Seq(C)]
  BY <1>5, <1>6
<1>8. Joined(parts, dot) \in Seq(C)
  BY <1>4, <1>7, JoinedTexts
<1>9. Spelled(name) = Joined(parts, dot)
  BY <1>1, <1>2, <1>6, Zenon DEF Spelled
<1>. QED  BY <1>8, <1>9, OwnCharacters
================================================================================
