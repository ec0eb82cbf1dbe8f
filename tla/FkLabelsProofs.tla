---------------------------- MODULE FkLabelsProofs ----------------------------
(***************************************************************************)
(* For any tables, pages, renders and lifetime: the row cache of the Admin *)
(* UI keeps the promise of RecentReads, and the labels of a page name the  *)
(* rows its foreign keys reference.  For any choice of rows: the relation  *)
(* picker lists the selected one and drops late answers.                   *)
(***************************************************************************)
EXTENDS FkLabels, RelationPicker, FiniteSetTheorems, NaturalsInduction,
        WellFoundedInduction, SequenceTheorems, TLAPS

\* What the row of k said from the instant t on, failed reads of it included.
HeardSince(k, t) == UNION {said[k][u] : u \in t..now}

Typed ==
    /\ now \in Nat
    /\ db \in [Keys -> Said]
    /\ said \in [Keys -> [0..now -> SUBSET Said]]
    /\ entries \in [Keys -> SUBSET [row : Said, fetchedAt : 0..now]]
    /\ lookup = [l \in Lookups |-> lookup[l]]

SaysWhatItHolds == \A k \in Keys : db[k] \in said[k][now]

\* A cached row was heard after the instant its entry is stamped with.
EntryInv(k) == \A e \in entries[k] : e.row \in HeardSince(k, e.fetchedAt)

\* So was a row on its way back, after the lookup began.
LookupInv(l) ==
    LET x == lookup[l] IN
    \/ x = Unasked
    \/ /\ x.key \in Keys /\ x.since \in 0..now
       /\ \/ x = [state |-> "asked", key |-> x.key, since |-> x.since]
          \/ /\ x.state = "read"
             /\ x = [state |-> "read", key |-> x.key, since |-> x.since, row |-> x.row]
             /\ x.row \in Said \cap HeardSince(x.key, x.since)
          \/ /\ x.state = "answered"
             /\ x = Answered(x.key, x.since, x.answer)
             /\ x.answer \in Promise!RecentlySaid(x.key, x.since)

IInv ==
    /\ Typed /\ SaysWhatItHolds
    /\ \A k \in Keys : EntryInv(k)
    /\ \A l \in Lookups : LookupInv(l)

-----------------------------------------------------------------------------
\* What was heard is still known when history only grows.
Grows ==
    /\ now' \in Nat /\ now <= now'
    /\ \A k \in Keys : \A u \in 0..now : said[k][u] \subseteq said'[k][u]

LEMMA HeardStays ==
  ASSUME Typed, Grows, NEW k \in Keys, NEW t \in 0..now
  PROVE  HeardSince(k, t) \subseteq HeardSince(k, t)'
<1>. SUFFICES ASSUME NEW u \in t..now
              PROVE  u \in t..now' /\ said[k][u] \subseteq said'[k][u]
  BY DEF HeardSince
<1>1. t \in Nat /\ now \in Nat
  BY DEF Typed
<1>. QED  BY <1>1 DEF Grows

LEMMA EntryStays ==
  ASSUME Typed, Grows, NEW k \in Keys, EntryInv(k), entries'[k] = entries[k]
  PROVE  EntryInv(k)'
<1>. SUFFICES ASSUME NEW e \in entries[k] PROVE e.row \in HeardSince(k, e.fetchedAt)'
  BY DEF EntryInv
<1>1. e.fetchedAt \in 0..now
  BY DEF Typed
<1>. QED  BY <1>1, HeardStays DEF EntryInv

LEMMA RecentStays ==
  ASSUME Typed, Grows, NEW k \in Keys, NEW t \in Nat
  PROVE  Promise!RecentlySaid(k, t) \subseteq Promise!RecentlySaid(k, t)'
<1>. SUFFICES ASSUME NEW u \in 0..now, u + TtlMs > t
              PROVE  u \in 0..now' /\ said[k][u] \subseteq said'[k][u]
  BY DEF Promise!RecentlySaid
<1>. QED  BY DEF Grows, Typed

LEMMA LookupStays ==
  ASSUME Typed, Grows, NEW l \in Lookups, LookupInv(l), lookup'[l] = lookup[l]
  PROVE  LookupInv(l)'
<1>1. ASSUME lookup[l].key \in Keys, lookup[l].since \in 0..now
      PROVE  /\ lookup[l].since \in 0..now'
             /\ HeardSince(lookup[l].key, lookup[l].since)
                  \subseteq HeardSince(lookup[l].key, lookup[l].since)'
             /\ Promise!RecentlySaid(lookup[l].key, lookup[l].since)
                  \subseteq Promise!RecentlySaid(lookup[l].key, lookup[l].since)'
  BY <1>1, HeardStays, RecentStays DEF Grows, Typed
<1>. QED  BY <1>1 DEF LookupInv

\* What is heard in this instant was heard since any earlier one.
LEMMA HeardNow ==
  ASSUME NEW k, NEW t \in 0..now, now \in Nat, NEW v \in said[k][now]
  PROVE  v \in HeardSince(k, t)
<1>1. now \in t..now
  OBVIOUS
<1>. QED  BY <1>1 DEF HeardSince

\* What was heard since t may answer a question of any time up to that lifetime later.
LEMMA HeardIsRecent ==
  ASSUME now \in Nat, NEW k \in Keys, NEW t \in 0..now, NEW s \in 0..now, s - t < TtlMs,
         NEW v \in HeardSince(k, t)
  PROVE  v \in Promise!RecentlySaid(k, s)
<1>1. PICK u \in t..now : v \in said[k][u]
  BY DEF HeardSince
<1>2. u \in 0..now /\ u + TtlMs > s
  BY TtlAssumption
<1>. QED  BY <1>1, <1>2 DEF Promise!RecentlySaid

-----------------------------------------------------------------------------
LEMMA InitIInv == Init => IInv
<1>. SUFFICES ASSUME Init PROVE IInv
  OBVIOUS
<1>1. db \in [Keys -> Said]
  BY DatabaseAssumption DEF Init, Said
<1>2. now = 0 /\ 0..now = {0}
  BY DEF Init
<1>3. Typed
  <2>1. said \in [Keys -> [0..now -> SUBSET Said]]
    BY <1>1, <1>2 DEF Init
  <2>. QED  BY <1>1, <1>2, <2>1 DEF Init, Typed, Lookups
<1>4. SaysWhatItHolds
  BY <1>2 DEF Init, SaysWhatItHolds
<1>5. \A k \in Keys : EntryInv(k)
  BY DEF Init, EntryInv
<1>6. \A l \in Lookups : LookupInv(l)
  BY DEF Init, Lookups, LookupInv
<1>. QED  BY <1>3, <1>4, <1>5, <1>6 DEF IInv

\* Nothing is said, and time stands still.
LEMMA Still ==
  ASSUME Typed, UNCHANGED <<now, said>> PROVE Grows
  BY DEF Typed, Grows

LEMMA HitIsRecent ==
  ASSUME IInv, NEW k \in Keys, NEW e \in Hits(k)
  PROVE  e.row \in Promise!RecentlySaid(k, now)
<1>1. /\ e \in entries[k] /\ now - e.fetchedAt < TtlMs
      /\ e.fetchedAt \in 0..now /\ now \in Nat
  BY DEF Hits, Fresh, IInv, Typed
<1>2. e.row \in HeardSince(k, e.fetchedAt)
  BY <1>1 DEF IInv, EntryInv
<1>. QED  BY <1>1, <1>2, HeardIsRecent

\* A lookup begins as the promise has it.
LEMMA BeginIsAllowed ==
  ASSUME IInv, NEW k \in Keys
  PROVE  \/ Begin(k) = Promise!Question(k, now)
         \/ \E v \in Promise!RecentlySaid(k, now) :
               Begin(k) = Promise!Reply(k, now, v) /\ Begin(k) = Answered(k, now, v)
<1>1. CASE Hits(k) = {}
  BY <1>1 DEF Begin, Sent, Promise!Question
<1>2. CASE Hits(k) # {}
  <2>1. PICK e \in Hits(k) : Begin(k) = Answered(k, now, e.row)
    BY <1>2 DEF Begin
  <2>2. e.row \in Promise!RecentlySaid(k, now)
    BY HitIsRecent
  <2>. QED  BY <2>1, <2>2 DEF Answered, Promise!Reply
<1>. QED  BY <1>1, <1>2

-----------------------------------------------------------------------------
\* Only the lookup l changes, or none does.
LEMMA OneLookup ==
  ASSUME Typed, Grows, NEW l \in Lookups, \A m \in Lookups : LookupInv(m),
         lookup' = [lookup EXCEPT ![l] = lookup'[l]], LookupInv(l)'
  PROVE  /\ lookup' = [m \in Lookups |-> lookup'[m]]
         /\ \A m \in Lookups : LookupInv(m)'
<1>1. ASSUME NEW m \in Lookups, m # l PROVE LookupInv(m)'
  BY <1>1, LookupStays DEF Typed
<1>. QED  BY <1>1 DEF Typed

LEMMA OneQuestion ==
  ASSUME Typed, NEW l \in Lookups, lookup' = [lookup EXCEPT ![l] = lookup'[l]]
  PROVE  questions' = [questions EXCEPT ![l] = Seen(lookup'[l])]
<1>1. ASSUME NEW m \in Lookups
      PROVE  lookup'[m] = IF m = l THEN lookup'[l] ELSE lookup[m]
  BY DEF Typed
<1>. QED  BY <1>1 DEF questions

LEMMA RenderStep ==
  ASSUME IInv, NEW r \in Renders, NEW p \in Pages, Render(r, p)
  PROVE  IInv' /\ Promise!Ask
<1>. DEFINE rels == p.relations
            loaded == {i \in DOMAIN rels : Resolvable(p, rels[i])}
            next == [i \in Positions |->
                        IF i \in loaded THEN Begin(KeyOf(p, rels[i])) ELSE Unasked]
<1>1. /\ ~Resolving(r) /\ UNCHANGED <<db, now, entries, said>>
      /\ lookup' = [l \in Lookups |-> IF l[1] = r THEN next[l[2]] ELSE lookup[l]]
  BY DEF Render, Lookups
<1>2. Typed /\ Grows
  BY <1>1, Still DEF IInv
<1>. HIDE DEF next
<1>3. ASSUME NEW l \in Lookups, l[1] = r
      PROVE  /\ l[2] \in Positions /\ lookup'[l] = next[l[2]]
             /\ lookup[l].state \notin {"asked", "read"}
  <2>1. PICK q \in Renders, i \in Positions : l = <<q, i>>
    BY DEF Lookups
  <2>2. lookup[<<r, i>>].state \notin {"asked", "read"}
    BY <1>1 DEF Resolving, Pending
  <2>. QED  BY <1>1, <1>3, <2>1, <2>2
<1>4. ASSUME NEW i \in Positions
      PROVE  \/ next[i] = Promise!Quiet /\ next[i] = Unasked
             \/ \E k \in Keys : next[i] = Begin(k)
  <2>1. ASSUME i \in loaded PROVE KeyOf(p, rels[i]) \in Keys
    BY <2>1, PageAssumption
  <2>. QED  BY <2>1 DEF next, Unasked, Promise!Quiet
<1>5. ASSUME NEW l \in Lookups, l[1] = r
      PROVE  LookupInv(l)' /\ Promise!Begins(l)
  <2>1. questions[l].state # "asked" /\ questions'[l] = Seen(lookup'[l])
    BY <1>3, <1>5 DEF questions, Seen
  <2>2. CASE lookup'[l] = Unasked
    <3>1. questions'[l] = Promise!Quiet
      BY <2>1, <2>2 DEF Seen, Unasked, Promise!Quiet
    <3>. QED  BY <2>1, <2>2, <3>1 DEF LookupInv, Promise!Begins
  <2>3. ASSUME NEW k \in Keys, lookup'[l] = Promise!Question(k, now)
        PROVE  LookupInv(l)' /\ Promise!Begins(l)
    <3>1. questions'[l] = Promise!Question(k, now)
      BY <2>1, <2>3 DEF Seen, Promise!Question
    <3>2. LookupInv(l)'
      BY <1>1, <1>2, <2>3 DEF LookupInv, Promise!Question, Typed
    <3>. QED  BY <2>1, <3>1, <3>2 DEF Promise!Begins
  <2>4. ASSUME NEW k \in Keys, NEW v \in Promise!RecentlySaid(k, now),
               lookup'[l] = Promise!Reply(k, now, v), lookup'[l] = Answered(k, now, v)
        PROVE  LookupInv(l)' /\ Promise!Begins(l)
    <3>1. questions'[l] = Promise!Reply(k, now, v)
      BY <2>1, <2>4 DEF Seen, Promise!Reply
    <3>2. v \in Promise!RecentlySaid(k, now)' /\ now' \in 0..now'
      BY <1>1, <1>2, <2>4, RecentStays DEF Typed
    <3>3. LookupInv(l)'
      BY <1>1, <2>4, <3>2 DEF LookupInv, Answered
    <3>. QED  BY <2>1, <3>1, <3>3 DEF Promise!Begins
  <2>. QED  BY <1>3, <1>4, <1>5, <2>2, <2>3, <2>4, BeginIsAllowed
<1>6. ASSUME NEW l \in Lookups, l[1] # r
      PROVE  LookupInv(l)' /\ questions'[l] = questions[l]
  <2>1. lookup'[l] = lookup[l]
    BY <1>1, <1>6
  <2>. QED  BY <1>2, <2>1, LookupStays DEF IInv, questions
<1>7. IInv'
  <2>1. Typed'
    BY <1>1, <1>2 DEF Typed, Lookups
  <2>2. SaysWhatItHolds' /\ \A k \in Keys : EntryInv(k)'
    BY <1>1, <1>2, EntryStays DEF IInv, SaysWhatItHolds
  <2>. QED  BY <1>5, <1>6, <2>1, <2>2 DEF IInv
<1>8. Promise!Ask
  BY <1>1, <1>5, <1>6 DEF Promise!Ask
<1>. QED  BY <1>7, <1>8

LEMMA ReadRowStep ==
  ASSUME IInv, NEW r \in Renders, NEW i \in Positions, ReadRow(r, i)
  PROVE  IInv' /\ questions' = questions
<1>1. PICK l \in Lookups : l = <<r, i>>
  BY <<r, i>> \in Lookups DEF Lookups
<1>2. PICK x : x = lookup[l]
  OBVIOUS
<1>3. PICK y : y = [state |-> "read", key |-> x.key, since |-> x.since, row |-> db[x.key]]
  OBVIOUS
<1>4. /\ x.state = "asked" /\ lookup' = [lookup EXCEPT ![l] = y]
      /\ UNCHANGED <<db, now, entries, said>>
  BY <1>1, <1>2, <1>3 DEF ReadRow
<1>5. Typed /\ Grows /\ LookupInv(l)
  BY <1>1, <1>4, Still DEF IInv
<1>6. /\ x = [state |-> "asked", key |-> x.key, since |-> x.since]
      /\ x.key \in Keys /\ x.since \in 0..now
  BY <1>2, <1>4, <1>5 DEF LookupInv, Unasked, Answered
<1>7. lookup'[l] = y
  BY <1>1, <1>4, <1>5 DEF Typed
<1>8. db[x.key] \in Said /\ db[x.key] \in HeardSince(x.key, x.since)'
  <2>1. db[x.key] \in said[x.key][now]
    BY <1>6 DEF IInv, SaysWhatItHolds
  <2>2. db[x.key] \in HeardSince(x.key, x.since)
    BY <1>5, <1>6, <2>1, HeardNow DEF Typed
  <2>. QED  BY <1>5, <1>6, <2>2, HeardStays DEF Typed
<1>9. LookupInv(l)'
  <2>1. y.key = x.key /\ y.since = x.since /\ y.row = db[x.key] /\ y.state = "read"
    BY <1>3
  <2>. QED  BY <1>3, <1>4, <1>6, <1>7, <1>8, <2>1 DEF LookupInv
<1>10. IInv'
  <2>1. lookup' = [m \in Lookups |-> lookup'[m]] /\ \A m \in Lookups : LookupInv(m)'
    BY <1>1, <1>4, <1>5, <1>7, <1>9, OneLookup DEF IInv
  <2>2. Typed'
    BY <1>4, <1>5, <2>1 DEF Typed
  <2>3. SaysWhatItHolds' /\ \A k \in Keys : EntryInv(k)'
    BY <1>4, <1>5, EntryStays DEF IInv, SaysWhatItHolds
  <2>. QED  BY <2>1, <2>2, <2>3 DEF IInv
<1>11. questions' = questions
  <2>1. Seen(y) = Seen(x)
    BY <1>3, <1>6 DEF Seen
  <2>2. questions' = [questions EXCEPT ![l] = Seen(x)]
    BY <1>1, <1>4, <1>5, <1>7, <2>1, OneQuestion
  <2>. QED  BY <1>1, <1>2, <2>2 DEF questions
<1>. QED  BY <1>10, <1>11

\* The source says v about k in this instant.
LEMMA SaidGrows ==
  ASSUME Typed, NEW k \in Keys, NEW v \in Said, now' = now,
         said' = [said EXCEPT ![k][now] = @ \cup {v}]
  PROVE  /\ Grows /\ said' \in [Keys -> [0..now -> SUBSET Said]]
         /\ v \in said'[k][now]
         /\ Promise!Say(k, v) <=> questions' = questions
<1>1. now \in 0..now /\ now \in Nat /\ said[k] \in [0..now -> SUBSET Said]
  BY DEF Typed
<1>2. \A j \in Keys : \A u \in 0..now :
        said'[j][u] = IF j = k /\ u = now THEN said[j][u] \cup {v} ELSE said[j][u]
  BY <1>1 DEF Typed
<1>. QED  BY <1>1, <1>2 DEF Grows, Typed, Promise!Say

LEMMA FailReadStep ==
  ASSUME IInv, NEW r \in Renders, NEW i \in Positions, FailRead(r, i)
  PROVE  IInv' /\ \E k \in Keys : Promise!Say(k, NoRow)
<1>1. PICK l \in Lookups : l = <<r, i>>
  BY <<r, i>> \in Lookups DEF Lookups
<1>2. PICK x : x = lookup[l]
  OBVIOUS
<1>3. PICK y : y = [state |-> "read", key |-> x.key, since |-> x.since, row |-> NoRow]
  OBVIOUS
<1>4. /\ x.state \in {"asked", "read"} /\ lookup' = [lookup EXCEPT ![l] = y]
      /\ said' = [said EXCEPT ![x.key][now] = @ \cup {NoRow}]
      /\ UNCHANGED <<db, now, entries>>
  BY <1>1, <1>2, <1>3 DEF FailRead
<1>5. Typed /\ LookupInv(l)
  BY <1>1 DEF IInv
<1>6. /\ x.key \in Keys /\ x.since \in 0..now
      /\ \/ x = [state |-> "asked", key |-> x.key, since |-> x.since]
         \/ x = [state |-> "read", key |-> x.key, since |-> x.since, row |-> x.row]
  BY <1>2, <1>4, <1>5 DEF LookupInv, Unasked, Answered
<1>7. lookup'[l] = y
  BY <1>1, <1>4, <1>5 DEF Typed
<1>8. NoRow \in Said
  BY DEF Said
<1>9. /\ Grows /\ said' \in [Keys -> [0..now -> SUBSET Said]]
      /\ NoRow \in said'[x.key][now]
      /\ Promise!Say(x.key, NoRow) <=> questions' = questions
  BY <1>4, <1>5, <1>6, <1>8, SaidGrows
<1>10. NoRow \in HeardSince(x.key, x.since)'
  BY <1>4, <1>5, <1>6, <1>9 DEF HeardSince, Typed
<1>11. LookupInv(l)'
  <2>1. y.key = x.key /\ y.since = x.since /\ y.row = NoRow /\ y.state = "read"
    BY <1>3
  <2>. QED  BY <1>3, <1>4, <1>6, <1>7, <1>8, <1>10, <2>1 DEF LookupInv
<1>12. IInv'
  <2>1. lookup' = [m \in Lookups |-> lookup'[m]] /\ \A m \in Lookups : LookupInv(m)'
    BY <1>1, <1>4, <1>5, <1>7, <1>9, <1>11, OneLookup DEF IInv
  <2>2. Typed'
    BY <1>4, <1>5, <1>9, <2>1 DEF Typed
  <2>3. SaysWhatItHolds' /\ \A k \in Keys : EntryInv(k)'
    <3>1. \A k \in Keys : said[k][now] \subseteq said'[k][now]
      BY <1>5, <1>9 DEF Grows, Typed
    <3>. QED  BY <1>4, <1>5, <1>9, <3>1, EntryStays DEF IInv, SaysWhatItHolds
  <2>. QED  BY <2>1, <2>2, <2>3 DEF IInv
<1>13. questions' = questions
  <2>1. Seen(y) = Seen(x)
    BY <1>3, <1>6 DEF Seen
  <2>2. questions' = [questions EXCEPT ![l] = Seen(x)]
    BY <1>1, <1>4, <1>5, <1>7, <2>1, OneQuestion
  <2>. QED  BY <1>1, <1>2, <2>2 DEF questions
<1>. QED  BY <1>6, <1>9, <1>12, <1>13

LEMMA DeliverStep ==
  ASSUME IInv, NEW r \in Renders, NEW i \in Positions, Deliver(r, i)
  PROVE  IInv' /\ \E l \in Lookups : Promise!Answer(l)
<1>1. PICK l \in Lookups : l = <<r, i>>
  BY <<r, i>> \in Lookups DEF Lookups
<1>2. PICK x : x = lookup[l]
  OBVIOUS
<1>3. PICK y : y = Answered(x.key, x.since, x.row)
  OBVIOUS
<1>4. PICK e : e = [row |-> x.row, fetchedAt |-> x.since]
  OBVIOUS
<1>5. /\ x.state = "read" /\ lookup' = [lookup EXCEPT ![l] = y]
      /\ entries' = [entries EXCEPT ![x.key] = {e}]
      /\ UNCHANGED <<db, now, said>>
  BY <1>1, <1>2, <1>3, <1>4 DEF Deliver, Stamp
<1>6. Typed /\ Grows /\ LookupInv(l)
  BY <1>1, <1>5, Still DEF IInv
<1>7. /\ x.key \in Keys /\ x.since \in 0..now
      /\ x = [state |-> "read", key |-> x.key, since |-> x.since, row |-> x.row]
      /\ x.row \in Said \cap HeardSince(x.key, x.since)
  BY <1>2, <1>5, <1>6 DEF LookupInv, Unasked, Answered
<1>8. lookup'[l] = y
  BY <1>1, <1>5, <1>6 DEF Typed
<1>9. LookupInv(l)'
  <2>1. y.key = x.key /\ y.since = x.since /\ y.answer = x.row /\ y.state = "answered"
    BY <1>3 DEF Answered
  <2>2. x.row \in Promise!RecentlySaid(x.key, x.since)
    <3>1. x.since - x.since < TtlMs
      BY <1>7, TtlAssumption DEF Typed
    <3>. QED  BY <1>6, <1>7, <3>1, HeardIsRecent DEF Typed
  <2>3. x.row \in Promise!RecentlySaid(x.key, x.since)'
    BY <1>6, <1>7, <2>2, RecentStays DEF Typed
  <2>. QED  BY <1>3, <1>5, <1>7, <1>8, <2>1, <2>3 DEF LookupInv
<1>10. IInv'
  <2>1. lookup' = [m \in Lookups |-> lookup'[m]] /\ \A m \in Lookups : LookupInv(m)'
    BY <1>1, <1>5, <1>6, <1>8, <1>9, OneLookup DEF IInv
  <2>2. entries' \in [Keys -> SUBSET [row : Said, fetchedAt : 0..now]]
    <3>1. e \in [row : Said, fetchedAt : 0..now]
      BY <1>4, <1>7
    <3>. QED  BY <1>5, <1>6, <3>1 DEF Typed
  <2>3. Typed'
    BY <1>5, <1>6, <2>1, <2>2 DEF Typed
  <2>4. ASSUME NEW k \in Keys PROVE EntryInv(k)'
    <3>1. CASE k = x.key
      <4>1. entries'[k] = {e} /\ e.row = x.row /\ e.fetchedAt = x.since
        BY <1>4, <1>5, <1>6, <3>1 DEF Typed
      <4>2. x.row \in HeardSince(k, x.since)'
        BY <1>5, <1>7, <3>1 DEF HeardSince
      <4>. QED  BY <4>1, <4>2 DEF EntryInv
    <3>2. CASE k # x.key
      BY <1>5, <1>6, <3>2, EntryStays DEF IInv, Typed
    <3>. QED  BY <3>1, <3>2
  <2>5. SaysWhatItHolds'
    BY <1>5 DEF IInv, SaysWhatItHolds
  <2>. QED  BY <2>1, <2>3, <2>4, <2>5 DEF IInv
<1>11. Promise!Answer(l)
  <2>1. questions[l] = [state |-> "asked", key |-> x.key, since |-> x.since]
    BY <1>1, <1>2, <1>5 DEF questions, Seen
  <2>2. Seen(y) = y
    BY <1>3 DEF Seen, Answered
  <2>3. questions' = [questions EXCEPT ![l] = y]
    BY <1>1, <1>5, <1>6, <1>8, <2>2, OneQuestion
  <2>4. y = Promise!Reply(questions[l].key, questions[l].since, x.row)
    BY <1>3, <2>1 DEF Answered, Promise!Reply
  <2>5. x.row \in Promise!RecentlySaid(questions[l].key, questions[l].since)
    <3>1. x.since - x.since < TtlMs
      BY <1>7, TtlAssumption DEF Typed
    <3>2. x.row \in Promise!RecentlySaid(x.key, x.since)
      BY <1>6, <1>7, <3>1, HeardIsRecent DEF Typed
    <3>. QED  BY <2>1, <3>2
  <2>6. /\ questions[l].state = "asked"
        /\ questions' = [questions EXCEPT
                ![l] = Promise!Reply(questions[l].key, questions[l].since, x.row)]
    BY <2>1, <2>3, <2>4
  <2>. QED  BY <1>5, <2>5, <2>6 DEF Promise!Answer
<1>. QED  BY <1>1, <1>10, <1>11

LEMMA WriteRowStep ==
  ASSUME IInv, NEW k \in Keys, NEW v \in Said, WriteRow(k, v)
  PROVE  IInv' /\ Promise!Say(k, v)
<1>1. /\ db' = [db EXCEPT ![k] = v] /\ said' = [said EXCEPT ![k][now] = @ \cup {v}]
      /\ UNCHANGED <<now, entries, lookup>>
  BY DEF WriteRow
<1>2. Typed
  BY DEF IInv
<1>3. questions' = questions
  BY <1>1 DEF questions
<1>4. /\ Grows /\ said' \in [Keys -> [0..now -> SUBSET Said]]
      /\ v \in said'[k][now] /\ Promise!Say(k, v)
  BY <1>1, <1>2, <1>3, SaidGrows
<1>5. Typed'
  BY <1>1, <1>2, <1>4 DEF Typed
<1>6. SaysWhatItHolds'
  <2>1. \A j \in Keys : said[j][now] \subseteq said'[j][now]
    BY <1>2, <1>4 DEF Grows, Typed
  <2>. QED  BY <1>1, <1>2, <1>4, <2>1 DEF IInv, SaysWhatItHolds, Typed
<1>7. (\A j \in Keys : EntryInv(j)') /\ (\A l \in Lookups : LookupInv(l)')
  BY <1>1, <1>2, <1>4, EntryStays, LookupStays DEF IInv
<1>. QED  BY <1>4, <1>5, <1>6, <1>7 DEF IInv

LEMMA TickStep == ASSUME IInv, Tick PROVE IInv' /\ Promise!Elapse
<1>1. /\ now' = now + 1 /\ UNCHANGED <<db, entries, lookup>>
      /\ said' = [k \in Keys |->
                    [t \in 0..now + 1 |-> IF t <= now THEN said[k][t] ELSE {db[k]}]]
  BY DEF Tick
<1>2. Typed /\ now \in Nat /\ 0..now \subseteq 0..now' /\ now' \in 0..now'
  BY <1>1 DEF IInv, Typed
<1>3. ASSUME NEW k \in Keys
      PROVE  /\ said'[k] \in [0..now' -> SUBSET Said]
             /\ \A u \in 0..now : said'[k][u] = said[k][u]
             /\ said'[k][now'] = {db[k]}
             /\ db[k] \in said[k][now]
  <2>1. said'[k] = [t \in 0..now + 1 |-> IF t <= now THEN said[k][t] ELSE {db[k]}]
    BY <1>1, <1>3
  <2>2. /\ \A t \in 0..now : said[k][t] \in SUBSET Said
        /\ db[k] \in Said /\ db[k] \in said[k][now]
    BY <1>2, <1>3 DEF Typed, IInv, SaysWhatItHolds
  <2>. QED  BY <1>1, <1>2, <2>1, <2>2
<1>4. Grows
  BY <1>1, <1>2, <1>3 DEF Grows
<1>5. Typed'
  <2>1. said' \in [Keys -> [0..now' -> SUBSET Said]]
    BY <1>1, <1>3
  <2>2. entries' \in [Keys -> SUBSET [row : Said, fetchedAt : 0..now']]
    <3>1. [row : Said, fetchedAt : 0..now] \subseteq [row : Said, fetchedAt : 0..now']
      BY <1>2
    <3>. QED  BY <1>1, <1>2, <3>1 DEF Typed
  <2>. QED  BY <1>1, <1>2, <2>1, <2>2 DEF Typed
<1>6. SaysWhatItHolds'
  BY <1>1, <1>3 DEF SaysWhatItHolds
<1>7. (\A k \in Keys : EntryInv(k)') /\ (\A l \in Lookups : LookupInv(l)')
  BY <1>1, <1>2, <1>4, EntryStays, LookupStays DEF IInv
<1>8. Promise!Elapse
  <2>1. questions' = questions
    BY <1>1 DEF questions
  <2>2. ASSUME NEW k \in Keys
        PROVE  said'[k] = [t \in 0..now + 1 |-> IF t <= now THEN said[k][t] ELSE {db[k]}]
    BY <1>1, <2>2
  <2>. QED  BY <1>1, <1>3, <2>1, <2>2 DEF Promise!Elapse
<1>. QED  BY <1>5, <1>6, <1>7, <1>8 DEF IInv

LEMMA Stutter == ASSUME IInv, UNCHANGED vars PROVE IInv' /\ UNCHANGED Promise!vars
<1>1. UNCHANGED <<db, now, entries, lookup, said>>
  BY DEF vars
<1>2. Typed /\ Grows
  BY <1>1, Still DEF IInv
<1>3. Typed' /\ SaysWhatItHolds'
  BY <1>1, <1>2 DEF IInv, Typed, SaysWhatItHolds
<1>4. (\A k \in Keys : EntryInv(k)') /\ (\A l \in Lookups : LookupInv(l)')
  BY <1>1, <1>2, EntryStays, LookupStays DEF IInv
<1>5. questions' = questions
  BY <1>1 DEF questions
<1>. QED  BY <1>1, <1>3, <1>4, <1>5 DEF IInv, Promise!vars

-----------------------------------------------------------------------------
\* Every step keeps the invariant and is one of the promise, or none of it.
LEMMA NextRefines ==
  ASSUME IInv, [Next]_vars PROVE IInv' /\ [Promise!Next]_Promise!vars
<1>1. ASSUME NEW r \in Renders, NEW p \in Pages, Render(r, p)
      PROVE  IInv' /\ Promise!Next
  BY <1>1, RenderStep DEF Promise!Next
<1>2. ASSUME NEW r \in Renders, NEW i \in Positions, ReadRow(r, i)
      PROVE  IInv' /\ UNCHANGED Promise!vars
  BY <1>2, ReadRowStep DEF Promise!vars, ReadRow
<1>3. ASSUME NEW r \in Renders, NEW i \in Positions, FailRead(r, i)
      PROVE  IInv' /\ Promise!Next
  BY <1>3, FailReadStep DEF Promise!Next, Said
<1>4. ASSUME NEW r \in Renders, NEW i \in Positions, Deliver(r, i)
      PROVE  IInv' /\ Promise!Next
  BY <1>4, DeliverStep DEF Promise!Next
<1>5. ASSUME NEW k \in Written, NEW v \in Said, WriteRow(k, v)
      PROVE  IInv' /\ Promise!Next
  BY <1>5, WriteRowStep, WrittenAssumption DEF Promise!Next
<1>6. CASE Tick
  BY <1>6, TickStep DEF Promise!Next
<1>7. CASE UNCHANGED vars
  BY <1>7, Stutter
<1>. QED  BY <1>1, <1>2, <1>3, <1>4, <1>5, <1>6, <1>7 DEF Next

LEMMA InitRefines == Init => Promise!Init
<1>. SUFFICES ASSUME Init PROVE Promise!Init
  OBVIOUS
<1>1. db \in [Keys -> Said]
  BY DatabaseAssumption DEF Init, Said
<1>2. said \in [Keys -> [{0} -> {{v} : v \in Said}]]
  BY <1>1 DEF Init
<1>3. questions = [l \in Lookups |-> Promise!Quiet]
  <2>1. \A l \in Lookups : lookup[l] = Unasked
    BY DEF Init, Lookups
  <2>2. Seen(Unasked) = Promise!Quiet
    BY DEF Seen, Unasked, Promise!Quiet
  <2>. QED  BY <2>1, <2>2 DEF questions
<1>. QED  BY <1>2, <1>3 DEF Init, Promise!Init

\* However renders, loads, failures and writes interleave, what a lookup
\* answers is what the row said no longer than the lifetime before it was
\* asked (FkRowCache.get), loads that are overtaken and still write the cache
\* included.
THEOREM Refinement == Spec => ImplementsRecentReads
<1>1. Spec => []IInv
  BY InitIInv, NextRefines, PTL DEF Spec
<1>2. IInv /\ [Next]_vars => [Promise!Next]_Promise!vars
  BY NextRefines
<1>. QED
  BY <1>1, <1>2, InitRefines, PTL DEF Spec, ImplementsRecentReads, Promise!Spec

-----------------------------------------------------------------------------
(* The key a relation is looked up by is a row it references. *)

\* A sequence over its own elements is a function.
LEMMA ListIsFunction ==
  ASSUME NEW s, List(s)
  PROVE  /\ Len(s) \in Nat /\ DOMAIN s = 1..Len(s)
         /\ s \in [1..Len(s) -> Elements(s)]
<1>1. s \in Seq(Elements(s))  BY DEF List
<1>2. Len(s) \in Nat /\ DOMAIN s = 1..Len(s)  BY <1>1, LenProperties
<1>. QED  BY <1>1, <1>2, LenProperties

LEMMA SizeOfDistinct ==
  ASSUME NEW s, List(s), Distinct(s)
  PROVE  IsFiniteSet(Elements(s)) /\ Cardinality(Elements(s)) = Len(s)
<1>1. /\ Len(s) \in Nat /\ DOMAIN s = 1..Len(s)
      /\ s \in [1..Len(s) -> Elements(s)]
  BY ListIsFunction
<1>2. s \in Bijection(1..Len(s), Elements(s))
  BY <1>1 DEF Distinct, Elements, Bijection, Injection, Surjection, IsInjective
<1>3. ExistsBijection(1..Len(s), Elements(s))
  BY <1>2 DEF ExistsBijection
<1>4. IsFiniteSet(1..Len(s)) /\ Cardinality(1..Len(s)) = Len(s)
  <2>1. IF 1 > Len(s) THEN Len(s) = 0 ELSE Len(s) - 1 + 1 = Len(s)
    BY <1>1
  <2>. QED  BY <1>1, <2>1, FS_Interval
<1>. QED  BY <1>3, <1>4, FS_Bijection

\* Names without repetitions that are as many, and all among the others, are the same.
LEMMA SameNames ==
  ASSUME NEW s, NEW t, List(s), Distinct(s), List(t), Distinct(t),
         Len(s) = Len(t), Elements(s) \subseteq Elements(t)
  PROVE  Elements(s) = Elements(t)
<1>1. IsFiniteSet(Elements(t)) /\ Cardinality(Elements(s)) = Cardinality(Elements(t))
  BY SizeOfDistinct
<1>. QED  BY <1>1, FS_Subset

LEMMA PlaceIsFound ==
  ASSUME NEW s, Distinct(s), NEW j \in DOMAIN s
  PROVE  IndexIn(s, s[j]) = j
BY DEF IndexIn, Distinct

LEMMA KeyIsReferenced ==
  ASSUME NEW p \in Pages, NEW i \in DOMAIN p.relations,
         Resolvable(p, p.relations[i]), CoversKey(p.relations[i])
  PROVE  KeyOf(p, p.relations[i]) \in ReferencedBy(p, p.relations[i])
<1>1. PICK rel : rel = p.relations[i]
  OBVIOUS
<1>2. PICK pk : pk = Tables[rel.table].primaryKey
  OBVIOUS
<1>3. PICK id : id = ItemId(p, rel)
  OBVIOUS
<1>4. PICK k : k = KeyOf(p, rel)
  OBVIOUS
<1>5. k = <<rel.table, id>> /\ k \in Keys /\ k[1] = rel.table /\ k[2] = id
  BY <1>1, <1>3, <1>4, PageAssumption DEF KeyOf
<1>6. /\ List(rel.fields) /\ rel.fields # << >>
      /\ List(rel.columns) /\ Distinct(rel.columns)
      /\ Len(rel.fields) = Len(rel.columns)
  BY <1>1, PageAssumption
<1>7. List(pk) /\ Distinct(pk) /\ Len(pk) = Len(rel.columns)
      /\ Elements(pk) \subseteq Elements(rel.columns)
  BY <1>1, <1>2, TablesAssumption DEF Resolvable, TargetKnown, CoversKey
<1>8. /\ Len(pk) \in Nat /\ DOMAIN pk = 1..Len(pk)
      /\ DOMAIN rel.columns = 1..Len(pk) /\ DOMAIN rel.fields = 1..Len(pk)
  BY <1>6, <1>7, ListIsFunction
<1>9. Len(pk) > 0
  <2>1. rel.fields \in Seq(Elements(rel.fields)) /\ Len(rel.fields) = Len(pk)
    BY <1>6, <1>7 DEF List
  <2>. QED  BY <1>6, <1>8, <2>1, EmptySeq
<1>10. Elements(pk) = Elements(rel.columns)
  BY <1>6, <1>7, SameNames
<1>11. ASSUME NEW j \in DOMAIN rel.fields
       PROVE  \E m \in DOMAIN pk : /\ pk[m] = rel.columns[j]
                                   /\ IndexIn(pk, rel.columns[j]) = m
                                   /\ IndexIn(rel.columns, pk[m]) = j
  <2>1. rel.columns[j] \in Elements(pk)
    BY <1>8, <1>10, <1>11 DEF Elements
  <2>2. PICK m \in DOMAIN pk : pk[m] = rel.columns[j]
    BY <2>1 DEF Elements
  <2>. QED  BY <1>6, <1>7, <1>8, <1>11, <2>2, PlaceIsFound
<1>12. Len(id) = Len(pk) /\ \A m \in DOMAIN pk : id[m] = p.row[rel.fields[IndexIn(rel.columns, pk[m])]]
  <2>1. CASE IsComposite(rel)
    <3>1. id = [m \in 1..Len(pk) |-> p.row[rel.fields[IndexIn(rel.columns, pk[m])]]]
      BY <1>2, <1>3, <1>8, <2>1 DEF ItemId
    <3>. QED  BY <1>8, <3>1
  <2>2. CASE ~IsComposite(rel)
    <3>1. Len(pk) = 1 /\ 1 \in DOMAIN pk /\ 1 \in DOMAIN rel.fields /\ DOMAIN pk = {1}
      <4>0. Len(rel.fields) = Len(pk)
        BY <1>6, <1>7
      <4>1. Len(pk) = 1
        BY <1>8, <1>9, <2>2, <4>0 DEF IsComposite
      <4>2. 1..Len(pk) = {1}
        BY <4>1
      <4>. QED  BY <1>8, <4>1, <4>2
    <3>2. IndexIn(rel.columns, pk[1]) = 1
      BY <1>11, <3>1
    <3>3. id = <<p.row[rel.fields[1]]>>
      BY <1>3, <2>2 DEF ItemId, First
    <3>. QED  BY <3>1, <3>2, <3>3
  <2>. QED  BY <2>1, <2>2
<1>13. ASSUME NEW j \in DOMAIN rel.fields
       PROVE  ColumnOf(k, rel.columns[j]) = p.row[rel.fields[j]]
  <2>1. PICK m \in DOMAIN pk : /\ pk[m] = rel.columns[j]
                               /\ IndexIn(pk, rel.columns[j]) = m
                               /\ IndexIn(rel.columns, pk[m]) = j
    BY <1>11, <1>13
  <2>2. rel.columns[j] \in Elements(pk)
    BY <2>1 DEF Elements
  <2>3. ColumnOf(k, rel.columns[j]) = id[m]
    BY <1>2, <1>5, <2>1, <2>2 DEF ColumnOf
  <2>. QED  BY <1>12, <2>1, <2>3
<1>14. k \in ReferencedBy(p, rel)
  BY <1>2, <1>5, <1>12, <1>13 DEF ReferencedBy
<1>. QED  BY <1>1, <1>4, <1>14

-----------------------------------------------------------------------------
(* What a page shows. *)

LEMMA MaxIsMember ==
  ASSUME NEW n \in Nat, NEW W, W \subseteq 1..n, W # {}
  PROVE  (CHOOSE i \in W : \A j \in W : j <= i) \in W
<1>1. PICK D : D = {n - i : i \in W}
  OBVIOUS
<1>2. ASSUME NEW i \in W PROVE i \in Nat /\ n - i \in Nat
  OBVIOUS
<1>3. D \subseteq Nat /\ D # {}
  BY <1>1, <1>2
<1>4. PICK d \in D : \A e \in D : <<e, d>> \notin OpToRel(<, Nat)
  BY <1>3, NatLessThanWellFounded, WFMin
<1>5. PICK i \in W : d = n - i
  BY <1>1, <1>4
<1>6. ASSUME NEW j \in W PROVE j <= i
  <2>1. n - j \in D /\ n - j \in Nat /\ n - i \in Nat
    BY <1>1, <1>2
  <2>2. ~(n - j < n - i)
    BY <1>4, <1>5, <2>1 DEF OpToRel
  <2>. QED  BY <1>2, <2>2
<1>. QED  BY <1>5, <1>6

\* The relation that a label is of.
Source(p, rel, l, entry) ==
    \/ Orphaned(p, rel) /\ entry = Entry(p, rel, NoRow)
    \/ /\ Resolvable(p, rel) /\ l.state = "answered"
       /\ entry = Entry(p, rel, l.answer)

LookedUp(p, i) == i \in DOMAIN p.relations /\ Resolvable(p, p.relations[i])

\* A page looks up the key of every relation that has one, and of no other; each label
\* is that of a relation whose first column it stands under, and none is missing that
\* was answered.
LabelsOf(p, L, O) ==
    /\ \A i \in Positions :
          IF LookedUp(p, i)
          THEN L[i].state \in {"asked", "read", "answered"} /\ L[i].key = KeyOf(p, p.relations[i])
          ELSE L[i] = Unasked
    /\ \A c \in DOMAIN O : \E i \in DOMAIN p.relations :
          First(p.relations[i]) = c /\ Source(p, p.relations[i], L[i], O[c])
    /\ \A i \in Positions : L[i].state = "answered" => First(p.relations[i]) \in DOMAIN O

Of(r) == [i \in Positions |-> lookup[<<r, i>>]]

LabelInv(r) == \A p \in page[r] : LabelsOf(p, Of(r), out[r])

LEMMA LoadedIsPosition ==
  ASSUME NEW p \in Pages, NEW i, LookedUp(p, i)
  PROVE  i \in Positions
BY DEF LookedUp, Positions

LEMMA RenderLabels ==
  ASSUME NEW r \in Renders, NEW p \in Pages, Render(r, p), out = [s \in Renders |-> out[s]]
  PROVE  LabelsOf(p, Of(r)', out'[r])
<1>. DEFINE rels == p.relations
            loaded == {i \in DOMAIN rels : Resolvable(p, rels[i])}
            next == [i \in Positions |-> IF i \in loaded THEN Begin(KeyOf(p, rels[i])) ELSE Unasked]
            hit == {i \in loaded : next[i].state = "answered"}
            orphan == {i \in DOMAIN rels : Orphaned(p, rels[i])}
            W(c) == LET H == {i \in hit : First(rels[i]) = c}
                        O == {i \in orphan : First(rels[i]) = c}
                    IN  IF H # {} THEN H ELSE O
            Final(c) == CHOOSE i \in W(c) : \A j \in W(c) : j <= i
            shows == [c \in {First(rels[i]) : i \in hit \cup orphan} |->
                        Entry(p, rels[Final(c)], IF Final(c) \in hit THEN next[Final(c)].answer
                                                                  ELSE NoRow)]
<1>1. /\ lookup' = [l \in Renders \X Positions |-> IF l[1] = r THEN next[l[2]] ELSE lookup[l]]
      /\ out'[r] = shows
  BY DEF Render
<1>2. Of(r)' = next
  BY <1>1 DEF Of
<1>3. ASSUME NEW i \in Positions
      PROVE  IF LookedUp(p, i)
             THEN /\ next[i].state \in {"asked", "read", "answered"}
                  /\ next[i].key = KeyOf(p, p.relations[i])
             ELSE next[i] = Unasked
  BY DEF LookedUp, Begin, Sent, Answered
<1>4. hit \subseteq Positions
  BY LoadedIsPosition DEF LookedUp
<1>5. ASSUME NEW c \in {First(rels[i]) : i \in hit \cup orphan}
      PROVE  /\ Final(c) \in DOMAIN rels /\ First(rels[Final(c)]) = c
             /\ Source(p, rels[Final(c)], next[Final(c)], shows[c])
  <2>1. Len(rels) \in Nat /\ DOMAIN rels = 1..Len(rels)
    BY PageAssumption, ListIsFunction
  <2>2. PICK n, w : n = Len(rels) /\ w = W(c)
    OBVIOUS
  <2>3. w \subseteq 1..n /\ w # {} /\ n \in Nat
    BY <1>5, <2>1, <2>2
  <2>4. (CHOOSE i \in w : \A j \in w : j <= i) \in w
    BY <2>3, MaxIsMember
  <2>5. Final(c) \in w
    BY <2>2, <2>4
  <2>6. ASSUME NEW i \in w
        PROVE  i \in DOMAIN rels /\ First(rels[i]) = c /\ i \in hit \cup orphan
    BY <2>2, <2>6
  <2>7. Final(c) \in DOMAIN rels /\ First(rels[Final(c)]) = c /\ Final(c) \in hit \cup orphan
    BY <2>5, <2>6
  <2>8. shows[c] = Entry(p, rels[Final(c)], IF Final(c) \in hit THEN next[Final(c)].answer ELSE NoRow)
    BY <1>5
  <2>. HIDE DEF Final, shows
  <2>. QED  BY <2>7, <2>8 DEF Source
<1>6. ASSUME NEW i \in Positions, next[i].state = "answered"
      PROVE  First(rels[i]) \in DOMAIN shows
  <2>1. i \in hit
    BY <1>3, <1>6 DEF LookedUp, Unasked
  <2>. QED  BY <2>1
<1>7. DOMAIN shows = {First(rels[i]) : i \in hit \cup orphan}
  OBVIOUS
<1>. HIDE DEF next, shows, Final
<1>. QED  BY <1>1, <1>2, <1>3, <1>5, <1>6, <1>7 DEF LabelsOf

LEMMA ReadLabels ==
  ASSUME NEW p, NEW L, NEW O, NEW i \in Positions, NEW y, LabelsOf(p, L, O),
         L = [j \in Positions |-> L[j]],
         L[i].state \in {"asked", "read"}, y.state = "read", y.key = L[i].key
  PROVE  LabelsOf(p, [L EXCEPT ![i] = y], O)
<1>1. PICK M : M = [L EXCEPT ![i] = y]
  OBVIOUS
<1>2. M[i] = y /\ \A j : j # i => M[j] = L[j]
  BY <1>1
<1>3. LookedUp(p, i) /\ y.key = KeyOf(p, p.relations[i])
  BY DEF LabelsOf, Unasked
<1>4. ASSUME NEW c \in DOMAIN O
      PROVE  \E j \in DOMAIN p.relations :
                First(p.relations[j]) = c /\ Source(p, p.relations[j], M[j], O[c])
  <2>1. PICK j \in DOMAIN p.relations :
                First(p.relations[j]) = c /\ Source(p, p.relations[j], L[j], O[c])
    BY <1>4 DEF LabelsOf
  <2>2. CASE j # i
    BY <1>2, <2>1, <2>2
  <2>3. CASE j = i
    <3>1. ~Orphaned(p, p.relations[i])
      BY <1>3 DEF LookedUp, Resolvable, Orphaned
    <3>. QED  BY <2>1, <2>3, <3>1 DEF Source
  <2>. QED  BY <2>2, <2>3
<1>. QED  BY <1>1, <1>2, <1>3, <1>4 DEF LabelsOf

LEMMA DeliverLabels ==
  ASSUME NEW p, NEW L, NEW O, NEW i \in Positions, NEW y, NEW row, NEW shows, LabelsOf(p, L, O),
         L = [j \in Positions |-> L[j]], L[i].state = "read",
         y.state = "answered", y.key = L[i].key, y.answer = row,
         shows = [c \in DOMAIN O \cup {First(p.relations[i])} |->
                    IF c = First(p.relations[i]) THEN Entry(p, p.relations[i], row) ELSE O[c]]
  PROVE  LabelsOf(p, [L EXCEPT ![i] = y], shows)
<1>1. PICK M : M = [L EXCEPT ![i] = y]
  OBVIOUS
<1>2. M[i] = y /\ \A j : j # i => M[j] = L[j]
  BY <1>1
<1>3. LookedUp(p, i) /\ y.key = KeyOf(p, p.relations[i])
  BY DEF LabelsOf, Unasked
<1>4. ASSUME NEW c \in DOMAIN shows
      PROVE  \E j \in DOMAIN p.relations :
                First(p.relations[j]) = c /\ Source(p, p.relations[j], M[j], shows[c])
  <2>1. CASE c = First(p.relations[i])
    <3>1. Source(p, p.relations[i], M[i], shows[c])
      BY <1>2, <1>3, <1>4, <2>1 DEF Source, LookedUp
    <3>. QED  BY <1>3, <2>1, <3>1 DEF LookedUp
  <2>2. CASE c # First(p.relations[i])
    <3>1. c \in DOMAIN O /\ shows[c] = O[c]
      BY <1>4, <2>2
    <3>2. PICK j \in DOMAIN p.relations :
                First(p.relations[j]) = c /\ Source(p, p.relations[j], L[j], O[c])
      BY <3>1 DEF LabelsOf
    <3>. QED  BY <1>2, <2>2, <3>1, <3>2
  <2>. QED  BY <2>1, <2>2
<1>5. ASSUME NEW j \in Positions, M[j].state = "answered"
      PROVE  First(p.relations[j]) \in DOMAIN shows
  BY <1>2, <1>5 DEF LabelsOf
<1>. QED  BY <1>1, <1>2, <1>3, <1>4, <1>5 DEF LabelsOf

PagesInv ==
    /\ page \in [Renders -> {{}} \cup {{p} : p \in Pages}]
    /\ out = [r \in Renders |-> out[r]]
    /\ \A r \in Renders : LabelInv(r)

\* A step of one render leaves what the others show.
LEMMA OneRender ==
  ASSUME PagesInv, NEW r \in Renders, page' = [page EXCEPT ![r] = page'[r]],
         page'[r] \in {{}} \cup {{p} : p \in Pages}, out' = [out EXCEPT ![r] = out'[r]],
         \A s \in Renders : s # r => Of(s)' = Of(s), LabelInv(r)'
  PROVE  PagesInv'
<1>1. ASSUME NEW s \in Renders, s # r PROVE LabelInv(s)'
  <2>1. page'[s] = page[s] /\ out'[s] = out[s] /\ Of(s)' = Of(s)
    BY <1>1 DEF PagesInv
  <2>. QED  BY <2>1 DEF PagesInv, LabelInv
<1>. QED  BY <1>1 DEF PagesInv

LEMMA OneOf ==
  ASSUME Typed, NEW r \in Renders, NEW i \in Positions, NEW y,
         lookup' = [lookup EXCEPT ![<<r, i>>] = y]
  PROVE  /\ Of(r)' = [Of(r) EXCEPT ![i] = y]
         /\ \A s \in Renders : s # r => Of(s)' = Of(s)
<1>1. ASSUME NEW s \in Renders, NEW j \in Positions
      PROVE  lookup'[<<s, j>>] = IF s = r /\ j = i THEN y ELSE lookup[<<s, j>>]
  <2>1. <<s, j>> \in DOMAIN lookup /\ (<<s, j>> = <<r, i>> <=> s = r /\ j = i)
    BY DEF Typed, Lookups
  <2>. QED  BY <2>1
<1>. QED  BY <1>1 DEF Of

LEMMA PagesInit == Init => PagesInv
BY DEF Init, PagesInv, LabelInv

LEMMA PagesRender ==
  ASSUME PagesInv, NEW r \in Renders, NEW p \in Pages, Render(r, p)
  PROVE  PagesInv'
<1>1. LabelsOf(p, Of(r)', out'[r])
  BY RenderLabels DEF PagesInv
<1>2. page' = [page EXCEPT ![r] = {p}] /\ page'[r] = {p}
  BY DEF Render, PagesInv
<1>3. out' = [out EXCEPT ![r] = out'[r]]
  BY DEF Render, PagesInv
<1>4. \A s \in Renders : s # r => Of(s)' = Of(s)
  <2>1. ASSUME NEW s \in Renders, s # r, NEW i \in Positions
        PROVE  lookup'[<<s, i>>] = lookup[<<s, i>>]
    BY <2>1 DEF Render
  <2>. QED  BY <2>1 DEF Of
<1>. QED  BY <1>1, <1>2, <1>3, <1>4, OneRender DEF LabelInv

LEMMA PagesRead ==
  ASSUME IInv, PagesInv, NEW r \in Renders, NEW i \in Positions, ReadRow(r, i) \/ FailRead(r, i)
  PROVE  PagesInv'
<1>1. PICK l : l = lookup[<<r, i>>]
  OBVIOUS
<1>2. PICK y : /\ lookup' = [lookup EXCEPT ![<<r, i>>] = y]
               /\ y.state = "read" /\ y.key = l.key
  BY <1>1 DEF ReadRow, FailRead
<1>3. l.state \in {"asked", "read"} /\ UNCHANGED <<page, out>>
  BY <1>1 DEF ReadRow, FailRead
<1>4. /\ Of(r)' = [Of(r) EXCEPT ![i] = y]
      /\ \A s \in Renders : s # r => Of(s)' = Of(s)
  BY <1>2, OneOf DEF IInv
<1>5. ASSUME NEW p \in page[r] PROVE LabelsOf(p, Of(r)', out[r])
  <2>1. PICK L : L = Of(r)
    OBVIOUS
  <2>2. L = [j \in Positions |-> L[j]] /\ L[i] = l
    BY <1>1, <2>1 DEF Of
  <2>3. LabelsOf(p, L, out[r])
    BY <1>5, <2>1 DEF PagesInv, LabelInv
  <2>. QED  BY <1>2, <1>3, <1>4, <2>1, <2>2, <2>3, ReadLabels
<1>. QED  BY <1>3, <1>4, <1>5, OneRender DEF LabelInv, PagesInv

LEMMA PagesDeliver ==
  ASSUME IInv, PagesInv, NEW r \in Renders, NEW i \in Positions, Deliver(r, i)
  PROVE  PagesInv'
<1>1. PICK l : l = lookup[<<r, i>>]
  OBVIOUS
<1>2. PICK y : y = Answered(l.key, l.since, l.row)
  OBVIOUS
<1>3. y.state = "answered" /\ y.key = l.key /\ y.answer = l.row
  BY <1>2 DEF Answered
<1>4. l.state = "read" /\ lookup' = [lookup EXCEPT ![<<r, i>>] = y] /\ page' = page
  BY <1>1, <1>2 DEF Deliver
<1>5. PICK p \in page[r] :
        out' = [out EXCEPT ![r] =
                  [c \in DOMAIN out[r] \cup {First(p.relations[i])} |->
                     IF c = First(p.relations[i]) THEN Entry(p, p.relations[i], l.row)
                                                  ELSE out[r][c]]]
  BY <1>1 DEF Deliver
<1>6. /\ Of(r)' = [Of(r) EXCEPT ![i] = y]
      /\ \A s \in Renders : s # r => Of(s)' = Of(s)
  BY <1>4, OneOf DEF IInv
<1>7. page[r] = {p} /\ page' = [page EXCEPT ![r] = page'[r]]
  BY <1>4, <1>5 DEF PagesInv
<1>8. LabelsOf(p, Of(r)', out'[r])
  <2>1. PICK L, O, shows : L = Of(r) /\ O = out[r] /\ shows = out'[r]
    OBVIOUS
  <2>2. L = [j \in Positions |-> L[j]] /\ L[i] = l
    BY <1>1, <2>1 DEF Of
  <2>3. LabelsOf(p, L, O)
    BY <1>5, <2>1 DEF PagesInv, LabelInv
  <2>4. shows = [c \in DOMAIN O \cup {First(p.relations[i])} |->
                   IF c = First(p.relations[i]) THEN Entry(p, p.relations[i], l.row) ELSE O[c]]
    BY <1>5, <2>1 DEF PagesInv
  <2>. QED  BY <1>3, <1>4, <1>6, <2>1, <2>2, <2>3, <2>4, DeliverLabels
<1>9. out' = [out EXCEPT ![r] = out'[r]]
  BY <1>5 DEF PagesInv
<1>10. LabelInv(r)'
  BY <1>4, <1>7, <1>8 DEF LabelInv
<1>. QED  BY <1>6, <1>7, <1>4, <1>9, <1>10, OneRender DEF PagesInv

LEMMA PagesStep == ASSUME IInv, PagesInv, [Next]_vars PROVE PagesInv'
<1>1. ASSUME UNCHANGED <<page, out, lookup>> PROVE PagesInv'
  BY <1>1 DEF PagesInv, LabelInv, Of
<1>2. CASE UNCHANGED vars
  BY <1>1, <1>2 DEF vars
<1>3. ASSUME NEW k \in Written, NEW v \in Said, WriteRow(k, v) PROVE PagesInv'
  BY <1>1, <1>3 DEF WriteRow
<1>4. CASE Tick
  BY <1>1, <1>4 DEF Tick
<1>. QED  BY <1>2, <1>3, <1>4, PagesRender, PagesRead, PagesDeliver DEF Next

-----------------------------------------------------------------------------
\* A label that was answered is one the page may show.
LEMMA AnswerMayBeShown ==
  ASSUME IInv, NEW r \in Renders, NEW p \in Pages, NEW i \in DOMAIN p.relations,
         NEW rel, rel = p.relations[i], Resolvable(p, rel), CoversKey(rel),
         lookup[<<r, i>>].state = "answered", lookup[<<r, i>>].key = KeyOf(p, rel)
  PROVE  /\ KeyOf(p, rel) \in ReferencedBy(p, rel)
         /\ projectLabel(rel, lookup[<<r, i>>].answer) \in ShownFor(p, rel, lookup[<<r, i>>].since)
<1>1. KeyOf(p, rel) \in ReferencedBy(p, rel)
  BY KeyIsReferenced
<1>2. PICK l : l = lookup[<<r, i>>]
  OBVIOUS
<1>3. l.answer \in Promise!RecentlySaid(l.key, l.since)
  <2>1. <<r, i>> \in Lookups
    BY LoadedIsPosition DEF LookedUp, Lookups
  <2>2. LookupInv(<<r, i>>)
    BY <2>1 DEF IInv
  <2>. QED  BY <1>2, <2>2 DEF LookupInv, Unasked
<1>. QED  BY <1>1, <1>2, <1>3 DEF ShownFor

LEMMA OnlyClaim ==
  ASSUME NEW p \in Pages, NEW i \in DOMAIN p.relations, NEW j \in DOMAIN p.relations,
         First(p.relations[i]) = First(p.relations[j]), Claims(p, First(p.relations[i])) = 1
  PROVE  i = j
<1>1. PICK S : S = {m \in DOMAIN p.relations : First(p.relations[m]) = First(p.relations[i])}
  OBVIOUS
<1>2. IsFiniteSet(S)
  <2>1. PICK n \in Nat : DOMAIN p.relations = 1..n
    BY PageAssumption, ListIsFunction
  <2>2. IsFiniteSet(1..n)
    <3>1. n \in Int /\ 1 \in Int
      BY <2>1
    <3>. QED  BY <3>1, FS_Interval
  <2>3. IsFiniteSet(DOMAIN p.relations)
    BY <2>1, <2>2
  <2>. QED  BY <1>1, <2>3, FS_Subset
<1>3. PICK x : S = {x}
  BY <1>1, <1>2, FS_Singleton DEF Claims
<1>. QED  BY <1>1, <1>3

LEMMA LabelsAreTheRows ==
  ASSUME IInv, PagesInv, NEW r \in Renders
  PROVE  Labelled(r, ReferencesKey)
<1>. SUFFICES ASSUME NEW p \in page[r], NEW c \in DOMAIN out[r]
     PROVE  \E i \in DOMAIN p.relations :
              /\ First(p.relations[i]) = c
              /\ ReferencesKey(p.relations[i]) =>
                   NamesTheRow(r, p, p.relations[i],
                               IF Resolvable(p, p.relations[i]) THEN lookup[<<r, i>>].since ELSE now)
  BY DEF Labelled
<1>1. p \in Pages /\ LabelsOf(p, Of(r), out[r])
  BY DEF PagesInv, LabelInv
<1>2. PICK i \in DOMAIN p.relations :
        First(p.relations[i]) = c /\ Source(p, p.relations[i], Of(r)[i], out[r][c])
  BY <1>1 DEF LabelsOf
<1>3. PICK rel : rel = p.relations[i]
  OBVIOUS
<1>4. ASSUME Orphaned(p, rel), out[r][c] = Entry(p, rel, NoRow), NEW t
      PROVE  NamesTheRow(r, p, rel, t)
  BY <1>2, <1>3, <1>4 DEF NamesTheRow, Entry, projectLabel
<1>5. ASSUME Resolvable(p, rel), ReferencesKey(rel), Of(r)[i].state = "answered",
             out[r][c] = Entry(p, rel, Of(r)[i].answer)
      PROVE  NamesTheRow(r, p, rel, lookup[<<r, i>>].since)
  <2>1. CoversKey(rel)
    BY <1>5 DEF ReferencesKey, Resolvable
  <2>2. i \in Positions /\ LookedUp(p, i)
    BY <1>1, <1>3, <1>5, LoadedIsPosition DEF LookedUp
  <2>3. Of(r)[i] = lookup[<<r, i>>]
    BY <2>2 DEF Of
  <2>4. lookup[<<r, i>>].key = KeyOf(p, rel)
    BY <1>1, <1>3, <2>2, <2>3 DEF LabelsOf
  <2>5. /\ KeyOf(p, rel) \in ReferencedBy(p, rel)
        /\ projectLabel(rel, lookup[<<r, i>>].answer) \in ShownFor(p, rel, lookup[<<r, i>>].since)
    BY <1>1, <1>3, <1>5, <2>1, <2>3, <2>4, AnswerMayBeShown
  <2>6. /\ out[r][First(rel)].table = rel.table
        /\ out[r][First(rel)].value = ItemId(p, rel)
        /\ out[r][First(rel)].label = projectLabel(rel, lookup[<<r, i>>].answer)
    BY <1>2, <1>3, <1>5, <2>3 DEF Entry
  <2>. QED  BY <2>5, <2>6 DEF NamesTheRow, KeyOf
<1>6. ~(Orphaned(p, rel) /\ Resolvable(p, rel))
  BY DEF Orphaned, Resolvable
<1>. QED  BY <1>2, <1>3, <1>4, <1>5, <1>6 DEF Source

LEMMA NoLabelIsMissing ==
  ASSUME IInv, PagesInv, NEW r \in Renders
  PROVE  NoneMissing(r)
<1>. SUFFICES ASSUME NEW p \in page[r], NEW i \in DOMAIN p.relations, NEW rel,
                     rel = p.relations[i],
                     ~Resolving(r), Resolvable(p, rel), ReferencesKey(rel),
                     Claims(p, First(rel)) = 1,
                     Null \notin ShownFor(p, rel, lookup[<<r, i>>].since)
              PROVE  First(rel) \in DOMAIN out[r] /\ out[r][First(rel)].label # Null
  BY DEF NoneMissing
<1>1. p \in Pages /\ LabelsOf(p, Of(r), out[r])
  BY DEF PagesInv, LabelInv
<1>2. i \in Positions /\ LookedUp(p, i) /\ Of(r)[i] = lookup[<<r, i>>]
  BY <1>1, LoadedIsPosition DEF LookedUp, Of
<1>3. lookup[<<r, i>>].state = "answered" /\ lookup[<<r, i>>].key = KeyOf(p, rel)
  <2>1. lookup[<<r, i>>].state \notin {"asked", "read"}
    BY <1>2 DEF Resolving, Pending
  <2>. QED  BY <1>1, <1>2, <2>1 DEF LabelsOf
<1>4. First(rel) \in DOMAIN out[r]
  BY <1>1, <1>2, <1>3 DEF LabelsOf
<1>5. PICK j \in DOMAIN p.relations :
        /\ First(p.relations[j]) = First(rel)
        /\ Source(p, p.relations[j], Of(r)[j], out[r][First(rel)])
  BY <1>1, <1>4 DEF LabelsOf
<1>6. j = i
  BY <1>1, <1>5, OnlyClaim
<1>7. out[r][First(rel)].label = projectLabel(rel, lookup[<<r, i>>].answer)
  <2>1. ~Orphaned(p, rel)
    BY DEF Orphaned, Resolvable
  <2>. QED  BY <1>2, <1>5, <1>6, <2>1 DEF Source, Entry
<1>8. projectLabel(rel, lookup[<<r, i>>].answer) \in ShownFor(p, rel, lookup[<<r, i>>].since)
  <2>1. CoversKey(rel)
    BY DEF ReferencesKey, Resolvable
  <2>. QED  BY <1>1, <1>3, <2>1, AnswerMayBeShown
<1>. QED  BY <1>4, <1>7, <1>8

LEMMA OrderDoesNotMatter == ASSUME PagesInv PROVE SameInEveryOrder
<1>. SUFFICES ASSUME NEW r \in Renders, NEW s \in Renders, NEW p \in page[r] \cap page[s],
                     NEW c \in DOMAIN out[r] \cap DOMAIN out[s],
                     \A i, j \in DOMAIN p.relations :
                        p.relations[i].fields = <<c>> /\ p.relations[j].fields = <<c>> => i = j
              PROVE  out[r][c].table = out[s][c].table
  BY DEF SameInEveryOrder
<1>1. p \in Pages /\ LabelsOf(p, Of(r), out[r]) /\ LabelsOf(p, Of(s), out[s])
  BY DEF PagesInv, LabelInv
<1>2. PICK i \in DOMAIN p.relations :
        First(p.relations[i]) = c /\ Source(p, p.relations[i], Of(r)[i], out[r][c])
  BY <1>1 DEF LabelsOf
<1>3. PICK j \in DOMAIN p.relations :
        First(p.relations[j]) = c /\ Source(p, p.relations[j], Of(s)[j], out[s][c])
  BY <1>1 DEF LabelsOf
<1>4. out[r][c].table = p.relations[i].table /\ out[s][c].table = p.relations[j].table
  BY <1>2, <1>3 DEF Source, Entry
<1>5. ASSUME NEW m \in DOMAIN p.relations, First(p.relations[m]) = c, Claims(p, c) # 1,
             Orphaned(p, p.relations[m]) \/ Resolvable(p, p.relations[m])
      PROVE  p.relations[m].fields = <<c>>
  <2>1. PICK fields : fields = p.relations[m].fields
    OBVIOUS
  <2>2. List(fields) /\ fields # << >> /\ fields[1] = c
    BY <1>1, <1>5, <2>1, PageAssumption DEF First
  <2>3. ~(Len(fields) > 1)
    BY <1>5, <2>1 DEF Orphaned, Resolvable, IsComposite
  <2>4. fields \in Seq(Elements(fields)) /\ Len(fields) \in Nat /\ Len(fields) # 0
    BY <2>2, EmptySeq, LenProperties DEF List
  <2>5. Len(fields) = 1
    <3>1. PICK n : n = Len(fields)
      OBVIOUS
    <3>2. n \in Nat /\ n # 0 /\ ~(n > 1)
      BY <2>3, <2>4, <3>1
    <3>3. n = 1
      BY <3>2
    <3>. QED  BY <3>1, <3>3
  <2>6. fields = <<c>>
    BY <2>2, <2>4, <2>5
  <2>. QED  BY <2>1, <2>6
<1>6. i = j
  <2>1. CASE Claims(p, c) = 1
    BY <1>1, <1>2, <1>3, <2>1, OnlyClaim
  <2>2. CASE Claims(p, c) # 1
    BY <1>2, <1>3, <1>5, <2>2 DEF Source
  <2>. QED  BY <2>1, <2>2
<1>. QED  BY <1>4, <1>6

\* Every label under a foreign key that references a primary key is the referenced
\* row's within the lifetime of an entry, none is missing, and which relation a column
\* shows does not depend on the order of the answers (resolve-fk-labels.ts).
THEOREM LabelsAreTrue == Spec => []LabelsNameTheRow
<1>1. IInv /\ PagesInv => LabelsNameTheRow
  BY LabelsAreTheRows, NoLabelIsMissing, OrderDoesNotMatter DEF LabelsNameTheRow
<1>2. IInv /\ PagesInv /\ [Next]_vars => IInv' /\ PagesInv'
  BY NextRefines, PagesStep
<1>. QED  BY <1>1, <1>2, InitIInv, PagesInit, PTL DEF Spec

-----------------------------------------------------------------------------
(* The other reader of referenced rows: the picker of the forms            *)
(* (RelationPicker), whatever rows there are and however many searches.    *)

\* What is listed has a label, and what is selected is listed: so a late answer, which
\* lists the selected row only if it has its label, lists it.
PickerInv == options \subseteq known /\ value \in options \cup {None}

LEMMA PickerInitInv == PickerInit => PickerInv
BY DEF PickerInit, PickerInv

LEMMA PickerStep ==
    ASSUME PickerInv, [PickerNext]_pickerVars
    PROVE  PickerInv' /\ (shown' # shown => shown' = Len(searches))
<1>1. CASE Type \/ TimerFires \/ UNCHANGED pickerVars
  BY <1>1 DEF PickerInv, Type, TimerFires, pickerVars, field
<1>2. CASE Select
  BY <1>2 DEF PickerInv, Select
<1>3. ASSUME NEW i \in 1..Len(searches), Response(i)
      PROVE  PickerInv' /\ (shown' # shown => shown' = Len(searches))
  <2>1. PICK rows, request : Arrive(i, request, rows)
    BY <1>3 DEF Response
  <2>2. CASE UNCHANGED field
    BY <2>2 DEF PickerInv, field
  <2>3. CASE IsLatest(i) /\ Show(i, rows)
    <3>1. /\ known' = known \cup rows
          /\ options' = rows \cup ({value} \cap (known \cup rows))
          /\ value' = value /\ shown' = i /\ i = Len(searches)
      BY <2>3 DEF Show, Remembered, WithSelected, IsLatest
    <3>. QED  BY <3>1 DEF PickerInv
  <2>. QED  BY <2>1, <2>2, <2>3 DEF Arrive
<1>. QED  BY <1>1, <1>2, <1>3 DEF PickerNext

\* However typing, selecting and late answers interleave, the selected row stays in the
\* dropdown (relation-select-field.svelte:47-49).
THEOREM SelectedRowStays == PickerSpec => []SelectedStaysListed
<1>1. PickerInv => SelectedStaysListed
  BY DEF PickerInv, SelectedStaysListed
<1>2. PickerInv /\ [PickerNext]_pickerVars => PickerInv'
  BY PickerStep
<1>. QED  BY <1>1, <1>2, PickerInitInv, PTL DEF PickerSpec

\* An overtaken answer never shows its rows (relation-search.ts:52-55).
THEOREM LateAnswersAreDropped == PickerSpec => LatestSearchWins
<1>1. PickerInv /\ [PickerNext]_pickerVars
        => PickerInv' /\ [shown' # shown => shown' = Len(searches)]_pickerVars
  BY PickerStep
<1>. QED  BY <1>1, PickerInitInv, PTL DEF PickerSpec, LatestSearchWins
=============================================================================
