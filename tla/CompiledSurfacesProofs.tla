------------------------- MODULE CompiledSurfacesProofs -------------------------
(***************************************************************************)
(* Proofs about what is generated from the compiled schema, for every      *)
(* catalog: who can be called with the rights of another, that the         *)
(* document of the REST API says what its router does, and that what the   *)
(* MCP tools tell of relations is true.                                    *)
(***************************************************************************)
EXTENDS ListProofs

\* The elements of the parsed path stand for those of the declared one.
LEMMA PathLemma ==
    ASSUME NEW d, NEW f, NEW S, f.path \in Seq(S)
    PROVE  /\ DOMAIN SearchPath(d, f) = 1 .. Len(f.path)
           /\ Len(SearchPath(d, f)) = Len(f.path)
           /\ \A i \in 1 .. Len(f.path) :
                LET el == f.path[i]
                    parsed == SearchPath(d, f)[i]
                IN /\ parsed.isTemp <=> el.schema = <<"pg_temp">>
                   /\ parsed.resolved => ~el.dynamic
                   /\ parsed.resolved => parsed.writableByOthers
                                           = WritableByOthers(d, el.schema, f.owner)
<1>1. DOMAIN f.path = 1 .. Len(f.path) /\ Len(f.path) \in Nat
  OBVIOUS
<1> DEFINE Parsed(i) ==
         [isTemp |-> f.path[i].schema = <<"pg_temp">>,
          resolved |-> ~(f.path[i].schema = <<"pg_temp">>) /\ ~f.path[i].dynamic,
          writableByOthers |->
            IF f.path[i].schema = <<"pg_temp">> \/ f.path[i].dynamic THEN "unknown"
            ELSE WritableByOthers(d, f.path[i].schema, f.owner)]
<1>2. SearchPath(d, f) = [i \in 1 .. Len(f.path) |-> Parsed(i)]
  BY <1>1 DEF SearchPath
<1> HIDE DEF Parsed
<1>3. /\ DOMAIN SearchPath(d, f) = 1 .. Len(f.path)
      /\ Len(SearchPath(d, f)) = Len(f.path)
  BY <1>1, <1>2
<1>4. ASSUME NEW i \in 1 .. Len(f.path)
      PROVE  SearchPath(d, f)[i] = Parsed(i)
  BY <1>2
<1>5. ASSUME NEW i \in 1 .. Len(f.path)
      PROVE  /\ Parsed(i).isTemp <=> f.path[i].schema = <<"pg_temp">>
             /\ Parsed(i).resolved => ~f.path[i].dynamic
             /\ Parsed(i).resolved => Parsed(i).writableByOthers
                                         = WritableByOthers(d, f.path[i].schema, f.owner)
  <2> DEFINE temp == f.path[i].schema = <<"pg_temp">>
             dynamic == f.path[i].dynamic
             writable == WritableByOthers(d, f.path[i].schema, f.owner)
  <2>1. /\ Parsed(i).isTemp <=> temp
        /\ Parsed(i).resolved <=> ~temp /\ ~dynamic
        /\ Parsed(i).writableByOthers = IF temp \/ dynamic THEN "unknown" ELSE writable
    BY DEF Parsed
  <2> HIDE DEF temp, dynamic, writable, Parsed
  <2>2. /\ Parsed(i).resolved => ~dynamic
        /\ Parsed(i).resolved => Parsed(i).writableByOthers = writable
    BY <2>1
  <2>3. QED
    BY <2>1, <2>2 DEF temp, dynamic, writable
<1>6. QED
  BY <1>3, <1>4, <1>5

\* Schemas that the code finds writable by nobody but the owner are so.
LEMMA WritabilityLemma ==
    ASSUME NEW d, NEW schema, NEW owner, WritableByOthers(d, schema, owner) = "no"
    PROVE  /\ schema \in DOMAIN d.schemas
           /\ PUBLIC \notin d.schemas[schema].create
           /\ ~\E role \in DOMAIN d.memberOf \ (d.superusers \cup {owner}) :
                  Holds(d, role, d.schemas[schema].create)
<1> DEFINE create == d.schemas[schema].create
           creators == {r \in DOMAIN d.memberOf \ d.superusers : Holds(d, r, create)}
<1>1. schema \in DOMAIN d.schemas
  BY DEF WritableByOthers
<1>2. ~(PUBLIC \in create \/ creators \ {owner} # {})
  BY <1>1 DEF WritableByOthers
<1>3. QED
  BY <1>1, <1>2

\* A path that checkSafeSearchPath accepts cannot be hijacked by anyone but the
\* owner of the function, whatever the roles, memberships and grants.
THEOREM SafePathsAreSafe ==
    ASSUME NEW d, NEW f, NEW S, f.path \in Seq(S), SafeSearchPath(SearchPath(d, f))
    PROVE  ~Hijackable(d, f)
<1> DEFINE path == f.path
           n == Len(path)
           Temporary(i) == path[i].schema = <<"pg_temp">>
<1>1. DOMAIN path = 1 .. n
  OBVIOUS
<1>2. {i \in 1 .. n : SearchPath(d, f)[i].isTemp} = {n}
  BY PathLemma DEF SafeSearchPath
<1>3. n \in 1 .. n /\ \A i \in 1 .. n : Temporary(i) <=> i = n
  BY <1>2, PathLemma
<1>4. ASSUME NEW i \in 1 .. n, ~Temporary(i)
      PROVE  ~path[i].dynamic /\ WritableByOthers(d, path[i].schema, f.owner) = "no"
  <2>1. ~SearchPath(d, f)[i].isTemp
    BY <1>4, PathLemma
  <2>2. SearchPath(d, f)[i].resolved /\ SearchPath(d, f)[i].writableByOthers = "no"
    BY <2>1, PathLemma DEF SafeSearchPath
  <2>3. QED
    BY <2>2, PathLemma
<1>5. ASSUME NEW i \in 1 .. n, ~Temporary(i)
      PROVE  /\ path[i].schema \in DOMAIN d.schemas
             /\ PUBLIC \notin d.schemas[path[i].schema].create
             /\ ~\E role \in DOMAIN d.memberOf \ (d.superusers \cup {f.owner}) :
                    Holds(d, role, d.schemas[path[i].schema].create)
  BY <1>4, <1>5, WritabilityLemma
<1>6. QED
  BY <1>1, <1>3, <1>4, <1>5 DEF Hijackable

-----------------------------------------------------------------------------
(* The tags of a comment, which is parsed line by line. *)

\* FoldLeft, whose definition recurs on the parts of a list, is such a loop.
LEMMA CommentIsFolded ==
  ASSUME NEW lines, NEW n \in Nat, DOMAIN lines = 1..n
  PROVE  \E c : /\ c[0] = EmptyComment
                /\ \A k \in 1..n : c[k] = ParseLine(c[k - 1], lines[k])
                /\ FoldLeft(ParseLine, EmptyComment, lines) = c[n]
<1>1. PICK loop : loop = [of |-> "lines", base |-> EmptyComment]
  OBVIOUS
<1>2. /\ loop.base = EmptyComment
      /\ \A s, x : Stepped(loop, s, x) = ParseLine(s, x)
  BY <1>1 DEF Stepped
<1>3. PICK iter : IsLoop(loop, lines, Positions(n), iter)
  BY LoopIsDefined
<1>. DEFINE Part(f, T) == IF T = {} THEN EmptyComment
                          ELSE ParseLine(f[T \ {Max(T)}], lines[Max(T)])
            rec == CHOOSE f : f = [T \in SUBSET (1..n) |-> Part(f, T)]
<1>4. \A f, T : Looped(loop, f, lines, T) = Part(f, T)
  BY <1>2 DEF Looped
<1>5. rec = [T \in SUBSET (1..n) |-> Part(rec, T)]
  <2>1. iter = [T \in SUBSET (1..n) |-> Part(iter, T)]
    BY <1>3, <1>4 DEF IsLoop, Positions
  <2>. QED  BY <2>1
<1>6. FoldLeft(ParseLine, EmptyComment, lines) = rec[1..n]
  BY DEF FoldLeft, MapThenFoldSet
<1>. HIDE DEF rec
<1>7. IsLoop(loop, lines, Positions(n), rec)
  BY <1>4, <1>5 DEF IsLoop, Positions
<1>. HIDE DEF Part
<1>8. PICK r : r = rec
  OBVIOUS
<1>9. IsLoop(loop, lines, Positions(n), r)
  BY <1>7, <1>8
<1>10. PICK c : GoesThrough(loop, lines, n, c) /\ c[n] = r[1..n]
  BY <1>9, LoopOverList
<1>. QED  BY <1>2, <1>6, <1>8, <1>10 DEF GoesThrough

HighestTag(lines, k, i) ==
    /\ i \in 1..k /\ lines[i].tag = "expose"
    /\ \A j \in 1..k : lines[j].tag = "expose" => j <= i

\* What is exposed by the first k lines: what the last of their tags says.
ExposedUpTo(lines, k, e) ==
    \/ e = "none" /\ \A i \in 1..k : lines[i].tag # "expose"
    \/ \E i \in 1..k : HighestTag(lines, k, i) /\ e = Expose(lines[i].value)

Formed(c) ==
    /\ {"expose", "pending", "ai", "policy", "examples", "body", "widget", "args"} \subseteq DOMAIN c
    /\ {"kind", "lines"} \subseteq DOMAIN c.pending
    /\ c.pending.kind \in {"", "example", "ai", "policy"}

LEMMA Flushed ==
  ASSUME NEW c, Formed(c)
  PROVE  /\ Formed(FlushPending(c)) /\ FlushPending(c).pending.kind = ""
         /\ FlushPending(c).expose = c.expose
  BY DEF Formed, FlushPending, NotPending

LEMMA LineParsed ==
  ASSUME NEW c, Formed(c), NEW line
  PROVE  /\ Formed(ParseLine(c, line))
         /\ ParseLine(c, line).expose = IF line.tag = "expose" THEN Expose(line.value) ELSE c.expose
<1>1. CASE Extends(c.pending, line)
  <2>1. line.tag # "expose"
    BY <1>1 DEF Extends, Formed, KnownTags
  <2>2. PICK taken : taken = [c EXCEPT !.pending.lines = Append(@, line)]
    OBVIOUS
  <2>3. Formed(taken) /\ taken.expose = c.expose
    BY <2>2 DEF Formed
  <2>4. ParseLine(c, line) = IF c.pending.kind = "example" THEN taken
                             ELSE [taken EXCEPT !.body = Append(@, line)]
    BY <1>1, <2>2 DEF ParseLine
  <2>5. CASE c.pending.kind = "example"
    BY <2>1, <2>3, <2>4, <2>5
  <2>6. CASE c.pending.kind # "example"
    <3>1. PICK body : ParseLine(c, line) = [taken EXCEPT !.body = body]
      BY <2>4, <2>6
    <3>. QED  BY <2>1, <2>3, <3>1 DEF Formed
  <2>. QED  BY <2>5, <2>6
<1>2. CASE ~Extends(c.pending, line)
  <2>1. PICK d : d = FlushPending(c)
    OBVIOUS
  <2>2. Formed(d) /\ d.expose = c.expose
    BY <2>1, Flushed
  <2>3. ParseLine(c, line) = Interpret(d, line)
    BY <1>2, <2>1 DEF ParseLine
  <2>. HIDE DEF Expose
  <2>4. PICK open : open = [d EXCEPT !.pending = [kind |-> line.tag, lines |-> <<line>>]]
    OBVIOUS
  <2>5. ASSUME line.tag \in {"ai", "policy", "example"} PROVE Formed(open) /\ open.expose = d.expose
    <3>1. PICK pending : /\ pending = [kind |-> line.tag, lines |-> <<line>>]
                         /\ open = [d EXCEPT !.pending = pending]
      BY <2>4
    <3>2. {"kind", "lines"} \subseteq DOMAIN pending /\ pending.kind = line.tag
      BY <3>1
    <3>. QED  BY <2>2, <2>5, <3>1, <3>2 DEF Formed
  <2>6. CASE line.tag \in {"ai", "policy"}
    <3>1. Interpret(d, line) = [open EXCEPT !.body = Append(@, line)]
      BY <2>6, <2>4 DEF Interpret
    <3>2. PICK body : ParseLine(c, line) = [open EXCEPT !.body = body]
      BY <2>3, <3>1
    <3>3. Formed(open) /\ open.expose = d.expose
      BY <2>6, <2>5
    <3>. QED  BY <2>2, <2>6, <3>2, <3>3 DEF Formed
  <2>7. CASE line.tag = "example"
    <3>1. Interpret(d, line) = open
      BY <2>7, <2>4 DEF Interpret
    <3>. QED  BY <2>2, <2>3, <2>7, <2>5, <3>1
  <2>8. CASE line.tag = "widget"
    <3>1. PICK w : Interpret(d, line) = [d EXCEPT !.widget = w]
      BY <2>8 DEF Interpret
    <3>. QED  BY <2>2, <2>3, <2>8, <3>1 DEF Formed
  <2>9. CASE line.tag = "expose"
    BY <2>2, <2>3, <2>9 DEF Interpret, Formed
  <2>10. CASE line.tag = "arg"
    BY <2>2, <2>3, <2>10 DEF Interpret, Formed
  <2>11. CASE line.tag \notin {"ai", "policy", "example", "widget", "expose", "arg"}
    BY <2>2, <2>3, <2>11 DEF Interpret, Formed
  <2>. QED  BY <2>6, <2>7, <2>8, <2>9, <2>10, <2>11
<1>. QED  BY <1>1, <1>2

LEMMA ExposureStep ==
  ASSUME NEW lines, NEW k \in Nat, NEW e, ExposedUpTo(lines, k, e), NEW e1,
         e1 = IF lines[k + 1].tag = "expose" THEN Expose(lines[k + 1].value) ELSE e
  PROVE  ExposedUpTo(lines, k + 1, e1)
<1>1. \A i \in 1..(k + 1) : i \in 1..k \/ i = k + 1
  OBVIOUS
<1>2. 1..k \subseteq 1..(k + 1) /\ k + 1 \in 1..(k + 1) /\ \A i \in 1..(k + 1) : i <= k + 1
  OBVIOUS
<1>3. CASE lines[k + 1].tag = "expose"
  <2>1. HighestTag(lines, k + 1, k + 1)
    BY <1>2, <1>3 DEF HighestTag
  <2>2. e1 = Expose(lines[k + 1].value)
    BY <1>3
  <2>. QED  BY <1>2, <2>1, <2>2 DEF ExposedUpTo
<1>4. CASE lines[k + 1].tag # "expose" /\ e = "none" /\ \A i \in 1..k : lines[i].tag # "expose"
  <2>1. e1 = "none" /\ \A i \in 1..(k + 1) : lines[i].tag # "expose"
    BY <1>1, <1>4
  <2>. QED  BY <2>1 DEF ExposedUpTo
<1>5. ASSUME lines[k + 1].tag # "expose", NEW i \in 1..k, HighestTag(lines, k, i), e = Expose(lines[i].value)
       PROVE  ExposedUpTo(lines, k + 1, e1)
  <2>1. HighestTag(lines, k + 1, i)
    BY <1>1, <1>2, <1>5 DEF HighestTag
  <2>2. e1 = Expose(lines[i].value) /\ i \in 1..(k + 1)
    BY <1>2, <1>5
  <2>. QED  BY <2>1, <2>2 DEF ExposedUpTo
<1>. QED  BY <1>3, <1>4, <1>5 DEF ExposedUpTo

LEMMA ExposureParsed ==
  ASSUME NEW lines, NEW n \in Nat, DOMAIN lines = 1..n
  PROVE  ExposedUpTo(lines, n, ParseCommentTags(lines).expose)
<1>1. PICK c : /\ c[0] = EmptyComment
               /\ \A k \in 1..n : c[k] = ParseLine(c[k - 1], lines[k])
               /\ FoldLeft(ParseLine, EmptyComment, lines) = c[n]
  BY CommentIsFolded
<1>. DEFINE Good == {k \in Nat : k <= n => Formed(c[k]) /\ ExposedUpTo(lines, k, c[k].expose)}
<1>2. 0 \in Good
  <2>1. Formed(EmptyComment) /\ EmptyComment.expose = "none"
    BY DEF Formed, EmptyComment, NotPending
  <2>2. \A i \in 1..0 : lines[i].tag # "expose"
    OBVIOUS
  <2>. QED  BY <1>1, <2>1, <2>2 DEF ExposedUpTo
<1>3. ASSUME NEW k \in Nat, k \in Good PROVE k + 1 \in Good
  <2>. SUFFICES ASSUME k + 1 <= n
                PROVE  Formed(c[k + 1]) /\ ExposedUpTo(lines, k + 1, c[k + 1].expose)
    OBVIOUS
  <2>1. k + 1 \in 1..n /\ (k + 1) - 1 = k /\ k <= n
    OBVIOUS
  <2>2. Formed(c[k]) /\ ExposedUpTo(lines, k, c[k].expose)
    BY <1>3, <2>1
  <2>3. c[k + 1] = ParseLine(c[k], lines[k + 1])
    <3>1. c[k + 1] = ParseLine(c[(k + 1) - 1], lines[k + 1])
      BY <1>1, <2>1
    <3>. QED  BY <2>1, <3>1
  <2>4. /\ Formed(c[k + 1])
        /\ c[k + 1].expose = IF lines[k + 1].tag = "expose" THEN Expose(lines[k + 1].value) ELSE c[k].expose
    <3>1. PICK d, line : d = c[k] /\ line = lines[k + 1]
      OBVIOUS
    <3>2. /\ Formed(ParseLine(d, line))
          /\ ParseLine(d, line).expose = IF line.tag = "expose" THEN Expose(line.value) ELSE d.expose
      BY <2>2, <3>1, LineParsed
    <3>. QED  BY <2>3, <3>1, <3>2
  <2>. QED  BY <2>2, <2>4, ExposureStep
<1>. HIDE DEF Good
<1>4. n \in Good
  BY <1>2, <1>3, AllNaturals
<1>5. Formed(c[n]) /\ ExposedUpTo(lines, n, c[n].expose)
  BY <1>4 DEF Good
<1>6. PICK p : p = FlushPending(c[n])
  OBVIOUS
<1>7. Formed(p) /\ p.expose = c[n].expose
  BY <1>5, <1>6, Flushed
<1>8. ParseCommentTags(lines).expose = p.expose
  <2>1. ParseCommentTags(lines) = [p EXCEPT !.body = TrimEnd(@)]
    BY <1>1, <1>6 DEF ParseCommentTags
  <2>. QED  BY <1>7, <2>1 DEF Formed
<1>. QED  BY <1>5, <1>7, <1>8

LEMMA ExposeValue ==
  ASSUME NEW v
  PROVE  /\ Expose(v) # "none" <=> v \in {"rpc", "rpc public"}
         /\ Expose(v) = "rpc-public" => v = "rpc public"
  BY Zenon DEF Expose

THEOREM TagsMeanTheirLines ==
  ASSUME NEW lines, NEW n \in Nat, DOMAIN lines = 1..n
  PROVE  /\ ParseCommentTags(lines).expose # "none" <=> Exposes(lines)
         /\ ParseCommentTags(lines).expose = "rpc-public" => ExposesToPublic(lines)
<1>1. PICK e : e = ParseCommentTags(lines).expose
  OBVIOUS
<1>2. ExposedUpTo(lines, n, e)
  BY <1>1, ExposureParsed
<1>3. CASE e = "none" /\ \A i \in 1..n : lines[i].tag # "expose"
  <2>1. ~Exposes(lines)
    BY <1>3 DEF Exposes
  <2>. QED  BY <1>1, <1>3, <2>1
<1>4. ASSUME NEW i \in 1..n, HighestTag(lines, n, i), e = Expose(lines[i].value)
      PROVE  (e # "none" <=> Exposes(lines)) /\ (e = "rpc-public" => ExposesToPublic(lines))
  <2>. DEFINE at == {k \in DOMAIN lines : lines[k].tag = "expose"}
              last == CHOOSE k \in at : \A j \in at : j <= k
  <2>1. i \in at /\ \A j \in at : j <= i
    BY <1>4 DEF HighestTag
  <2>2. last \in at /\ \A j \in at : j <= last
    BY <2>1
  <2>3. last = i
    <3>1. last <= i /\ i <= last /\ last \in 1..n
      BY <2>1, <2>2
    <3>. QED  BY <3>1
  <2>4. at # {}
    BY <2>1
  <2>5. Exposes(lines) <=> lines[i].value \in {"rpc", "rpc public"}
    BY <2>3, <2>4, Zenon DEF Exposes
  <2>6. e # "none" <=> Exposes(lines)
    BY <1>4, <2>5, ExposeValue, Zenon
  <2>7. ASSUME e = "rpc-public" PROVE ExposesToPublic(lines)
    <3>1. PICK v : v = lines[i].value
      OBVIOUS
    <3>2. Expose(v) = "rpc-public"
      BY <1>4, <2>7, <3>1
    <3>3. v = "rpc public"
      BY <3>2, ExposeValue, Zenon
    <3>4. lines[i] \in Range(lines) /\ lines[i].tag = "expose"
      BY <1>4 DEF Range, HighestTag
    <3>. QED  BY <3>1, <3>4, <3>3, Zenon DEF ExposesToPublic
  <2>. QED  BY <2>6, <2>7
<1>. QED  BY <1>1, <1>2, <1>3, <1>4 DEF ExposedUpTo
-----------------------------------------------------------------------------
(* From the compiled schema back to the functions of the database. *)

\* buildFunctionContexts exposes functions that it was given and that pass the
\* guards of decideAndBuild under their own tag.
LEMMA ExposureLemma ==
    ASSUME NEW R, IsFiniteSet(R), NEW rpc,
           NEW fn \in BuildFunctionContexts(R, rpc).functions
    PROVE  \E g \in R :
             /\ fn = FunctionContext(g) /\ fn.qualifiedName = Flat(g)
             /\ ParseCommentTags(g.comment).expose # "none"
             /\ ~Refused(g, ParseCommentTags(g.comment).expose, rpc)
             /\ ~HasDot(g.schema) /\ ~HasDot(g.name)
             /\ \A h \in R : Flat(h) = Flat(g) => h = g
<1> DEFINE Tag(f) == ParseCommentTags(f.comment).expose
           Group(q) == {f \in R : Flat(f) = q}
           tagged == {q \in {Flat(f) : f \in R} : \E f \in Group(q) : Tag(f) # "none"}
           single == {q \in tagged : Cardinality(Group(q)) = 1}
           Only(q) == CHOOSE f \in Group(q) : TRUE
           exposed == {q \in single : /\ ~HasDot(Only(q).schema) /\ ~HasDot(Only(q).name)
                                      /\ ~Refused(Only(q), Tag(Only(q)), rpc)}
<1>1. fn \in {FunctionContext(Only(q)) : q \in exposed}
  BY DEF BuildFunctionContexts
<1>2. PICK q \in exposed : fn = FunctionContext(Only(q))
  BY <1>1
<1>3. IsFiniteSet(Group(q)) /\ Cardinality(Group(q)) = 1
  <2>1. IsFiniteSet(Group(q))
    BY FS_Subset, Group(q) \subseteq R
  <2>2. QED
    BY <2>1
<1>4. PICK g : Group(q) = {g}
  BY <1>3, FS_Singleton
<1>5. Only(q) = g /\ g \in R /\ Flat(g) = q
  BY <1>4
<1>6. PICK f \in Group(q) : Tag(f) # "none"
  OBVIOUS
<1>7. f = g
  BY <1>4
<1>8. ~Refused(g, Tag(g), rpc) /\ ~HasDot(g.schema) /\ ~HasDot(g.name)
  BY <1>5
<1>9. fn = FunctionContext(g) /\ fn.qualifiedName = Flat(g)
  BY <1>2, <1>5 DEF FunctionContext
<1>10. \A h \in R : Flat(h) = Flat(g) => h = g
  BY <1>4, <1>5
<1>11. QED
  BY <1>5, <1>6, <1>7, <1>8, <1>9, <1>10

\* What is read of a function.
RawFunction(d, f) ==
    [schema |-> f.schema, name |-> f.name, arguments |-> BuildArgs(f),
     returns |-> ClassifyReturn(f), security |-> f.security,
     publicExecute |-> PUBLIC \in f.execute,
     searchPath |-> SearchPath(d, f), comment |-> f.comment]

\* Two dotted names that are the same have the same parts, if those of one have no dot.
LEMMA DottedNames ==
  ASSUME NEW a, NEW b, NEW x, NEW y,
         IsIdentifier(a), IsIdentifier(b), IsIdentifier(x), IsIdentifier(y),
         ~HasDot(x), ~HasDot(y), a \o b = x \o y
  PROVE  a = x /\ b = y
<1>1. PICK S : S = Range(a) \cup Range(b) \cup Range(x) \cup Range(y)
  OBVIOUS
<1>2. a \in Seq(S) /\ b \in Seq(S) /\ x \in Seq(S) /\ y \in Seq(S)
  BY <1>1, SeqMonotonic DEF IsIdentifier, IsList
<1>3. \A s \in Seq(S) : s # <<>> => Len(s) \in Nat /\ Len(s) >= 1
  BY EmptySeq, LenProperties
<1>4. Len(x) = 1 /\ Len(y) = 1 /\ Len(a) >= 1 /\ Len(b) >= 1
  <2>1. ~(Len(x) > 1) /\ ~(Len(y) > 1)
    BY DEF HasDot
  <2>2. x # <<>> /\ y # <<>> /\ a # <<>> /\ b # <<>>
    BY DEF IsIdentifier
  <2>3. Len(x) \in Nat /\ Len(y) \in Nat /\ Len(x) >= 1 /\ Len(y) >= 1
    BY <1>2, <1>3, <2>2
  <2>4. Len(a) >= 1 /\ Len(b) >= 1
    BY <1>2, <1>3, <2>2
  <2>5. \A n \in Nat : n >= 1 /\ ~(n > 1) => n = 1
    OBVIOUS
  <2>6. Len(x) = 1 /\ Len(y) = 1
    BY <2>1, <2>3, <2>5, Zenon
  <2>. QED  BY <2>4, <2>6, Zenon
<1>5. Len(a) + Len(b) = 2 /\ Len(a) \in Nat /\ Len(b) \in Nat
  <2>1. Len(a \o b) = Len(a) + Len(b) /\ Len(x \o y) = Len(x) + Len(y)
    BY <1>2, ConcatProperties
  <2>2. Len(a) \in Nat /\ Len(b) \in Nat
    BY <1>2, LenProperties
  <2>. QED  BY <1>4, <2>1, <2>2
<1>6. Len(a) = 1 /\ Len(b) = 1
  BY <1>4, <1>5
<1>7. a[1] = x[1] /\ b[1] = y[1]
  BY <1>2, <1>4, <1>6
<1>. QED  BY <1>2, <1>4, <1>6, <1>7, SeqEqual

\* Of two functions the same is read only if they are one.
LEMMA ReadApart ==
  ASSUME NEW d, NEW f, NEW g, RawFunction(d, f) = RawFunction(d, g)
  PROVE  ArgumentTypes(f) = ArgumentTypes(g)
<1>1. PICK a, b : a = BuildArgs(f) /\ b = BuildArgs(g)
  OBVIOUS
<1>2. a = b
  BY <1>1 DEF RawFunction
<1>3. /\ DOMAIN a = DOMAIN f.args
      /\ \A i \in DOMAIN f.args : a[i].mode = f.args[i].mode /\ a[i].udtName = f.args[i].type
  BY <1>1 DEF BuildArgs
<1>4. /\ DOMAIN b = DOMAIN g.args
      /\ \A i \in DOMAIN g.args : b[i].mode = g.args[i].mode /\ b[i].udtName = g.args[i].type
  BY <1>1 DEF BuildArgs
<1>. QED  BY <1>2, <1>3, <1>4 DEF ArgumentTypes

LEMMA ReadLemma ==
  ASSUME NEW d, NEW o, NEW f \in d.functions, f.schema \in o.schemas
  PROVE  RawFunction(d, f) \in FetchFunctions(d, o)
  BY DEF FetchFunctions, RawFunction

LEMMA TracedLemma ==
  ASSUME NEW d, NEW o, NEW g \in FetchFunctions(d, o)
  PROVE  \E f \in d.functions : f.schema \in o.schemas /\ g = RawFunction(d, f)
  BY DEF FetchFunctions, RawFunction

\* A function whose tag exposes it is exposed, or its name is reported.
LEMMA ReportLemma ==
  ASSUME NEW R, NEW rpc, NEW g \in R, ParseCommentTags(g.comment).expose # "none"
  PROVE  Flat(g) \in {fn.qualifiedName : fn \in BuildFunctionContexts(R, rpc).functions}
                       \cup BuildFunctionContexts(R, rpc).issues
<1> DEFINE Tag(f) == ParseCommentTags(f.comment).expose
           Group(q) == {f \in R : Flat(f) = q}
           tagged == {q \in {Flat(f) : f \in R} : \E f \in Group(q) : Tag(f) # "none"}
           single == {q \in tagged : Cardinality(Group(q)) = 1}
           Only(q) == CHOOSE f \in Group(q) : TRUE
           exposed == {q \in single : /\ ~HasDot(Only(q).schema) /\ ~HasDot(Only(q).name)
                                      /\ ~Refused(Only(q), Tag(Only(q)), rpc)}
<1>1. /\ BuildFunctionContexts(R, rpc).functions = {FunctionContext(Only(q)) : q \in exposed}
      /\ tagged \ exposed \subseteq BuildFunctionContexts(R, rpc).issues
  BY DEF BuildFunctionContexts
<1>2. Flat(g) \in tagged
  OBVIOUS
<1>3. ASSUME Flat(g) \in exposed
      PROVE  Flat(g) \in {fn.qualifiedName : fn \in BuildFunctionContexts(R, rpc).functions}
  <2>1. Only(Flat(g)) \in Group(Flat(g))
    OBVIOUS
  <2>2. FunctionContext(Only(Flat(g))).qualifiedName = Flat(g)
    BY <2>1 DEF FunctionContext
  <2>. HIDE DEF Only, exposed
  <2>. QED  BY <1>1, <1>3, <2>2
<1>. QED  BY <1>1, <1>2, <1>3

LEMMA CompiledExposure ==
  ASSUME NEW d, NEW o, "schemas" \in DOMAIN o, NEW rpc, NEW s
  PROVE  \E o2 : /\ o2.schemas = o.schemas \cap DOMAIN d.schemas
                 /\ BuildSchemaContext(Introspect(d, o), rpc, s).functions
                      = BuildFunctionContexts(FetchFunctions(d, o2), rpc).functions
                 /\ BuildFunctionContexts(FetchFunctions(d, o2), rpc).issues
                      \subseteq BuildSchemaContext(Introspect(d, o), rpc, s).issues
<1>1. PICK o2 : o2 = [o EXCEPT !.schemas = @ \cap DOMAIN d.schemas]
  OBVIOUS
<1>2. Introspect(d, o).functions = FetchFunctions(d, o2)
  BY <1>1 DEF Introspect
<1>3. \A raw : /\ BuildSchemaContext(raw, rpc, s).functions
                    = BuildFunctionContexts(raw.functions, rpc).functions
               /\ BuildFunctionContexts(raw.functions, rpc).issues
                    \subseteq BuildSchemaContext(raw, rpc, s).issues
  BY DEF BuildSchemaContext
<1>4. o2.schemas = o.schemas \cap DOMAIN d.schemas
  BY <1>1
<1>. QED  BY <1>2, <1>3, <1>4

\* fetchFunctions reads finitely many functions.
LEMMA FetchFinite ==
    ASSUME NEW d, IsFiniteSet(d.functions), NEW o
    PROVE  IsFiniteSet(FetchFunctions(d, o))
<1> DEFINE D == {x \in d.functions : x.schema \in o.schemas}
           Raw(f) == [schema |-> f.schema, name |-> f.name, arguments |-> BuildArgs(f),
                      returns |-> ClassifyReturn(f), security |-> f.security,
                      publicExecute |-> PUBLIC \in f.execute,
                      searchPath |-> SearchPath(d, f), comment |-> f.comment]
           raw == [f \in D |-> Raw(f)]
<1>1. IsFiniteSet(D)
  BY FS_Subset, D \subseteq d.functions
<1>2. FetchFunctions(d, o) = {Raw(f) : f \in D}
  BY DEF FetchFunctions
<1> HIDE DEF D, Raw
<1>3. raw \in Surjection(D, {Raw(f) : f \in D})
  BY DEF Surjection
<1>4. QED
  BY <1>1, <1>2, <1>3, FS_Surjection

-----------------------------------------------------------------------------
(* What is kept of a list. *)

\* The numbers above one of a set are those that are not at most it.
LEMMA RankAbove ==
    ASSUME NEW n \in Nat, NEW S, S \subseteq 1..n, NEW i \in S
    PROVE  Cardinality({j \in S : j > i}) = Cardinality(S) - Rank(S, i) - 1
<1>1. PICK below, above, rest : /\ below = {j \in S : j < i} /\ above = {j \in S : j > i}
                                /\ rest = above \cup {i}
  OBVIOUS
<1>2. \A j \in S : j \in Int
  OBVIOUS
<1>3. below \subseteq S /\ above \subseteq S /\ rest \subseteq S /\ i \notin above
  BY <1>1, <1>2
<1>4. S = below \cup rest /\ below \cap rest = {}
  <2>1. \A j \in S : j < i \/ j > i \/ j = i
    BY <1>2
  <2>2. \A j \in S : j < i => ~(j > i) /\ j # i
    BY <1>2
  <2>3. S \subseteq below \cup rest
    BY <1>1, <2>1
  <2>. QED  BY <1>1, <1>3, <2>2, <2>3
<1>5. IsFiniteSet(S)
  BY FinitePart
<1>6. IsFiniteSet(below) /\ IsFiniteSet(above) /\ IsFiniteSet(rest)
  BY <1>3, <1>5, FS_Subset
<1>7. Cardinality(rest) = Cardinality(above) + 1
  BY <1>1, <1>3, <1>6, FS_AddElement
<1>8. Cardinality(S) = Cardinality(below) + Cardinality(rest) - Cardinality({})
  BY <1>4, <1>6, FS_Union
<1>9. Cardinality({}) = 0 /\ Cardinality(above) \in Nat /\ Cardinality(below) \in Nat
  BY <1>6, FS_EmptySet, FS_CardinalityType
<1>10. Rank(S, i) = Cardinality(below)
  BY <1>1 DEF Rank
<1>. QED  BY <1>1, <1>7, <1>8, <1>9, <1>10

\* What is selected at one more position, behind all others, is appended.
LEMMA SelectedAppended ==
    ASSUME NEW n \in Nat, NEW S, S \subseteq 1..n, NEW m \in Nat, n < m, NEW f
    PROVE  Selected(f, S \cup {m}) = Append(Selected(f, S), f[m])
<1>1. S \cup {m} \subseteq 1..m
  <2>1. m \in 1..m
    OBVIOUS
  <2>2. \A i \in 1..n : i \in 1..m
    OBVIOUS
  <2>. QED  BY <2>1, <2>2
<1>2. PICK T : T = S \cup {m} /\ T \subseteq 1..m
  BY <1>1
<1>s. PICK size : size = Cardinality(S)
  OBVIOUS
<1>3. size \in Nat /\ DOMAIN Ascending(S) = 1..size
  BY <1>s, AscendingLists
<1>a. /\ Cardinality(T) = size + 1
      /\ (\A k \in 1..size : Ascending(T)[k] = Ascending(S)[k]) /\ Ascending(T)[size + 1] = m
  <2>1. /\ Cardinality(S \cup {m}) = Cardinality(S) + 1
        /\ \A k \in 1..Cardinality(S) : Ascending(S \cup {m})[k] = Ascending(S)[k]
        /\ Ascending(S \cup {m})[Cardinality(S) + 1] = m
    BY AscendingAppended
  <2>. QED  BY <1>2, <1>s, <2>1
<1>4. Cardinality(T) = size + 1 /\ DOMAIN Ascending(T) = 1..(size + 1)
  <2>1. DOMAIN Ascending(T) = 1..Cardinality(T)
    BY <1>2, AscendingLists
  <2>. QED  BY <1>a, <2>1
<1>5. (\A k \in 1..size : Ascending(T)[k] = Ascending(S)[k]) /\ Ascending(T)[size + 1] = m
  BY <1>a
<1>6. PICK s : s = [k \in 1..size |-> f[Ascending(S)[k]]]
  OBVIOUS
<1>7. Selected(f, S) = s /\ Selected(f, T) = [k \in 1..(size + 1) |-> f[Ascending(T)[k]]]
  BY <1>3, <1>4, <1>6 DEF Selected
<1>8. \A k \in 1..(size + 1) : f[Ascending(T)[k]] = IF k = size + 1 THEN f[m] ELSE s[k]
  BY <1>3, <1>5, <1>6
<1>9. Len(s) = size
  BY <1>3, <1>6
<1>10. Append(s, f[m]) = [k \in 1..(size + 1) |-> IF k = size + 1 THEN f[m] ELSE s[k]]
  BY <1>9
<1>. QED  BY <1>2, <1>7, <1>8, <1>10

Kinds == {"ai", "policy", "example"}

\* What BelongsTo asks of each line of the block that line h opens.
TakenBy(lines, h, line) ==
    IF lines[h].tag = "example"
    THEN line.tag \notin KnownTags /\ (line.indented \/ IsBlank(line))
    ELSE line.indented /\ line.tag = "" /\ ~IsBlank(line)

Heads(lines, k, kind) == {i \in 1..k : lines[i].tag = kind}

\* The block of line h is still open after k lines.
Open(lines, k, h) ==
    h \in 1..k /\ lines[h].tag \in Kinds /\ \A i \in (h + 1)..k : TakenBy(lines, h, lines[i])

Closed(lines, k, kind) == {h \in Heads(lines, k, kind) : ~Open(lines, k, h)}

\* The lines of the block of line h among the first k.
Prior(lines, k, h) == {h} \cup {i \in 1..k : BelongsTo(lines, i, h)}

\* The line is of the description.
InBody(lines, i) ==
    /\ lines[i].tag \notin {"widget", "expose", "arg", "example"}
    /\ ~\E h \in 1 .. i - 1 : lines[h].tag = "example" /\ BelongsTo(lines, i, h)

\* No open block takes the line that follows the first k.
Ended(lines, k) == \A h \in 1..k : Open(lines, k, h) => ~TakenBy(lines, h, lines[k + 1])

LEMMA Belonging ==
    ASSUME NEW lines, NEW i, NEW h
    PROVE  BelongsTo(lines, i, h) <=> h < i /\ \A k \in (h + 1)..i : TakenBy(lines, h, lines[k])
  BY Zenon DEF BelongsTo, TakenBy

\* No line that opens a block belongs to another one.
LEMMA HeadsAreNotTaken ==
    ASSUME NEW lines, NEW h, NEW line, TakenBy(lines, h, line)
    PROVE  line.tag \notin Kinds
  BY DEF TakenBy, Kinds, KnownTags

\* The open block is that of the last line that opens one.
LEMMA OneOpen ==
    ASSUME NEW lines, NEW k \in Nat, NEW h, Open(lines, k, h)
    PROVE  /\ h \in 1..k /\ lines[h].tag \in Kinds
           /\ \A g \in 1..k : lines[g].tag \in Kinds /\ g # h => g < h /\ ~Open(lines, k, g)
<1>1. h \in 1..k /\ lines[h].tag \in Kinds
  BY DEF Open
<1>2. ASSUME NEW g \in 1..k, NEW f \in 1..k, Open(lines, k, f), lines[g].tag \in Kinds
      PROVE  ~(f < g)
  <2>. SUFFICES ASSUME f < g PROVE FALSE
    OBVIOUS
  <2>1. g \in (f + 1)..k
    BY <1>2
  <2>2. TakenBy(lines, f, lines[g])
    BY <1>2, <2>1 DEF Open
  <2>. QED  BY <1>2, <2>2, HeadsAreNotTaken
<1>3. ASSUME NEW g \in 1..k, lines[g].tag \in Kinds, g # h
      PROVE  g < h /\ ~Open(lines, k, g)
  <2>1. ~(h < g)
    BY <1>1, <1>2, <1>3
  <2>2. g < h
    BY <1>1, <1>3, <2>1
  <2>. QED  BY <1>1, <1>2, <2>2
<1>. QED  BY <1>1, <1>3

\* A block that takes the next line stays open, and nothing else changes.
LEMMA BlockGoesOn ==
    ASSUME NEW lines, NEW k \in Nat, NEW h, Open(lines, k, h), TakenBy(lines, h, lines[k + 1])
    PROVE  /\ Open(lines, k + 1, h)
           /\ Prior(lines, k + 1, h) = Prior(lines, k, h) \cup {k + 1}
           /\ \A kind \in Kinds : Closed(lines, k + 1, kind) = Closed(lines, k, kind)
           /\ InBody(lines, k + 1) <=> lines[h].tag # "example"
<1>1. h \in 1..k /\ h \in 1..(k + 1) /\ h < k + 1 /\ lines[h].tag \in Kinds
  BY OneOpen
<1>2. lines[k + 1].tag \notin Kinds
  BY HeadsAreNotTaken
<1>3. Open(lines, k + 1, h)
  <2>1. \A i \in (h + 1)..(k + 1) : i \in (h + 1)..k \/ i = k + 1
    BY <1>1
  <2>. QED  BY <1>1, <2>1 DEF Open
<1>4. BelongsTo(lines, k + 1, h)
  BY <1>1, <1>3, Belonging DEF Open
<1>5. \A i \in 1..(k + 1) : i \in 1..k \/ i = k + 1
  OBVIOUS
<1>6. \A i \in 1..k : i \in 1..(k + 1)
  OBVIOUS
<1>6a. k + 1 \in 1..(k + 1)
  OBVIOUS
<1>7. Prior(lines, k + 1, h) = Prior(lines, k, h) \cup {k + 1}
  BY <1>4, <1>5, <1>6, <1>6a DEF Prior
<1>8. ASSUME NEW kind \in Kinds PROVE Closed(lines, k + 1, kind) = Closed(lines, k, kind)
  <2>1. Heads(lines, k + 1, kind) = Heads(lines, k, kind)
    BY <1>2, <1>5, <1>6 DEF Heads
  <2>2. ASSUME NEW g \in Heads(lines, k, kind) PROVE Open(lines, k + 1, g) <=> Open(lines, k, g)
    <3>1. g \in 1..k /\ g \in 1..(k + 1) /\ lines[g].tag \in Kinds
      BY <1>6 DEF Heads
    <3>2. CASE g = h
      BY <1>3, <3>2
    <3>3. CASE g # h
      <4>1. ~Open(lines, k, g)
        BY <3>1, <3>3, OneOpen
      <4>2. ~Open(lines, k + 1, g)
        <5>1. k + 1 \in Nat
          OBVIOUS
        <5>. QED  BY <1>3, <3>1, <3>3, <5>1, OneOpen
      <4>. QED  BY <4>1, <4>2
    <3>. QED  BY <3>2, <3>3
  <2>. QED  BY <2>1, <2>2 DEF Closed
<1>9. InBody(lines, k + 1) <=> lines[h].tag # "example"
  <2>1. (k + 1) - 1 = k
    OBVIOUS
  <2>2. CASE lines[h].tag = "example"
    BY <1>1, <1>4, <2>1, <2>2 DEF InBody
  <2>3. CASE lines[h].tag # "example"
    <3>1. lines[k + 1].tag = ""
      BY <2>3 DEF TakenBy
    <3>2. ASSUME NEW g \in 1..k, lines[g].tag = "example", BelongsTo(lines, k + 1, g) PROVE FALSE
      <4>1. \A i \in (g + 1)..(k + 1) : TakenBy(lines, g, lines[i])
        BY <3>2, Belonging
      <4>2. g \in 1..(k + 1) /\ lines[g].tag \in Kinds /\ k + 1 \in Nat
        BY <3>2, <1>6 DEF Kinds
      <4>3. Open(lines, k + 1, g)
        BY <4>1, <4>2 DEF Open
      <4>. QED  BY <1>3, <2>3, <3>2, <4>2, <4>3, OneOpen
    <3>. QED  BY <2>1, <2>3, <3>1, <3>2 DEF InBody
  <2>. QED  BY <2>2, <2>3
<1>. QED  BY <1>3, <1>7, <1>8, <1>9

\* Once no block takes the next line, every block before it is closed, and the
\* line is of the description unless it is a directive or an example.
LEMMA BlockEnds ==
    ASSUME NEW lines, NEW k \in Nat, Ended(lines, k)
    PROVE  /\ \A kind \in Kinds : Closed(lines, k + 1, kind) = Heads(lines, k, kind)
           /\ \A h : Open(lines, k + 1, h) <=> h = k + 1 /\ lines[h].tag \in Kinds
           /\ InBody(lines, k + 1) <=> lines[k + 1].tag \notin {"widget", "expose", "arg", "example"}
<1>1. \A i \in 1..(k + 1) : i \in 1..k \/ i = k + 1
  OBVIOUS
<1>2. \A i \in 1..k : i \in 1..(k + 1) /\ i # k + 1
  OBVIOUS
<1>3. ASSUME NEW h \in 1..k, lines[h].tag \in Kinds,
             \A i \in (h + 1)..(k + 1) : TakenBy(lines, h, lines[i])
      PROVE  FALSE
  <2>1. \A i \in (h + 1)..k : i \in (h + 1)..(k + 1)
    OBVIOUS
  <2>2. k + 1 \in (h + 1)..(k + 1)
    OBVIOUS
  <2>. QED  BY <1>3, <2>1, <2>2 DEF Ended, Open
<1>4. ASSUME NEW h PROVE Open(lines, k + 1, h) <=> h = k + 1 /\ lines[h].tag \in Kinds
  <2>1. ASSUME Open(lines, k + 1, h) PROVE h = k + 1 /\ lines[h].tag \in Kinds
    BY <1>1, <1>3, <2>1 DEF Open
  <2>2. ASSUME h = k + 1, lines[h].tag \in Kinds PROVE Open(lines, k + 1, h)
    <3>1. \A i \in (k + 1 + 1)..(k + 1) : FALSE
      OBVIOUS
    <3>2. k + 1 \in 1..(k + 1)
      OBVIOUS
    <3>. QED  BY <2>2, <3>1, <3>2 DEF Open
  <2>. QED  BY <2>1, <2>2
<1>5. ASSUME NEW kind \in Kinds PROVE Closed(lines, k + 1, kind) = Heads(lines, k, kind)
  BY <1>1, <1>2, <1>4 DEF Closed, Heads
<1>6. ~\E h \in 1..k : lines[h].tag = "example" /\ BelongsTo(lines, k + 1, h)
  BY <1>3, Belonging DEF Kinds
<1>7. (k + 1) - 1 = k
  OBVIOUS
<1>8. InBody(lines, k + 1) <=> lines[k + 1].tag \notin {"widget", "expose", "arg", "example"}
  BY <1>6, <1>7 DEF InBody
<1>. QED  BY <1>4, <1>5, <1>8

\* A block that the next line ends, or that the comment ends, is complete.
LEMMA BlockIsComplete ==
    ASSUME NEW lines, NEW n \in Nat, DOMAIN lines = 1..n, NEW k \in 0..n, NEW h,
           Open(lines, k, h), k = n \/ Ended(lines, k)
    PROVE  /\ Prior(lines, k, h) = Block(lines, h)
           /\ \A kind \in Kinds :
                 /\ Closed(lines, k, kind) \subseteq 1..(h - 1)
                 /\ Heads(lines, k, kind) = IF lines[h].tag = kind
                                            THEN Closed(lines, k, kind) \cup {h}
                                            ELSE Closed(lines, k, kind)
<1>1. k \in Nat /\ h \in 1..k /\ lines[h].tag \in Kinds
      /\ \A g \in 1..k : lines[g].tag \in Kinds /\ g # h => g < h /\ ~Open(lines, k, g)
  <2>1. k \in Nat
    OBVIOUS
  <2>. QED  BY <2>1, OneOpen
<1>2. ASSUME NEW i \in 1..n, BelongsTo(lines, i, h) PROVE i \in 1..k
  <2>. SUFFICES ASSUME i \notin 1..k PROVE FALSE
    OBVIOUS
  <2>1. k + 1 <= i /\ k # n
    OBVIOUS
  <2>2. k + 1 \in (h + 1)..i
    BY <1>1, <2>1
  <2>3. TakenBy(lines, h, lines[k + 1])
    BY <1>2, <2>2, Belonging
  <2>. QED  BY <1>1, <2>1, <2>3 DEF Ended
<1>3. \A i \in 1..k : i \in 1..n
  OBVIOUS
<1>4. Prior(lines, k, h) = Block(lines, h)
  BY <1>2, <1>3 DEF Prior, Block
<1>5. ASSUME NEW kind \in Kinds
      PROVE  /\ Closed(lines, k, kind) \subseteq 1..(h - 1)
             /\ Heads(lines, k, kind) = IF lines[h].tag = kind
                                        THEN Closed(lines, k, kind) \cup {h}
                                        ELSE Closed(lines, k, kind)
  <2>1. ASSUME NEW g \in Closed(lines, k, kind) PROVE g \in 1..(h - 1)
    <3>1. g \in 1..k /\ g # h /\ lines[g].tag \in Kinds
      BY DEF Closed, Heads
    <3>2. g < h
      BY <1>1, <3>1
    <3>. QED  BY <1>1, <3>1, <3>2
  <2>2. \A g \in Heads(lines, k, kind) : g \in Closed(lines, k, kind) \/ g = h
    BY <1>1 DEF Closed, Heads
  <2>3. \A g \in Closed(lines, k, kind) : g \in Heads(lines, k, kind)
    BY DEF Closed
  <2>4. h \in Heads(lines, k, kind) <=> lines[h].tag = kind
    BY <1>1 DEF Heads
  <2>. QED  BY <2>1, <2>2, <2>3, <2>4
<1>. QED  BY <1>4, <1>5
-----------------------------------------------------------------------------
(* What parseCommentTags has placed where, k lines into a comment. *)

AsNote(lines, h) == NoteText(Selected(lines, Block(lines, h)))
AsExample(lines, h) ==
    [description |-> Head(Selected(lines, Block(lines, h))).value,
     sql |-> TrimEnd(Tail(Selected(lines, Block(lines, h))))]
AsNotes(lines, n) == [h \in 1..n |-> AsNote(lines, h)]
AsExamples(lines, n) == [h \in 1..n |-> AsExample(lines, h)]

InBodyUpTo(lines, k) == {i \in 1..k : InBody(lines, i)}

\* The blocks that start at some lines are where they belong, and so is the
\* description of the first k lines.
Carries(lines, n, k, c, ai, policy, examples) ==
    /\ Formed(c)
    /\ c.ai = Selected(AsNotes(lines, n), ai)
    /\ c.policy = Selected(AsNotes(lines, n), policy)
    /\ c.examples = Selected(AsExamples(lines, n), examples)
    /\ c.body = Selected(lines, InBodyUpTo(lines, k))

\* After k lines, the closed blocks are in place and the open one is pending.
Placed(lines, n, k, c) ==
    /\ Carries(lines, n, k, c, Closed(lines, k, "ai"), Closed(lines, k, "policy"),
             Closed(lines, k, "example"))
    /\ \/ c.pending = NotPending /\ \A h : ~Open(lines, k, h)
       \/ \E h \in 1..k : /\ Open(lines, k, h)
                          /\ c.pending = [kind |-> lines[h].tag, lines |-> Selected(lines, Prior(lines, k, h))]

\* With the pending block flushed, all blocks are in place.
Settled(lines, n, k, c) ==
    /\ Carries(lines, n, k, c, Heads(lines, k, "ai"), Heads(lines, k, "policy"), Heads(lines, k, "example"))
    /\ c.pending = NotPending

\* What flushing does, by the kind of the block that is pending.
LEMMA FlushedParts ==
    ASSUME NEW c, Formed(c), NEW d, d = FlushPending(c)
    PROVE  /\ c.pending.kind = "" => d = c
           /\ c.pending.kind \in Kinds => d.pending = NotPending /\ d.body = c.body
           /\ c.pending.kind = "example" =>
                 /\ d.ai = c.ai /\ d.policy = c.policy
                 /\ d.examples = Append(c.examples, [description |-> Head(c.pending.lines).value,
                                                     sql |-> TrimEnd(Tail(c.pending.lines))])
           /\ c.pending.kind = "ai" =>
                 /\ d.ai = Append(c.ai, NoteText(c.pending.lines))
                 /\ d.policy = c.policy /\ d.examples = c.examples
           /\ c.pending.kind = "policy" =>
                 /\ d.policy = Append(c.policy, NoteText(c.pending.lines))
                 /\ d.ai = c.ai /\ d.examples = c.examples
<1>1. PICK done : done = [c EXCEPT !.pending = NotPending]
  OBVIOUS
<1>2. /\ DOMAIN done = DOMAIN c /\ done.pending = NotPending /\ done.body = c.body
      /\ done.ai = c.ai /\ done.policy = c.policy /\ done.examples = c.examples
  BY <1>1 DEF Formed
<1>3. CASE c.pending.kind = ""
  BY <1>3 DEF FlushPending, Kinds
<1>4. CASE c.pending.kind = "example"
  <2>1. PICK example : example = [description |-> Head(c.pending.lines).value,
                                  sql |-> TrimEnd(Tail(c.pending.lines))]
    OBVIOUS
  <2>2. d = [done EXCEPT !.examples = Append(@, example)]
    BY <1>1, <1>4, <2>1 DEF FlushPending
  <2>. QED  BY <1>2, <1>4, <2>1, <2>2 DEF Formed
<1>5. CASE c.pending.kind = "ai"
  <2>1. PICK note : note = NoteText(c.pending.lines)
    OBVIOUS
  <2>2. d = [done EXCEPT !.ai = Append(@, note)]
    BY <1>1, <1>5, <2>1 DEF FlushPending
  <2>. QED  BY <1>2, <1>5, <2>1, <2>2 DEF Formed
<1>6. CASE c.pending.kind = "policy"
  <2>1. PICK note : note = NoteText(c.pending.lines)
    OBVIOUS
  <2>2. d = [done EXCEPT !.policy = Append(@, note)]
    BY <1>1, <1>6, <2>1 DEF FlushPending
  <2>. QED  BY <1>2, <1>6, <2>1, <2>2 DEF Formed
<1>. QED  BY <1>3, <1>4, <1>5, <1>6 DEF Formed, Kinds

\* Flushing puts the pending block where it belongs, once it is complete.
LEMMA FlushingPlaces ==
    ASSUME NEW lines, NEW n \in Nat, DOMAIN lines = 1..n, NEW k \in 0..n,
           k = n \/ Ended(lines, k), NEW c, Placed(lines, n, k, c), NEW d, d = FlushPending(c)
    PROVE  Settled(lines, n, k, d)
<1>1. Formed(d) /\ Formed(c)
  BY Flushed DEF Placed, Carries
<1>2. CASE c.pending = NotPending /\ \A h : ~Open(lines, k, h)
  <2>1. d = c
    <3>1. c.pending.kind = ""
      <4>1. NotPending.kind = ""
        BY DEF NotPending
      <4>. QED  BY <1>2, <4>1
    <3>. QED  BY <3>1 DEF FlushPending
  <2>2. \A kind : Closed(lines, k, kind) = Heads(lines, k, kind)
    BY <1>2 DEF Closed
  <2>. QED  BY <1>2, <2>1, <2>2 DEF Placed, Settled
<1>3. ASSUME NEW h \in 1..k, Open(lines, k, h),
             c.pending = [kind |-> lines[h].tag, lines |-> Selected(lines, Prior(lines, k, h))]
      PROVE  Settled(lines, n, k, d)
  <2>1. /\ Prior(lines, k, h) = Block(lines, h)
        /\ \A kind \in Kinds :
              /\ Closed(lines, k, kind) \subseteq 1..(h - 1)
              /\ Heads(lines, k, kind) = IF lines[h].tag = kind
                                         THEN Closed(lines, k, kind) \cup {h}
                                         ELSE Closed(lines, k, kind)
    BY <1>3, BlockIsComplete
  <2>2. PICK block : block = Selected(lines, Block(lines, h))
    OBVIOUS
  <2>3. c.pending.kind = lines[h].tag /\ c.pending.lines = block
    BY <1>3, <2>1, <2>2
  <2>4. lines[h].tag \in Kinds
    BY <1>3 DEF Open
  <2>5. ASSUME NEW f, NEW kind \in Kinds, lines[h].tag = kind
        PROVE  Selected(f, Heads(lines, k, kind)) = Append(Selected(f, Closed(lines, k, kind)), f[h])
    <3>1. PICK S : S = Closed(lines, k, kind)
      OBVIOUS
    <3>2. S \subseteq 1..(h - 1) /\ Heads(lines, k, kind) = S \cup {h}
      BY <2>1, <2>5, <3>1
    <3>3. PICK m \in Nat : S \subseteq 1..m /\ h \in Nat /\ m < h
      <4>1. h - 1 \in Nat /\ h \in Nat /\ h - 1 < h
        OBVIOUS
      <4>. QED  BY <3>2, <4>1
    <3>4. Selected(f, S \cup {h}) = Append(Selected(f, S), f[h])
      BY <3>3, SelectedAppended
    <3>. QED  BY <3>1, <3>2, <3>4
  <2>6. \A kind \in Kinds : lines[h].tag # kind => Heads(lines, k, kind) = Closed(lines, k, kind)
    BY <2>1
  <2>7. h \in 1..n
    OBVIOUS
  <2>8. AsNotes(lines, n)[h] = NoteText(block)
    BY <2>2, <2>7 DEF AsNotes, AsNote
  <2>9. AsExamples(lines, n)[h] = [description |-> Head(block).value, sql |-> TrimEnd(Tail(block))]
    BY <2>2, <2>7 DEF AsExamples, AsExample
  <2>10. /\ c.ai = Selected(AsNotes(lines, n), Closed(lines, k, "ai"))
         /\ c.policy = Selected(AsNotes(lines, n), Closed(lines, k, "policy"))
         /\ c.examples = Selected(AsExamples(lines, n), Closed(lines, k, "example"))
         /\ c.body = Selected(lines, InBodyUpTo(lines, k))
    BY DEF Placed, Carries
  <2>11. d.pending = NotPending /\ d.body = c.body
    BY <1>1, <2>3, <2>4, FlushedParts
  <2>12. "ai" \in Kinds /\ "policy" \in Kinds /\ "example" \in Kinds
    BY DEF Kinds
  <2>13. CASE lines[h].tag = "example"
    <3>1. /\ d.ai = c.ai /\ d.policy = c.policy
          /\ d.examples = Append(c.examples, [description |-> Head(block).value,
                                              sql |-> TrimEnd(Tail(block))])
      BY <1>1, <2>3, <2>13, FlushedParts
    <3>2. d.examples = Selected(AsExamples(lines, n), Heads(lines, k, "example"))
      BY <2>5, <2>9, <2>10, <2>12, <2>13, <3>1
    <3>3. /\ Heads(lines, k, "ai") = Closed(lines, k, "ai")
          /\ Heads(lines, k, "policy") = Closed(lines, k, "policy")
      BY <2>6, <2>12, <2>13
    <3>. QED  BY <1>1, <2>10, <2>11, <3>1, <3>2, <3>3 DEF Settled, Carries
  <2>14. CASE lines[h].tag = "ai"
    <3>1. d.ai = Append(c.ai, NoteText(block)) /\ d.policy = c.policy /\ d.examples = c.examples
      BY <1>1, <2>3, <2>14, FlushedParts
    <3>2. d.ai = Selected(AsNotes(lines, n), Heads(lines, k, "ai"))
      BY <2>5, <2>8, <2>10, <2>12, <2>14, <3>1
    <3>3. /\ Heads(lines, k, "example") = Closed(lines, k, "example")
          /\ Heads(lines, k, "policy") = Closed(lines, k, "policy")
      BY <2>6, <2>12, <2>14
    <3>. QED  BY <1>1, <2>10, <2>11, <3>1, <3>2, <3>3 DEF Settled, Carries
  <2>15. CASE lines[h].tag = "policy"
    <3>1. d.policy = Append(c.policy, NoteText(block)) /\ d.ai = c.ai /\ d.examples = c.examples
      BY <1>1, <2>3, <2>15, FlushedParts
    <3>2. d.policy = Selected(AsNotes(lines, n), Heads(lines, k, "policy"))
      BY <2>5, <2>8, <2>10, <2>12, <2>15, <3>1
    <3>3. /\ Heads(lines, k, "example") = Closed(lines, k, "example")
          /\ Heads(lines, k, "ai") = Closed(lines, k, "ai")
      BY <2>6, <2>12, <2>15
    <3>. QED  BY <1>1, <2>10, <2>11, <3>1, <3>2, <3>3 DEF Settled, Carries
  <2>. QED  BY <2>4, <2>13, <2>14, <2>15 DEF Kinds
<1>. QED  BY <1>2, <1>3 DEF Placed

\* What a line that no block takes does.
LEMMA InterpretedParts ==
    ASSUME NEW d, Formed(d), NEW line, NEW e, e = Interpret(d, line)
    PROVE  /\ e.ai = d.ai /\ e.policy = d.policy /\ e.examples = d.examples
           /\ e.pending = IF line.tag \in Kinds THEN [kind |-> line.tag, lines |-> <<line>>] ELSE d.pending
           /\ e.body = IF line.tag \in {"widget", "expose", "arg", "example"}
                       THEN d.body ELSE Append(d.body, line)
<1>1. PICK pending : pending = [kind |-> line.tag, lines |-> <<line>>]
  OBVIOUS
<1>2. PICK open : open = [d EXCEPT !.pending = pending]
  OBVIOUS
<1>3. /\ DOMAIN open = DOMAIN d /\ open.pending = pending /\ open.body = d.body
      /\ open.ai = d.ai /\ open.policy = d.policy /\ open.examples = d.examples
  BY <1>2 DEF Formed
<1>4. CASE line.tag \in {"ai", "policy"}
  <2>1. e = [open EXCEPT !.body = Append(@, line)]
    BY <1>1, <1>2, <1>4 DEF Interpret
  <2>2. /\ e.pending = pending /\ e.body = Append(d.body, line)
        /\ e.ai = d.ai /\ e.policy = d.policy /\ e.examples = d.examples
    BY <1>3, <2>1 DEF Formed
  <2>. QED  BY <1>1, <1>4, <2>2 DEF Kinds
<1>5. CASE line.tag = "example"
  <2>1. e = open
    BY <1>1, <1>2, <1>5 DEF Interpret
  <2>. QED  BY <1>1, <1>3, <1>5, <2>1 DEF Kinds
<1>6. CASE line.tag = "widget"
  <2>1. PICK w : e = [d EXCEPT !.widget = w]
    BY <1>6 DEF Interpret
  <2>. QED  BY <1>6, <2>1 DEF Formed, Kinds
<1>7. CASE line.tag = "expose"
  <2>1. PICK x : e = [d EXCEPT !.expose = x]
    BY <1>7 DEF Interpret
  <2>. QED  BY <1>7, <2>1 DEF Formed, Kinds
<1>8. CASE line.tag = "arg"
  <2>1. e = d \/ \E args : e = [d EXCEPT !.args = args]
    BY <1>8 DEF Interpret
  <2>. QED  BY <1>8, <2>1 DEF Formed, Kinds
<1>9. CASE line.tag \notin {"ai", "policy", "example", "widget", "expose", "arg"}
  <2>1. e = [d EXCEPT !.body = Append(@, line)]
    BY <1>9 DEF Interpret
  <2>. QED  BY <1>9, <2>1 DEF Formed, Kinds
<1>. QED  BY <1>4, <1>5, <1>6, <1>7, <1>8, <1>9

\* The description grows by the next line, or not.
LEMMA InBodyNext ==
    ASSUME NEW lines, NEW k \in Nat
    PROVE  Selected(lines, InBodyUpTo(lines, k + 1))
             = IF InBody(lines, k + 1) THEN Append(Selected(lines, InBodyUpTo(lines, k)), lines[k + 1])
               ELSE Selected(lines, InBodyUpTo(lines, k))
<1>1. PICK S : S = InBodyUpTo(lines, k) /\ S \subseteq 1..k
  BY DEF InBodyUpTo
<1>2. \A i \in 1..(k + 1) : i \in 1..k \/ i = k + 1
  OBVIOUS
<1>3. (\A i \in 1..k : i \in 1..(k + 1)) /\ k + 1 \in 1..(k + 1)
  OBVIOUS
<1>4. InBodyUpTo(lines, k + 1) = IF InBody(lines, k + 1) THEN S \cup {k + 1} ELSE S
  BY <1>1, <1>2, <1>3 DEF InBodyUpTo
<1>5. PICK m \in Nat : m = k + 1 /\ k < m
  OBVIOUS
<1>6. Selected(lines, S \cup {m}) = Append(Selected(lines, S), lines[m])
  BY <1>1, <1>5, SelectedAppended
<1>. QED  BY <1>1, <1>4, <1>5, <1>6

\* Only the line that opens a block is in it yet.
LEMMA BlockOpens ==
    ASSUME NEW lines, NEW k \in Nat
    PROVE  Selected(lines, Prior(lines, k + 1, k + 1)) = <<lines[k + 1]>>
<1>1. \A i \in 1..(k + 1) : ~BelongsTo(lines, i, k + 1)
  <2>1. \A i \in 1..(k + 1) : ~(k + 1 < i)
    OBVIOUS
  <2>. QED  BY <2>1, Belonging
<1>2. Prior(lines, k + 1, k + 1) = {} \cup {k + 1}
  BY <1>1 DEF Prior
<1>3. PICK m \in Nat : m = k + 1 /\ 0 < m
  OBVIOUS
<1>4. PICK none : none = {}
  OBVIOUS
<1>5. PICK z \in Nat : none \subseteq 1..z /\ z < m
  BY <1>3, <1>4
<1>6. Selected(lines, none \cup {m}) = Append(Selected(lines, none), lines[m])
  BY <1>5, SelectedAppended
<1>7. Selected(lines, none) = <<>>
  BY <1>4, NothingSelected
<1>8. Append(<<>>, lines[m]) = <<lines[m]>>
  OBVIOUS
<1>. QED  BY <1>2, <1>3, <1>4, <1>6, <1>7, <1>8

\* A line that no block takes is placed, and may open a block.
LEMMA InterpretingPlaces ==
    ASSUME NEW lines, NEW n \in Nat, NEW k \in Nat, Ended(lines, k),
           NEW d, Settled(lines, n, k, d), NEW e, e = Interpret(d, lines[k + 1]), Formed(e)
    PROVE  Placed(lines, n, k + 1, e)
<1>1. PICK line : line = lines[k + 1]
  OBVIOUS
<1>2. /\ \A kind \in Kinds : Closed(lines, k + 1, kind) = Heads(lines, k, kind)
      /\ \A h : Open(lines, k + 1, h) <=> h = k + 1 /\ lines[h].tag \in Kinds
      /\ InBody(lines, k + 1) <=> lines[k + 1].tag \notin {"widget", "expose", "arg", "example"}
  BY BlockEnds
<1>3. /\ e.ai = d.ai /\ e.policy = d.policy /\ e.examples = d.examples
      /\ e.pending = IF line.tag \in Kinds THEN [kind |-> line.tag, lines |-> <<line>>] ELSE d.pending
      /\ e.body = IF line.tag \in {"widget", "expose", "arg", "example"}
                  THEN d.body ELSE Append(d.body, line)
  <2>1. Formed(d) /\ e = Interpret(d, line)
    BY <1>1 DEF Settled, Carries
  <2>. QED  BY <2>1, InterpretedParts
<1>4. /\ d.ai = Selected(AsNotes(lines, n), Heads(lines, k, "ai"))
      /\ d.policy = Selected(AsNotes(lines, n), Heads(lines, k, "policy"))
      /\ d.examples = Selected(AsExamples(lines, n), Heads(lines, k, "example"))
      /\ d.body = Selected(lines, InBodyUpTo(lines, k))
      /\ d.pending = NotPending
  BY DEF Settled, Carries
<1>5. e.body = Selected(lines, InBodyUpTo(lines, k + 1))
  <2>1. Selected(lines, InBodyUpTo(lines, k + 1))
             = IF InBody(lines, k + 1) THEN Append(Selected(lines, InBodyUpTo(lines, k)), lines[k + 1])
               ELSE Selected(lines, InBodyUpTo(lines, k))
    BY InBodyNext
  <2>. QED  BY <1>1, <1>2, <1>3, <1>4, <2>1
<1>6. Carries(lines, n, k + 1, e, Closed(lines, k + 1, "ai"), Closed(lines, k + 1, "policy"),
              Closed(lines, k + 1, "example"))
  <2>1. /\ Closed(lines, k + 1, "ai") = Heads(lines, k, "ai")
        /\ Closed(lines, k + 1, "policy") = Heads(lines, k, "policy")
        /\ Closed(lines, k + 1, "example") = Heads(lines, k, "example")
    BY <1>2 DEF Kinds
  <2>. QED  BY <1>3, <1>4, <1>5, <2>1 DEF Carries
<1>7. CASE line.tag \in Kinds
  <2>1. Open(lines, k + 1, k + 1) /\ k + 1 \in 1..(k + 1)
    BY <1>1, <1>2, <1>7
  <2>2. e.pending = [kind |-> line.tag, lines |-> <<line>>]
    BY <1>3, <1>7
  <2>3. Selected(lines, Prior(lines, k + 1, k + 1)) = <<line>>
    BY <1>1, BlockOpens
  <2>4. e.pending = [kind |-> lines[k + 1].tag, lines |-> Selected(lines, Prior(lines, k + 1, k + 1))]
    BY <1>1, <2>2, <2>3
  <2>. QED  BY <1>6, <2>1, <2>4 DEF Placed
<1>8. CASE line.tag \notin Kinds
  <2>1. e.pending = NotPending /\ \A h : ~Open(lines, k + 1, h)
    BY <1>1, <1>2, <1>3, <1>4, <1>8
  <2>. QED  BY <1>6, <2>1 DEF Placed
<1>. QED  BY <1>7, <1>8

\* The pending block takes the lines that belong to it.
LEMMA ExtendingIsTaking ==
    ASSUME NEW lines, NEW h, lines[h].tag \in Kinds, NEW pending, pending.kind = lines[h].tag, NEW line
    PROVE  Extends(pending, line) <=> TakenBy(lines, h, line)
<1>1. CASE lines[h].tag = "example"
  BY <1>1 DEF Extends, TakenBy
<1>2. CASE lines[h].tag \in {"ai", "policy"}
  BY <1>2 DEF Extends, TakenBy
<1>. QED  BY <1>1, <1>2 DEF Kinds

LEMMA TakingPlaces ==
    ASSUME NEW lines, NEW n \in Nat, NEW k \in Nat, NEW h, Open(lines, k, h), TakenBy(lines, h, lines[k + 1]),
           NEW c, Placed(lines, n, k, c), NEW e, e = ParseLine(c, lines[k + 1]), Formed(e)
    PROVE  Placed(lines, n, k + 1, e)
<1>1. PICK line : line = lines[k + 1]
  OBVIOUS
<1>2. h \in 1..k /\ lines[h].tag \in Kinds /\ h \in 1..(k + 1)
  BY OneOpen
<1>3. PICK block : block = Selected(lines, Prior(lines, k, h))
  OBVIOUS
<1>4. c.pending = [kind |-> lines[h].tag, lines |-> block]
  <2>1. PICK g \in 1..k : /\ Open(lines, k, g)
                          /\ c.pending = [kind |-> lines[g].tag, lines |-> Selected(lines, Prior(lines, k, g))]
    BY DEF Placed
  <2>2. g = h
    BY <1>2, <2>1, OneOpen
  <2>. QED  BY <1>3, <2>1, <2>2
<1>5. /\ Open(lines, k + 1, h)
      /\ Prior(lines, k + 1, h) = Prior(lines, k, h) \cup {k + 1}
      /\ \A kind \in Kinds : Closed(lines, k + 1, kind) = Closed(lines, k, kind)
      /\ InBody(lines, k + 1) <=> lines[h].tag # "example"
  BY BlockGoesOn
<1>6. Extends(c.pending, line)
  <2>1. c.pending.kind = lines[h].tag /\ TakenBy(lines, h, line)
    BY <1>1, <1>4
  <2>. QED  BY <1>2, <2>1, ExtendingIsTaking
<1>7. PICK pending : pending = [kind |-> lines[h].tag, lines |-> Append(block, line)]
  OBVIOUS
<1>8. PICK taken : taken = [c EXCEPT !.pending.lines = Append(@, line)]
  OBVIOUS
<1>9. Formed(c)
  BY DEF Placed, Carries
<1>10. /\ DOMAIN taken = DOMAIN c /\ taken.pending = pending /\ taken.body = c.body
       /\ taken.ai = c.ai /\ taken.policy = c.policy /\ taken.examples = c.examples
  <2>1. taken.pending = [c.pending EXCEPT !.lines = Append(@, line)]
    BY <1>8, <1>9 DEF Formed
  <2>2. taken.pending = pending
    <3>1. PICK kind, longer : kind = lines[h].tag /\ longer = Append(block, line)
      OBVIOUS
    <3>2. taken.pending = [c.pending EXCEPT !.lines = longer]
      BY <1>4, <2>1, <3>1
    <3>3. [[kind |-> kind, lines |-> block] EXCEPT !.lines = longer] = [kind |-> kind, lines |-> longer]
      OBVIOUS
    <3>. QED  BY <1>4, <1>7, <3>1, <3>2, <3>3
  <2>. QED  BY <1>8, <1>9, <2>2 DEF Formed
<1>11. e = IF c.pending.kind = "example" THEN taken ELSE [taken EXCEPT !.body = Append(@, line)]
  BY <1>1, <1>6, <1>8 DEF ParseLine
<1>12. /\ e.pending = pending /\ e.ai = c.ai /\ e.policy = c.policy /\ e.examples = c.examples
       /\ e.body = IF lines[h].tag = "example" THEN c.body ELSE Append(c.body, line)
  <2>1. c.pending.kind = lines[h].tag
    BY <1>4
  <2>2. CASE lines[h].tag = "example"
    BY <1>10, <1>11, <2>1, <2>2
  <2>3. CASE lines[h].tag # "example"
    BY <1>9, <1>10, <1>11, <2>1, <2>3 DEF Formed
  <2>. QED  BY <2>2, <2>3
<1>13. Selected(lines, Prior(lines, k + 1, h)) = Append(block, line)
  <2>1. PICK S : S = Prior(lines, k, h) /\ S \subseteq 1..k
    BY <1>2 DEF Prior
  <2>2. PICK m \in Nat : m = k + 1 /\ k < m
    OBVIOUS
  <2>3. Selected(lines, S \cup {m}) = Append(Selected(lines, S), lines[m])
    BY <2>1, <2>2, SelectedAppended
  <2>. QED  BY <1>1, <1>3, <1>5, <2>1, <2>2, <2>3
<1>14. e.pending = [kind |-> lines[h].tag, lines |-> Selected(lines, Prior(lines, k + 1, h))]
  BY <1>7, <1>12, <1>13
<1>15. /\ c.ai = Selected(AsNotes(lines, n), Closed(lines, k, "ai"))
       /\ c.policy = Selected(AsNotes(lines, n), Closed(lines, k, "policy"))
       /\ c.examples = Selected(AsExamples(lines, n), Closed(lines, k, "example"))
       /\ c.body = Selected(lines, InBodyUpTo(lines, k))
  BY DEF Placed, Carries
<1>16. e.body = Selected(lines, InBodyUpTo(lines, k + 1))
  <2>1. Selected(lines, InBodyUpTo(lines, k + 1))
             = IF InBody(lines, k + 1) THEN Append(Selected(lines, InBodyUpTo(lines, k)), lines[k + 1])
               ELSE Selected(lines, InBodyUpTo(lines, k))
    BY InBodyNext
  <2>. QED  BY <1>1, <1>5, <1>12, <1>15, <2>1
<1>17. Carries(lines, n, k + 1, e, Closed(lines, k + 1, "ai"), Closed(lines, k + 1, "policy"),
               Closed(lines, k + 1, "example"))
  <2>1. /\ Closed(lines, k + 1, "ai") = Closed(lines, k, "ai")
        /\ Closed(lines, k + 1, "policy") = Closed(lines, k, "policy")
        /\ Closed(lines, k + 1, "example") = Closed(lines, k, "example")
    BY <1>5 DEF Kinds
  <2>. QED  BY <1>12, <1>15, <1>16, <2>1 DEF Carries
<1>. QED  BY <1>2, <1>5, <1>14, <1>17 DEF Placed

\* One more line is placed.
LEMMA LinePlaces ==
    ASSUME NEW lines, NEW n \in Nat, DOMAIN lines = 1..n, NEW k \in Nat, k + 1 \in 1..n,
           NEW c, Placed(lines, n, k, c), NEW e, e = ParseLine(c, lines[k + 1])
    PROVE  Placed(lines, n, k + 1, e)
<1>1. Formed(c)
  BY DEF Placed, Carries
<1>2. Formed(e)
  BY <1>1, LineParsed
<1>3. k \in 0..n
  OBVIOUS
<1>4. CASE Ended(lines, k)
  <2>1. ~Extends(c.pending, lines[k + 1])
    <3>1. CASE c.pending = NotPending
      <4>1. NotPending.kind = ""
        BY DEF NotPending
      <4>2. c.pending.kind = ""
        BY <3>1, <4>1
      <4>. QED  BY <4>2 DEF Extends
    <3>2. ASSUME NEW h \in 1..k, Open(lines, k, h), c.pending.kind = lines[h].tag
          PROVE  ~Extends(c.pending, lines[k + 1])
      <4>1. ~TakenBy(lines, h, lines[k + 1]) /\ lines[h].tag \in Kinds
        BY <1>4, <3>2 DEF Ended, Open
      <4>2. PICK pending, line : pending = c.pending /\ line = lines[k + 1]
        OBVIOUS
      <4>3. pending.kind = lines[h].tag /\ lines[h].tag \in Kinds /\ ~TakenBy(lines, h, line)
        BY <3>2, <4>1, <4>2
      <4>4. ~Extends(pending, line)
        BY <4>3, ExtendingIsTaking
      <4>. QED  BY <4>2, <4>4
    <3>3. CASE c.pending # NotPending
      <4>1. PICK h \in 1..k : /\ Open(lines, k, h)
                              /\ c.pending = [kind |-> lines[h].tag, lines |-> Selected(lines, Prior(lines, k, h))]
        BY <3>3 DEF Placed
      <4>2. c.pending.kind = lines[h].tag
        BY <4>1
      <4>. QED  BY <3>2, <4>1, <4>2
    <3>. QED  BY <3>1, <3>3
  <2>2. PICK d : d = FlushPending(c)
    OBVIOUS
  <2>3. e = Interpret(d, lines[k + 1])
    BY <2>1, <2>2 DEF ParseLine
  <2>4. Settled(lines, n, k, d)
    BY <1>3, <1>4, <2>2, FlushingPlaces
  <2>. QED  BY <1>2, <1>4, <2>3, <2>4, InterpretingPlaces
<1>5. CASE ~Ended(lines, k)
  <2>1. PICK h \in 1..k : Open(lines, k, h) /\ TakenBy(lines, h, lines[k + 1])
    BY <1>5 DEF Ended
  <2>. QED  BY <1>2, <2>1, TakingPlaces
<1>. QED  BY <1>4, <1>5

\* Before the first line nothing is open and nothing is closed.
LEMMA NothingPlaced ==
    ASSUME NEW lines, NEW n \in Nat
    PROVE  Placed(lines, n, 0, EmptyComment)
<1>1. \A i : i \notin 1..0
  OBVIOUS
<1>2. \A kind : Closed(lines, 0, kind) = {}
  BY <1>1 DEF Closed, Heads
<1>3. InBodyUpTo(lines, 0) = {}
  BY <1>1 DEF InBodyUpTo
<1>4. \A h : ~Open(lines, 0, h)
  BY <1>1 DEF Open
<1>5. Formed(EmptyComment) /\ EmptyComment.pending = NotPending
  BY DEF Formed, EmptyComment, NotPending
<1>6. /\ EmptyComment.ai = <<>> /\ EmptyComment.policy = <<>>
      /\ EmptyComment.examples = <<>> /\ EmptyComment.body = <<>>
  BY DEF EmptyComment
<1>7. /\ Selected(AsNotes(lines, n), {}) = <<>> /\ Selected(AsExamples(lines, n), {}) = <<>>
      /\ Selected(lines, {}) = <<>>
  BY NothingSelected
<1>8. Carries(lines, n, 0, EmptyComment, Closed(lines, 0, "ai"), Closed(lines, 0, "policy"),
              Closed(lines, 0, "example"))
  BY <1>2, <1>3, <1>5, <1>6, <1>7 DEF Carries
<1>. QED  BY <1>4, <1>5, <1>8 DEF Placed

\* What a comment as a whole comes to, before the description is trimmed.
LEMMA CommentPlaced ==
    ASSUME NEW lines, NEW n \in Nat, DOMAIN lines = 1..n
    PROVE  \E d : Settled(lines, n, n, d) /\ ParseCommentTags(lines) = [d EXCEPT !.body = TrimEnd(@)]
<1>1. PICK c : /\ c[0] = EmptyComment
               /\ \A k \in 1..n : c[k] = ParseLine(c[k - 1], lines[k])
               /\ FoldLeft(ParseLine, EmptyComment, lines) = c[n]
  BY CommentIsFolded
<1>. DEFINE Good == {k \in Nat : k <= n => Placed(lines, n, k, c[k])}
<1>2. 0 \in Good
  BY <1>1, NothingPlaced
<1>3. ASSUME NEW k \in Nat, k \in Good PROVE k + 1 \in Good
  <2>. SUFFICES ASSUME k + 1 <= n PROVE Placed(lines, n, k + 1, c[k + 1])
    OBVIOUS
  <2>1. k + 1 \in 1..n /\ (k + 1) - 1 = k /\ k <= n
    OBVIOUS
  <2>2. PICK d, e : d = c[k] /\ e = c[k + 1]
    OBVIOUS
  <2>3. Placed(lines, n, k, d)
    BY <1>3, <2>1, <2>2
  <2>4. e = ParseLine(d, lines[k + 1])
    <3>1. c[k + 1] = ParseLine(c[(k + 1) - 1], lines[k + 1])
      BY <1>1, <2>1
    <3>. QED  BY <2>1, <2>2, <3>1
  <2>5. Placed(lines, n, k + 1, e)
    BY <2>1, <2>3, <2>4, LinePlaces
  <2>. QED  BY <2>2, <2>5
<1>. HIDE DEF Good
<1>4. n \in Good
  BY <1>2, <1>3, AllNaturals
<1>5. PICK last : last = c[n]
  OBVIOUS
<1>6. Placed(lines, n, n, last)
  BY <1>4, <1>5 DEF Good
<1>7. PICK d : d = FlushPending(last)
  OBVIOUS
<1>8. Settled(lines, n, n, d)
  <2>1. n \in 0..n
    OBVIOUS
  <2>. QED  BY <1>6, <1>7, <2>1, FlushingPlaces
<1>9. ParseCommentTags(lines) = [d EXCEPT !.body = TrimEnd(@)]
  BY <1>1, <1>5, <1>7 DEF ParseCommentTags
<1>. QED  BY <1>8, <1>9

\* The blocks of a kind, one after another.
LEMMA BlocksSelected ==
    ASSUME NEW lines, NEW n \in Nat, DOMAIN lines = 1..n, NEW kind
    PROVE  /\ [i \in DOMAIN Blocks(lines, kind) |-> NoteText(Blocks(lines, kind)[i])]
                = Selected(AsNotes(lines, n), Heads(lines, n, kind))
           /\ [i \in DOMAIN Blocks(lines, kind) |->
                  [description |-> Head(Blocks(lines, kind)[i]).value,
                   sql |-> TrimEnd(Tail(Blocks(lines, kind)[i]))]]
                = Selected(AsExamples(lines, n), Heads(lines, n, kind))
<1>1. PICK H, at : H = Heads(lines, n, kind) /\ at = Ascending(H)
  OBVIOUS
<1>2. H \subseteq 1..n /\ H = {i \in DOMAIN lines : lines[i].tag = kind}
  BY <1>1 DEF Heads
<1>3. \A i \in DOMAIN at : at[i] \in 1..n
  BY <1>1, <1>2, AscendingLists
<1>4. PICK blocks : blocks = [i \in DOMAIN at |-> Selected(lines, Block(lines, at[i]))]
  OBVIOUS
<1>5. Blocks(lines, kind) = blocks
  BY <1>1, <1>2, <1>4 DEF Blocks
<1>6. DOMAIN blocks = DOMAIN at /\ \A i \in DOMAIN at : blocks[i] = Selected(lines, Block(lines, at[i]))
  BY <1>4
<1>7. Selected(AsNotes(lines, n), H) = [i \in DOMAIN at |-> NoteText(blocks[i])]
  <2>1. \A i \in DOMAIN at : AsNotes(lines, n)[at[i]] = NoteText(blocks[i])
    BY <1>3, <1>6 DEF AsNotes, AsNote
  <2>. QED  BY <1>1, <2>1 DEF Selected
<1>8. Selected(AsExamples(lines, n), H)
        = [i \in DOMAIN at |-> [description |-> Head(blocks[i]).value, sql |-> TrimEnd(Tail(blocks[i]))]]
  <2>1. \A i \in DOMAIN at :
          AsExamples(lines, n)[at[i]] = [description |-> Head(blocks[i]).value, sql |-> TrimEnd(Tail(blocks[i]))]
    BY <1>3, <1>6 DEF AsExamples, AsExample
  <2>. QED  BY <1>1, <2>1 DEF Selected
<1>. QED  BY <1>1, <1>5, <1>6, <1>7, <1>8

\* parseCommentTags places every line of a comment: the blocks of a kind become
\* its notes, rules or examples, and the rest is the description.
THEOREM LinesArePlaced ==
    ASSUME NEW lines, NEW n \in Nat, DOMAIN lines = 1..n, NEW c, c = ParseCommentTags(lines)
    PROVE  /\ \A notes : notes = Blocks(lines, "ai") => c.ai = [i \in DOMAIN notes |-> NoteText(notes[i])]
           /\ \A rules : rules = Blocks(lines, "policy") => c.policy = [i \in DOMAIN rules |-> NoteText(rules[i])]
           /\ \A examples : examples = Blocks(lines, "example") =>
                 c.examples = [i \in DOMAIN examples |-> [description |-> Head(examples[i]).value,
                                                          sql |-> TrimEnd(Tail(examples[i]))]]
           /\ c.body = Description(lines)
           /\ c.pending = NotPending
<1>1. PICK d : Settled(lines, n, n, d) /\ c = [d EXCEPT !.body = TrimEnd(@)]
  BY CommentPlaced
<1>2. /\ c.ai = d.ai /\ c.policy = d.policy /\ c.examples = d.examples
      /\ c.pending = d.pending /\ c.body = TrimEnd(d.body)
  BY <1>1 DEF Settled, Carries, Formed
<1>3. /\ d.ai = Selected(AsNotes(lines, n), Heads(lines, n, "ai"))
      /\ d.policy = Selected(AsNotes(lines, n), Heads(lines, n, "policy"))
      /\ d.examples = Selected(AsExamples(lines, n), Heads(lines, n, "example"))
      /\ d.body = Selected(lines, InBodyUpTo(lines, n))
      /\ d.pending = NotPending
  BY <1>1 DEF Settled, Carries
<1>4. Description(lines) = TrimEnd(Selected(lines, InBodyUpTo(lines, n)))
  BY DEF Description, InBodyUpTo, InBody
<1>5. ASSUME NEW notes, notes = Blocks(lines, "ai") PROVE c.ai = [i \in DOMAIN notes |-> NoteText(notes[i])]
  BY <1>2, <1>3, <1>5, BlocksSelected
<1>6. ASSUME NEW rules, rules = Blocks(lines, "policy") PROVE c.policy = [i \in DOMAIN rules |-> NoteText(rules[i])]
  BY <1>2, <1>3, <1>6, BlocksSelected
<1>7. ASSUME NEW examples, examples = Blocks(lines, "example")
      PROVE  c.examples = [i \in DOMAIN examples |-> [description |-> Head(examples[i]).value,
                                                      sql |-> TrimEnd(Tail(examples[i]))]]
  BY <1>2, <1>3, <1>7, BlocksSelected
<1>. QED  BY <1>2, <1>3, <1>4, <1>5, <1>6, <1>7
-----------------------------------------------------------------------------
(* What of the database reaches the tables and views of the context.        *)

\* A table or a view of the database as it is read, the privileges those of role.
RawTable(d, role, r) ==
    [schema |-> r.schema, name |-> r.name, comment |-> r.comment,
     columns |-> Columns(d, role, r),
     primaryKey |-> r.primaryKey, unique |-> r.unique,
     foreignKeys |-> r.foreignKeys, checks |-> r.checks,
     rowSecurity |-> RowSecurity(r.rls), privileges |-> RelationPrivileges(d, role, r)]
RawView(d, role, r) ==
    [schema |-> r.schema, name |-> r.name, comment |-> r.comment,
     columns |-> Columns(d, NoRole, r), underlyingTables |-> UnderlyingTables(d, r),
     privileges |-> RelationPrivileges(d, role, r)]

\* The relations of some kinds that are read and not filtered out.
Introspected(d, o, kinds) ==
    {r \in d.relations : /\ r.kind \in kinds /\ r.schema \in o.schemas /\ r.schema \in DOMAIN d.schemas
                         /\ ShouldRetain(r, o)}
TableKinds == {"table", "partitioned"}

\* A foreign key survives if its table does.
Surviving(d, o, fks) ==
    {fk \in Range(fks) : fk.refSchema \o fk.refName \in {Flat(x) : x \in Introspected(d, o, TableKinds)}}
PrunedRaw(d, o, r) ==
    [RawTable(d, o.privilegeRole, r) EXCEPT !.foreignKeys = Keep(@, Surviving(d, o, @))]

\* Introspection sees exactly the tables and views of its schemas that are not
\* filtered out.
LEMMA IntrospectedRelations ==
    ASSUME NEW d, NEW o, {"schemas", "privilegeRole"} \subseteq DOMAIN o
    PROVE  /\ Introspect(d, o).tables = {PrunedRaw(d, o, r) : r \in Introspected(d, o, TableKinds)}
           /\ Introspect(d, o).views
                = {RawView(d, o.privilegeRole, r) : r \in Introspected(d, o, ViewKinds)}
<1>1. PICK o2 : o2 = [o EXCEPT !.schemas = @ \cap DOMAIN d.schemas]
  OBVIOUS
<1>2. o2.schemas = o.schemas \cap DOMAIN d.schemas /\ o2.privilegeRole = o.privilegeRole
  BY <1>1
<1>3. PICK role : role = o.privilegeRole
  OBVIOUS
<1>4. PICK T, V : /\ T = {x \in FetchTables(d, o2) : ShouldRetain(x, o)}
                  /\ V = {x \in FetchViews(d, o2) : ShouldRetain(x, o)}
  OBVIOUS
<1>5. FetchTables(d, o2) = {RawTable(d, role, r) : r \in {x \in d.relations : x.kind \in TableKinds /\ x.schema \in o2.schemas}}
  BY <1>2, <1>3 DEF FetchTables, RawTable, TableKinds
<1>6. FetchViews(d, o2) = {RawView(d, role, r) : r \in {x \in d.relations : x.kind \in ViewKinds /\ x.schema \in o2.schemas}}
  BY <1>2, <1>3 DEF FetchViews, RawView, ViewKinds
<1>7. \A r : Flat(RawTable(d, role, r)) = Flat(r) /\ Flat(RawView(d, role, r)) = Flat(r)
  BY DEF Flat, RawTable, RawView
<1>8. \A r : /\ ShouldRetain(RawTable(d, role, r), o) <=> ShouldRetain(r, o)
             /\ ShouldRetain(RawView(d, role, r), o) <=> ShouldRetain(r, o)
  BY <1>7 DEF ShouldRetain
<1>. HIDE DEF RawTable, RawView, ShouldRetain
<1>9. T = {RawTable(d, role, r) : r \in Introspected(d, o, TableKinds)}
  BY <1>2, <1>4, <1>5, <1>8 DEF Introspected
<1>10. V = {RawView(d, role, r) : r \in Introspected(d, o, ViewKinds)}
  BY <1>2, <1>4, <1>6, <1>8 DEF Introspected
<1>11. {Flat(t) : t \in T} = {Flat(x) : x \in Introspected(d, o, TableKinds)}
  BY <1>7, <1>9
<1>12. PruneDanglingForeignKeys(T) = {[t EXCEPT !.foreignKeys = Keep(@, Surviving(d, o, @))] : t \in T}
  <2>1. ASSUME NEW t \in T
        PROVE  Surviving(d, o, t.foreignKeys)
                 = {fk \in Range(t.foreignKeys) : fk.refSchema \o fk.refName \in {Flat(x) : x \in T}}
    BY <1>11 DEF Surviving
  <2>. HIDE DEF Surviving
  <2>. QED  BY <2>1 DEF PruneDanglingForeignKeys
<1>13. PruneDanglingForeignKeys(T) = {PrunedRaw(d, o, r) : r \in Introspected(d, o, TableKinds)}
  BY <1>3, <1>9, <1>12 DEF PrunedRaw
<1>14. Introspect(d, o).tables = PruneDanglingForeignKeys(T) /\ Introspect(d, o).views = V
  BY <1>1, <1>4 DEF Introspect
<1>. QED  BY <1>3, <1>10, <1>13, <1>14

\* A relation is hidden if its role may not read it and hiding is asked for.
Shown(d, o, r) ==
    \/ o.privilegeDisplay = "annotate"
    \/ ~RelationPrivileges(d, o.privilegeRole, r).evaluated
    \/ "select" \in RelationPrivileges(d, o.privilegeRole, r).may

\* The relations of a table restate those of its foreign keys whose table is read.
Restates(d, o, relations, r) ==
    /\ \E m \in Nat : DOMAIN relations = 1..m
    /\ \A rel \in Range(relations) :
         \E fk \in Surviving(d, o, r.foreignKeys) :
            rel.fields = fk.columns /\ rel.columns = fk.refColumns /\ Target(rel) = fk.refSchema \o fk.refName
    /\ \A fk \in Surviving(d, o, r.foreignKeys) : Aligned(fk) =>
         \E rel \in Range(relations) :
            rel.fields = fk.columns /\ rel.columns = fk.refColumns /\ Target(rel) = fk.refSchema \o fk.refName

\* What of the columns of a table decides which of them a row must hold.
ReadsColumns(t, r) ==
    /\ DOMAIN t.columns = DOMAIN r.columns
    /\ \A i \in DOMAIN r.columns :
         /\ t.columns[i].name = r.columns[i].name
         /\ t.columns[i].nullable <=> ~r.columns[i].notNull
         /\ t.columns[i].hasDefault <=> r.columns[i].default

\* What the context says of a table and of a view.
TableOf(d, o, r, t) ==
    /\ t.qualifiedName = Flat(r)
    /\ t.privileges = RelationPrivileges(d, o.privilegeRole, r)
    /\ t.rowSecurity = RowSecurity(r.rls)
    /\ ReadsColumns(t, r)
    /\ \A i \in DOMAIN r.columns :
         t.columns[i].privileges = ColumnPrivileges(d, o.privilegeRole, r, r.columns[i])
    /\ Restates(d, o, t.relations, r)
ViewOf(d, o, r, v) ==
    /\ v.qualifiedName = Flat(r) /\ v.name = r.name
    /\ v.privileges = RelationPrivileges(d, o.privilegeRole, r)
    /\ v.underlyingTables = UnderlyingTables(d, r)

LEMMA RestatedKeys ==
    ASSUME NEW d, NEW o, NEW r, IsList(r.foreignKeys), NEW t,
           t.foreignKeys = Keep(r.foreignKeys, Surviving(d, o, r.foreignKeys))
    PROVE  Restates(d, o, Relations(t), r)
<1>1. PICK fks, n : fks = r.foreignKeys /\ n \in Nat /\ DOMAIN fks = 1..n
  BY DEF IsList
<1>2. PICK S, kept, m : /\ S = Surviving(d, o, fks) /\ kept = Keep(fks, S)
                        /\ m \in Nat /\ DOMAIN kept = 1..m /\ Range(kept) = Range(fks) \cap S
  BY <1>1, KeptElements
<1>3. PICK A : A = {fk \in Range(kept) : Aligned(fk)}
  OBVIOUS
<1>4. \E k \in Nat : DOMAIN Keep(kept, A) = 1..k
       /\ Range(Keep(kept, A)) = Range(kept) \cap A
  BY <1>2, KeptElements
<1>5. PICK aligned, k : /\ aligned = Keep(kept, A)
                        /\ k \in Nat /\ DOMAIN aligned = 1..k /\ Range(aligned) = Range(kept) \cap A
  BY <1>4
<1>6. t.foreignKeys = kept
  BY <1>1, <1>2
<1>7. S \subseteq Range(fks)
  BY <1>2 DEF Surviving
<1>. DEFINE Restated(fk) == [fields |-> fk.columns, columns |-> fk.refColumns,
                             schema |-> fk.refSchema, table |-> fk.refName,
                             cardinality |-> RelationCardinality(t, fk)]
<1>8. Relations(t) = [i \in DOMAIN aligned |-> Restated(aligned[i])]
  BY <1>3, <1>5, <1>6 DEF Relations
<1>9. \A fk : /\ Restated(fk).fields = fk.columns /\ Restated(fk).columns = fk.refColumns
              /\ Target(Restated(fk)) = fk.refSchema \o fk.refName
  BY DEF Target
<1>. HIDE DEF Restated
<1>10. Range(aligned) = {fk \in S : Aligned(fk)}
  BY <1>3, <1>2, <1>5, <1>7
<1>11. Range(Relations(t)) = {Restated(fk) : fk \in Range(aligned)}
  BY <1>8 DEF Range
<1>12. DOMAIN Relations(t) = 1..k
  BY <1>5, <1>8
<1>13. S = Surviving(d, o, r.foreignKeys)
  BY <1>1, <1>2
<1>. HIDE DEF Target
<1>14. ASSUME NEW rel \in Range(Relations(t))
       PROVE  \E fk \in S : rel.fields = fk.columns /\ rel.columns = fk.refColumns
                             /\ Target(rel) = fk.refSchema \o fk.refName
  BY <1>9, <1>10, <1>11
<1>15. ASSUME NEW fk \in S, Aligned(fk)
       PROVE  \E rel \in Range(Relations(t)) : rel.fields = fk.columns /\ rel.columns = fk.refColumns
                             /\ Target(rel) = fk.refSchema \o fk.refName
  BY <1>9, <1>10, <1>11, <1>15
<1>. QED  BY <1>5, <1>12, <1>13, <1>14, <1>15 DEF Restates

\* What is read of a table reaches its context.
LEMMA TableIsCompiled ==
    ASSUME NEW d, NEW o, NEW r, IsList(r.foreignKeys), NEW enums
    PROVE  TableOf(d, o, r, TableContext(PrunedRaw(d, o, r), enums))
<1>1. PICK raw, role : raw = PrunedRaw(d, o, r) /\ role = o.privilegeRole
  OBVIOUS
<1>2. /\ raw.schema = r.schema /\ raw.name = r.name /\ raw.columns = Columns(d, role, r)
      /\ raw.rowSecurity = RowSecurity(r.rls) /\ raw.privileges = RelationPrivileges(d, role, r)
      /\ raw.foreignKeys = Keep(r.foreignKeys, Surviving(d, o, r.foreignKeys))
  <2>. HIDE DEF Columns, RowSecurity, RelationPrivileges, Keep, Surviving
  <2>. QED  BY <1>1 DEF PrunedRaw, RawTable
<1>3. PICK columns : columns = Columns(d, role, r)
  OBVIOUS
<1>4. PICK t : t = TableContext(raw, enums)
  OBVIOUS
<1>5. /\ t.qualifiedName = Flat(raw) /\ t.privileges = raw.privileges
      /\ t.rowSecurity = raw.rowSecurity /\ t.relations = Relations(raw)
      /\ t.columns = [i \in DOMAIN raw.columns |-> ColumnContext(raw.columns[i], raw, enums)]
  <2>. HIDE DEF Relations, ColumnContext, Flat
  <2>. QED  BY <1>4 DEF TableContext
<1>6. \A x : /\ ColumnContext(x, raw, enums).name = x.name
             /\ ColumnContext(x, raw, enums).nullable = x.nullable
             /\ ColumnContext(x, raw, enums).hasDefault = x.hasDefault
             /\ ColumnContext(x, raw, enums).privileges = x.privileges
  BY DEF ColumnContext
<1>7. \A x : /\ RawColumn(d, role, r, x).name = x.name
             /\ RawColumn(d, role, r, x).nullable <=> ~x.notNull
             /\ RawColumn(d, role, r, x).hasDefault <=> x.default
             /\ RawColumn(d, role, r, x).privileges = ColumnPrivileges(d, role, r, x)
  BY DEF RawColumn
<1>8. columns = [i \in DOMAIN r.columns |-> RawColumn(d, role, r, r.columns[i])]
  BY <1>3 DEF Columns
<1>9. raw.columns = columns /\ DOMAIN t.columns = DOMAIN r.columns
  BY <1>2, <1>3, <1>5, <1>8
<1>10. ASSUME NEW i \in DOMAIN r.columns
       PROVE  /\ t.columns[i].name = r.columns[i].name
              /\ t.columns[i].nullable <=> ~r.columns[i].notNull
              /\ t.columns[i].hasDefault <=> r.columns[i].default
              /\ t.columns[i].privileges = ColumnPrivileges(d, role, r, r.columns[i])
  <2>1. columns[i] = RawColumn(d, role, r, r.columns[i]) /\ t.columns[i] = ColumnContext(columns[i], raw, enums)
    BY <1>5, <1>8, <1>9
  <2>. QED  BY <1>6, <1>7, <2>1
<1>11. Restates(d, o, t.relations, r)
  BY <1>2, <1>5, RestatedKeys
<1>12. t.qualifiedName = Flat(r)
  BY <1>2, <1>5 DEF Flat
<1>13. ReadsColumns(t, r)
  BY <1>9, <1>10 DEF ReadsColumns
<1>14. t.privileges = RelationPrivileges(d, role, r) /\ t.rowSecurity = RowSecurity(r.rls)
  BY <1>2, <1>5
<1>. QED  BY <1>1, <1>4, <1>10, <1>11, <1>12, <1>13, <1>14 DEF TableOf

LEMMA ViewIsCompiled ==
    ASSUME NEW d, NEW o, NEW r, NEW enums
    PROVE  ViewOf(d, o, r, ViewContext(RawView(d, o.privilegeRole, r), enums))
<1>1. PICK raw, role : raw = RawView(d, role, r) /\ role = o.privilegeRole
  OBVIOUS
<1>2. /\ raw.schema = r.schema /\ raw.name = r.name
      /\ raw.privileges = RelationPrivileges(d, role, r)
      /\ raw.underlyingTables = UnderlyingTables(d, r)
  BY <1>1 DEF RawView
<1>3. PICK v : v = ViewContext(raw, enums)
  OBVIOUS
<1>4. /\ v.qualifiedName = Flat(raw) /\ v.name = raw.name /\ v.privileges = raw.privileges
      /\ v.underlyingTables = raw.underlyingTables
  BY <1>3 DEF ViewContext
<1>. QED  BY <1>1, <1>2, <1>3, <1>4 DEF ViewOf, Flat

Compilation(d, o, rpc) == BuildSchemaContext(Introspect(d, o), rpc, o)
ListedKeys(d) == \A r \in d.relations : IsList(r.foreignKeys)

\* The tables of the context are those of the schemas that are not filtered out
\* and not hidden.
LEMMA TablesOfContext ==
    ASSUME NEW d, NEW o, {"schemas", "privilegeRole"} \subseteq DOMAIN o, NEW rpc, ListedKeys(d)
    PROVE  /\ \A t \in Compilation(d, o, rpc).tables :
                \E r \in Introspected(d, o, TableKinds) : Shown(d, o, r) /\ TableOf(d, o, r, t)
           /\ \A r \in Introspected(d, o, TableKinds) : Shown(d, o, r) =>
                \E t \in Compilation(d, o, rpc).tables : TableOf(d, o, r, t)
<1>1. PICK raw, enums : raw = Introspect(d, o) /\ enums = raw.enums
  OBVIOUS
<1>2. PICK I : I = Introspected(d, o, TableKinds)
  OBVIOUS
<1>3. raw.tables = {PrunedRaw(d, o, r) : r \in I}
  BY <1>1, <1>2, IntrospectedRelations
<1>4. Compilation(d, o, rpc).tables = {TableContext(t, enums) : t \in {x \in raw.tables : Visible(x, o)}}
  BY <1>1 DEF Compilation, BuildSchemaContext
<1>5. \A r : Visible(PrunedRaw(d, o, r), o) <=> Shown(d, o, r)
  <2>1. \A r : PrunedRaw(d, o, r).privileges = RelationPrivileges(d, o.privilegeRole, r)
    BY DEF PrunedRaw, RawTable
  <2>. HIDE DEF RelationPrivileges
  <2>. QED  BY <2>1 DEF Visible, Shown
<1>6. \A r \in I : IsList(r.foreignKeys)
  BY <1>2 DEF Introspected, ListedKeys
<1>7. \A r \in I : TableOf(d, o, r, TableContext(PrunedRaw(d, o, r), enums))
  BY <1>6, TableIsCompiled
<1>. HIDE DEF TableOf, PrunedRaw, TableContext, Shown, Visible, Compilation
<1>8. Compilation(d, o, rpc).tables = {TableContext(PrunedRaw(d, o, r), enums) : r \in {x \in I : Shown(d, o, x)}}
  BY <1>3, <1>4, <1>5
<1>. QED  BY <1>2, <1>7, <1>8

\* And the views likewise; each is a concept of its bare name.
LEMMA ViewsOfContext ==
    ASSUME NEW d, NEW o, {"schemas", "privilegeRole"} \subseteq DOMAIN o, NEW rpc
    PROVE  /\ \A v \in Compilation(d, o, rpc).views :
                \E r \in d.relations : r.kind \in ViewKinds /\ ViewOf(d, o, r, v)
           /\ \A x \in Compilation(d, o, rpc).concepts :
                \E v \in Compilation(d, o, rpc).views :
                   x.name = v.name /\ x.joins = JoinSuggestions(v, Compilation(d, o, rpc).tables)
<1>1. PICK raw, enums : raw = Introspect(d, o) /\ enums = raw.enums
  OBVIOUS
<1>2. PICK I : I = Introspected(d, o, ViewKinds)
  OBVIOUS
<1>3. \A r \in I : r \in d.relations /\ r.kind \in ViewKinds
  BY <1>2 DEF Introspected
<1>4. raw.views = {RawView(d, o.privilegeRole, r) : r \in I}
  BY <1>1, <1>2, IntrospectedRelations
<1>5. PICK c : c = Compilation(d, o, rpc)
  OBVIOUS
<1>6. /\ c.views = {ViewContext(v, enums) : v \in {x \in raw.views : Visible(x, o)}}
      /\ c.concepts = {[name |-> v.name, examples |-> v.examples, policies |-> v.policy,
                        joins |-> JoinSuggestions(v, c.tables)] : v \in c.views}
  BY <1>1, <1>5 DEF Compilation, BuildSchemaContext
<1>7. \A r : ViewOf(d, o, r, ViewContext(RawView(d, o.privilegeRole, r), enums))
  BY ViewIsCompiled
<1>. HIDE DEF ViewOf, RawView, ViewContext, Visible, Compilation, JoinSuggestions
<1>8. \A v \in c.views : \E r \in I : ViewOf(d, o, r, v)
  BY <1>4, <1>6, <1>7
<1>9. \A x \in c.concepts : \E v \in c.views : x.name = v.name /\ x.joins = JoinSuggestions(v, c.tables)
  BY <1>6
<1>. QED  BY <1>5, <1>8, <1>9, <1>3

\* The privileges that are told are those PostgreSQL grants.
LEMMA ToldPrivileges ==
    ASSUME NEW d, NEW role, role # NoRole, NEW r
    PROVE  /\ RelationPrivileges(d, role, r).evaluated
           /\ RelationPrivileges(d, role, r).may = {c \in Range(Commands) : May(d, role, r, c)}
           /\ \A column : ColumnPrivileges(d, role, r, column).may
                            = {c \in {"insert", "update"} : MayWrite(d, role, r, column, c)}
<1>. HIDE DEF Reaches, Holds
<1>1. RelationPrivileges(d, role, r).evaluated
  BY DEF RelationPrivileges
<1>2. RelationPrivileges(d, role, r).may
        = {c \in Range(Commands) : Reaches(d, role, r.schema) /\ Holds(d, role, r.grants[c])}
  BY DEF RelationPrivileges
<1>3. \A column : ColumnPrivileges(d, role, r, column).may
        = {c \in {"insert", "update"} : /\ Reaches(d, role, r.schema)
                                       /\ Holds(d, role, r.grants[c] \cup column.grants[c])}
  BY DEF ColumnPrivileges
<1>. QED  BY <1>1, <1>2, <1>3 DEF May, MayWrite

LEMMA ShownIsReadable ==
    ASSUME NEW d, NEW o, NEW r
    PROVE  Shown(d, o, r) <=> \/ o.privilegeRole = NoRole \/ May(d, o.privilegeRole, r, "select")
                              \/ o.privilegeDisplay = "annotate"
<1>1. PICK role : role = o.privilegeRole
  OBVIOUS
<1>2. CASE role = NoRole
  <2>1. ~RelationPrivileges(d, role, r).evaluated
    BY <1>2 DEF RelationPrivileges, NotEvaluated
  <2>. QED  BY <1>1, <1>2, <2>1 DEF Shown
<1>3. CASE role # NoRole
  <2>1. "select" \in Range(Commands)
    BY DEF Range, Commands
  <2>2. /\ RelationPrivileges(d, role, r).evaluated
        /\ "select" \in RelationPrivileges(d, role, r).may <=> May(d, role, r, "select")
    BY <1>3, <2>1, ToldPrivileges
  <2>. QED  BY <1>1, <1>3, <2>2 DEF Shown
<1>. QED  BY <1>2, <1>3

\* A command that row-level security is said to deny is refused to whomever it
\* applies to.
LEMMA DeniedIsRefused ==
    ASSUME NEW d, NEW r, NEW user, RlsApplies(d, user, r), NEW c \in Range(Commands),
           c \in RowSecurity(r.rls).deniedCommands \/ ~RowSecurity(r.rls).hasPolicies
    PROVE  RlsRefuses(d, user, r, c)
<1>1. c \in DeniedCommands(r.rls) \/ r.rls.policies = {}
  BY DEF RowSecurity
<1>2. ASSUME NEW policy \in r.rls.policies, policy.permissive, policy.cmd \in {"all", c} PROVE FALSE
  <2>1. c \in DeniedCommands(r.rls)
    BY <1>1
  <2>. QED  BY <1>2, <2>1 DEF DeniedCommands
<1>. QED  BY <1>2 DEF RlsRefuses

RefersTo(r, column, ref) ==
    \E fk \in Range(r.foreignKeys) : \E i \in DOMAIN fk.columns :
        /\ fk.columns[i] = column
        /\ ref = <<fk.refSchema \o fk.refName, fk.refColumns[i]>>
ListedColumns(r) == \A fk \in Range(r.foreignKeys) : IsList(fk.columns)

\* The column a foreign key column is said to refer to is that of one of its keys.
LEMMA ReferenceIsReal ==
    ASSUME NEW d, NEW o, NEW r, NEW t, Restates(d, o, t.relations, r),
           ListedColumns(r), NEW name, References(t, name) # <<>>
    PROVE  RefersTo(r, name, References(t, name))
<1>1. PICK on : on = {k \in DOMAIN t.relations : name \in Range(t.relations[k].fields)}
  OBVIOUS
<1>2. PICK m \in Nat : DOMAIN t.relations = 1..m
  BY DEF Restates
<1>3. PICK rel : rel = t.relations[Max(on)]
  OBVIOUS
<1>4. PICK at : at = {k \in DOMAIN rel.fields : rel.fields[k] = name}
  OBVIOUS
<1>5. References(t, name) = IF on = {} THEN <<>> ELSE <<Target(rel), rel.columns[Max(at)]>>
  BY <1>1, <1>3, <1>4 DEF References
<1>6. on # {} /\ References(t, name) = <<Target(rel), rel.columns[Max(at)]>>
  BY <1>5
<1>7. Max(on) \in on
  BY <1>1, <1>2, <1>6, MaxOfPart
<1>8. rel \in Range(t.relations) /\ name \in Range(rel.fields)
  BY <1>1, <1>3, <1>7 DEF Range
<1>9. PICK fk \in Surviving(d, o, r.foreignKeys) :
         rel.fields = fk.columns /\ rel.columns = fk.refColumns /\ Target(rel) = fk.refSchema \o fk.refName
  BY <1>8 DEF Restates
<1>10. fk \in Range(r.foreignKeys)
  BY DEF Surviving
<1>11. PICK n \in Nat : DOMAIN rel.fields = 1..n
  BY <1>9, <1>10 DEF IsList, ListedColumns
<1>12. at # {}
  BY <1>4, <1>8 DEF Range
<1>13. Max(at) \in at
  BY <1>4, <1>11, <1>12, MaxOfPart
<1>14. PICK i : i = Max(at) /\ i \in DOMAIN fk.columns /\ fk.columns[i] = name
  BY <1>4, <1>9, <1>13
<1>15. References(t, name) = <<fk.refSchema \o fk.refName, fk.refColumns[i]>>
  BY <1>6, <1>9, <1>14
<1>. QED  BY <1>10, <1>14, <1>15 DEF RefersTo

\* describe_table tells the truth about the only table of a name.
LEMMA TableToldTruly ==
    ASSUME NEW d, NEW o, {"schemas", "privilegeRole"} \subseteq DOMAIN o, NEW rpc, ListedKeys(d),
           NEW r \in d.relations, r.schema \in DOMAIN d.schemas,
           \A x \in d.relations : Flat(x) = Flat(r) => x = r,
           ListedColumns(r)
    PROVE  TableIsDescribed(d, o, r, DescribeTable(Compilation(d, o, rpc), Flat(r)))
<1>1. PICK c, q, role, told : c = Compilation(d, o, rpc) /\ q = Flat(r) /\ role = o.privilegeRole
                              /\ told = DescribeTable(c, q)
  OBVIOUS
<1>2. PICK found : found = {t \in c.tables : t.qualifiedName = q}
  OBVIOUS
<1>3. \A t \in found : TableOf(d, o, r, t) /\ Shown(d, o, r) /\ r \in Introspected(d, o, TableKinds)
  <2>1. ASSUME NEW t \in found
        PROVE  \E x \in Introspected(d, o, TableKinds) : Shown(d, o, x) /\ TableOf(d, o, x, t)
    BY <1>1, <1>2, TablesOfContext
  <2>2. ASSUME NEW t \in found, NEW x \in Introspected(d, o, TableKinds), TableOf(d, o, x, t) PROVE x = r
    BY <1>1, <1>2, <2>2 DEF TableOf, Introspected
  <2>. QED  BY <2>1, <2>2
<1>4. r \in Introspected(d, o, TableKinds) /\ Shown(d, o, r) => found # {}
  <2>1. ASSUME NEW t \in c.tables, TableOf(d, o, r, t) PROVE t \in found
    BY <1>1, <1>2, <2>1 DEF TableOf
  <2>. QED  BY <1>1, <2>1, TablesOfContext
<1>5. told.found <=> found # {}
  BY <1>1, <1>2 DEF DescribeTable, ToolError
<1>6. told.found => r.kind \in {"table", "partitioned"} /\ r.schema \in o.schemas
  BY <1>3, <1>5 DEF Introspected, TableKinds
<1>7. r.kind \in {"table", "partitioned"} /\ r.schema \in o.schemas /\ ShouldRetain(r, o) =>
        (told.found <=> (role = NoRole \/ May(d, role, r, "select")) \/ o.privilegeDisplay = "annotate")
  <2>1. Shown(d, o, r) <=> (role = NoRole \/ May(d, role, r, "select")) \/ o.privilegeDisplay = "annotate"
    BY <1>1, ShownIsReadable
  <2>2. r.kind \in {"table", "partitioned"} /\ r.schema \in o.schemas /\ ShouldRetain(r, o) =>
          r \in Introspected(d, o, TableKinds)
    BY DEF Introspected, TableKinds
  <2>. QED  BY <1>3, <1>4, <1>5, <2>1, <2>2
<1>8. ASSUME told.found
      PROVE  \E t : /\ TableOf(d, o, r, t)
                    /\ told.privileges = t.privileges /\ told.rowSecurity = t.rowSecurity
                    /\ \A i \in DOMAIN t.columns :
                          /\ told.columns[i].name = t.columns[i].name
                          /\ told.columns[i].privileges = t.columns[i].privileges
                          /\ told.columns[i].references = References(t, t.columns[i].name)
  <2>1. PICK t : t = CHOOSE x \in found : TRUE
    OBVIOUS
  <2>2. t \in found
    BY <1>5, <1>8, <2>1
  <2>. HIDE DEF References
  <2>. DEFINE Column(i) == [name |-> t.columns[i].name, privileges |-> t.columns[i].privileges,
                            isForeignKey |-> t.columns[i].isForeignKey,
                            references |-> References(t, t.columns[i].name)]
  <2>3. told = [found |-> TRUE, privileges |-> t.privileges, rowSecurity |-> t.rowSecurity,
                policy |-> t.policy, columns |-> [i \in DOMAIN t.columns |-> Column(i)]]
    BY <1>1, <1>2, <2>1, <2>2 DEF DescribeTable
  <2>4. \A i : /\ Column(i).name = t.columns[i].name /\ Column(i).privileges = t.columns[i].privileges
               /\ Column(i).references = References(t, t.columns[i].name)
    OBVIOUS
  <2>. HIDE DEF Column
  <2>5. told.columns = [i \in DOMAIN t.columns |-> Column(i)]
        /\ told.privileges = t.privileges /\ told.rowSecurity = t.rowSecurity
    BY <2>3
  <2>. QED  BY <1>3, <2>2, <2>4, <2>5
<1>. DEFINE Refers(column, ref) ==
        \E fk \in Range(r.foreignKeys) : \E i \in DOMAIN fk.columns :
                /\ fk.columns[i] = column
                /\ ref = <<fk.refSchema \o fk.refName, fk.refColumns[i]>>
<1>9. ASSUME told.found
      PROVE  /\ role # NoRole => told.privileges.may = {x \in Range(Commands) : May(d, role, r, x)}
             /\ \A x \in Range(Commands), user \in DOMAIN d.memberOf :
                  /\ RlsApplies(d, user, r)
                  /\ x \in told.rowSecurity.deniedCommands \/ ~told.rowSecurity.hasPolicies
                  => RlsRefuses(d, user, r, x)
             /\ \A i \in DOMAIN r.columns :
                  /\ told.columns[i].name = r.columns[i].name
                  /\ role # NoRole => told.columns[i].privileges.may =
                        {x \in {"insert", "update"} : MayWrite(d, role, r, r.columns[i], x)}
                  /\ told.columns[i].references # <<>> =>
                        Refers(told.columns[i].name, told.columns[i].references)
  <2>1. PICK t : /\ TableOf(d, o, r, t)
                 /\ told.privileges = t.privileges /\ told.rowSecurity = t.rowSecurity
                 /\ \A i \in DOMAIN t.columns :
                      /\ told.columns[i].name = t.columns[i].name
                      /\ told.columns[i].privileges = t.columns[i].privileges
                      /\ told.columns[i].references = References(t, t.columns[i].name)
    BY <1>8, <1>9
  <2>2. /\ t.privileges = RelationPrivileges(d, role, r) /\ t.rowSecurity = RowSecurity(r.rls)
        /\ DOMAIN t.columns = DOMAIN r.columns /\ Restates(d, o, t.relations, r)
    BY <1>1, <2>1 DEF TableOf, ReadsColumns
  <2>3. \A i \in DOMAIN r.columns :
          /\ t.columns[i].name = r.columns[i].name
          /\ t.columns[i].privileges = ColumnPrivileges(d, role, r, r.columns[i])
    BY <1>1, <2>1 DEF TableOf, ReadsColumns
  <2>4. role # NoRole => told.privileges.may = {x \in Range(Commands) : May(d, role, r, x)}
    <3>1. role # NoRole => RelationPrivileges(d, role, r).may = {x \in Range(Commands) : May(d, role, r, x)}
      BY ToldPrivileges
    <3>2. told.privileges = RelationPrivileges(d, role, r)
      BY <2>1, <2>2
    <3>. QED  BY <3>1, <3>2
  <2>5. ASSUME NEW x \in Range(Commands), NEW user \in DOMAIN d.memberOf, RlsApplies(d, user, r),
               x \in told.rowSecurity.deniedCommands \/ ~told.rowSecurity.hasPolicies
        PROVE  RlsRefuses(d, user, r, x)
    BY <2>1, <2>2, <2>5, DeniedIsRefused
  <2>6. ASSUME NEW i \in DOMAIN r.columns
        PROVE  /\ told.columns[i].name = r.columns[i].name
               /\ role # NoRole => told.columns[i].privileges.may =
                     {x \in {"insert", "update"} : MayWrite(d, role, r, r.columns[i], x)}
               /\ told.columns[i].references # <<>> =>
                     Refers(told.columns[i].name, told.columns[i].references)
    <3>1. /\ told.columns[i].name = r.columns[i].name
          /\ told.columns[i].privileges = ColumnPrivileges(d, role, r, r.columns[i])
          /\ told.columns[i].references = References(t, r.columns[i].name)
      BY <2>1, <2>2, <2>3
    <3>2. role # NoRole => ColumnPrivileges(d, role, r, r.columns[i]).may =
                             {x \in {"insert", "update"} : MayWrite(d, role, r, r.columns[i], x)}
      BY ToldPrivileges
    <3>3. References(t, r.columns[i].name) # <<>> => Refers(r.columns[i].name, References(t, r.columns[i].name))
      <4>1. References(t, r.columns[i].name) # <<>> => RefersTo(r, r.columns[i].name, References(t, r.columns[i].name))
        BY <2>2, ReferenceIsReal
      <4>. QED  BY <4>1 DEF RefersTo
    <3>. HIDE DEF Refers
    <3>. QED  BY <3>1, <3>2, <3>3
  <2>. QED  BY <2>4, <2>5, <2>6
<1>10. TableIsDescribed(d, o, r, told)
  BY <1>1, <1>6, <1>7, <1>9, Zenon DEF TableIsDescribed
<1>. QED  BY <1>1, <1>10

\* describe_view tells the truth about the only relation of a name.
LEMMA ViewToldTruly ==
    ASSUME NEW d, NEW o, {"schemas", "privilegeRole"} \subseteq DOMAIN o, NEW rpc,
           NEW r \in d.relations, \A x \in d.relations : Flat(x) = Flat(r) => x = r,
           NEW told, told = DescribeView(Compilation(d, o, rpc), Flat(r)), told.found,
           o.privilegeRole # NoRole
    PROVE  told.privileges.may = {x \in Range(Commands) : May(d, o.privilegeRole, r, x)}
<1>1. PICK c, q, found : c = Compilation(d, o, rpc) /\ q = Flat(r)
                         /\ found = {v \in c.views : v.qualifiedName = q}
  OBVIOUS
<1>2. PICK v : v = CHOOSE x \in found : TRUE
  OBVIOUS
<1>3. v \in found /\ told.privileges = v.privileges
  <2>1. told.found <=> found # {}
    BY <1>1 DEF DescribeView, ToolError
  <2>. QED  BY <1>1, <1>2, <2>1 DEF DescribeView
<1>4. PICK seen \in d.relations : ViewOf(d, o, seen, v)
  BY <1>1, <1>3, ViewsOfContext
<1>5. seen = r
  BY <1>1, <1>3, <1>4 DEF ViewOf
<1>6. told.privileges = RelationPrivileges(d, o.privilegeRole, r)
  BY <1>3, <1>4, <1>5 DEF ViewOf
<1>7. PICK role : role = o.privilegeRole
  OBVIOUS
<1>8. role # NoRole => RelationPrivileges(d, role, r).may = {x \in Range(Commands) : May(d, role, r, x)}
  BY ToldPrivileges
<1>. QED  BY <1>6, <1>7, <1>8

\* Foreign keys refer to tables of the database, and no two relations have one name.
SoundKeys(d) ==
    \A r \in d.relations :
        /\ r.schema \in DOMAIN d.schemas /\ IsList(r.foreignKeys) /\ ListedColumns(r)
        /\ \A fk \in Range(r.foreignKeys) :
             /\ Aligned(fk)
             /\ \E x \in d.relations : x.kind \in TableKinds /\ x.schema = fk.refSchema /\ x.name = fk.refName
Distinct(d) == \A x, y \in d.relations : Flat(x) = Flat(y) => x = y

Read(d, v) == {r \in d.relations : Flat(r) \in v.reads /\ r.kind # "partitioned"}

\* A foreign key of a table that is read is kept, and refers to what a view reads,
\* exactly if it refers to a table that the view reads and that is introspected.
LEMMA JoinableKey ==
    ASSUME NEW d, NEW o, SoundKeys(d), Distinct(d), NEW v, NEW r \in d.relations,
           NEW fk \in Range(r.foreignKeys)
    PROVE  /\ fk \in Surviving(d, o, r.foreignKeys)
           /\ fk.refSchema \o fk.refName \in {Flat(x) : x \in Read(d, v)}
           <=> \E t \in Read(d, v) : /\ t.schema = fk.refSchema /\ t.name = fk.refName
                                     /\ t.schema \in o.schemas /\ ShouldRetain(t, o)
<1>1. PICK target : target = fk.refSchema \o fk.refName
  OBVIOUS
<1>2. PICK x \in d.relations : x.kind \in TableKinds /\ x.schema = fk.refSchema /\ x.name = fk.refName
  BY DEF SoundKeys
<1>3. Flat(x) = target /\ x.schema \in DOMAIN d.schemas
  BY <1>1, <1>2 DEF Flat, SoundKeys
<1>4. \A y \in d.relations : Flat(y) = target <=> y = x
  BY <1>3 DEF Distinct
<1>. HIDE DEF Flat, ShouldRetain
<1>5. fk \in Surviving(d, o, r.foreignKeys) <=> x \in Introspected(d, o, TableKinds)
  <2>1. fk \in Surviving(d, o, r.foreignKeys) <=> \E y \in Introspected(d, o, TableKinds) : target = Flat(y)
    BY <1>1 DEF Surviving
  <2>2. Introspected(d, o, TableKinds) \subseteq d.relations
    BY DEF Introspected
  <2>. QED  BY <1>3, <1>4, <2>1, <2>2
<1>6. x \in Introspected(d, o, TableKinds) <=> x.schema \in o.schemas /\ ShouldRetain(x, o)
  BY <1>2, <1>3 DEF Introspected
<1>7. target \in {Flat(y) : y \in Read(d, v)} <=> x \in Read(d, v)
  <2>1. Read(d, v) \subseteq d.relations
    BY DEF Read
  <2>. QED  BY <1>3, <1>4, <2>1
<1>8. \A t \in Read(d, v) : t.schema = fk.refSchema /\ t.name = fk.refName <=> t = x
  <2>1. \A t : t.schema = fk.refSchema /\ t.name = fk.refName => Flat(t) = target
    BY <1>1 DEF Flat
  <2>. QED  BY <1>2, <1>4, <2>1 DEF Read
<1>. QED  BY <1>1, <1>5, <1>6, <1>7, <1>8

Join(from, to, on) == [from |-> from, to |-> to, on |-> on]
\* The joins that are real: of the tables that a view reads and that are listed,
\* by each of their foreign keys to a table that it reads and that is introspected.
ListedIn(tables, r) == \E t \in tables : t.qualifiedName = Flat(r)
Joinable(d, o, v, fk) ==
    \E t \in Read(d, v) : /\ t.schema = fk.refSchema /\ t.name = fk.refName
                          /\ t.schema \in o.schemas /\ ShouldRetain(t, o)
RealJoin(r, fk) == Join(Flat(r), fk.refSchema \o fk.refName, <<fk.columns, fk.refColumns>>)
RealJoins(d, o, tables, v) ==
    UNION {{RealJoin(r, fk) : fk \in {k \in Range(r.foreignKeys) : Joinable(d, o, v, k)}} :
              r \in {x \in Read(d, v) : ListedIn(tables, x)}}

\* The joins that are suggested for a view are the real ones.
LEMMA SuggestedAreReal ==
    ASSUME NEW d, NEW o, SoundKeys(d), Distinct(d), NEW v, NEW w, NEW tables,
           w.underlyingTables = UnderlyingTables(d, v),
           \A t \in tables : \E r \in d.relations : TableOf(d, o, r, t)
    PROVE  /\ w.underlyingTables = {Flat(r) : r \in Read(d, v)}
           /\ JoinSuggestions(w, tables) = RealJoins(d, o, tables, v)
<1>1. w.underlyingTables = {Flat(r) : r \in Read(d, v)}
  BY DEF UnderlyingTables, Read
<1>2. PICK under : under = w.underlyingTables
  OBVIOUS
<1>. DEFINE Of(t, rel) == Join(t.qualifiedName, Target(rel), <<rel.fields, rel.columns>>)
<1>3. \A j : j \in JoinSuggestions(w, tables) <=>
         \E t \in tables : \E rel \in Range(t.relations) :
            t.qualifiedName \in under /\ Target(rel) \in under /\ j = Of(t, rel)
  <2>. HIDE DEF Target
  <2>. QED  BY <1>2 DEF JoinSuggestions, Join
<1>4. \A j : j \in RealJoins(d, o, tables, v) <=>
         \E r \in Read(d, v) : ListedIn(tables, r) /\ \E fk \in Range(r.foreignKeys) : Joinable(d, o, v, fk) /\ j = RealJoin(r, fk)
  BY DEF RealJoins
<1>5. ASSUME NEW t \in tables, NEW rel \in Range(t.relations), t.qualifiedName \in under, Target(rel) \in under
      PROVE  \E r \in Read(d, v) : ListedIn(tables, r)
                /\ \E fk \in Range(r.foreignKeys) : Joinable(d, o, v, fk) /\ Of(t, rel) = RealJoin(r, fk)
  <2>1. PICK r \in d.relations : TableOf(d, o, r, t)
    OBVIOUS
  <2>2. t.qualifiedName = Flat(r) /\ Restates(d, o, t.relations, r)
    BY <2>1 DEF TableOf
  <2>3. r \in Read(d, v)
    <3>1. PICK x \in Read(d, v) : Flat(x) = Flat(r)
      BY <1>1, <1>2, <1>5, <2>2
    <3>2. x \in d.relations
      BY DEF Read
    <3>. QED  BY <3>1, <3>2 DEF Distinct
  <2>4. PICK fk \in Surviving(d, o, r.foreignKeys) :
          rel.fields = fk.columns /\ rel.columns = fk.refColumns /\ Target(rel) = fk.refSchema \o fk.refName
    BY <2>2 DEF Restates
  <2>5. fk \in Range(r.foreignKeys)
    BY DEF Surviving
  <2>6. fk.refSchema \o fk.refName \in {Flat(x) : x \in Read(d, v)}
    BY <1>1, <1>2, <1>5, <2>4
  <2>7. Joinable(d, o, v, fk)
    BY <2>4, <2>5, <2>6, JoinableKey DEF Joinable
  <2>8. Of(t, rel) = RealJoin(r, fk)
    BY <2>2, <2>4 DEF RealJoin
  <2>9. ListedIn(tables, r)
    BY <2>2 DEF ListedIn
  <2>. HIDE DEF Of
  <2>. QED  BY <2>3, <2>5, <2>7, <2>8, <2>9
<1>6. ASSUME NEW r \in Read(d, v), ListedIn(tables, r), NEW fk \in Range(r.foreignKeys), Joinable(d, o, v, fk)
      PROVE  \E t \in tables : \E rel \in Range(t.relations) :
                t.qualifiedName \in under /\ Target(rel) \in under /\ RealJoin(r, fk) = Of(t, rel)
  <2>1. PICK t \in tables : t.qualifiedName = Flat(r)
    BY <1>6 DEF ListedIn
  <2>2. PICK x \in d.relations : TableOf(d, o, x, t)
    OBVIOUS
  <2>3. r \in d.relations /\ x = r
    BY <2>1, <2>2 DEF TableOf, Read, Distinct
  <2>4. /\ fk \in Surviving(d, o, r.foreignKeys)
        /\ fk.refSchema \o fk.refName \in {Flat(y) : y \in Read(d, v)}
    BY <1>6, <2>3, JoinableKey DEF Joinable
  <2>5. Aligned(fk)
    BY <2>3 DEF SoundKeys
  <2>6. PICK rel \in Range(t.relations) :
          rel.fields = fk.columns /\ rel.columns = fk.refColumns /\ Target(rel) = fk.refSchema \o fk.refName
    BY <2>2, <2>3, <2>4, <2>5 DEF TableOf, Restates
  <2>7. t.qualifiedName \in under /\ Target(rel) \in under
    BY <1>1, <1>2, <2>1, <2>4, <2>6
  <2>8. RealJoin(r, fk) = Of(t, rel)
    BY <2>1, <2>6 DEF RealJoin
  <2>. HIDE DEF Of
  <2>. QED  BY <2>7, <2>8
<1>. HIDE DEF Of
<1>7. \A j : j \in JoinSuggestions(w, tables) <=> j \in RealJoins(d, o, tables, v)
  BY <1>3, <1>4, <1>5, <1>6
<1>8. JoinSuggestions(w, tables) = RealJoins(d, o, tables, v)
  BY <1>7
<1>. QED  BY <1>1, <1>8

\* get_concept_context tells the truth about the only shown view of a name.
LEMMA ConceptToldTruly ==
    ASSUME NEW d, NEW o, {"schemas", "privilegeRole"} \subseteq DOMAIN o, NEW rpc,
           SoundKeys(d), Distinct(d), NEW c, c = Compilation(d, o, rpc), NEW name,
           NEW v \in d.relations,
           \A x \in d.relations :
              x.name = name /\ (\E w \in c.views : w.qualifiedName = Flat(x)) => x = v,
           NEW told, told = GetConceptContext(c, name), told.found
    PROVE  JoinsAreReal(d, o, c.tables, v, told)
<1>1. PICK concepts, w : /\ concepts = {x \in c.concepts : x.name = name}
                         /\ w = CHOOSE x \in c.views : x.name = name
  OBVIOUS
<1>2. PICK concept : concept = CHOOSE x \in concepts : TRUE
  OBVIOUS
<1>3. concept \in concepts
  <2>1. told.found <=> concepts # {}
    BY <1>1 DEF GetConceptContext, ToolError
  <2>. QED  BY <1>2, <2>1
<1>4. told.joins = concept.joins /\ told.relatedTables = w.underlyingTables
  BY <1>1, <1>2, <1>3 DEF GetConceptContext
<1>5. \A x \in c.views : \E r \in d.relations : ViewOf(d, o, r, x)
  BY ViewsOfContext
<1>6. ASSUME NEW x \in c.views, x.name = name PROVE x.underlyingTables = UnderlyingTables(d, v)
  <2>1. PICK r \in d.relations : ViewOf(d, o, r, x)
    BY <1>5
  <2>2. r = v
    BY <1>6, <2>1 DEF ViewOf
  <2>. QED  BY <2>1, <2>2 DEF ViewOf
<1>7. PICK x \in c.views : x.name = name /\ concept.joins = JoinSuggestions(x, c.tables)
  <2>1. concept \in c.concepts /\ concept.name = name
    BY <1>1, <1>3
  <2>. QED  BY <2>1, ViewsOfContext
<1>8. w \in c.views /\ w.name = name
  BY <1>1, <1>7
<1>9. \A t \in c.tables : \E r \in d.relations : TableOf(d, o, r, t)
  <2>1. ListedKeys(d)
    BY DEF SoundKeys, ListedKeys
  <2>2. \A t \in c.tables : \E r \in Introspected(d, o, TableKinds) : TableOf(d, o, r, t)
    BY <2>1, TablesOfContext
  <2>. QED  BY <2>2 DEF Introspected
<1>10. told.relatedTables = {Flat(r) : r \in Read(d, v)}
  <2>1. w.underlyingTables = UnderlyingTables(d, v)
    BY <1>6, <1>8
  <2>. QED  BY <1>4, <2>1 DEF UnderlyingTables, Read
<1>11. told.joins = RealJoins(d, o, c.tables, v)
  <2>1. x.underlyingTables = UnderlyingTables(d, v)
    BY <1>6, <1>7
  <2>2. PICK tables : tables = c.tables
    OBVIOUS
  <2>3. \A t \in tables : \E r \in d.relations : TableOf(d, o, r, t)
    BY <1>9, <2>2
  <2>4. JoinSuggestions(x, tables) = RealJoins(d, o, tables, v)
    BY <2>1, <2>3, SuggestedAreReal
  <2>. QED  BY <1>4, <1>7, <2>2, <2>4
<1>. QED  BY <1>10, <1>11 DEF JoinsAreReal, RealJoins, RealJoin, Join, Joinable, ListedIn, Read

-----------------------------------------------------------------------------
(* The specification. *)

\* A compiled schema context is the one of the catalog.
ContextInv ==
    /\ catalog \in Catalogs
    /\ phase = "compiled" =>
         ctx = BuildSchemaContext(Introspect(db, opts), catalog.rpc, opts)

\* The schema context changes only when it is compiled; requests leave it alone.
LEMMA ContextInvariant == Spec => []ContextInv
<1>1. Init => ContextInv
  BY DEF Init, ContextInv
<1>2. ContextInv /\ [Next]_vars => ContextInv'
  <2> SUFFICES ASSUME ContextInv, [Next]_vars PROVE ContextInv'
    OBVIOUS
  <2>1. CASE Compile
    BY <2>1 DEF Compile, ContextInv, db, opts
  <2>2. ASSUME UNCHANGED <<catalog, phase, ctx>> PROVE ContextInv'
    BY <2>2 DEF ContextInv, db, opts
  <2>3. CASE Call
    BY <2>2, <2>3 DEF Call, Answers
  <2>4. CASE Request
    BY <2>2, <2>4 DEF Request, Answers
  <2>5. CASE Embed
    BY <2>2, <2>5 DEF Embed, Answers
  <2>6. CASE Value
    BY <2>2, <2>6 DEF Value, Answers
  <2>7. CASE Describe
    BY <2>2, <2>7 DEF Describe, Answers
  <2>8. CASE Edit
    BY <2>2, <2>8 DEF Edit, Answers
  <2>9. CASE Browse
    BY <2>2, <2>9 DEF Browse, Answers
  <2>10. CASE InList
    BY <2>2, <2>10 DEF InList, Answers
  <2>11. CASE Act
    BY <2>2, <2>11 DEF Act, Answers
  <2>12. CASE Write
    BY <2>2, <2>12 DEF Write, Answers
  <2>13. CASE Save
    BY <2>2, <2>13 DEF Save, Answers
  <2>14. CASE UNCHANGED vars
    BY <2>2, <2>14 DEF vars
  <2>15. QED
    BY <2>1, <2>3, <2>4, <2>5, <2>6, <2>7, <2>8, <2>9, <2>10, <2>11, <2>12, <2>13, <2>14 DEF Next
<1>3. QED
  BY <1>1, <1>2, PTL DEF Spec

\* What is compiled of a catalog, function by function.
LEMMA ExposedFunction ==
    ASSUME NEW c \in Catalogs,
           NEW fn \in BuildSchemaContext(Introspect(c.db, c.opts), c.rpc, c.opts).functions
    PROVE  \E f \in c.db.functions :
             LET tag == ParseCommentTags(f.comment).expose
             IN /\ Flat(f) = fn.qualifiedName /\ fn = FunctionContext(RawFunction(c.db, f))
                /\ ~UnsupportedArgument(RawFunction(c.db, f)) /\ fn.returns.kind # "unsupported"
                /\ \A h \in c.db.functions : Flat(h) = Flat(f) => h = f
                /\ tag # "none"
                /\ f.security = "definer" => Flat(f) \in c.rpc.allowDefiner /\ ~Hijackable(c.db, f)
                /\ PUBLIC \in f.execute => Flat(f) \in c.rpc.allowPublicExecute \/ tag = "rpc-public"
<1> DEFINE Tag(f) == ParseCommentTags(f.comment).expose
<1>1. PICK d, o, rpc : d = c.db /\ o = c.opts /\ rpc = c.rpc
  OBVIOUS
<1>2. /\ "schemas" \in DOMAIN o /\ IsFiniteSet(d.functions)
      /\ \A f \in d.functions : IsIdentifier(f.schema) /\ IsIdentifier(f.name) /\ IsList(f.path)
      /\ \A f, g \in d.functions :
           f # g /\ f.schema = g.schema /\ f.name = g.name => ArgumentTypes(f) # ArgumentTypes(g)
  BY <1>1, CatalogsAssumption
<1>3. PICK o2 : fn \in BuildFunctionContexts(FetchFunctions(d, o2), rpc).functions
  BY <1>1, <1>2, CompiledExposure
<1>4. IsFiniteSet(FetchFunctions(d, o2))
  BY <1>2, FetchFinite
<1>5. PICK g \in FetchFunctions(d, o2) :
        /\ fn = FunctionContext(g) /\ fn.qualifiedName = Flat(g)
        /\ Tag(g) # "none" /\ ~Refused(g, Tag(g), rpc)
        /\ ~HasDot(g.schema) /\ ~HasDot(g.name)
        /\ \A h \in FetchFunctions(d, o2) : Flat(h) = Flat(g) => h = g
  BY <1>3, <1>4, ExposureLemma
<1>6. PICK f \in d.functions : f.schema \in o2.schemas /\ g = RawFunction(d, f)
  BY <1>5, TracedLemma
<1>7. /\ g.schema = f.schema /\ g.name = f.name /\ g.comment = f.comment
      /\ g.security = f.security /\ g.searchPath = SearchPath(d, f)
      /\ g.publicExecute <=> PUBLIC \in f.execute
  BY <1>6 DEF RawFunction
<1>8. Flat(g) = Flat(f) /\ Tag(f) = Tag(g)
  BY <1>7 DEF Flat
<1>9. ASSUME NEW h \in d.functions, Flat(h) = Flat(f) PROVE h = f
  <2>1. h.schema = f.schema /\ h.name = f.name
    <3>1. h.schema \o h.name = f.schema \o f.name
      BY <1>9 DEF Flat
    <3>2. IsIdentifier(h.schema) /\ IsIdentifier(h.name) /\ IsIdentifier(f.schema) /\ IsIdentifier(f.name)
      BY <1>2
    <3>3. ~HasDot(f.schema) /\ ~HasDot(f.name)
      BY <1>5, <1>7
    <3>. QED  BY <3>1, <3>2, <3>3, DottedNames
  <2>2. RawFunction(d, h) \in FetchFunctions(d, o2)
    BY <1>6, <2>1, ReadLemma
  <2>3. Flat(RawFunction(d, h)) = Flat(g)
    BY <1>7, <2>1 DEF Flat, RawFunction
  <2>4. RawFunction(d, h) = RawFunction(d, f)
    BY <1>5, <1>6, <2>2, <2>3
  <2>5. ArgumentTypes(h) = ArgumentTypes(f)
    BY <2>4, ReadApart
  <2>. QED  BY <1>2, <2>1, <2>5
<1>10. ASSUME f.security = "definer" PROVE Flat(f) \in rpc.allowDefiner /\ ~Hijackable(d, f)
  <2>1. Flat(g) \in NormalizeAllowlist(rpc.allowDefiner) /\ SafeSearchPath(g.searchPath)
    BY <1>5, <1>7, <1>10 DEF Refused, UnsafeDefiner
  <2>2. Flat(f) \in rpc.allowDefiner
    BY <1>8, <2>1 DEF NormalizeAllowlist
  <2>3. f.path \in Seq(Range(f.path)) /\ SafeSearchPath(SearchPath(d, f))
    BY <1>2, <1>7, <2>1 DEF IsList
  <2>. QED  BY <2>2, <2>3, SafePathsAreSafe
<1>11. ASSUME PUBLIC \in f.execute PROVE Flat(f) \in rpc.allowPublicExecute \/ Tag(f) = "rpc-public"
  <2>1. Tag(g) = "rpc-public" \/ Flat(g) \in NormalizeAllowlist(rpc.allowPublicExecute)
    BY <1>5, <1>7, <1>11 DEF Refused, UnwantedPublic
  <2>. QED  BY <1>8, <2>1 DEF NormalizeAllowlist
<1>12. ~UnsupportedArgument(g) /\ g.returns.kind # "unsupported"
  BY <1>5 DEF Refused
<1>13. /\ fn = FunctionContext(RawFunction(d, f)) /\ ~UnsupportedArgument(RawFunction(d, f))
       /\ fn.returns.kind # "unsupported"
  <2>1. fn.returns = g.returns
    BY <1>5 DEF FunctionContext
  <2>. QED  BY <1>5, <1>6, <1>12, <2>1
<1>. QED  BY <1>1, <1>5, <1>8, <1>9, <1>10, <1>11, <1>13

\* A function of a schema that is compiled, whose comment exposes it, is
\* exposed or reported.
LEMMA TaggedFunction ==
    ASSUME NEW c \in Catalogs, NEW f \in c.db.functions, f.schema \in c.opts.schemas,
           ParseCommentTags(f.comment).expose # "none",
           NEW compiled, compiled = BuildSchemaContext(Introspect(c.db, c.opts), c.rpc, c.opts)
    PROVE  Flat(f) \in {fn.qualifiedName : fn \in compiled.functions} \cup compiled.issues
<1>1. PICK d, o, rpc : d = c.db /\ o = c.opts /\ rpc = c.rpc
  OBVIOUS
<1>2. "schemas" \in DOMAIN o /\ f.schema \in DOMAIN d.schemas
  BY <1>1, CatalogsAssumption
<1>3. PICK o2 : /\ o2.schemas = o.schemas \cap DOMAIN d.schemas
                /\ compiled.functions = BuildFunctionContexts(FetchFunctions(d, o2), rpc).functions
                /\ BuildFunctionContexts(FetchFunctions(d, o2), rpc).issues \subseteq compiled.issues
  BY <1>1, <1>2, CompiledExposure
<1>4. PICK g : g = RawFunction(d, f)
  OBVIOUS
<1>5. g \in FetchFunctions(d, o2)
  BY <1>1, <1>2, <1>3, <1>4, ReadLemma
<1>6. Flat(g) = Flat(f) /\ g.comment = f.comment
  BY <1>4 DEF RawFunction, Flat
<1>7. Flat(g) \in {fn.qualifiedName : fn \in BuildFunctionContexts(FetchFunctions(d, o2), rpc).functions}
                    \cup BuildFunctionContexts(FetchFunctions(d, o2), rpc).issues
  BY <1>5, <1>6, ReportLemma
<1>. QED  BY <1>3, <1>6, <1>7

\* Whatever the database, the operator's lists and the options: a function that
\* the compiled schema exposes is the only one of its name and was tagged by its
\* author, in the last @expose line of its comment; if it runs with its owner's
\* rights, it is on the operator's list and nobody else can put objects on its
\* search path; if PUBLIC may execute it, its author or the operator says so;
\* and a tagged function that is not exposed is reported.
THEOREM Exposure == Spec => []ExposureIsAuthorized
<1>1. ContextInv => ExposureIsAuthorized
  <2> SUFFICES ASSUME ContextInv, Compiled PROVE ExposureIsAuthorized
    BY DEF ExposureIsAuthorized, ExposedAreAuthorized
  <2> DEFINE Tag(f) == ParseCommentTags(f.comment).expose
  <2>1. PICK c \in Catalogs : c = catalog
    BY DEF ContextInv
  <2>2. db = c.db /\ opts = c.opts
    BY <2>1 DEF db, opts
  <2>3. ctx = BuildSchemaContext(Introspect(c.db, c.opts), c.rpc, c.opts)
    BY <2>1, <2>2 DEF ContextInv, Compiled
  <2>4. ASSUME NEW f \in db.functions
        PROVE  /\ Tag(f) # "none" <=> Exposes(f.comment)
               /\ Tag(f) = "rpc-public" => ExposesToPublic(f.comment)
    <3>1. f.comment \in Seq(Range(f.comment))
      BY <2>2, CatalogsAssumption DEF IsList
    <3>2. PICK n \in Nat : DOMAIN f.comment = 1 .. n
      BY <3>1, LenProperties
    <3>. QED  BY <3>2, TagsMeanTheirLines
  <2>5. ASSUME NEW q \in Exposed
        PROVE  \E f \in db.functions :
                 /\ Definitions(q) = {f} /\ Exposes(f.comment) /\ Authorized(f)
                 /\ PUBLIC \in f.execute =>
                      q \in catalog.rpc.allowPublicExecute \/ ExposesToPublic(f.comment)
    <3>1. PICK fn \in ctx.functions : q = fn.qualifiedName
      BY DEF Exposed
    <3>2. PICK f \in c.db.functions :
            /\ Flat(f) = q
            /\ \A h \in c.db.functions : Flat(h) = Flat(f) => h = f
            /\ Tag(f) # "none"
            /\ f.security = "definer" => Flat(f) \in c.rpc.allowDefiner /\ ~Hijackable(c.db, f)
            /\ PUBLIC \in f.execute => Flat(f) \in c.rpc.allowPublicExecute \/ Tag(f) = "rpc-public"
      BY <2>3, <3>1, ExposedFunction
    <3>3. Definitions(q) = {f}
      BY <2>2, <3>2 DEF Definitions
    <3>4. Authorized(f)
      BY <2>1, <2>2, <3>2 DEF Authorized
    <3>. QED  BY <2>1, <2>2, <2>4, <3>2, <3>3, <3>4
  <2>6. ASSUME NEW f \in db.functions, f.schema \in opts.schemas, Exposes(f.comment)
        PROVE  Flat(f) \in Exposed \cup ctx.issues
    <3>1. Tag(f) # "none"
      BY <2>4, <2>6
    <3>. QED  BY <2>2, <2>3, <2>6, <3>1, TaggedFunction DEF Exposed
  <2>7. ExposedAreAuthorized
    BY <2>5 DEF ExposedAreAuthorized
  <2>8. \A q \in Exposed : \E f \in Definitions(q) :
          /\ Definitions(q) = {f} /\ Exposes(f.comment)
          /\ PUBLIC \in f.execute => q \in catalog.rpc.allowPublicExecute \/ ExposesToPublic(f.comment)
    BY <2>5
  <2>. QED  BY <2>6, <2>7, <2>8 DEF ExposureIsAuthorized
<1>2. QED
  BY <1>1, ContextInvariant, PTL

-----------------------------------------------------------------------------
(* The document and the router. *)

\* What a name resolves to is a resource of that name.
LEMMA Resolved ==
    ASSUME NEW R, NEW name, NEW x \in Resolve(R, name)
    PROVE  x \in R /\ name \in {x.qualifiedName, x.name}
  BY DEF Resolve

\* The segment of a path names the resource it is documented for, unless names
\* with dots make it the name of another.
LEMMA ResolvesToOne ==
    ASSUME NEW R, NEW r \in R, NEW segment, segment = SegmentFor(R, r),
           \A x \in R : x.qualifiedName \in {segment, r.qualifiedName} => x = r
    PROVE  Resolve(R, segment) = {r}
<1>1. CASE {x \in R : x.name = r.name} = {r}
  <2>1. segment = r.name
    BY <1>1 DEF SegmentFor
  <2>2. CASE r.qualifiedName = segment
    <3>1. {x \in R : x.qualifiedName = segment} = {r}
      BY <2>2
    <3>. QED  BY <3>1 DEF Resolve
  <2>3. CASE r.qualifiedName # segment
    <3>1. {x \in R : x.qualifiedName = segment} = {}
      BY <2>3
    <3>2. {x \in R : x.name = segment} = {r}
      BY <1>1, <2>1
    <3>. QED  BY <3>1, <3>2 DEF Resolve
  <2>. QED  BY <2>2, <2>3
<1>2. CASE {x \in R : x.name = r.name} # {r}
  <2>1. segment = r.qualifiedName
    BY <1>2 DEF SegmentFor
  <2>2. {x \in R : x.qualifiedName = segment} = {r}
    BY <2>1
  <2>. QED  BY <2>2 DEF Resolve
<1>. QED  BY <1>1, <1>2

\* A resource is a table or a view, and a view has no key.
LEMMA ResourceKinds ==
    ASSUME NEW c, NEW r \in Resources(c)
    PROVE  r.kind \in {"table", "view"} /\ (r.kind = "view" => r.primaryKey = <<>>)
  BY DEF Resources, Resource

\* The operations documented for a resource.
LEMMA DocumentedOperations ==
    ASSUME NEW R, NEW r, NEW d
    PROVE  LET collection == <<SegmentFor(R, r)>>
               item == <<SegmentFor(R, r), Id>>
               q == r.qualifiedName
           IN d \in ResourcePaths(R, r) <=>
                \/ d = Documented("GET", collection, FALSE, "list", q)
                \/ /\ r.primaryKey # <<>>
                   /\ \/ d = Documented("GET", collection, TRUE, "options", q)
                      \/ d = Documented("GET", item, FALSE, "get", q)
                \/ r.kind = "table" /\ d = Documented("POST", collection, FALSE, "create", q)
                \/ /\ r.primaryKey # <<>> /\ r.kind = "table"
                   /\ \/ d = Documented("PATCH", item, FALSE, "update", q)
                      \/ d = Documented("DELETE", item, FALSE, "delete", q)
<1>1. PICK collection, item, q : /\ collection = <<SegmentFor(R, r)>>
                                /\ item = <<SegmentFor(R, r), Id>>
                                /\ q = r.qualifiedName
  OBVIOUS
<1>2. ResourcePaths(R, r) =
        {Documented("GET", collection, FALSE, "list", q)}
          \cup (IF r.primaryKey # <<>>
                THEN {Documented("GET", collection, TRUE, "options", q),
                      Documented("GET", item, FALSE, "get", q)} ELSE {})
          \cup (IF r.kind = "table" THEN {Documented("POST", collection, FALSE, "create", q)} ELSE {})
          \cup (IF r.primaryKey # <<>> /\ r.kind = "table"
                THEN {Documented("PATCH", item, FALSE, "update", q),
                      Documented("DELETE", item, FALSE, "delete", q)} ELSE {})
  BY <1>1 DEF ResourcePaths
<1>. HIDE DEF Documented
<1>. QED  BY <1>1, <1>2

\* Which operations there are for a resource.
Offered(r, op) ==
    \/ op = "list"
    \/ op \in {"options", "get"} /\ r.primaryKey # <<>>
    \/ op = "create" /\ r.kind = "table"
    \/ op \in {"update", "delete"} /\ r.primaryKey # <<>> /\ r.kind = "table"

\* Each of them is in the document.
LEMMA OfferedIsDocumented ==
    ASSUME NEW R, NEW r, NEW op, Offered(r, op)
    PROVE  \E d \in ResourcePaths(R, r) : d.op = op /\ d.on = r.qualifiedName
<1>1. PICK collection, item, q : /\ collection = <<SegmentFor(R, r)>>
                                /\ item = <<SegmentFor(R, r), Id>>
                                /\ q = r.qualifiedName
  OBVIOUS
<1>2. CASE op = "list"
  <2>1. PICK d : d = Documented("GET", collection, FALSE, "list", q)
    OBVIOUS
  <2>2. d \in ResourcePaths(R, r)
    BY <1>1, DocumentedOperations, <2>1
  <2>3. d.op = op /\ d.on = q
    BY <1>2, <2>1 DEF Documented
  <2>. QED  BY <1>1, <2>2, <2>3
<1>3. CASE op = "options"
  <2>1. PICK d : d = Documented("GET", collection, TRUE, "options", q)
    OBVIOUS
  <2>2. d \in ResourcePaths(R, r)
    BY <1>1, <1>3, DocumentedOperations, <2>1 DEF Offered
  <2>3. d.op = op /\ d.on = q
    BY <1>3, <2>1 DEF Documented
  <2>. QED  BY <1>1, <2>2, <2>3
<1>4. CASE op = "get"
  <2>1. PICK d : d = Documented("GET", item, FALSE, "get", q)
    OBVIOUS
  <2>2. d \in ResourcePaths(R, r)
    BY <1>1, <1>4, DocumentedOperations, <2>1 DEF Offered
  <2>3. d.op = op /\ d.on = q
    BY <1>4, <2>1 DEF Documented
  <2>. QED  BY <1>1, <2>2, <2>3
<1>5. CASE op = "create"
  <2>1. PICK d : d = Documented("POST", collection, FALSE, "create", q)
    OBVIOUS
  <2>2. d \in ResourcePaths(R, r)
    BY <1>1, <1>5, DocumentedOperations, <2>1 DEF Offered
  <2>3. d.op = op /\ d.on = q
    BY <1>5, <2>1 DEF Documented
  <2>. QED  BY <1>1, <2>2, <2>3
<1>6. CASE op = "update"
  <2>1. PICK d : d = Documented("PATCH", item, FALSE, "update", q)
    OBVIOUS
  <2>2. d \in ResourcePaths(R, r)
    BY <1>1, <1>6, DocumentedOperations, <2>1 DEF Offered
  <2>3. d.op = op /\ d.on = q
    BY <1>6, <2>1 DEF Documented
  <2>. QED  BY <1>1, <2>2, <2>3
<1>7. CASE op = "delete"
  <2>1. PICK d : d = Documented("DELETE", item, FALSE, "delete", q)
    OBVIOUS
  <2>2. d \in ResourcePaths(R, r)
    BY <1>1, <1>7, DocumentedOperations, <2>1 DEF Offered
  <2>3. d.op = op /\ d.on = q
    BY <1>7, <2>1 DEF Documented
  <2>. QED  BY <1>1, <2>2, <2>3
<1>. QED  BY <1>2, <1>3, <1>4, <1>5, <1>6, <1>7 DEF Offered

\* A request for a resource is answered with an operation that it offers.
LEMMA AnsweredOperations ==
    ASSUME NEW c, NEW r \in Resources(c), NEW request,
           NEW outcome \in {OnCollection(r, request), OnItem(r, request)}, outcome.status = "ok"
    PROVE  Offered(r, outcome.op) /\ outcome.on = r.qualifiedName
<1>1. r.kind \in {"table", "view"}
  BY ResourceKinds
<1>2. CASE outcome = OnCollection(r, request)
  <2>1. CASE request.method = "GET"
    BY <1>1, <1>2, <2>1 DEF OnCollection, Keyed, Done, Outcome, Offered
  <2>2. CASE request.method = "POST"
    BY <1>1, <1>2, <2>2 DEF OnCollection, Writable, Done, Outcome, NotAllowed, Offered
  <2>3. CASE request.method \notin {"GET", "POST"}
    BY <1>2, <2>3 DEF OnCollection, NotAllowed, Outcome
  <2>. QED  BY <2>1, <2>2, <2>3
<1>3. CASE outcome = OnItem(r, request)
  <2>1. CASE request.method = "GET"
    BY <1>1, <1>3, <2>1 DEF OnItem, Keyed, Done, Outcome, Offered
  <2>2. CASE request.method = "PATCH"
    BY <1>1, <1>3, <2>2 DEF OnItem, Writable, Keyed, Done, Outcome, NotAllowed, Offered
  <2>3. CASE request.method = "DELETE"
    BY <1>1, <1>3, <2>3 DEF OnItem, Writable, Keyed, Done, Outcome, NotAllowed, Offered
  <2>4. CASE request.method \notin {"GET", "PATCH", "DELETE"}
    BY <1>3, <2>4 DEF OnItem, NotAllowed, Outcome
  <2>. QED  BY <2>1, <2>2, <2>3, <2>4
<1>. QED  BY <1>2, <1>3

\* Which requests are for a resource: the rows of the routing table.
ForResource(s) ==
    /\ s # <<>>
    /\ \/ Len(s) = 1 /\ s # <<<<"openapi", "json">>>>
       \/ Len(s) = 2 /\ s[1] # <<"rpc">>

\* A request for a resource is handled for what its first segment resolves to.
LEMMA RoutedToResource ==
    ASSUME NEW c, NEW request, NEW s, s = request.segments, ForResource(s)
    PROVE  LET found == Resolve(Resources(c), s[1])
               r == CHOOSE x \in found : TRUE
           IN Route(c, request) = IF found = {} THEN Missing
                                  ELSE IF Len(s) = 1 THEN OnCollection(r, request)
                                  ELSE OnItem(r, request)
<1>. DEFINE found == Resolve(Resources(c), s[1])
            r == CHOOSE x \in found : TRUE
<1>1. CASE Len(s) = 1 /\ s # <<<<"openapi", "json">>>>
  <2>1. Route(c, request) = OnResource(Resources(c), s[1], LAMBDA x : OnCollection(x, request))
    BY <1>1 DEF Route, ForResource
  <2>. QED  BY <1>1, <2>1 DEF OnResource
<1>2. CASE Len(s) = 2 /\ s[1] # <<"rpc">>
  <2>1. s # <<<<"openapi", "json">>>>
    BY <1>2
  <2>2. Route(c, request) = OnResource(Resources(c), s[1], LAMBDA x : OnItem(x, request))
    BY <1>2, <2>1 DEF Route
  <2>. QED  BY <1>2, <2>2 DEF OnResource
<1>. QED  BY <1>1, <1>2 DEF ForResource

\* What is refused is not answered.
LEMMA Refusals ==
    /\ NotAllowed.status # "ok"
    /\ Missing.status # "ok"
  BY Zenon DEF NotAllowed, Missing, Outcome

\* Any other request that succeeds is for the root, the document or a function.
LEMMA RoutedElsewhere ==
    ASSUME NEW c, NEW request, NEW s, s = request.segments, ~ForResource(s),
           Route(c, request).status = "ok", Route(c, request).op \notin {"root", "document"}
    PROVE  \E fn \in c.functions : Route(c, request) = Outcome("ok", "call", fn.qualifiedName)
<1>1. CASE s = <<>>
  <2>1. Route(c, request) \in {NotAllowed, Outcome("ok", "root", <<>>)}
    BY <1>1 DEF Route
  <2>2. Outcome("ok", "root", <<>>).op = "root"
    BY DEF Outcome
  <2>. QED  BY <2>1, <2>2, Refusals
<1>2. CASE s # <<>> /\ Len(s) = 2 /\ s[1] = <<"rpc">>
  <2>1. s # <<<<"openapi", "json">>>>
    BY <1>2
  <2>2. Route(c, request) =
          IF request.method = "POST"
          THEN IF LookupFunction(c, s[2]) = {} THEN Missing ELSE Outcome("ok", "call", s[2])
          ELSE NotAllowed
    BY <1>2, <2>1 DEF Route
  <2>3. Route(c, request) # NotAllowed /\ Route(c, request) # Missing
    BY Refusals, Zenon
  <2>4. request.method = "POST" /\ LookupFunction(c, s[2]) # {}
    <3>. HIDE DEF Missing, NotAllowed
    <3>. QED  BY <2>3, <2>2, Zenon
  <2>5. Route(c, request) = Outcome("ok", "call", s[2])
    BY <2>4, <2>2, Zenon
  <2>6. PICK fn \in c.functions : fn.qualifiedName = s[2]
    BY <2>4 DEF LookupFunction
  <2>. QED  BY <2>5, <2>6, Zenon
<1>3. CASE s # <<>> /\ ~(Len(s) = 2 /\ s[1] = <<"rpc">>) /\ s = <<<<"openapi", "json">>>>
  <2>1. Route(c, request) \in {NotAllowed, Outcome("ok", "document", <<>>)}
    BY <1>3 DEF Route
  <2>2. Outcome("ok", "document", <<>>).op = "document"
    BY DEF Outcome
  <2>. QED  BY <2>1, <2>2, Refusals
<1>4. CASE s # <<>> /\ ~(Len(s) = 2 /\ s[1] = <<"rpc">>) /\ s # <<<<"openapi", "json">>>>
  <2>1. Route(c, request) = Missing
    <3>1. ~(Len(s) = 1 /\ s # <<<<"openapi", "json">>>>) /\ ~(Len(s) = 2 /\ s[1] # <<"rpc">>)
      BY <1>4 DEF ForResource
    <3>. QED  BY <1>4, <3>1 DEF Route
  <2>. QED  BY <2>1, Refusals
<1>. QED  BY <1>1, <1>2, <1>3, <1>4

\* An operation in the document is routed to the resource it is documented for.
LEMMA DocumentedIsRouted ==
    ASSUME NEW c, NEW r \in Resources(c), NEW d \in ResourcePaths(Resources(c), r),
           NEW s, s = d.request.segments,
           ~(Len(s) = 2 /\ s[1] = <<"rpc">>), s[1] # <<"openapi", "json">>,
           \A x \in Resources(c) : x.qualifiedName \in {s[1], r.qualifiedName} => x = r
    PROVE  Route(c, d.request) = Outcome("ok", d.op, d.on)
<1>1. PICK segment, q : segment = SegmentFor(Resources(c), r) /\ q = r.qualifiedName
  OBVIOUS
<1>2. PICK id : id = Id
  OBVIOUS
<1>3. /\ s \in {<<segment>>, <<segment, id>>}
      /\ \/ s = <<segment>> /\ d = Documented("GET", s, FALSE, "list", q)
         \/ s = <<segment>> /\ r.primaryKey # <<>> /\ d = Documented("GET", s, TRUE, "options", q)
         \/ s = <<segment, id>> /\ r.primaryKey # <<>> /\ d = Documented("GET", s, FALSE, "get", q)
         \/ s = <<segment>> /\ r.kind = "table" /\ d = Documented("POST", s, FALSE, "create", q)
         \/ /\ s = <<segment, id>> /\ r.primaryKey # <<>> /\ r.kind = "table"
            /\ \/ d = Documented("PATCH", s, FALSE, "update", q)
               \/ d = Documented("DELETE", s, FALSE, "delete", q)
  <2>1. PICK collection, item : collection = <<segment>> /\ item = <<segment, id>>
    OBVIOUS
  <2>2. \/ d = Documented("GET", collection, FALSE, "list", q)
        \/ r.primaryKey # <<>> /\ d = Documented("GET", collection, TRUE, "options", q)
        \/ r.primaryKey # <<>> /\ d = Documented("GET", item, FALSE, "get", q)
        \/ r.kind = "table" /\ d = Documented("POST", collection, FALSE, "create", q)
        \/ /\ r.primaryKey # <<>> /\ r.kind = "table"
           /\ \/ d = Documented("PATCH", item, FALSE, "update", q)
              \/ d = Documented("DELETE", item, FALSE, "delete", q)
    <3>. HIDE DEF Documented
    <3>. QED  BY <1>1, <1>2, <2>1, DocumentedOperations
  <2>3. ASSUME NEW m, NEW p, NEW o, NEW op, d = Documented(m, p, o, op, q) PROVE s = p
    <3>1. d.request = [method |-> m, segments |-> p, options |-> o]
      BY <2>3 DEF Documented
    <3>. QED  BY <3>1
  <2>. HIDE DEF Documented
  <2>. QED  BY <2>1, <2>2, <2>3
<1>4. s[1] = segment /\ s # <<>> /\ Len(s) = (IF s = <<segment>> THEN 1 ELSE 2)
  <2>1. CASE s = <<segment>>
    BY <2>1
  <2>2. CASE s = <<segment, id>> /\ s # <<segment>>
    BY <2>2
  <2>. QED  BY <1>3, <2>1, <2>2
<1>5. Resolve(Resources(c), s[1]) = {r}
  BY <1>1, <1>4, ResolvesToOne
<1>6. Route(c, d.request) = IF s = <<segment>> THEN OnCollection(r, d.request)
                            ELSE OnItem(r, d.request)
  <2>1. \/ Len(s) = 1 /\ s # <<<<"openapi", "json">>>>
        \/ Len(s) = 2 /\ s[1] # <<"rpc">>
    <3>1. CASE s = <<segment>>
      <4>1. Len(s) = 1
        BY <1>4, <3>1
      <4>2. ASSUME s = <<<<"openapi", "json">>>> PROVE FALSE
        <5>1. s[1] = <<"openapi", "json">>
          BY <4>2
        <5>. QED  BY <5>1
      <4>. QED  BY <4>1, <4>2
    <3>2. CASE s # <<segment>>
      BY <1>4, <3>2
    <3>. QED  BY <3>1, <3>2
  <2>2. PICK found : found = Resolve(Resources(c), s[1])
    OBVIOUS
  <2>3. PICK x : x = CHOOSE y \in found : TRUE
    OBVIOUS
  <2>4. Route(c, d.request) = IF found = {} THEN Missing
                              ELSE IF Len(s) = 1 THEN OnCollection(x, d.request)
                              ELSE OnItem(x, d.request)
    <3>1. ForResource(s)
      BY <1>4, <2>1 DEF ForResource
    <3>. QED  BY <2>2, <2>3, <3>1, RoutedToResource
  <2>5. found # {} /\ x = r
    BY <1>5, <2>2, <2>3
  <2>6. Len(s) = 1 <=> s = <<segment>>
    BY <1>4
  <2>. QED  BY <2>4, <2>5, <2>6, Zenon
<1>7. s # <<segment, id>> \/ s # <<segment>>
  BY <1>4
<1>8. CASE d = Documented("GET", s, FALSE, "list", q) /\ s = <<segment>>
  BY <1>1, <1>6, <1>8 DEF Documented, OnCollection, Done
<1>9. CASE d = Documented("GET", s, TRUE, "options", q) /\ s = <<segment>> /\ r.primaryKey # <<>>
  BY <1>1, <1>6, <1>9 DEF Documented, OnCollection, Keyed, Done
<1>10. CASE d = Documented("GET", s, FALSE, "get", q) /\ s = <<segment, id>> /\ r.primaryKey # <<>>
  BY <1>1, <1>6, <1>7, <1>10 DEF Documented, OnItem, Keyed, Done
<1>11. CASE d = Documented("POST", s, FALSE, "create", q) /\ s = <<segment>> /\ r.kind = "table"
  BY <1>1, <1>6, <1>11 DEF Documented, OnCollection, Writable, Done
<1>12. CASE /\ d = Documented("PATCH", s, FALSE, "update", q) /\ s = <<segment, id>>
            /\ r.primaryKey # <<>> /\ r.kind = "table"
  BY <1>1, <1>6, <1>7, <1>12 DEF Documented, OnItem, Keyed, Writable, Done
<1>13. CASE /\ d = Documented("DELETE", s, FALSE, "delete", q) /\ s = <<segment, id>>
            /\ r.primaryKey # <<>> /\ r.kind = "table"
  BY <1>1, <1>6, <1>7, <1>13 DEF Documented, OnItem, Keyed, Writable, Done
<1>. QED  BY <1>3, <1>8, <1>9, <1>10, <1>11, <1>12, <1>13

\* The documented path of a function is routed to it.
LEMMA CallsAreRouted ==
    ASSUME NEW c, NEW fn \in c.functions, NEW d \in RpcPaths(fn)
    PROVE  Route(c, d.request) = Outcome("ok", d.op, d.on)
<1>1. PICK q : q = fn.qualifiedName
  OBVIOUS
<1>2. d = Documented("POST", <<<<"rpc">>, q>>, FALSE, "call", q)
  BY <1>1 DEF RpcPaths
<1>3. d.request.method = "POST" /\ d.request.segments = <<<<"rpc">>, q>> /\ d.op = "call" /\ d.on = q
  BY <1>2 DEF Documented
<1>4. LookupFunction(c, q) # {}
  BY <1>1 DEF LookupFunction
<1>5. PICK s : s = d.request.segments
  OBVIOUS
<1>6. s # <<>> /\ Len(s) = 2 /\ s[1] = <<"rpc">> /\ s # <<<<"openapi", "json">>>> /\ s[2] = q
  BY <1>3, <1>5
<1>7. Route(c, d.request) =
        IF d.request.method = "POST"
        THEN IF LookupFunction(c, s[2]) = {} THEN Missing ELSE Outcome("ok", "call", s[2])
        ELSE NotAllowed
  BY <1>5, <1>6 DEF Route
<1>8. Route(c, d.request) = Outcome("ok", "call", s[2])
  BY <1>3, <1>4, <1>6, <1>7, Zenon
<1>. QED  BY <1>3, <1>6, <1>8

\* The document holds the paths of the resources and of the functions.
LEMMA DocumentedPaths ==
    ASSUME NEW c, NEW d
    PROVE  d \in Paths(c) <=> \/ \E r \in Resources(c) : d \in ResourcePaths(Resources(c), r)
                             \/ \E fn \in c.functions : d \in RpcPaths(fn)
<1>1. PICK R : R = Resources(c)
  OBVIOUS
<1>2. Paths(c) = UNION ({ResourcePaths(R, r) : r \in R} \cup {RpcPaths(fn) : fn \in c.functions})
  BY <1>1 DEF Paths
<1>. HIDE DEF Resources, ResourcePaths, RpcPaths
<1>. QED  BY <1>1, <1>2

\* An operation that a request reaches is documented.
LEMMA ReachedIsDocumented ==
    ASSUME NEW c, NEW request, NEW outcome, outcome = Route(c, request), outcome.status = "ok",
           outcome.op \notin {"root", "document"}
    PROVE  \E d \in Paths(c) : d.op = outcome.op /\ d.on = outcome.on
<1>1. PICK s : s = request.segments
  OBVIOUS
<1>2. CASE ForResource(s)
  <2>1. PICK R, found, x : /\ R = Resources(c) /\ found = Resolve(R, s[1])
                           /\ x = CHOOSE y \in found : TRUE
    OBVIOUS
  <2>2. outcome = IF found = {} THEN Missing
                  ELSE IF Len(s) = 1 THEN OnCollection(x, request) ELSE OnItem(x, request)
    BY <1>1, <1>2, <2>1, RoutedToResource
  <2>3. found # {} /\ outcome \in {OnCollection(x, request), OnItem(x, request)}
    BY <2>2, Refusals
  <2>4. x \in Resources(c)
    BY <2>1, <2>3, Resolved
  <2>5. Offered(x, outcome.op) /\ outcome.on = x.qualifiedName
    BY <2>3, <2>4, AnsweredOperations
  <2>6. PICK d \in ResourcePaths(R, x) : d.op = outcome.op /\ d.on = x.qualifiedName
    BY <2>5, OfferedIsDocumented
  <2>. QED  BY <2>1, <2>4, <2>5, <2>6, DocumentedPaths
<1>3. CASE ~ForResource(s)
  <2>1. PICK fn \in c.functions : outcome = Outcome("ok", "call", fn.qualifiedName)
    <3>1. Route(c, request).status = "ok" /\ Route(c, request).op \notin {"root", "document"}
      OBVIOUS
    <3>2. \E fn \in c.functions : Route(c, request) = Outcome("ok", "call", fn.qualifiedName)
      BY <1>1, <1>3, <3>1, RoutedElsewhere
    <3>. QED  BY <3>2
  <2>2. PICK d : d = Documented("POST", <<<<"rpc">>, fn.qualifiedName>>, FALSE, "call", fn.qualifiedName)
    OBVIOUS
  <2>3. d \in Paths(c)
    BY <2>2, DocumentedPaths DEF RpcPaths
  <2>4. outcome.op = "call" /\ outcome.on = fn.qualifiedName
    BY <2>1 DEF Outcome
  <2>5. d.op = "call" /\ d.on = fn.qualifiedName
    BY <2>2 DEF Documented
  <2>. QED  BY <2>3, <2>4, <2>5
<1>. QED  BY <1>2, <1>3

\* The requests for one row: a row of an id, or a new one.
ForRow(method, segments) ==
    \E name : segments = <<name, Id>> \/ (segments = <<name>> /\ method # "GET")

\* A list as it is opened, and where its links lead.
Browsed(c, q, result) ==
    /\ q.resource \in Resources(c) /\ q.adapter \in Adapters /\ q.url \in Urls /\ q.total \in Totals
    /\ result.run = List(q.adapter, q.resource, q.url, q.total)
    /\ result.next = NextLink(ParseListParams(q.url), q.total)
    /\ result.prev = PrevLink(ParseListParams(q.url))
    /\ result.sorts = [f \in Range(DisplayColumns(c, q.resource)) |->
                         BuildSortHref(ParseListParams(q.url), Spelled(f))]

\* What is said of a compiled schema: where a request goes, and what the tools tell.
Told(d, c, a) ==
    /\ a.kind = "request" => \E request : a.result = Route(c, request)
    /\ a.kind = "table" => a.result = DescribeTable(c, a.question)
    /\ a.kind = "view" => a.result = DescribeView(c, a.question)
    /\ a.kind = "concept" => a.result = GetConceptContext(c, a.question)
    /\ a.kind = "call" => \E allow :
          a.result = CallFunction(d, c, a.question.role, a.question.name, a.question.supplied, allow)
    /\ a.kind = "act" =>
          /\ a.question.f \in d.functions /\ a.question.script \in BOOLEAN
          /\ a.question.deeds \in [Names(Inputs(a.question.f)) -> {"left", "filled", "cleared"}]
          /\ \E role : a.result = RunAction(d, c, a.question.adapter, role, Flat(a.question.f),
                                            a.question.deeds, a.question.script)
    /\ a.kind = "write" => /\ ForRow(a.question.method, a.question.segments) /\ ~a.question.options
                          /\ a.result = Dispatch(d, c, a.question)
    /\ a.kind = "embed" => /\ a.question.root \in Resources(c)
                           /\ \E S : a.question.paths \in Seq(Seq(S))
                           /\ a.result = ResolveEmbedSpec(Resources(c), a.question.root,
                                                          a.question.paths)
    /\ a.kind = "browse" => Browsed(c, a.question, a.result)

AnswerInv ==
    /\ phase # "compiled" => answer.kind = "none"
    /\ Told(catalog.db, ctx, answer)

\* Nothing is compiled after an answer, so that it stays what is said of the context.
LEMMA AnswerInvariant == Spec => []AnswerInv
<1>1. Init => AnswerInv
  BY DEF Init, AnswerInv, Told, NoAnswer
<1>2. AnswerInv /\ [Next]_vars => AnswerInv'
  <2> SUFFICES ASSUME AnswerInv, [Next]_vars PROVE AnswerInv'
    OBVIOUS
  <2>1. CASE Compile
    <3>1. answer'.kind = "none"
      BY <2>1 DEF Compile, AnswerInv
    <3>. QED  BY <3>1 DEF AnswerInv, Told
  <2>2. ASSUME NEW kind, NEW question, NEW result, kind \notin {"request", "table", "view", "concept", "call", "act",
                                                       "write", "embed", "browse"},
               phase = "compiled", Answers(kind, question, result)
        PROVE  AnswerInv'
    <3>1. answer'.kind = kind /\ phase' = "compiled"
      BY <2>2 DEF Answers
    <3>. QED  BY <2>2, <3>1 DEF AnswerInv, Told
  <2>3. CASE Describe
    <3>1. Asks("describe") /\ phase = "compiled"
      BY <2>3 DEF Describe, Asks
    <3>2. PICK r \in db.relations :
             \/ Answers("table", Flat(r), DescribeTable(ctx, Flat(r)))
             \/ Answers("view", Flat(r), DescribeView(ctx, Flat(r)))
             \/ Answers("concept", r.name, GetConceptContext(ctx, r.name))
             \/ Answers("list", r.schema, ListTables(ctx, r.schema, opts))
      BY <2>3 DEF Describe
    <3>3. \E k, q, x : /\ \/ k = "table" /\ x = DescribeTable(ctx, q)
                          \/ k = "view" /\ x = DescribeView(ctx, q)
                          \/ k = "concept" /\ x = GetConceptContext(ctx, q)
                          \/ k = "list"
                       /\ Answers(k, q, x)
      BY <3>2
    <3>4. PICK k, q, x : /\ \/ k = "table" /\ x = DescribeTable(ctx, q)
                            \/ k = "view" /\ x = DescribeView(ctx, q)
                            \/ k = "concept" /\ x = GetConceptContext(ctx, q)
                            \/ k = "list"
                         /\ Answers(k, q, x)
      BY <3>3
    <3>5. answer'.kind = k /\ answer'.question = q /\ answer'.result = x /\ phase' = "compiled" /\ ctx' = ctx
      BY <3>1, <3>4 DEF Answers
    <3>. QED  BY <3>4, <3>5 DEF AnswerInv, Told
  <2>4. CASE Call
    <3>1. /\ phase = "compiled"
          /\ \E role, name, supplied, allow :
               Answers("call", [role |-> role, name |-> name, supplied |-> supplied],
                       CallFunction(db, ctx, role, name, supplied, allow))
      BY <2>4 DEF Call, Asks
    <3>2. PICK role, name, supplied, allow, question, result :
            /\ question = [role |-> role, name |-> name, supplied |-> supplied]
            /\ result = CallFunction(catalog.db, ctx, role, name, supplied, allow)
            /\ Answers("call", question, result)
      BY <3>1 DEF db
    <3>3. question.role = role /\ question.name = name /\ question.supplied = supplied
      BY <3>2
    <3>4. /\ answer'.kind = "call" /\ answer'.question = question /\ answer'.result = result
          /\ catalog' = catalog /\ ctx' = ctx /\ phase' = "compiled"
      BY <3>1, <3>2 DEF Answers
    <3>5. answer'.result = CallFunction(catalog'.db, ctx', answer'.question.role, answer'.question.name,
                                        answer'.question.supplied, allow)
      BY <3>2, <3>3, <3>4
    <3>. QED  BY <3>4, <3>5 DEF AnswerInv, Told
  <2>5. CASE Request
    <3>1. phase = "compiled" /\ \E request : Answers("request", request, Route(ctx, request))
      BY <2>5 DEF Request, Asks
    <3>2. PICK request, result : result = Route(ctx, request) /\ Answers("request", request, result)
      BY <3>1
    <3>3. answer'.kind = "request" /\ answer'.result = result /\ ctx' = ctx /\ phase' = "compiled"
      BY <3>1, <3>2 DEF Answers
    <3>4. answer'.result = Route(ctx', request)
      BY <3>2, <3>3
    <3>. QED  BY <3>3, <3>4 DEF AnswerInv, Told
  <2>6. CASE Embed
    <3>1. phase = "compiled"
      BY <2>6 DEF Embed, Asks
    <3>2. PICK root \in resources, paths \in SeqOf(SeqOf(Selectors, MaxPathAsked) \ {<<>>}, MaxEmbedsAsked) :
             Answers("embed", [root |-> root, paths |-> paths], ResolveEmbedSpec(resources, root, paths))
      BY <2>6 DEF Embed
    <3>3. PICK question, result :
            /\ question = [root |-> root, paths |-> paths]
            /\ result = ResolveEmbedSpec(Resources(ctx), root, paths) /\ Answers("embed", question, result)
      BY <3>2 DEF resources
    <3>4. question.root = root /\ question.paths = paths /\ root \in Resources(ctx)
      BY <3>2, <3>3 DEF resources
    <3>5. PICK S : S = Selectors
      OBVIOUS
    <3>6. paths \in Seq(Seq(S))
      <4>1. \A X, n : SeqOf(X, n) \subseteq Seq(X)
        BY SeqDef DEF SeqOf
      <4>2. SeqOf(S, MaxPathAsked) \ {<<>>} \subseteq Seq(S)
        BY <4>1
      <4>3. paths \in Seq(SeqOf(S, MaxPathAsked) \ {<<>>})
        BY <3>2, <3>5, <4>1
      <4>. QED  BY <4>2, <4>3, SeqMonotonic
    <3>7. /\ answer'.kind = "embed" /\ answer'.question = question /\ answer'.result = result
          /\ catalog' = catalog /\ ctx' = ctx /\ phase' = "compiled"
      BY <3>1, <3>3 DEF Answers
    <3>8. answer'.result = ResolveEmbedSpec(Resources(ctx'), answer'.question.root, answer'.question.paths)
      BY <3>3, <3>4, <3>7
    <3>. QED  BY <3>4, <3>6, <3>7, <3>8 DEF AnswerInv, Told
  <2>7. CASE Value
    <3>1. phase = "compiled" /\ \E q, x : Answers("value", q, x)
      BY <2>7 DEF Value, Asks
    <3>. QED  BY <2>2, <3>1
  <2>8. CASE Edit
    <3>1. phase = "compiled" /\ \E q, x : Answers("edit", q, x)
      BY <2>8 DEF Edit, Asks
    <3>. QED  BY <2>2, <3>1
  <2>9. CASE Browse
    <3>1. phase = "compiled"
      BY <2>9 DEF Browse, Asks
    <3>2. PICK r \in resources, adapter \in Adapters, url \in Urls, total \in Totals :
            LET params == ParseListParams(url)
            IN Answers("browse", [resource |-> r, adapter |-> adapter, url |-> url, total |-> total],
                       [run |-> List(adapter, r, url, total),
                        prev |-> PrevLink(params), next |-> NextLink(params, total),
                        sorts |-> [f \in Range(DisplayColumns(ctx, r)) |->
                                     BuildSortHref(params, Spelled(f))]])
      BY <2>9, Zenon DEF Browse
    <3>3. PICK params, run, sorts :
            /\ params = ParseListParams(url) /\ run = List(adapter, r, url, total)
            /\ sorts = [f \in Range(DisplayColumns(ctx, r)) |-> BuildSortHref(params, Spelled(f))]
      OBVIOUS
    <3>4. PICK question, result :
            /\ question = [resource |-> r, adapter |-> adapter, url |-> url, total |-> total]
            /\ result = [run |-> run, prev |-> PrevLink(params), next |-> NextLink(params, total),
                         sorts |-> sorts]
            /\ Answers("browse", question, result)
      BY <3>2, <3>3, Zenon
    <3>5. /\ question.resource = r /\ question.adapter = adapter /\ question.url = url
          /\ question.total = total /\ result.run = run /\ result.prev = PrevLink(params)
          /\ result.next = NextLink(params, total) /\ result.sorts = sorts
      BY <3>4
    <3>6. Browsed(ctx, question, result)
      <4>1. r \in Resources(ctx)
        BY DEF resources
      <4>. QED  BY <3>3, <3>5, <4>1, Zenon DEF Browsed
    <3>7. /\ answer'.kind = "browse" /\ answer'.question = question /\ answer'.result = result
          /\ ctx' = ctx /\ phase' = "compiled"
      BY <3>1, <3>4 DEF Answers
    <3>8. Browsed(ctx', answer'.question, answer'.result)
      BY <3>6, <3>7
    <3>. QED  BY <3>7, <3>8 DEF AnswerInv, Told
  <2>10. CASE InList
    <3>1. phase = "compiled" /\ \E q, x : Answers("in", q, x)
      BY <2>10 DEF InList, Asks
    <3>. QED  BY <2>2, <3>1
  <2>11. CASE Act
    <3>1. phase = "compiled"
      BY <2>11 DEF Act, Asks
    <3>2. PICK f \in db.functions, role \in DOMAIN db.memberOf, adapter \in Adapters,
               script \in BOOLEAN :
             \E deeds \in [Names(Inputs(f)) -> {"left", "filled", "cleared"}] :
               Answers("act", [f |-> f, adapter |-> adapter, deeds |-> deeds, script |-> script],
                       RunAction(db, ctx, adapter, role, Flat(f), deeds, script))
      BY <2>11 DEF Act
    <3>3. PICK deeds \in [Names(Inputs(f)) -> {"left", "filled", "cleared"}] :
               Answers("act", [f |-> f, adapter |-> adapter, deeds |-> deeds, script |-> script],
                       RunAction(catalog.db, ctx, adapter, role, Flat(f), deeds, script))
      BY <3>2 DEF db
    <3>4. PICK question, result :
            /\ question = [f |-> f, adapter |-> adapter, deeds |-> deeds, script |-> script]
            /\ result = RunAction(catalog.db, ctx, adapter, role, Flat(f), deeds, script)
            /\ Answers("act", question, result)
      BY <3>3
    <3>5. /\ question.f = f /\ question.adapter = adapter /\ question.deeds = deeds
          /\ question.script = script
      BY <3>4
    <3>6. /\ answer'.kind = "act" /\ answer'.question = question /\ answer'.result = result
          /\ catalog' = catalog /\ ctx' = ctx /\ phase' = "compiled"
      BY <3>1, <3>4 DEF Answers
    <3>7. answer'.result = RunAction(catalog'.db, ctx', answer'.question.adapter, role,
                                     Flat(answer'.question.f), answer'.question.deeds,
                                     answer'.question.script)
      BY <3>4, <3>5, <3>6
    <3>8. f \in catalog'.db.functions
      BY <3>6 DEF db
    <3>. QED  BY <3>5, <3>6, <3>7, <3>8 DEF AnswerInv, Told
  <2>12. CASE Write
    <3>1. phase = "compiled"
      BY <2>12 DEF Write, Asks
    <3>2. PICK r \in db.relations, role \in DOMAIN db.memberOf, method \in Methods :
             \E segments \in {<<r.name, Id>>} \cup (IF method = "GET" THEN {} ELSE {<<r.name>>}),
                body \in Bodies(r) :
               \E event \in IF body.form \in {"absent", "object"} THEN Events ELSE {"none"} :
                 LET request == [role |-> role, method |-> method, segments |-> segments,
                                 options |-> FALSE, body |-> body, event |-> event]
                 IN Answers("write", request, Dispatch(db, ctx, request))
      BY <2>12 DEF Write
    <3>3. \E segments \in {<<r.name, Id>>} \cup (IF method = "GET" THEN {} ELSE {<<r.name>>}) : \E body, event :
            Answers("write", [role |-> role, method |-> method, segments |-> segments,
                              options |-> FALSE, body |-> body, event |-> event],
                    Dispatch(db, ctx, [role |-> role, method |-> method, segments |-> segments,
                                       options |-> FALSE, body |-> body, event |-> event]))
      BY <3>2
    <3>4. PICK segments \in {<<r.name, Id>>} \cup (IF method = "GET" THEN {} ELSE {<<r.name>>}) :
            \E body, event :
            Answers("write", [role |-> role, method |-> method, segments |-> segments,
                              options |-> FALSE, body |-> body, event |-> event],
                    Dispatch(catalog.db, ctx, [role |-> role, method |-> method, segments |-> segments,
                                               options |-> FALSE, body |-> body, event |-> event]))
      BY <3>3 DEF db
    <3>5. PICK body, event, question, result :
            /\ question = [role |-> role, method |-> method, segments |-> segments,
                           options |-> FALSE, body |-> body, event |-> event]
            /\ result = Dispatch(catalog.db, ctx, question) /\ Answers("write", question, result)
      BY <3>4
    <3>6. question.method = method /\ question.segments = segments /\ question.options = FALSE
      BY <3>5
    <3>7. segments = <<r.name, Id>> \/ (segments = <<r.name>> /\ method # "GET")
      BY <3>4
    <3>8. ForRow(question.method, question.segments)
      BY <3>6, <3>7 DEF ForRow
    <3>9. /\ answer'.kind = "write" /\ answer'.question = question /\ answer'.result = result
          /\ catalog' = catalog /\ ctx' = ctx /\ phase' = "compiled"
      BY <3>1, <3>5 DEF Answers
    <3>10. answer'.result = Dispatch(catalog'.db, ctx', answer'.question)
      BY <3>5, <3>9
    <3>. QED  BY <3>6, <3>8, <3>9, <3>10 DEF AnswerInv, Told
  <2>13. CASE Save
    <3>1. phase = "compiled" /\ \E q, x : Answers("save", q, x)
      BY <2>13 DEF Save, Asks
    <3>. QED  BY <2>2, <3>1
  <2>14. CASE UNCHANGED vars
    BY <2>14 DEF vars, AnswerInv
  <2>15. QED
    BY <2>1, <2>4, <2>5, <2>6, <2>7, <2>3, <2>8, <2>9, <2>10, <2>11, <2>12, <2>13, <2>14 DEF Next
<1>3. QED
  BY <1>1, <1>2, PTL DEF Spec

\* The modes of the parameters that a call supplies.
InModes == {"in", "inout", "variadic"}

\* The inputs of a function are compiled in their places, with their names and
\* modes, and have a DEFAULT exactly when PostgreSQL has one for them.
LEMMA InputsCompiled ==
    ASSUME NEW d, NEW f, IsSignature(f), NEW fn, fn = FunctionContext(RawFunction(d, f))
    PROVE  /\ \E m \in Nat : DOMAIN fn.args = 1..m /\ DOMAIN Inputs(f) = 1..m
           /\ \A k \in DOMAIN Inputs(f) :
                /\ fn.args[k].name = Inputs(f)[k].name /\ fn.args[k].mode = Inputs(f)[k].mode
                /\ fn.args[k].udtName = Inputs(f)[k].type
                /\ fn.args[k].hasDefault \in BOOLEAN
                /\ fn.args[k].hasDefault <=> HasDefault(f, k)
<1>1. PICK args, b, P, at, ndef :
        /\ args = f.args /\ b = BuildArgs(f) /\ P = {i \in DOMAIN args : args[i].mode \in InModes}
        /\ at = Ascending(P) /\ ndef = f.ndef
  OBVIOUS
<1>2. PICK n \in Nat : DOMAIN args = 1..n
  <2>1. args \in Seq(Range(args))
    BY <1>1 DEF IsSignature, IsList
  <2>. QED  BY <2>1, LenProperties
<1>3. P \subseteq 1..n /\ ndef \in Nat
  BY <1>1, <1>2 DEF IsSignature
<1>4. PICK m \in Nat : m = Cardinality(P) /\ DOMAIN at = 1..m
  BY <1>1, <1>3, AscendingRanks
<1>5. \A k \in 1..m : at[k] \in P /\ Rank(P, at[k]) = k - 1
  BY <1>1, <1>3, <1>4, AscendingRanks
<1>6. /\ DOMAIN b = DOMAIN args
      /\ \A i \in DOMAIN args :
            /\ b[i].name = args[i].name /\ b[i].mode = args[i].mode /\ b[i].udtName = args[i].type
            /\ b[i].hasDefault \in BOOLEAN
            /\ b[i].hasDefault <=> i \in P /\ Cardinality({j \in P : j > i}) < ndef
  BY <1>1 DEF BuildArgs, InModes
<1>7. Inputs(f) = [k \in 1..m |-> args[at[k]]]
  BY <1>1, <1>4 DEF Inputs, OfModes, Selected, InModes
<1>8. fn.args = [k \in 1..m |-> b[at[k]]]
  <2>1. {i \in DOMAIN b : b[i].mode \in InModes} = P
    BY <1>1, <1>6
  <2>2. InputArgs(RawFunction(d, f)) = OfModes(b, InModes)
    BY <1>1 DEF RawFunction, InputArgs, InModes
  <2>3. fn.args = InputArgs(RawFunction(d, f))
    BY DEF FunctionContext
  <2>. QED  BY <1>1, <1>4, <2>1, <2>2, <2>3 DEF OfModes, Selected
<1>9. Len(Inputs(f)) = m
  BY <1>7
<1>10. ASSUME NEW k \in 1..m
       PROVE  /\ fn.args[k].name = Inputs(f)[k].name /\ fn.args[k].mode = Inputs(f)[k].mode
              /\ fn.args[k].udtName = Inputs(f)[k].type
              /\ fn.args[k].hasDefault \in BOOLEAN
              /\ fn.args[k].hasDefault <=> HasDefault(f, k)
  <2>1. PICK i \in P : i = at[k] /\ Rank(P, i) = k - 1
    BY <1>5
  <2>2. fn.args[k] = b[i] /\ Inputs(f)[k] = args[i] /\ i \in DOMAIN args
    BY <1>1, <1>7, <1>8, <2>1
  <2>3. Cardinality({j \in P : j > i}) = m - (k - 1) - 1
    BY <1>3, <1>4, <2>1, RankAbove
  <2>4. PICK size : size = Cardinality({j \in P : j > i})
    OBVIOUS
  <2>5. size < ndef <=> k > m - ndef
    BY <1>3, <2>3, <2>4
  <2>6. fn.args[k].hasDefault <=> size < ndef
    BY <1>6, <2>1, <2>2, <2>4
  <2>7. HasDefault(f, k) <=> k > m - ndef
    BY <1>1, <1>9 DEF HasDefault
  <2>. QED  BY <1>6, <2>2, <2>5, <2>6, <2>7
<1>11. DOMAIN fn.args = 1..m /\ DOMAIN Inputs(f) = 1..m
  BY <1>7, <1>8
<1>. QED  BY <1>10, <1>11

\* Where PostgreSQL finds a function for the arguments, it is the one that is
\* compiled; and it finds none exactly where the call is refused as malformed.
LEMMA CalleesCompiled ==
    ASSUME NEW d, NEW f \in d.functions, IsSignature(f), NEW fn, fn = FunctionContext(RawFunction(d, f)),
           ~UnsupportedArgument(RawFunction(d, f)),
           \A h \in d.functions : Flat(h) = Flat(f) => h = f, NEW supplied
    PROVE  Callees(d, f.schema, f.name, supplied) = IF BadArguments(fn, supplied) THEN {} ELSE {f}
<1>1. PICK inputs, args : inputs = Inputs(f) /\ args = fn.args
  OBVIOUS
<1>2. PICK m \in Nat : DOMAIN args = 1..m /\ DOMAIN inputs = 1..m
  BY <1>1, InputsCompiled
<1>3. \A k \in 1..m : /\ args[k].name = inputs[k].name /\ args[k].mode = inputs[k].mode
                      /\ args[k].hasDefault <=> HasDefault(f, k)
  BY <1>1, <1>2, InputsCompiled
<1>4. \A k \in 1..m : args[k].mode # "variadic" /\ args[k].name # Empty
  <2>1. args = InputArgs(RawFunction(d, f))
    BY <1>1 DEF FunctionContext
  <2>2. \A k \in DOMAIN args : args[k] \in Range(args)
    BY DEF Range
  <2>. QED  BY <1>2, <2>1, <2>2 DEF UnsupportedArgument
<1>5. Names(args) = Names(inputs) /\ Empty \notin Names(inputs)
  BY <1>2, <1>3, <1>4 DEF Names
<1>6. BadArguments(fn, supplied) <=>
         \/ ~(supplied \subseteq Names(inputs) \ {Empty})
         \/ \E k \in 1..m : ~HasDefault(f, k) /\ inputs[k].name \notin supplied
  <2>1. BadArguments(fn, supplied) <=>
           \/ supplied \ Names(args) # {}
           \/ \E k \in 1..m : ~args[k].hasDefault /\ args[k].name \notin supplied
    BY <1>1, <1>2 DEF BadArguments, Range
  <2>. QED  BY <1>3, <1>5, <2>1
<1>7. f \in Callees(d, f.schema, f.name, supplied) <=>
         /\ supplied \subseteq Names(inputs) \ {Empty}
         /\ \A k \in 1..m : IF inputs[k].name \in supplied
                            THEN inputs[k].mode # "variadic" ELSE HasDefault(f, k)
  BY <1>1, <1>2 DEF Callees
<1>8. f \in Callees(d, f.schema, f.name, supplied) <=> ~BadArguments(fn, supplied)
  BY <1>3, <1>4, <1>6, <1>7
<1>9. ASSUME NEW h \in Callees(d, f.schema, f.name, supplied) PROVE h = f
  <2>1. h \in d.functions /\ h.schema = f.schema /\ h.name = f.name
    BY DEF Callees
  <2>. QED  BY <2>1 DEF Flat
<1>. QED  BY <1>8, <1>9

\* What the kinds of a result and the columns of its rows are compiled from.
LEMMA ReturnsCompiled ==
    ASSUME NEW f, IsSignature(f), NEW returns, returns = ClassifyReturn(f), returns.kind # "unsupported"
    PROVE  \/ f.returns.void /\ returns.kind = "void" /\ returns.columns = <<>>
           \/ /\ ~f.returns.void /\ f.returns.set /\ returns.kind = "setof"
              /\ returns.columns = ReturnColumns(f)
              /\ returns.columns # <<>> \/ EffectiveType(f.returns) = "b"
           \/ /\ ~f.returns.void /\ ~f.returns.set /\ returns.kind = "composite"
              /\ returns.columns = ReturnColumns(f) /\ EffectiveType(f.returns) = "c"
              /\ returns.columns # <<>>
           \/ /\ ~f.returns.void /\ ~f.returns.set /\ returns.kind = "scalar"
              /\ returns.columns = <<>> /\ EffectiveType(f.returns) = "b"
<1>1. f.returns.void \in BOOLEAN /\ f.returns.set \in BOOLEAN
  BY DEF IsSignature
<1>2. CASE f.returns.void
  BY <1>1, <1>2 DEF ClassifyReturn
<1>3. CASE ~f.returns.void /\ f.returns.set
  BY <1>1, <1>3 DEF ClassifyReturn
<1>4. CASE ~f.returns.void /\ ~f.returns.set
  BY <1>1, <1>4 DEF ClassifyReturn
<1>. QED  BY <1>1, <1>2, <1>3, <1>4

\* The type behind one DOMAIN is the last of the chain, unless that is longer.
LEMMA ChainsEnd ==
    ASSUME NEW f, IsSignature(f)
    PROVE  /\ EffectiveType(f.returns) # "d" => Last(f.returns.types) = EffectiveType(f.returns)
           /\ Len(f.returns.types) < 3 => EffectiveType(f.returns) # "d"
<1>1. PICK types, n : types = f.returns.types /\ n = Len(types)
  OBVIOUS
<1>2. n \in Nat /\ n # 0 /\ DOMAIN types = 1..n
  <2>1. types \in Seq(Range(types)) /\ types # <<>>
    BY <1>1 DEF IsSignature, IsList
  <2>. QED  BY <1>1, <2>1, LenProperties, EmptySeq
<1>3. \A i \in 1..n : types[i] = "d" <=> i < n
  BY <1>1, <1>2 DEF IsSignature
<1>4. EffectiveType(f.returns) = (IF types[1] = "d" THEN types[2] ELSE types[1]) /\ Last(types) = types[n]
  BY <1>1 DEF EffectiveType, Last
<1>5. CASE types[1] = "d"
  <2>1. 2 \in 1..n
    BY <1>2, <1>3, <1>5
  <2>2. types[2] = "d" <=> 2 < n
    BY <1>3, <2>1
  <2>. QED  BY <1>1, <1>2, <1>4, <1>5, <2>1, <2>2
<1>6. CASE types[1] # "d"
  <2>1. n = 1
    BY <1>2, <1>3, <1>6
  <2>. QED  BY <1>1, <1>4, <1>6, <2>1
<1>. QED  BY <1>5, <1>6

\* The OUT parameters are in a sequence, and each has a name or the empty name.
LEMMA OutputNames ==
    ASSUME NEW f, IsSignature(f)
    PROVE  /\ \E m \in Nat : DOMAIN Outputs(f) = 1..m /\ Len(Outputs(f)) = m /\ (Outputs(f) = <<>> <=> m = 0)
           /\ \A k \in DOMAIN Outputs(f) : Outputs(f)[k].name # <<>>
<1>1. PICK args, P, at :
        /\ args = f.args /\ P = {i \in DOMAIN args : args[i].mode \in {"out", "inout", "table"}}
        /\ at = Ascending(P)
  OBVIOUS
<1>2. PICK n \in Nat : DOMAIN args = 1..n
  <2>1. args \in Seq(Range(args))
    BY <1>1 DEF IsSignature, IsList
  <2>. QED  BY <2>1, LenProperties
<1>3. P \subseteq 1..n
  BY <1>1, <1>2
<1>4. PICK m \in Nat : m = Cardinality(P) /\ DOMAIN at = 1..m /\ \A k \in 1..m : at[k] \in P
  BY <1>1, <1>3, AscendingRanks
<1>5. Outputs(f) = [k \in 1..m |-> args[at[k]]]
  BY <1>1, <1>4 DEF Outputs, OfModes, Selected
<1>6. \A k \in 1..m : Outputs(f)[k].name # <<>>
  <2>1. \A i \in DOMAIN args : args[i].name # <<>>
    BY <1>1 DEF IsSignature, Names
  <2>2. ASSUME NEW k \in 1..m PROVE Outputs(f)[k].name # <<>>
    <3>1. PICK i \in P : i = at[k] /\ i \in DOMAIN args
      BY <1>1, <1>4
    <3>2. Outputs(f)[k] = args[i]
      BY <1>5, <3>1
    <3>. QED  BY <2>1, <3>1, <3>2
  <2>. QED  BY <2>2
<1>7. PICK outs : outs = Outputs(f)
  OBVIOUS
<1>8. DOMAIN outs = 1..m /\ Len(outs) = m /\ (outs = <<>> <=> m = 0)
  BY <1>4, <1>5, <1>7
<1>. QED  BY <1>6, <1>7, <1>8

\* The row of a call without an alias for its column, and with one.
LEMMA RowsCompiled ==
    ASSUME NEW f, IsSignature(f)
    PROVE  /\ EffectiveType(f.returns) = "b" => 1 \in DOMAIN RowOf(f, <<"_rpc">>)
           /\ <<>> \notin Range(RowOf(f, <<"_rpc">>))
           /\ /\ ReturnColumns(f) # <<>> /\ Len(f.returns.types) < 3
              /\ ~(Len(ReturnColumns(f)) = 1 /\ ReturnColumns(f)[1] = Empty)
              => RowOf(f, <<"_rpc">>) = ReturnColumns(f)
<1>1. PICK outs, attributes, row, last, effective :
        /\ outs = Outputs(f) /\ attributes = f.returns.attributes /\ row = RowOf(f, <<"_rpc">>)
        /\ last = Last(f.returns.types) /\ effective = EffectiveType(f.returns)
  OBVIOUS
<1>2. PICK m \in Nat : DOMAIN outs = 1..m /\ Len(outs) = m /\ (outs = <<>> <=> m = 0)
  BY <1>1, OutputNames
<1>3. \A k \in 1..m : outs[k].name # <<>>
  BY <1>1, <1>2, OutputNames
<1>4. PICK names : names = [i \in 1..m |-> outs[i].name]
  OBVIOUS
<1>5. /\ last = "c" => row = attributes
      /\ last # "c" /\ (m = 0 \/ (m = 1 /\ outs[1].name = Empty)) => row = <<<<"_rpc">>>>
      /\ last # "c" /\ ~(m = 0 \/ (m = 1 /\ outs[1].name = Empty)) => row = names
  BY <1>1, <1>2, <1>4 DEF RowOf
<1>6. ReturnColumns(f) = IF effective = "c" THEN attributes ELSE names
  BY <1>1, <1>2, <1>4 DEF ReturnColumns
<1>7. /\ effective # "d" => last = effective
      /\ Len(f.returns.types) < 3 => effective # "d"
  BY <1>1, ChainsEnd
<1>8. <<>> \notin Range(attributes)
  BY <1>1 DEF IsSignature
<1>9. <<>> \notin Range(row)
  <2>1. <<>> \notin Range(<<<<"_rpc">>>>)
    BY DEF Range
  <2>2. <<>> \notin Range(names)
    BY <1>3, <1>4 DEF Range
  <2>. QED  BY <1>5, <1>8, <2>1, <2>2
<1>10. ASSUME effective = "b" PROVE 1 \in DOMAIN row
  <2>1. last # "c"
    BY <1>7, <1>10
  <2>2. CASE m = 0 \/ (m = 1 /\ outs[1].name = Empty)
    BY <1>5, <2>1, <2>2
  <2>3. CASE ~(m = 0 \/ (m = 1 /\ outs[1].name = Empty))
    BY <1>4, <1>5, <2>1, <2>3
  <2>. QED  BY <2>2, <2>3
<1>11. ASSUME ReturnColumns(f) # <<>>, Len(f.returns.types) < 3,
              ~(Len(ReturnColumns(f)) = 1 /\ ReturnColumns(f)[1] = Empty)
       PROVE  row = ReturnColumns(f)
  <2>1. CASE effective = "c"
    BY <1>5, <1>6, <1>7, <2>1
  <2>2. CASE effective # "c"
    <3>1. last # "c" /\ ReturnColumns(f) = names
      BY <1>6, <1>7, <1>11, <2>2
    <3>2. Len(names) = m /\ (m = 0 => names = <<>>) /\ (m = 1 => names[1] = outs[1].name)
      BY <1>4
    <3>3. ~(m = 0 \/ (m = 1 /\ outs[1].name = Empty))
      BY <1>11, <3>1, <3>2
    <3>. QED  BY <1>5, <3>1, <3>3
  <2>. QED  BY <2>1, <2>2
<1>. QED  BY <1>1, <1>9, <1>10, <1>11

\* The statuses of answers, whose words the provers need not know.
IsMalformed(result) == result.status = "bad_request"
IsForbidden(result) == result.status = "forbidden"
IsSilent(result) == result.status = "no_content"
IsOk(result) == result.status = "ok"

\* No answer has two statuses.
LEMMA StatusesDiffer ==
    /\ ~IsMalformed(NotFound) /\ ~IsForbidden(NotFound) /\ ~IsSilent(NotFound) /\ ~IsOk(NotFound)
    /\ IsMalformed(BadRequest)
    /\ ~IsForbidden(BadRequest) /\ ~IsSilent(BadRequest) /\ ~IsOk(BadRequest)
    /\ IsForbidden(Forbidden)
    /\ ~IsMalformed(Forbidden) /\ ~IsSilent(Forbidden) /\ ~IsOk(Forbidden)
    /\ IsSilent(NoContent)
    /\ ~IsMalformed(NoContent) /\ ~IsForbidden(NoContent) /\ ~IsOk(NoContent)
    /\ \A keys, many : LET ok == [status |-> "ok", keys |-> keys, many |-> many]
                       IN IsOk(ok) /\ ~IsMalformed(ok) /\ ~IsForbidden(ok) /\ ~IsSilent(ok)
  BY Zenon DEF NotFound, BadRequest, Forbidden, NoContent,
               IsMalformed, IsForbidden, IsSilent, IsOk

\* An answer to a call that PostgreSQL ran has the shape that is documented.
Shaped(f, columns, result) ==
    /\ ~IsMalformed(result) /\ ~IsForbidden(result)
    /\ IsSilent(result) <=> f.returns.void
    /\ IsOk(result) =>
         /\ result.many = f.returns.set /\ NullValue \notin Range(result.keys)
         /\ columns # <<>> /\ ~(Len(columns) = 1 /\ columns[1] = Empty) /\ Len(f.returns.types) < 3 =>
              result.keys = columns

\* What shapeRpcResult makes of the rows has the documented shape.
LEMMA AnswersAreShaped ==
    ASSUME NEW f, IsSignature(f), NEW returns, returns = ClassifyReturn(f), returns.kind # "unsupported",
           NEW result, result = ShapeRpcResult(returns, RowAnswered(f, returns))
    PROVE  Shaped(f, returns.columns, result)
<1>1. PICK columns, row, answered :
        /\ columns = returns.columns /\ row = RowOf(f, <<"_rpc">>) /\ answered = RowAnswered(f, returns)
  OBVIOUS
<1>2. /\ EffectiveType(f.returns) = "b" => 1 \in DOMAIN row
      /\ <<>> \notin Range(row)
      /\ /\ ReturnColumns(f) # <<>> /\ Len(f.returns.types) < 3
         /\ ~(Len(ReturnColumns(f)) = 1 /\ ReturnColumns(f)[1] = Empty)
         => row = ReturnColumns(f)
  BY <1>1, RowsCompiled
<1>3. answered = IF Aliased(returns) THEN [row EXCEPT ![1] = <<"result">>] ELSE row
  BY <1>1 DEF RowAnswered
<1>4. 1 \in DOMAIN row => <<"result">> \in Range([row EXCEPT ![1] = <<"result">>])
  BY DEF Range
<1>5. f.returns.void \in BOOLEAN /\ f.returns.set \in BOOLEAN
  BY DEF IsSignature
<1>6. \A value : NullValue \notin Range(<<>>)
  BY DEF Range
<1>7. CASE f.returns.void /\ returns.kind = "void"
  <2>1. result = NoContent
    BY <1>7 DEF ShapeRpcResult
  <2>. QED  BY <1>7, <2>1, StatusesDiffer DEF Shaped
<1>8. CASE /\ ~f.returns.void /\ f.returns.set /\ returns.kind = "setof"
           /\ columns = ReturnColumns(f) /\ columns # <<>>
  <2>1. ~Aliased(returns) /\ answered = row
    BY <1>1, <1>3, <1>8 DEF Aliased
  <2>2. result = [status |-> "ok", keys |-> row, many |-> TRUE]
    BY <1>1, <1>8, <2>1 DEF ShapeRpcResult
  <2>3. result.keys = row /\ result.many = TRUE
    BY <2>2
  <2>4. IsOk(result) /\ ~IsMalformed(result) /\ ~IsForbidden(result) /\ ~IsSilent(result)
    BY <2>2, StatusesDiffer
  <2>. QED  BY <1>1, <1>2, <1>5, <1>8, <2>3, <2>4 DEF Shaped, NullValue
<1>9. CASE /\ ~f.returns.void /\ f.returns.set /\ returns.kind = "setof"
           /\ columns = <<>> /\ EffectiveType(f.returns) = "b"
  <2>1. Aliased(returns) /\ <<"result">> \in Range(answered)
    BY <1>1, <1>2, <1>3, <1>4, <1>9 DEF Aliased
  <2>2. result = [status |-> "ok", keys |-> <<>>, many |-> TRUE]
    BY <1>1, <1>9, <2>1 DEF ShapeRpcResult
  <2>3. result.keys = <<>> /\ result.many = TRUE
    BY <2>2
  <2>4. IsOk(result) /\ ~IsMalformed(result) /\ ~IsForbidden(result) /\ ~IsSilent(result)
    BY <2>2, StatusesDiffer
  <2>. QED  BY <1>1, <1>5, <1>6, <1>9, <2>3, <2>4 DEF Shaped
<1>10. CASE /\ ~f.returns.void /\ ~f.returns.set /\ returns.kind = "composite"
            /\ columns = ReturnColumns(f) /\ columns # <<>>
  <2>1. ~Aliased(returns) /\ answered = row
    BY <1>1, <1>3, <1>10 DEF Aliased
  <2>2. result = [status |-> "ok", keys |-> row, many |-> FALSE]
    BY <1>1, <1>10, <2>1 DEF ShapeRpcResult
  <2>3. result.keys = row /\ result.many = FALSE
    BY <2>2
  <2>4. IsOk(result) /\ ~IsMalformed(result) /\ ~IsForbidden(result) /\ ~IsSilent(result)
    BY <2>2, StatusesDiffer
  <2>. QED  BY <1>1, <1>2, <1>5, <1>10, <2>3, <2>4 DEF Shaped, NullValue
<1>11. CASE /\ ~f.returns.void /\ ~f.returns.set /\ returns.kind = "scalar"
            /\ columns = <<>> /\ EffectiveType(f.returns) = "b"
  <2>1. Aliased(returns) /\ <<"result">> \in Range(answered)
    BY <1>1, <1>2, <1>3, <1>4, <1>11 DEF Aliased
  <2>2. result = [status |-> "ok", keys |-> <<>>, many |-> FALSE]
    BY <1>1, <1>11, <2>1 DEF ShapeRpcResult
  <2>3. result.keys = <<>> /\ result.many = FALSE
    BY <2>2
  <2>4. IsOk(result) /\ ~IsMalformed(result) /\ ~IsForbidden(result) /\ ~IsSilent(result)
    BY <2>2, StatusesDiffer
  <2>. QED  BY <1>1, <1>5, <1>6, <1>11, <2>3, <2>4 DEF Shaped
<1>. QED  BY <1>1, <1>7, <1>8, <1>9, <1>10, <1>11, ReturnsCompiled

\* What a call of an exposed function is answered, by role and arguments.
LEMMA CallsAnswered ==
    ASSUME NEW d, NEW f \in d.functions, IsSignature(f), NEW fn, fn = FunctionContext(RawFunction(d, f)),
           ~UnsupportedArgument(RawFunction(d, f)), fn.returns.kind # "unsupported",
           \A h \in d.functions : Flat(h) = Flat(f) => h = f,
           NEW role, NEW supplied,
           NEW result, result = IF BadArguments(fn, supplied) THEN BadRequest
                                ELSE Execute(d, role, fn, supplied)
    PROVE  /\ IsMalformed(result) <=> Callees(d, f.schema, f.name, supplied) # {f}
           /\ ~IsMalformed(result) =>
                \/ ~MayExecute(d, role, f) /\ result = Forbidden
                \/ MayExecute(d, role, f) /\ Shaped(f, fn.returns.columns, result)
<1>1. PICK callees : callees = Callees(d, f.schema, f.name, supplied)
  OBVIOUS
<1>2. callees = IF BadArguments(fn, supplied) THEN {} ELSE {f}
  BY <1>1, CalleesCompiled
<1>3. fn.schema = f.schema /\ fn.name = f.name /\ fn.returns = ClassifyReturn(f)
  BY DEF FunctionContext, RawFunction
<1>4. CASE BadArguments(fn, supplied)
  BY <1>1, <1>2, <1>4, StatusesDiffer
<1>5. CASE ~BadArguments(fn, supplied)
  <2>1. callees = {f} /\ Cardinality(callees) = 1 /\ (CHOOSE x \in callees : TRUE) = f
    BY <1>2, <1>5, FS_Singleton
  <2>2. result = IF ~MayExecute(d, role, f) THEN Forbidden
                 ELSE ShapeRpcResult(fn.returns, RowAnswered(f, fn.returns))
    BY <1>1, <1>3, <1>5, <2>1 DEF Execute
  <2>3. CASE ~MayExecute(d, role, f)
    BY <1>1, <2>1, <2>2, <2>3, StatusesDiffer
  <2>4. CASE MayExecute(d, role, f)
    <3>1. Shaped(f, fn.returns.columns, result)
      BY <1>3, <2>2, <2>4, AnswersAreShaped
    <3>2. ~IsMalformed(result)
      BY <3>1 DEF Shaped
    <3>. QED  BY <1>1, <2>1, <2>4, <3>1, <3>2
  <2>. QED  BY <2>3, <2>4
<1>. QED  BY <1>4, <1>5

-----------------------------------------------------------------------------
(* Forms of functions. *)

\* Numbers and boxes are the controls of the number types and of bool.
LEMMA WidgetsOfTypes ==
    ASSUME NEW udt
    PROVE  /\ TypeWidget(udt) \in {"number", "boolean"} <=> udt \in NumberTypes \cup {"bool"}
           /\ TypeWidget(udt) = "boolean" <=> udt = "bool"
<1>1. CASE udt \in NumberTypes
  BY <1>1 DEF TypeWidget, NumberTypes
<1>2. CASE udt \in {"timestamp", "timestamptz", "time", "timetz"}
  BY <1>2 DEF TypeWidget, NumberTypes
<1>3. CASE udt \in {"json", "jsonb"}
  BY <1>3 DEF TypeWidget, NumberTypes
<1>4. CASE udt = "bool"
  BY <1>4 DEF TypeWidget, NumberTypes
<1>5. CASE udt \in {"uuid", "date"}
  BY <1>5 DEF TypeWidget, NumberTypes
<1>6. CASE udt \notin NumberTypes \cup {"timestamp", "timestamptz", "time", "timetz", "json", "jsonb",
                                        "bool", "uuid", "date"}
  BY <1>6 DEF TypeWidget, NumberTypes
<1>. QED  BY <1>1, <1>2, <1>3, <1>4, <1>5, <1>6

\* What is sent of a control, with its widget and what was done to it.
SentOf(w, supplied, deed, script, s) ==
    /\ deed = "filled" <=> s = "filled"
    /\ s # "null" /\ (s # "" \/ supplied)
    /\ s # "" <=> \/ deed = "filled" \/ ~supplied
                  \/ script /\ deed = "cleared" /\ w \in {"number", "boolean"}

\* What is made of one control of a form that can be submitted.
LEMMA ControlsSend ==
    ASSUME NEW field, field.supplied \in BOOLEAN, NEW script \in BOOLEAN,
           NEW deed \in {"left", "filled", "cleared"}, ~Obstructed(field, deed)
    PROVE  SentOf(field.widget, field.supplied, deed, script,
                  Coerced(field, Received(field, deed, script)))
<1>1. PICK w, supplied, s : /\ w = field.widget /\ supplied = field.supplied
                            /\ s = Coerced(field, Received(field, deed, script))
  OBVIOUS
<1>2. field.widget = w /\ field.supplied = supplied /\ supplied \in BOOLEAN
  BY <1>1
<1>3. InitialValue(field) = IF supplied THEN ""
                            ELSE IF w = "number" THEN "0" ELSE IF w = "boolean" THEN "false" ELSE ""
  BY <1>2 DEF InitialValue
<1>4. PICK held : held = Held(field, deed)
  OBVIOUS
<1>5. PICK initial : initial = InitialValue(field)
  OBVIOUS
<1>6. held = IF deed = "left" THEN initial ELSE IF deed = "filled" THEN "filled"
             ELSE IF w = "number" THEN "null" ELSE IF w = "boolean" THEN "false" ELSE ""
  BY <1>2, <1>4, <1>5 DEF Held
<1>7. ~(~supplied /\ w # "boolean" /\ held \in {"", "null"})
  BY <1>2, <1>4 DEF Obstructed
<1>8. PICK received : received = Received(field, deed, script)
  OBVIOUS
<1>9. received = IF script \/ held \notin {"", "null", "false"} THEN held ELSE initial
  BY <1>4, <1>5, <1>8 DEF Received
<1>10. s = IF w = "number" /\ received = "null" THEN "0" ELSE received
  BY <1>1, <1>2, <1>8 DEF Coerced
<1>11. SentOf(w, supplied, deed, script, s)
  BY <1>2, <1>3, <1>5, <1>6, <1>7, <1>9, <1>10 DEF SentOf
<1>. QED  BY <1>1, <1>11

\* An argument is sent if it was filled in, or has no DEFAULT or a value of its own.
ArgumentSent(arg, deeds, script, sent) ==
    /\ deeds[arg.name] = "filled" <=> arg.name \in DOMAIN sent /\ sent[arg.name] = "filled"
    /\ arg.name \in DOMAIN sent => sent[arg.name] \notin {"", "null"}
    /\ arg.name \in DOMAIN sent <=>
         \/ deeds[arg.name] = "filled" \/ ~arg.hasDefault
         \/ script /\ deeds[arg.name] = "cleared" /\ arg.udtName \in NumberTypes \cup {"bool"}

\* A form of m controls that none of them keeps from being sent.
Sendable(fn, m, deeds, script) ==
    /\ m \in Nat /\ DOMAIN fn.args = 1..m
    /\ \A k \in 1..m : fn.args[k].hasDefault \in BOOLEAN
    /\ \A j, k \in 1..m : fn.args[j].name = fn.args[k].name => j = k
    /\ script \in BOOLEAN /\ deeds \in [Names(fn.args) -> {"left", "filled", "cleared"}]
    /\ ~\E a \in Range(fn.args) : Obstructed(ArgumentField(a), deeds[a.name])

\* The arguments that it sends are those that were filled in, and those that
\* have no DEFAULT or whose own value is taken for one.
LEMMA ArgumentsSent ==
    ASSUME NEW fn, NEW m, NEW deeds, NEW script, Sendable(fn, m, deeds, script), NEW k \in 1..m
    PROVE  ArgumentSent(fn.args[k], deeds, script, Arguments(fn, deeds, script))
<1> DEFINE sent == Arguments(fn, deeds, script)
<1>1. /\ m \in Nat /\ DOMAIN fn.args = 1..m
      /\ \A j \in 1..m : fn.args[j].hasDefault \in BOOLEAN
      /\ \A i, j \in 1..m : fn.args[i].name = fn.args[j].name => i = j
      /\ script \in BOOLEAN /\ deeds \in [Names(fn.args) -> {"left", "filled", "cleared"}]
      /\ ~\E a \in Range(fn.args) : Obstructed(ArgumentField(a), deeds[a.name])
  BY DEF Sendable
<1> DEFINE At(n) == ArgumentField(CHOOSE a \in Range(fn.args) : a.name = n)
           Sending(n) == Coerced(At(n), Received(At(n), deeds[n], script))
<1>2. sent = [n \in {x \in DOMAIN deeds : ~(At(x).supplied /\ Sending(x) = "")} |-> Sending(n)]
  BY DEF Arguments
<1>3. PICK arg, name : arg = fn.args[k] /\ name = arg.name
  OBVIOUS
<1>4. arg \in Range(fn.args) /\ \A a \in Range(fn.args) : a.name = name => a = arg
  BY <1>1, <1>3 DEF Range
<1>5. (CHOOSE a \in Range(fn.args) : a.name = name) = arg
  BY <1>3, <1>4
<1>6. name \in DOMAIN deeds /\ deeds[name] \in {"left", "filled", "cleared"}
  BY <1>1, <1>3 DEF Names
<1>7. PICK field, deed, s :
        /\ field = [widget |-> ArgumentWidget(arg), supplied |-> arg.hasDefault]
        /\ deed = deeds[name] /\ s = Coerced(field, Received(field, deed, script))
  OBVIOUS
<1>8. ArgumentField(arg) = field
  BY <1>7 DEF ArgumentField
<1>9. At(name) = field /\ Sending(name) = s
  BY <1>5, <1>7, <1>8
<1>10. ~Obstructed(field, deed)
  BY <1>1, <1>3, <1>4, <1>7, <1>8
<1>11. field.supplied = arg.hasDefault
  BY <1>7
<1>12. arg.hasDefault \in BOOLEAN /\ deed \in {"left", "filled", "cleared"}
  BY <1>1, <1>3, <1>6, <1>7
<1>13. PICK w : w = ArgumentWidget(arg)
  OBVIOUS
<1>14. PICK supplied \in BOOLEAN : supplied = arg.hasDefault
  BY <1>12
<1>15. SentOf(w, supplied, deed, script, s)
  <2>1. field.widget = w /\ field.supplied = supplied
    BY <1>7, <1>13, <1>14
  <2>2. s = Coerced(field, Received(field, deed, script))
    BY <1>7
  <2>. HIDE DEF At, Sending
  <2>3. SentOf(field.widget, field.supplied, deed, script,
               Coerced(field, Received(field, deed, script)))
    BY <1>1, <1>10, <1>12, <2>1, ControlsSend
  <2>. QED  BY <2>1, <2>2, <2>3
<1>16. w \in {"number", "boolean"} <=> arg.udtName \in NumberTypes \cup {"bool"}
  BY <1>13, WidgetsOfTypes DEF ArgumentWidget
<1>. HIDE DEF At, Sending, sent
<1>17. name \in DOMAIN sent <=> ~(supplied /\ s = "")
  BY <1>2, <1>6, <1>9, <1>11, <1>14
<1>18. name \in DOMAIN sent => sent[name] = s
  BY <1>2, <1>9
<1>19. ArgumentSent(fn.args[k], deeds, script, sent)
  BY <1>3, <1>7, <1>14, <1>15, <1>16, <1>17, <1>18 DEF SentOf, ArgumentSent
<1>. QED  BY <1>19 DEF sent

-----------------------------------------------------------------------------
(* Calls, and forms that are sent. *)

\* The function f is the one behind the exposed name q, compiled to fn.
Behind(d, functions, q, f, fn) ==
    /\ f \in d.functions /\ Flat(f) = q /\ \A h \in d.functions : Flat(h) = q => h = f
    /\ fn \in functions /\ \A x \in functions : x.qualifiedName = q <=> x = fn
    /\ IsSignature(f) /\ fn = FunctionContext(RawFunction(d, f))
    /\ ~UnsupportedArgument(RawFunction(d, f)) /\ fn.returns.kind # "unsupported"
    /\ ParseCommentTags(f.comment).expose # "none"

\* There is one function behind every exposed name.
LEMMA OneBehind ==
    ASSUME NEW c \in Catalogs, NEW functions,
           functions = BuildSchemaContext(Introspect(c.db, c.opts), c.rpc, c.opts).functions,
           NEW q, q \in {fn.qualifiedName : fn \in functions}
    PROVE  \E f, fn : Behind(c.db, functions, q, f, fn)
<1>1. PICK fn \in functions : fn.qualifiedName = q
  OBVIOUS
<1>2. ASSUME NEW x \in functions
      PROVE  \E f \in c.db.functions :
               /\ Flat(f) = x.qualifiedName /\ x = FunctionContext(RawFunction(c.db, f))
               /\ \A h \in c.db.functions : Flat(h) = Flat(f) => h = f
               /\ ~UnsupportedArgument(RawFunction(c.db, f)) /\ x.returns.kind # "unsupported"
               /\ ParseCommentTags(f.comment).expose # "none"
  BY ExposedFunction
<1>3. PICK f \in c.db.functions :
        /\ Flat(f) = q /\ fn = FunctionContext(RawFunction(c.db, f))
        /\ \A h \in c.db.functions : Flat(h) = Flat(f) => h = f
        /\ ~UnsupportedArgument(RawFunction(c.db, f)) /\ fn.returns.kind # "unsupported"
        /\ ParseCommentTags(f.comment).expose # "none"
  BY <1>1, <1>2
<1>4. ASSUME NEW x \in functions, x.qualifiedName = q PROVE x = fn
  <2>1. PICK g \in c.db.functions : Flat(g) = q /\ x = FunctionContext(RawFunction(c.db, g))
    BY <1>2, <1>4
  <2>2. g = f
    BY <1>3, <2>1
  <2>. QED  BY <1>3, <2>1, <2>2
<1>5. IsSignature(f)
  BY CatalogsAssumption
<1>. QED  BY <1>1, <1>3, <1>4, <1>5 DEF Behind

\* What a call is answered, when the function is there and may be called.
Ran(d, f, fn, role, supplied, allow, result) ==
    \/ result = NotFound /\ allow.listed
    \/ /\ IsMalformed(result) <=> Callees(d, f.schema, f.name, supplied) # {f}
       /\ IsMalformed(result) <=> BadArguments(fn, supplied)
       /\ ~IsMalformed(result) =>
            \/ ~MayExecute(d, role, f) /\ result = Forbidden
            \/ MayExecute(d, role, f) /\ Shaped(f, fn.returns.columns, result)

\* A call of an exposed function ends in one of these ways.
LEMMA CallsReach ==
    ASSUME NEW d, NEW x, NEW q, NEW f, NEW fn, Behind(d, x.functions, q, f, fn),
           NEW role, NEW supplied, NEW allow, NEW result,
           result = CallFunction(d, x, role, q, supplied, allow)
    PROVE  Ran(d, f, fn, role, supplied, allow, result)
<1>1. PICK found : found = LookupFunction(x, q)
  OBVIOUS
<1>2. found = {fn} /\ (CHOOSE y \in found : TRUE) = fn
  BY <1>1 DEF LookupFunction, Behind
<1>3. result = IF allow.listed /\ q \notin allow.names THEN NotFound
               ELSE IF BadArguments(fn, supplied) THEN BadRequest
               ELSE Execute(d, role, fn, supplied)
  BY <1>1, <1>2 DEF CallFunction
<1>4. CASE allow.listed /\ q \notin allow.names
  BY <1>3, <1>4 DEF Ran
<1>5. CASE ~(allow.listed /\ q \notin allow.names)
  <2>1. result = IF BadArguments(fn, supplied) THEN BadRequest ELSE Execute(d, role, fn, supplied)
    BY <1>3, <1>5
  <2>2. /\ f \in d.functions /\ IsSignature(f) /\ fn = FunctionContext(RawFunction(d, f))
        /\ ~UnsupportedArgument(RawFunction(d, f)) /\ fn.returns.kind # "unsupported"
        /\ \A h \in d.functions : Flat(h) = Flat(f) => h = f
    BY DEF Behind
  <2>3. /\ IsMalformed(result) <=> Callees(d, f.schema, f.name, supplied) # {f}
        /\ ~IsMalformed(result) =>
             \/ ~MayExecute(d, role, f) /\ result = Forbidden
             \/ MayExecute(d, role, f) /\ Shaped(f, fn.returns.columns, result)
    BY <2>1, <2>2, CallsAnswered
  <2>4. Callees(d, f.schema, f.name, supplied) = IF BadArguments(fn, supplied) THEN {} ELSE {f}
    BY <2>2, CalleesCompiled
  <2>. QED  BY <2>3, <2>4 DEF Ran
<1>. QED  BY <1>4, <1>5

\* What is not exposed is not found.
LEMMA NothingToCall ==
    ASSUME NEW d, NEW x, NEW q, q \notin {fn.qualifiedName : fn \in x.functions},
           NEW role, NEW supplied, NEW allow
    PROVE  CallFunction(d, x, role, q, supplied, allow) = NotFound
<1>1. LookupFunction(x, q) = {}
  BY DEF LookupFunction
<1>. QED  BY <1>1 DEF CallFunction

\* What the form of the function f says, when it is submitted and when it is not.
FormIsFaithful(f, exposed, question, result) ==
    LET inputs == Inputs(f)
        sent == DOMAIN result.sent
        Deed(i) == question.deeds[inputs[i].name]
        Retracted(i) == question.script /\ Deed(i) = "cleared"
                          /\ inputs[i].type \in NumberTypes \cup {"bool"}
        Blanked(i) == ~HasDefault(f, i) /\ Deed(i) # "filled"
    IN /\ result.submitted =>
            /\ ~IsMalformed(result.answer)
            /\ \A i \in DOMAIN inputs :
                  LET name == inputs[i].name
                      filled == question.deeds[name] = "filled"
                  IN /\ filled <=> name \in sent /\ result.sent[name] = "filled"
                     /\ name \in sent => result.sent[name] \notin {"", "null"}
                     /\ name \in sent <=> filled \/ ~HasDefault(f, i) \/ Retracted(i)
       /\ ~result.submitted =>
            \/ question.adapter = "postgrest" \/ Flat(f) \notin exposed
            \/ \E i \in DOMAIN inputs : Blanked(i) /\ inputs[i].type # "bool"

\* A control keeps its form from being sent only if it is blank.
LEMMA ObstructedIsBlank ==
    ASSUME NEW arg, NEW deed, Obstructed(ArgumentField(arg), deed)
    PROVE  ~arg.hasDefault /\ deed # "filled" /\ arg.udtName # "bool"
<1>1. PICK field : field = ArgumentField(arg)
  OBVIOUS
<1>2. field.supplied = arg.hasDefault /\ field.widget = TypeWidget(arg.udtName)
  BY <1>1 DEF ArgumentField, ArgumentWidget
<1>3. ~field.supplied /\ field.widget # "boolean" /\ Held(field, deed) \in {"", "null"}
  BY <1>1 DEF Obstructed
<1>4. deed # "filled"
  BY <1>3 DEF Held
<1>. QED  BY <1>2, <1>3, <1>4, WidgetsOfTypes

\* The form of f was sent, with what was done to its controls.
Sent(d, x, f, question, result) ==
    /\ question.script \in BOOLEAN
    /\ question.deeds \in [Names(Inputs(f)) -> {"left", "filled", "cleared"}]
    /\ \E role : result = RunAction(d, x, question.adapter, role, Flat(f), question.deeds, question.script)

\* The form of an exposed function is faithful.
LEMMA FormsReach ==
    ASSUME NEW d, NEW x, NEW f, NEW fn, Behind(d, x.functions, Flat(f), f, fn),
           NEW question, NEW result, Sent(d, x, f, question, result)
    PROVE  FormIsFaithful(f, {y.qualifiedName : y \in x.functions}, question, result)
<1>. PICK role : /\ question.script \in BOOLEAN
                 /\ question.deeds \in [Names(Inputs(f)) -> {"left", "filled", "cleared"}]
                 /\ result = RunAction(d, x, question.adapter, role, Flat(f), question.deeds, question.script)
  BY DEF Sent
<1>1. PICK script \in BOOLEAN : script = question.script
  OBVIOUS
<1>2. PICK found, deeds, sent, inputs, q :
        /\ found = LookupFunction(x, Flat(f)) /\ deeds = question.deeds /\ q = Flat(f)
        /\ sent = Arguments(fn, deeds, script) /\ inputs = Inputs(f)
  OBVIOUS
<1>3. found = {fn} /\ (CHOOSE y \in found : TRUE) = fn
  BY <1>2 DEF LookupFunction, Behind
<1>4. /\ IsSignature(f) /\ fn = FunctionContext(RawFunction(d, f))
      /\ ~UnsupportedArgument(RawFunction(d, f))
  BY DEF Behind
<1>5. PICK m \in Nat : DOMAIN fn.args = 1..m /\ DOMAIN inputs = 1..m
  BY <1>2, <1>4, InputsCompiled
<1>6. \A k \in 1..m : /\ fn.args[k].name = inputs[k].name /\ fn.args[k].udtName = inputs[k].type
                      /\ fn.args[k].hasDefault <=> HasDefault(f, k)
  BY <1>2, <1>4, <1>5, InputsCompiled
<1>7. \A k \in 1..m : fn.args[k].name # Empty
  <2>1. fn.args = InputArgs(RawFunction(d, f))
    BY <1>4 DEF FunctionContext
  <2>2. \A k \in 1..m : fn.args[k] \in Range(fn.args)
    BY <1>5 DEF Range
  <2>. QED  BY <1>4, <2>1, <2>2 DEF UnsupportedArgument
<1>8. \A j, k \in 1..m : fn.args[j].name = fn.args[k].name => j = k
  <2>1. \A j, k \in 1..m : inputs[j].name = inputs[k].name => j = k \/ inputs[j].name = Empty
    BY <1>2, <1>4, <1>5 DEF IsSignature
  <2>. QED  BY <1>6, <1>7, <2>1
<1>9. Names(fn.args) = Names(inputs)
  BY <1>5, <1>6 DEF Names
<1>10. deeds \in [Names(fn.args) -> {"left", "filled", "cleared"}]
  BY <1>2, <1>9
<1>11. CASE question.adapter = "postgrest"
  <2>1. result = [submitted |-> FALSE, answer |-> NotFound]
    BY <1>1, <1>2, <1>3, <1>11 DEF RunAction
  <2>2. result.submitted = FALSE
    BY <2>1
  <2>. QED  BY <1>11, <2>2 DEF FormIsFaithful
<1>12. CASE /\ question.adapter # "postgrest"
            /\ \E a \in Range(fn.args) : Obstructed(ArgumentField(a), deeds[a.name])
  <2>1. result = [submitted |-> FALSE, answer |-> NotFound]
    BY <1>1, <1>2, <1>3, <1>12 DEF RunAction
  <2>2. result.submitted = FALSE
    BY <2>1
  <2>3. PICK k \in 1..m : Obstructed(ArgumentField(fn.args[k]), deeds[fn.args[k].name])
    BY <1>5, <1>12 DEF Range
  <2>4. ~fn.args[k].hasDefault /\ deeds[fn.args[k].name] # "filled" /\ fn.args[k].udtName # "bool"
    BY <2>3, ObstructedIsBlank
  <2>5. /\ k \in DOMAIN inputs /\ ~HasDefault(f, k) /\ question.deeds[inputs[k].name] # "filled"
        /\ inputs[k].type # "bool"
    BY <1>2, <1>5, <1>6, <2>4
  <2>. QED  BY <1>2, <2>2, <2>5 DEF FormIsFaithful
<1>13. CASE /\ question.adapter # "postgrest"
            /\ ~\E a \in Range(fn.args) : Obstructed(ArgumentField(a), deeds[a.name])
  <2>1. PICK allow : allow = [listed |-> FALSE, names |-> {}]
    OBVIOUS
  <2>2. PICK called : called = CallFunction(d, x, role, Flat(f), DOMAIN sent, allow)
    OBVIOUS
  <2>3. result = [submitted |-> TRUE, sent |-> sent, answer |-> called]
    BY <1>1, <1>2, <1>3, <1>13, <2>1, <2>2 DEF RunAction
  <2>4. result.submitted = TRUE /\ result.sent = sent /\ result.answer = called
    BY <2>3
  <2>5. ASSUME NEW k \in 1..m, NEW name, name = inputs[k].name
        PROVE  /\ deeds[name] = "filled" <=> name \in DOMAIN sent /\ sent[name] = "filled"
               /\ name \in DOMAIN sent => sent[name] \notin {"", "null"}
               /\ name \in DOMAIN sent <=>
                    \/ deeds[name] = "filled" \/ ~HasDefault(f, k)
                    \/ script /\ deeds[name] = "cleared" /\ inputs[k].type \in NumberTypes \cup {"bool"}
    <3>1. \A j \in 1..m : fn.args[j].hasDefault \in BOOLEAN
      BY <1>2, <1>4, <1>5, InputsCompiled
    <3>2. name = fn.args[k].name
      BY <1>6, <2>5
    <3>3. Sendable(fn, m, deeds, script)
      BY <1>2, <1>5, <1>8, <1>10, <1>13, <3>1 DEF Sendable
    <3>4. ArgumentSent(fn.args[k], deeds, script, sent)
      BY <1>2, <3>3, ArgumentsSent
    <3>. QED  BY <1>6, <3>2, <3>4 DEF ArgumentSent
  <2>6. ~BadArguments(fn, DOMAIN sent)
    <3>1. DOMAIN sent \subseteq Names(fn.args)
      BY <1>2, <1>10 DEF Arguments
    <3>2. ASSUME NEW a \in Range(fn.args), ~a.hasDefault PROVE a.name \in DOMAIN sent
      <4>1. PICK k \in 1..m : a = fn.args[k]
        BY <1>5 DEF Range
      <4>. QED  BY <1>6, <2>5, <3>2, <4>1
    <3>. QED  BY <3>1, <3>2 DEF BadArguments
  <2>7. ~IsMalformed(called)
    <3>1. PICK supplied : supplied = DOMAIN sent
      OBVIOUS
    <3>2. called = CallFunction(d, x, role, q, supplied, allow) /\ Behind(d, x.functions, q, f, fn)
      BY <1>2, <2>2, <3>1
    <3>3. Ran(d, f, fn, role, supplied, allow, called)
      BY <3>2, CallsReach
    <3>. QED  BY <2>6, <3>1, <3>3, StatusesDiffer DEF Ran
  <2>. QED  BY <1>1, <1>2, <1>5, <2>4, <2>5, <2>7 DEF FormIsFaithful
<1>. QED  BY <1>11, <1>12, <1>13

\* The functions behind the exposed names, of the context and its catalog.
LEMMA ExposedAreBehind ==
    ASSUME ContextInv, AnswerInv, answer.kind # "none", NEW q \in Exposed
    PROVE  \E f, fn : Behind(db, ctx.functions, q, f, fn)
<1>1. PICK c \in Catalogs : c = catalog
  BY DEF ContextInv
<1>2. PICK functions : functions = ctx.functions
  OBVIOUS
<1>3. functions = BuildSchemaContext(Introspect(c.db, c.opts), c.rpc, c.opts).functions
  BY <1>1, <1>2 DEF ContextInv, AnswerInv, db, opts
<1>4. q \in {fn.qualifiedName : fn \in functions} /\ c.db = db
  BY <1>1, <1>2 DEF Exposed, db
<1>5. \E f, fn : Behind(c.db, functions, q, f, fn)
  BY <1>3, <1>4, OneBehind
<1>. QED  BY <1>2, <1>4, <1>5

\* What is answered to a call of an exposed function.
CallIsFaithful(functions, question, result) ==
    LET q == question.name
        fn == CHOOSE x \in functions : x.qualifiedName = q
        callees == {f \in Definitions(q) : Callees(db, f.schema, f.name, question.supplied) = {f}}
        unnamed == Len(fn.returns.columns) = 1 /\ fn.returns.columns[1] = Empty
    IN /\ IsMalformed(result) => callees = {}
       /\ IsOk(result) \/ IsSilent(result) \/ IsForbidden(result) =>
            \E f \in callees :
              /\ Exposes(f.comment)
              /\ MayExecute(db, question.role, f) <=> ~IsForbidden(result)
              /\ IsOk(result) =>
                   /\ result.many = f.returns.set
                   /\ NullValue \notin Range(result.keys)
                   /\ fn.returns.columns # <<>> /\ ~unnamed /\ Len(f.returns.types) < 3 =>
                         result.keys = fn.returns.columns
              /\ IsSilent(result) <=> f.returns.void /\ ~IsForbidden(result)

\* Every call of an exposed function is answered so.
LEMMA CallsFaithful ==
    ASSUME NEW x, NEW question, NEW f, NEW fn, Behind(db, x.functions, question.name, f, fn),
           Exposes(f.comment), NEW allow, NEW result,
           result = CallFunction(db, x, question.role, question.name, question.supplied, allow)
    PROVE  CallIsFaithful(x.functions, question, result)
<1>1. PICK q, role, supplied, functions, d :
        /\ q = question.name /\ role = question.role /\ supplied = question.supplied
        /\ functions = x.functions /\ d = db
  OBVIOUS
<1>2. /\ f \in d.functions /\ Flat(f) = q /\ \A h \in d.functions : Flat(h) = q => h = f
      /\ fn \in functions /\ \A y \in functions : y.qualifiedName = q <=> y = fn
  BY <1>1 DEF Behind
<1>3. (CHOOSE y \in functions : y.qualifiedName = q) = fn
  BY <1>2
<1>4. Definitions(q) = {f}
  BY <1>1, <1>2 DEF Definitions
<1>5. PICK callees : callees = {g \in Definitions(q) : Callees(d, g.schema, g.name, supplied) = {g}}
  OBVIOUS
<1>6. callees = IF Callees(d, f.schema, f.name, supplied) = {f} THEN {f} ELSE {}
  BY <1>4, <1>5
<1>7. \/ result = NotFound /\ allow.listed
      \/ /\ IsMalformed(result) <=> Callees(d, f.schema, f.name, supplied) # {f}
         /\ ~IsMalformed(result) =>
              \/ ~MayExecute(d, role, f) /\ result = Forbidden
              \/ MayExecute(d, role, f) /\ Shaped(f, fn.returns.columns, result)
  <2>1. Behind(d, x.functions, q, f, fn) /\ result = CallFunction(d, x, role, q, supplied, allow)
    BY <1>1
  <2>2. Ran(d, f, fn, role, supplied, allow, result)
    BY <2>1, CallsReach
  <2>. QED  BY <2>2 DEF Ran
<1>8. CASE result = NotFound
  BY <1>8, StatusesDiffer DEF CallIsFaithful
<1>9. CASE IsMalformed(result)
  <2>1. callees = {}
    BY <1>6, <1>7, <1>9, StatusesDiffer
  <2>2. ~IsOk(result) /\ ~IsSilent(result) /\ ~IsForbidden(result)
    BY <1>9 DEF IsMalformed, IsOk, IsSilent, IsForbidden
  <2>. QED  BY <1>1, <1>5, <2>1, <2>2 DEF CallIsFaithful
<1>10. CASE ~IsMalformed(result) /\ ~MayExecute(d, role, f) /\ result = Forbidden
  <2>1. f \in callees
    BY <1>6, <1>7, <1>10, StatusesDiffer
  <2>. QED  BY <1>1, <1>5, <1>10, <2>1, StatusesDiffer DEF CallIsFaithful
<1>11. CASE /\ result # NotFound /\ ~IsMalformed(result)
            /\ MayExecute(d, role, f) /\ Shaped(f, fn.returns.columns, result)
  <2>1. f \in callees
    BY <1>6, <1>7, <1>11, StatusesDiffer
  <2>2. PICK columns : columns = fn.returns.columns
    OBVIOUS
  <2>3. /\ ~IsForbidden(result) /\ (IsSilent(result) <=> f.returns.void)
        /\ IsOk(result) =>
             /\ result.many = f.returns.set /\ NullValue \notin Range(result.keys)
             /\ columns # <<>> /\ ~(Len(columns) = 1 /\ columns[1] = Empty) /\ Len(f.returns.types) < 3 =>
                  result.keys = columns
    BY <1>11, <2>2 DEF Shaped
  <2>. QED  BY <1>1, <1>3, <1>5, <1>11, <2>1, <2>2, <2>3 DEF CallIsFaithful
<1>. QED  BY <1>7, <1>8, <1>9, <1>10, <1>11

\* Every form that was answered is faithful, of an exposed function or not.
LEMMA ActionsFaithful ==
    ASSUME ContextInv, AnswerInv, Answered("act")
    PROVE  FormIsFaithful(answer.question.f, Exposed, answer.question, answer.result)
<1>1. PICK question, result, x : question = answer.question /\ result = answer.result /\ x = ctx
  OBVIOUS
<1>2. PICK f, deeds, script : f = question.f /\ deeds = question.deeds /\ script = question.script
  OBVIOUS
<1>3. PICK role :
        /\ f \in db.functions /\ script \in BOOLEAN
        /\ deeds \in [Names(Inputs(f)) -> {"left", "filled", "cleared"}]
        /\ result = RunAction(db, x, question.adapter, role, Flat(f), deeds, script)
  BY <1>1, <1>2 DEF AnswerInv, Told, Answered, db
<1>4. CASE Flat(f) \in Exposed
  <2>1. PICK g, fn : Behind(db, x.functions, Flat(f), g, fn)
    BY <1>1, <1>4, ExposedAreBehind DEF Answered
  <2>2. g = f
    BY <1>3, <2>1 DEF Behind
  <2>3. Exposed = {y.qualifiedName : y \in x.functions}
    BY <1>1 DEF Exposed
  <2>4. FormIsFaithful(f, {y.qualifiedName : y \in x.functions}, question, result)
    <3>1. PICK d : d = db
      OBVIOUS
    <3>2. Behind(d, x.functions, Flat(f), f, fn)
      BY <2>1, <2>2, <3>1
    <3>3. Sent(d, x, f, question, result)
      BY <1>2, <1>3, <3>1 DEF Sent
    <3>. QED  BY <3>2, <3>3, FormsReach
  <2>. QED  BY <1>1, <1>2, <2>3, <2>4
<1>5. CASE Flat(f) \notin Exposed
  <2>1. LookupFunction(x, Flat(f)) = {}
    BY <1>1, <1>5 DEF LookupFunction, Exposed
  <2>2. result = [submitted |-> FALSE, answer |-> NotFound]
    BY <1>3, <2>1 DEF RunAction
  <2>3. result.submitted = FALSE
    BY <2>2
  <2>4. FormIsFaithful(f, Exposed, question, result)
    BY <1>5, <2>3 DEF FormIsFaithful
  <2>. QED  BY <1>1, <1>2, <2>4
<1>. QED  BY <1>4, <1>5

\* Every call that was answered is faithful, or there was nothing to call.
LEMMA CallsOfAnswer ==
    ASSUME ContextInv, AnswerInv, Answered("call")
    PROVE  IF answer.question.name \in Exposed
           THEN CallIsFaithful(ctx.functions, answer.question, answer.result)
           ELSE answer.result = NotFound
<1>1. PICK question, result, x : question = answer.question /\ result = answer.result /\ x = ctx
  OBVIOUS
<1>2. PICK allow :
        result = CallFunction(db, x, question.role, question.name, question.supplied, allow)
  BY <1>1 DEF AnswerInv, Told, Answered, db
<1>3. CASE question.name \in Exposed
  <2>1. PICK f, fn : Behind(db, x.functions, question.name, f, fn)
    BY <1>1, <1>3, ExposedAreBehind DEF Answered
  <2>2. f \in db.functions /\ ParseCommentTags(f.comment).expose # "none"
    BY <2>1 DEF Behind
  <2>3. IsList(f.comment)
    BY <2>2, CatalogsAssumption DEF ContextInv, db
  <2>4. PICK n \in Nat : DOMAIN f.comment = 1..n
    BY <2>3, LenProperties DEF IsList
  <2>5. Exposes(f.comment)
    BY <2>2, <2>4, TagsMeanTheirLines
  <2>6. CallIsFaithful(x.functions, question, result)
    BY <1>2, <2>1, <2>5, CallsFaithful
  <2>. QED  BY <1>1, <1>3, <2>6
<1>4. CASE question.name \notin Exposed
  <2>1. question.name \notin {fn.qualifiedName : fn \in x.functions}
    BY <1>1, <1>4 DEF Exposed
  <2>2. result = NotFound
    BY <1>2, <2>1, NothingToCall
  <2>. QED  BY <1>1, <1>4, <2>2
<1>. QED  BY <1>3, <1>4

-----------------------------------------------------------------------------
(* Rows over the REST API. *)

\* The operations on one row that there are for a resource.
Serves(r, method, items, op) ==
    \/ ~items /\ method = "POST" /\ op = "create" /\ r.kind = "table"
    \/ items /\ r.primaryKey # <<>> /\ method = "GET" /\ op = "get"
    \/ /\ items /\ r.primaryKey # <<>> /\ r.kind = "table"
       /\ (method = "PATCH" /\ op = "update") \/ (method = "DELETE" /\ op = "delete")

\* A request for one row of a resource is served or refused.
LEMMA RowIsServed ==
    ASSUME NEW c, NEW r \in Resources(c), NEW request, ~request.options,
           NEW items \in BOOLEAN, request.method = "GET" => items,
           NEW outcome, outcome = IF items THEN OnItem(r, request) ELSE OnCollection(r, request)
    PROVE  \/ \E op : /\ Serves(r, request.method, items, op)
                      /\ outcome = Outcome("ok", op, r.qualifiedName)
           \/ /\ \A op : ~Serves(r, request.method, items, op)
              /\ outcome.status \in {"not_found", "method_not_allowed", "bad_request"}
<1>1. PICK m, keyed, table, q :
        m = request.method /\ keyed \in BOOLEAN /\ table \in BOOLEAN /\ keyed = (r.primaryKey # <<>>) /\ table = (r.kind = "table")
        /\ q = r.qualifiedName
  OBVIOUS
<1>2. r.kind \in {"table", "view"}
  BY ResourceKinds
<1>3. /\ Missing.status = "not_found" /\ NotAllowed.status = "method_not_allowed"
      /\ Outcome("bad_request", "", <<>>).status = "bad_request"
  BY DEF Missing, NotAllowed, Outcome
<1>4. \A op : Keyed(r, op) = IF ~keyed THEN Outcome("bad_request", "", <<>>) ELSE Outcome("ok", op, q)
  BY <1>1 DEF Keyed, Done
<1>5. \A x : Writable(r, x) = IF table THEN x ELSE NotAllowed
  BY <1>1, <1>2 DEF Writable
<1>. HIDE DEF Outcome, NotAllowed
<1>6. CASE ~items
  <2>1. outcome = IF m = "POST" THEN Writable(r, Outcome("ok", "create", q)) ELSE NotAllowed
    BY <1>1, <1>6 DEF OnCollection, Done
  <2>2. PICK ok : ok = Outcome("ok", "create", q)
    OBVIOUS
  <2>3. outcome = IF m # "POST" \/ ~table THEN NotAllowed ELSE ok
    BY <1>5, <2>1, <2>2
  <2>4. \A op : Serves(r, m, items, op) <=> m = "POST" /\ table /\ op = "create"
    BY <1>1, <1>6 DEF Serves
  <2>. HIDE DEF Serves
  <2>5. CASE m # "POST" \/ ~table
    BY <1>1, <1>3, <2>3, <2>4, <2>5
  <2>6. CASE m = "POST" /\ table
    BY <1>1, <2>2, <2>3, <2>4, <2>6
  <2>. QED  BY <2>5, <2>6
<1>7. CASE items
  <2>1. CASE m = "GET"
    <3>1. outcome = Keyed(r, "get")
      BY <1>1, <1>7, <2>1 DEF OnItem
    <3>. QED  BY <1>1, <1>3, <1>4, <1>7, <2>1, <3>1 DEF Serves
  <2>2. CASE m = "PATCH"
    <3>1. PICK inner : inner = Keyed(r, "update")
      OBVIOUS
    <3>2. outcome = Writable(r, inner)
      BY <1>1, <1>7, <2>2, <3>1 DEF OnItem
    <3>3. \A op : Serves(r, m, items, op) <=> keyed /\ table /\ op = "update"
      BY <1>1, <1>7, <2>2 DEF Serves
    <3>4. outcome = IF ~table THEN NotAllowed ELSE IF ~keyed THEN Outcome("bad_request", "", <<>>)
                    ELSE Outcome("ok", "update", q)
      <4>1. inner = IF ~keyed THEN Outcome("bad_request", "", <<>>) ELSE Outcome("ok", "update", q)
        BY <1>4, <3>1
      <4>2. outcome = IF table THEN inner ELSE NotAllowed
        BY <1>5, <3>2
      <4>. QED  BY <4>1, <4>2
    <3>5. (\E op : Serves(r, m, items, op) /\ outcome = Outcome("ok", op, q))
          \/ /\ \A op : ~Serves(r, m, items, op)
             /\ outcome.status \in {"not_found", "method_not_allowed", "bad_request"}
      <4>. HIDE DEF Serves
      <4>1. CASE table /\ keyed
        BY <3>3, <3>4, <4>1
      <4>2. CASE ~(table /\ keyed)
        BY <1>3, <3>3, <3>4, <4>2
      <4>. QED  BY <4>1, <4>2
    <3>. QED  BY <1>1, <3>5
  <2>3. CASE m = "DELETE"
    <3>1. PICK inner : inner = Keyed(r, "delete")
      OBVIOUS
    <3>2. outcome = Writable(r, inner)
      BY <1>1, <1>7, <2>3, <3>1 DEF OnItem
    <3>3. \A op : Serves(r, m, items, op) <=> keyed /\ table /\ op = "delete"
      BY <1>1, <1>7, <2>3 DEF Serves
    <3>4. outcome = IF ~table THEN NotAllowed ELSE IF ~keyed THEN Outcome("bad_request", "", <<>>)
                    ELSE Outcome("ok", "delete", q)
      <4>1. inner = IF ~keyed THEN Outcome("bad_request", "", <<>>) ELSE Outcome("ok", "delete", q)
        BY <1>4, <3>1
      <4>2. outcome = IF table THEN inner ELSE NotAllowed
        BY <1>5, <3>2
      <4>. QED  BY <4>1, <4>2
    <3>5. (\E op : Serves(r, m, items, op) /\ outcome = Outcome("ok", op, q))
          \/ /\ \A op : ~Serves(r, m, items, op)
             /\ outcome.status \in {"not_found", "method_not_allowed", "bad_request"}
      <4>. HIDE DEF Serves
      <4>1. CASE table /\ keyed
        BY <3>3, <3>4, <4>1
      <4>2. CASE ~(table /\ keyed)
        BY <1>3, <3>3, <3>4, <4>2
      <4>. QED  BY <4>1, <4>2
    <3>. QED  BY <1>1, <3>5
  <2>4. CASE m \notin {"GET", "PATCH", "DELETE"}
    <3>1. outcome = NotAllowed
      BY <1>1, <1>7, <2>4 DEF OnItem
    <3>. QED  BY <1>1, <1>3, <1>7, <2>4, <3>1 DEF Serves
  <2>. QED  BY <2>1, <2>2, <2>3, <2>4
<1>. QED  BY <1>6, <1>7

\* What the document holds for a request, and what it should for one row.
Asked(c, method, s, d) ==
    d \in Paths(c) /\ d.request.method = method /\ d.request.segments = s /\ ~d.request.options
ServedRow(c, name, items, method, s, d) ==
    \E r \in Resources(c) : \E op :
       /\ {x \in Resources(c) : x.name = name} = {r} /\ Serves(r, method, items, op)
       /\ d = Documented(method, s, FALSE, op, r.qualifiedName)

\* They are the same under a name that is no qualified name and not the router's own.
LEMMA RowIsDocumented ==
    ASSUME NEW c, NEW name, \A x \in Resources(c) : x.qualifiedName # name,
           NEW items \in BOOLEAN, items => name # <<"rpc">>,
           NEW method, method = "GET" => items,
           NEW s, s = IF items THEN <<name, Id>> ELSE <<name>>, NEW d
    PROVE  Asked(c, method, s, d) <=> ServedRow(c, name, items, method, s, d)
<1>1. PICK R, id, bare : R = Resources(c) /\ id = Id /\ bare = {x \in R : x.name = name}
  OBVIOUS
<1>2. \A x, y : <<x, id>> # <<y>>
  <2>1. \A x, y : Len(<<x, id>>) = 2 /\ Len(<<y>>) = 1
    OBVIOUS
  <2>. QED  BY <2>1
<1>3. ASSUME NEW r \in R
      PROVE  SegmentFor(R, r) = name <=> bare = {r}
  <2>1. SegmentFor(R, r) = IF {x \in R : x.name = r.name} = {r} THEN r.name ELSE r.qualifiedName
    BY DEF SegmentFor
  <2>2. r.qualifiedName # name
    BY <1>1
  <2>3. bare = {r} => r.name = name
    BY <1>1
  <2>. QED  BY <1>1, <2>1, <2>2, <2>3
<1>4. ASSUME NEW fn, d \in RpcPaths(fn), d.request.segments = s PROVE FALSE
  <2>1. d.request.segments = <<<<"rpc">>, fn.qualifiedName>>
    BY <1>4 DEF RpcPaths, Documented
  <2>2. Len(s) = 2 /\ s[1] = <<"rpc">>
    BY <1>4, <2>1
  <2>3. items /\ s[1] = name
    BY <2>2
  <2>. QED  BY <2>2, <2>3
<1>5. \A m, p, o, op, q : LET x == Documented(m, p, o, op, q)
                          IN x.request.method = m /\ x.request.segments = p /\ x.request.options = o
  BY DEF Documented
<1>6. ASSUME NEW r \in R, d \in ResourcePaths(R, r),
             d.request.method = method, d.request.segments = s, ~d.request.options
      PROVE  \E op : bare = {r} /\ Serves(r, method, items, op)
                     /\ d = Documented(method, s, FALSE, op, r.qualifiedName)
  <2>1. PICK segment, q : segment = SegmentFor(R, r) /\ q = r.qualifiedName
    OBVIOUS
  <2>2. \/ d = Documented("GET", <<segment>>, FALSE, "list", q)
        \/ r.primaryKey # <<>> /\ d = Documented("GET", <<segment>>, TRUE, "options", q)
        \/ r.primaryKey # <<>> /\ d = Documented("GET", <<segment, id>>, FALSE, "get", q)
        \/ r.kind = "table" /\ d = Documented("POST", <<segment>>, FALSE, "create", q)
        \/ /\ r.primaryKey # <<>> /\ r.kind = "table"
           /\ \/ d = Documented("PATCH", <<segment, id>>, FALSE, "update", q)
              \/ d = Documented("DELETE", <<segment, id>>, FALSE, "delete", q)
    <3>. HIDE DEF Documented
    <3>. QED  BY <1>1, <1>6, <2>1, DocumentedOperations
  <2>. HIDE DEF Documented
  <2>3. \A m, p, o, op : d = Documented(m, p, o, op, q) => m = method /\ p = s /\ o = FALSE
    BY <1>5, <1>6
  <2>4. s = <<segment>> \/ s = <<segment, id>>
    BY <2>2, <2>3
  <2>5. /\ s = <<segment>> => ~items /\ segment = name
        /\ s = <<segment, id>> => items /\ segment = name
    <3>1. s = <<segment>> => Len(s) = 1 /\ s[1] = segment
      OBVIOUS
    <3>2. s = <<segment, id>> => Len(s) = 2 /\ s[1] = segment
      OBVIOUS
    <3>3. s[1] = name /\ (items <=> Len(s) = 2) /\ (~items <=> Len(s) = 1)
      OBVIOUS
    <3>. QED  BY <3>1, <3>2, <3>3
  <2>6. bare = {r}
    BY <1>3, <2>1, <2>4, <2>5
  <2>7. \E op : /\ Serves(r, method, items, op) /\ d = Documented(method, s, FALSE, op, q)
    BY <2>2, <2>3, <2>5 DEF Serves
  <2>. QED  BY <2>1, <2>6, <2>7
<1>7. ASSUME NEW r \in R, NEW op, bare = {r}, Serves(r, method, items, op),
             d = Documented(method, s, FALSE, op, r.qualifiedName)
      PROVE  d \in ResourcePaths(R, r)
  <2>1. SegmentFor(R, r) = name
    BY <1>3, <1>7
  <2>2. PICK collection, item, q : /\ collection = <<SegmentFor(R, r)>>
                                   /\ item = <<SegmentFor(R, r), Id>> /\ q = r.qualifiedName
    OBVIOUS
  <2>3. s = IF items THEN item ELSE collection
    BY <2>1, <2>2
  <2>4. \/ d = Documented("POST", collection, FALSE, "create", q) /\ r.kind = "table"
        \/ d = Documented("GET", item, FALSE, "get", q) /\ r.primaryKey # <<>>
        \/ /\ r.primaryKey # <<>> /\ r.kind = "table"
           /\ \/ d = Documented("PATCH", item, FALSE, "update", q)
              \/ d = Documented("DELETE", item, FALSE, "delete", q)
    <3>. HIDE DEF Documented
    <3>. QED  BY <1>7, <2>2, <2>3 DEF Serves
  <2>. HIDE DEF Documented
  <2>. QED  BY <2>2, <2>4, DocumentedOperations
<1>8. ASSUME d \in Paths(c), d.request.segments = s PROVE \E r \in R : d \in ResourcePaths(R, r)
  BY <1>1, <1>4, <1>8, DocumentedPaths
<1>. HIDE DEF Documented
<1>9. ASSUME NEW r \in R, NEW op, bare = {r}, Serves(r, method, items, op),
             d = Documented(method, s, FALSE, op, r.qualifiedName)
      PROVE  d \in Paths(c) /\ d.request.method = method /\ d.request.segments = s /\ ~d.request.options
  <2>1. d \in Paths(c)
    BY <1>1, <1>7, <1>9, DocumentedPaths
  <2>2. PICK q : q = r.qualifiedName
    OBVIOUS
  <2>3. PICK request : request = [method |-> method, segments |-> s, options |-> FALSE]
    OBVIOUS
  <2>4. d = [request |-> request, op |-> op, on |-> q]
    BY <1>9, <2>2, <2>3 DEF Documented
  <2>5. d.request = request
    BY <2>4
  <2>. QED  BY <2>1, <2>3, <2>5
<1>10. d \in Paths(c) /\ d.request.method = method /\ d.request.segments = s /\ ~d.request.options
       <=> \E r \in R : \E op : /\ bare = {r} /\ Serves(r, method, items, op)
                            /\ d = Documented(method, s, FALSE, op, r.qualifiedName)
  BY <1>6, <1>8, <1>9
<1>. QED  BY <1>1, <1>10 DEF Asked, ServedRow

RowIsRouted(c, request, s, routes) ==
    \/ routes = {} /\ Route(c, request).status \in {"not_found", "method_not_allowed", "bad_request"}
    \/ \E r \in Resources(c) : \E op, items :
         /\ Serves(r, request.method, items, op)
         /\ Route(c, request) = Outcome("ok", op, r.qualifiedName)
         /\ routes = {Documented(request.method, s, FALSE, op, r.qualifiedName)}

\* A request for one row, under such a name, is routed exactly where the
\* document says, or refused and not in the document.
LEMMA RowRoutes ==
    ASSUME NEW c, NEW request, ~request.options,
           NEW s, s = request.segments, ForRow(request.method, s),
           s[1] # <<"openapi", "json">>, Len(s) = 2 => s[1] # <<"rpc">>,
           \A x \in Resources(c) : x.qualifiedName # s[1],
           NEW routes, routes = {d \in Paths(c) : d.request.method = request.method
                                   /\ d.request.segments = s /\ ~d.request.options}
    PROVE  RowIsRouted(c, request, s, routes)
<1>1. PICK method : method = request.method
  OBVIOUS
<1>2. PICK name : s = <<name, Id>> \/ (s = <<name>> /\ method # "GET")
  BY <1>1 DEF ForRow
<1>3. PICK items \in BOOLEAN : items <=> Len(s) = 2
  OBVIOUS
<1>4. s = (IF items THEN <<name, Id>> ELSE <<name>>) /\ s[1] = name /\ s # <<>>
  <2>1. CASE s = <<name, Id>>
    <3>1. Len(s) = 2
      BY <2>1
    <3>. QED  BY <1>3, <2>1, <3>1
  <2>2. CASE s = <<name>>
    <3>1. Len(s) = 1
      BY <2>2
    <3>. QED  BY <1>3, <2>2, <3>1
  <2>. QED  BY <1>2, <2>1, <2>2
<1>5. (items => Len(s) = 2) /\ (~items => Len(s) = 1)
  BY <1>4
<1>6. method = "GET" => items
  BY <1>2, <1>3
<1>7. PICK R, bare, found, x :
        /\ R = Resources(c) /\ bare = {y \in R : y.name = name} /\ found = Resolve(R, name)
        /\ x = CHOOSE y \in found : TRUE
  OBVIOUS
<1>8. found = {y \in bare : bare = {y}}
  <2>1. {y \in R : y.qualifiedName = name} = {}
    BY <1>4, <1>7
  <2>. QED  BY <1>7, <2>1 DEF Resolve
<1>9. Route(c, request) = IF found = {} THEN Missing
                          ELSE IF items THEN OnItem(x, request) ELSE OnCollection(x, request)
  <2>1. s # <<<<"openapi", "json">>>>
    <3>1. <<<<"openapi", "json">>>>[1] = <<"openapi", "json">>
      OBVIOUS
    <3>. QED  BY <1>4, <3>1
  <2>2. ForResource(s)
    BY <1>4, <1>5, <2>1 DEF ForResource
  <2>3. Route(c, request) = IF found = {} THEN Missing
                            ELSE IF Len(s) = 1 THEN OnCollection(x, request) ELSE OnItem(x, request)
    BY <1>4, <1>7, <2>2, RoutedToResource
  <2>4. Len(s) = 1 <=> ~items
    BY <1>5
  <2>. QED  BY <2>3, <2>4
<1>10. ASSUME NEW d
       PROVE  d \in routes <=> \E r \in R : \E op :
                 /\ bare = {r} /\ Serves(r, method, items, op)
                 /\ d = Documented(method, s, FALSE, op, r.qualifiedName)
  <2>1. (\A y \in Resources(c) : y.qualifiedName # name) /\ (items => name # <<"rpc">>)
    BY <1>4, <1>5
  <2>2. Asked(c, method, s, d) <=> ServedRow(c, name, items, method, s, d)
    BY <1>4, <1>6, <2>1, RowIsDocumented
  <2>3. d \in routes <=> Asked(c, method, s, d)
    BY <1>1 DEF Asked
  <2>. HIDE DEF Serves, Documented
  <2>. QED  BY <1>7, <2>2, <2>3 DEF ServedRow
<1>11. CASE found = {}
  <2>1. ASSUME NEW r \in R, bare = {r} PROVE FALSE
    BY <1>8, <1>11, <2>1
  <2>2. ASSUME NEW d \in routes PROVE FALSE
    BY <1>10, <2>1
  <2>3. Route(c, request).status = "not_found"
    <3>1. Missing.status = "not_found"
      BY DEF Missing, Outcome
    <3>. QED  BY <1>9, <1>11, <3>1
  <2>4. routes = {}
    BY <2>2
  <2>. QED  BY <2>3, <2>4 DEF RowIsRouted
<1>12. CASE found # {}
  <2>1. x \in R /\ bare = {x}
    BY <1>7, <1>8, <1>12
  <2>2. PICK outcome : outcome = IF items THEN OnItem(x, request) ELSE OnCollection(x, request)
    OBVIOUS
  <2>3. Route(c, request) = outcome
    BY <1>9, <1>12, <2>2
  <2>4. \/ \E op : Serves(x, method, items, op) /\ outcome = Outcome("ok", op, x.qualifiedName)
        \/ /\ \A op : ~Serves(x, method, items, op)
           /\ outcome.status \in {"not_found", "method_not_allowed", "bad_request"}
    <3>1. x \in Resources(c) /\ (request.method = "GET" => items)
      BY <1>1, <1>6, <1>7, <2>1
    <3>. HIDE DEF Serves
    <3>. QED  BY <1>1, <2>2, <3>1, RowIsServed
  <2>5. CASE \A op : ~Serves(x, method, items, op)
    <3>1. ASSUME NEW d \in routes PROVE FALSE
      <4>1. PICK r \in R, op \in {"get", "create", "update", "delete"} :
              bare = {r} /\ Serves(r, method, items, op)
        BY <1>10 DEF Serves
      <4>2. r = x
        BY <2>1, <4>1
      <4>. QED  BY <2>5, <4>1, <4>2
    <3>2. routes = {}
      BY <3>1
    <3>. QED  BY <2>3, <2>4, <2>5, <3>2 DEF RowIsRouted
  <2>6. ASSUME NEW op, Serves(x, method, items, op), outcome = Outcome("ok", op, x.qualifiedName)
        PROVE  routes = {Documented(method, s, FALSE, op, x.qualifiedName)}
    <3>1. \A o : Serves(x, method, items, o) <=> o = op
      BY <2>6 DEF Serves
    <3>2. PICK q, d : q = x.qualifiedName /\ d = Documented(method, s, FALSE, op, q)
      OBVIOUS
    <3>. HIDE DEF Serves, Documented
    <3>3. d \in routes
      BY <1>10, <2>1, <2>6, <3>2
    <3>4. ASSUME NEW y \in routes PROVE y = d
      <4>1. PICK r \in R : \E o : /\ bare = {r} /\ Serves(r, method, items, o)
                                  /\ y = Documented(method, s, FALSE, o, r.qualifiedName)
        BY <1>10
      <4>2. PICK o : /\ bare = {r} /\ Serves(r, method, items, o)
                     /\ y = Documented(method, s, FALSE, o, r.qualifiedName)
        BY <4>1
      <4>3. r = x
        BY <2>1, <4>2
      <4>4. o = op
        BY <3>1, <4>2, <4>3
      <4>. QED  BY <3>2, <4>2, <4>3, <4>4
    <3>5. routes = {d}
      BY <3>3, <3>4
    <3>. QED  BY <3>2, <3>5
  <2>7. ASSUME NEW op, Serves(x, method, items, op), outcome = Outcome("ok", op, x.qualifiedName)
        PROVE  RowIsRouted(c, request, s, routes)
    <3>1. routes = {Documented(method, s, FALSE, op, x.qualifiedName)}
      BY <2>6, <2>7
    <3>2. x \in Resources(c)
      BY <1>7, <2>1
    <3>. HIDE DEF Serves, Documented, Outcome, Route
    <3>. QED  BY <1>1, <2>3, <2>7, <3>1, <3>2 DEF RowIsRouted
  <2>. HIDE DEF Serves, Documented, Outcome, Route
  <2>. QED  BY <2>3, <2>4, <2>5, <2>7 DEF RowIsRouted
<1>. QED  BY <1>11, <1>12

\* The first reason that holds.
LEMMA FirstReason ==
    ASSUME NEW reasons, NEW n \in Nat, DOMAIN reasons = 1..n, NEW k \in 1..n,
           reasons[k].of, \A j \in 1..(k - 1) : ~reasons[j].of
    PROVE  (CHOOSE i \in DOMAIN reasons : reasons[i].of /\ \A j \in 1..(i - 1) : ~reasons[j].of) = k
<1>1. ASSUME NEW i \in 1..n, reasons[i].of, \A j \in 1..(i - 1) : ~reasons[j].of PROVE i = k
  BY <1>1
<1>. QED  BY <1>1

\* How a statement ends, by what stands in its way.
Ending(unknown, unset, always, refused, unseen, null, op, event) ==
    IF unknown THEN "42703" ELSE IF unset THEN "42601" ELSE IF always THEN "428C9"
    ELSE IF refused THEN "42501"
    ELSE IF op # "create" /\ (unseen \/ event = "gone") THEN "no_row"
    ELSE IF op # "get" /\ event = "vetoed" THEN "no_row"
    ELSE IF op = "create" /\ unseen THEN "42501"
    ELSE IF null THEN "23502"
    ELSE IF op # "get" /\ event \in Broken THEN event ELSE "row"

LEMMA StatementEnds ==
    ASSUME NEW d, NEW role, NEW r, NEW statement
    PROVE  LET op == statement.op
               fields == statement.fields
           IN RunStatement(d, role, r, statement) =
                Ending(~(DOMAIN fields \subseteq Names(r.columns)), op = "update" /\ fields = <<>>,
                       \E c \in Range(r.columns) : c.always /\ c.name \in DOMAIN fields,
                       ~MayRun(d, role, r, statement),
                       \E cmd \in {"select", Command[op]} : RlsRefuses(d, role, r, cmd),
                       LeavesNull(r, op, fields), op, statement.event)
<1>1. PICK op, fields, event : op = statement.op /\ fields = statement.fields /\ event = statement.event
  OBVIOUS
<1>2. PICK unknown, unset, always, refused, unseen, null :
        /\ unknown = ~(DOMAIN fields \subseteq Names(r.columns))
        /\ unset = (op = "update" /\ fields = <<>>)
        /\ always = \E c \in Range(r.columns) : c.always /\ c.name \in DOMAIN fields
        /\ refused = ~MayRun(d, role, r, statement)
        /\ unseen = \E cmd \in {"select", Command[op]} : RlsRefuses(d, role, r, cmd)
        /\ null = LeavesNull(r, op, fields)
  OBVIOUS
<1>3. PICK gone, vetoed, hidden, broken :
        /\ gone = (op # "create" /\ (unseen \/ event = "gone"))
        /\ vetoed = (op # "get" /\ event = "vetoed") /\ hidden = (op = "create" /\ unseen)
        /\ broken = (op # "get" /\ event \in Broken)
  OBVIOUS
<1>4. PICK reasons : reasons = Reasons(d, role, r, statement)
  OBVIOUS
<1>5. PICK first : first = CHOOSE i \in DOMAIN reasons : reasons[i].of /\ \A j \in 1..(i - 1) : ~reasons[j].of
  OBVIOUS
<1>6. RunStatement(d, role, r, statement) = reasons[first].is
  BY <1>4, <1>5 DEF RunStatement
<1>7. DOMAIN reasons = 1..10
  BY <1>4 DEF Reasons
<1>8. /\ reasons[1].of <=> unknown
      /\ reasons[2].of <=> unset
      /\ reasons[3].of <=> always
      /\ reasons[4].of <=> refused
      /\ reasons[5].of <=> gone
  BY <1>1, <1>2, <1>3, <1>4 DEF Reasons
<1>9. /\ reasons[6].of <=> vetoed
      /\ reasons[7].of <=> hidden
      /\ reasons[8].of <=> null
      /\ reasons[9].of <=> broken
      /\ reasons[10].of
  BY <1>1, <1>2, <1>3, <1>4 DEF Reasons
<1>10. /\ reasons[1].is = "42703" /\ reasons[2].is = "42601" /\ reasons[3].is = "428C9"
      /\ reasons[4].is = "42501" /\ reasons[5].is = "no_row" /\ reasons[6].is = "no_row"
      /\ reasons[7].is = "42501" /\ reasons[8].is = "23502" /\ reasons[9].is = event
      /\ reasons[10].is = "row"
  BY <1>1, <1>4 DEF Reasons
<1>11. ASSUME NEW k \in 1..10, reasons[k].of, \A j \in 1..(k - 1) : ~reasons[j].of PROVE first = k
  BY <1>5, <1>7, <1>11, FirstReason
<1>12. /\ unknown => first = 1
       /\ ~unknown /\ unset => first = 2
       /\ ~unknown /\ ~unset /\ always => first = 3
       /\ ~unknown /\ ~unset /\ ~always /\ refused => first = 4
       /\ ~unknown /\ ~unset /\ ~always /\ ~refused /\ gone => first = 5
  BY <1>8, <1>11
<1>13. ASSUME ~unknown, ~unset, ~always, ~refused, ~gone
       PROVE  /\ vetoed => first = 6
              /\ ~vetoed /\ hidden => first = 7
              /\ ~vetoed /\ ~hidden /\ null => first = 8
              /\ ~vetoed /\ ~hidden /\ ~null /\ broken => first = 9
              /\ ~vetoed /\ ~hidden /\ ~null /\ ~broken => first = 10
  BY <1>8, <1>9, <1>11, <1>13
<1>14. reasons[first].is = Ending(unknown, unset, always, refused, unseen, null, op, event)
  BY <1>3, <1>10, <1>12, <1>13 DEF Ending
<1>. QED  BY <1>1, <1>2, <1>6, <1>14

RowOps == {"get", "create", "update", "delete"}

LEMMA OutcomesAnswered ==
    ASSUME NEW op \in RowOps
    PROVE  /\ AnswerTo(op, "row") = IF op = "create" THEN "created" ELSE "ok"
           /\ AnswerTo(op, "no_row") = IF op = "create" THEN "created" ELSE "not_found"
           /\ AnswerTo(op, "42501") = "forbidden"
           /\ \A x \in {"23505", "23503"} : AnswerTo(op, x) = "conflict"
           /\ \A x \in {"23502", "23514"} : AnswerTo(op, x) = "bad_request"
           /\ \A x \in {"42703", "42601", "428C9"} : AnswerTo(op, x) = "internal"
<1>1. DOMAIN Classified = {"42501", "23505", "23503", "23502", "23514"}
  BY DEF Classified
<1>2. /\ Classified["42501"] = "forbidden"
      /\ \A x \in {"23505", "23503"} : Classified[x] = "conflict"
      /\ \A x \in {"23502", "23514"} : Classified[x] = "bad_request"
  BY DEF Classified
<1>. QED  BY <1>1, <1>2 DEF AnswerTo

\* What is answered for the ways in which a statement ends that was built of
\* the columns of its table and sets something.
AnswersAreDue(op, outcome, status, always, hindered, event) ==
    LET done == {"ok", "created"}
    IN /\ outcome = "row" => status \in done
       /\ status = "conflict" => event \in {"23505", "23503"}
       /\ status \in done => outcome = "row" \/ event = "vetoed"
       /\ \/ status \in Responses(op)
          \/ status = "internal" /\ always
          \/ status = "bad_request" /\ op = "delete" /\ event = "23514"
       /\ ~always /\ ~hindered =>
            /\ event = "none" => outcome = "row"
            /\ event = "gone" /\ op # "create" => status = "not_found"
            /\ event \in {"23505", "23503"} /\ op # "get" => status = "conflict"
            /\ event = "42501" /\ op # "get" => status = "forbidden"
            /\ status # "internal"
EndsBy(op, event, always, refused, unseen, null, hindered, outcome) ==
    /\ op \in RowOps /\ {always, refused, unseen, null, hindered} \subseteq BOOLEAN
    /\ null => op \in {"create", "update"}
    /\ hindered <=> refused \/ unseen \/ null
    /\ outcome = Ending(FALSE, FALSE, always, refused, unseen, null, op, event)
LEMMA EndingsAreAnswered ==
    ASSUME NEW op, NEW event, NEW always, NEW refused, NEW unseen, NEW null, NEW hindered, NEW outcome,
           EndsBy(op, event, always, refused, unseen, null, hindered, outcome)
    PROVE  AnswersAreDue(op, outcome, AnswerTo(op, outcome), always, hindered, event)
<1>1. /\ op \in RowOps /\ (null => op \in {"create", "update"})
      /\ always \in BOOLEAN /\ refused \in BOOLEAN /\ unseen \in BOOLEAN /\ null \in BOOLEAN /\ hindered \in BOOLEAN
      /\ hindered <=> refused \/ unseen \/ null
      /\ outcome = Ending(FALSE, FALSE, always, refused, unseen, null, op, event)
  BY DEF EndsBy
<1>2. PICK status : status = AnswerTo(op, outcome)
  OBVIOUS
<1>3. \/ outcome = "428C9" /\ always
      \/ outcome = "42501" /\ ~always /\ (refused \/ (op = "create" /\ unseen))
      \/ outcome = "no_row" /\ ~always /\ op # "create" /\ (unseen \/ event = "gone")
      \/ outcome = "no_row" /\ ~always /\ op # "get" /\ event = "vetoed"
      \/ outcome = "23502" /\ null /\ ~always
      \/ outcome = event /\ event \in Broken /\ op # "get" /\ ~always
      \/ outcome = "row" /\ ~always /\ (op = "get" \/ event \notin Broken \cup {"vetoed"})
           /\ (op = "create" \/ event # "gone")
  <2>1. PICK gone \in BOOLEAN, vetoed \in BOOLEAN, hidden \in BOOLEAN, broken \in BOOLEAN :
          /\ gone <=> op # "create" /\ (unseen \/ event = "gone")
          /\ vetoed <=> op # "get" /\ event = "vetoed"
          /\ hidden <=> op = "create" /\ unseen
          /\ broken <=> op # "get" /\ event \in Broken
    BY <1>1
  <2>2. outcome = IF always THEN "428C9" ELSE IF refused THEN "42501" ELSE IF gone THEN "no_row"
                  ELSE IF vetoed THEN "no_row" ELSE IF hidden THEN "42501"
                  ELSE IF null THEN "23502" ELSE IF broken THEN event ELSE "row"
    BY <1>1, <2>1, Zenon DEF Ending
  <2>3. \/ outcome = "428C9" /\ always
        \/ outcome = "42501" /\ ~always /\ (refused \/ hidden)
        \/ outcome = "no_row" /\ ~always /\ gone
        \/ outcome = "no_row" /\ ~always /\ vetoed
        \/ outcome = "23502" /\ null /\ ~always
        \/ outcome = event /\ broken /\ ~always
        \/ outcome = "row" /\ ~always /\ ~broken /\ ~vetoed /\ ~gone
    BY <1>1, <2>2
  <2>. QED  BY <1>1, <2>1, <2>3
<1>4. /\ outcome = "row" => status = IF op = "create" THEN "created" ELSE "ok"
      /\ outcome = "no_row" => status = IF op = "create" THEN "created" ELSE "not_found"
      /\ outcome = "42501" => status = "forbidden"
      /\ outcome \in {"23505", "23503"} => status = "conflict"
      /\ outcome \in {"23502", "23514"} => status = "bad_request"
      /\ outcome = "428C9" => status = "internal"
  BY <1>1, <1>2, OutcomesAnswered
<1>5. /\ "forbidden" \in Responses(op) /\ (op = "create" => "created" \in Responses(op))
      /\ op # "create" => "ok" \in Responses(op) /\ "not_found" \in Responses(op)
      /\ op # "get" => "conflict" \in Responses(op)
      /\ op \in {"create", "update"} => "bad_request" \in Responses(op)
  BY <1>1 DEF Responses
<1>6. CASE outcome = "428C9" /\ always
  BY <1>1, <1>2, <1>4, <1>6 DEF AnswersAreDue
<1>7. CASE outcome = "42501" /\ ~always /\ (refused \/ (op = "create" /\ unseen))
  BY <1>1, <1>2, <1>4, <1>5, <1>7 DEF AnswersAreDue
<1>8. CASE outcome = "no_row" /\ ~always /\ op # "create" /\ (unseen \/ event = "gone")
  BY <1>1, <1>2, <1>4, <1>5, <1>8 DEF AnswersAreDue
<1>9. CASE outcome = "no_row" /\ ~always /\ op # "get" /\ event = "vetoed"
  BY <1>1, <1>2, <1>4, <1>5, <1>9 DEF AnswersAreDue
<1>10. CASE outcome = "23502" /\ null /\ ~always
  BY <1>1, <1>2, <1>4, <1>5, <1>10 DEF AnswersAreDue
<1>11. CASE outcome = event /\ event \in Broken /\ op # "get" /\ ~always
  BY <1>1, <1>2, <1>4, <1>5, <1>11 DEF AnswersAreDue, Broken, RowOps
<1>12. CASE outcome = "row" /\ ~always /\ (op = "get" \/ event \notin Broken \cup {"vetoed"})
              /\ (op = "create" \/ event # "gone")
  BY <1>1, <1>2, <1>4, <1>5, <1>12 DEF AnswersAreDue, Broken
<1>. QED  BY <1>1, <1>3, <1>6, <1>7, <1>8, <1>9, <1>10, <1>11, <1>12

\* What is told of a relation.
ToldOf(d, o, r, told) ==
    /\ told.found /\ told.privileges = RelationPrivileges(d, o.privilegeRole, r)
    /\ DOMAIN told.columns = DOMAIN r.columns
    /\ \A i \in DOMAIN r.columns :
         /\ told.columns[i].name = r.columns[i].name
         /\ told.columns[i].privileges = ColumnPrivileges(d, o.privilegeRole, r, r.columns[i])
LEMMA TableIsTold ==
    ASSUME NEW d, NEW o, NEW c, NEW r, NEW t \in c.tables, t.qualifiedName = Flat(r),
           \A x \in c.tables : x.qualifiedName = Flat(r) => TableOf(d, o, r, x)
    PROVE  ToldOf(d, o, r, DescribeTable(c, Flat(r)))
<1>1. PICK q, found, told, x : /\ q = Flat(r) /\ found = {y \in c.tables : y.qualifiedName = q}
                               /\ told = DescribeTable(c, q) /\ x = CHOOSE y \in found : TRUE
  OBVIOUS
<1>2. t \in found
  BY <1>1
<1>3. x \in found /\ found # {}
  BY <1>1, <1>2
<1>4. TableOf(d, o, r, x)
  BY <1>1, <1>3
<1>. HIDE DEF References
<1>. DEFINE Column(i) == [name |-> x.columns[i].name, privileges |-> x.columns[i].privileges,
                          isForeignKey |-> x.columns[i].isForeignKey,
                          references |-> References(x, x.columns[i].name)]
<1>5. told = [found |-> TRUE, privileges |-> x.privileges, rowSecurity |-> x.rowSecurity,
              policy |-> x.policy, columns |-> [i \in DOMAIN x.columns |-> Column(i)]]
  BY <1>1, <1>3 DEF DescribeTable
<1>6. \A i : Column(i).name = x.columns[i].name /\ Column(i).privileges = x.columns[i].privileges
  OBVIOUS
<1>. HIDE DEF Column
<1>7. told.found /\ told.columns = [i \in DOMAIN x.columns |-> Column(i)] /\ told.privileges = x.privileges
  BY <1>5
<1>8. DOMAIN x.columns = DOMAIN r.columns /\ \A i \in DOMAIN r.columns : x.columns[i].name = r.columns[i].name
  BY <1>4 DEF TableOf, ReadsColumns
<1>9. DOMAIN told.columns = DOMAIN r.columns
  BY <1>7, <1>8
<1>10. ASSUME NEW i \in DOMAIN r.columns
       PROVE  /\ told.columns[i].name = r.columns[i].name
              /\ told.columns[i].privileges = ColumnPrivileges(d, o.privilegeRole, r, r.columns[i])
  <2>1. told.columns[i] = Column(i)
    BY <1>7, <1>8
  <2>2. x.columns[i].privileges = ColumnPrivileges(d, o.privilegeRole, r, r.columns[i])
    BY <1>4 DEF TableOf
  <2>. QED  BY <1>6, <1>8, <2>1, <2>2
<1>11. told.privileges = RelationPrivileges(d, o.privilegeRole, r)
  BY <1>4, <1>7 DEF TableOf
<1>. QED  BY <1>1, <1>7, <1>9, <1>10, <1>11 DEF ToldOf

\* What a database and its compiled schema have in common of a table r.
Served(d, o, c, r) ==
    /\ r \in d.relations
    /\ \A x \in Resources(c) : x.qualifiedName = Flat(r) => Names(x.columns) = Names(r.columns)
    /\ \A t \in c.tables : t.qualifiedName = Flat(r) => ReadsColumns(t, r)
    /\ ToldOf(d, o, r, DescribeTable(c, Flat(r)))
LEMMA TableIsServed ==
    ASSUME NEW d, NEW o, {"schemas", "privilegeRole"} \subseteq DOMAIN o, NEW rpc, ListedKeys(d), Distinct(d),
           NEW c, c = Compilation(d, o, rpc),
           NEW x \in Resources(c), x.kind = "table" \/ x.primaryKey # <<>>
    PROVE  \E r \in d.relations : x.qualifiedName = Flat(r) /\ Served(d, o, c, r)
<1>1. \A v \in c.views : Resource("view", v).kind = "view" /\ Resource("view", v).primaryKey = <<>>
  BY DEF Resource
<1>2. PICK t \in c.tables : x = Resource("table", t)
  BY <1>1 DEF Resources
<1>3. \A y \in c.tables : \E r \in Introspected(d, o, TableKinds) : TableOf(d, o, r, y)
  <2>1. \A y \in Compilation(d, o, rpc).tables :
          \E r \in Introspected(d, o, TableKinds) : Shown(d, o, r) /\ TableOf(d, o, r, y)
    BY TablesOfContext
  <2>. QED  BY <2>1
<1>4. PICK r \in d.relations : r.kind \in TableKinds /\ TableOf(d, o, r, t)
  BY <1>3 DEF Introspected
<1>5. x.qualifiedName = Flat(r)
  BY <1>2, <1>4 DEF Resource, TableOf
<1>6. ASSUME NEW y \in c.tables, y.qualifiedName = Flat(r) PROVE TableOf(d, o, r, y)
  <2>1. PICK s \in d.relations : TableOf(d, o, s, y)
    BY <1>3 DEF Introspected
  <2>2. s = r
    BY <1>6, <2>1 DEF TableOf, Distinct
  <2>. QED  BY <2>1, <2>2
<1>7. ASSUME NEW v \in c.views, v.qualifiedName = Flat(r) PROVE FALSE
  <2>1. PICK s \in d.relations : s.kind \in ViewKinds /\ ViewOf(d, o, s, v)
    BY ViewsOfContext
  <2>2. s = r
    BY <1>7, <2>1 DEF ViewOf, Distinct
  <2>. QED  BY <1>4, <2>1, <2>2 DEF TableKinds, ViewKinds
<1>8. ASSUME NEW y \in Resources(c), y.qualifiedName = Flat(r) PROVE Names(y.columns) = Names(r.columns)
  <2>1. \A kind, z : Resource(kind, z).qualifiedName = z.qualifiedName /\ Resource(kind, z).columns = z.columns
    BY DEF Resource
  <2>2. PICK z \in c.tables : y.columns = z.columns /\ z.qualifiedName = Flat(r)
    BY <1>7, <1>8, <2>1 DEF Resources
  <2>3. ReadsColumns(z, r)
    BY <1>6, <2>2 DEF TableOf
  <2>. QED  BY <2>2, <2>3 DEF ReadsColumns, Names
<1>9. \A y \in c.tables : y.qualifiedName = Flat(r) => ReadsColumns(y, r)
  BY <1>6 DEF TableOf
<1>10. t.qualifiedName = Flat(r)
  BY <1>4 DEF TableOf
<1>11. ToldOf(d, o, r, DescribeTable(c, Flat(r)))
  BY <1>6, <1>10, TableIsTold
<1>. QED  BY <1>5, <1>8, <1>9, <1>11 DEF Served

\* No resource has the qualified name of no relation.
LEMMA ResourcesAreRelations ==
    ASSUME NEW d, NEW o, {"schemas", "privilegeRole"} \subseteq DOMAIN o, NEW rpc, ListedKeys(d),
           NEW name, \A r \in d.relations : Flat(r) # name
    PROVE  \A x \in Resources(Compilation(d, o, rpc)) : x.qualifiedName # name
<1>1. PICK c : c = Compilation(d, o, rpc)
  OBVIOUS
<1>2. \A t \in c.tables : \E r \in d.relations : t.qualifiedName = Flat(r)
  <2>1. \A t \in c.tables : \E r \in Introspected(d, o, TableKinds) : TableOf(d, o, r, t)
    BY <1>1, TablesOfContext
  <2>. QED  BY <2>1 DEF Introspected, TableOf
<1>3. \A v \in c.views : \E r \in d.relations : v.qualifiedName = Flat(r)
  <2>1. \A v \in c.views : \E r \in d.relations : ViewOf(d, o, r, v)
    BY <1>1, ViewsOfContext
  <2>. QED  BY <2>1 DEF ViewOf
<1>4. \A kind, z : Resource(kind, z).qualifiedName = z.qualifiedName
  BY DEF Resource
<1>5. \A x \in Resources(c) : \E r \in d.relations : x.qualifiedName = Flat(r)
  BY <1>2, <1>3, <1>4 DEF Resources
<1>. QED  BY <1>1, <1>5

Writes(op) == op \in {"create", "update"}

LEMMA ToldMayRun ==
    ASSUME NEW d, NEW o, NEW r, NEW told, ToldOf(d, o, r, told), NEW op \in RowOps, NEW role, NEW names,
           Permits(d, o, r, told, op, role, names),
           NEW statement, statement.op = op, Writes(op) => DOMAIN statement.fields = names
    PROVE  /\ MayRun(d, role, r, statement)
           /\ \A x \in {"select", Command[op]} : ~RlsRefuses(d, role, r, x)
<1>1. PICK cmd, columns : cmd = Command[op] /\ columns = Range(r.columns)
  OBVIOUS
<1>2. MayRun(d, role, r, statement) <=>
        /\ \A c \in columns : c.name \in statement.reads => MayWrite(d, role, r, c, "select")
        /\ \/ op = "get" \/ (op = "delete" /\ May(d, role, r, cmd))
           \/ /\ Writes(op)
              /\ \/ May(d, role, r, cmd)
                 \/ DOMAIN statement.fields = {} /\ \E c \in columns : MayWrite(d, role, r, c, cmd)
                 \/ /\ DOMAIN statement.fields # {}
                    /\ \A c \in columns : c.name \in DOMAIN statement.fields => MayWrite(d, role, r, c, cmd)
  <2>. HIDE DEF May, MayWrite, Command
  <2>1. CASE op = "get"
    BY <1>1, <2>1 DEF MayRun, Writes
  <2>2. CASE op = "delete"
    BY <1>1, <2>2 DEF MayRun, Writes
  <2>3. CASE Writes(op)
    BY <1>1, <2>3 DEF MayRun, Writes
  <2>. QED  BY <2>1, <2>2, <2>3 DEF RowOps, Writes
<1>3. CASE role \in d.superusers
  <2>1. \A x, c : May(d, role, r, x) /\ MayWrite(d, role, r, c, x)
    BY <1>3 DEF May, MayWrite, Reaches, Holds
  <2>2. \A x : ~RlsRefuses(d, role, r, x)
    BY <1>3 DEF RlsRefuses, RlsApplies
  <2>. QED  BY <1>2, <2>1, <2>2 DEF RowOps, Writes
<1>4. CASE role \notin d.superusers
  <2>1. /\ role = o.privilegeRole /\ "select" \in told.privileges.may
        /\ Writes(op) => \A c \in Range(told.columns) : c.name \in names => cmd \in c.privileges.may
        /\ Writes(op) /\ names = {} => \E c \in Range(told.columns) : cmd \in c.privileges.may
        /\ ~Writes(op) => cmd \in told.privileges.may
        /\ \A x \in {"select", cmd} : ~RlsRefuses(d, role, r, x)
    BY <1>1, <1>4 DEF Permits, Writes
  <2>2. role # NoRole
    <3>1. role = NoRole => RelationPrivileges(d, role, r).may = {}
      BY DEF RelationPrivileges, NotEvaluated
    <3>. QED  BY <2>1, <3>1 DEF ToldOf
  <2>3. \A x \in told.privileges.may : May(d, role, r, x)
    <3>1. told.privileges.may = {x \in Range(Commands) : May(d, role, r, x)}
      BY <2>1, <2>2, ToldPrivileges DEF ToldOf
    <3>. QED  BY <3>1
  <2>4. \A c \in columns : MayWrite(d, role, r, c, "select")
    <3>1. \A c : MayWrite(d, role, r, c, "select")
      BY <2>1, <2>3 DEF May, MayWrite, Holds
    <3>. QED  BY <3>1
  <2>5. \A i \in DOMAIN r.columns :
           /\ told.columns[i] \in Range(told.columns)
           /\ told.columns[i].name = r.columns[i].name
           /\ cmd \in told.columns[i].privileges.may => MayWrite(d, role, r, r.columns[i], cmd)
    <3>1. \A column : ColumnPrivileges(d, role, r, column).may
                         = {x \in {"insert", "update"} : MayWrite(d, role, r, column, x)}
      BY <2>2, ToldPrivileges
    <3>. QED  BY <2>1, <3>1 DEF ToldOf, Range
  <2>6. \A c \in Range(told.columns) : \E i \in DOMAIN r.columns : c = told.columns[i]
    BY DEF ToldOf, Range
  <2>7. Writes(op) => /\ \A c \in columns : c.name \in names => MayWrite(d, role, r, c, cmd)
                      /\ names = {} => \E c \in columns : MayWrite(d, role, r, c, cmd)
    <3>. HIDE DEF MayWrite, ToldOf
    <3>1. \A c \in columns : \E i \in DOMAIN r.columns : c = r.columns[i]
      BY <1>1 DEF Range
    <3>2. \A i \in DOMAIN r.columns : r.columns[i] \in columns
      BY <1>1 DEF Range
    <3>. QED  BY <2>1, <2>5, <2>6, <3>1, <3>2
  <2>8. op = "delete" => May(d, role, r, cmd)
    BY <2>1, <2>3 DEF Writes
  <2>. QED  BY <1>1, <1>2, <2>1, <2>4, <2>7, <2>8 DEF RowOps, Writes
<1>. QED  BY <1>3, <1>4

\* A body that the document allows fits its table and leaves nothing out.
LEMMA ValidBodiesFit ==
    ASSUME NEW t, NEW r, ReadsColumns(t, r), NEW op, Writes(op), NEW body, body.form = "object",
           MatchesInputSchema(t, op, body.fields)
    PROVE  /\ DOMAIN body.fields \subseteq Names(r.columns) /\ (op = "update" => DOMAIN body.fields # {})
           /\ ~LeavesNull(r, op, body.fields)
<1>1. PICK fields : fields = body.fields
  OBVIOUS
<1>2. /\ DOMAIN fields \subseteq Names(t.columns) /\ (op = "update" => DOMAIN fields # {})
      /\ \A i \in DOMAIN t.columns : t.columns[i].name \in DOMAIN fields =>
            t.columns[i].nullable \/ fields[t.columns[i].name] # "null"
      /\ op = "create" => \A i \in DOMAIN t.columns :
            ~t.columns[i].nullable /\ ~t.columns[i].hasDefault => t.columns[i].name \in DOMAIN fields
  BY <1>1 DEF MatchesInputSchema, RequiredOnCreate, Range
<1>3. Names(t.columns) = Names(r.columns)
  BY DEF ReadsColumns, Names
<1>4. ASSUME NEW i \in DOMAIN r.columns, NEW c, c = r.columns[i], c.notNull
      PROVE  /\ c.name \in DOMAIN fields => fields[c.name] # "null"
             /\ c.name \notin DOMAIN fields /\ op = "create" => MayBeOmitted(c)
  <2>1. /\ i \in DOMAIN t.columns /\ t.columns[i].name = c.name /\ ~t.columns[i].nullable
        /\ t.columns[i].hasDefault <=> c.default
    BY <1>4 DEF ReadsColumns
  <2>. QED  BY <1>2, <2>1 DEF MayBeOmitted
<1>5. ~LeavesNull(r, op, fields)
  <2>1. \A c \in Range(r.columns) : \E i \in DOMAIN r.columns : c = r.columns[i]
    BY DEF Range
  <2>. QED  BY <1>4, <2>1 DEF LeavesNull
<1>. QED  BY <1>1, <1>2, <1>3, <1>5

\* A body of a request, and what PostgreSQL is given of it.
Fits(op, body, names) ==
    Writes(op) => /\ body.form = "object" /\ DOMAIN body.fields \subseteq names
                  /\ op = "update" => DOMAIN body.fields # {}
Stated(op, body, event, statement) ==
    /\ statement.op = op /\ statement.event = event
    /\ statement.fields = IF Writes(op) THEN body.fields ELSE <<>>
Dispatched(d, r, op, q, read, result) ==
    /\ read # "read" => result.status = read /\ result.row = FALSE
    /\ read = "read" /\ ~Fits(op, q.body, Names(r.columns)) =>
         result.status = "bad_request" /\ result.row = FALSE
    /\ read = "read" /\ Fits(op, q.body, Names(r.columns)) =>
         \E statement : \E outcome :
            /\ Stated(op, q.body, q.event, statement)
            /\ outcome = RunStatement(d, q.role, r, statement)
            /\ result.status = AnswerTo(op, outcome) /\ result.row = (outcome = "row")
LEMMA RowIsDispatched ==
    ASSUME NEW d, NEW o, NEW c, Distinct(d), NEW r, Served(d, o, c, r),
           NEW x \in Resources(c), x.qualifiedName = Flat(r),
           NEW op, NEW request, Route(c, request) = Outcome("ok", op, Flat(r)),
           NEW read, read = ReadJsonBody(request.body.form),
           NEW result, result = Dispatch(d, c, request)
    PROVE  Dispatched(d, r, op, request, read, result)
<1>1. PICK routed, resource, relation, body, q :
        /\ routed = Route(c, request) /\ body = request.body /\ q = Flat(r)
        /\ resource = CHOOSE y \in Resources(c) : y.qualifiedName = q
        /\ relation = CHOOSE y \in d.relations : Flat(y) = q
  OBVIOUS
<1>2. routed.op = op /\ routed.on = q /\ routed.status = "ok"
  BY <1>1 DEF Outcome
<1>3. relation = r
  BY <1>1 DEF Served, Distinct
<1>4. Names(resource.columns) = Names(r.columns)
  <2>1. resource \in Resources(c) /\ resource.qualifiedName = q
    BY <1>1
  <2>. QED  BY <1>1, <2>1 DEF Served
<1>5. PICK statement : statement = [op |-> op, fields |-> IF op \in {"create", "update"} THEN body.fields ELSE <<>>,
                                    reads |-> Names(relation.columns), event |-> request.event]
  OBVIOUS
<1>6. PICK outcome : outcome = RunStatement(d, request.role, relation, statement)
  OBVIOUS
<1>. HIDE DEF Route, RunStatement, AnswerTo, BodyFits, ReadJsonBody, Names, Resources, Flat
<1>7. ServeRow(d, resource, relation, op, request) =
        IF BodyFits(resource, op, body) THEN [status |-> AnswerTo(op, outcome), row |-> outcome = "row"]
        ELSE Unrun("bad_request")
  BY <1>1, <1>5, <1>6 DEF ServeRow
<1>8. result = IF read # "read" THEN Unrun(read) ELSE ServeRow(d, resource, relation, op, request)
  <2>1. result = IF ReadJsonBody(request.body.form) # "read" THEN Unrun(ReadJsonBody(request.body.form))
                 ELSE IF Route(c, request).status # "ok" THEN Unrun(Route(c, request).status)
                 ELSE ServeRow(d, CHOOSE y \in Resources(c) : y.qualifiedName = Route(c, request).on,
                               CHOOSE y \in d.relations : Flat(y) = Route(c, request).on,
                               Route(c, request).op, request)
    BY Zenon DEF Dispatch
  <2>2. /\ (CHOOSE y \in Resources(c) : y.qualifiedName = Route(c, request).on) = resource
        /\ (CHOOSE y \in d.relations : Flat(y) = Route(c, request).on) = relation
    BY <1>1, <1>2
  <2>. QED  BY <1>1, <1>2, <2>1, <2>2
<1>9. BodyFits(resource, op, body) <=> Fits(op, body, Names(r.columns))
  BY <1>4 DEF BodyFits, Fits, Writes
<1>10. Stated(op, body, request.event, statement)
  BY <1>5 DEF Stated, Writes
<1>. HIDE DEF Fits, Stated
<1>11. \A s : Unrun(s).status = s /\ Unrun(s).row = FALSE
  BY DEF Unrun
<1>12. read # "read" => result.status = read /\ result.row = FALSE
  BY <1>8, <1>11
<1>13. read = "read" /\ ~Fits(op, body, Names(r.columns)) => result.status = "bad_request" /\ result.row = FALSE
  BY <1>7, <1>8, <1>9, <1>11
<1>14. ASSUME read = "read", Fits(op, body, Names(r.columns))
       PROVE  result.status = AnswerTo(op, outcome) /\ result.row = (outcome = "row")
  BY <1>7, <1>8, <1>9, <1>14
<1>15. outcome = RunStatement(d, request.role, r, statement)
  BY <1>3, <1>6
<1>. QED  BY <1>1, <1>10, <1>12, <1>13, <1>14, <1>15 DEF Dispatched

\* A request for a row is answered as its document, and as describe_table, say.
LEMMA RowsAreFaithful ==
    ASSUME NEW d, NEW o, NEW c, Distinct(d), NEW r, Served(d, o, c, r),
           NEW x \in Resources(c), x.qualifiedName = Flat(r),
           NEW op \in RowOps, NEW q, Route(c, q) = Outcome("ok", op, Flat(r)),
           NEW result, result = Dispatch(d, c, q)
    PROVE  RowIsFaithful(d, o, c, r, op, q, result)
<1>1. PICK read, body, names, told, fields, row :
        /\ read = ReadJsonBody(q.body.form) /\ body = q.body /\ names = Names(r.columns)
        /\ told = DescribeTable(c, Flat(r)) /\ fields = DOMAIN body.fields /\ row = result.row
  OBVIOUS
<1>2. PICK always \in BOOLEAN, unread \in BOOLEAN, may \in BOOLEAN, valid \in BOOLEAN :
        /\ always <=> Writes(op) /\ \E y \in Range(r.columns) : y.always /\ y.name \in fields
        /\ unread <=> body.form \in {"too_large", "other_media", "garbled"}
        /\ may <=> Permits(d, o, r, told, op, q.role, fields)
        /\ valid <=> Documents(c, r, op, body)
  OBVIOUS
<1>3. read = "read" <=> ~unread
  BY <1>1, <1>2 DEF ReadJsonBody
<1>4. read \in {"payload_too_large", "unsupported_media_type", "bad_request", "read"}
  BY <1>1 DEF ReadJsonBody
<1>5. valid => ~unread /\ Fits(op, body, names)
  <2>1. CASE ~Writes(op)
    BY <1>2, <2>1 DEF Documents, Fits
  <2>2. CASE Writes(op) /\ valid
    <3>1. PICK t \in c.tables : /\ t.qualifiedName = Flat(r) /\ body.form = "object"
                                /\ MatchesInputSchema(t, op, body.fields)
      BY <1>2, <2>2 DEF Documents, Writes
    <3>2. ReadsColumns(t, r)
      BY <3>1 DEF Served
    <3>. QED  BY <1>1, <1>2, <2>2, <3>1, <3>2, ValidBodiesFit DEF Fits
  <2>. QED  BY <2>1, <2>2
<1>6. Dispatched(d, r, op, q, read, result)
  BY <1>1, RowIsDispatched
<1>7. CASE unread \/ ~Fits(op, body, names)
  <2>1. /\ unread => result.status = read /\ row = FALSE
        /\ ~unread => result.status = "bad_request" /\ row = FALSE
    BY <1>1, <1>3, <1>7, <1>6 DEF Dispatched
  <2>2. ~unread => "bad_request" \in Responses(op)
    BY <1>7 DEF Fits, Writes, Responses
  <2>. QED  BY <1>1, <1>2, <1>3, <1>4, <1>5, <1>7, <2>1, <2>2 DEF RowIsFaithful
<1>8. CASE ~unread /\ Fits(op, body, names)
  <2>1. PICK statement, outcome :
          /\ Stated(op, body, q.event, statement)
          /\ outcome = RunStatement(d, q.role, r, statement)
          /\ result.status = AnswerTo(op, outcome) /\ row = (outcome = "row")
    BY <1>1, <1>3, <1>8, <1>6 DEF Dispatched
  <2>2. PICK sent : sent = statement.fields
    OBVIOUS
  <2>3. PICK refused \in BOOLEAN : refused <=> ~MayRun(d, q.role, r, statement)
    OBVIOUS
  <2>4. PICK unseen \in BOOLEAN : unseen <=> \E cmd \in {"select", Command[op]} : RlsRefuses(d, q.role, r, cmd)
    OBVIOUS
  <2>5. PICK null \in BOOLEAN : null <=> LeavesNull(r, op, sent)
    OBVIOUS
  <2>6. PICK hindered \in BOOLEAN : hindered <=> refused \/ unseen \/ null
    OBVIOUS
  <2>7. sent = IF Writes(op) THEN body.fields ELSE <<>>
    BY <2>1, <2>2 DEF Stated
  <2>8. DOMAIN sent \subseteq names /\ ~(op = "update" /\ sent = <<>>)
    BY <1>8, <2>7 DEF Fits, Writes
  <2>9. always <=> \E y \in Range(r.columns) : y.always /\ y.name \in DOMAIN sent
    BY <1>1, <1>2, <2>7
  <2>10. null => op \in {"create", "update"}
    BY <2>7, <2>5 DEF LeavesNull, Writes
  <2>11. PICK event : event = q.event
    OBVIOUS
  <2>12. outcome = Ending(FALSE, FALSE, always, refused, unseen, null, op, event)
    <3>1. op = statement.op /\ sent = statement.fields /\ event = statement.event
      BY <2>1, <2>2, <2>11 DEF Stated
    <3>2. outcome = Ending(~(DOMAIN sent \subseteq Names(r.columns)), op = "update" /\ sent = <<>>,
                           \E y \in Range(r.columns) : y.always /\ y.name \in DOMAIN sent,
                           ~MayRun(d, q.role, r, statement),
                           \E cmd \in {"select", Command[op]} : RlsRefuses(d, q.role, r, cmd),
                           LeavesNull(r, op, sent), op, event)
      BY <2>1, <3>1, StatementEnds
    <3>. QED  BY <1>1, <2>8, <2>9, <2>3, <2>4, <2>5, <3>2, Zenon DEF Ending
  <2>13. AnswersAreDue(op, outcome, AnswerTo(op, outcome), always, hindered, event)
    <3>1. EndsBy(op, event, always, refused, unseen, null, hindered, outcome)
      BY <2>10, <2>12, <2>6 DEF EndsBy
    <3>. QED  BY <3>1, EndingsAreAnswered
  <2>14. valid /\ may => ~refused /\ ~unseen /\ ~null
    <3>1. Writes(op) => DOMAIN sent = fields
      BY <1>1, <2>7
    <3>2. ToldOf(d, o, r, told)
      BY <1>1 DEF Served
    <3>3. may => ~refused /\ ~unseen
      <4>1. ASSUME may PROVE /\ MayRun(d, q.role, r, statement)
                             /\ \A cmd \in {"select", Command[op]} : ~RlsRefuses(d, q.role, r, cmd)
        <5>1. PICK role : role = q.role
          OBVIOUS
        <5>2. Permits(d, o, r, told, op, role, fields)
          BY <1>2, <4>1, <5>1
        <5>3. statement.op = op /\ (Writes(op) => DOMAIN statement.fields = fields)
          BY <2>1, <2>2, <3>1 DEF Stated
        <5>. QED  BY <3>2, <5>1, <5>2, <5>3, ToldMayRun
      <4>. QED  BY <2>3, <2>4, <4>1
    <3>4. valid => ~null
      <4>1. CASE ~Writes(op)
        BY <2>10, <4>1 DEF Writes
      <4>2. CASE Writes(op) /\ valid
        <5>1. PICK t \in c.tables : /\ t.qualifiedName = Flat(r) /\ body.form = "object"
                                    /\ MatchesInputSchema(t, op, body.fields)
          BY <1>1, <1>2, <4>2 DEF Documents, Writes
        <5>2. ReadsColumns(t, r)
          BY <5>1 DEF Served
        <5>3. ~LeavesNull(r, op, body.fields)
          BY <4>2, <5>1, <5>2, ValidBodiesFit
        <5>. QED  BY <2>7, <2>5, <4>2, <5>3
      <4>. QED  BY <4>1, <4>2
    <3>. QED  BY <3>3, <3>4
  <2>15. Writes(op) => body.form = "object"
    BY <1>8 DEF Fits
  <2>16. always => Writes(op)
    BY <1>2
  <2>. QED  BY <1>1, <1>2, <1>8, <2>1, <2>13, <2>14, <2>6, <2>11, <2>15, <2>16 DEF RowIsFaithful, AnswersAreDue, Writes
<1>. QED  BY <1>7, <1>8

\* What is not routed is not run.
LEMMA UnroutedIsRefused ==
    ASSUME NEW d, NEW c, NEW q, Route(c, q).status \in {"not_found", "method_not_allowed", "bad_request"},
           NEW result, result = Dispatch(d, c, q)
    PROVE  result.status \notin {"ok", "created", "internal", "forbidden"} /\ ~result.row
<1>1. PICK read, status : read = ReadJsonBody(q.body.form) /\ status = Route(c, q).status
  OBVIOUS
<1>2. read \in {"payload_too_large", "unsupported_media_type", "bad_request", "read"}
  BY <1>1 DEF ReadJsonBody
<1>3. status # "ok" /\ status \notin {"ok", "created", "internal", "forbidden"}
  BY <1>1
<1>. HIDE DEF Route, ReadJsonBody, ServeRow, Resources, Flat
<1>4. result = IF read # "read" THEN Unrun(read) ELSE Unrun(status)
  BY <1>1, <1>3, Zenon DEF Dispatch
<1>5. \A x : Unrun(x).status = x /\ Unrun(x).row = FALSE
  BY DEF Unrun
<1>. QED  BY <1>2, <1>3, <1>4, <1>5

LEMMA WritesFaithful ==
    ASSUME ContextInv, AnswerInv PROVE WritesAreFaithful
<1>. SUFFICES ASSUME Answered("write"), NamesDiffer, Addressable(answer.question.segments)
              PROVE  WritesAreFaithful
  BY DEF WritesAreFaithful
<1>1. PICK cat \in Catalogs : cat = catalog
  BY DEF ContextInv
<1>2. PICK d, o, c, q, result, s, rpc :
        /\ d = db /\ o = opts /\ c = ctx /\ q = answer.question /\ result = answer.result
        /\ s = q.segments /\ rpc = cat.rpc
  OBVIOUS
<1>3. d = cat.db /\ o = cat.opts
  BY <1>1, <1>2 DEF db, opts
<1>4. {"schemas", "privilegeRole"} \subseteq DOMAIN o /\ ListedKeys(d)
  BY <1>3, CatalogsAssumption DEF ListedKeys
<1>5. c = Compilation(d, o, rpc)
  <2>1. phase = "compiled"
    BY DEF AnswerInv, Answered
  <2>. QED  BY <1>1, <1>2, <2>1 DEF ContextInv, Compilation
<1>6. ForRow(q.method, s) /\ ~q.options /\ result = Dispatch(d, c, q)
  BY <1>2 DEF AnswerInv, Told, Answered, db
<1>7. Distinct(d)
  BY <1>2 DEF Distinct, NamesDiffer, RelationsNamed
<1>8. /\ s[1] # <<"openapi", "json">> /\ (Len(s) = 2 => s[1] # <<"rpc">>)
      /\ \A r \in d.relations : Flat(r) # s[1]
  BY <1>2 DEF Addressable, RelationsNamed
<1>9. \A x \in Resources(c) : x.qualifiedName # s[1]
  BY <1>4, <1>5, <1>8, ResourcesAreRelations
<1>10. PICK routes : routes = {x \in Paths(c) : x.request.method = q.method
                                 /\ x.request.segments = s /\ ~x.request.options}
  OBVIOUS
<1>11. PICK documented, r :
         documented = (CHOOSE x \in routes : TRUE) /\ r = CHOOSE x \in d.relations : Flat(x) = documented.on
  OBVIOUS
<1>12. \/ routes = {} /\ Route(c, q).status \in {"not_found", "method_not_allowed", "bad_request"}
       \/ \E x \in Resources(c) : \E op, items :
            /\ Serves(x, q.method, items, op) /\ Route(c, q) = Outcome("ok", op, x.qualifiedName)
            /\ routes = {Documented(q.method, s, FALSE, op, x.qualifiedName)}
  <2>1. RowIsRouted(c, q, s, routes)
    BY <1>2, <1>6, <1>8, <1>9, <1>10, RowRoutes
  <2>. QED  BY <2>1 DEF RowIsRouted
<1>13. CASE routes = {} /\ Route(c, q).status \in {"not_found", "method_not_allowed", "bad_request"}
  <2>1. result.status \notin {"ok", "created", "internal", "forbidden"} /\ ~result.row
    BY <1>6, <1>13, UnroutedIsRefused
  <2>. QED  BY <1>2, <1>10, <1>13, <2>1, Zenon DEF WritesAreFaithful
<1>14. ASSUME NEW x \in Resources(c), NEW op, NEW items, Serves(x, q.method, items, op),
              Route(c, q) = Outcome("ok", op, x.qualifiedName),
              routes = {Documented(q.method, s, FALSE, op, x.qualifiedName)}
       PROVE  WritesAreFaithful
  <2>1. op \in RowOps /\ (x.kind = "table" \/ x.primaryKey # <<>>)
    BY <1>14 DEF Serves, RowOps
  <2>2. PICK t \in d.relations : x.qualifiedName = Flat(t) /\ Served(d, o, c, t)
    BY <1>4, <1>5, <1>7, <2>1, TableIsServed
  <2>3. routes # {} /\ documented.op = op /\ documented.on = Flat(t)
    <3>1. documented = Documented(q.method, s, FALSE, op, Flat(t)) /\ routes # {}
      BY <1>11, <1>14, <2>2
    <3>. QED  BY <3>1 DEF Documented
  <2>4. r = t
    BY <1>7, <1>11, <2>3 DEF Distinct
  <2>5. RowIsFaithful(d, o, c, t, op, q, result)
    BY <1>6, <1>7, <1>14, <2>1, <2>2, RowsAreFaithful
  <2>6. RowIsFaithful(d, o, c, r, documented.op, q, result)
    BY <2>3, <2>4, <2>5
  <2>. QED  BY <1>2, <1>10, <1>11, <2>3, <2>6, Zenon DEF WritesAreFaithful
<1>. QED  BY <1>12, <1>13, <1>14

-----------------------------------------------------------------------------
(* What is embedded. *)

\* A node is put below the root, or below a relation with the name of the hop
\* before it, under a key that is none of its columns.
NodeOf(rs, root, n) ==
    /\ IsList(n.at) /\ Len(n.at) \in 1..MaxEmbedDepth
    /\ \E p \in rs :
         /\ p.kind # "view" /\ n.key \notin Names(p.columns)
         /\ IF Len(n.at) = 1 THEN p = root ELSE p.qualifiedName = n.at[Len(n.at) - 1][2]

Beside(m, n) == Front(m.at) = Front(n.at) => m.key # n.key /\ m.at # n.at

\* What is embedded after some segments, k of them of the current path.
EmbeddedBy(rs, root, spec, k) ==
    /\ DOMAIN spec = {"ok", "nodes", "parent", "at"}
    /\ IsList(spec.nodes) /\ Len(spec.nodes) \in 0..MaxEmbedRelations
    /\ \A i \in DOMAIN spec.nodes : NodeOf(rs, root, spec.nodes[i])
    /\ \A i, j \in DOMAIN spec.nodes : i # j => Beside(spec.nodes[i], spec.nodes[j])
    /\ spec.parent \in rs /\ IsList(spec.at) /\ Len(spec.at) <= k
    /\ IF Len(spec.at) = 0 THEN spec.parent = root
       ELSE spec.parent.qualifiedName = spec.at[Len(spec.at)][2]

\* A list that grows at its end.
LEMMA HopAppended ==
    ASSUME NEW s, IsList(s), NEW e
    PROVE  /\ IsList(Append(s, e)) /\ Len(s) \in Nat /\ Len(Append(s, e)) = Len(s) + 1
           /\ Append(s, e)[Len(s) + 1] = e /\ Front(Append(s, e)) = s
           /\ \A i \in 1..Len(s) : Append(s, e)[i] = s[i]
           /\ DOMAIN s = 1..Len(s) /\ DOMAIN Append(s, e) = 1..(Len(s) + 1)
<1>1. PICK S : S = Range(s) \cup {e}
  OBVIOUS
<1>2. s \in Seq(S) /\ e \in S
  <2>1. s \in Seq(Range(s)) /\ Range(s) \subseteq S
    BY <1>1 DEF IsList
  <2>. QED  BY <1>1, <2>1, SeqMonotonic
<1>3. PICK t : t = Append(s, e)
  OBVIOUS
<1>4. /\ t \in Seq(S) /\ Len(s) \in Nat /\ Len(t) = Len(s) + 1 /\ t[Len(s) + 1] = e
      /\ \A i \in 1..Len(s) : t[i] = s[i]
      /\ DOMAIN s = 1..Len(s) /\ DOMAIN t = 1..(Len(s) + 1)
  BY <1>2, <1>3, AppendProperties, LenProperties
<1>5. t \in Seq(Range(t))
  <2>1. DOMAIN t = 1..Len(t) /\ Len(t) \in Nat
    BY <1>4, LenProperties
  <2>2. t = [i \in 1..Len(t) |-> t[i]]
    BY <1>4, LenProperties
  <2>3. \A i \in 1..Len(t) : t[i] \in Range(t)
    BY <2>1 DEF Range
  <2>4. t \in [1..Len(t) -> Range(t)]
    BY <2>2, <2>3
  <2>. QED  BY <2>1, <2>4, SeqDef
<1>6. Front(t) = s
  <2>1. Front(t) = SubSeq(t, 1, Len(s))
    BY <1>4 DEF Front
  <2>2. Front(t) = [i \in 1..Len(s) |-> t[i]]
    BY <1>4, <2>1
  <2>3. s = [i \in 1..Len(s) |-> s[i]]
    BY <1>2, LenProperties
  <2>. QED  BY <1>4, <2>2, <2>3
<1>. QED  BY <1>3, <1>4, <1>5, <1>6 DEF IsList

\* What is selected is a relation that is there.
LEMMA SelectedIsThere ==
    ASSUME NEW rs, NEW parent, NEW selector, NEW n \in ResolveSegment(rs, parent, selector)
    PROVE  n.target \in rs
<1>1. PICK forward, reverse : /\ forward = MatchForward(parent, selector)
                              /\ reverse = MatchReverse(rs, parent, selector)
  OBVIOUS
<1>2. \/ n \in {[kind |-> "to-one", relation |-> forward[1], target |-> t] :
                   t \in Resolve(rs, Target(forward[1]))}
      \/ n \in {[kind |-> "to-many", relation |-> e.relation, target |-> e.child] : e \in reverse}
  BY <1>1 DEF ResolveSegment
<1>3. \A name : Resolve(rs, name) \subseteq rs
  <2>. SUFFICES ASSUME NEW name PROVE Resolve(rs, name) \subseteq rs
    OBVIOUS
  <2>1. PICK exact, bare : /\ exact = {r \in rs : r.qualifiedName = name}
                           /\ bare = {r \in rs : r.name = name}
    OBVIOUS
  <2>2. Resolve(rs, name) = IF exact # {} THEN {CHOOSE r \in exact : TRUE} ELSE {r \in bare : bare = {r}}
    BY <2>1 DEF Resolve
  <2>. QED  BY <2>1, <2>2
<1>4. \A e \in reverse : e.child \in rs
  BY <1>1 DEF MatchReverse, ReverseRelations
<1>. QED  BY <1>2, <1>3, <1>4

\* A key that is chosen is no column of the parent and not in use beside it.
LEMMA KeyIsFree ==
    ASSUME NEW node, NEW siblings, NEW parent, ChooseKey(node, siblings, parent) # NoKey
    PROVE  /\ ChooseKey(node, siblings, parent) \notin Names(parent.columns)
           /\ \A s \in siblings : s.key # ChooseKey(node, siblings, parent)
<1>1. PICK name, field, taken, columns :
         /\ name = node.target.name /\ field = node.relation.fields[1]
         /\ taken = {s.key : s \in siblings} /\ columns = Names(parent.columns)
  OBVIOUS
<1>2. PICK key : key = ChooseKey(node, siblings, parent)
  OBVIOUS
<1>3. key = PickEmbedKey(name, field, taken, columns)
  BY <1>1, <1>2 DEF ChooseKey
<1>4. key \notin taken \cup columns
  BY <1>2, <1>3 DEF PickEmbedKey
<1>. QED  BY <1>1, <1>2, <1>4

\* A node whose place and key are free is put beside the others.
LEMMA NodesGrow ==
    ASSUME NEW rs, NEW root, NEW spec, NEW k \in Nat, EmbeddedBy(rs, root, spec, k),
           Len(spec.nodes) < MaxEmbedRelations, Len(spec.at) < MaxEmbedDepth, NEW hop, NEW key,
           key \notin Names(spec.parent.columns), spec.parent.kind # "view",
           \A n \in {x \in Range(spec.nodes) : Front(x.at) = spec.at} :
               n.at # Append(spec.at, hop) /\ n.key # key,
           NEW nodes, nodes = Append(spec.nodes, [at |-> Append(spec.at, hop), key |-> key])
    PROVE  /\ IsList(nodes) /\ Len(nodes) \in 0..MaxEmbedRelations
           /\ \A i \in DOMAIN nodes : NodeOf(rs, root, nodes[i])
           /\ \A i, j \in DOMAIN nodes : i # j => Beside(nodes[i], nodes[j])
<1>1. PICK m, node, old, at, p : /\ m = Len(spec.nodes) /\ node = [at |-> Append(spec.at, hop), key |-> key]
                                 /\ old = spec.nodes /\ at = spec.at /\ p = spec.parent
  OBVIOUS
<1>2. /\ IsList(old) /\ m \in 0..MaxEmbedRelations
      /\ \A i \in DOMAIN old : NodeOf(rs, root, old[i])
      /\ \A i, j \in DOMAIN old : i # j => Beside(old[i], old[j])
      /\ p \in rs /\ IsList(at)
      /\ IF Len(at) = 0 THEN p = root ELSE p.qualifiedName = at[Len(at)][2]
  BY <1>1 DEF EmbeddedBy
<1>3. m < MaxEmbedRelations /\ Len(at) < MaxEmbedDepth
  BY <1>1
<1>4. /\ DOMAIN old = 1..m /\ m \in Nat
      /\ DOMAIN nodes = 1..(m + 1) /\ Len(nodes) = m + 1 /\ nodes[m + 1] = node
      /\ \A i \in 1..m : nodes[i] = old[i]
      /\ IsList(nodes)
  BY <1>1, <1>2, HopAppended
<1>5. /\ IsList(node.at) /\ Len(at) \in Nat /\ Len(node.at) = Len(at) + 1 /\ Front(node.at) = at
      /\ \A i \in 1..Len(at) : node.at[i] = at[i]
  BY <1>1, <1>2, HopAppended
<1>6. node.key = key /\ key \notin Names(p.columns) /\ p.kind # "view"
  BY <1>1
<1>7. NodeOf(rs, root, node)
  <2>1. Len(node.at) \in 1..MaxEmbedDepth
    BY <1>5, <1>3, EmbedAssumption
  <2>2. IF Len(node.at) = 1 THEN p = root ELSE p.qualifiedName = node.at[Len(node.at) - 1][2]
    <3>1. CASE Len(at) = 0
      BY <1>2, <1>5, <3>1
    <3>2. CASE Len(at) # 0
      <4>1. Len(at) \in 1..Len(at) /\ Len(node.at) - 1 = Len(at) /\ Len(node.at) # 1
        BY <1>5, <3>2
      <4>. QED  BY <1>2, <1>5, <3>2, <4>1
    <3>. QED  BY <3>1, <3>2
  <2>. QED  BY <1>2, <1>5, <1>6, <2>1, <2>2 DEF NodeOf
<1>8. ASSUME NEW i \in 1..m PROVE Beside(old[i], node) /\ Beside(node, old[i])
  <2>1. old[i] \in Range(old)
    BY <1>4 DEF Range
  <2>2. Front(old[i].at) = at => old[i].at # node.at /\ old[i].key # node.key
    BY <1>1, <1>6, <2>1
  <2>. QED  BY <1>5, <2>2 DEF Beside
<1>9. \A i \in 1..(m + 1) : i \in 1..m \/ i = m + 1
  BY <1>4
<1>10. \A i \in 1..(m + 1) : NodeOf(rs, root, nodes[i])
  BY <1>2, <1>4, <1>7, <1>9
<1>11. \A i, j \in 1..(m + 1) : i # j => Beside(nodes[i], nodes[j])
  BY <1>2, <1>4, <1>8, <1>9
<1>12. Len(nodes) \in 0..MaxEmbedRelations
  BY <1>4, <1>3, EmbedAssumption
<1>. QED  BY <1>4, <1>10, <1>11, <1>12

\* insertPath, segment by segment, and path by path.
LEMMA SegmentInserted ==
    ASSUME NEW rs, NEW root, NEW spec, NEW k \in Nat, k < MaxEmbedDepth,
           EmbeddedBy(rs, root, spec, k), NEW selector
    PROVE  EmbeddedBy(rs, root, InsertSegment(rs, spec, selector), k + 1)
<1>1. PICK found, node : /\ found = ResolveSegment(rs, spec.parent, selector)
                         /\ node = CHOOSE n \in found : TRUE
  OBVIOUS
<1>2. PICK hop, at, siblings, key :
         /\ hop = <<node.kind, node.target.qualifiedName, node.relation.fields>>
         /\ at = Append(spec.at, hop)
         /\ siblings = {n \in Range(spec.nodes) : Front(n.at) = spec.at}
         /\ key = ChooseKey(node, siblings, spec.parent)
  OBVIOUS
<1>3. PICK rejected, moved, grown :
         /\ rejected = [spec EXCEPT !.ok = FALSE]
         /\ moved = [spec EXCEPT !.parent = node.target, !.at = at]
         /\ grown = [moved EXCEPT !.nodes = Append(@, [at |-> at, key |-> key])]
  OBVIOUS
<1>4. InsertSegment(rs, spec, selector) =
        IF ~spec.ok \/ found = {} THEN rejected
        ELSE IF \E n \in siblings : n.at = at THEN moved
        ELSE IF Len(spec.nodes) >= MaxEmbedRelations \/ key = NoKey THEN rejected
        ELSE grown
  BY <1>1, <1>2, <1>3, Zenon DEF InsertSegment
<1>5. DOMAIN spec = {"ok", "nodes", "parent", "at"}
  BY DEF EmbeddedBy
<1>6. EmbeddedBy(rs, root, rejected, k + 1)
  <2>1. /\ DOMAIN rejected = {"ok", "nodes", "parent", "at"} /\ rejected.nodes = spec.nodes
        /\ rejected.parent = spec.parent /\ rejected.at = spec.at
    BY <1>3, <1>5
  <2>2. Len(spec.at) \in Nat
    BY HopAppended DEF EmbeddedBy
  <2>. QED  BY <2>1, <2>2 DEF EmbeddedBy
<1>7. ASSUME found # {} PROVE EmbeddedBy(rs, root, moved, k + 1)
  <2>1. node \in found
    BY <1>1, <1>7
  <2>2. node.target \in rs
    BY <1>1, <2>1, SelectedIsThere
  <2>3. /\ DOMAIN moved = {"ok", "nodes", "parent", "at"} /\ moved.nodes = spec.nodes
        /\ moved.parent = node.target /\ moved.at = at
    BY <1>3, <1>5
  <2>4. IsList(spec.at) /\ Len(spec.at) <= k
    BY DEF EmbeddedBy
  <2>5. IsList(at) /\ Len(spec.at) \in Nat /\ Len(at) = Len(spec.at) + 1 /\ at[Len(at)] = hop
    BY <1>2, <2>4, HopAppended
  <2>6. hop[2] = node.target.qualifiedName
    BY <1>2
  <2>. QED  BY <2>2, <2>3, <2>4, <2>5, <2>6 DEF EmbeddedBy
<1>8. ASSUME found # {}, ~\E n \in siblings : n.at = at, ~(Len(spec.nodes) >= MaxEmbedRelations), key # NoKey
      PROVE  EmbeddedBy(rs, root, grown, k + 1)
  <2>1. Len(spec.nodes) < MaxEmbedRelations /\ Len(spec.at) < MaxEmbedDepth
    <3>1. IsList(spec.at) /\ Len(spec.at) <= k /\ Len(spec.nodes) \in Nat
      BY EmbedAssumption DEF EmbeddedBy
    <3>2. Len(spec.at) \in Nat
      BY <3>1, HopAppended
    <3>. QED  BY <1>8, <3>1, <3>2, EmbedAssumption
  <2>2. key \notin Names(spec.parent.columns) /\ \A s \in siblings : s.key # key
    BY <1>2, <1>8, KeyIsFree
  <2>3. spec.parent.kind # "view"
    BY <1>1, <1>8 DEF ResolveSegment
  <2>4. PICK nodes : nodes = Append(spec.nodes, [at |-> Append(spec.at, hop), key |-> key])
    OBVIOUS
  <2>5. \A n \in {x \in Range(spec.nodes) : Front(x.at) = spec.at} :
           n.at # Append(spec.at, hop) /\ n.key # key
    BY <1>2, <1>8, <2>2
  <2>6. /\ IsList(nodes) /\ Len(nodes) \in 0..MaxEmbedRelations
        /\ \A i \in DOMAIN nodes : NodeOf(rs, root, nodes[i])
        /\ \A i, j \in DOMAIN nodes : i # j => Beside(nodes[i], nodes[j])
    BY <2>1, <2>2, <2>4, <2>5, <2>3, NodesGrow
  <2>7. /\ DOMAIN moved = {"ok", "nodes", "parent", "at"} /\ moved.nodes = spec.nodes
    BY <1>3, <1>5
  <2>8. /\ DOMAIN grown = {"ok", "nodes", "parent", "at"} /\ grown.nodes = nodes
        /\ grown.parent = moved.parent /\ grown.at = moved.at
    BY <1>2, <1>3, <2>4, <2>7
  <2>9. EmbeddedBy(rs, root, moved, k + 1)
    BY <1>7, <1>8
  <2>. QED  BY <2>6, <2>8, <2>9 DEF EmbeddedBy
<1>. QED  BY <1>4, <1>6, <1>7, <1>8

\* c is what the loops over a path and over the paths have made of each element.
PathSteps(rs, root, spec, path, n, c) ==
    /\ c[0] = [spec EXCEPT !.parent = root, !.at = <<>>]
    /\ \A k \in 1..n : c[k] = InsertSegment(rs, c[k - 1], path[k])
    /\ ~(Len(path) > MaxEmbedDepth) => InsertPath(rs, root, spec, path) = c[n]
RequestSteps(rs, root, paths, n, c) ==
    /\ c[0] = [ok |-> TRUE, nodes |-> <<>>, parent |-> root, at |-> <<>>]
    /\ \A k \in 1..n : c[k] = InsertPath(rs, root, c[k - 1], paths[k])
    /\ ResolveEmbedSpec(rs, root, paths) = [ok |-> c[n].ok, nodes |-> c[n].nodes]

LEMMA PathIsFolded ==
  ASSUME NEW rs, NEW root, NEW spec, NEW path, NEW n \in Nat, DOMAIN path = 1..n
  PROVE  \E c : PathSteps(rs, root, spec, path, n, c)
<1>1. PICK loop : loop = [of |-> "segments", resources |-> rs, base |-> [spec EXCEPT !.parent = root, !.at = <<>>]]
  OBVIOUS
<1>2. /\ loop.base = [spec EXCEPT !.parent = root, !.at = <<>>]
      /\ \A s, x : Stepped(loop, s, x) = InsertSegment(rs, s, x)
  BY <1>1 DEF Stepped
<1>3. PICK iter : IsLoop(loop, path, Positions(n), iter)
  BY LoopIsDefined
<1>. DEFINE Part(f, T) == IF T = {} THEN [spec EXCEPT !.parent = root, !.at = <<>>]
                          ELSE InsertSegment(rs, f[T \ {Max(T)}], path[Max(T)])
            rec == CHOOSE f : f = [T \in SUBSET (1..n) |-> Part(f, T)]
<1>4. \A f, T : Looped(loop, f, path, T) = Part(f, T)
  BY <1>2 DEF Looped
<1>5. rec = [T \in SUBSET (1..n) |-> Part(rec, T)]
  <2>1. iter = [T \in SUBSET (1..n) |-> Part(iter, T)]
    BY <1>3, <1>4 DEF IsLoop, Positions
  <2>. QED  BY <2>1
<1>6. ~(Len(path) > MaxEmbedDepth) => InsertPath(rs, root, spec, path) = rec[1..n]
  BY DEF FoldLeft, MapThenFoldSet, InsertPath
<1>. HIDE DEF rec
<1>7. IsLoop(loop, path, Positions(n), rec)
  BY <1>4, <1>5 DEF IsLoop, Positions
<1>. HIDE DEF Part
<1>8. PICK r : r = rec
  OBVIOUS
<1>9. IsLoop(loop, path, Positions(n), r)
  BY <1>7, <1>8
<1>10. PICK c : GoesThrough(loop, path, n, c) /\ c[n] = r[1..n]
  BY <1>9, LoopOverList
<1>. QED  BY <1>2, <1>6, <1>8, <1>10 DEF GoesThrough, PathSteps

LEMMA RequestIsFolded ==
  ASSUME NEW rs, NEW root, NEW paths, NEW n \in Nat, DOMAIN paths = 1..n
  PROVE  \E c : RequestSteps(rs, root, paths, n, c)
<1>1. PICK loop : loop = [of |-> "paths", resources |-> rs, root |-> root,
                     base |-> [ok |-> TRUE, nodes |-> <<>>, parent |-> root, at |-> <<>>]]
  OBVIOUS
<1>2. /\ loop.base = [ok |-> TRUE, nodes |-> <<>>, parent |-> root, at |-> <<>>]
      /\ \A s, x : Stepped(loop, s, x) = InsertPath(rs, root, s, x)
  BY <1>1 DEF Stepped
<1>3. PICK iter : IsLoop(loop, paths, Positions(n), iter)
  BY LoopIsDefined
<1>. DEFINE Part(f, T) == IF T = {} THEN [ok |-> TRUE, nodes |-> <<>>, parent |-> root, at |-> <<>>]
                          ELSE InsertPath(rs, root, f[T \ {Max(T)}], paths[Max(T)])
            rec == CHOOSE f : f = [T \in SUBSET (1..n) |-> Part(f, T)]
<1>4. \A f, T : Looped(loop, f, paths, T) = Part(f, T)
  BY <1>2 DEF Looped
<1>5. rec = [T \in SUBSET (1..n) |-> Part(rec, T)]
  <2>1. iter = [T \in SUBSET (1..n) |-> Part(iter, T)]
    BY <1>3, <1>4 DEF IsLoop, Positions
  <2>. QED  BY <2>1
<1>6. ResolveEmbedSpec(rs, root, paths) = [ok |-> rec[1..n].ok, nodes |-> rec[1..n].nodes]
  BY DEF FoldLeft, MapThenFoldSet, ResolveEmbedSpec
<1>. HIDE DEF rec
<1>7. IsLoop(loop, paths, Positions(n), rec)
  BY <1>4, <1>5 DEF IsLoop, Positions
<1>. HIDE DEF Part
<1>8. PICK r : r = rec
  OBVIOUS
<1>9. IsLoop(loop, paths, Positions(n), r)
  BY <1>7, <1>8
<1>10. PICK c : GoesThrough(loop, paths, n, c) /\ c[n] = r[1..n]
  BY <1>9, LoopOverList
<1>. QED  BY <1>2, <1>6, <1>8, <1>10 DEF GoesThrough, RequestSteps

LEMMA EmbeddedLonger ==
    ASSUME NEW rs, NEW root, NEW spec, NEW k \in Nat, NEW m \in Nat, k <= m,
           EmbeddedBy(rs, root, spec, k)
    PROVE  EmbeddedBy(rs, root, spec, m)
<1>1. Len(spec.at) \in Nat /\ Len(spec.at) <= k
  BY HopAppended DEF EmbeddedBy
<1>2. Len(spec.at) <= m
  BY <1>1
<1>. QED  BY <1>2 DEF EmbeddedBy

LEMMA PathInserted ==
    ASSUME NEW rs, NEW root \in rs, NEW spec, EmbeddedBy(rs, root, spec, MaxEmbedDepth),
           NEW S, NEW path \in Seq(S)
    PROVE  EmbeddedBy(rs, root, InsertPath(rs, root, spec, path), MaxEmbedDepth)
<1>1. PICK n \in Nat : Len(path) = n /\ DOMAIN path = 1..n
  BY LenProperties
<1>2. DOMAIN spec = {"ok", "nodes", "parent", "at"}
  BY DEF EmbeddedBy
<1>3. CASE n > MaxEmbedDepth
  <2>1. PICK rejected : rejected = [spec EXCEPT !.ok = FALSE]
    OBVIOUS
  <2>2. InsertPath(rs, root, spec, path) = rejected
    BY <1>1, <1>3, <2>1 DEF InsertPath
  <2>3. /\ DOMAIN rejected = {"ok", "nodes", "parent", "at"} /\ rejected.nodes = spec.nodes
        /\ rejected.parent = spec.parent /\ rejected.at = spec.at
    BY <1>2, <2>1
  <2>. QED  BY <2>2, <2>3 DEF EmbeddedBy
<1>4. CASE ~(n > MaxEmbedDepth)
  <2>1. PICK c : PathSteps(rs, root, spec, path, n, c)
    BY <1>1, PathIsFolded
  <2>2. /\ c[0] = [spec EXCEPT !.parent = root, !.at = <<>>]
        /\ \A k \in 1..n : c[k] = InsertSegment(rs, c[k - 1], path[k])
        /\ ~(Len(path) > MaxEmbedDepth) => InsertPath(rs, root, spec, path) = c[n]
    BY <2>1 DEF PathSteps
  <2>3. EmbeddedBy(rs, root, c[0], 0)
    <3>1. PICK first : first = c[0]
      OBVIOUS
    <3>2. /\ DOMAIN first = {"ok", "nodes", "parent", "at"} /\ first.nodes = spec.nodes
          /\ first.parent = root /\ first.at = <<>>
      BY <1>2, <2>2, <3>1
    <3>3. IsList(<<>>) /\ Len(<<>>) = 0
      BY EmptySeq DEF IsList
    <3>. QED  BY <3>1, <3>2, <3>3 DEF EmbeddedBy
  <2>. DEFINE Good == {k \in Nat : k <= n => EmbeddedBy(rs, root, c[k], k)}
  <2>4. 0 \in Good
    BY <2>3
  <2>5. ASSUME NEW k \in Nat, k \in Good PROVE k + 1 \in Good
    <3>. SUFFICES ASSUME k + 1 <= n PROVE EmbeddedBy(rs, root, c[k + 1], k + 1)
      BY <2>5
    <3>1. PICK before, after : before = c[k] /\ after = c[k + 1]
      OBVIOUS
    <3>2. k <= n /\ k + 1 \in 1..n /\ (k + 1) - 1 = k /\ k < MaxEmbedDepth
      BY <1>4, EmbedAssumption
    <3>3. after = InsertSegment(rs, before, path[k + 1])
      BY <2>2, <3>1, <3>2
    <3>4. EmbeddedBy(rs, root, before, k)
      BY <2>5, <3>1, <3>2
    <3>5. EmbeddedBy(rs, root, after, k + 1)
      BY <3>2, <3>3, <3>4, SegmentInserted
    <3>. QED  BY <3>1, <3>5
  <2>. HIDE DEF Good
  <2>6. n \in Good
    BY <2>4, <2>5, AllNaturals
  <2>7. PICK last : last = c[n]
    OBVIOUS
  <2>8. EmbeddedBy(rs, root, last, n)
    BY <2>6, <2>7 DEF Good
  <2>9. EmbeddedBy(rs, root, last, MaxEmbedDepth)
    BY <1>4, <2>8, EmbeddedLonger, EmbedAssumption
  <2>. QED  BY <1>1, <1>4, <2>2, <2>7, <2>9
<1>. QED  BY <1>3, <1>4

LEMMA PathsInserted ==
    ASSUME NEW rs, NEW root \in rs, NEW S, NEW paths \in Seq(Seq(S))
    PROVE  \E spec : /\ EmbeddedBy(rs, root, spec, MaxEmbedDepth)
                     /\ ResolveEmbedSpec(rs, root, paths) = [ok |-> spec.ok, nodes |-> spec.nodes]
<1>1. PICK n \in Nat : Len(paths) = n /\ DOMAIN paths = 1..n
  BY LenProperties
<1>2. PICK c : RequestSteps(rs, root, paths, n, c)
  BY <1>1, RequestIsFolded
<1>3. /\ c[0] = [ok |-> TRUE, nodes |-> <<>>, parent |-> root, at |-> <<>>]
      /\ \A k \in 1..n : c[k] = InsertPath(rs, root, c[k - 1], paths[k])
      /\ ResolveEmbedSpec(rs, root, paths) = [ok |-> c[n].ok, nodes |-> c[n].nodes]
  BY <1>2 DEF RequestSteps
<1>4. EmbeddedBy(rs, root, c[0], MaxEmbedDepth)
  <2>1. PICK first : first = c[0]
    OBVIOUS
  <2>2. /\ DOMAIN first = {"ok", "nodes", "parent", "at"} /\ first.nodes = <<>>
        /\ first.parent = root /\ first.at = <<>>
    BY <1>3, <2>1
  <2>3. IsList(<<>>) /\ Len(<<>>) = 0 /\ DOMAIN <<>> = {}
    BY EmptySeq DEF IsList
  <2>4. 0 \in 0..MaxEmbedRelations /\ 0 <= MaxEmbedDepth
    BY EmbedAssumption
  <2>. QED  BY <2>1, <2>2, <2>3, <2>4 DEF EmbeddedBy
<1>. DEFINE Good == {k \in Nat : k <= n => EmbeddedBy(rs, root, c[k], MaxEmbedDepth)}
<1>5. 0 \in Good
  BY <1>4
<1>6. ASSUME NEW k \in Nat, k \in Good PROVE k + 1 \in Good
  <2>. SUFFICES ASSUME k + 1 <= n PROVE EmbeddedBy(rs, root, c[k + 1], MaxEmbedDepth)
    BY <1>6
  <2>1. PICK before, after, path : before = c[k] /\ after = c[k + 1] /\ path = paths[k + 1]
    OBVIOUS
  <2>2. k <= n /\ k + 1 \in 1..n /\ (k + 1) - 1 = k
    OBVIOUS
  <2>3. after = InsertPath(rs, root, before, path)
    BY <1>3, <2>1, <2>2
  <2>4. EmbeddedBy(rs, root, before, MaxEmbedDepth)
    BY <1>6, <2>1, <2>2
  <2>5. path \in Seq(S)
    BY <1>1, <2>1, <2>2, ElementOfSeq
  <2>6. EmbeddedBy(rs, root, after, MaxEmbedDepth)
    BY <2>3, <2>4, <2>5, PathInserted
  <2>. QED  BY <2>1, <2>6
<1>. HIDE DEF Good
<1>7. n \in Good
  BY <1>5, <1>6, AllNaturals
<1>8. PICK spec : spec = c[n]
  OBVIOUS
<1>9. EmbeddedBy(rs, root, spec, MaxEmbedDepth)
  BY <1>7, <1>8 DEF Good
<1>. QED  BY <1>3, <1>8, <1>9

\* Where no two relations have one name, what is known of a table is known of
\* every resource of its name.
LEMMA NameTellsColumns ==
    ASSUME NEW d, NEW o, {"schemas", "privilegeRole"} \subseteq DOMAIN o, NEW rpc, ListedKeys(d),
           Distinct(d), NEW c, c = Compilation(d, o, rpc),
           NEW x \in Resources(c), NEW y \in Resources(c), x.kind # "view",
           x.qualifiedName = y.qualifiedName
    PROVE  Names(x.columns) = Names(y.columns)
<1>1. \A kind, z : /\ Resource(kind, z).kind = kind /\ Resource(kind, z).columns = z.columns
                   /\ Resource(kind, z).qualifiedName = z.qualifiedName
  BY DEF Resource
<1>2. /\ \A t \in c.tables : \E r \in Introspected(d, o, TableKinds) : TableOf(d, o, r, t)
      /\ \A v \in c.views : \E r \in d.relations : r.kind \in ViewKinds /\ ViewOf(d, o, r, v)
  BY TablesOfContext, ViewsOfContext
<1>3. ASSUME NEW z \in Resources(c), z.kind # "view"
      PROVE  \E r \in d.relations : /\ r.kind \in TableKinds /\ z.qualifiedName = Flat(r)
                                    /\ Names(z.columns) = Names(r.columns)
  <2>1. PICK t \in c.tables : z = Resource("table", t)
    BY <1>1, <1>3 DEF Resources
  <2>2. PICK r \in Introspected(d, o, TableKinds) : TableOf(d, o, r, t)
    BY <1>2, <2>1
  <2>3. r \in d.relations /\ r.kind \in TableKinds
    BY <2>2 DEF Introspected
  <2>4. DOMAIN t.columns = DOMAIN r.columns /\ \A i \in DOMAIN r.columns : t.columns[i].name = r.columns[i].name
    BY <2>2 DEF TableOf, ReadsColumns
  <2>5. Names(t.columns) = Names(r.columns)
    BY <2>4 DEF Names
  <2>. QED  BY <1>1, <2>1, <2>2, <2>3, <2>5 DEF TableOf
<1>4. PICK r \in d.relations : /\ r.kind \in TableKinds /\ x.qualifiedName = Flat(r)
                               /\ Names(x.columns) = Names(r.columns)
  BY <1>3
<1>5. CASE y.kind # "view"
  <2>1. PICK q \in d.relations : y.qualifiedName = Flat(q) /\ Names(y.columns) = Names(q.columns)
    BY <1>3, <1>5
  <2>2. q = r
    BY <1>4, <2>1 DEF Distinct
  <2>. QED  BY <1>4, <2>1, <2>2
<1>6. CASE y.kind = "view"
  <2>1. PICK v \in c.views : y = Resource("view", v)
    BY <1>1, <1>6 DEF Resources
  <2>2. PICK q \in d.relations : q.kind \in ViewKinds /\ y.qualifiedName = Flat(q)
    BY <1>1, <1>2, <2>1 DEF ViewOf
  <2>3. q = r
    BY <1>4, <2>2 DEF Distinct
  <2>. QED  BY <1>4, <2>2, <2>3 DEF TableKinds, ViewKinds
<1>. QED  BY <1>5, <1>6

LEMMA EmbedsHidden ==
    ASSUME ContextInv, AnswerInv PROVE EmbedsHideNothing
<1>. SUFFICES ASSUME Answered("embed"), answer.result.ok PROVE EmbedsHideNothing
  BY DEF EmbedsHideNothing
<1>1. PICK cat \in Catalogs : cat = catalog
  BY DEF ContextInv
<1>2. PICK d, o, c, rs, root, nodes, rpc :
        /\ d = db /\ o = opts /\ c = ctx /\ rs = resources /\ root = answer.question.root
        /\ nodes = answer.result.nodes /\ rpc = cat.rpc
  OBVIOUS
<1>3. d = cat.db /\ o = cat.opts /\ rs = Resources(c)
  BY <1>1, <1>2 DEF db, opts, resources
<1>4. {"schemas", "privilegeRole"} \subseteq DOMAIN o /\ ListedKeys(d)
  BY <1>3, CatalogsAssumption DEF ListedKeys
<1>5. c = Compilation(d, o, rpc)
  <2>1. phase = "compiled"
    BY DEF AnswerInv, Answered
  <2>. QED  BY <1>1, <1>2, <2>1 DEF ContextInv, Compilation
<1>6. PICK S, paths : /\ root \in rs /\ paths \in Seq(Seq(S))
                      /\ answer.result = ResolveEmbedSpec(rs, root, paths)
  BY <1>2, <1>3 DEF AnswerInv, Told, Answered
<1>7. PICK spec : /\ EmbeddedBy(rs, root, spec, MaxEmbedDepth)
                  /\ answer.result = [ok |-> spec.ok, nodes |-> spec.nodes]
  BY <1>6, PathsInserted
<1>8. /\ IsList(nodes) /\ Len(nodes) \in 0..MaxEmbedRelations
      /\ \A i \in DOMAIN nodes : NodeOf(rs, root, nodes[i])
      /\ \A i, j \in DOMAIN nodes : i # j => Beside(nodes[i], nodes[j])
  BY <1>2, <1>7 DEF EmbeddedBy
<1>. DEFINE Parent(at) == IF Len(at) = 1 THEN root
                          ELSE CHOOSE r \in rs : r.qualifiedName = at[Len(at) - 1][2]
<1>9. ASSUME NEW i \in DOMAIN nodes, Len(nodes[i].at) = 1 \/ NamesDiffer
      PROVE  nodes[i].key \notin Names(Parent(nodes[i].at).columns)
  <2>1. PICK at, key, name : at = nodes[i].at /\ key = nodes[i].key /\ name = at[Len(at) - 1][2]
    OBVIOUS
  <2>2. PICK p \in rs : /\ p.kind # "view" /\ key \notin Names(p.columns)
                        /\ IF Len(at) = 1 THEN p = root ELSE p.qualifiedName = name
    BY <1>8, <2>1 DEF NodeOf
  <2>3. CASE Len(at) = 1
    BY <2>1, <2>2, <2>3
  <2>4. CASE Len(at) # 1
    <3>1. PICK y : y = CHOOSE r \in rs : r.qualifiedName = name
      OBVIOUS
    <3>2. y \in rs /\ y.qualifiedName = p.qualifiedName
      BY <2>2, <2>4, <3>1
    <3>3. Distinct(d)
      BY <1>2, <1>9, <2>1, <2>4 DEF Distinct, NamesDiffer, RelationsNamed
    <3>4. Names(p.columns) = Names(y.columns)
      BY <1>3, <1>4, <1>5, <2>2, <3>2, <3>3, NameTellsColumns
    <3>5. Parent(at) = y
      BY <2>1, <2>4, <3>1
    <3>. QED  BY <2>1, <2>2, <3>4, <3>5
  <2>. QED  BY <2>3, <2>4
<1>10. Len(nodes) <= MaxEmbedRelations
  BY <1>8, EmbedAssumption
<1>11. \A i \in DOMAIN nodes : Len(nodes[i].at) \in 1..MaxEmbedDepth
  BY <1>8 DEF NodeOf
<1>12. \A i \in DOMAIN nodes : \A j \in DOMAIN nodes \ {i} :
          Front(nodes[i].at) = Front(nodes[j].at) =>
             nodes[i].key # nodes[j].key /\ nodes[i].at # nodes[j].at
  BY <1>8 DEF Beside
<1>. QED  BY <1>2, <1>9, <1>10, <1>11, <1>12, Zenon DEF EmbedsHideNothing

-----------------------------------------------------------------------------
(* Lists. *)

\* The columns of a resource are those of its relation, with the types of them.
LEMMA ColumnsAreListed ==
    ASSUME NEW d, NEW role, NEW r, NEW raw, NEW table, NEW enums, raw = Columns(d, role, r),
           NEW columns, columns = [i \in DOMAIN raw |-> ColumnContext(raw[i], table, enums)]
    PROVE  ListsColumns(columns, r)
<1>1. raw = [i \in DOMAIN r.columns |-> RawColumn(d, role, r, r.columns[i])]
  BY DEF Columns
<1>2. \A x : /\ ColumnContext(x, table, enums).name = x.name
             /\ ColumnContext(x, table, enums).dataType = x.dataType
             /\ ColumnContext(x, table, enums).type = x.effectiveType
  BY DEF ColumnContext
<1>3. \A x : /\ RawColumn(d, role, r, x).name = x.name
             /\ RawColumn(d, role, r, x).dataType = x.types[1]
             /\ RawColumn(d, role, r, x).effectiveType = x.types[IF Len(x.types) > 1 THEN 2 ELSE 1]
  BY DEF RawColumn
<1>. HIDE DEF ColumnContext, RawColumn
<1>4. DOMAIN columns = DOMAIN r.columns
  BY <1>1
<1>5. ASSUME NEW i \in DOMAIN r.columns
      PROVE  /\ columns[i].name = r.columns[i].name /\ columns[i].dataType = r.columns[i].types[1]
             /\ columns[i].type = r.columns[i].types[IF Len(r.columns[i].types) > 1 THEN 2 ELSE 1]
  <2>1. PICK c, read : c = r.columns[i] /\ read = RawColumn(d, role, r, c)
    OBVIOUS
  <2>2. columns[i] = ColumnContext(read, table, enums)
    BY <1>1, <2>1
  <2>3. /\ columns[i].name = read.name /\ columns[i].dataType = read.dataType
        /\ columns[i].type = read.effectiveType
    BY <1>2, <2>2
  <2>4. /\ read.name = c.name /\ read.dataType = c.types[1]
        /\ read.effectiveType = c.types[IF Len(c.types) > 1 THEN 2 ELSE 1]
    BY <1>3, <2>1
  <2>. QED  BY <2>1, <2>3, <2>4
<1>. QED  BY <1>4, <1>5 DEF ListsColumns

\* The resource of a table is listed as that table.
LEMMA TableIsListed ==
    ASSUME NEW d, NEW o, NEW r, NEW enums
    PROVE  ListedOf(r, Resource("table", TableContext(PrunedRaw(d, o, r), enums)))
<1>1. PICK raw, role : raw = PrunedRaw(d, o, r) /\ role = o.privilegeRole
  OBVIOUS
<1>2. /\ raw.schema = r.schema /\ raw.name = r.name /\ raw.columns = Columns(d, role, r)
      /\ raw.primaryKey = r.primaryKey
  <2>. HIDE DEF Columns, RowSecurity, RelationPrivileges, Keep, Surviving
  <2>. QED  BY <1>1 DEF PrunedRaw, RawTable
<1>3. PICK t : t = TableContext(raw, enums)
  OBVIOUS
<1>4. /\ t.qualifiedName = Flat(raw) /\ t.schema = raw.schema /\ t.primaryKey = raw.primaryKey
      /\ t.columns = [i \in DOMAIN raw.columns |-> ColumnContext(raw.columns[i], raw, enums)]
  <2>. HIDE DEF Relations, ColumnContext, Flat
  <2>. QED  BY <1>3 DEF TableContext
<1>5. ListsColumns(t.columns, r)
  <2>1. PICK columns, read : columns = t.columns /\ read = raw.columns
    OBVIOUS
  <2>2. read = Columns(d, role, r) /\ columns = [i \in DOMAIN read |-> ColumnContext(read[i], raw, enums)]
    BY <1>2, <1>4, <2>1
  <2>. QED  BY <2>1, <2>2, ColumnsAreListed
<1>6. Flat(raw) = Flat(r)
  BY <1>2 DEF Flat
<1>7. PICK x : x = Resource("table", t)
  OBVIOUS
<1>8. /\ x.qualifiedName = t.qualifiedName /\ x.schema = t.schema /\ x.columns = t.columns
      /\ x.primaryKey = t.primaryKey /\ x.kind = "table"
  BY <1>7 DEF Resource
<1>9. ListedOf(r, x)
  BY <1>2, <1>4, <1>5, <1>6, <1>8 DEF ListedOf
<1>. QED  BY <1>1, <1>3, <1>7, <1>9

\* The resource of a view is listed as that view.
LEMMA ViewIsListed ==
    ASSUME NEW d, NEW o, NEW r, r.kind \in ViewKinds, NEW enums
    PROVE  ListedOf(r, Resource("view", ViewContext(RawView(d, o.privilegeRole, r), enums)))
<1>1. PICK raw : raw = RawView(d, o.privilegeRole, r)
  OBVIOUS
<1>2. raw.schema = r.schema /\ raw.name = r.name /\ raw.columns = Columns(d, NoRole, r)
  BY <1>1 DEF RawView
<1>3. PICK bare : bare = [checks |-> <<>>, foreignKeys |-> <<>>, primaryKey |-> <<>>, schema |-> raw.schema]
  OBVIOUS
<1>4. PICK v : v = ViewContext(raw, enums)
  OBVIOUS
<1>5. /\ v.qualifiedName = Flat(raw) /\ v.schema = raw.schema
      /\ v.columns = [i \in DOMAIN raw.columns |-> ColumnContext(raw.columns[i], bare, enums)]
  <2>. HIDE DEF ColumnContext, Flat
  <2>. QED  BY <1>3, <1>4 DEF ViewContext
<1>6. ListsColumns(v.columns, r)
  <2>1. PICK columns, read, role : columns = v.columns /\ read = raw.columns /\ role = NoRole
    OBVIOUS
  <2>2. read = Columns(d, role, r) /\ columns = [i \in DOMAIN read |-> ColumnContext(read[i], bare, enums)]
    BY <1>2, <1>5, <2>1
  <2>. QED  BY <2>1, <2>2, ColumnsAreListed
<1>7. Flat(raw) = Flat(r)
  BY <1>2 DEF Flat
<1>8. PICK x : x = Resource("view", v)
  OBVIOUS
<1>9. /\ x.qualifiedName = v.qualifiedName /\ x.schema = v.schema /\ x.columns = v.columns
      /\ x.primaryKey = <<>>
  BY <1>8 DEF Resource
<1>10. ListedOf(r, x)
  BY <1>2, <1>5, <1>6, <1>7, <1>9 DEF ListedOf
<1>. QED  BY <1>1, <1>4, <1>8, <1>10

\* Every resource is listed as the relation it is made of.
LEMMA ResourcesAreListed ==
    ASSUME NEW d, NEW o, {"schemas", "privilegeRole"} \subseteq DOMAIN o, NEW rpc,
           NEW x \in Resources(Compilation(d, o, rpc))
    PROVE  \E r \in d.relations : ListedOf(r, x)
<1>1. PICK raw, enums, c : raw = Introspect(d, o) /\ enums = raw.enums /\ c = Compilation(d, o, rpc)
  OBVIOUS
<1>2. /\ c.tables = {TableContext(t, enums) : t \in {y \in raw.tables : Visible(y, o)}}
      /\ c.views = {ViewContext(v, enums) : v \in {y \in raw.views : Visible(y, o)}}
  BY <1>1 DEF Compilation, BuildSchemaContext
<1>3. /\ raw.tables = {PrunedRaw(d, o, r) : r \in Introspected(d, o, TableKinds)}
      /\ raw.views = {RawView(d, o.privilegeRole, r) : r \in Introspected(d, o, ViewKinds)}
  BY <1>1, IntrospectedRelations
<1>4. \A kinds : \A r \in Introspected(d, o, kinds) : r \in d.relations /\ r.kind \in kinds
  BY DEF Introspected
<1>. HIDE DEF TableContext, ViewContext, PrunedRaw, RawView, Visible, Introspected, Resource, ListedOf
<1>5. CASE \E t \in c.tables : x = Resource("table", t)
  <2>1. PICK r \in Introspected(d, o, TableKinds) : x = Resource("table", TableContext(PrunedRaw(d, o, r), enums))
    BY <1>2, <1>3, <1>5
  <2>. QED  BY <1>4, <2>1, TableIsListed
<1>6. CASE \E v \in c.views : x = Resource("view", v)
  <2>1. PICK r \in Introspected(d, o, ViewKinds) :
          x = Resource("view", ViewContext(RawView(d, o.privilegeRole, r), enums))
    BY <1>2, <1>3, <1>6
  <2>. QED  BY <1>4, <2>1, ViewIsListed
<1>. QED  BY <1>1, <1>5, <1>6 DEF Resources

\* What a browse answers is the list its URL asks for.
LEMMA ListsHonoured ==
    ASSUME ContextInv, AnswerInv PROVE ListsAreHonoured
<1>. SUFFICES ASSUME Answered("browse")
              PROVE  /\ \E r \in RelationsNamed(answer.question.resource.qualifiedName) :
                           RunsAsAsked(r, answer.question, answer.result.run)
                     /\ PagesJoin(answer.question, answer.result.run, answer.result)
                     /\ HeadersSort(answer.question, answer.result.run, answer.result.sorts)
  BY Zenon DEF ListsAreHonoured
<1>1. PICK cat \in Catalogs : cat = catalog
  BY DEF ContextInv
<1>2. PICK d, o, c, rpc, q, result, x :
        /\ d = db /\ o = opts /\ c = ctx /\ rpc = cat.rpc
        /\ q = answer.question /\ result = answer.result /\ x = q.resource
  OBVIOUS
<1>3. d = cat.db /\ o = cat.opts
  BY <1>1, <1>2 DEF db, opts
<1>4. {"schemas", "privilegeRole"} \subseteq DOMAIN o
  BY <1>3, CatalogsAssumption
<1>5. c = Compilation(d, o, rpc)
  <2>1. phase = "compiled"
    BY DEF AnswerInv, Answered
  <2>. QED  BY <1>1, <1>2, <2>1 DEF ContextInv, Compilation
<1>6. Browsed(c, q, result)
  BY <1>2 DEF AnswerInv, Told, Answered
<1>7. /\ x \in Resources(c) /\ q.adapter \in Adapters /\ q.url \in Urls /\ q.total \in Totals
      /\ result.run = List(q.adapter, x, q.url, q.total)
      /\ result.next = NextLink(ParseListParams(q.url), q.total)
      /\ result.prev = PrevLink(ParseListParams(q.url))
      /\ result.sorts = [f \in Range(DisplayColumns(c, x)) |-> BuildSortHref(ParseListParams(q.url), Spelled(f))]
  BY <1>2, <1>6 DEF Browsed
<1>8. PICK r \in d.relations : ListedOf(r, x)
  BY <1>4, <1>5, <1>7, ResourcesAreListed
<1>9. IsColumned(r)
  <2>1. \A i, j \in DOMAIN r.columns : r.columns[i].name = r.columns[j].name => i = j
    BY <1>3, CatalogsAssumption
  <2>2. /\ IsIdentifier(r.schema) /\ IsIdentifier(r.name) /\ IsList(r.primaryKey) /\ IsList(r.columns)
        /\ \A column \in Range(r.columns) : IsIdentifier(column.name) /\ IsTyped(column)
    BY <1>3, RelationsAssumption
  <2>. QED  BY <2>1, <2>2 DEF IsColumned
<1>10. x.kind \in {"table", "view"}
  <2>1. \A kind, z : Resource(kind, z).kind = kind
    BY DEF Resource
  <2>. QED  BY <1>7, <2>1 DEF Resources
<1>11. RunsAsAsked(r, q, result.run)
  BY <1>2, <1>7, <1>8, <1>9, <1>10, ListsRunAsAsked
<1>12. r \in RelationsNamed(x.qualifiedName)
  BY <1>2, <1>8 DEF RelationsNamed, ListedOf
<1>13. PagesJoin(q, result.run, result)
  BY <1>2, <1>7, PagesAreJoined
<1>14. ASSUME NEW f \in Range(DisplayColumns(c, x))
       PROVE  IsList(Spelled(f)) /\ Spelled(f) \in SpelledNames(x.columns)
  <2>1. PICK columns : columns = r.columns
    OBVIOUS
  <2>2. PICK n \in Nat : DOMAIN columns = 1..n
    BY <1>9, <2>1, LenProperties DEF IsColumned, IsList
  <2>3. DOMAIN x.columns = 1..n /\ \A i \in 1..n : x.columns[i].name = columns[i].name
    BY <1>8, <2>1, <2>2 DEF ListedOf, ListsColumns
  <2>4. f \in Names(x.columns)
    BY <1>14, <2>3, DisplayedAreNamed
  <2>5. PICK i \in 1..n : f = columns[i].name
    BY <2>3, <2>4 DEF Names
  <2>6. IsIdentifier(f)
    BY <1>9, <2>1, <2>2, <2>5 DEF IsColumned, Range
  <2>. QED  BY <2>4, <2>6, NameIsSpelled DEF SpelledNames
<1>15. IsList(x.primaryKey)
  <2>1. IsList(<<>>)
    BY DEF IsList
  <2>. QED  BY <1>8, <1>9, <2>1 DEF ListedOf, IsColumned
<1>16. HeadersSort(q, result.run, result.sorts)
  <2>1. PICK sorts, shown : /\ sorts = result.sorts /\ shown = Range(DisplayColumns(c, x))
                            /\ sorts = [f \in shown |-> BuildSortHref(ParseListParams(q.url), Spelled(f))]
    BY <1>7
  <2>2. \A f \in DOMAIN sorts : /\ IsList(Spelled(f)) /\ Spelled(f) \in SpelledNames(x.columns)
                              /\ sorts[f] = BuildSortHref(ParseListParams(q.url), Spelled(f))
    BY <1>14, <2>1
  <2>. QED  BY <1>2, <1>7, <1>15, <2>1, <2>2, HeadersAreSorted
<1>. QED  BY <1>2, <1>11, <1>12, <1>13, <1>16

-----------------------------------------------------------------------------
(* The properties. *)

\* A create body must hold exactly the columns that nothing else fills.
LEMMA RequiredIsNeeded ==
    ASSUME NEW t, NEW r, ReadsColumns(t, r),
           \A i, j \in DOMAIN r.columns : r.columns[i].name = r.columns[j].name => i = j,
           NEW column \in Range(r.columns), ~column.identity
    PROVE  column.name \in RequiredOnCreate(t) <=> ~MayBeOmitted(column)
<1>1. PICK i \in DOMAIN r.columns : column = r.columns[i]
  BY DEF Range
<1>2. column.name \in RequiredOnCreate(t) <=>
        \E j \in DOMAIN t.columns : /\ ~t.columns[j].nullable /\ ~t.columns[j].hasDefault
                                   /\ t.columns[j].name = column.name
  BY DEF RequiredOnCreate, Range
<1>3. \A j \in DOMAIN t.columns : t.columns[j].name = column.name <=> j = i
  BY <1>1 DEF ReadsColumns
<1>4. i \in DOMAIN t.columns
  BY DEF ReadsColumns
<1>5. column.name \in RequiredOnCreate(t) <=> ~t.columns[i].nullable /\ ~t.columns[i].hasDefault
  BY <1>2, <1>3, <1>4
<1>. QED  BY <1>1, <1>5 DEF ReadsColumns, MayBeOmitted

\* Whatever the database and the request: what the OpenAPI document describes is
\* routed to the resource it is described for, what is reached is described, and
\* a create body must hold exactly the columns that PostgreSQL cannot fill in.
THEOREM Documentation == Spec => []DocumentMatchesRoutes
<1>1. ContextInv /\ AnswerInv => DocumentMatchesRoutes
  <2> SUFFICES ASSUME ContextInv, AnswerInv PROVE DocumentMatchesRoutes
    OBVIOUS
  <2>1. ASSUME NEW d \in Paths(ctx)
        PROVE  LET segment == d.request.segments[1]
                   named == {x \in resources : x.qualifiedName \in {segment, d.on}}
                   shadowed == \/ Len(d.request.segments) = 2 /\ segment = <<"rpc">>
                               \/ segment = <<"openapi", "json">>
                               \/ \E x, y \in named : x # y
               IN d.op = "call" \/ ~shadowed => Route(ctx, d.request) = Outcome("ok", d.op, d.on)
    <3>1. CASE \E fn \in ctx.functions : d \in RpcPaths(fn)
      BY <3>1, CallsAreRouted
    <3>2. ASSUME NEW r \in Resources(ctx), d \in ResourcePaths(Resources(ctx), r)
          PROVE  /\ d.op # "call" /\ d.on = r.qualifiedName
      <4>1. PICK segment, q, id, collection, item :
              /\ segment = SegmentFor(Resources(ctx), r) /\ q = r.qualifiedName /\ id = Id
              /\ collection = <<segment>> /\ item = <<segment, id>>
        OBVIOUS
      <4>2. \/ d = Documented("GET", collection, FALSE, "list", q)
            \/ d = Documented("GET", collection, TRUE, "options", q)
            \/ d = Documented("GET", item, FALSE, "get", q)
            \/ d = Documented("POST", collection, FALSE, "create", q)
            \/ d = Documented("PATCH", item, FALSE, "update", q)
            \/ d = Documented("DELETE", item, FALSE, "delete", q)
        BY <3>2, <4>1, DocumentedOperations
      <4>. QED  BY <4>1, <4>2 DEF Documented
    <3>3. ASSUME NEW r \in Resources(ctx), d \in ResourcePaths(Resources(ctx), r),
                 NEW s, s = d.request.segments,
                 ~(Len(s) = 2 /\ s[1] = <<"rpc">>), s[1] # <<"openapi", "json">>,
                 \A x, y \in Resources(ctx) : x.qualifiedName \in {s[1], d.on}
                                             /\ y.qualifiedName \in {s[1], d.on} => x = y
          PROVE  Route(ctx, d.request) = Outcome("ok", d.op, d.on)
      <4>1. \A x \in Resources(ctx) : x.qualifiedName \in {s[1], r.qualifiedName} => x = r
        BY <3>2, <3>3
      <4>. QED  BY <3>3, <4>1, DocumentedIsRouted
    <3>. QED  BY <3>1, <3>2, <3>3, DocumentedPaths DEF resources
  <2>2. ASSUME Answered("request"), answer.result.status = "ok",
               answer.result.op \notin {"root", "document"}
        PROVE  \E d \in Paths(ctx) : d.op = answer.result.op /\ d.on = answer.result.on
    <3>1. PICK request : answer.result = Route(ctx, request)
      BY <2>2 DEF AnswerInv, Told, Answered
    <3>2. PICK c, outcome : c = ctx /\ outcome = answer.result
      OBVIOUS
    <3>3. outcome = Route(c, request) /\ outcome.status = "ok" /\ outcome.op \notin {"root", "document"}
      BY <2>2, <3>1, <3>2
    <3>4. \E d \in Paths(c) : d.op = outcome.op /\ d.on = outcome.on
      BY <3>3, ReachedIsDocumented
    <3>. QED  BY <3>2, <3>4
  <2>3. ASSUME Compiled, NEW t \in ctx.tables, NEW r \in db.relations,
               RelationsNamed(t.qualifiedName) = {r},
               NEW column \in Range(r.columns), ~column.identity
        PROVE  column.name \in RequiredOnCreate(t) <=> ~MayBeOmitted(column)
    <3>1. PICK c \in Catalogs : c = catalog
      BY DEF ContextInv
    <3>2. db = c.db /\ opts = c.opts
      BY <3>1 DEF db, opts
    <3>3. t \in Compilation(c.db, c.opts, c.rpc).tables
      BY <2>3, <3>1, <3>2 DEF ContextInv, Compiled, Compilation
    <3>4. {"schemas", "privilegeRole"} \subseteq DOMAIN c.opts /\ ListedKeys(c.db)
      BY CatalogsAssumption DEF ListedKeys
    <3>5. PICK x \in c.db.relations : t.qualifiedName = Flat(x) /\ ReadsColumns(t, x)
      <4>1. PICK x \in Introspected(c.db, c.opts, TableKinds) : TableOf(c.db, c.opts, x, t)
        BY <3>3, <3>4, TablesOfContext
      <4>. QED  BY <4>1 DEF TableOf, Introspected
    <3>6. x = r
      BY <2>3, <3>2, <3>5 DEF RelationsNamed
    <3>7. \A i, j \in DOMAIN r.columns : r.columns[i].name = r.columns[j].name => i = j
      BY <3>2, CatalogsAssumption
    <3>. QED  BY <2>3, <3>5, <3>6, <3>7, RequiredIsNeeded
  <2>. QED  BY <2>1, <2>2, <2>3 DEF DocumentMatchesRoutes
<1>2. QED
  BY <1>1, ContextInvariant, AnswerInvariant, PTL

\* Whatever the database and the paths of ?embed=: what is embedded is within
\* the limits, and no key hides a column of its parent or another relation.
THEOREM Embedding == Spec => []EmbedsHideNothing
<1>1. ContextInv /\ AnswerInv => EmbedsHideNothing
  BY EmbedsHidden
<1>. QED  BY <1>1, ContextInvariant, AnswerInvariant, PTL

\* Whatever the database, the options, the relation, the URL and the number of
\* rows, over the REST API and over PostgREST: a list fails only as it may, is
\* ordered and searched as its URL asks, its pages join without gap or overlap,
\* and its headers sort it and reverse it.
THEOREM Lists == Spec => []ListsAreHonoured
<1>1. ContextInv /\ AnswerInv => ListsAreHonoured
  BY ListsHonoured
<1>. QED  BY <1>1, ContextInvariant, AnswerInvariant, PTL

\* Whatever the database, the options, the role and the arguments: a call runs
\* the one function it names, for a role that may execute it, is refused as
\* malformed exactly when PostgreSQL would find no function, and is answered
\* what is documented; and the form of a function sends what was filled in.
THEOREM Calls == Spec => []CallsAreFaithful
<1>1. ContextInv /\ AnswerInv => CallsAreFaithful
  <2>1. ContextInv /\ AnswerInv /\ Answered("act") =>
           FormIsFaithful(answer.question.f, Exposed, answer.question, answer.result)
    BY ActionsFaithful
  <2>2. ContextInv /\ AnswerInv => ActionsAreFaithful
    BY <2>1, Zenon DEF ActionsAreFaithful, FormIsFaithful, IsMalformed
  <2>3. ContextInv /\ AnswerInv /\ Answered("call") =>
           IF answer.question.name \in Exposed
           THEN CallIsFaithful(ctx.functions, answer.question, answer.result)
           ELSE answer.result = NotFound
    BY CallsOfAnswer
  <2>4. NotFound.status # "bad_request" /\ NotFound.status \notin {"ok", "no_content", "forbidden"}
    BY Zenon DEF NotFound
  <2>5. ContextInv /\ AnswerInv => WritesAreFaithful
    BY WritesFaithful
  <2>. QED  BY <2>2, <2>3, <2>4, <2>5, Zenon DEF CallsAreFaithful, CallIsFaithful,
                                          IsMalformed, IsOk, IsForbidden, IsSilent
<1>2. QED
  BY <1>1, ContextInvariant, AnswerInvariant, PTL

\* Whatever the database, the options and the role: what describe_table,
\* describe_view and get_concept_context say is true of PostgreSQL.
THEOREM Advice == Spec => []AdviceIsTrue
<1>1. ContextInv /\ AnswerInv => AdviceIsTrue
  <2> SUFFICES ASSUME ContextInv, AnswerInv PROVE AdviceIsTrue
    OBVIOUS
  <2>1. PICK cat \in Catalogs : cat = catalog
    BY DEF ContextInv
  <2>2. PICK d, o, rpc, c, a : d = db /\ o = opts /\ rpc = cat.rpc /\ c = ctx /\ a = answer
    OBVIOUS
  <2>3. d = cat.db /\ o = cat.opts
    BY <2>1, <2>2 DEF db, opts
  <2>4. {"schemas", "privilegeRole"} \subseteq DOMAIN o
    BY <2>3, CatalogsAssumption
  <2>5. SoundKeys(d)
    BY <2>3, CatalogsAssumption DEF SoundKeys, ListedColumns, Aligned, TableKinds
  <2>6. ListedKeys(d) /\ \A r \in d.relations : r.schema \in DOMAIN d.schemas /\ ListedColumns(r)
    BY <2>5 DEF SoundKeys, ListedKeys
  <2>7. a.kind # "none" => c = Compilation(d, o, rpc)
    BY <2>1, <2>2 DEF ContextInv, AnswerInv, Compilation
  <2>8. Told(d, c, a)
    BY <2>1, <2>2, <2>3 DEF AnswerInv
  <2>9. ASSUME NEW r \in d.relations, RelationsNamed(a.question) = {r}
        PROVE  Flat(r) = a.question /\ \A x \in d.relations : Flat(x) = Flat(r) => x = r
    BY <2>2, <2>9 DEF RelationsNamed
  <2>10. ASSUME a.kind = "concept", a.result.found, NamesDiffer, NEW v \in d.relations,
                {x \in d.relations : x.name = a.question /\ \E w \in c.views : w.qualifiedName = Flat(x)} = {v}
         PROVE  JoinsAreReal(d, o, c.tables, v, a.result)
    <3>1. Distinct(d)
      BY <2>2, <2>10 DEF NamesDiffer, RelationsNamed, Distinct
    <3>2. c = Compilation(d, o, rpc) /\ a.result = GetConceptContext(c, a.question)
      BY <2>7, <2>8, <2>10 DEF Told
    <3>3. \A x \in d.relations : x.name = a.question /\ (\E w \in c.views : w.qualifiedName = Flat(x)) => x = v
      BY <2>10
    <3>. QED  BY <2>4, <2>5, <2>10, <3>1, <3>2, <3>3, ConceptToldTruly
  <2>11. ASSUME a.kind = "view", a.result.found, o.privilegeRole # NoRole,
                NEW v \in d.relations, RelationsNamed(a.question) = {v}
         PROVE  a.result.privileges.may = {x \in Range(Commands) : May(d, o.privilegeRole, v, x)}
    <3>1. a.result = DescribeView(Compilation(d, o, rpc), Flat(v))
      BY <2>7, <2>8, <2>9, <2>11 DEF Told
    <3>. QED  BY <2>4, <2>9, <2>11, <3>1, ViewToldTruly
  <2>12. ASSUME a.kind = "table", NEW r \in d.relations, RelationsNamed(a.question) = {r}
         PROVE  TableIsDescribed(d, o, r, a.result)
    <3>1. a.result = DescribeTable(Compilation(d, o, rpc), Flat(r))
      BY <2>7, <2>8, <2>9, <2>12 DEF Told
    <3>. QED  BY <2>4, <2>6, <2>9, <2>12, <3>1, TableToldTruly
  <2>. QED  BY <2>2, <2>10, <2>11, <2>12 DEF AdviceIsTrue, Answered
<1>2. QED
  BY <1>1, ContextInvariant, AnswerInvariant, PTL

\* Whatever the database: parseCommentTags puts every line of a comment of a
\* function or a relation where its author put it.
THEOREM Placement == Spec => []EveryLineIsPlaced
<1>1. ContextInv => EveryLineIsPlaced
  <2> SUFFICES ASSUME ContextInv PROVE EveryLineIsPlaced
    OBVIOUS
  <2>1. PICK cat \in Catalogs : cat = catalog
    BY DEF ContextInv
  <2>2. db = cat.db
    BY <2>1 DEF db
  <2>3. ASSUME NEW lines \in Comments, NEW c, c = ParseCommentTags(lines)
        PROVE  /\ \A notes : notes = Blocks(lines, "ai") => c.ai = [i \in DOMAIN notes |-> NoteText(notes[i])]
               /\ \A rules : rules = Blocks(lines, "policy") =>
                     c.policy = [i \in DOMAIN rules |-> NoteText(rules[i])]
               /\ \A examples : examples = Blocks(lines, "example") =>
                     c.examples = [i \in DOMAIN examples |-> [description |-> Head(examples[i]).value,
                                                              sql |-> TrimEnd(Tail(examples[i]))]]
               /\ c.body = Description(lines)
               /\ c.expose # "none" <=> Exposes(lines)
               /\ c.pending = NotPending
    <3>1. IsList(lines)
      BY <2>2, CatalogsAssumption DEF Comments
    <3>2. lines \in Seq(Range(lines))
      BY <3>1 DEF IsList
    <3>3. PICK n \in Nat : DOMAIN lines = 1..n
      BY <3>2, LenProperties
    <3>4. c.expose # "none" <=> Exposes(lines)
      BY <2>3, <3>3, TagsMeanTheirLines
    <3>. QED  BY <2>3, <3>3, <3>4, LinesArePlaced
  <2>4. ASSUME NEW lines \in Comments
        PROVE  /\ ParseCommentTags(lines).ai
                     = [i \in DOMAIN Blocks(lines, "ai") |-> NoteText(Blocks(lines, "ai")[i])]
               /\ ParseCommentTags(lines).policy
                     = [i \in DOMAIN Blocks(lines, "policy") |-> NoteText(Blocks(lines, "policy")[i])]
               /\ ParseCommentTags(lines).examples
                     = [i \in DOMAIN Blocks(lines, "example") |->
                           [description |-> Head(Blocks(lines, "example")[i]).value,
                            sql |-> TrimEnd(Tail(Blocks(lines, "example")[i]))]]
               /\ ParseCommentTags(lines).body = Description(lines)
               /\ ParseCommentTags(lines).expose # "none" <=> Exposes(lines)
               /\ ParseCommentTags(lines).pending = NotPending
    <3>1. PICK c, notes, rules, examples :
            /\ c = ParseCommentTags(lines) /\ notes = Blocks(lines, "ai")
            /\ rules = Blocks(lines, "policy") /\ examples = Blocks(lines, "example")
      OBVIOUS
    <3>. QED  BY <2>3, <3>1
  <2>. QED  BY <2>4, Zenon DEF EveryLineIsPlaced
<1>2. QED
  BY <1>1, ContextInvariant, PTL
=================================================================================
