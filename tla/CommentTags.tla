----------------------------- MODULE CommentTags -----------------------------
(***************************************************************************)
(* parseCommentTags of packages/core: what the COMMENT of a database       *)
(* object means.  A line is                                                *)
(*   indented  whether it starts with white space                          *)
(*   tag       the identifier of a leading "@tag:", or "" for prose        *)
(*   value     what follows the tag, or the text; "" on a blank line       *)
(* Warnings are left out, and with them the tags written in mid-line: they *)
(* are prose.                                                              *)
(***************************************************************************)
EXTENDS Lists, SequencesExt

KnownTags == {"ai", "widget", "policy", "example", "expose", "arg"}
KnownWidgets == {"text", "textarea", "number", "boolean", "date", "datetime",
                 "enum-select", "relation-select", "json", "image-url", "uuid", "currency"}
NoWidget == ""

NotPending == [kind |-> "", lines |-> <<>>]
EmptyComment ==
    [body |-> <<>>, ai |-> <<>>, policy |-> <<>>, examples |-> <<>>,
     widget |-> NoWidget, expose |-> "none", args |-> <<>>, pending |-> NotPending]

IsBlank(line) == line.tag = "" /\ line.value = ""

\* trim and trimEnd, of a text held as its lines.
TrimEnd(lines) ==
    LET texts == {i \in DOMAIN lines : ~IsBlank(lines[i])}
    IN SubSeq(lines, 1, IF texts = {} THEN 0 ELSE CHOOSE i \in texts : \A j \in texts : j <= i)
NoteText(lines) == IF Head(lines).value = "" THEN Tail(lines) ELSE lines

\* Mutant: an example ends at a line that is not indented, and only there.
ExtendsUntilOutdented(pending, line) ==
    CASE pending.kind = "" -> FALSE
      [] pending.kind = "example" -> IsBlank(line) \/ line.indented
      [] pending.kind \in {"ai", "policy"} -> ~IsBlank(line) /\ line.indented /\ line.tag = ""

\* Whether an open block takes the line: an example takes blank and indented
\* lines unless they start with a known tag; a note takes indented prose.
Extends(pending, line) ==
    CASE pending.kind = "" -> FALSE
      [] pending.kind = "example" -> (IsBlank(line) \/ line.indented) /\ line.tag \notin KnownTags
      [] pending.kind \in {"ai", "policy"} -> ~IsBlank(line) /\ line.indented /\ line.tag = ""

FlushPending(c) ==
    LET done == [c EXCEPT !.pending = NotPending]
        lines == c.pending.lines
    IN CASE c.pending.kind = "" -> c
         [] c.pending.kind = "example" ->
              [done EXCEPT !.examples = Append(@,
                  [description |-> Head(lines).value, sql |-> TrimEnd(Tail(lines))])]
         [] c.pending.kind = "ai" -> [done EXCEPT !.ai = Append(@, NoteText(lines))]
         [] c.pending.kind = "policy" -> [done EXCEPT !.policy = Append(@, NoteText(lines))]

\* A later @expose line wins, and an invalid one resets exposure.
Expose(value) ==
    CASE value = "rpc" -> "rpc" [] value = "rpc public" -> "rpc-public" [] OTHER -> "none"

\* One line that no block takes.  A note also stays in the body.
Interpret(c, line) ==
    LET open == [c EXCEPT !.pending = [kind |-> line.tag, lines |-> <<line>>]]
        Body(x) == [x EXCEPT !.body = Append(@, line)]
    IN CASE line.tag \in {"ai", "policy"} -> Body(open)
         [] line.tag = "example" -> open
         [] line.tag = "widget" ->
              [c EXCEPT !.widget = IF line.value \in KnownWidgets THEN line.value ELSE NoWidget]
         [] line.tag = "expose" -> [c EXCEPT !.expose = Expose(line.value)]
         [] line.tag = "arg" -> IF line.value = "" THEN c
                                ELSE [c EXCEPT !.args = Append(@, <<line.value>>)]
         [] OTHER -> Body(c)

ParseLine(c, line) ==
    IF ~Extends(c.pending, line) THEN Interpret(FlushPending(c), line)
    ELSE LET taken == [c EXCEPT !.pending.lines = Append(@, line)]
         IN IF c.pending.kind = "example" THEN taken
            ELSE [taken EXCEPT !.body = Append(@, line)]

\* The comment of an object, as its lines; <<>> when it has none.
ParseCommentTags(lines) ==
    LET parsed == FlushPending(FoldLeft(ParseLine, EmptyComment, lines))
    IN [parsed EXCEPT !.body = TrimEnd(@)]

-----------------------------------------------------------------------------
(* The same meaning said of the comment as a whole, line by line: which    *)
(* line a line belongs to.                                                 *)

\* Line i belongs to the block that line h opens: every line after h up to i
\* is one such a block may hold.
BelongsTo(lines, i, h) ==
    LET Fits(line) ==
            IF lines[h].tag = "example"
            THEN line.tag \notin KnownTags /\ (line.indented \/ IsBlank(line))
            ELSE line.indented /\ line.tag = "" /\ ~IsBlank(line)
    IN h < i /\ \A k \in h + 1 .. i : Fits(lines[k])

\* The blocks of one kind, in order, each with the line that opens it.
Block(lines, h) == {h} \cup {i \in DOMAIN lines : BelongsTo(lines, i, h)}
Blocks(lines, kind) ==
    LET heads == Ascending({i \in DOMAIN lines : lines[i].tag = kind})
    IN [n \in DOMAIN heads |-> Selected(lines, Block(lines, heads[n]))]

\* What is left for the description: neither directives nor examples.
Description(lines) ==
    LET Kept(i) == /\ lines[i].tag \notin {"widget", "expose", "arg", "example"}
                   /\ ~\E h \in 1 .. i - 1 : lines[h].tag = "example" /\ BelongsTo(lines, i, h)
    IN TrimEnd(Selected(lines, {i \in DOMAIN lines : Kept(i)}))

\* The comment exposes the function that its last @expose line says.
Exposes(lines) ==
    LET at == {i \in DOMAIN lines : lines[i].tag = "expose"}
        value == lines[CHOOSE i \in at : \A j \in at : j <= i].value
    IN at # {} /\ value \in {"rpc", "rpc public"}
ExposesToPublic(lines) ==
    \E line \in Range(lines) : line.tag = "expose" /\ line.value = "rpc public"
=============================================================================
