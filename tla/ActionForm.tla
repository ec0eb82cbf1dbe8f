------------------------------ MODULE ActionForm ------------------------------
(***************************************************************************)
(* The form of an exposed function in the Admin UI (packages/svelte-ui,    *)
(* routes/actions): its arguments as columns (action-form.ts), what the    *)
(* browser submits, what is made of it (composite-form.ts, zod-from-       *)
(* column.ts, mutation-payload.ts) and the call over the adapter.          *)
(*                                                                         *)
(* A person leaves an argument alone, fills it, or fills it and takes that *)
(* back: deeds is a function of the arguments to "left", "filled" or       *)
(* "cleared".  A value is "filled", the text "", NULL, or what a widget    *)
(* has of its own accord: "0" or "false".  Arguments of enumerated types   *)
(* and the hints of @arg are left out.                                     *)
(***************************************************************************)
EXTENDS EditForm

\* inferArgWidget: by the type alone; an image or a long text is typed like a text.
ArgumentWidget(arg) == TypeWidget(arg.udtName)

\* buildActionForm: the column that an argument is made; a DEFAULT makes it
\* one that the database can supply.
ArgumentField(arg) == [widget |-> ArgumentWidget(arg), supplied |-> arg.hasDefault]

\* zodFromColumn: what a field holds before anything is typed.
InitialValue(field) ==
    CASE field.supplied -> ""
      [] ~field.supplied /\ field.widget = "number" -> "0"
      [] ~field.supplied /\ field.widget = "boolean" -> "false"
      [] OTHER -> ""

\* The form store, bound to the controls: an emptied number is null, a box
\* ticked and cleared is false.
Held(field, deed) ==
    CASE deed = "left" -> InitialValue(field)
      [] deed = "filled" -> "filled"
      [] deed = "cleared" /\ field.widget = "number" -> "null"
      [] deed = "cleared" /\ field.widget = "boolean" -> "false"
      [] OTHER -> ""

\* The browser submits no form whose required control is empty; a check box
\* has no such attribute.
Obstructed(field, deed) ==
    ~field.supplied /\ field.widget # "boolean" /\ Held(field, deed) \in {"", "null"}

\* readActionFormSubmission: without JavaScript a blank control, and a box
\* that is not ticked, leave the field as it was initially.
Received(field, deed, script) ==
    IF script \/ Held(field, deed) \notin {"", "null", "false"} THEN Held(field, deed)
    ELSE InitialValue(field)

\* z.coerce.number takes null for 0.
Coerced(field, value) == IF field.widget = "number" /\ value = "null" THEN "0" ELSE value

\* buildMutationPayload: the arguments that are sent, with their values.
Arguments(fn, deeds, script) ==
    LET At(name) == ArgumentField(CHOOSE a \in Range(fn.args) : a.name = name)
        Sent(name) == Coerced(At(name), Received(At(name), deeds[name], script))
    IN [name \in {n \in DOMAIN deeds : ~(At(n).supplied /\ Sent(n) = "")} |-> Sent(name)]

\* The load function and the default action of the route.  PostgREST has no
\* callFunction: its page is not found.
RunAction(database, ctx, adapter, role, qualifiedName, deeds, script) ==
    LET found == LookupFunction(ctx, qualifiedName)
        fn == CHOOSE f \in found : TRUE
        sent == Arguments(fn, deeds, script)
        everything == [listed |-> FALSE, names |-> {}]
    IN IF found = {} \/ adapter = "postgrest"
       THEN [submitted |-> FALSE, answer |-> NotFound]
       ELSE IF \E a \in Range(fn.args) : Obstructed(ArgumentField(a), deeds[a.name])
       THEN [submitted |-> FALSE, answer |-> NotFound]
       ELSE [submitted |-> TRUE, sent |-> sent,
             answer |-> CallFunction(database, ctx, role, qualifiedName, DOMAIN sent, everything)]
=============================================================================
