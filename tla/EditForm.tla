------------------------------- MODULE EditForm -------------------------------
(***************************************************************************)
(* The create and edit forms of the Admin UI (packages/svelte-ui): which   *)
(* foreign keys get a picker (relation-field-config.ts), what the form     *)
(* submits with and without JavaScript (routes/tables, composite-form.ts), *)
(* what is made of it (zod-from-column.ts, mutation-payload.ts), and how a *)
(* link finds its row again (resource-id.ts, resolveKeyValues).            *)
(*                                                                         *)
(* A value is NULL or a text, the sequence of its characters; a number is  *)
(* its text, which an input of numbers makes a double of.  Of the other    *)
(* widgets only text and number inputs are here, and a column named like   *)
(* the control of a composite picker is not.                               *)
(*                                                                         *)
(* What a person does is an act: [adapter, mode, script, row, kind,        *)
(* picker, key], with kind "none", "clear" or "pick" of the picker of that *)
(* index.  On an edit row is the row; on a create it is what is typed into *)
(* the inputs.                                                             *)
(***************************************************************************)
EXTENDS RestSurface

CONSTANT AsDouble   \* the text of a number -> that of the double next to it

NULL == <<"NULL">>
Blank == <<>>

-----------------------------------------------------------------------------
(* Texts: what is cut at a separator, and what is joined by it. *)

Cuts(text, at) ==
    LET ends == Ascending(at \cup {Len(text) + 1})
    IN [k \in DOMAIN ends |->
          SubSeq(text, IF k = 1 THEN 1 ELSE ends[k - 1] + 1, ends[k] - 1)]
Split(text, separator) == Cuts(text, {i \in DOMAIN text : text[i] = separator})
Joined(parts, separator) ==
    IF parts = <<>> THEN Blank
    ELSE Front(FlattenSeq([i \in DOMAIN parts |-> Append(parts[i], separator)]))

-----------------------------------------------------------------------------
(* Ids in links and options: encodeURIComponent turns a character that would *)
(* be taken for a separator into one that is not.                            *)

Escaped == ("," :> "%2C") @@ ("%" :> "%25")
Encode(text) == [i \in DOMAIN text |-> IF text[i] \in DOMAIN Escaped THEN Escaped[text[i]] ELSE text[i]]
Decode(text) ==
    [i \in DOMAIN text |-> IF text[i] \in Range(Escaped) THEN AntiFunction(Escaped)[text[i]] ELSE text[i]]
Malformed(text) == "%" \in Range(text)

\* encodeResourceId; of the components of a key also rowIdSegment and itemUrl.
EncodeResourceId(id) == Joined([i \in DOMAIN id |-> Encode(id[i])], ",")

ParseResourceId(param, primaryKey) == IF Len(primaryKey) > 1 THEN Split(param, ",") ELSE <<param>>

\* resolveKeyValues of the API: <<>> is a refusal.
ResolveKeyValues(primaryKey, id) ==
    LET values == ParseResourceId(id, primaryKey)
    IN IF Len(values) = Len(primaryKey) THEN values ELSE <<>>

\* The key that the link of a row leads to: SvelteKit decodes the parameter,
\* the adapter encodes it again, the API decodes the segment.  An empty
\* parameter matches no route.  Over PostgREST the components make equalities
\* (appendKeyEquals), as many of them as the key has columns.
Followed(row, primaryKey) ==
    LET segment == EncodeResourceId([i \in DOMAIN primaryKey |-> row[primaryKey[i]]])
        id == ParseResourceId(Decode(segment), primaryKey)
    IN IF segment = Blank THEN <<>> ELSE ResolveKeyValues(primaryKey, Decode(EncodeResourceId(id)))

-----------------------------------------------------------------------------
(* Numbers. *)

IsNumber(column) == column.type.base \in DOMAIN IntegerBits
ToDouble(text) == IF text \in DOMAIN AsDouble THEN AsDouble[text] ELSE text

-----------------------------------------------------------------------------
(* relation-field-config.ts *)

\* searchableLabel: the type as it is declared, a DOMAIN not looked through.
SearchableLabel(target) ==
    \E c \in Range(target.columns) :
        c.name = target.displayField /\ IsTextLikeType(c.dataType)

\* The target of a relation that can have a picker: the whole primary key is
\* what it refers to.
PickerTargets(ctx, relation) ==
    {t \in ctx.tables :
       /\ t.qualifiedName = Target(relation)
       /\ Len(t.primaryKey) = Len(relation.columns)
       /\ Range(t.primaryKey) \subseteq Range(relation.columns)
       /\ SearchableLabel(t)}

\* Mutant: the columns as the foreign key lists them, not as the key does.
KeyFieldsAsDeclared(relation, primaryKey) == relation.fields

\* keyFields: the column that holds each component of the target's key.
KeyFields(relation, primaryKey) ==
    [i \in DOMAIN primaryKey |->
       relation.fields[CHOOSE j \in DOMAIN relation.columns : relation.columns[j] = primaryKey[i]]]

RelationFieldConfigs(ctx, table) ==
    LET accepted == SelectSeq(table.relations, LAMBDA r : PickerTargets(ctx, r) # {})
        Config(r) == LET t == CHOOSE x \in PickerTargets(ctx, r) : TRUE
                     IN [fields |-> r.fields, keyFields |-> KeyFields(r, t.primaryKey),
                         numbers |-> {i \in DOMAIN t.primaryKey :
                                        \E c \in Range(t.columns) : c.name = t.primaryKey[i] /\ IsNumber(c)},
                         resource |-> t.qualifiedName, label |-> t.displayField]
        Unshared(f) == Cardinality({i \in DOMAIN table.relations :
                                      f \in Range(table.relations[i].fields)}) = 1
    IN SelectSeq([i \in DOMAIN accepted |-> Config(accepted[i])],
                 LAMBDA c : Len(c.fields) = 1 \/ \A f \in Range(c.fields) : Unshared(f))

IsComposite(config) == Len(config.fields) > 1

-----------------------------------------------------------------------------
(* Fields: widgets, schema and attributes. *)

\* applyPrivilegeReadonly, demoteUnpickableRelations and
\* promoteCompositeMemberWidgets, dbCanSupplyColumn, tableViewModel.
FormField(column, configs, mode) ==
    LET Of(config) == column.name \in Range(config.fields)
        command == IF mode = "create" THEN "insert" ELSE "update"
        readonly == column.privileges.evaluated /\ command \notin column.privileges.may
    IN [picker |-> \E c \in Range(configs) :
                      Of(c) /\ (IsComposite(c) \/ column.widget = "relation-select"),
        number |-> IsNumber(column),
        nullable |-> column.nullable,
        readonly |-> readonly,
        supplied |-> column.hasDefault \/ readonly,
        key |-> column.isPrimaryKey,
        locked |-> readonly \/ (column.isPrimaryKey /\ (mode = "update" \/ column.hasDefault))]

Form(ctx, table, mode) ==
    LET configs == RelationFieldConfigs(ctx, table)
        At(name) == CHOOSE c \in Range(table.columns) : c.name = name
    IN [name \in Names(table.columns) |-> FormField(At(name), configs, mode)]

\* relationByField, compositeLayout: the pickers that are rendered.  Of two
\* relations of one column it is the last; a column that has another widget
\* keeps it.
Rendered(form, configs) ==
    {i \in DOMAIN configs :
       \/ IsComposite(configs[i])
       \/ /\ form[configs[i].fields[1]].picker
          /\ ~\E j \in DOMAIN configs : j > i /\ configs[j].fields = configs[i].fields}

\* zodFromColumn: what a field is when nothing is submitted for it, and what
\* it may be.
Default(field) ==
    IF field.picker \/ field.supplied THEN Blank
    ELSE IF field.nullable THEN NULL ELSE IF field.number THEN <<"0">> ELSE Blank
Valid(field, value) ==
    /\ value = NULL => field.nullable
    /\ field.picker /\ value = Blank => field.nullable \/ field.supplied

\* z.coerce.number: the value of an input of numbers is made a double, when the
\* form is loaded and when it is submitted.
Coerce(field, value) == IF field.number /\ ~field.picker THEN ToDouble(value) ELSE value

\* Over the API a long number is a text; PostgREST answers numbers, of which
\* response.json() makes doubles: in the row and in the keys of the options.
AsRead(form, configs, act) ==
    IF act.adapter = "api" THEN act
    ELSE [act EXCEPT !.row = [f \in DOMAIN @ |-> IF form[f].number /\ act.mode = "update"
                                                 THEN ToDouble(@[f]) ELSE @[f]],
                     !.key = [i \in DOMAIN @ |-> IF act.kind # "none" /\ i \in configs[act.picker].numbers
                                                 THEN ToDouble(@[i]) ELSE @[i]]]

\* The required and disabled attributes of a picker.
Obliges(field) == ~field.nullable /\ ~field.locked /\ ~field.key
Picker(form, config, mode) ==
    LET fields == {form[f] : f \in Range(config.fields)}
    IN [required |-> /\ \E f \in fields : Obliges(f)
                     /\ ~IsComposite(config) /\ mode = "create" => \A f \in fields : ~f.supplied,
        disabled |-> \E f \in fields : f.locked]

\* The form store before anything is picked.
FormStore(form, act) ==
    [f \in DOMAIN form |-> IF act.mode = "update" \/ ~(form[f].picker \/ form[f].locked)
                           THEN Coerce(form[f], act.row[f]) ELSE Default(form[f])]

-----------------------------------------------------------------------------
(* The controls of the pickers. *)

ClearValue == <<"__clear__">>
Reference(store, config) == [i \in DOMAIN config.keyFields |-> store[config.keyFields[i]]]
Unset(reference) == {NULL, Blank} \cap Range(reference)

\* loadInitialRelationOptions and ensureSelectedOptions: of the first page the
\* row that is picked, if any, and the row's own reference in front of it.
Options(config, reference, page) ==
    LET all == IF Unset(reference) # {} \/ reference \in Range(page) THEN page
               ELSE <<reference>> \o page
    IN IF IsComposite(config) THEN SelectSeq(all, LAMBDA id : Blank \notin Range(id)) ELSE all

\* The value of an option, of the option that clears and of the one selected.
OptionValue(config, id) == IF IsComposite(config) THEN EncodeResourceId(id) ELSE id[1]
ClearOption(config) == IF IsComposite(config) THEN ClearValue ELSE Blank
SelectedValue(config, reference) ==
    IF ~IsComposite(config) THEN reference[1]
    ELSE IF Range(reference) = {Blank} THEN ClearValue
    ELSE IF NULL \in Range(reference) THEN Blank ELSE EncodeResourceId(reference)

\* What can be chosen; the placeholder of a composite picker cannot.
Selectable(config, picker, options) ==
    (IF picker.required THEN <<>> ELSE <<ClearOption(config)>>)
      \o [i \in DOMAIN options |-> OptionValue(config, options[i])]

\* The value of the control on submission.  A value that no option has leaves
\* the control empty, or, without JavaScript, at the first option that can be
\* chosen; only the placeholder is selected although it cannot.
ControlValue(config, choices, selected, act, acted) ==
    IF acted THEN IF act.kind = "pick" THEN OptionValue(config, act.key) ELSE ClearOption(config)
    ELSE IF selected \in Range(choices) THEN selected
    ELSE IF act.script \/ choices = <<>> \/ (IsComposite(config) /\ selected = Blank) THEN Blank
    ELSE Head(choices)

\* A picker as it stands on submission.
Control(form, configs, i, act) ==
    LET config == configs[i]
        picker == Picker(form, config, act.mode)
        reference == Reference(FormStore(form, act), config)
        acted == act.picker = i /\ act.kind # "none"
        page == IF act.picker = i THEN <<act.key>> ELSE <<>>
        choices == Selectable(config, picker, Options(config, reference, page))
    IN [config |-> config, disabled |-> picker.disabled, acted |-> acted,
        possible |-> acted => /\ ~picker.disabled
                              /\ ControlValue(config, choices, Blank, act, TRUE) \in Range(choices),
        value |-> ControlValue(config, choices, SelectedValue(config, reference), act, acted),
        required |-> picker.required]

\* The browser submits no form whose required control is empty.
Blocked(control) == control.required /\ ~control.disabled /\ control.value = Blank

-----------------------------------------------------------------------------
(* Submission. *)

\* applyComposite and the binding of a single picker: the form store.
WithScript(form, controls, act) ==
    LET acted == {c \in controls : c.acted}
        Set(c, f) == IF act.kind = "clear" THEN Blank
                     ELSE act.key[CHOOSE i \in DOMAIN c.config.keyFields : c.config.keyFields[i] = f]
        store == FormStore(form, act)
    IN [f \in DOMAIN form |->
          LET by == {c \in acted : f \in Range(c.config.fields)}
          IN IF by = {} THEN store[f] ELSE Set(CHOOSE c \in by : TRUE, f)]

\* The components that a composite control submits.
Components(control) ==
    LET pieces == Split(control.value, ",") IN [i \in DOMAIN pieces |-> Decode(pieces[i])]

\* readFormWithCompositePicks rejects a value that is no key.
BadControl(control) ==
    /\ IsComposite(control.config) /\ ~control.disabled
    /\ control.value \notin {Blank, ClearValue}
    /\ \/ Malformed(control.value) \/ Blank \in Range(Components(control))
       \/ Len(Components(control)) # Len(control.config.keyFields)

\* The names and texts of a native submission, a blank one being as good as
\* none: a disabled control submits nothing, and a composite one overrides the
\* hidden inputs that hold the values of its columns.
Native(form, controls, act) ==
    LET store == FormStore(form, act)
        Baseline(f) == IF store[f] = NULL THEN Blank ELSE store[f]
        Sent(c, f) ==
            CASE ~IsComposite(c.config) -> IF c.disabled THEN Blank ELSE c.value
              [] IsComposite(c.config) /\ (c.disabled \/ c.value = Blank) -> Baseline(f)
              [] IsComposite(c.config) /\ c.value = ClearValue -> Blank
              [] OTHER -> Components(c)[CHOOSE i \in DOMAIN c.config.keyFields :
                                            c.config.keyFields[i] = f]
        Text(f) == LET by == {c \in controls : form[f].picker /\ f \in Range(c.config.fields)}
                   IN IF by = {} THEN Baseline(f) ELSE Sent(CHOOSE c \in by : TRUE, f)
    IN [f \in DOMAIN form |-> IF Text(f) = Blank THEN Default(form[f]) ELSE Text(f)]

\* buildMutationPayload
Dropped(field, value, mode) ==
    \/ field.readonly
    \/ field.supplied /\ value = Blank /\ ~(field.picker /\ field.nullable /\ mode = "update")
Payload(form, data, mode) ==
    [f \in {x \in DOMAIN form : ~Dropped(form[x], data[x], mode)} |->
        IF form[f].picker /\ data[f] = Blank THEN NULL ELSE data[f]]

Controls(ctx, table, act) ==
    LET configs == RelationFieldConfigs(ctx, table)
        form == Form(ctx, table, act.mode)
        read == AsRead(form, configs, act)
    IN {Control(form, configs, i, read) : i \in Rendered(form, configs)}

\* The default actions of the routes, from what a person does to the payload
\* and the key of the row it is for.
Submit(ctx, table, act) ==
    LET form == Form(ctx, table, act.mode)
        controls == Controls(ctx, table, act)
        read == AsRead(form, RelationFieldConfigs(ctx, table), act)
        data == IF act.script THEN WithScript(form, controls, read) ELSE Native(form, controls, read)
        payload == Payload(form, data, act.mode)
        at == IF act.mode = "update" THEN Followed(read.row, table.primaryKey) ELSE <<>>
    IN CASE \E c \in controls : Blocked(c) -> [status |-> "blocked"]
         [] act.mode = "update" /\ at = <<>> -> [status |-> "refused"]
         [] ~act.script /\ \E c \in controls : BadControl(c) -> [status |-> "refused"]
         [] OTHER -> IF /\ \A f \in DOMAIN form : Valid(form[f], data[f])
                        /\ act.mode = "update" => DOMAIN payload # {}  \* buildUpdateQuery
                     THEN [status |-> "saved", payload |-> payload, at |-> at]
                     ELSE [status |-> "refused"]
=============================================================================
