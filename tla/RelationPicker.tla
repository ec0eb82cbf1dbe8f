---------------------------- MODULE RelationPicker ----------------------------
(***************************************************************************)
(* The foreign-key picker of the Admin UI's forms: the debounced search    *)
(* (packages/svelte-ui/src/lib/form/relation-search.ts), the browser-side  *)
(* fetch under it (relation-options-client.ts) and the field that shows    *)
(* the rows (widgets/relation-select-field.svelte).                        *)
(*                                                                         *)
(* The user types (every keystroke is a search), selects and clears, while *)
(* the debounce timer fires and answers arrive late, out of order or not   *)
(* at all.                                                                 *)
(***************************************************************************)
EXTENDS Naturals, Sequences

CONSTANTS
    Rows,         \* rows of the referenced table
    MaxSearches,  \* bound on the keystrokes
    None          \* the cleared value, ''

ASSUME RelationPickerAssumption == MaxSearches \in Nat /\ None \notin Rows

VARIABLES
    searches,      \* every search() call, in order, as [promise, request]; its
                   \* index is its `seq`
    pendingHandle, \* the search whose timer is armed, 0 for null
    pendingReject, \* the search whose promise a new one rejects, 0 for null
    options,       \* rows in the dropdown
    known,         \* rows whose label was ever seen
    value,         \* the selected row, or None
    shown          \* history: the search whose rows are in the dropdown, 0 at first

search == <<searches, pendingHandle, pendingReject>>
field == <<options, known, value, shown>>
pickerVars == <<search, field>>

\* The promise that search() returned is "pending", "resolved", "cancelled" or
\* "failed".  The request that its timer starts is "unsent", "sent" or answered:
\* "rows", "refused" (an answer that is not 2xx) or "failed".

\* The server renders a first page, the current value with it.
PickerInit ==
    /\ searches = << >>
    /\ pendingHandle = 0
    /\ pendingReject = 0
    /\ options \in SUBSET Rows
    /\ known = options
    /\ value \in options \cup {None}
    /\ shown = 0

-----------------------------------------------------------------------------
(* relation-search.ts                                                      *)

\* Mutant: any request applies its rows.
AnyApplies(i) == TRUE
\* seq === latestSeq
IsLatest(i) == i = Len(searches)

\* Mutant: a superseded search is left pending.
Forgotten(i) == searches[i]
\* What cancelInternal makes of the search it finds pending.
Superseded(i) == IF i = pendingReject THEN [searches[i] EXCEPT !.promise = "cancelled"]
                                      ELSE searches[i]

TimerAfterSearch == Len(searches) + 1

\* oninput: the prior pending call is cancelled, a new one armed.
Type ==
    /\ Len(searches) < MaxSearches
    /\ searches' = Append([i \in 1..Len(searches) |-> Superseded(i)],
                          [promise |-> "pending", request |-> "unsent"])
    /\ pendingHandle' = TimerAfterSearch
    /\ pendingReject' = Len(searches) + 1
    /\ UNCHANGED field

\* The debounce timer fires: the request is sent and can no longer be cancelled.
TimerFires ==
    /\ pendingHandle # 0
    /\ searches' = [searches EXCEPT ![pendingHandle].request = "sent"]
    /\ pendingHandle' = 0
    /\ pendingReject' = 0
    /\ UNCHANGED field

-----------------------------------------------------------------------------
(* relation-select-field.svelte                                            *)

\* Mutant: only the server-rendered labels are remembered.
KnownAtFirst(rows) == known
Remembered(rows) == known \cup rows

\* The selected row is kept when its label is known.
WithSelected(rows) == rows \cup ({value} \cap Remembered(rows))

\* handleSearch resumes with the rows of search i.
Show(i, rows) ==
    /\ known' = Remembered(rows)
    /\ options' = WithSelected(rows)
    /\ shown' = i
    /\ UNCHANGED value

\* An answer arrives.  fetchRelationOptions turns one that is not 2xx into no
\* rows; a network error rejects, and handleSearch then keeps what it has.
Arrive(i, request, rows) ==
    /\ searches[i].request = "sent"
    /\ \/ /\ ~IsLatest(i)
          /\ searches' = [searches EXCEPT ![i] = [promise |-> "cancelled", request |-> request]]
          /\ UNCHANGED field
       \/ /\ IsLatest(i) /\ request = "failed"
          /\ searches' = [searches EXCEPT ![i] = [promise |-> "failed", request |-> request]]
          /\ UNCHANGED field
       \/ /\ IsLatest(i) /\ request # "failed"
          /\ searches' = [searches EXCEPT ![i] = [promise |-> "resolved", request |-> request]]
          /\ Show(i, rows)
    /\ UNCHANGED <<pendingHandle, pendingReject>>

Response(i) ==
    \/ \E rows \in SUBSET Rows : Arrive(i, "rows", rows)
    \/ Arrive(i, "refused", {})
    \/ Arrive(i, "failed", {})

\* The user picks one of the options shown, or clears the field.
Select ==
    /\ value' \in options \cup {None}
    /\ UNCHANGED <<search, options, known, shown>>

PickerNext ==
    \/ Type
    \/ TimerFires
    \/ \E i \in 1..Len(searches) : Response(i)
    \/ Select

\* Timers fire and fetches settle.
PickerFairness ==
    /\ WF_pickerVars(TimerFires)
    /\ \A i \in 1..MaxSearches : WF_pickerVars(i \in 1..Len(searches) /\ Response(i))

PickerSpec == PickerInit /\ [][PickerNext]_pickerVars
FairPickerSpec == PickerSpec /\ PickerFairness

-----------------------------------------------------------------------------
\* "A slow earlier request that resolves after a newer one cannot overwrite the
\* picker" (relation-search.ts:52-55): rows are only ever those of the latest
\* keystroke.
LatestSearchWins == [][shown' # shown => shown' = Len(searches)]_pickerVars

\* "The currently-selected row stays in the dropdown even after a search
\* narrows the results" (relation-select-field.svelte:47-49), however selection
\* and late answers interleave; otherwise saving would drop the foreign key.
SelectedStaysListed == value \in options \cup {None}

Awaited(i) == i \in 1..Len(searches) /\ searches[i].promise = "pending"

\* Every search() settles: nobody awaits a superseded one for ever.
EverySearchSettles == \A i \in 1..MaxSearches : Awaited(i) ~> ~Awaited(i)
=============================================================================
