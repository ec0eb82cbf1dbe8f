# A TLA+ model of Kozou

Kozou compiles a PostgreSQL schema into a *schema context* and serves it over three surfaces: a REST API (`packages/api`), an MCP server (`packages/mcp`) and an Admin UI (`packages/svelte-ui` on `packages/ui-core`). `kozou dev` runs the three together. This directory models the parts of it whose correctness depends on the order in which things happen or on edge cases of a data algorithm, model-checks them with TLC, and proves the most important results with TLAPS.

All paths below are relative to `src/packages/`. `PROJECT.json` maps every definition to the lines it models.

## 1. Inventory

| Component | Code | State | Operations | What is hard | What makes it correct |
|---|---|---|---|---|---|
| role-transaction envelope | `core/src/roleTransaction.ts` | a pooled client, its `unclean` flag, the PostgreSQL session | BEGIN, SET LOCAL ROLE, set_config, work, COMMIT, ROLLBACK, release | any statement may fail or lose its connection; sessions are reused by other users | no identity leaks between users; answers are true; clients are not leaked |
| REST dispatch | `api/src/startApiServer.ts`, `handler.ts` | none between requests | authenticate, read the body, run the route in the envelope, answer | a failed statement becomes a *result*, so the envelope commits an aborted transaction; refusals before the body is read, before the route, in the statement | a GET changes nothing; an error answer means no effect; what the document and `describe_table` allow is done |
| MCP `call` tool | `mcp/src/tools/call.ts`, `execution.ts` | none between calls | preflight, run in the envelope | rolls back where REST commits | the same promise as REST |
| MCP HTTP endpoint | `mcp/src/startHttpServer.ts`, `server.ts` | the map of sessions | route, authenticate, gate scopes, open / use / delete a session, refresh, close | awaits between lookup and use; sessions shared by tokens; close racing everything | work runs within the scopes and role of its own request's token; the map follows the transports |
| schema caches | `mcp/src/schemaCache.ts`, `ui-core/src/server/schema-cache.ts` | cached context, rebuild in flight, expiry | `get`, `invalidate` | joins, expiries, failures and refreshes around one rebuild | one rebuild at a time; recent, closed, monotone answers |
| introspection | `introspect/src/*.ts` | none | catalog reads, privileges of one role, filters | READ COMMITTED: DDL falls between the reads; what the catalogs keep apart must be put together again | no reference to a table that is not in the result; what it says of privileges, defaults and search paths is what PostgreSQL does |
| FK row cache | `ui-core/src/server/fk-row-cache.ts` | map of rows with dates | `get` with a loader | concurrent misses load twice and overwrite one another; a page's lookups settle in any order into one object | an answer is what the table said within the TTL before the question; a label is that of the row referred to |
| refusal log | `mcp/src/refusalLog.ts` | windows per reason, timers | `record`, timer, `flush`, `close` | overdue timers, window roll-over, close | every refusal is written or counted; lines are capped |
| relation picker | `svelte-ui/src/lib/form/relation-search.ts`, `widgets/relation-select-field.svelte` | debounce timer, request in flight, rows shown | type, debounce, fetch, abort, select | answers out of order, failures, superseded searches | the latest search wins; the selected row stays listed |
| `kozou dev` | `kozou/src/commands/dev.ts` | servers, pool, child process, flags | start, signal, child exit / error, close | every pair of teardown causes can race | backends closed once, pool outlives its server, the exit status is truthful |
| keyset pagination | `api/src/query-builder.ts`, `cursor.ts`, `handler.ts` | none (the cursor is the state, and the client holds it) | first page, `after`, `before` | NULLs, ties, edits between pages, reversed traversal | no row skipped or repeated |
| bearer verification | `core/src/auth.ts`, `mcp/src/httpAuth.ts`, `api/src/auth.ts` | key set held by `jose` | verify, map claims to a role, mint the Admin UI's token | an absent, an unreadable and a forbidden role are three answers; the contract of the MCP endpoint is inherited, defaulted and overridden | whoever gets in was granted the role; what is advertised is what is enforced, or the operator is told |
| schema context | `core/src/buildSchemaContext.ts`, `parseCommentTags.ts`, `checkEnum.ts` | none | build | tags over several lines, enumerations from two sources, hidden tables, names joined by dots | every line of a comment is placed; what agents and clients are told of the schema is true |
| RPC exposure | `core/src/buildFunctionContext.ts`, `rpc.ts`, `api/src/rpc.ts` | none | decide what is callable, map arguments, shape answers | overloads and homonyms, definer rights, defaults, domains and OUT arguments | nothing is callable that was not authorized; a call reaches the function it names |
| query builder, other than paging | `api/src/query-builder.ts`, `embed.ts`, `schema-lookup.ts` | none | resolve names and embeds, check values, build SELECT / INSERT / UPDATE / DELETE | selectors with several meanings; labels read at compile time; numeric boundaries | an embed reads the relation it names; no value is refused that PostgreSQL takes |
| OpenAPI, docs, codegen | `api/src/openapi.ts`, `kozou/src/docs.ts`, `codegen` | none | render | the document repeats decisions that the router and the embed resolver make on their own | what is documented is what happens |
| discovery tools | `mcp/src/tools/*.ts` | none | describe tables, views and concepts | claims about roles the compiler does not know | no advice is false |
| configuration and CLI | `kozou/src/config.ts`, `commands/dev-runtime.ts`, `dev.ts`, `mcp.ts` | the loaded configuration, the child's environment | load, validate, inherit, start | four sources, each surface deciding with its own copy; an inherited environment | startup says what the surfaces then do; the described role is the acting one |
| Connect page | `svelte-ui/src/lib/connect/mcp-connection.ts` | none | render | it knows the endpoint by its environment only | its address works |
| adapters | `ui-core/src/adapter/*.ts` | none | lists, searches, reads and writes over PostgREST or the REST API | two backends with other grammars of search and order, other limits, other answers to what fails | the same page does the same thing over either; what cannot be asked is refused |
| forms, lists and routes | `svelte-ui/src/lib/form`, `lib/list`, `lib/server`, `routes`; `ui-core/src/query`, `list` | none on the server: the URL, and the form in the browser | list, sort, search, page; render, submit, delete; call a function | composite keys, partial NULLs, two ways of submission, numbers beyond a double; defaults and limits that differ between URL, adapter and API | a save stores what was picked and nothing else, in the row that was opened; its user is told what happened; pages of a list join; a blank argument leaves its DEFAULT to apply |

How they interact: the three surfaces ask a *schema cache* for the context; a miss runs *introspection* on the database. REST and the MCP `call` tool run every authenticated query through the *envelope* over a `pg.Pool`. The *endpoint* hands messages of a session to the SDK's transport, which calls the *tool dispatch* of `server.ts`, which asks the cache, derives the identity from the request's own token and runs the tool. Refusals go to the *refusal log*. The Admin UI reads rows through an adapter, labels foreign keys through the *FK row cache*, and its *relation picker* asks for options. `kozou dev` starts the API, the MCP server and the Admin UI's process, and stops them.

## 2. Modules

| Module | Models | State and actions against the code |
|---|---|---|
| `RoleTransaction` | envelope, REST dispatch, `call` tool | `pc[r]` is where request `r`'s handler awaits; one action per awaited statement, each with its success, refusal and lost connection. `slot`, `queue` are `pg.Pool`; `txState`, `readOnly`, `localRole`, `localClaims`, `sessionRole`, `staged`, `committed` are PostgreSQL (external). `Crash` ends the process anywhere. |
| `AtomicRequests` | what the envelope promises | a request is pending, then takes effect and answers, or fails without effect; a lost answer leaves the effect open. The answer to what took effect is "ok" or "notFound": an UPDATE or DELETE that returns no row is a 404 of the handler, not an exception, so whatever its triggers changed is committed with it (`handler.ts:336`, `:348`). |
| `RoleTransactionProofs` | theorems about the two | see section 5, as for every `*Proofs`. |
| `SchemaCache` | both caches over introspection | `flights` are the rebuilds, with what each read; `inflight`, `cached` are the object's fields; `Get` = `Hit`, `Join` or `Start`. `surface` selects the open (`mcp`) or closed (`ui`) expiry and what a failure leaves. |
| `SchemaCacheProofs` | theorems about `SchemaCache` | |
| `FkLabels` | `fk-row-cache.ts`, `resolve-fk-labels.ts` | `Render` calls the cache's `get` for every relation of a page at once; `ReadRow`, `FailRead` and `Deliver` are what happens to those that miss, before and after the database is read; `WriteRow` is another session. `entries` is the map, `out` the object that the lookups fill, `said` is history. |
| `RecentReads` | what a cache with a lifetime promises | a question is answered with what the source said of the key, no longer ago than the lifetime when it was asked. |
| `FkLabelsProofs` | theorems about `FkLabels`, `RecentReads` and `RelationPicker` | |
| `RefusalLog` | `refusalLog.ts` | `Record`, `TimerFires` (as late as it likes), `Close`, `Tick`; times are ages, so the clock is unbounded. The specification is `LogSpec`. |
| `RelationPicker` | search, fetch, field | typing, the debounce timer, the request's answers and failures in any order. The specification is `PickerSpec`. |
| `DevLifecycle` | `dev.ts` | startup in order, signals, the child's exit and spawn error (it is then `neverRan`), the two closes, requests in flight. The specification is `DevSpec`. |
| `McpEndpoint` | `startHttpServer.ts`, tool dispatch | a request's state is the await it is in (`verifying`, `reading`, `running`, `streaming`); `transports` is the map, `transport` the SDK objects (external); `Expire`, `Vanish` are the world. |
| `McpEndpointProofs` | theorems about `McpEndpoint` and `RefusalLog` | |
| `Keyset` | `buildKeysetPredicate` and its helpers, `flipOrder`; PostgreSQL's ORDER BY | operators on rows; columns, NULLs and orders are constants. |
| `KeysetPaging` | `listResource`, `listCursors`, `buildListQuery` | `List` reads a page by OFFSET or by the cursor of the last answer; `Edit` is another client. `walk` and `touched` are history. |
| `KeysetProofs` | theorems about `Keyset` and `KeysetPaging` | |
| `BearerAuth` | `core/src/auth.ts` | operators: the refusals of `authenticate` in their order, `resolveRole`, `signServiceToken`. |
| `ResourceServer` | `mcp/src/httpAuth.ts` | operators: what is refused at startup, the contract enforced, the divergences reported. |
| `Deployment` | `config.ts`, `dev-runtime.ts`, `commands/mcp.ts`, the rebinding guard, the child's environment | `Load`, `Dev`, `Mcp` are startup; one action per surface that answers: REST, the Admin UI, the Connect page, MCP over HTTP and stdio. |
| `DeploymentProofs` | theorems about `Deployment` with `BearerAuth` and `ResourceServer`, and about `DevLifecycle` | |
| `Catalog` | PostgreSQL: catalogs and its judgements at run time (external) | operators: privileges, row-level security, resolution of a call, columns of its result, hijackable search paths. |
| `Lists` | selections of list elements by position, which `Introspection`, `CommentTags`, `SchemaContext`, `McpTools` and `CompiledSurfaces` share | operators. |
| `Introspection` | `introspect/src` | operators from a database to the raw schema. |
| `CommentTags` | `parseCommentTags.ts` | a fold over lines; and the same meaning stated of the whole comment, for comparison. |
| `FunctionExposure` | `buildFunctionContext.ts`, `rpc.ts`, `call.ts` | operators: who is exposed; a call from its check to the shape of its answer. |
| `SchemaContext` | `buildSchemaContext.ts`, `checkEnum.ts`, `widget.ts` | operators from the raw schema to the compiled one. |
| `McpTools` | `mcp/src/tools` | operators: what four of the tools say. |
| `PostgresInput` | what PostgreSQL takes as a value of a type (external) | operators: integer ranges, rounding of floats and of `numeric(p,s)`, literals. A value is a record of what tells values apart: its form, mantissa, exponent, word. |
| `ValuePreflight` | the checks of values in `query-builder.ts` | operators: what is refused with 400 in a filter, a key, a body. |
| `RestSurface` | `schema-lookup.ts`, `embed.ts`, `handler.ts`, `openapi.ts` | operators: resolution, routes, embeds, the paths, responses and input schemas of the document. |
| `RowWrites` | `startApiServer.ts`, `handler.ts`, `query-builder.ts`, `dbError.ts` for one row; PostgreSQL's order of refusals (external) | operators: `Dispatch` takes a request from its body to the status and to whether the row was written. |
| `EditForm` | `relation-field-config.ts`, `composite-form.ts`, `zod-from-column.ts`, `mutation-payload.ts`, the routes of the forms, `resource-id.ts`, the numbers of both adapters | operators: which foreign keys get a picker, what a form submits with and without JavaScript, what is saved of it, the key a link leads to, what a double makes of a number. |
| `RowPages` | the form actions and the delete action, `adapter-error.ts`, the failures of both adapters; PostgREST (external) | operators: what is submitted goes through `EditForm`, an adapter and `RowWrites` to what the user is told. |
| `ListPage` | `list-params.ts`, `list-href.ts`, `ListTable.svelte`, `list` and `searchRelation` of both adapters, `buildListQuery`, `splitInList` | operators from the URL of a list to what is run, and to the URLs of its links. A sort is a text, joined by `,` and `:` in a URL and by `,` and `.` for an adapter, and cut again by the other side, as in the code. |
| `ActionForm` | `action-form.ts`, the route of an exposed function | operators: the form of a function, what is submitted of it, and the call. |
| `CompiledSurfaces` | all of these together | `Compile` builds the schema context of a database once; `Call`, `Act`, `Request`, `Write`, `Embed`, `Value`, `Edit`, `Save`, `Browse`, `InList`, `Describe` are one request of each kind. The state is the compiled schema and the answer, as in the code, where nothing is kept between requests. |
| `ListProofs`, `CompiledSurfacesProofs` | theorems about `CompiledSurfaces`; those about lists are in the former | |

`MC*` modules give the constants of the runs; modules whose constants are plain sets have none. An operator commented "Mutant" stands above the definition it is a broken variant of; no specification uses one.

Two abstract specifications are implemented, each by `INSTANCE ... WITH` and checked as a property: `AtomicRequests` by `RoleTransaction` (a request's life is its `pc`, its effect the COMMIT, its answer the handler's) and `RecentReads` by `FkLabels` (a question is a lookup, its answer what the cache returned; the times of the implementation are the times at which loads began).

What is external: `pg.Pool` and PostgreSQL (transactions, SET LOCAL, ORDER BY, NULL comparison), the MCP SDK's transport, PostgREST, timers and microtasks of Node (callbacks that follow one settled promise in the same drain of the microtask queue are one step), the browser's `fetch`. They are modelled from how the code uses them, and marked `external` in the map.

## 3. Runs

| Run | Checks | Bounds, and why they suffice |
|---|---|---|
| `role_transactions` | type, `IdleClientsAreClean`, `WorkRunsAsRequester`, `AnswersAreTrue`, `ClientsAccountedFor`, `EveryRequestFinishes`, refinement of `AtomicRequests` | 3 requests, one of each kind (REST GET, REST write, MCP call), 2 roles, 2 connections: a connection is reused, waited for and lost, and two requests hold clients at once. 103 thousand states. |
| `schema_cache` | `OneRebuildAtATime`, `ServedSchemaIsClosed`, `NeverGoesBack`, `EveryGetSettles` | either cache; 2 callers, 2 tables that refer to each other, 2 rebuilds, 1 refresh, TTL 1 of 2 ticks: a caller joins, another starts over after an expiry, DDL falls in each gap. 390 thousand states. |
| `schema_refresh` (violation) | `RefreshForcesReread` | a refresh during a rebuild is lost, see section 6. |
| `fk_labels` | `LabelsNameTheRow`, `ImplementsRecentReads` | two renders over two pages: one value that is an id and a code, a composite key listed in another order, one that shares its first column with a single key, a table that is gone; TTL of 2 ticks, time to 2, one write or failed read: a hit, an expiry, two concurrent misses and a load that ends last although it began first. |
| `fk_label_row` (violation) | `EveryLabelNamesTheRow` | section 6. |
| `refusal_log` | `EveryRefusalIsAccountedFor` (the volume cap included), `HeldBackIsReported` | 2 reasons, 2 lines per window, window of 2 ticks, 5 refusals each: windows overflow, roll over and are closed. |
| `relation_picker` | `SelectedStaysListed`, `LatestSearchWins`, `EverySearchSettles` | 3 rows, 3 searches: an answer can be overtaken by two others. |
| `dev_lifecycle` | `TeardownIsClean` (requests in flight keep their pool; a child that never ran, or failed unasked, shows in the exit status), `TeardownCompletes` | 2 requests, 2 signals, both servers: every pair of teardown causes. |
| `mcp_endpoint` | `WorkIsAuthorized` (batches refused whole included), `SessionIsNoCredential`, `MapHoldsOpenTransports`, `EveryRequestSettles` | 2 requests, 3 tokens of different scopes and roles, one role not allowed, and the three ways to start the server: one request opens a session, the other uses, deletes or outlives it. 555 thousand states. |
| `keyset_paging` | `WalkIsGapless`, `OfferedPagesExist` | 4 pages over 3 rows whose sort column takes 2 values or NULL, 3 sort orders, 2 page sizes, 1 edit: 64 initial tables hold every combination of ties and NULLs; a walk reaches the end and turns round. A client follows the cursors of its latest page only. |
| `deployment` | `RolesAreGranted`, `ExposureIsHonest`, `SilenceMeansAgreement`, `DescribedRoleActs`, `ConnectPageIsTrue` | 9,400 configurations (each way to verify a token, wrong ones included; allowed, default and anonymous roles; MCP blocks that bind, inherit or diverge; bind and advertised addresses) under 3 environments and 3 commands; 11 headers, one request in each behaviour, 2 moments. 390 thousand states. |
| `compiled_surfaces` | `ExposureIsAuthorized`, `CallsAreFaithful`, `AdviceIsTrue`, `EditsDoWhatWasAsked`, `RefusalsAreDeserved`, `DocumentMatchesRoutes`, `EmbedsAreHonoured`, `ListsAreHonoured`, `EveryLineIsPlaced` | 5,040 databases in seventeen families, each of which varies all that one part of the compiler looks at and fixes the rest: definer rights (8 search paths, 5 owners of a schema's CREATE, 4 allowlists), tags, overloads and names that coincide once joined by a dot, argument lists with defaults against return types, grants and roles, up to 2 policies, foreign keys (composite, doubled, self-referring, named like their table), embeds of up to 2 paths of up to 2 segments, resources that share names across schemas, forms over foreign keys of one and two columns (in both orders, shared, nullable or not, in the primary key, denied by grants) with every row over NULL, the empty text, a comma and a percent sign and every pick and clear, enumerations, columns of the checked types (plain, constrained, through one and two domains, arrays, under a CHECK) with 50 values on and around every boundary in 6 uses, lists of eight sets of columns, as table and view, under URLs that hold each way to spell a page, a size, a sort (cut and joined at commas, colons and dots, over columns named `x,y`, `k:v` and ` s` too) and a term with quotes, wildcards and separators, over both adapters and totals around the ends of pages; what may stand in `in.(...)`, up to 6 characters; forms of functions of up to 2 arguments of 3 widgets with and without a DEFAULT, each left alone, filled in or emptied again; one-row writes: six ways a column gets its value, keyed and not, a view, 12 sets of privileges and 6 sets of policies, with every body, role and event (a row gone or dropped by a trigger, each SQLSTATE), as a request and as a page of the Admin UI whose answer may be lost; and every comment of up to 3 of 11 kinds of lines. The operators look at one object or one pair, so more objects add repetition. Sizes of a page (2, at most 4), the largest offset (15) and the columns shown (3) are constants, small enough that each limit is met. The integer types have 4, 6 and 8 bits, doubles of three bits tell 8 from 9 and the floats the exponents of numbers up to 1024: the comparisons are the code's, with its constants as parameters. 646 thousand states. |

Fairness. Liveness is checked under weak fairness of the program's own steps only: promises of the process settle (statements are bounded by `statement_timeout`, verification by the key set's timeout; the picker's `fetch` has no bound of its own, since `relation-options-client.ts:41` passes no abort signal, so `EverySearchSettles` rests on the browser to settle it), timers fire some time after they are due, and events that happened are delivered. Nothing forces a client to send a request, a signal to arrive or the Admin UI to end by itself; that it ends once told to is assumed in `TeardownCompletes` alone. `CHECK_DEADLOCK FALSE` is set where a bound on the exploration ends a behaviour and where clients may just stop.

## 4. Properties and hazards

`PROJECT.json` lists under `hazards` what is hard to test in this code, each at its line with the properties that cover it; a hazard without a property says why. Every property of a passing run has a mutant: a plausible bug in one mapped definition that TLC finds.

The invariants of `CompiledSurfaces` are conjunctions of named parts, one per question: `CallsAreFaithful` holds `ActionsAreFaithful` (the form of a function) and `WritesAreFaithful` (one row over REST, against the document and `describe_table`); `EditsDoWhatWasAsked` holds `PickersCanSearch` and `PagesTellTheTruth` (what the user of the Admin UI is told); `RefusalsAreDeserved` holds `Readings` (the grammar of `in.(...)`). Each says in its comment what it leaves out, and section 6 lists these with their reasons.

## 5. Proofs

`RoleTransactionProofs` proves, for any set of requests, connections and roles and any kinds:
`TypeCorrect`, `Isolation` (`IdleClientsAreClean` and `WorkRunsAsRequester`), `Truthfulness` (`AnswersAreTrue`), `NoClientLeak` (`ClientsAccountedFor`) and `Refinement` (`RoleTransaction` implements `AtomicRequests`). None of the invariants is inductive alone. `IInv` adds what the code keeps implicitly: the pool's queue holds each waiting request once; a client is held exactly by the request whose handler is between BEGIN and release; what a held session carries is determined by its holder's position (role and claims set after their statements, nothing staged before the work, nothing open at release unless flagged); what is durable is only what a request wrote; and an answer that claims completion, a 404 of a statement included, waits for the COMMIT that makes it true. A step touches one request and at most one connection, so the frame lemmas (`UntouchedLemma`, `FrameLemma`) discharge everybody else once, and each action is left with its own request. Refinement follows from `IInv` by mapping each step to a step of the promise or a stutter.

`KeysetProofs` proves, for every set of columns, every order and all rows: `PredicateIsTheOrder` (the WHERE clause selects exactly the rows that sort after the boundary: by cases on one key, then under the quantifier over positions), `FlipReverses` (a `before` traversal is the exact reverse, NULL placement included) and `OrderIsTotal` (rows that differ in a column of the order are never tied; the first differing position exists because `<` on the naturals is well-founded). On these rest the two properties of a walk, for tables and pages of any size and any edits: `NothingSkippedOrRepeated` (`WalkIsGapless`) and `PagesOffered` (`OfferedPagesExist`). Their invariant joins two facts. `WalkIsRead`: of the rows that no edit touched, the walk has read each that lies between where it began and where it got to exactly once, and none of the others. `CursorsKeepEdges`: a cursor holds the sort keys of the row at its edge of the page, and the cursor ahead those of the last row the walk read. An answer then prolongs the walk by the rows after that edge, or begins another; without the second fact the next page could start anywhere. That `Sorted` is the one sequence of its rows in the order is proved of the definition by `CHOOSE`, from `OrderIsTotal`.

`SchemaCacheProofs` proves, for any callers, tables, rebuilds, refreshes and lifetime and for both surfaces: `SingleFlight` (`OneRebuildAtATime`), `NoDanglingReference` (`ServedSchemaIsClosed`) and the action property `Monotonicity` (`NeverGoesBack`). The invariant names what the two fields of the object stand for: the rebuild in flight is the youngest and the only one that runs, the cached one is the youngest that succeeded, whoever waits waits for the former, and a rebuild that succeeded refers only to tables it holds. The last holds although each read saw another catalog, because the last step of a rebuild prunes; monotonicity follows from the order of the first two.

`FkLabelsProofs` proves `Refinement` (`FkLabels` implements `RecentReads`) for any pages, tables, renders, writes, failures and lifetime. An entry was heard no earlier than the date it is stamped with, and so was a row on its way back, counted from the start of its lookup: an older load that ends last overwrites a younger entry, but with its older date. The refinement mapping takes the lookups as they are, except that a row on its way back is still a question (`questions`). On top of it `LabelsAreTrue` proves `LabelsNameTheRow`: `LabelsOf` says that the object a page's lookups write into holds, under each column, the label of a relation whose first column it is, and none is missing that was answered. That the key looked up is the row referenced (`KeyIsReferenced`) needs the lists of columns of a key and of a reference to be permutations of each other, which the code checks by length and membership only: it suffices because neither names a column twice, which PostgreSQL guarantees (`TablesAssumption`, `PageAssumption`).

The module also holds the theorems of the relation picker, `SelectedRowStays` (`SelectedStaysListed`) and `LateAnswersAreDropped` (`LatestSearchWins`): every row offered is one whose label is remembered, so a narrower answer keeps the selected row (`PickerInv`).

`McpEndpointProofs` proves, for any requests, tokens, scopes, roles and bodies: `Authorization` (`WorkIsAuthorized`), `SessionsAreNoCredentials` (`SessionIsNoCredential`) and `NoSessionLeak` (`MapHoldsOpenTransports`). `RequestInv` ties the await a request is in to what was verified before it: nothing has happened while it is verified or read; it is dispatched only after every message of its body is within the scopes; whatever ran was asked for by this request and ran under the role of its own token, whosever the session is; and a token that had expired when it arrived leads to an answer and nothing else.

The module also holds `Accounting` (`EveryRefusalIsAccountedFor` of `RefusalLog`), for any reasons, window and number of lines per window, any lateness of the timers and any moment of `close()`. The cap on volume says that any stretch as long as a window holds fewer than twice the lines of one; it is inductive only together with the ages of all lines: they are ordered, the open window began with its first line, and of the lines before the open window fewer than `PER_WINDOW` are young, since they belong to one window whose first line is older than a whole one.

`DeploymentProofs` proves, for every configuration, environment, header, host and moment: `Grants` (`RolesAreGranted`), `ExposureAnnounced` (`ExposureIsHonest`), `SilentContract` (`SilenceMeansAgreement`), `DescriptionsFit` (`DescribedRoleActs`) and `ConnectPages` (`ConnectPageIsTrue`). The invariant is that what startup decided is a function of the file and the environment (`BootInv`) and that an answer is the one of the surface that gave it (`ReplyInv`), so what is left are lemmas about operators: whichever of the 17 checks fails first, the answer is a refusal (`TokenOutcome`), what is accepted is granted (`AcceptedIsGranted`), and, for each way to start, whether what is advertised, bound or described agrees with what is enforced. It also holds `CleanTeardown` (`TeardownIsClean` of `DevLifecycle`): `PoolInv` keeps the pool open until the API is closed and the API from closing while a request is in flight, `StatusInv` ties the exit status to the end of the child that nobody signalled and to the spawn that failed, whoever signalled, and the flag to the one close of the backends, whichever causes of a teardown race.

`CompiledSurfacesProofs` proves, for every set of databases, operator's lists and options, `Exposure` (`ExposureIsAuthorized`), `Documentation` (`DocumentMatchesRoutes`), `Calls` (`CallsAreFaithful`), `Embedding` (`EmbedsHideNothing`, a part of `EmbedsAreHonoured`), `Lists` (`ListsAreHonoured`), `Advice` (`AdviceIsTrue`) and `Placement` (`EveryLineIsPlaced`). The first rests on two theorems about operators. `SafePathsAreSafe`: a search path that `checkSafeSearchPath` accepts cannot be hijacked, since the parsed elements stand for the declared ones, a schema found writable by nobody is so through every membership, and `pg_temp` is last. `TagsMeanTheirLines`: what `parseCommentTags` exposes is what the last `@expose` line of the comment says, for comments of any length. A comment is parsed by `FoldLeft`, whose library definition recurs on the subsets of the positions. `LoopIsDefined` shows by the least counterexample that the recursion has a solution, for the loops over lines, segments and paths alike, `LoopOverList` that it goes through the list element by element, and `CommentIsFolded` that the comment is parsed line by line; `ExposedUpTo` is the invariant over the lines. The inductive invariant of the specification says that the schema context is the one compiled of the catalog, since no request writes it; each function exposed is traced back through `buildFunctionContexts` and `fetchFunctions` to a function of the database that passed every guard of `decideAndBuild` under its own tag. It is the only one of its name because names with a dot are refused after they were grouped (`DottedNames`), and because overloads differ in what is read of them (`ReadApart`).

For `Documentation` the invariant adds that an answer to a request is what its route says (`AnswerInv`). A documented path resolves to the resource it was written for: by its bare name if nothing else has it and no qualified name is spelled like it, else by the qualified name (`ResolvesToOne`). A request that succeeds is for such a resource, which offers what was done (`AnsweredOperations`), or for the root, the document or a function. Each column of a table in the context is traced through `pruneDanglingForeignKeys` and `fetchTables` to its column in the database (`TablesOfContext`).

`Calls` has three parts. A call: the arguments and the result of the one definition behind an exposed name (`OneBehind`) are compiled argument by argument, so that what may be omitted is what PostgreSQL has a default for, with OUT and VARIADIC arguments between (`InputsCompiled`); hence `buildRpcCall` refuses what no definition takes (`CalleesCompiled`), and what it reads of the answer are the columns that PostgreSQL returns, through domains and aliases (`ReturnsCompiled`, `RowsCompiled`, `AnswersAreShaped`). A form of a function: what each control sends by what was done to it (`ControlsSend`), so what is sent of an argument (`ArgumentsSent`) and when a form cannot be sent (`FormsReach`). A request for one row: its path leads to the one relation it is documented for (`RowRoutes`, `ResourcesAreRelations`); a statement ends by the first reason that stands in its way (`FirstReason`, `StatementEnds`), and each ending has its status (`EndingsAreAnswered`); and a body that is documented, for a role that `describe_table` tells it may write it, meets none of PostgreSQL's reasons but what came in between (`ValidBodiesFit`, `ToldMayRun`, `RowsAreFaithful`). What no path documents is answered as missing or not allowed, and nothing is written (`UnroutedIsRefused`).

`Embedding` is about the two loops of `resolveEmbedSpec`, over the paths and over the segments of each (`RequestIsFolded`, `PathIsFolded`). The invariant over both (`EmbeddedBy`) says of every node that its key is none of the columns of the relation it is put below, of every two in one place that keys and relations differ, and of the place that was reached that its relation has the name of the last hop; a path starts over with the nodes of those before it (`SegmentInserted`, `PathInserted`, `PathsInserted`).

`Lists`, whose lemmas are in `ListProofs`, begins with texts. What is joined by a separator that is in none of its parts is cut into the same parts again (`JoinedSplits`), and `Trim` leaves a text alone that has no blank at either end (`TrimStrips`, `TextIsStripped`). Whatever the text behind `?sort=`, what is read of it is a list of fields without a comma, a colon or a blank in front, each with an order (`SortIsRead`); so it can be written without ambiguity (`SortIsWritable`), and is read back from a link (`SortIsReadBack`) and from what the REST adapter sends, cut at the last dot whatever dots the names have (`SentIsRead`, `SortIsSent`). With that, the parameters that a link carries are read from it again (`LinkIsRead`, `PageLinkIsRead`, `SortLinkIsRead`), and it is known of any list, over either adapter, what is run for it (`RunOf`, `ListRuns`). Pages join because the offset of a page and the number of pages agree (`PageArithmetic`: there is a page after this one exactly if rows are left; over PostgREST a link never leads behind the last row, so it is not answered 416), so each link moves the window by its own size (`PagesAreJoined`); a header's link puts the column in front of what stays of the key, and the link behind it the other way round (`HeadersAreSorted`), for a column whose name the text can carry (`Linkable`). A term is looked for as it stands: quoted character by character and read back by PostgREST's automaton, it is the term between two stars (`QuotedIsRead`, by induction over the term), and the stars are the wildcards (`StarsAreWild`). The columns it is looked for in are those of the relation that the resource was made of (`ResourcesAreListed`), texts as both the compiler and PostgreSQL see them, since only the end of a chain of domains has the name of a built-in text (`TextIsLast`, `TextsAreSearched`); and a list that is refused has one of the reasons that `RunsAsAsked` names (`ListsFail`).

`Advice` needs the way back as well: the tables of the context are exactly those of the configured schemas that no pattern filters out and that are not hidden (`TablesOfContext`), each with the privileges, policies and foreign keys of its relation (`TableOf`). What a tool tells is what it computes of the context (`AnswerInv`), hence of the database: privileges gated by USAGE (`ToldPrivileges`), commands that no policy covers (`DeniedIsRefused`), the column that the last foreign key on a column refers to (`ReferenceIsReal`), and joins. A foreign key is kept if the name of its table is that of one that is read, and a join is suggested if the name of its target is among those the view depends on; both compare names joined by a dot, and mean the relation that the key refers to because no two relations share such a name (`JoinableKey`); where two do, nothing is claimed of joins. `AscendingLists` and `KeptElements` say what is kept of a list.

`Placement` compares two readings of a comment: the parser's, which goes through the lines with one pending block, and the one a reader has, in which each line belongs to a block or not (`BelongsTo`). The invariant over the lines (`Placed`) says which blocks are closed after `k` of them, that these are in the notes, rules or examples in their order, that the pending lines are those of the one open block so far (`OneOpen`: a line that opens a block never belongs to another), and that the body holds the lines of the description. A block that takes the next line stays open (`BlockGoesOn`), one that does not is complete (`BlockIsComplete`), and a selection grows by its last element (`SelectedAppended`).

Assumptions are the named `ASSUME`s on the constants, which TLC evaluates in every run, and what section 2 calls external. They say what the constants are (sets, widths, positive bounds), what the configuration schema lets through (`ConfigAssumption`), and what PostgreSQL or the introspection guarantees of its catalogs (`TablesAssumption`, `PageAssumption`, `KeysetPagingAssumption`, `CatalogsAssumption`: names are not empty and not repeated, the key is not NULL, a function or relation is in a schema that exists, overloads differ in their arguments, the columns of a relation in their names, a foreign key names as many columns as it refers to, in a table of the database, a comment is a list of lines, no two inputs of a function have one name, and a chain of domains ends in a type that is none; `RelationsAssumption`: a relation and its columns have names, and of the types of a column only the last, which is no domain, has the name of a built-in text). `PagesAssumption` and `UrlsAssumption` say that the limits of pages are positive numbers, that a name is spelled by a text, and what a URL of a list is made of: any texts for the term and the sort, and numbers.

Only model-checked: the liveness properties (`EveryRequestFinishes`, `EveryGetSettles`, `HeldBackIsReported`, `EverySearchSettles`, `TeardownCompletes`, `EveryRequestSettles`), as TLAPS has neither ENABLED nor fairness with the installed provers; and three invariants of `CompiledSurfaces`, `EditsDoWhatWasAsked`, `RefusalsAreDeserved` and, as far as the hints of the document are concerned, `EmbedsAreHonoured`, whose operators build values, texts of numbers and forms, and recur over chains of foreign keys. The other safety properties of passing runs are all theorems.

## 6. Findings

* `schema_refresh`: `invalidate()` leaves the rebuild in flight alone, so the call after a refresh may be served, and cache for a whole TTL, a rebuild that read the catalog before the refresh.
* `fk_label_row`: a foreign key that references a unique column other than the primary key is labelled with, and linked to, the row whose primary key happens to have the value.

The exact lines, and the sentences of the repository they disagree with, are in `PROJECT.json`.

Seen while modelling, and not kept as runs. Each is either exempted by name from a property, in the comment that states it, or outside the model's abstraction.

Startup, caches and servers:

* `kozou mcp` over stdio, with an OAuth block that allows one role and a fixed execution role that is another, describes the privileges of the former and executes as the latter (`DescribedRoleActs` speaks of HTTP);
* the search of a relation picker is not bounded: a superseded one is ignored but goes on (`relation-options-client.ts:41`), and one that hangs is awaited for ever;
* a refused search empties the relation picker, whose client says the prior options are kept (`relation-options-client.ts:42`);
* `kozou dev` resolves on a signal without waiting for the Admin UI's process (`dev.ts:290`);
* with RS256, no token and an anonymous role, startup says the Admin UI is rejected with 401 although it acts as that role;
* an `Origin` with a trailing dot or brackets is compared as it stands, a `Host` is normalised first;
* the session of an MCP client that goes away without DELETE stays in the map (`startHttpServer.ts:929`);
* two renders that miss one key of the FK row cache at once both load it, although `resolve-fk-labels.ts:24` leaves the removal of duplicates to the cache; the entry stored last may be the older, and is then replaced the sooner, since it keeps the date at which it was begun. Expired entries are replaced and never removed. Of two single-column foreign keys on one column, the page shows the label that arrives last; a display column that is NULL gives the label `null`; a read that hangs keeps the page waiting.

Forms and pages, exempted from `EditsDoWhatWasAsked` and its parts:

* a create form sent without JavaScript whose required picker was left alone refers to the first row offered: no option is selected, and the browser takes the first that is not disabled. `relation-select-composite-field.svelte:185` means the placeholder to prevent that;
* an edit form sent without JavaScript that shows a part of the primary key in a picker is refused: the select is disabled and submits nothing, and the column is required;
* a row whose composite reference is partly NULL and has a NOT NULL part cannot be saved before a row is picked;
* an empty text in a column is saved as NULL, dropped or refused, as the code documents for the keys of pickers; a row whose only key is the empty text, or has a comma in a composite key, has no link;
* no column is known to be GENERATED: `mutation-payload.ts:36` drops "read-only (server-generated / hint-locked)" columns so that their values are not sent back ("a hard error for a generated column"), but `readonly` comes from privileges and hints, and the introspection reads neither `attidentity` nor `attgenerated`. An edit form of a table with a stored generated column, or with a key GENERATED ALWAYS AS IDENTITY, sends it and fails; a create form asks for the identity key and fails if it is ALWAYS;
* a number that no double holds is saved as the double next to it, the key included, unless a picker holds it; `api/README.md:253` renders such numbers as texts to preserve them. Over PostgREST it is rounded when it is read: the row of such a key is not reached, and a pick stores a neighbour;
* over PostgREST a delete of a row that is gone, or that row-level security hides, is shown as done (204), and what is forbidden or gone is explained as values that were rejected: the adapter sends no token, so the status is 401, and 406 for no row;
* over the API a row that a trigger drops is answered 201 with an empty body, which the adapter cannot parse: an error page; a form does not ask whether its role may read what it saves, and ends in "no permission" (REST writes return all columns);
* every field is sent, so a concurrent change of another column is undone;
* the form of a function sends a number with a DEFAULT that was typed and emptied again, with JavaScript, as 0, against `action-form.ts:15`; required numbers stand at 0; a box with DEFAULT TRUE cannot be sent as false without JavaScript.

Lists, exempted from `ListsAreHonoured`:

* over the API a page of more than 200 rows is clamped, while the list counts its pages by the size asked for: rows are left that Next never reaches;
* a search in a view over PostgREST fails if it has a `uuid`, a `text[]` or a column whose type is named like a text: `views.ts` and the table's route choose by the type's name or prefix; the API ignores a search in which no column can be searched; the adapters do not search the same columns;
* a column whose name holds a comma or a colon, or begins with a space, is not sorted by its header: `list-href.ts:33` and `:52` write names as they are, and `list-params.ts:59-74` cuts at commas and colons and trims, so other columns are read, or none (`Linkable`);
* a page behind the last row is empty over the API and an error over PostgREST, which answers 416 because the rows are counted (`postgrest.ts:126`): a link that was kept while rows were deleted fails;
* PostgREST pages without an order have none; names with dots, commas or colons cannot be ordered or searched by over PostgREST; a column named like a parameter of PostgREST (`limit`) clashes with it;
* `%`, `_` and `\` of a search term act as LIKE wildcards; the search form drops the order and the size;
* rows and total are two statements, and may disagree.

Requests and the compiled surfaces, exempted from `CallsAreFaithful`, `DocumentMatchesRoutes`, `EmbedsAreHonoured`, `AdviceIsTrue` and `RefusalsAreDeserved`:

* columns GENERATED ALWAYS are documented as input and are a 500 if named; NOT NULL identity columns, which PostgreSQL fills in, are required by the create schema of the OpenAPI document;
* a role with INSERT or UPDATE but without SELECT, to whom `describe_table` and the document offer the write, gets 403, since the row is returned; a delete that breaks a CHECK or NOT NULL of a referring table answers 400, which is not documented for DELETE, nor are 413 and 415;
* a foreign key whose column has the name of another table that can be embedded, and two foreign keys on one column, are offered in the document under a selector that embeds something else, or is ambiguous (`Ambiguous`);
* the item paths of a table named `rpc` are documented and unreachable, as those of one named `openapi.json` would be; a name with dots may spell the qualified name of another resource, which is then reached under its path;
* the dependencies of a view miss partitioned tables (`views.ts`, relkind), so no join to them is suggested (`JoinsAreReal`);
* labels of an enumeration are looked up by the bare name of the type, so another schema's enumeration of the same name may be taken for it;
* a filter or a key that a `numeric(p,s)` column cannot hold is refused with 400, although PostgreSQL compares without the precision and answers, against "it must never reject a value PostgreSQL would accept" (`query-builder.ts:454`). `RefusalsAreDeserved` takes PostgreSQL's comparison as the measure and exempts these values, and no others, by name (`OutOfPrecision`); what is compared without a precision, or written to a body, must be refused exactly when PostgreSQL refuses it;
* numbers of a JSON body are not pre-flighted (`query-builder.ts:660`), nor are domains over domains, nor an unconstrained `numeric` beyond what PostgreSQL stores: what it refuses of these is a 500;
* a set-returning function with one unnamed OUT argument is documented with a column without a name, which PostgreSQL calls `_rpc`; of a domain over a domain only the outer one is read, so a set of such rows may be taken for a set of values (`CallsAreFaithful` leaves out what is answered of these);
* what `WritesAreFaithful` says of a row is of relations whose joined names differ and of paths that are not those of a qualified name, of `rpc` or of `openapi.json` (`Addressable`);
* the header of `parseCommentTags.ts:16-19` says that a blank line ends an `@example:`, the code keeps it in the example (`parseCommentTags.ts:250`); `EveryLineIsPlaced` takes the code's reading, which its comment there gives a reason for;
* unique indexes with a predicate or over expressions count as one-to-one; views of one name in two schemas are one concept (`AdviceIsTrue` speaks of the others, and of relations whose joined names differ).

## 7. Not modelled, and the plan

Not modelled: the text of what is rendered (Markdown docs, generated types, Svelte templates, SQL), the wording of answers and logs, the metadata document, `search_schema` (a ranking of texts), the parameters of a filter other than `in.(...)`, cells and widgets for dates, JSON, enumerations and uuids, the hints of `@arg`, rotation of a remote key set, the parsing of CHECK expressions and index definitions, the benchmarks and examples.

What is left is proof rather than model, and of `CompiledSurfaces` alone, whose requests change no state, so that each property is a lemma about operators:

1. the first half of `EmbedsAreHonoured`: what the document offers for embedding is embedded, under the keys it tells, two loops that must choose alike;
2. the parts of `RefusalsAreDeserved` that compare numbers: what the checks of integers refuse, PostgreSQL refuses;
3. `PagesTellTheTruth` of `EditsDoWhatWasAsked`: from the answers of one-row writes, which `Calls` describes, to what a page says.

A property that is proved needs no run of its own, and a module whose state is its answers needs no type invariant: the state machines have theirs with the proofs.
