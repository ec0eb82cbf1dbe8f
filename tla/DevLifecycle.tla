----------------------------- MODULE DevLifecycle -----------------------------
(***************************************************************************)
(* `kozou dev` (packages/kozou/src/commands/dev.ts): the in-house REST API *)
(* and its pg.Pool, the MCP HTTP server and the Admin UI child process are *)
(* brought up in that order and torn down together, on a signal, on the    *)
(* child's death or on a failure to spawn it, in whatever order these      *)
(* happen.                                                                 *)
(***************************************************************************)
EXTENDS Naturals

CONSTANTS
    Requests,    \* HTTP requests to the in-house API
    UseApi,      \* adapter kind `api` (the default)
    UseMcp,      \* server.mcp.http.enabled
    MaxSignals   \* bound on SIGINT and SIGTERM

ASSUME DevAssumption == UseApi \in BOOLEAN /\ UseMcp \in BOOLEAN /\ MaxSignals \in Nat

VARIABLES
    step,          \* where devCommand is; "gone" once the process has exited
    api,           \* the API's HTTP server
    pool,          \* the API's pg.Pool
    mcp,           \* the MCP HTTP server
    child,         \* the Admin UI process; "dead" until its 'exit' is delivered,
                   \* "unspawned" until the 'error' of a failed spawn is
    childCode,     \* its exit status
    shuttingDown,  \* the flag of the lifecycle promise
    terminated,    \* SIGTERM was sent to the child
    exitCode,      \* process.exitCode
    closes,        \* history: calls of closeBackends
    signals,       \* signals received
    request        \* [Requests -> state]

devVars == <<step, api, pool, mcp, child, childCode, shuttingDown, terminated, exitCode,
             closes, signals, request>>

Server == {"none", "listening", "closing", "closed"}

DevInit ==
    /\ step = "api"
    /\ api = "none" /\ pool = "none" /\ mcp = "none" /\ child = "none"
    /\ childCode = "zero"
    /\ shuttingDown = FALSE /\ terminated = FALSE
    /\ exitCode = "unset"
    /\ closes = 0 /\ signals = 0
    /\ request = [q \in Requests |-> "new"]

-----------------------------------------------------------------------------
(* Startup.                                                                *)

\* A step of the startup throws: the CLI prints the error and calls exit(1),
\* which takes whatever was started with it.
StartupFails ==
    /\ step' = "gone" /\ exitCode' = "nonzero"
    /\ api' = "none" /\ pool' = "none" /\ mcp' = "none" /\ child' = "none"
    /\ UNCHANGED <<childCode, shuttingDown, terminated, closes, signals, request>>

\* startInhouseApi
StartApi ==
    /\ step = "api"
    /\ \/ /\ step' = "mcp"
          /\ IF UseApi THEN api' = "listening" /\ pool' = "open" ELSE UNCHANGED <<api, pool>>
          /\ UNCHANGED <<mcp, child, childCode, shuttingDown, terminated, exitCode, closes,
                         signals, request>>
       \/ StartupFails

\* startDevMcp
StartMcp ==
    /\ step = "mcp"
    /\ \/ /\ step' = "spawn"
          /\ mcp' = IF UseMcp THEN "listening" ELSE "none"
          /\ UNCHANGED <<api, pool, child, childCode, shuttingDown, terminated, exitCode,
                         closes, signals, request>>
       \/ StartupFails

\* spawn('node', [adminUiEntry]): it runs, or an 'error' event will follow.
SpawnAdminUi ==
    /\ step = "spawn"
    /\ step' = "up"
    /\ child' \in {"running", "unspawned"}
    /\ UNCHANGED <<api, pool, mcp, childCode, shuttingDown, terminated, exitCode, closes,
                   signals, request>>

-----------------------------------------------------------------------------
(* Teardown.                                                               *)

Closing(server) == IF server = "listening" THEN "closing" ELSE server

\* closeBackends(): both servers stop listening; what is in flight drains.
CloseBackends ==
    /\ shuttingDown' = TRUE
    /\ closes' = closes + 1
    /\ mcp' = Closing(mcp)
    /\ api' = Closing(api)
    /\ UNCHANGED pool

\* Mutant: the child is left alone.
NotTold == terminated
Told == terminated \/ child \in {"running", "dead"}

\* shutdown(reason), when it is the first.
Shutdown ==
    /\ CloseBackends
    /\ terminated' = Told

\* Mutant: a later event closes the backends again.
NoGuard == FALSE
AlreadyShuttingDown == shuttingDown

\* SIGINT or SIGTERM: the handlers are installed with the child's.
Signal ==
    /\ step \in {"up", "resolved"} /\ signals < MaxSignals
    /\ signals' = signals + 1
    /\ IF shuttingDown THEN UNCHANGED <<api, pool, mcp, shuttingDown, terminated, closes>>
                       ELSE Shutdown
    /\ UNCHANGED <<step, child, childCode, exitCode, request>>

\* The Admin UI process ends: on its own or because of the signal (a terminal
\* delivers Ctrl-C to it as well).
ChildEnds ==
    /\ child = "running"
    /\ child' = "dead"
    /\ childCode' \in {"zero", "nonzero"}
    /\ UNCHANGED <<step, api, pool, mcp, shuttingDown, terminated, exitCode, closes, signals,
                   request>>

StatusSurfaced == childCode

\* child.on('exit')
OnExit ==
    /\ child = "dead"
    /\ child' = "exited"
    /\ IF AlreadyShuttingDown
       THEN UNCHANGED <<api, pool, mcp, shuttingDown, exitCode, closes>>
       ELSE exitCode' = StatusSurfaced /\ CloseBackends
    /\ UNCHANGED <<step, childCode, terminated, signals, request>>

\* child.on('error')
OnError ==
    /\ child = "unspawned"
    /\ child' = "neverRan"
    /\ exitCode' = "nonzero"
    /\ IF shuttingDown THEN UNCHANGED <<api, pool, mcp, shuttingDown, terminated, closes>>
                       ELSE Shutdown
    /\ UNCHANGED <<step, childCode, signals, request>>

\* closeServer of the MCP server, its transports closed first.
McpClosed ==
    /\ mcp = "closing"
    /\ mcp' = "closed"
    /\ UNCHANGED <<step, api, pool, child, childCode, shuttingDown, terminated, exitCode,
                   closes, signals, request>>

\* closeServer of the API resolves once no request is in flight; then pool.end().
ApiClosed ==
    /\ api = "closing" /\ \A q \in Requests : request[q] # "inflight"
    /\ api' = "closed"
    /\ pool' = "ended"
    /\ UNCHANGED <<step, mcp, child, childCode, shuttingDown, terminated, exitCode, closes,
                   signals, request>>

\* closeBackends().finally(resolve)
Resolve ==
    /\ step = "up" /\ shuttingDown
    /\ api \in {"none", "closed"} /\ mcp \in {"none", "closed"}
    /\ step' = "resolved"
    /\ UNCHANGED <<api, pool, mcp, child, childCode, shuttingDown, terminated, exitCode,
                   closes, signals, request>>

\* Nothing keeps the event loop alive: a running child would.
ProcessExits ==
    /\ step = "resolved" /\ child \in {"exited", "neverRan"}
    /\ step' = "gone"
    /\ UNCHANGED <<api, pool, mcp, child, childCode, shuttingDown, terminated, exitCode,
                   closes, signals, request>>

-----------------------------------------------------------------------------
(* Requests to the API.                                                    *)

Arrive(q) ==
    /\ request[q] = "new" /\ api = "listening"
    /\ request' = [request EXCEPT ![q] = "inflight"]
    /\ UNCHANGED <<step, api, pool, mcp, child, childCode, shuttingDown, terminated, exitCode,
                   closes, signals>>

\* The handler's query meets the pool as it then is.
Serve(q) ==
    /\ request[q] = "inflight" /\ step # "gone"
    /\ request' = [request EXCEPT ![q] = IF pool = "open" THEN "served" ELSE "broken"]
    /\ UNCHANGED <<step, api, pool, mcp, child, childCode, shuttingDown, terminated, exitCode,
                   closes, signals>>

Stopped == step = "gone" /\ UNCHANGED devVars

DevNext ==
    \/ StartApi \/ StartMcp \/ SpawnAdminUi
    \/ Signal \/ ChildEnds \/ OnExit \/ OnError
    \/ McpClosed \/ ApiClosed \/ Resolve \/ ProcessExits
    \/ \E q \in Requests : Arrive(q) \/ Serve(q)
    \/ Stopped

\* Events are delivered, servers drain, requests are answered, and the Admin UI
\* ends once it was told to (not before).
DevFairness ==
    /\ WF_devVars(OnExit) /\ WF_devVars(OnError)
    /\ WF_devVars(McpClosed) /\ WF_devVars(ApiClosed)
    /\ WF_devVars(Resolve) /\ WF_devVars(ProcessExits)
    /\ WF_devVars(terminated /\ ChildEnds)
    /\ \A q \in Requests : WF_devVars(Serve(q))

DevSpec == DevInit /\ [][DevNext]_devVars
FairDevSpec == DevSpec /\ DevFairness

-----------------------------------------------------------------------------
\* However signals, the child's death and a spawn error race, the backends are
\* closed once (a second close() of an HTTP server rejects), and an Admin UI
\* that never ran, whatever signal came first, or that failed without having
\* been asked to stop, shows in the status of the CLI: "surface its exit
\* status" (dev.ts:313, 324-325).  A request accepted before the teardown is
\* served: the pool outlives the server that uses it (dev.ts:124-127).
TeardownIsClean ==
    /\ \A q \in Requests : request[q] # "broken"
    /\ closes <= 1
    /\ step = "gone" /\ child = "neverRan" => exitCode = "nonzero"
    /\ step = "gone" /\ childCode = "nonzero" /\ ~terminated => exitCode = "nonzero"

\* Once a teardown begins it ends, with the child gone as well.
TeardownCompletes == shuttingDown ~> (step = "gone")
=============================================================================
