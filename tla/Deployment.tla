------------------------------ MODULE Deployment ------------------------------
(***************************************************************************)
(* A deployment of kozou, from its configuration to the answers it gives:  *)
(* the configuration (packages/kozou/src/config.ts), what the commands     *)
(* `kozou dev` and `kozou mcp` start with it                               *)
(* (packages/kozou/src/commands/dev-runtime.ts, dev.ts, mcp.ts), and the   *)
(* requests the surfaces then serve: the in-house REST API, the MCP        *)
(* listener behind its rebinding guard (packages/mcp/src/startHttpServer)  *)
(* and the Admin UI, a child process that knows only its environment.      *)
(*                                                                         *)
(* The servers do not matter here, only what each of them decides with     *)
(* its own copy of the configuration.                                      *)
(***************************************************************************)
EXTENDS ResourceServer

CONSTANTS
    Commands,       \* those explored, of {"dev", "mcp_http", "mcp_stdio"}
    Files,          \* what kozou.config.yaml may say
    Environments,   \* what the environment may say
    Headers,        \* Authorization headers the clients send
    Hosts, Origins, \* Host and Origin headers the clients send
    HostName,       \* hostnameOf: the host a spelling of it names
    MaxTime         \* bounds the clock

\* The words the model tells answers apart by are no configured values.
ASSUME DeploymentAssumption ==
    /\ MaxTime \in Nat
    /\ None \notin {"api", "ui", "mcp", "page", "stdio", "issuer_mismatch", "audience_mismatch"}

VARIABLES
    command, file, env,  \* what the operator runs
    config,   \* the loaded configuration
    phase,    \* "off" -> "loaded" -> "serving", or "refused"
    boot,     \* what startup decided
    now,      \* the clock
    reply     \* the request of this behaviour and its answer

vars == <<command, file, env, config, phase, boot, now, reply>>

Thrown == Unusable   \* the value of a function that throws

-----------------------------------------------------------------------------
(* loadConfig *)

\* An explicit auth section of the file wins over the environment's.
InjectedAuth(e) == IF e.auth = None THEN None
                   ELSE [e.auth EXCEPT !.ui.token = e.adapterToken]

LoadedConfig(f, e) ==
    [f EXCEPT !.auth = Or(@, InjectedAuth(e)),
              !.mcp.enabled = Or(e.mcpEnabled, @),
              !.mcp.host = Or(e.mcpHost, @),
              !.mcp.allowedHosts = Or(e.allowedHosts, @),
              !.mcp.advertisedUrl = Or(e.advertisedUrl, @)]

UsableAdvertisedUrl(url) ==
    /\ IsHttp(url) /\ IsBare(url)
    /\ Urls[url].host # "0.0.0.0"
    /\ Urls[url].path = "/mcp"

McpAllowedRoles(c) ==
    Or(c.mcp.auth.allowedRoles, IF c.auth = None THEN None ELSE c.auth.allowedRoles)

ConfigRefused(c) ==
    LET http == c.mcp
    IN \/ \E host \in http.allowedHosts : HostName[host] = Blank
       \/ http.auth # None /\ (~http.enabled \/ http.auth.servers = {})
       \/ /\ http.advertisedUrl # None
          /\ ~http.enabled \/ http.auth # None \/ ~UsableAdvertisedUrl(http.advertisedUrl)
       \/ /\ http.execution.enabled
          /\ IF http.auth = None THEN http.execution.role = None
             ELSE McpAllowedRoles(c) \in {None, {}}

-----------------------------------------------------------------------------
(* What the commands derive from the configuration. *)

\* The REST audience is not inherited: the MCP resource is its own.
McpAuthOptions(c) ==
    LET own == c.mcp.auth
        jwt == IF own.jwt = None /\ c.auth # None
               THEN [c.auth.jwt EXCEPT !.audience = None] ELSE own.jwt
    IN CASE own = None -> None
         [] own # None /\ (jwt = None \/ jwt.keys = {}) -> Thrown
         [] OTHER -> [resource |-> own.resource, servers |-> own.servers, jwt |-> jwt,
                      roleClaim |-> IF own.roleClaim = None /\ c.auth # None
                                    THEN c.auth.roleClaim ELSE own.roleClaim,
                      allowedRoles |-> McpAllowedRoles(c),
                      allowInsecureHttp |-> own.allowInsecureHttp]

\* What the schema says of the values it lets through: no name is empty, lists
\* are finite, and what is there is not undefined.
WellFormed(c) ==
    /\ c.auth # None =>
          /\ Blank \notin {c.auth.ui.role, c.auth.defaultRole}
          /\ \A claim \in {"exp", "nbf"} \cap DOMAIN c.auth.ui.claims :
                c.auth.ui.claims[claim] \in Int \cup {Unusable}
    /\ c.mcp.auth # None =>
          LET options == McpAuthOptions(c)
              jwt == BoundJwt(options)
          IN /\ McpAllowedRoles(c) # None => IsFiniteSet(McpAllowedRoles(c))
             /\ options # None
             /\ options # Thrown => /\ None \notin {jwt.issuer, jwt.audience}
                                   /\ Blank \notin jwt.issuer.values \cup jwt.audience.values

ASSUME ConfigAssumption ==
    \A f \in Files, e \in Environments : WellFormed(LoadedConfig(f, e))

HasReadyMadeToken(c, e) ==
    (c.auth # None /\ c.auth.ui.token # None) \/ e.adapterToken # None

PrivilegeRole(c, suppliedToken) ==
    LET uiRole == IF c.auth = None THEN None ELSE Or(c.auth.ui.role, c.auth.defaultRole)
    IN CASE ~c.introspection.respectPrivileges -> None
         [] c.introspection.respectPrivileges /\ c.introspection.role = None /\ suppliedToken ->
              Thrown
         [] OTHER -> Or(Or(c.introspection.role, uiRole), Thrown)

-----------------------------------------------------------------------------
(* kozou dev *)

ApiActive(c) == c.adapter = "api"
ApiAuth(c) == IF ApiActive(c) THEN c.auth ELSE None

\* temporalClaimsWarning and mintedRoleWarning: the minted token is known to
\* be rejected.
RejectedInTime(extra, t) ==
    \/ "exp" \in DOMAIN extra /\ (extra["exp"] = Unusable \/ extra["exp"] <= t)
    \/ "nbf" \in DOMAIN extra /\ (extra["nbf"] = Unusable \/ extra["nbf"] > t)
\* Mutant: the role the API defaults to is forgotten.
RejectedForMintedRole(auth) ==
    auth.ui.role = None \/ (auth.allowedRoles # None /\ auth.ui.role \notin auth.allowedRoles)
RejectedForRole(auth) ==
    LET role == Or(auth.ui.role, auth.defaultRole)
    IN role = None \/ (auth.allowedRoles # None /\ role \notin auth.allowedRoles)

\* resolveAdminUiToken: the token the Admin UI is to present.
AdminUiToken(c, e, t) ==
    LET auth == ApiAuth(c)
        supplied == Or(auth.ui.token, e.adapterToken)
    IN CASE auth = None -> [token |-> None, knownRejected |-> FALSE]
         [] auth # None /\ supplied # None -> [token |-> supplied, knownRejected |-> FALSE]
         [] auth # None /\ supplied = None /\ IsSymmetric(auth.jwt) ->
              [token |-> SignServiceToken(auth, auth.ui.role, auth.ui.claims, t),
               knownRejected |-> RejectedInTime(auth.ui.claims, t) \/ RejectedForRole(auth)]
         [] OTHER -> [token |-> None, knownRejected |-> FALSE]

\* classifyAdminUiExposure: what startup says of a publicly bound Admin UI.
Exposure(c, ui) ==
    CASE ApiAuth(c) = None -> "unauthenticated"
      [] ApiAuth(c) # None /\ ui.token # None ->
           IF ui.knownRejected THEN "rejected" ELSE "service-token"
      [] OTHER -> IF c.auth.anonRole # None THEN "anon-role" ELSE "rejected"

DevPrivilegeRole(c, e) == PrivilegeRole(c, ApiActive(c) /\ HasReadyMadeToken(c, e))

\* buildAdminUiEnv: whatever the child reads is set or, as None, deleted.
AdminUiEnv(c, e, ui) ==
    LET http == c.mcp
        overrides ==
            [KOZOU_ADAPTER_KIND |-> IF ApiActive(c) THEN "api" ELSE None,
             KOZOU_ADAPTER_TOKEN |-> IF ApiActive(c) THEN ui.token ELSE None,
             KOZOU_UI_MCP_POSTURE |-> CASE ~http.enabled -> "off"
                                        [] http.enabled /\ http.auth = None -> "local"
                                        [] OTHER -> "oauth",
             KOZOU_UI_MCP_RESOURCE |-> IF http.enabled /\ http.auth # None
                                       THEN http.auth.resource ELSE None,
             KOZOU_UI_MCP_ADVERTISED_URL |-> IF http.enabled /\ http.auth = None
                                             THEN http.advertisedUrl ELSE None,
             KOZOU_INTROSPECTION_ROLE |-> DevPrivilegeRole(c, e)]
    IN Over(overrides, Over(Only("KOZOU_ADAPTER_TOKEN", e.adapterToken), e.inherited))

\* What startup decides: the token, what is said of it, what the child gets.
DevBoot(c, e, t) ==
    LET ui == AdminUiToken(c, e, t)
    IN [at |-> t, ui |-> ui, exposure |-> Exposure(c, ui), childEnv |-> AdminUiEnv(c, e, ui),
        described |-> DevPrivilegeRole(c, e)]

Resource(c) == IF c.mcp.auth = None THEN None ELSE c.mcp.auth.resource

\* Mutant: an entry point drops server.mcp.http.advertisedUrl.
DeclaredResource(c) == {Resource(c)} \ {None}
DeclaredUrls(c) == {c.mcp.advertisedUrl, Resource(c)} \ {None}

\* buildRebindingGuard: the hosts the listener answers for.
GuardHostnames(c) ==
    {"localhost"}
    \cup {HostName[host] : host \in c.mcp.allowedHosts \cup ({c.mcp.host} \ {"0.0.0.0"})}
    \cup {HostName[Urls[url].host] : url \in DeclaredUrls(c)}

McpStartupRefused(c) ==
    LET options == McpAuthOptions(c)
    IN options = Thrown \/ (options # None /\ ResourceServerRefused(options))

DevRefused(c, e) ==
    \/ ApiAuth(c) # None /\ Misconfigured(ApiAuth(c))
    \/ DevPrivilegeRole(c, e) = Thrown
    \/ c.mcp.enabled /\ McpStartupRefused(c)

-----------------------------------------------------------------------------
(* kozou mcp *)

ExecutionRefused(c, started) ==
    LET execution == c.mcp.execution
    IN execution.enabled /\ execution.role = None
       /\ ~(c.mcp.auth # None /\ started = "mcp_http")

\* resolveMcpAnnotationRole: the role the describe tools are to speak of.
\* Mutant: that of the configuration, whatever the calls run as.
ConfiguredRole(c, e) == PrivilegeRole(c, HasReadyMadeToken(c, e))
AnnotationRole(c, e) ==
    LET explicit == c.introspection.role
        acting == IF c.mcp.execution.enabled THEN c.mcp.execution.role ELSE None
        unless(role) == IF explicit \notin {None, role} THEN Thrown ELSE role
        allowed == McpAllowedRoles(c)
    IN CASE ~c.introspection.respectPrivileges -> None
         [] c.introspection.respectPrivileges /\ c.mcp.auth # None ->
              IF allowed # None /\ Cardinality(allowed) = 1
              THEN unless(CHOOSE role \in allowed : TRUE) ELSE Thrown
         [] c.introspection.respectPrivileges /\ c.mcp.auth = None /\ acting # None ->
              unless(acting)
         [] OTHER -> PrivilegeRole(c, HasReadyMadeToken(c, e))

McpRefused(c, e, started) ==
    \/ started = "mcp_http" /\ ~c.mcp.enabled
    \/ McpAuthOptions(c) = Thrown
    \/ ExecutionRefused(c, started)
    \/ AnnotationRole(c, e) = Thrown
    \/ started = "mcp_http" /\ McpStartupRefused(c)

-----------------------------------------------------------------------------
(* Startup *)

NoReply == [to |-> None, header |-> None, answer |-> Accepted(None, Empty), at |-> 0]
NoBoot == [at |-> 0, ui |-> None, exposure |-> None, childEnv |-> Empty, described |-> None]

Init ==
    /\ command \in Commands /\ file \in Files /\ env \in Environments
    /\ config = None /\ phase = "off" /\ boot = NoBoot /\ now = 0 /\ reply = NoReply

Load ==
    /\ phase = "off"
    /\ config' = LoadedConfig(file, env)
    /\ phase' = IF ConfigRefused(config') THEN "refused" ELSE "loaded"
    /\ UNCHANGED <<command, file, env, boot, now, reply>>

Dev ==
    /\ phase = "loaded" /\ command = "dev"
    /\ IF DevRefused(config, env)
       THEN phase' = "refused" /\ UNCHANGED boot
       ELSE phase' = "serving" /\ boot' = DevBoot(config, env, now)
    /\ UNCHANGED <<command, file, env, config, now, reply>>

Mcp ==
    /\ phase = "loaded" /\ command \in {"mcp_http", "mcp_stdio"}
    /\ IF McpRefused(config, env, command)
       THEN phase' = "refused" /\ UNCHANGED boot
       ELSE /\ phase' = "serving"
            /\ boot' = [NoBoot EXCEPT !.at = now, !.described = AnnotationRole(config, env)]
    /\ UNCHANGED <<command, file, env, config, now, reply>>

-----------------------------------------------------------------------------
(* Requests *)

\* The surfaces keep nothing between two requests: a behaviour asks one of them
\* once, and has asked everything in some behaviour.
Answered(to, header, answer) ==
    /\ reply = NoReply
    /\ reply' = [to |-> to, header |-> header, answer |-> answer, at |-> now]
    /\ UNCHANGED <<command, file, env, config, phase, boot, now>>

\* The role of a request the API does not verify is the connection's, None.
ApiAnswer(header) ==
    IF config.auth = None THEN Accepted(None, Empty) ELSE Authenticate(config.auth, header, now)

ApiRequest(header) ==
    /\ phase = "serving" /\ command = "dev" /\ ApiActive(config)
    /\ Answered("api", header, ApiAnswer(header))

\* The child presents the token of its environment, to the adapter of its
\* environment.
UiRequest ==
    /\ phase = "serving" /\ command = "dev" /\ ApiActive(config)
    /\ boot.childEnv["KOZOU_ADAPTER_KIND"] = "api"
    /\ LET header == boot.childEnv["KOZOU_ADAPTER_TOKEN"]
       IN Answered("ui", header, ApiAnswer(header))

\* The address of the Connect page: declared, or None for a guess from the
\* host of the request.
ConnectPage ==
    /\ phase = "serving" /\ command = "dev"
    /\ LET child == boot.childEnv
           posture == child["KOZOU_UI_MCP_POSTURE"]
           declared == IF posture = "oauth" THEN child["KOZOU_UI_MCP_RESOURCE"]
                       ELSE child["KOZOU_UI_MCP_ADVERTISED_URL"]
       IN Answered("page", declared,
                   IF posture = "off" THEN Refused("not_found", None) ELSE Accepted(None, Empty))

\* validateRebindingHeaders; the hostname of an Origin is not normalised.
Admits(host, origin) ==
    /\ HostName[host] \in GuardHostnames(config)
    /\ origin # None => origin \in GuardHostnames(config)

\* A `call` over HTTP: as the token's role or, without OAuth, the fixed one;
\* `kozou dev` executes nothing.
FixedRole ==
    IF command # "dev" /\ config.mcp.execution.enabled THEN config.mcp.execution.role ELSE None

McpRequest(header, host, origin) ==
    /\ phase = "serving" /\ config.mcp.enabled
    /\ command = "mcp_http" \/ command = "dev"
    /\ LET options == McpAuthOptions(config)
       IN Answered("mcp", header,
            CASE ~Admits(host, origin) -> Refused("not_admitted", None)
              [] Admits(host, origin) /\ options # None ->
                   Authenticate(McpAuthenticator(options), header, now)
              [] OTHER -> Accepted(FixedRole, Empty))

\* A `call` over stdio: always as the fixed role.
StdioCall ==
    /\ phase = "serving" /\ command = "mcp_stdio" /\ config.mcp.execution.enabled
    /\ Answered("stdio", None, Accepted(FixedRole, Empty))

Tick ==
    /\ phase = "serving" /\ now < MaxTime /\ reply = NoReply
    /\ now' = now + 1
    /\ UNCHANGED <<command, file, env, config, phase, boot, reply>>

Next ==
    \/ Load \/ Dev \/ Mcp \/ UiRequest \/ ConnectPage \/ StdioCall \/ Tick
    \/ \E header \in Headers : ApiRequest(header)
    \/ \E header \in Headers, host \in Hosts, origin \in Origins :
          McpRequest(header, host, origin)

Spec == Init /\ [][Next]_vars

-----------------------------------------------------------------------------
(* Properties *)

\* Whoever is let in was granted the role: the token names it, or (over REST
\* only) names none where there is a default, or there is no header at all
\* where somebody may be anonymous.  A role read from a token or defaulted to
\* is one of the allowed.  Nothing else ever becomes a role: a claim that
\* cannot be read is not a missing one, a bad header is not an absent one.
Granted(auth, header, role) ==
    \/ header = None /\ role = auth.anonRole /\ role # None
    \/ /\ header \notin {None, Unusable}
       /\ IF RoleClaim(auth) \in DOMAIN header.payload
          THEN role = header.payload[RoleClaim(auth)] /\ role # Unusable
          ELSE role = auth.defaultRole /\ role # None
       /\ auth.allowedRoles # None => role \in auth.allowedRoles

RolesAreGranted ==
    reply.answer.kind = "accepted" =>
        /\ reply.to \in {"api", "ui"} /\ config.auth # None =>
              Granted(config.auth, reply.header, reply.answer.role)
        /\ reply.to = "mcp" /\ config.mcp.auth # None =>
              LET auth == McpAuthenticator(McpAuthOptions(config))
              IN Granted(auth, reply.header, reply.answer.role)

\* What startup says of a publicly bound Admin UI is what the API then does
\* with it: the warning of warnIfPublic never overstates the protection.
ExposureIsHonest ==
    reply.to = "ui" /\ reply.at = boot.at /\ reply.answer.kind = "accepted" =>
        boot.exposure = CASE config.auth = None -> "unauthenticated"
                          [] config.auth # None /\ reply.header = None -> "anon-role"
                          [] OTHER -> "service-token"

\* A resource server that starts without a warning and without a note
\* enforces the contract it advertises: it lets nobody in with a token of
\* another issuer or for another resource, and turns nobody away for the
\* issuer or the audience who did as the metadata says.
SilenceMeansAgreement ==
    LET options == McpAuthOptions(config)
        token == reply.header
        asAdvertised == /\ Carries(token, "iss") /\ token.payload["iss"] \in options.servers
                        /\ Carries(token, "aud") /\ options.resource \in token.payload["aud"]
    IN /\ reply.to = "mcp" /\ config.mcp.auth # None /\ token \notin {None, Unusable}
       /\ StaysSilent(options)
       => /\ reply.answer.kind = "accepted" => asAdvertised
          /\ asAdvertised => reply.answer.reason \notin {"issuer_mismatch", "audience_mismatch"}

\* The role whose privileges are described is the one that acts: over HTTP
\* the role of every call, and in the Admin UI (unless the operator names
\* another) the role of the token it was minted.
DescribedRoleActs ==
    /\ boot.described # None /\ reply.answer.kind = "accepted"
    /\ \/ reply.to = "mcp" /\ command = "mcp_http" /\ config.mcp.execution.enabled
       \/ reply.to = "ui" /\ reply.header # None /\ config.introspection.role = None
    => reply.answer.role = boot.described

\* The Connect page is there when the endpoint is, the address it hands out is
\* the one this configuration declares, whatever was inherited, and the
\* listener answers a client that comes to it.
ConnectPageIsTrue ==
    reply.to = "page" =>
        /\ reply.answer.kind = "accepted" <=> config.mcp.enabled
        /\ reply.header = IF config.mcp.auth = None THEN config.mcp.advertisedUrl
                          ELSE config.mcp.auth.resource
        /\ reply.header # None => Admits(Urls[reply.header].host, None)
=============================================================================
