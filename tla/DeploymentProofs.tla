--------------------------- MODULE DeploymentProofs ---------------------------
(***************************************************************************)
(* For every configuration file and environment the schema lets through,   *)
(* every header, host and moment: whoever is let in was granted the role,  *)
(* the exposure startup announces is the one the API enforces, a resource  *)
(* server that starts in silence enforces what it advertises, the role     *)
(* that is described is the one that acts, and the Connect page is true.   *)
(***************************************************************************)
EXTENDS Deployment, DevLifecycle, FiniteSetTheorems, WellFoundedInduction, NaturalsInduction, TLAPS

-----------------------------------------------------------------------------
(* The authenticator. *)

LEMMA MinIsMember ==
  ASSUME NEW S, S \subseteq Nat, S # {}
  PROVE  Min(S) \in S
<1>1. PICK x \in S : \A y \in S : <<y, x>> \notin OpToRel(<, Nat)
  BY NatLessThanWellFounded, WFMin
<1>2. ASSUME NEW y \in S  PROVE  x <= y
  <2>1. y \in Nat /\ x \in Nat  OBVIOUS
  <2>2. ~(y < x)  BY <1>1, <2>1 DEF OpToRel
  <2>. QED  BY <2>1, <2>2
<1>. QED  BY <1>2 DEF Min

\* Whatever check fails, the answer is a refusal.
LEMMA ChecksRefuse ==
  ASSUME NEW jwt, NEW token, NEW t
  PROVE  /\ DOMAIN VerifyChecks(jwt, token, t) = 1..17
         /\ \A i \in 1..17 :
              VerifyChecks(jwt, token, t)[i].refusal.kind \in {"unauthorized", "fault"}
  BY DEF VerifyChecks, Refused

Verified(jwt, token, t) == \A i \in 1..17 : VerifyChecks(jwt, token, t)[i].holds

\* The answer to a token is the refusal of a check that fails, or the one of the
\* role resolution after all of them held.
LEMMA TokenOutcome ==
  ASSUME NEW c, NEW h, NEW t, h \notin {None, Unusable}
  PROVE  \/ \E i \in 1..17 : /\ ~VerifyChecks(c.jwt, h, t)[i].holds
                             /\ Authenticate(c, h, t) = VerifyChecks(c.jwt, h, t)[i].refusal
         \/ Verified(c.jwt, h, t) /\ Authenticate(c, h, t) = ResolveRole(c, h.payload)
<1>. DEFINE failed == {i \in DOMAIN VerifyChecks(c.jwt, h, t) :
                         ~VerifyChecks(c.jwt, h, t)[i].holds}
<1>1. Authenticate(c, h, t) = IF failed # {} THEN VerifyChecks(c.jwt, h, t)[Min(failed)].refusal
                              ELSE ResolveRole(c, h.payload)
  BY DEF Authenticate
<1>2. DOMAIN VerifyChecks(c.jwt, h, t) = 1..17  BY ChecksRefuse
<1>3. CASE failed = {}
  BY <1>1, <1>2, <1>3 DEF Verified
<1>4. CASE failed # {}
  <2>1. failed \subseteq Nat  BY <1>2
  <2>2. Min(failed) \in failed  BY <2>1, <1>4, MinIsMember
  <2>. QED  BY <1>1, <1>2, <1>4, <2>2
<1>. QED  BY <1>3, <1>4

\* The role a verified token gets.
LEMMA RoleOfClaims ==
  ASSUME NEW c, NEW claims, ResolveRole(c, claims).kind = "accepted"
  PROVE  LET role == ResolveRole(c, claims).role
         IN /\ IF RoleClaim(c) \in DOMAIN claims
               THEN role = claims[RoleClaim(c)] /\ role \notin {Blank, Unusable}
               ELSE role = c.defaultRole /\ role \notin {None, Blank}
            /\ c.allowedRoles # None => role \in c.allowedRoles
  BY DEF ResolveRole, Accepted, Refused

\* A token that is let in passed every check.
LEMMA AcceptedToken ==
  ASSUME NEW c, NEW h, NEW t, h \notin {None, Unusable},
         Authenticate(c, h, t).kind = "accepted"
  PROVE  /\ Verified(c.jwt, h, t)
         /\ Authenticate(c, h, t) = ResolveRole(c, h.payload)
  BY TokenOutcome, ChecksRefuse

LEMMA AcceptedWithoutToken ==
  ASSUME NEW c, NEW h, NEW t, h \in {None, Unusable},
         Authenticate(c, h, t).kind = "accepted"
  PROVE  h = None /\ c.anonRole # None /\ Authenticate(c, h, t).role = c.anonRole
  BY DEF Authenticate, Accepted, Refused

\* Authenticate grants what Granted says.
LEMMA AcceptedIsGranted ==
  ASSUME NEW c, NEW h, NEW t, Authenticate(c, h, t).kind = "accepted"
  PROVE  Granted(c, h, Authenticate(c, h, t).role)
<1>1. CASE h \in {None, Unusable}
  BY <1>1, AcceptedWithoutToken DEF Granted
<1>2. CASE h \notin {None, Unusable}
  <2>1. Authenticate(c, h, t) = ResolveRole(c, h.payload)  BY <1>2, AcceptedToken
  <2>. QED  BY <1>2, <2>1, RoleOfClaims DEF Granted
<1>. QED  BY <1>1, <1>2

-----------------------------------------------------------------------------
(* What startup has decided, and what a request was then answered. *)

Loaded == config = LoadedConfig(file, env) /\ ~ConfigRefused(config)

BootInv ==
    /\ now \in Nat /\ boot.at \in Nat
    /\ file \in Files /\ env \in Environments
    /\ phase = "loaded" => Loaded
    /\ phase = "serving" =>
          /\ Loaded
          /\ command = "dev" => /\ ~DevRefused(config, env)
                                /\ boot = DevBoot(config, env, boot.at)
          /\ command # "dev" => /\ ~McpRefused(config, env, command)
                                /\ boot.described = AnnotationRole(config, env)

DevReply(to) ==
    reply.to = to => phase = "serving" /\ command = "dev" /\ reply.at = now

McpAnswer ==
    IF McpAuthOptions(config) # None
    THEN Authenticate(McpAuthenticator(McpAuthOptions(config)), reply.header, now)
    ELSE Accepted(FixedRole, Empty)

PageAddress ==
    IF boot.childEnv["KOZOU_UI_MCP_POSTURE"] = "oauth"
    THEN boot.childEnv["KOZOU_UI_MCP_RESOURCE"] ELSE boot.childEnv["KOZOU_UI_MCP_ADVERTISED_URL"]

PageAnswer ==
    IF boot.childEnv["KOZOU_UI_MCP_POSTURE"] = "off" THEN Refused("not_found", None)
    ELSE Accepted(None, Empty)

ReplyInv ==
    /\ DevReply("api") /\ DevReply("ui") /\ DevReply("page")
    /\ reply.to \in {"api", "ui"} =>
          ApiActive(config) /\ reply.answer = ApiAnswer(reply.header)
    /\ reply.to = "ui" => reply.header = boot.childEnv["KOZOU_ADAPTER_TOKEN"]
    /\ reply.to = "page" => reply.header = PageAddress /\ reply.answer = PageAnswer
    /\ reply.to = "mcp" =>
          /\ phase = "serving" /\ config.mcp.enabled /\ command \in {"dev", "mcp_http"}
          /\ reply.answer \in {Refused("not_admitted", None), McpAnswer}

IInv == BootInv /\ ReplyInv

LEMMA InitIInv == Init => IInv
<1>. SUFFICES ASSUME Init  PROVE IInv  OBVIOUS
<1>1. BootInv  BY DEF Init, BootInv, NoBoot
<1>2. ReplyInv  BY DeploymentAssumption DEF Init, NoReply, ReplyInv, DevReply
<1>. QED  BY <1>1, <1>2 DEF IInv

\* Before a surface has answered there is nothing to say of an answer.
LEMMA NothingAnswered ==
  ASSUME reply = NoReply
  PROVE  ReplyInv
  BY DeploymentAssumption DEF NoReply, ReplyInv, DevReply

LEMMA LoadIInv == ASSUME IInv, Load PROVE IInv'
<1>1. reply = NoReply \/ reply.to \notin {"api", "ui", "page", "mcp"}
  BY DEF IInv, ReplyInv, DevReply, Load
<1>2. BootInv'
  BY DEF IInv, BootInv, Load, Loaded
<1>3. ReplyInv'
  BY <1>1, NothingAnswered DEF IInv, ReplyInv, DevReply, Load
<1>. QED  BY <1>2, <1>3 DEF IInv

LEMMA DevIInv == ASSUME IInv, Dev PROVE IInv'
<1>1. reply.to \notin {"api", "ui", "page", "mcp"}
  BY DEF IInv, ReplyInv, DevReply, Dev
<1>2. DevBoot(config, env, now).at = now  BY DEF DevBoot
<1>3. BootInv'
  BY <1>2 DEF IInv, BootInv, Dev, Loaded
<1>4. ReplyInv'
  BY <1>1 DEF ReplyInv, DevReply, Dev
<1>. QED  BY <1>3, <1>4 DEF IInv

LEMMA McpIInv == ASSUME IInv, Mcp PROVE IInv'
<1>1. reply.to \notin {"api", "ui", "page", "mcp"}
  BY DEF IInv, ReplyInv, DevReply, Mcp
<1>2. BootInv'
  BY DEF IInv, BootInv, Mcp, Loaded, NoBoot
<1>3. ReplyInv'
  BY <1>1 DEF ReplyInv, DevReply, Mcp
<1>. QED  BY <1>2, <1>3 DEF IInv

\* A request changes nothing that startup decided.
LEMMA RequestKeepsBoot ==
  ASSUME IInv, NEW to, NEW header, NEW answer, Answered(to, header, answer)
  PROVE  /\ BootInv'
         /\ reply' = [to |-> to, header |-> header, answer |-> answer, at |-> now]
         /\ UNCHANGED <<command, file, env, config, phase, boot, now>>
  BY DEF IInv, BootInv, Loaded, Answered

LEMMA ApiIInv == ASSUME IInv, NEW header, ApiRequest(header) PROVE IInv'
<1>1. Answered("api", header, ApiAnswer(header)) /\ phase = "serving" /\ command = "dev"
      /\ ApiActive(config)
  BY DEF ApiRequest
<1>2. /\ BootInv'
      /\ reply' = [to |-> "api", header |-> header, answer |-> ApiAnswer(header), at |-> now]
      /\ UNCHANGED <<command, file, env, config, phase, boot, now>>
  BY <1>1, RequestKeepsBoot
<1>. QED  BY <1>1, <1>2 DEF IInv, ReplyInv, DevReply, ApiAnswer, ApiActive

LEMMA UiIInv == ASSUME IInv, UiRequest PROVE IInv'
<1>. DEFINE header == boot.childEnv["KOZOU_ADAPTER_TOKEN"]
<1>1. Answered("ui", header, ApiAnswer(header)) /\ phase = "serving" /\ command = "dev"
      /\ ApiActive(config)
  BY DEF UiRequest
<1>2. /\ BootInv'
      /\ reply' = [to |-> "ui", header |-> header, answer |-> ApiAnswer(header), at |-> now]
      /\ UNCHANGED <<command, file, env, config, phase, boot, now>>
  BY <1>1, RequestKeepsBoot
<1>. QED  BY <1>1, <1>2 DEF IInv, ReplyInv, DevReply, ApiAnswer, ApiActive

LEMMA PageIInv == ASSUME IInv, ConnectPage PROVE IInv'
<1>1. Answered("page", PageAddress, PageAnswer) /\ phase = "serving" /\ command = "dev"
  BY DEF ConnectPage, PageAddress, PageAnswer
<1>2. /\ BootInv'
      /\ reply' = [to |-> "page", header |-> PageAddress, answer |-> PageAnswer, at |-> now]
      /\ UNCHANGED <<command, file, env, config, phase, boot, now>>
  BY <1>1, RequestKeepsBoot
<1>3. PageAddress' = PageAddress /\ PageAnswer' = PageAnswer
  BY <1>2 DEF PageAddress, PageAnswer
<1>. QED  BY <1>1, <1>2, <1>3 DEF IInv, ReplyInv, DevReply

LEMMA McpRequestIInv ==
  ASSUME IInv, NEW header, NEW host, NEW origin, McpRequest(header, host, origin)
  PROVE  IInv'
<1>. DEFINE own == IF McpAuthOptions(config) # None
                   THEN Authenticate(McpAuthenticator(McpAuthOptions(config)), header, now)
                   ELSE Accepted(FixedRole, Empty)
<1>1. PICK answer \in {Refused("not_admitted", None), own} : Answered("mcp", header, answer)
  BY DEF McpRequest
<1>2. phase = "serving" /\ config.mcp.enabled /\ command \in {"dev", "mcp_http"}
  BY DEF McpRequest
<1>3. /\ BootInv'
      /\ reply' = [to |-> "mcp", header |-> header, answer |-> answer, at |-> now]
      /\ UNCHANGED <<command, file, env, config, phase, boot, now>>
  BY <1>1, RequestKeepsBoot
<1>4. McpAnswer' = own  BY <1>3 DEF McpAnswer, FixedRole
<1>5. reply'.to = "mcp" /\ reply'.answer \in {Refused("not_admitted", None), McpAnswer'}
  BY <1>1, <1>3, <1>4
<1>6. Refused("not_admitted", None)' = Refused("not_admitted", None)  OBVIOUS
<1>7. ReplyInv'  BY <1>2, <1>3, <1>5, <1>6 DEF ReplyInv, DevReply
<1>. QED  BY <1>3, <1>7 DEF IInv

LEMMA StdioIInv == ASSUME IInv, StdioCall PROVE IInv'
<1>1. Answered("stdio", None, Accepted(FixedRole, Empty))
  BY DEF StdioCall
<1>2. BootInv' /\ reply'.to = "stdio"
  BY <1>1, RequestKeepsBoot
<1>. QED  BY <1>2 DEF IInv, ReplyInv, DevReply

LEMMA TickIInv == ASSUME IInv, Tick PROVE IInv'
<1>1. BootInv'  BY DEF IInv, BootInv, Loaded, Tick
<1>2. (reply = NoReply)'  BY DEF Tick, NoReply
<1>3. ReplyInv'  BY <1>2, DeploymentAssumption DEF NoReply, ReplyInv, DevReply
<1>. QED  BY <1>1, <1>3 DEF IInv

LEMMA StutterIInv == ASSUME IInv, UNCHANGED vars PROVE IInv'
  BY DEF IInv, BootInv, Loaded, ReplyInv, DevReply, McpAnswer, PageAddress, PageAnswer,
         ApiAnswer, FixedRole, vars

LEMMA NextIInv == IInv /\ [Next]_vars => IInv'
  BY LoadIInv, DevIInv, McpIInv, ApiIInv, UiIInv, PageIInv, McpRequestIInv, StdioIInv,
     TickIInv, StutterIInv DEF Next

\* Startup's decisions and every answer are computed from the loaded configuration.
THEOREM Invariance == Spec => []IInv
<1>1. Init => IInv  BY InitIInv
<1>2. IInv /\ [Next]_vars => IInv'  BY NextIInv
<1>. QED  BY <1>1, <1>2, PTL DEF Spec

-----------------------------------------------------------------------------
(* What follows from it. *)

LEMMA Serving ==
  ASSUME IInv, phase = "serving"
  PROVE  WellFormed(config) /\ ~ConfigRefused(config)
  BY ConfigAssumption DEF IInv, BootInv, Loaded

\* The MCP endpoint's answer under OAuth is that of its authenticator.
LEMMA McpOutcome ==
  ASSUME IInv, reply.to = "mcp", config.mcp.auth # None
  PROVE  \/ reply.answer = Refused("not_admitted", None)
         \/ reply.answer = Authenticate(McpAuthenticator(McpAuthOptions(config)),
                                        reply.header, now)
<1>1. phase = "serving" /\ reply.answer \in {Refused("not_admitted", None), McpAnswer}
  BY DEF IInv, ReplyInv
<1>2. McpAuthOptions(config) # None  BY <1>1, Serving DEF WellFormed
<1>. QED  BY <1>1, <1>2 DEF McpAnswer

\* Whoever is let in was granted the role by the token, the default or the
\* anonymous role, and it is one of the allowed.
THEOREM Grants == Spec => []RolesAreGranted
<1>1. ASSUME IInv  PROVE RolesAreGranted
  <2>. SUFFICES ASSUME reply.answer.kind = "accepted"  PROVE RolesAreGranted
    BY DEF RolesAreGranted
  <2>1. ASSUME reply.to \in {"api", "ui"}, config.auth # None
        PROVE  Granted(config.auth, reply.header, reply.answer.role)
    <3>1. reply.answer = Authenticate(config.auth, reply.header, now)
      BY <1>1, <2>1 DEF IInv, ReplyInv, ApiAnswer
    <3>. QED  BY <3>1, AcceptedIsGranted
  <2>2. ASSUME reply.to = "mcp", config.mcp.auth # None
        PROVE  Granted(McpAuthenticator(McpAuthOptions(config)), reply.header, reply.answer.role)
    <3>1. reply.answer = Authenticate(McpAuthenticator(McpAuthOptions(config)), reply.header, now)
      BY <1>1, <2>2, McpOutcome DEF Refused
    <3>. QED  BY <3>1, AcceptedIsGranted
  <2>. QED  BY <2>1, <2>2 DEF RolesAreGranted
<1>. QED  BY <1>1, Invariance, PTL

\* The environment of the Admin UI is what startup decided, whatever was inherited.
LEMMA ChildEnvironment ==
  ASSUME NEW c, NEW e, NEW ui
  PROVE  LET given == AdminUiEnv(c, e, ui)
         IN /\ given["KOZOU_ADAPTER_TOKEN"] = IF ApiActive(c) THEN ui.token ELSE None
            /\ given["KOZOU_UI_MCP_POSTURE"] = IF ~c.mcp.enabled THEN "off"
                                               ELSE IF c.mcp.auth = None THEN "local" ELSE "oauth"
            /\ given["KOZOU_UI_MCP_RESOURCE"] = IF c.mcp.enabled /\ c.mcp.auth # None
                                                THEN c.mcp.auth.resource ELSE None
            /\ given["KOZOU_UI_MCP_ADVERTISED_URL"] = IF c.mcp.enabled /\ c.mcp.auth = None
                                                      THEN c.mcp.advertisedUrl ELSE None
  BY DEF AdminUiEnv, Over

\* The Connect page is there when the endpoint is, and the address it hands out is
\* declared by this configuration and admitted by the listener.
THEOREM ConnectPages == Spec => []ConnectPageIsTrue
<1>1. ASSUME IInv  PROVE ConnectPageIsTrue
  <2>. SUFFICES ASSUME reply.to = "page"
       PROVE  /\ reply.answer.kind = "accepted" <=> config.mcp.enabled
              /\ reply.header = IF config.mcp.auth = None THEN config.mcp.advertisedUrl
                                ELSE config.mcp.auth.resource
              /\ reply.header # None => Admits(Urls[reply.header].host, None)
    BY DEF ConnectPageIsTrue
  <2>1. /\ phase = "serving" /\ command = "dev"
        /\ reply.header = PageAddress /\ reply.answer = PageAnswer
    BY <1>1 DEF IInv, ReplyInv, DevReply
  <2>2. ~ConfigRefused(config)  BY <1>1, <2>1, Serving
  <2>3. PICK ui : boot.childEnv = AdminUiEnv(config, env, ui)
    BY <1>1, <2>1 DEF IInv, BootInv, DevBoot
  <2>4. /\ boot.childEnv["KOZOU_UI_MCP_POSTURE"] =
               IF ~config.mcp.enabled THEN "off"
               ELSE IF config.mcp.auth = None THEN "local" ELSE "oauth"
        /\ boot.childEnv["KOZOU_UI_MCP_RESOURCE"] =
               IF config.mcp.enabled /\ config.mcp.auth # None
               THEN config.mcp.auth.resource ELSE None
        /\ boot.childEnv["KOZOU_UI_MCP_ADVERTISED_URL"] =
               IF config.mcp.enabled /\ config.mcp.auth = None
               THEN config.mcp.advertisedUrl ELSE None
    BY <2>3, ChildEnvironment
  <2>5. ~config.mcp.enabled => config.mcp.auth = None /\ config.mcp.advertisedUrl = None
    BY <2>2 DEF ConfigRefused
  <2>6. reply.answer.kind = "accepted" <=> config.mcp.enabled
    BY <2>1, <2>4 DEF PageAnswer, Accepted, Refused
  <2>7. reply.header = IF config.mcp.auth = None THEN config.mcp.advertisedUrl
                       ELSE config.mcp.auth.resource
    BY <2>1, <2>4, <2>5 DEF PageAddress
  <2>8. ASSUME reply.header # None  PROVE Admits(Urls[reply.header].host, None)
    <3>1. reply.header \in DeclaredUrls(config)
      BY <2>7, <2>8 DEF DeclaredUrls, Resource
    <3>. QED  BY <3>1 DEF Admits, GuardHostnames
  <2>. QED  BY <2>6, <2>7, <2>8
<1>. QED  BY <1>1, Invariance, PTL

-----------------------------------------------------------------------------
(* The token minted for the Admin UI. *)

\* It carries the role it is minted for, and the times it was given.
LEMMA MintedToken ==
  ASSUME NEW c, NEW role, NEW extra, NEW t, RoleClaim(c) \notin ReservedRoleClaims
  PROVE  LET payload == SignServiceToken(c, role, extra, t).payload
         IN /\ RoleClaim(c) \in DOMAIN payload <=> role \notin {None, Blank}
            /\ role \notin {None, Blank} => payload[RoleClaim(c)] = role
            /\ \A claim \in {"exp", "nbf"} \cap DOMAIN extra :
                  claim \in DOMAIN payload /\ payload[claim] = extra[claim]
  BY DEF SignServiceToken, ReservedRoleClaims, Over, Only, Empty

\* A token whose times are wrong is not let in.
LEMMA TimesAreVerified ==
  ASSUME NEW jwt, NEW token, NEW t \in Nat, Verified(jwt, token, t)
  PROVE  /\ Carries(token, "exp") => token.payload["exp"] # Unusable /\ token.payload["exp"] > t
         /\ Carries(token, "nbf") => token.payload["nbf"] # Unusable /\ token.payload["nbf"] <= t
<1>1. VerifyChecks(jwt, token, t)[15].holds /\ VerifyChecks(jwt, token, t)[17].holds
  BY DEF Verified
<1>. QED  BY <1>1 DEF VerifyChecks, IsTime

\* What startup knows to be rejected is not let in at that moment.
LEMMA KnownRejected ==
  ASSUME NEW auth, NEW t \in Nat, ~Misconfigured(auth),
         Blank \notin {auth.ui.role, auth.defaultRole},
         \A claim \in {"exp", "nbf"} \cap DOMAIN auth.ui.claims :
            auth.ui.claims[claim] \in Int \cup {Unusable},
         NEW token, token = SignServiceToken(auth, auth.ui.role, auth.ui.claims, t),
         token \notin {None, Unusable},
         Authenticate(auth, token, t).kind = "accepted"
  PROVE  ~RejectedInTime(auth.ui.claims, t) /\ ~RejectedForRole(auth)
<1>1. RoleClaim(auth) \notin ReservedRoleClaims  BY DEF Misconfigured
<1>2. /\ RoleClaim(auth) \in DOMAIN token.payload <=> auth.ui.role # None
      /\ auth.ui.role # None => token.payload[RoleClaim(auth)] = auth.ui.role
      /\ \A claim \in {"exp", "nbf"} \cap DOMAIN auth.ui.claims :
            claim \in DOMAIN token.payload /\ token.payload[claim] = auth.ui.claims[claim]
  BY <1>1, MintedToken
<1>3. Verified(auth.jwt, token, t) /\ Authenticate(auth, token, t) = ResolveRole(auth, token.payload)
  BY AcceptedToken
<1>4. ~RejectedInTime(auth.ui.claims, t)
  <2>1. ASSUME "exp" \in DOMAIN auth.ui.claims
        PROVE  auth.ui.claims["exp"] # Unusable /\ auth.ui.claims["exp"] > t
    BY <1>2, <1>3, <2>1, TimesAreVerified DEF Carries
  <2>2. ASSUME "nbf" \in DOMAIN auth.ui.claims
        PROVE  auth.ui.claims["nbf"] # Unusable /\ auth.ui.claims["nbf"] <= t
    BY <1>2, <1>3, <2>2, TimesAreVerified DEF Carries
  <2>. QED  BY <2>1, <2>2 DEF RejectedInTime
<1>5. ~RejectedForRole(auth)
  BY <1>2, <1>3, RoleOfClaims DEF RejectedForRole, Or
<1>. QED  BY <1>4, <1>5

\* What a request of the Admin UI presents, and what is known of it.
LEMMA UiReply ==
  ASSUME IInv, reply.to = "ui"
  PROVE  /\ phase = "serving" /\ command = "dev" /\ ApiActive(config)
         /\ reply.at = now /\ reply.answer = ApiAnswer(reply.header)
         /\ boot = DevBoot(config, env, boot.at) /\ ~DevRefused(config, env)
         /\ reply.header = AdminUiToken(config, env, boot.at).token
         /\ boot.exposure = Exposure(config, AdminUiToken(config, env, boot.at))
         /\ boot.described = DevPrivilegeRole(config, env)
<1>1. /\ phase = "serving" /\ command = "dev" /\ ApiActive(config)
      /\ reply.at = now /\ reply.answer = ApiAnswer(reply.header)
      /\ reply.header = boot.childEnv["KOZOU_ADAPTER_TOKEN"]
  BY DEF IInv, ReplyInv, DevReply
<1>2. boot = DevBoot(config, env, boot.at) /\ ~DevRefused(config, env)
  BY <1>1 DEF IInv, BootInv
<1>3. /\ boot.childEnv = AdminUiEnv(config, env, AdminUiToken(config, env, boot.at))
      /\ boot.exposure = Exposure(config, AdminUiToken(config, env, boot.at))
      /\ boot.described = DevPrivilegeRole(config, env)
  BY <1>2 DEF DevBoot
<1>4. reply.header = AdminUiToken(config, env, boot.at).token
  BY <1>1, <1>3, ChildEnvironment
<1>. QED  BY <1>1, <1>2, <1>3, <1>4

\* The protection startup announces for a public Admin UI is what the API gives it.
THEOREM ExposureAnnounced == Spec => []ExposureIsHonest
<1>1. ASSUME IInv  PROVE ExposureIsHonest
  <2>. SUFFICES ASSUME reply.to = "ui", reply.at = boot.at, reply.answer.kind = "accepted"
       PROVE  boot.exposure = CASE config.auth = None -> "unauthenticated"
                                [] config.auth # None /\ reply.header = None -> "anon-role"
                                [] OTHER -> "service-token"
    BY DEF ExposureIsHonest
  <2>1. PICK ui : /\ ui = AdminUiToken(config, env, now)
                  /\ reply.header = ui.token /\ boot.exposure = Exposure(config, ui)
    BY <1>1, UiReply
  <2>2. ApiAuth(config) = config.auth /\ reply.answer = ApiAnswer(reply.header)
    BY <1>1, UiReply DEF ApiAuth
  <2>3. CASE config.auth = None
    BY <2>1, <2>2, <2>3 DEF Exposure
  <2>4. CASE config.auth # None /\ reply.header = None
    <3>1. Authenticate(config.auth, None, now).kind = "accepted"
      BY <2>2, <2>4 DEF ApiAnswer
    <3>2. config.auth.anonRole # None  BY <3>1, AcceptedWithoutToken
    <3>. QED  BY <2>1, <2>2, <2>4, <3>2 DEF Exposure
  <2>5. CASE config.auth # None /\ reply.header # None
    <3>1. Authenticate(config.auth, reply.header, now).kind = "accepted"
      BY <2>2, <2>5 DEF ApiAnswer
    <3>2. reply.header # Unusable  BY <2>5, <3>1, AcceptedWithoutToken
    <3>3. ~ui.knownRejected
      <4>1. CASE ui.knownRejected = FALSE  BY <4>1
      <4>2. CASE /\ ui.token = SignServiceToken(config.auth, config.auth.ui.role,
                                               config.auth.ui.claims, now)
                 /\ ui.knownRejected = (RejectedInTime(config.auth.ui.claims, now)
                                        \/ RejectedForRole(config.auth))
        <5>1. WellFormed(config) /\ ~Misconfigured(config.auth)
          BY <1>1, UiReply, Serving, <2>2, <2>5 DEF DevRefused
        <5>2. now \in Nat  BY <1>1 DEF IInv, BootInv
        <5>3. ~RejectedInTime(config.auth.ui.claims, now) /\ ~RejectedForRole(config.auth)
          BY <5>1, <5>2, <4>2, <2>1, <2>5, <3>1, <3>2, KnownRejected DEF WellFormed
        <5>. QED  BY <4>2, <5>3
      <4>. QED  BY <2>1, <2>2, <2>5, <4>1, <4>2 DEF AdminUiToken
    <3>. QED  BY <2>1, <2>2, <2>5, <3>3 DEF Exposure
  <2>. QED  BY <2>3, <2>4, <2>5
<1>. QED  BY <1>1, Invariance, PTL

-----------------------------------------------------------------------------
(* The described role. *)

LEMMA TheOnlyOne ==
  ASSUME NEW S, IsFiniteSet(S), Cardinality(S) = 1, NEW x \in S
  PROVE  x = CHOOSE y \in S : TRUE
<1>1. PICK y : S = {y}  BY FS_Singleton
<1>. QED  BY <1>1

\* Over HTTP: the one allowed role, or the fixed one.
LEMMA DescribedOverHttp ==
  ASSUME IInv, boot.described # None, reply.answer.kind = "accepted",
         reply.to = "mcp", command = "mcp_http", config.mcp.execution.enabled
  PROVE  reply.answer.role = boot.described
<1>1. /\ phase = "serving" /\ ~McpRefused(config, env, command)
      /\ boot.described = AnnotationRole(config, env)
      /\ reply.answer = McpAnswer
  BY DEF IInv, BootInv, ReplyInv, Refused
<1>2. WellFormed(config)  BY <1>1, Serving
<1>3. AnnotationRole(config, env) \notin {None, Thrown}
  BY <1>1 DEF McpRefused
<1>4. CASE config.mcp.auth # None
  <2>. DEFINE allowed == McpAllowedRoles(config)
  <2>1. /\ allowed # None /\ Cardinality(allowed) = 1
        /\ boot.described = CHOOSE role \in allowed : TRUE
    BY <1>1, <1>3, <1>4 DEF AnnotationRole
  <2>2. IsFiniteSet(allowed) /\ McpAuthOptions(config) # None
    BY <1>2, <1>4, <2>1 DEF WellFormed
  <2>3. McpAuthOptions(config) # Thrown  BY <1>1 DEF McpRefused
  <2>4. McpAuthenticator(McpAuthOptions(config)).allowedRoles = allowed
    BY <1>4, <2>3 DEF McpAuthenticator, McpAuthOptions
  <2>5. Granted(McpAuthenticator(McpAuthOptions(config)), reply.header, reply.answer.role)
    BY <1>1, <2>2, AcceptedIsGranted DEF McpAnswer
  <2>6. McpAuthenticator(McpAuthOptions(config)).anonRole = None  BY DEF McpAuthenticator
  <2>7. reply.answer.role \in allowed  BY <2>1, <2>4, <2>5, <2>6 DEF Granted
  <2>. QED  BY <2>1, <2>2, <2>7, TheOnlyOne
<1>5. CASE config.mcp.auth = None
  <2>1. McpAuthOptions(config) = None  BY <1>5 DEF McpAuthOptions
  <2>2. reply.answer.role = config.mcp.execution.role
    BY <1>1, <2>1 DEF McpAnswer, FixedRole, Accepted
  <2>3. config.mcp.execution.role # None  BY <1>1, <1>5 DEF McpRefused, ExecutionRefused
  <2>4. boot.described = config.mcp.execution.role
    BY <1>1, <1>3, <1>5, <2>3 DEF AnnotationRole
  <2>. QED  BY <2>2, <2>4
<1>. QED  BY <1>4, <1>5

\* In the Admin UI: the role its token was minted for.
LEMMA DescribedInTheUi ==
  ASSUME IInv, boot.described # None, reply.answer.kind = "accepted",
         reply.to = "ui", reply.header # None, config.introspection.role = None
  PROVE  reply.answer.role = boot.described
<1>1. /\ phase = "serving" /\ ApiActive(config) /\ reply.answer = ApiAnswer(reply.header)
      /\ ~DevRefused(config, env)
      /\ reply.header = AdminUiToken(config, env, boot.at).token
      /\ boot.described = DevPrivilegeRole(config, env)
  BY UiReply
<1>2. DevPrivilegeRole(config, env) \notin {None, Thrown}
  BY <1>1 DEF DevRefused
<1>3. /\ ~HasReadyMadeToken(config, env) /\ config.auth # None
      /\ boot.described = Or(config.auth.ui.role, config.auth.defaultRole)
  BY <1>1, <1>2 DEF DevPrivilegeRole, PrivilegeRole, Or
<1>4. reply.header = SignServiceToken(config.auth, config.auth.ui.role,
                                      config.auth.ui.claims, boot.at)
  BY <1>1, <1>3 DEF AdminUiToken, ApiAuth, HasReadyMadeToken, Or
<1>5. WellFormed(config) /\ ~Misconfigured(config.auth)
  BY <1>1, <1>3, Serving DEF DevRefused, ApiAuth
<1>6. /\ Authenticate(config.auth, reply.header, now).kind = "accepted"
      /\ reply.answer = Authenticate(config.auth, reply.header, now)
  BY <1>1, <1>3 DEF ApiAnswer
<1>7. reply.header # Unusable  BY <1>6, AcceptedWithoutToken
<1>8. /\ RoleClaim(config.auth) \in DOMAIN reply.header.payload <=> config.auth.ui.role # None
      /\ config.auth.ui.role # None =>
            reply.header.payload[RoleClaim(config.auth)] = config.auth.ui.role
  BY <1>3, <1>4, <1>5, MintedToken DEF Misconfigured, WellFormed
<1>9. Granted(config.auth, reply.header, reply.answer.role)
  BY <1>6, AcceptedIsGranted
<1>. QED  BY <1>3, <1>8, <1>9 DEF Granted, Or

\* The role whose privileges are described is the one that acts.
THEOREM DescriptionsFit == Spec => []DescribedRoleActs
<1>1. IInv => DescribedRoleActs
  BY DescribedOverHttp, DescribedInTheUi DEF DescribedRoleActs
<1>. QED  BY <1>1, Invariance, PTL

-----------------------------------------------------------------------------
(* What a silent resource server enforces. *)

\* Nothing to report: the issuers and the audiences are those of the metadata.
LEMMA SilentBindings ==
  ASSUME NEW options, StaysSilent(options),
         LET jwt == BoundJwt(options)
         IN /\ None \notin {jwt.issuer, jwt.audience}
            /\ Blank \notin jwt.issuer.values \cup jwt.audience.values
  PROVE  LET jwt == BoundJwt(options)
         IN /\ jwt.issuer.values = options.servers /\ jwt.audience.values = {options.resource}
            /\ Compared(jwt.issuer) /\ Compared(jwt.audience)
<1>. PICK jwt : jwt = BoundJwt(options)  OBVIOUS
<1>1. IssuerDivergences(options) = {} /\ AudienceDivergences(options) = {}
      /\ ~AudienceNote(options)
  BY DEF StaysSilent
<1>2. jwt.issuer.values = options.servers
  <2>1. ~PresenceOnly(jwt.issuer) /\ Usable(jwt.issuer) # {}
    BY <1>1 DEF IssuerDivergences
  <2>2. /\ {<<"accepted", name>> : name \in Usable(jwt.issuer) \ options.servers} = {}
        /\ {<<"advertised", name>> : name \in options.servers \ Usable(jwt.issuer)} = {}
    BY <1>1, <2>1 DEF IssuerDivergences
  <2>3. Usable(jwt.issuer) = options.servers  BY <2>2
  <2>. QED  BY <2>3 DEF Usable
<1>3. jwt.audience.values = {options.resource}
  <2>1. ~PresenceOnly(jwt.audience) /\ Usable(jwt.audience) # {}
    BY <1>1 DEF AudienceDivergences, PresenceOnly, Usable
  <2>2. options.resource \in jwt.audience.values
    BY <1>1, <2>1 DEF AudienceNote
  <2>3. {<<"accepted", name>> : name \in Usable(jwt.audience) \ {options.resource}} = {}
    BY <1>1, <2>1, <2>2 DEF AudienceDivergences
  <2>4. Usable(jwt.audience) \subseteq {options.resource}  BY <2>3
  <2>. QED  BY <2>2, <2>4 DEF Usable
<1>4. Compared(jwt.issuer) /\ Compared(jwt.audience)
  BY DEF Compared
<1>. QED  BY <1>2, <1>3, <1>4

\* The checks on issuer and audience.
LEMMA BindingChecks ==
  ASSUME NEW jwt, NEW token, NEW t, Compared(jwt.issuer), Compared(jwt.audience)
  PROVE  /\ VerifyChecks(jwt, token, t)[11].holds <=>
               Carries(token, "iss") /\ token.payload["iss"] \in jwt.issuer.values
         /\ VerifyChecks(jwt, token, t)[12].holds <=>
               Carries(token, "aud") /\ token.payload["aud"] \cap jwt.audience.values # {}
         /\ \A i \in (1..17) \ {11, 12} :
               VerifyChecks(jwt, token, t)[i].refusal.reason
                  \notin {"issuer_mismatch", "audience_mismatch"}
<1>1. VerifyChecks(jwt, token, t)[11].holds <=>
        Carries(token, "iss") /\ token.payload["iss"] \in jwt.issuer.values
  BY DEF VerifyChecks
<1>2. VerifyChecks(jwt, token, t)[12].holds <=>
        Carries(token, "aud") /\ token.payload["aud"] \cap jwt.audience.values # {}
  BY DEF VerifyChecks
<1>3. ASSUME NEW i \in (1..17) \ {11, 12}
      PROVE  VerifyChecks(jwt, token, t)[i].refusal.reason
                \notin {"issuer_mismatch", "audience_mismatch"}
  BY <1>3, DeploymentAssumption DEF VerifyChecks, Refused
<1>. QED  BY <1>1, <1>2, <1>3

LEMMA RoleReasons ==
  ASSUME NEW c, NEW claims
  PROVE  ResolveRole(c, claims).reason \notin {"issuer_mismatch", "audience_mismatch"}
  BY DeploymentAssumption DEF ResolveRole, Accepted, Refused

\* A resource server that starts without a word enforces the contract it advertises.
THEOREM SilentContract == Spec => []SilenceMeansAgreement
<1>1. ASSUME IInv  PROVE SilenceMeansAgreement
  <2>. SUFFICES ASSUME NEW options, options = McpAuthOptions(config),
                       NEW token, token = reply.header,
                       reply.to = "mcp", config.mcp.auth # None, token \notin {None, Unusable},
                       StaysSilent(options),
                       NEW asAdvertised,
                       asAdvertised = (/\ Carries(token, "iss")
                                       /\ token.payload["iss"] \in options.servers
                                       /\ Carries(token, "aud")
                                       /\ options.resource \in token.payload["aud"])
       PROVE  /\ reply.answer.kind = "accepted" => asAdvertised
              /\ asAdvertised =>
                    reply.answer.reason \notin {"issuer_mismatch", "audience_mismatch"}
    BY DEF SilenceMeansAgreement
  <2>1. phase = "serving" /\ config.mcp.enabled /\ command \in {"dev", "mcp_http"}
    BY <1>1 DEF IInv, ReplyInv
  <2>2. options # Thrown
    BY <1>1, <2>1 DEF IInv, BootInv, DevRefused, McpRefused, McpStartupRefused
  <2>3. PICK jwt : jwt = BoundJwt(options)  OBVIOUS
  <2>4. /\ None \notin {jwt.issuer, jwt.audience}
        /\ Blank \notin jwt.issuer.values \cup jwt.audience.values
    BY <1>1, <2>1, <2>2, <2>3, Serving DEF WellFormed
  <2>5. /\ jwt.issuer.values = options.servers /\ jwt.audience.values = {options.resource}
        /\ Compared(jwt.issuer) /\ Compared(jwt.audience)
    BY <2>3, <2>4, SilentBindings
  <2>6. PICK auth : auth = McpAuthenticator(options)  OBVIOUS
  <2>7. auth.jwt = jwt  BY <2>3, <2>6 DEF McpAuthenticator
  <2>8. asAdvertised <=> /\ VerifyChecks(jwt, token, now)[11].holds
                         /\ VerifyChecks(jwt, token, now)[12].holds
    BY <2>5, BindingChecks
  <2>9. CASE reply.answer = Refused("not_admitted", None)
    BY <2>9, DeploymentAssumption DEF Refused
  <2>10. CASE reply.answer = Authenticate(auth, token, now)
    <3>1. CASE Verified(jwt, token, now) /\ reply.answer = ResolveRole(auth, token.payload)
      BY <3>1, <2>8, RoleReasons DEF Verified
    <3>2. ASSUME NEW i \in 1..17, ~VerifyChecks(jwt, token, now)[i].holds,
                 reply.answer = VerifyChecks(jwt, token, now)[i].refusal
          PROVE  /\ reply.answer.kind # "accepted"
                 /\ asAdvertised =>
                       reply.answer.reason \notin {"issuer_mismatch", "audience_mismatch"}
      BY <3>2, <2>5, <2>8, ChecksRefuse, BindingChecks
    <3>. QED  BY <2>7, <2>10, <3>1, <3>2, TokenOutcome
  <2>. QED  BY <1>1, <2>6, <2>9, <2>10, McpOutcome
<1>. QED  BY <1>1, Invariance, PTL

-----------------------------------------------------------------------------
(* The servers `kozou dev` starts are taken down together (DevLifecycle),  *)
(* whatever is enabled, however many requests and signals arrive.          *)

\* Until the API is closed, which takes that nothing is in flight, its pool is open.
PoolInv ==
    /\ step # "gone" /\ api \in {"listening", "closing"} => pool = "open"
    /\ \A q \in Requests : /\ request[q] # "broken"
                           /\ request[q] = "inflight" /\ step # "gone" =>
                                 api \in {"listening", "closing"}
    /\ request = [q \in Requests |-> request[q]]

\* The flag says whether the backends were closed; when the child was not told to stop it
\* was its own end that set it, and that end surfaced the status.
StatusInv ==
    /\ shuttingDown \in BOOLEAN /\ closes = (IF shuttingDown THEN 1 ELSE 0)
    /\ terminated \in BOOLEAN /\ (terminated => shuttingDown)
    /\ step \in {"api", "mcp", "spawn"} => ~shuttingDown /\ child = "none" /\ childCode = "zero"
    /\ step \in {"up", "resolved"} =>
          child \in {"running", "unspawned", "dead", "exited", "neverRan"}
    /\ step = "gone" => child \in {"none", "exited", "neverRan"}
    /\ step = "gone" /\ child = "none" => exitCode = "nonzero"
    /\ shuttingDown /\ ~terminated => child \in {"exited", "unspawned", "neverRan"}
    /\ childCode = "nonzero" => child \in {"dead", "exited"}
    /\ childCode = "nonzero" /\ ~terminated /\ child = "exited" => exitCode = "nonzero"
    /\ child = "neverRan" => exitCode = "nonzero"

DevInv == PoolInv /\ StatusInv

LEMMA DevInitInv == DevInit => DevInv
<1>. SUFFICES ASSUME DevInit PROVE DevInv
  OBVIOUS
<1>1. /\ step = "api" /\ api = "none" /\ child = "none" /\ childCode = "zero"
      /\ shuttingDown = FALSE /\ terminated = FALSE /\ closes = 0
      /\ request = [q \in Requests |-> "new"]
  BY DEF DevInit
<1>. QED  BY <1>1 DEF DevInv, PoolInv, StatusInv

LEMMA PoolStep == DevInv /\ [DevNext]_devVars => PoolInv'
<1>. SUFFICES ASSUME PoolInv, [DevNext]_devVars PROVE PoolInv'
  BY DEF DevInv
<1>1. CASE UNCHANGED <<api, pool, request>> /\ (step = "gone" => step' = "gone")
  BY <1>1 DEF PoolInv
<1>2. CASE step = "gone" /\ UNCHANGED <<step, request>>
  BY <1>2 DEF PoolInv
<1>3. CASE StartApi \/ StartMcp
  BY <1>3 DEF PoolInv, StartApi, StartMcp, StartupFails
<1>4. CASE SpawnAdminUi \/ ChildEnds \/ McpClosed \/ Resolve
           \/ ProcessExits
  BY <1>1, <1>2, <1>4 DEF SpawnAdminUi, ChildEnds, McpClosed,
        Resolve, ProcessExits
<1>5. CASE UNCHANGED <<pool, request, step>> /\ api' \in {api, Closing(api)}
  BY <1>5 DEF PoolInv, Closing
<1>6. CASE Signal
  BY <1>5, <1>6 DEF Signal, Shutdown, CloseBackends
<1>7. CASE OnExit
  BY <1>5, <1>7 DEF OnExit, CloseBackends
<1>8. CASE OnError
  BY <1>5, <1>8 DEF OnError, Shutdown, CloseBackends
<1>9. CASE ApiClosed
  BY <1>9 DEF PoolInv, ApiClosed
<1>10. ASSUME NEW q \in Requests, Arrive(q) \/ Serve(q)  PROVE PoolInv'
  BY <1>10 DEF PoolInv, Arrive, Serve
<1>11. CASE UNCHANGED devVars
  BY <1>11 DEF PoolInv, devVars
<1>. QED
  BY <1>3, <1>4, <1>6, <1>7, <1>8, <1>9, <1>10, <1>11 DEF DevNext, Stopped

\* What the exit status depends on.
lifetime == <<step, child, childCode, shuttingDown, terminated, exitCode, closes>>

LEMMA StatusStep == DevInv /\ [DevNext]_devVars => StatusInv'
<1>. SUFFICES ASSUME StatusInv, [DevNext]_devVars PROVE StatusInv'
  BY DEF DevInv
<1>1. CASE UNCHANGED lifetime
  BY <1>1 DEF StatusInv, lifetime
<1>2. CASE StartApi
  BY <1>2 DEF StatusInv, StartApi, StartupFails
<1>3. CASE StartMcp
  BY <1>3 DEF StatusInv, StartMcp, StartupFails
<1>4. CASE SpawnAdminUi
  BY <1>4 DEF StatusInv, SpawnAdminUi
<1>5. CASE Signal
  <2>1. UNCHANGED <<step, child, childCode, exitCode>> /\ step \in {"up", "resolved"}
    BY <1>5 DEF Signal
  <2>2. shuttingDown' = TRUE /\ closes' = (IF shuttingDown THEN closes ELSE closes + 1)
    BY <1>5 DEF Signal, Shutdown, CloseBackends, StatusInv
  <2>3. terminated' = IF shuttingDown THEN terminated ELSE Told
    BY <1>5 DEF Signal, Shutdown, StatusInv
  <2>4. CASE shuttingDown
    BY <2>1, <2>2, <2>3, <2>4 DEF StatusInv
  <2>5. CASE ~shuttingDown
    <3>1. terminated' \in BOOLEAN /\ (terminated' <=> child \in {"running", "dead"})
      BY <2>3, <2>5 DEF StatusInv, Told
    <3>. QED  BY <2>1, <2>2, <2>5, <3>1 DEF StatusInv
  <2>. QED  BY <2>4, <2>5
<1>6. CASE ChildEnds
  BY <1>6 DEF StatusInv, ChildEnds
<1>7. CASE OnExit
  <2>1. /\ UNCHANGED <<step, childCode, terminated>> /\ child = "dead" /\ child' = "exited"
        /\ exitCode' = (IF shuttingDown THEN exitCode ELSE childCode)
    BY <1>7 DEF OnExit, AlreadyShuttingDown, StatusSurfaced
  <2>2. shuttingDown' = TRUE /\ closes' = (IF shuttingDown THEN closes ELSE closes + 1)
    BY <1>7 DEF OnExit, AlreadyShuttingDown, CloseBackends, StatusInv
  <2>. QED  BY <2>1, <2>2 DEF StatusInv
<1>8. CASE OnError
  <2>1. /\ UNCHANGED <<step, childCode>> /\ child = "unspawned" /\ child' = "neverRan"
        /\ exitCode' = "nonzero"
    BY <1>8 DEF OnError
  <2>2. shuttingDown' = TRUE /\ closes' = (IF shuttingDown THEN closes ELSE closes + 1)
    BY <1>8 DEF OnError, Shutdown, CloseBackends, StatusInv
  <2>3. terminated' = IF shuttingDown THEN terminated ELSE Told
    BY <1>8 DEF OnError, Shutdown, StatusInv
  <2>. QED  BY <2>1, <2>2, <2>3 DEF StatusInv, Told
<1>9. CASE McpClosed \/ ApiClosed
  BY <1>1, <1>9 DEF lifetime, McpClosed, ApiClosed
<1>10. CASE Resolve
  BY <1>10 DEF StatusInv, Resolve
<1>11. CASE ProcessExits
  BY <1>11 DEF StatusInv, ProcessExits
<1>12. ASSUME NEW q \in Requests, Arrive(q) \/ Serve(q)  PROVE StatusInv'
  BY <1>1, <1>12 DEF lifetime, Arrive, Serve
<1>13. CASE UNCHANGED devVars
  BY <1>1, <1>13 DEF lifetime, devVars
<1>. QED
  BY <1>2, <1>3, <1>4, <1>5, <1>6, <1>7, <1>8, <1>9, <1>10, <1>11, <1>12, <1>13
     DEF DevNext, Stopped

LEMMA DevStep == DevInv /\ [DevNext]_devVars => DevInv'
BY PoolStep, StatusStep DEF DevInv

\* However signals, the child's end and a failed spawn race: no request accepted before
\* the teardown loses its pool, nothing is closed twice, and a child that never ran or
\* failed unasked shows in the exit status (dev.ts:124-127, 313, 324-325).
THEOREM CleanTeardown == DevSpec => []TeardownIsClean
<1>1. DevInv => TeardownIsClean
  <2>. SUFFICES ASSUME DevInv PROVE TeardownIsClean
    OBVIOUS
  <2>1. \A q \in Requests : request[q] # "broken"
    BY DEF DevInv, PoolInv
  <2>2. closes <= 1
    BY DEF DevInv, StatusInv
  <2>3. /\ step = "gone" /\ child = "neverRan" => exitCode = "nonzero"
        /\ step = "gone" /\ childCode = "nonzero" /\ ~terminated => exitCode = "nonzero"
    BY DEF DevInv, StatusInv
  <2>. QED  BY <2>1, <2>2, <2>3 DEF TeardownIsClean
<1>. QED  BY <1>1, DevInitInv, DevStep, PTL DEF DevSpec
=============================================================================
