---------------------------- MODULE ResourceServer ----------------------------
(***************************************************************************)
(* The OAuth resource server of the MCP endpoint                           *)
(* (packages/mcp/src/httpAuth.ts): what it refuses to start with, the      *)
(* contract it enforces on tokens, and what it tells the operator about    *)
(* the distance between that contract and the one it advertises.           *)
(*                                                                         *)
(* The options are [resource, servers, jwt, roleClaim, allowedRoles,       *)
(* allowInsecureHttp]; `servers` is the set of the authorization servers.  *)
(***************************************************************************)
EXTENDS BearerAuth

\* What the URL parser reads in each URL:
\* [parses, scheme, host, local, userinfo, query, path].
CONSTANT Urls

IsHttp(url) == Urls[url].parses /\ Urls[url].scheme \in {"http", "https"}
IsBare(url) == ~Urls[url].userinfo /\ ~Urls[url].query

\* A URL that is published, and that bearer tokens travel to.
MayBeAdvertised(url, options) ==
    /\ IsHttp(url) /\ IsBare(url)
    /\ \/ Urls[url].scheme = "https"
       \/ Urls[url].local
       \/ options.allowInsecureHttp

-----------------------------------------------------------------------------
(* The contract: nobody is anonymous, no role is a default, and "iss" and  *)
(* "aud" are bound to what is advertised unless the operator says          *)
(* otherwise.                                                              *)

Exactly(value) == [list |-> FALSE, values |-> {value}]

BoundJwt(options) ==
    [options.jwt EXCEPT
        !.audience = Or(@, Exactly(options.resource)),
        !.issuer = Or(@, [list |-> Cardinality(options.servers) # 1,
                          values |-> options.servers])]

McpAuthenticator(options) ==
    [jwt |-> BoundJwt(options), roleClaim |-> options.roleClaim,
     allowedRoles |-> options.allowedRoles, defaultRole |-> None, anonRole |-> None]

ResourceServerRefused(options) ==
    \/ ~MayBeAdvertised(options.resource, options)
    \/ options.servers = {}
    \/ \E url \in options.servers : ~MayBeAdvertised(url, options)
    \/ Misconfigured(McpAuthenticator(options))

-----------------------------------------------------------------------------
(* describeConstraint and collectAdvertisementSignals. *)

PresenceOnly(constraint) == ~constraint.list /\ constraint.values = {Blank}
Usable(constraint) == constraint.values \ {Blank}
EmptyEntry(constraint) == IF Blank \in constraint.values THEN {"an empty entry"} ELSE {}

\* Mutant: only what is accepted beyond the advertised is reported.
DivergencesOneWay(options) ==
    LET issuer == BoundJwt(options).issuer
    IN IF PresenceOnly(issuer) THEN {"any issuer"}
       ELSE {<<"accepted", name>> : name \in Usable(issuer) \ options.servers}
IssuerDivergences(options) ==
    LET issuer == BoundJwt(options).issuer
    IN CASE PresenceOnly(issuer) -> {"any issuer"}
         [] ~PresenceOnly(issuer) /\ Usable(issuer) = {} -> {"no issuer"}
         [] OTHER -> EmptyEntry(issuer)
                     \cup {<<"accepted", name>> : name \in Usable(issuer) \ options.servers}
                     \cup {<<"advertised", name>> : name \in options.servers \ Usable(issuer)}

AudienceDivergences(options) ==
    LET audience == BoundJwt(options).audience
    IN CASE PresenceOnly(audience) -> {"any audience"}
         [] ~PresenceOnly(audience) /\ Usable(audience) = {} -> {"no audience"}
         [] options.resource \in audience.values ->
              {<<"accepted", name>> : name \in Usable(audience) \ {options.resource}}
         [] OTHER -> EmptyEntry(audience)

\* The documented escape hatch, a note and not a warning.
AudienceNote(options) ==
    LET audience == BoundJwt(options).audience
    IN /\ Usable(audience) # {}
       /\ options.resource \notin audience.values

StaysSilent(options) ==
    IssuerDivergences(options) \cup AudienceDivergences(options) = {} /\ ~AudienceNote(options)
=============================================================================
