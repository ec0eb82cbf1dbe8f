------------------------------ MODULE BearerAuth ------------------------------
(***************************************************************************)
(* The verification of a bearer token and the resolution of the database   *)
(* role it may assume (packages/core/src/auth.ts), shared by the REST API  *)
(* (packages/api/src/auth.ts) and the MCP endpoint, and the minting of the *)
(* token the bundled Admin UI presents.                                    *)
(*                                                                         *)
(* A header is None (absent), Unusable (not "Bearer <token>") or a token   *)
(*   [formed, alg, signer, key, payload]                                   *)
(* whose payload is a function from the claims it carries to their values  *)
(* and whose `key` says what a remote key set answers for it.  The claims  *)
(* that hold a time hold a number, or Unusable for anything else; "aud"    *)
(* holds a set.  A constraint on "iss" or "aud" is None or                 *)
(*   [list |-> BOOLEAN, values |-> a set],                                 *)
(* a plain string being the set that holds it.                             *)
(***************************************************************************)
EXTENDS Integers, FiniteSets, FiniteSetsExt, TLC

CONSTANTS
    None,      \* undefined
    Blank,     \* the empty string
    Unusable   \* a value of the wrong shape

ASSUME BearerAuthAssumption == None # Unusable /\ Blank # Unusable /\ None # Blank

Empty == [claim \in {} |-> None]
Or(value, default) == IF value = None THEN default ELSE value

\* { [name]: value }, and { ...g, ...f }.
Only(name, value) == [x \in {name} |-> value]
Over(f, g) == [x \in DOMAIN f \cup DOMAIN g |-> IF x \in DOMAIN f THEN f[x] ELSE g[x]]

-----------------------------------------------------------------------------
(* The configuration of an authenticator: its `jwt` block holds the kinds  *)
(* of key it was given, as `keys`.                                         *)

RoleClaim(config) == Or(config.roleClaim, "role")
ReservedRoleClaims == {"exp", "nbf", "iat", "iss", "aud"}

\* createAuthenticator throws at startup.
Misconfigured(config) ==
    \/ Cardinality(config.jwt.keys) # 1
    \/ RoleClaim(config) \in ReservedRoleClaims

IsSymmetric(jwt) == "secret" \in jwt.keys
IsRemote(jwt) == "jwksUri" \in jwt.keys
Algorithms(jwt) == Or(jwt.algorithms, IF IsSymmetric(jwt) THEN {"HS256"} ELSE {"RS256"})
Signer(jwt) == IF IsSymmetric(jwt) THEN "operator" ELSE "idp"

-----------------------------------------------------------------------------
(* The answers of authenticate(), and the REST status of each. *)

Accepted(role, claims) ==
    [kind |-> "accepted", reason |-> None, role |-> role, claims |-> claims]
Refused(kind, reason) ==
    [kind |-> kind, reason |-> reason, role |-> None, claims |-> Empty]

-----------------------------------------------------------------------------
(* jwtVerify and classifyVerifyError. *)

Carries(token, claim) == claim \in DOMAIN token.payload
IsTime(token, claim) == Carries(token, claim) => token.payload[claim] # Unusable

\* jose compares a claim only with a truthy option, and "" is none.
Compared(constraint) == constraint # None /\ (constraint.list \/ constraint.values # {Blank})

\* The checks in the order they run, with the refusal each of them ends in.
\* A key set looks for a key of the token's algorithm; a static key that does
\* not fit the algorithm is a TypeError, which is not a refusal.
VerifyChecks(jwt, token, now) ==
    LET p == token.payload
        claim(holds, reason) == [holds |-> holds, refusal |-> Refused("unauthorized", reason)]
    IN <<
    claim(token.formed, "malformed_token"),
    claim(token.alg \in Algorithms(jwt), "algorithm_not_allowed"),
    claim(IsRemote(jwt) => token.key # "unavailable", "jwks_unavailable"),
    claim(IsRemote(jwt) => token.alg = "RS256", "other_token_error"),
    claim(IsRemote(jwt) => token.key # "unknown", "unknown_key"),
    claim(IsRemote(jwt) => token.key # "ambiguous", "ambiguous_key"),
    [holds |-> IsSymmetric(jwt) <=> token.alg = "HS256", refusal |-> Refused("fault", None)],
    claim(token.signer = Signer(jwt), "bad_signature"),
    claim(jwt.issuer # None => Carries(token, "iss"), "issuer_missing"),
    claim(jwt.audience # None => Carries(token, "aud"), "audience_missing"),
    claim(Compared(jwt.issuer) => Carries(token, "iss") /\ p["iss"] \in jwt.issuer.values,
          "issuer_mismatch"),
    claim(Compared(jwt.audience) =>
              Carries(token, "aud") /\ p["aud"] \cap jwt.audience.values # {},
          "audience_mismatch"),
    claim(IsTime(token, "iat"), "claims_invalid"),
    claim(IsTime(token, "nbf"), "claims_invalid"),
    claim(Carries(token, "nbf") => IsTime(token, "nbf") /\ p["nbf"] <= now, "not_yet_valid"),
    claim(IsTime(token, "exp"), "claims_invalid"),
    claim(Carries(token, "exp") => IsTime(token, "exp") /\ p["exp"] > now, "expired") >>

-----------------------------------------------------------------------------
(* readRoleClaim and resolveRole. *)

\* Mutant: a claim that cannot be read borrows the answer for a missing one.
ResolveRoleBorrowing(config, claims) ==
    LET read == IF RoleClaim(config) \in DOMAIN claims THEN claims[RoleClaim(config)] ELSE None
        role == IF read \in {None, Blank, Unusable} THEN config.defaultRole ELSE read
    IN CASE role = None -> Refused("forbidden", "role_missing")
         [] role # None /\ config.allowedRoles # None /\ role \notin config.allowedRoles ->
              Refused("forbidden", "role_not_allowed")
         [] OTHER -> Accepted(role, claims)

ResolveRole(config, claims) ==
    LET named == RoleClaim(config) \in DOMAIN claims
        role == IF named THEN claims[RoleClaim(config)] ELSE config.defaultRole
    IN CASE named /\ role \in {Blank, Unusable} -> Refused("forbidden", "role_unreadable")
         [] ~named /\ role \in {None, Blank}    -> Refused("forbidden", "role_missing")
         [] OTHER ->
              IF config.allowedRoles # None /\ role \notin config.allowedRoles
              THEN Refused("forbidden", "role_not_allowed")
              ELSE Accepted(role, claims)

\* Only an absent header is anonymous.
Authenticate(config, header, now) ==
    IF header \in {None, Unusable}
    THEN IF header = None /\ config.anonRole # None
         THEN Accepted(config.anonRole, Empty)
         ELSE Refused("unauthorized", IF header = None THEN "no_token" ELSE "malformed_header")
    ELSE LET checks == VerifyChecks(config.jwt, header, now)
             failed == {i \in DOMAIN checks : ~checks[i].holds}
         IN IF failed # {} THEN checks[Min(failed)].refusal
            ELSE ResolveRole(config, header.payload)

-----------------------------------------------------------------------------
(* signServiceToken: the extra claims first, then whatever the mint        *)
(* controls; the role claim is dropped from the extra ones in any case.    *)

SignServiceToken(config, role, extra, now) ==
    LET rest == [claim \in DOMAIN extra \ {RoleClaim(config)} |-> extra[claim]]
        named == IF role \in {None, Blank} THEN Empty ELSE Only(RoleClaim(config), role)
        iss == IF config.jwt.issuer = None THEN Empty
               ELSE Only("iss", CHOOSE name \in config.jwt.issuer.values : TRUE)
        aud == IF config.jwt.audience = None THEN Empty
               ELSE Only("aud", config.jwt.audience.values)
    IN [formed |-> TRUE, alg |-> "HS256", signer |-> "operator", key |-> "match",
        payload |-> Over(aud, Over(iss, Over(Only("iat", now), Over(named, rest))))]
=============================================================================
