----------------------------- MODULE MCDeployment -----------------------------
(* Small deployments for TLC: four ways to verify a token, two roles and a *)
(* few configurations of each kind, right and wrong.                       *)
EXTENDS Deployment

url(scheme, host, local, path) ==
    [parses |-> TRUE, scheme |-> scheme, host |-> host, local |-> local,
     userinfo |-> FALSE, query |-> FALSE, path |-> path]
MCUrls ==
    "https://mcp" :> url("https", "mcp.", FALSE, "/mcp")
    @@ "http://mcp" :> url("http", "mcp", FALSE, "/mcp")
    @@ "http://local" :> url("http", "localhost", TRUE, "/mcp")
    @@ "https://other" :> url("https", "other", FALSE, "/other")
    @@ "https://idp" :> url("https", "idp", FALSE, "/")
    @@ "https://idp2" :> url("https", "idp2", FALSE, "/")
MCHostName == [host \in {"localhost", "mcp", "other", "lan", "idp", "idp2"} |-> host]
              @@ ("mcp." :> "mcp") @@ ("" :> Blank)

-----------------------------------------------------------------------------
Jwt(keys, issuer, audience) ==
    [keys |-> keys, algorithms |-> None, issuer |-> issuer, audience |-> audience]
Idp == Exactly("https://idp")
Hs == Jwt({"secret"}, None, None)
HsBound == Jwt({"secret"}, Idp, Exactly("app"))
HsNowhere == Jwt({"secret"}, None, [list |-> TRUE, values |-> {}])
Rs == Jwt({"publicKey"}, Idp, None)
Jwks == Jwt({"jwksUri"}, None, Exactly("app"))
Both == Jwt({"secret", "jwksUri"}, None, None)

Token(signer, payload) ==
    [formed |-> TRUE, alg |-> IF signer = "operator" THEN "HS256" ELSE "RS256",
     signer |-> signer, key |-> "match", payload |-> payload]
Claims(issuer, audience) == ("iss" :> issuer) @@ ("aud" :> audience)
Good == Token("idp", ("role" :> "viewer") @@ Claims("https://idp", {"https://mcp"}))
MCHeaders ==
    {None, Unusable, Good,
     [Good EXCEPT !.payload = "exp" :> 1 @@ @],
     [Good EXCEPT !.payload["role"] = Unusable],
     [Good EXCEPT !.payload["iss"] = "https://idp2"],
     [Good EXCEPT !.payload["aud"] = {"app"}],
     [Good EXCEPT !.payload["aud"] = {"app", "https://mcp"}, !.payload["role"] = "editor"],
     [Good EXCEPT !.key = "unknown"],
     Token("idp", Claims("https://idp", {"https://mcp", "app"})),
     Token("operator", "role" :> "editor" @@ Claims("https://idp", {"https://mcp", "app"}))}

-----------------------------------------------------------------------------
Ui(role, token, claims) == [role |-> role, token |-> token, claims |-> claims]
Auth(jwt, roleClaim, allowed, default, anon, ui) ==
    [jwt |-> jwt, roleClaim |-> roleClaim, allowedRoles |-> allowed,
     defaultRole |-> default, anonRole |-> anon, ui |-> ui]
NoUi == Ui(None, None, Empty)

Http(advertised, allowedHosts, auth) ==
    [enabled |-> TRUE, host |-> "localhost", advertisedUrl |-> advertised,
     allowedHosts |-> allowedHosts, auth |-> auth,
     execution |-> [enabled |-> FALSE, role |-> None]]
Open == Http(None, {}, None)
Protected(resource, servers, jwt, allowed) ==
    [resource |-> resource, servers |-> servers, jwt |-> jwt, roleClaim |-> None,
     allowedRoles |-> allowed, allowInsecureHttp |-> FALSE]

File(adapter, auth, mcp, respect, role) ==
    [adapter |-> adapter, auth |-> auth, mcp |-> mcp,
     introspection |-> [respectPrivileges |-> respect, role |-> role]]

UiClaims == {Empty, "exp" :> 1, "nbf" :> 1, "exp" :> Unusable, "role" :> "editor"}
RestFiles ==
    {File("api", Auth(jwt, None, allowed, default, anon, Ui(role, token, claims)), Open, respect, None) :
        jwt \in {Hs, HsBound, HsNowhere, Rs, Both}, allowed \in {None, {"viewer"}},
        default \in {None, "viewer"}, anon \in {None, "anon"}, role \in {None, "editor"},
        token \in {None, Good}, claims \in UiClaims, respect \in BOOLEAN}
    \cup {File("api", Auth(Jwks, claim, None, "viewer", None, NoUi), Open, FALSE, None) :
             claim \in {None, "group", "exp"}}
    \cup {File("postgrest", None, Open, FALSE, None), File("api", None, Open, FALSE, None)}

McpBlocks ==
    {None} \cup {Protected(resource, servers, jwt, allowed) :
        resource \in {"https://mcp", "http://mcp"},
        servers \in {{"https://idp"}, {"https://idp", "https://idp2"}},
        jwt \in {None, Jwks, Rs, Jwt({"jwksUri"}, None, None),
                 Jwt({"publicKey"}, None, [list |-> TRUE, values |-> {"app", "https://mcp"}])},
        allowed \in {None, {"viewer"}, {"viewer", "editor"}}}
Executions == {[enabled |-> FALSE, role |-> None]}
              \cup [enabled : {TRUE}, role : {None, "editor"}]
McpFiles ==
    {File("api", auth, [Http(None, {}, block) EXCEPT !.execution = execution], respect, role) :
        auth \in {None, Auth(Rs, None, {"viewer"}, "viewer", "anon", NoUi)},
        block \in McpBlocks, execution \in Executions,
        respect \in BOOLEAN, role \in {None, "viewer"}}
    \cup {File("api", None, [Http(advertised, hosts, None) EXCEPT !.host = host, !.enabled = on],
               FALSE, None) :
        advertised \in {None, "http://local", "https://mcp", "https://other"},
        hosts \in {{}, {"other"}, {""}}, host \in {"localhost", "lan", "0.0.0.0"}, on \in BOOLEAN}

MCFiles == RestFiles \cup McpFiles

Env(auth, token, enabled, advertised, inherited) ==
    [auth |-> auth, adapterToken |-> token, mcpEnabled |-> enabled, mcpHost |-> None,
     allowedHosts |-> None, advertisedUrl |-> advertised, inherited |-> inherited]
MCEnvironments ==
    {Env(None, None, None, None, Empty),
     Env(Auth(Rs, None, None, None, "anon", NoUi), Good, FALSE, None,
         [KOZOU_UI_MCP_POSTURE |-> "oauth", KOZOU_UI_MCP_RESOURCE |-> "https://other"]),
     [Env(None, None, None, "http://local",
         [KOZOU_ADAPTER_KIND |-> "api", KOZOU_UI_MCP_ADVERTISED_URL |-> "https://mcp"])
         EXCEPT !.mcpHost = "0.0.0.0", !.allowedHosts = {"other", "lan"}]}

MCHosts == {"localhost", "mcp"}
MCOrigins == {None, "mcp."}
=============================================================================
