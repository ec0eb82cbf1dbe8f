---------------------------- MODULE MCMcpEndpoint ----------------------------
(* Small instances of McpEndpoint for TLC. *)
EXTENDS McpEndpoint

CONSTANTS describer, executor, outsider, alice, bob, mallory

\* A token that may describe and refresh, one that may execute too, and one whose
\* role is not allowed.
MCScopes == [token \in Tokens |->
    CASE token = describer -> {"describe", "admin"}
      [] token = executor  -> {"describe", "execute"}
      [] token = outsider  -> {"describe"}]
MCRoles == [token \in Tokens |->
    CASE token = describer -> alice
      [] token = executor  -> bob
      [] token = outsider  -> mallory]

MCBodies == {{}, {"call"}, {"describe", "call"}}

\* Without OAuth, with it, and with the refresh route enabled as well.
MCOptions == {o \in [auth : BOOLEAN, adminRefresh : BOOLEAN] : o.adminRefresh => o.auth}
OAuthOnly == {[auth |-> TRUE, adminRefresh |-> FALSE]}
=============================================================================
