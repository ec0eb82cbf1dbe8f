-------------------------- MODULE MCRoleTransaction --------------------------
(* A small instance of RoleTransaction for TLC. *)
EXTENDS RoleTransaction, TLC

CONSTANTS r1, r2, r3, alice, bob

\* One request of each kind, of two users, over fewer connections than requests.
MCKind == r1 :> "get" @@ r2 :> "write" @@ r3 :> "call"
MCRole == r1 :> alice @@ r2 :> bob @@ r3 :> alice
=============================================================================
