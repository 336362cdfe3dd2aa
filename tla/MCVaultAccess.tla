---------------------------- MODULE MCVaultAccess ----------------------------
(* Instances of VaultAccess for TLC. *)
EXTENDS VaultAccess, TLC

CONSTANTS alice, bob

Asks(tool, user, scope, admin) ==
    [tool |-> tool, user |-> user, scope |-> scope, admin |-> admin]

\* A read and writes of two users, one of them an admin; a write whose
\* token lacks the scope; and a call nobody is logged in for.
Requests == {
    Asks("list", alice, {"users.read"}, FALSE),
    Asks("create", alice, Scope, FALSE),
    Asks("delete", bob, {"users.write"}, TRUE),
    Asks("update", alice, {"users.read"}, FALSE),
    Asks("list", None, {}, FALSE)}

Symmetry == Permutations(Call) \cup Permutations(Context)
==============================================================================
