-------------------------------- MODULE MCAuth --------------------------------
(***************************************************************************)
(* Instances of Auth for TLC: an administrator is on file with one session,*)
(* and an inactive account.                                                *)
(***************************************************************************)
EXTENDS Auth, TLC

CONSTANTS
    u1, u2,                \* model values: ids on file
    e1, e2, E2, e3,        \* addresses: E2 is e2 in another spelling
    p1, n1

MCLower == (e1 :> e1) @@ (e2 :> e2) @@ (E2 :> e2) @@ (e3 :> e3)

User(email, role, status) ==
    [email |-> email, hashed_password |-> hash_password(p1), role |-> role,
     status |-> status, full_name |-> n1, last_login |-> Null]

\* u1's old session: its token has the id of the login that issued it, u1 as well.
MCAccounts ==
    {(UserRow(u1) :> User(e1, "admin", "active"))
       @@ (UserRow(u2) :> User(e3, "viewer", "inactive"))
       @@ (TokenRow(u1) :> [token_hash |-> u1, user |-> u1, revoked |-> FALSE])}

MCOldTokens == {AccessToken(u1, u1, "admin"), RefreshToken(u1, u1)}

MCCredentials == {[email |-> e, password |-> p1] : e \in {e1, E2, e3}}

MCScenarios ==
    {{"login", "refresh"}, {"refresh", "expire"}, {"refresh", "logout"},
     {"register", "login"}, {"login", "update_me"}, {"get_me", "expire"}}

MCLogout == {{"logout"}}

Symmetry == Permutations(Request)

=============================================================================
