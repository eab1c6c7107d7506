\* One logout of a client with a valid pair of tokens.
CONSTANTS
    u1 = u1
    u2 = u2
    e1 = e1
    e2 = e2
    E2 = E2
    e3 = e3
    p1 = p1
    n1 = n1
    Null = Null
    Garbage = Garbage
    Request = {r1}
    OnFile = {u1, u2}
    Managers = {"get_async_session"}
    Email = {e1, e2, E2, e3}
    Lower <- MCLower
    Password = {p1}
    Name = {n1}
    Accounts <- MCAccounts
    Credentials <- MCCredentials
    OldTokens <- MCOldTokens
    Scenarios <- MCLogout
    Expiring = {u1}
SPECIFICATION Spec
INVARIANTS
    LogoutRevokes
CHECK_DEADLOCK FALSE
