\* Sessions, tokens and accounts: three requests of clients that hold an old session.
CONSTANTS
    u1 = u1
    u2 = u2
    e1 = e1
    e2 = e2
    E2 = E2
    e3 = e3
    p1 = p1
    n1 = n1
    Null = Null
    Garbage = Garbage
    Request = {r1, r2, r3}
    OnFile = {u1, u2}
    Managers = {"get_db", "get_async_session"}
    Email = {e1, e2, E2, e3}
    Lower <- MCLower
    Password = {p1}
    Name = {n1}
    Accounts <- MCAccounts
    Credentials <- MCCredentials
    OldTokens <- MCOldTokens
    Scenarios <- MCScenarios
    Expiring = {u1}
SPECIFICATION Spec
SYMMETRY Symmetry
INVARIANTS
    TypeOK
    OneAccountPerAddress
    ForkNeedsOverlap
    RefusedOnlyForCause
    ServerErrorsAreRaces
PROPERTIES
    RotationIsAtomic
CHECK_DEADLOCK FALSE
