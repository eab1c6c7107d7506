\* The session manager of the API routes.
CONSTANTS
    r1 = r1
    p1 = p1
    p2 = p2
    w1 = w1
    o1 = o1
    Unknown = Unknown
    Null = Null
    Product = {p1}
    Warehouse = {w1}
    OnFile = {o1}
    ToApprove = {o1}
    ToReceive = {o1}
    Modes = {TRUE, FALSE}
    Request = {r1, r2, r3}
    Managers = {"get_db"}
    PoolSize = 3
    MaxInt = 3
    FiledStatus = {"approved"}
    Filed <- MCFiled
    POItems <- MCNone
    Deliveries <- MCAsOrdered
    Counts <- MCCounts
SPECIFICATION Spec
SYMMETRY Symmetry
INVARIANTS
    SuccessIsDurable
CHECK_DEADLOCK FALSE
