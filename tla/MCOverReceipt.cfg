\* One connection: a receipt of more than was ordered.
CONSTANTS
    r1 = r1
    p1 = p1
    p2 = p2
    w1 = w1
    o1 = o1
    Unknown = Unknown
    Null = Null
    Product = {p1}
    Warehouse = {w1}
    OnFile = {o1}
    ToApprove = {o1}
    ToReceive = {o1}
    Modes = {TRUE}
    Request = {r1, r2}
    Managers = {"get_async_session"}
    PoolSize = 1
    MaxInt = 3
    FiledStatus = {"approved"}
    Filed <- MCFiled
    POItems <- MCNone
    Deliveries <- MCTooMany
    Counts <- MCNone
SPECIFICATION Spec
SYMMETRY Symmetry
INVARIANTS
    ReceivedWithinOrdered
CHECK_DEADLOCK FALSE
