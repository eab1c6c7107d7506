\* Receipts of two products in opposite orders lock each other's balances.
CONSTANTS
    r1 = r1
    p1 = p1
    p2 = p2
    w1 = w1
    o1 = o1
    Unknown = Unknown
    Null = Null
    Product = {p1, p2}
    Warehouse = {w1}
    OnFile = {o1}
    ToApprove = {}
    ToReceive = {o1}
    Modes = {TRUE}
    Request = {r1, r2, r3}
    Managers = {"get_async_session"}
    PoolSize = 2
    MaxInt = 6
    FiledStatus = {"approved"}
    Filed <- MCStocked
    POItems <- MCNone
    Deliveries <- MCTwoProducts
    Counts <- MCNone
SPECIFICATION FairSpec
PROPERTIES
    EveryRequestEnds
CHECK_DEADLOCK FALSE
