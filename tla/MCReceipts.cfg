\* Requests of every kind race, fail and crash, under both session managers.
CONSTANTS
    r1 = r1
    p1 = p1
    p2 = p2
    w1 = w1
    o1 = o1
    Unknown = Unknown
    Null = Null
    Product = {p1, p2}
    Warehouse = {w1}
    OnFile = {o1}
    ToApprove = {o1}
    ToReceive = {o1}
    Modes = {TRUE, FALSE}
    Request = {r1, r2, r3}
    Managers = {"get_db", "get_async_session"}
    PoolSize = 3
    MaxInt = 2
    FiledStatus = {"draft"}
    Filed <- MCFiled
    POItems <- MCItems
    Deliveries <- MCMixed
    Counts <- MCOneCounted
SPECIFICATION Spec
SYMMETRY Symmetry
INVARIANTS
    TypeOK
    ReceiptIsAtomic
    NoTraceUnlessCommitted
PROPERTIES
    ImplementsUnitOfWork
CHECK_DEADLOCK FALSE
