\* Four requests create an order, approve and receive it or the one on file, and count stock.
CONSTANTS
    r1 = r1
    p1 = p1
    p2 = p2
    w1 = w1
    o1 = o1
    Unknown = Unknown
    Null = Null
    Product = {p1}
    Warehouse = {w1}
    OnFile = {o1}
    ToApprove = {o1, r1}
    ToReceive = {o1, r1}
    Modes = {TRUE}
    Request = {r1, r2, r3, r4}
    Managers = {"get_async_session"}
    PoolSize = 4
    MaxInt = 3
    FiledStatus = {"draft"}
    Filed <- MCFiled
    POItems <- MCItems
    Deliveries <- MCAsOrdered
    Counts <- MCOneCounted
SPECIFICATION HistorySpec
SYMMETRY SymmetryOthers
INVARIANTS
    ReceiptsNeedApproval
    BalancesArePosted
    DriftBreaksTheChain
    ReopeningNeedsOverlap
    SecondReceiptNeedsOverlap
    SecondRowNeedsOverlap
    DriftNeedsOverlap
PROPERTIES
    DocumentsAreImmutable
CHECK_DEADLOCK FALSE
