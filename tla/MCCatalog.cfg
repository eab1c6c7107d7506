\* Creations, updates and uploads of the same products and suppliers.
CONSTANTS
    f1 = f1
    f2 = f2
    k1 = k1
    a = a
    A = A
    B = B
    C = C
    b1 = b1
    Null = Null
    Blank = Blank
    Garbled = Garbled
    Request = {r1, r2}
    OnFile = {f1, f2, k1}
    Managers = {"get_async_session"}
    Code = {a, A, B, C}
    Upper <- MCUpper
    TooWide = {9}
    Limit = 1
    Shelves <- MCShelves
    Drafts <- MCDrafts
    Changes <- MCChanges
    Categories <- MCCategories
    Files <- MCFiles
    Reads <- MCReads
    Scenarios <- MCScenarios
SPECIFICATION FairSpec
INVARIANTS
    TypeOK
    OneItemPerCode
    NothingMissed
PROPERTIES
    UniquenessErrorsHaveACause
    UploadIsExact
    ImplementsUnitOfWork
    EveryRequestEnds
CHECK_DEADLOCK FALSE
