\* Calls race refreshes that succeed or fail, logouts, logins and reloads.
CONSTANTS
    Call = {c1, c2, c3}
    RefreshAnswers = {"token", "error"}
SPECIFICATION FairSpec
INVARIANTS
    TypeOK
    OneRefresh
    QueueIsServed
PROPERTIES
    ImplementsPromises
    EveryCallSettles
    AnswersRunOut
CHECK_DEADLOCK FALSE
