\* The refresh endpoint as the back end implements it: it rejects a request without a body.
CONSTANTS
    Call = {c1, c2}
    RefreshAnswers = {"error"}
SPECIFICATION Spec
PROPERTIES
    RefreshKeepsUser
CHECK_DEADLOCK FALSE
