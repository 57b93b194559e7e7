\* what the callback of a request says
SPECIFICATION Spec
CONSTANTS
    Request = {"r1", "r2"}
    AppMethod = {"UPDATE", "DELETE_ALL"}
    Property = {"p1", "p2"}
    Hold = {"p1"}
    Volatile = {"p2"}
    Desired = {{}, {"p1", "p2"}}
    MAX_APPENDING_REQUEST_AT_ANY_GIVEN_TIME = 2
    MaxReceive = 1
INVARIANT AcceptedWasSent
CHECK_DEADLOCK FALSE
