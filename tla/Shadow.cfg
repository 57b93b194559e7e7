\* two threads, callbacks that make requests, one message
SPECIFICATION FairSpec
CONSTANTS
    Request = {"r1", "r2"}
    AppMethod = {"UPDATE", "DELETE_ALL"}
    Property = {"p1", "p2"}
    Hold = {"p1"}
    Volatile = {"p2"}
    Desired = {{}, {"p1", "p2"}}
    MAX_APPENDING_REQUEST_AT_ANY_GIVEN_TIME = 2
    MaxReceive = 1
INVARIANTS TypeOK TraversalSound LocalMatchesReported
PROPERTIES ImplementsRequests
CHECK_DEADLOCK FALSE
