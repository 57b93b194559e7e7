\* an application thread beside the yield thread
SPECIFICATION Spec
CONSTANTS
    Caller = {a1}
    Yielder = Yielder
    NoThread = NoThread
    NULL = NULL
    Topic = {t1, t2}
    Wildcard = {}
    Handler = {h1, h2}
    MAX_SUB_TOPICS = 1
    MaxRequest = 3
    HandlerCalls = FALSE
SYMMETRY Symmetry
\* the number of requests is bounded
INVARIANTS TypeOK OutcomesSound NoCircularWait
CHECK_DEADLOCK FALSE
