\* everything on one thread: who frees a topic filter
SPECIFICATION Spec
CONSTANTS
    Caller = {Yielder}
    Yielder = Yielder
    NoThread = NoThread
    NULL = NULL
    Topic = {t1, t2}
    Wildcard = {}
    Handler = {h1}
    MAX_SUB_TOPICS = 2
    MaxRequest = 4
    HandlerCalls = TRUE
SYMMETRY Symmetry
INVARIANTS FiltersSound ResubscribeComplete
\* the number of requests is bounded
CHECK_DEADLOCK FALSE
