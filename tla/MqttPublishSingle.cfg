\* everything on one thread, republishing from the timeout handler
SPECIFICATION FairSpec
CONSTANTS
    Caller = {Yielder}
    Yielder = Yielder
    NoThread = NoThread
    MAX_REPUB_NUM = 2
    MAX_PACKET_ID = 2
    QosLevel = {0, 1}
    MaxPublish = 2
    Republish = TRUE
INVARIANT NoUseAfterFree
PROPERTY WaitingEnds
