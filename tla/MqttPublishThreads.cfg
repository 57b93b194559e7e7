\* two application threads beside the yield thread; ids wrap while publishes wait
SPECIFICATION Spec
CONSTANTS
    Caller = {a1, a2}
    Yielder = Yielder
    NoThread = NoThread
    MAX_REPUB_NUM = 2
    MAX_PACKET_ID = 2
    QosLevel = {1}
    MaxPublish = 3
    Republish = FALSE
SYMMETRY Symmetry
INVARIANTS TypeOK WriteBufOwned NoCircularWait PacketIdReuse AcceptedIsAccounted WaitListSound
PROPERTIES OutcomeIsFinal
\* a thread that used a freed node has no further step
CHECK_DEADLOCK FALSE
