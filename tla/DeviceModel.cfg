SPECIFICATION FairSpec
CONSTANTS
    Base = 4
    ReadBufSize = 14
    WriteBufSize = 28
    MaxTopic = 4
    MaxSlot = 4
    ReportBufLen = 12
    ReplyBufLen = 6
    Message <- MCMessage
    AppFilter <- MCAppFilter
    Registered <- MCRegistered
    Down <- MCDown
    Up <- MCUp
    Report <- MCReport
    RetCode = {3}
    MaxSend = 2
    MaxStall = 1
    MaxLoss = 1
INVARIANTS TypeOK DeliverySound RequestsAnswered PublishedComplete
PROPERTIES AcknowledgedEventually
CHECK_DEADLOCK FALSE
