SPECIFICATION FairSpec
CONSTANTS
    Build = {"tcp", "tls"}
    Server = {"range", "whole"}
    OneShot = {"TOKEN", "PUBLISH", "AUTH", "UPLOAD"}
    Pieces <- MCPieces
    SendBufSize = 4
    ReadBufSize = 6
    HeadSize = 3
    ChunkSize = 4
    BufLen = 6
    RangeLen = 2
    FileLen = 7
    RetryMax = 3
    MaxExtend = 2
    MaxCall = 2
    MaxReconnect = 1
    MaxFault = 3
INVARIANTS TypeOK FetchedIsPrefix NoLeak ExchangeSound
PROPERTIES CallEnds
CHECK_DEADLOCK FALSE
