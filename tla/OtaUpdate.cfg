SPECIFICATION FairSpec
CONSTANTS
    Firmware = {"f1", "f2", "f3"}
    Size <- MCSize
    Missing = {4, 6}
    BadUrl = {"f3"}
    PartSize = 3
    MaxTries = 5
    Tls = FALSE
    MaxDeliver = 4
    MaxCrash = 1
INVARIANTS TypeOK BootsRight IdleQueueEmpty NoUseAfterFree
PROPERTIES DownloadProgresses
CHECK_DEADLOCK FALSE
