\* the comment on msg_list: an update received during a download waits
SPECIFICATION Spec
CONSTANTS
    Firmware = {"f1", "f2", "f3"}
    Size <- MCSize
    Missing = {6}
    BadUrl = {}
    PartSize = 3
    MaxTries = 5
    Tls = FALSE
    MaxDeliver = 2
    MaxCrash = 0
INVARIANT OneDownload
CHECK_DEADLOCK FALSE
