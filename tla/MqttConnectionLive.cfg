\* one thread, infinite reconnection: events, back-off, coming back
SPECIFICATION FairSpec
CONSTANTS
    RequestedKeepAlive = 2
    KeepAliveRange = 16
    MQTT_PING_RETRY_TIMES = 2
    PingWait = 1
    MIN_RECONNECT_WAIT_INTERVAL = 1
    MAX_RECONNECT_WAIT_INTERVAL = 3
    ENABLE_INFINITE_RECONNECT = TRUE
    AutoConnect = TRUE
    YieldTimeout = 2
    RemainWait = 1
    MaxPause = 1
    AppThread = FALSE
INVARIANT TypeOK
INVARIANT AppViewSound
INVARIANT NoEarlyRetry
PROPERTY ReconnectsEventually
