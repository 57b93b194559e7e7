\* the application disconnects from a thread of its own; the client gives up after the longest wait
SPECIFICATION Spec
CONSTANTS
    RequestedKeepAlive = 4
    KeepAliveRange = 16
    MQTT_PING_RETRY_TIMES = 2
    PingWait = 1
    MIN_RECONNECT_WAIT_INTERVAL = 1
    MAX_RECONNECT_WAIT_INTERVAL = 3
    ENABLE_INFINITE_RECONNECT = FALSE
    AutoConnect = TRUE
    YieldTimeout = 2
    RemainWait = 1
    MaxPause = 1
    AppThread = TRUE
INVARIANT DeadPeerDetected
INVARIANT PatientDisconnect
PROPERTY StaysDown
