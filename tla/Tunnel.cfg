\* Both applications talk, the gateway up to the threshold; the client's frames can
\* need two TLS records. A session ends, so the system may stop.
CONSTANTS
    Up = 2
    Down = 4
    UpBuf = 2
    DownBuf = 1
    Chunks <- MCChunks
    RelayBuf <- MCRelayBuf
    Overhead = 1
    Record = 2
    WireCap = 2
    Threshold = 4
    Overlap = 1
    WindowSize = 2
SPECIFICATION FairSpec
INVARIANTS NoFalseAlarm
PROPERTIES ImplementsPipe AllDelivered DrainsAfterEof
CHECK_DEADLOCK FALSE
