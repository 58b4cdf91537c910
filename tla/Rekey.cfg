\* Both sides talk while keys change; kids repeat after two rekeys. A session
\* ends, so the system may stop.
CONSTANTS
    Kids = 2
    Overlap = 2
    Threshold = 5
    MaxRekeys = 3
    WireCap = 2
    Talkers = {"client", "gateway"}
    WindowSize = 2
SPECIFICATION Spec
INVARIANTS NoncesUnique NoFrameRefused ReadsUnderActiveKey Converged NoStandoff
CHECK_DEADLOCK FALSE
