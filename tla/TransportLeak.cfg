\* Two callers and a bind that may be slow.
CONSTANTS
    Callers = {c1, c2}
    Workers = {w1, w2}
    Ports = {1080, 1081}
    Faults = {"slow bind"}
    None = None
SPECIFICATION ServiceSpec
INVARIANT FailClosed
