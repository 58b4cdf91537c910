\* Two callers, each a service or not, two ports, every fault.
CONSTANTS
    Callers = {c1, c2}
    Workers = {w1, w2}
    Ports = {1080, 1081}
    Faults = {"slow bind", "accept error", "no runtime"}
    None = None
SPECIFICATION ServiceFairSpec
INVARIANTS OneOwner StatusTruthful StoppableFromApp
PROPERTIES CallsReturn
