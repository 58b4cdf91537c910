\* Three endpoints, only the second answers, and it always does.
CONSTANTS
    N = 3
    Threshold = 2
    Interval = 3
    ConnectTimeout = 1
    MaxLag = 0
    FailureCap = 2
    Conns = {c1, c2, c3}
    Good = {1}
    Flaky = {}
SPECIFICATION Spec
SYMMETRY Interchangeable
INVARIANT NeverLeavesAnswering
