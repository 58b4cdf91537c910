\* The first endpoint never answers, the second comes and goes. More tasks than the
\* failures the threshold allows.
CONSTANTS
    N = 2
    Threshold = 2
    Interval = 2
    ConnectTimeout = 1
    MaxLag = 1
    FailureCap = 3
    Conns = {c1, c2, c3}
    Good = {}
    Flaky = {1}
SPECIFICATION FairSpec
INVARIANTS FullAllowance StuckOnlyWhenAllCooling
PROPERTIES NoEarlyReturn Reached
