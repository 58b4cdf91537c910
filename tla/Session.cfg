\* Two connections for one permit, with and without test mode.
CONSTANTS
    Conns = {c1, c2}
    Permits = 1
    MaxPanics = 2
    Hellos = {"token", "short", "partial", "truncated"}
    Targets = {t1}
SPECIFICATION SessionSpec
INVARIANTS AccountsExact OnlyProven Agreement NoncesApart FailureReported NoMutualWait
