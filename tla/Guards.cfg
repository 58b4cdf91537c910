SPECIFICATION MCSpec
CONSTANTS
    \* Counters run past two window lengths, so the window slides, saturates at 0
    \* and forgets.
    WindowSize = 3
    MaxCounter = 8
    Counters <- MCCounters
    \* Two relays, a clock that runs while they refill, a chunk that never fits.
    Tasks = {t1, t2}
    Capacity = 3
    Rate = 2
    Second = 2
    Chunks = {1, 3, 4}
    Demand = 2
    MaxAge = 5
    Horizon = 7
    \* More addresses than the map may hold; addresses are evicted one at a time.
    IPs = {a, b, c, d}
    WindowSecs = 2
    MaxConns = 2
    MaxEntries = 2
    EvictOneIn = 3
    Nobody = Nobody
    \* More users than uses, and more rotations than active_kid has values.
    Users = {u1, u2, u3}
    Codes = {pro}
    None = None
    MaxUses = {1, 2}
    MaxAdds = 1
    KidSpace = 3
    MaxKeys = 6
SYMMETRY Interchangeable
INVARIANTS WindowExact NeverTwice WithinRate PerIpLimit EntriesBounded OverIssueBounded OnlyNewestSigns
PROPERTY ImplementsGuard
CHECK_DEADLOCK FALSE
