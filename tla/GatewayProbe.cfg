\* Clients with a session id of 32 bytes, some of which cannot prove the key.
CONSTANTS
    Conns = {c1, c2, c3}
    Permits = 2
    MaxPanics = 2
    Hellos = {"token", "short"}
SPECIFICATION Spec
SYMMETRY Interchangeable
INVARIANT ProbeSeesCdn
