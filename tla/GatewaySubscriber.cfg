\* Clients that have all they need.
CONSTANTS
    Conns = {c1, c2, c3}
    Permits = 2
    MaxPanics = 2
    Hellos = {"token"}
SPECIFICATION Spec
SYMMETRY Interchangeable
INVARIANT SubscriberServed
