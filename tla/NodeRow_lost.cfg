\* Two requests at a time.
SPECIFICATION Spec
CONSTANTS
    h1 = h1  a1 = a1  a2 = a2  p1 = p1  p2 = p2
    Admins = {p1, p2}
    Prober = Prober
    Specs <- MCSpecs
    Hosts = {NoHost, h1}
    NoHost = NoHost
    Agents = {a1}
    None = None
    Probing = FALSE
    MaxOps = 3
    MaxFaults = 0
    MaxDbFaults = 0
INVARIANTS
    SavedStays
SYMMETRY AnyAdmin
CHECK_DEADLOCK FALSE
