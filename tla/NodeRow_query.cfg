\* One request at a time; a query of an apply fails.
SPECIFICATION Spec
CONSTANTS
    h1 = h1  a1 = a1  a2 = a2  p1 = p1  p2 = p2
    Admins = {p1}
    Prober = Prober
    Specs <- MCSpecs
    Hosts = {NoHost, h1}
    NoHost = NoHost
    Agents = {a1}
    None = None
    Probing = FALSE
    MaxOps = 3
    MaxFaults = 0
    MaxDbFaults = 1
INVARIANTS
    ListedIsServed
CHECK_DEADLOCK FALSE
