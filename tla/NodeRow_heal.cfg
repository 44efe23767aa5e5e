\* A prober beside a request whose PUT fails.
SPECIFICATION Spec
CONSTANTS
    h1 = h1  a1 = a1  a2 = a2  p1 = p1  p2 = p2
    Admins = {p1}
    Prober = Prober
    Specs <- MCSpecs
    Hosts = {NoHost, h1}
    NoHost = NoHost
    Agents = {a1}
    None = None
    Probing = TRUE
    MaxOps = 3
    MaxFaults = 2
    MaxDbFaults = 0
INVARIANTS
    ListedIsServed
CHECK_DEADLOCK FALSE
