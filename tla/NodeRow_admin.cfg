\* Two requests at a time, an agent that fails twice.  The requests the bound
\* allows end, and so does the system.
SPECIFICATION Spec
CONSTANTS
    h1 = h1  a1 = a1  a2 = a2  p1 = p1  p2 = p2
    Admins = {p1, p2}
    Prober = Prober
    Specs <- ThreeSpecs
    Hosts = {NoHost, h1}
    NoHost = NoHost
    Agents = {a1, a2}
    None = None
    Probing = FALSE
    MaxOps = 3
    MaxFaults = 2
    MaxDbFaults = 0
INVARIANTS
    TypeOK
    RowConsistent
    ListedIsServed
SYMMETRY AnyAdmin
CHECK_DEADLOCK FALSE
