\* One request at a time and a prober; an agent fails once or goes down, and so does a query.
SPECIFICATION FairSpec
CONSTANTS
    h1 = h1  a1 = a1  a2 = a2  p1 = p1  p2 = p2
    Admins = {p1}
    Prober = Prober
    Specs <- MCSpecs
    Hosts = {NoHost, h1}
    NoHost = NoHost
    Agents = {a1}
    None = None
    Probing = TRUE
    MaxOps = 4
    MaxFaults = 1
    MaxDbFaults = 1
INVARIANTS
    SavedStays
    ServedUnlessAstray
PROPERTIES
    BackIsNoticed
CHECK_DEADLOCK FALSE
