\* Requests, sweep and collector overlap while PUTs fail, come late, overtake each
\* other or are answered ok=false, and the plane is restarted.
SPECIFICATION Spec
CONSTANTS
    g1 = g1  g2 = g2  n1 = n1  n2 = n2  u1 = u1  u2 = u2
    Users = {u1, u2}
    Groups = {g1}
    Nodes = {n1}
    GroupOf <- SharedGroup
    Serves <- OneOn
    SiblingNodes = {n1}
    InOrder = FALSE
    Requests = {r1}
    Sweeper = Sweeper
    Collector = Collector
    None = None
    Never = Never
    DayLen = 1
    FirstDay <- May31
    Founders = {u1}
    NewRows <- TrialRows
    Patches <- MCPatches
    MaxTime = 1
    MaxUsed = 1
    MaxOps = 1
    MaxFaults = 2
    MaxCrashes = 1
INVARIANTS
    KicksSurvive
    PlacesSurvive
