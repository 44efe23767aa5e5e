\* A user that is let in and leaves again between two sweeps.
SPECIFICATION Spec
CONSTANTS
    g1 = g1  g2 = g2  n1 = n1  n2 = n2  u1 = u1  u2 = u2
    Users = {u1}
    Groups = {g1}
    Nodes = {n1}
    GroupOf <- OneGroup
    Serves <- OneOn
    SiblingNodes = {}
    InOrder = TRUE
    Requests = {r1}
    Sweeper = Sweeper
    Collector = Collector
    None = None
    Never = Never
    DayLen = 1
    FirstDay <- May31
    Founders = {u1}
    NewRows <- MCRows
    Patches <- MCPatches
    MaxTime = 1
    MaxUsed = 1
    MaxOps = 2
    MaxFaults = 0
    MaxCrashes = 0
INVARIANTS
    EveryKickOwed
