\* One failed PUT, and two threads that apply the same group.
SPECIFICATION Spec
CONSTANTS
    g1 = g1  g2 = g2  n1 = n1  n2 = n2  u1 = u1  u2 = u2
    Users = {u1}
    Groups = {g1}
    Nodes = {n1}
    GroupOf <- OneGroup
    Serves <- OneOn
    SiblingNodes = {}
    InOrder = TRUE
    Requests = {r1}
    Sweeper = Sweeper
    Collector = Collector
    None = None
    Never = Never
    DayLen = 1
    FirstDay <- May31
    Founders = {u1}
    NewRows <- TrialRows
    Patches <- MCPatches
    MaxTime = 1
    MaxUsed = 0
    MaxOps = 1
    MaxFaults = 1
    MaxCrashes = 0
INVARIANTS
    NoForgottenKick
