\* The sweep alone, and a node where the other family of users is applied: the
\* agent answers 200 with ok=false.
SPECIFICATION Spec
CONSTANTS
    g1 = g1  g2 = g2  n1 = n1  n2 = n2  u1 = u1  u2 = u2
    Users = {u1, u2}
    Groups = {g1, g2}
    Nodes = {n1, n2}
    GroupOf <- TwoGroups
    Serves <- TwoNodes
    SiblingNodes = {n1}
    InOrder = TRUE
    Requests = {r1}
    Sweeper = Sweeper
    Collector = Collector
    None = None
    Never = Never
    DayLen = 1
    FirstDay <- May31
    Founders = {u1, u2}
    NewRows <- SweepRows
    Patches <- MCPatches
    MaxTime = 1
    MaxUsed = 0
    MaxOps = 0
    MaxFaults = 1
    MaxCrashes = 0
INVARIANTS
    NoForgottenKick
