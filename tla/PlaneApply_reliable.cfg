\* Requests, sweep and collector interleave; nothing fails, and no patch leaves
\* the nodes alone.
SPECIFICATION Spec
CONSTANTS
    g1 = g1  g2 = g2  n1 = n1  n2 = n2  u1 = u1  u2 = u2
    Users = {u1}
    Groups = {g1}
    Nodes = {n1}
    GroupOf <- OneGroup
    Serves <- OneOn
    SiblingNodes = {}
    InOrder = TRUE
    Requests = {r1, r2}
    Sweeper = Sweeper
    Collector = Collector
    None = None
    Never = Never
    DayLen = 1
    FirstDay <- May31
    Founders = {u1}
    NewRows <- MCRows
    Patches <- LoudPatches
    MaxTime = 1
    MaxUsed = 1
    MaxOps = 2
    MaxFaults = 0
    MaxCrashes = 0
INVARIANTS
    TypeOK
    NoForgottenKick
    EntitledAreServed
    PeriodBegun
SYMMETRY AnyRequest
