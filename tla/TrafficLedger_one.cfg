\* One collector at a time: the loop main starts.
SPECIFICATION FairSpec
CONSTANTS
    Nodes = {n1}
    Users = {u1}
    Sources = {xray, hy2}
    Collectors = {c1}
    NoEdit = NoEdit
    MaxBytes = 2
    MaxRestarts = 1
    MaxFaults = 1
INVARIANTS
    TypeOK
    NeverOverCredited
    ExactWithoutRestart
    UsedWithinCarried
PROPERTIES
    ImplementsMetering
    EveryByteCredited
