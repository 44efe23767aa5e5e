\* The loop of main and POST /v1/traffic/collect at the same time.
SPECIFICATION Spec
CONSTANTS
    Nodes = {n1}
    Users = {u1}
    Sources = {xray, hy2}
    Collectors = {c1, c2}
    NoEdit = NoEdit
    MaxBytes = 2
    MaxRestarts = 0
    MaxFaults = 0
INVARIANTS
    NeverOverCredited
