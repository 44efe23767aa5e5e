SPECIFICATION Spec
CONSTANTS
    n1 = n1  n2 = n2
    Nodes = {n1, n2}
    Default = Default
    Names = {other}
    Unset = Unset
    MaxPatches = 1
    MaxFaults = 1
    MaxCrashes = 1
SYMMETRY AnyNode
CONSTRAINT Untorn
INVARIANTS TypeOK Reachable
PROPERTIES KeepsKeys
VIEW Seen
