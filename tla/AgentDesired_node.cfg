\* Three PUTs and two failures anywhere.  The agent idles when all PUTs the
\* bound allows are answered.
SPECIFICATION Spec
CONSTANTS
    u1 = u1  u2 = u2
    Users = {u1, u2}
    Bodies <- MCBodies
    MaxPuts = 3
    MaxFaults = 2
INVARIANTS
    TypeOK
    NothingOlder
    OkMeansServed
CHECK_DEADLOCK FALSE
