\* A daemon that cannot be stopped.
SPECIFICATION Spec
CONSTANTS
    u1 = u1  u2 = u2
    Users = {u1, u2}
    Bodies <- MCBodies
    MaxPuts = 2
    MaxFaults = 1
INVARIANTS
    OkMeansStopped
CHECK_DEADLOCK FALSE
