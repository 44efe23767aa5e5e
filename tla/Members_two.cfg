\* Two groups, and a node that may serve either, both or none.
SPECIFICATION Spec
CONSTANTS
    g1 = g1  g2 = g2  u1 = u1  u2 = u2
    Users = {u1, u2}
    Groups = {g1, g2}
    Nodes = {n1}
    GroupOf <- Together
    Requests = {r1, r2}
    Sweeper = Sweeper
    None = None
    MaxOps = 2
    MaxFaults = 1
SYMMETRY AnyActor
INVARIANTS TypeOK Settled
