CONSTANTS
    c1 = c1
    WorldOf <- MCWorldOf
    Clients = {c1}
    Instances = {i1, i2}
    Conns = {k1, k2, k3}
    Hosts = {h1, h2}
    Requests = {q1}
    None = None
    Solo = i1
    Loads <- MCLoads
CONSTRAINT ForwardsIfAsked
SYMMETRY Alike
SPECIFICATION Spec
INVARIANTS
    InstancesAgree
    FlagFollowsPresence
    SteadyIsReached
CHECK_DEADLOCK FALSE
