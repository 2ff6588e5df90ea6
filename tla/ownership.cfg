\* Two clients race for three generations of one peer; no overlays, no queries.
SPECIFICATION Spec
CONSTANTS
    A = A  B = B  p1 = p1  p2 = p2  k1 = k1  k2 = k2  k3 = k3  o1 = o1  o2 = o2  q1 = q1
    Clients = {A, B}
    PeerIds = {p1}
    Conns = {k1, k2, k3}
    ConnId <- OnePeer
    Overlays = {}
    Queries = {}
    None = None
    MaxPeers = 1
    MaxOverlays = 1
    MaxInflight = 2
    MaxEndpoints = 2
    QueryTTL = 1
    MaxTime = 0
SYMMETRY ClientSymmetry
CHECK_DEADLOCK FALSE
INVARIANTS OwnershipAgrees NoZombie PeerUseOwned
PROPERTIES NoTakeover ImplementsPeerOwnership
