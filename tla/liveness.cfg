\* Fair runs: two clients and two generations of one peer.
SPECIFICATION FairSpec
CONSTANTS
    A = A  B = B  p1 = p1  p2 = p2  k1 = k1  k2 = k2  k3 = k3  o1 = o1  o2 = o2  q1 = q1
    Clients = {A, B}
    PeerIds = {p1}
    Conns = {k1, k2}
    ConnId <- TwoGenerations
    Overlays = {}
    Queries = {}
    None = None
    MaxPeers = 1
    MaxOverlays = 1
    MaxInflight = 1
    MaxEndpoints = 1
    QueryTTL = 1
    MaxTime = 0
CHECK_DEADLOCK FALSE
PROPERTIES TeardownCompletes ClosedPeerRemoved
