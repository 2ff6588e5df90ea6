\* Inbound queries against detach, expiry and answers; a tick outlasts the TTL.
SPECIFICATION Spec
CONSTANTS
    A = A  B = B  p1 = p1  p2 = p2  k1 = k1  k2 = k2  k3 = k3  o1 = o1  o2 = o2  q1 = q1
    Clients = {A, B}
    PeerIds = {p1}
    Conns = {k1, k2}
    ConnId <- TwoGenerations
    Overlays = {o1}
    Queries = {q1}
    None = None
    MaxPeers = 1
    MaxOverlays = 1
    MaxInflight = 1
    MaxEndpoints = 1
    QueryTTL = 0
    MaxTime = 1
CHECK_DEADLOCK FALSE
SYMMETRY ClientSymmetry
INVARIANTS TypeOK PendingQueryLive
PROPERTY PendingNotLost
