--------------------------- MODULE MCPeerRegistry ---------------------------
(* Instances of PeerRegistry for TLC. *)
EXTENDS OwnershipRefinement, TLC

CONSTANTS A, B, p1, p2, k1, k2, k3, o1, o2, q1

\* Three generations of one peer.
OnePeer == (k1 :> p1) @@ (k2 :> p1) @@ (k3 :> p1)

\* Two generations of one peer.
TwoGenerations == (k1 :> p1) @@ (k2 :> p1)

\* One connection for each of two peers.
TwoPeers == (k1 :> p1) @@ (k2 :> p2)

\* Clients are interchangeable.
ClientSymmetry == Permutations({A, B})
=============================================================================
