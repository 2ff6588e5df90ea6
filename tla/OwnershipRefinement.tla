------------------------- MODULE OwnershipRefinement -------------------------
(***************************************************************************)
(* The peer registry implements PeerOwnership.  Its two tables together    *)
(* are the abstract one; a client is there from its arrival until its      *)
(* clean-up has gone through its peers.                                    *)
(***************************************************************************)
EXTENDS PeerRegistry

peerOf(p) == [conn |-> activePeers[p], owner |-> peerOwners[p]]

Ownership == INSTANCE PeerOwnership WITH
    peer    <- [p \in PeerIds |-> peerOf(p)],
    spent   <- {k \in Conns : hook[k] \notin {"none", "installing"}},
    present <- {c \in Clients : phase[c] \in {"open", "draining", "cleanPeers"}}

\* Connects, detaches, disconnect handlers and tear-downs, in whatever order
\* they run, do to the registry only what PeerOwnership allows: a client never
\* leaves while it owns a peer, nobody gets a peer another client owns, and a
\* connection that was removed does not come back.
ImplementsPeerOwnership == Ownership!Spec
=============================================================================
