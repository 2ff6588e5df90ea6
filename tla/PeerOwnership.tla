---------------------------- MODULE PeerOwnership ----------------------------
(***************************************************************************)
(* What the peer registry promises, without locks, lists, hand-shakes or   *)
(* clean-up: a peer is reachable over one connection, a connection serves  *)
(* once, a client that is there may become the owner of a peer that has    *)
(* none, ownership ends with the peer's removal only, and a client leaves  *)
(* when it owns nothing.                                                   *)
(***************************************************************************)
CONSTANTS Clients, PeerIds, Conns, ConnId, None

VARIABLES
    peer,     \* peer id -> its connection and owner
    spent,    \* connections that have been installed or turned away
    present   \* clients that may own peers

ownershipVars == <<peer, spent, present>>

NoPeer == [conn |-> None, owner |-> None]

Init ==
    /\ peer = [p \in PeerIds |-> NoPeer]
    /\ spent = {} /\ present = {}

Arrive(c) ==
    /\ c \notin present
    /\ present' = present \cup {c}
    /\ UNCHANGED <<peer, spent>>

Leave(c) ==
    /\ c \in present
    /\ \A p \in PeerIds : peer[p].owner # c
    /\ present' = present \ {c}
    /\ UNCHANGED <<peer, spent>>

\* A new connection becomes the peer's, owned by nobody.
Install(k) ==
    /\ k \notin spent /\ peer[ConnId[k]] = NoPeer
    /\ peer' = [peer EXCEPT ![ConnId[k]] = [conn |-> k, owner |-> None]]
    /\ spent' = spent \cup {k}
    /\ UNCHANGED present

TurnAway(k) ==
    /\ k \notin spent
    /\ spent' = spent \cup {k}
    /\ UNCHANGED <<peer, present>>

Claim(c, p) ==
    /\ c \in present
    /\ peer[p].conn # None /\ peer[p].owner = None
    /\ peer' = [peer EXCEPT ![p].owner = c]
    /\ UNCHANGED <<spent, present>>

Remove(p) ==
    /\ peer[p] # NoPeer
    /\ peer' = [peer EXCEPT ![p] = NoPeer]
    /\ UNCHANGED <<spent, present>>

Next ==
    \/ \E c \in Clients : Arrive(c) \/ Leave(c) \/ \E p \in PeerIds : Claim(c, p)
    \/ \E k \in Conns : Install(k) \/ TurnAway(k)
    \/ \E p \in PeerIds : Remove(p)

Spec == Init /\ [][Next]_ownershipVars
=============================================================================
