---------------------------- MODULE PeerRegistry ----------------------------
(***************************************************************************)
(* The part of WSBridge that WebSocket clients and ADNL connections share: *)
(* the peer registry (activePeers, peerOwners, peerQueries), the overlays  *)
(* attached to peers, the inbound queries waiting for an answer, and what  *)
(* each wsClient remembers of it (client.peers, client.overlays).          *)
(*                                                                         *)
(* Writers are serialised by peerLifecycleMu, with two exceptions that     *)
(* make the code hard: installPeer, which the ADNL gateway calls without   *)
(* it, and the teardown of a client, which copies client.peers before it   *)
(* takes it.  Readers (send, ping, query, answer, ...) never take it and   *)
(* look, check and act in separate critical sections.                      *)
(*                                                                         *)
(* An early return of a handler that only reports an error changes no      *)
(* state and is therefore a stuttering step, not an action.  A connection  *)
(* object (adnl.Peer) is a value of Conns; several of them may carry the   *)
(* same peer id, which is what the code calls peer generations.            *)
(***************************************************************************)
EXTENDS Naturals, FiniteSets

CONSTANTS
    Clients,      \* WebSocket connections (*wsClient), never reused
    PeerIds,      \* ADNL ids, the keys of activePeers (peerHex)
    Conns,        \* adnl.Peer objects, never reused
    ConnId,       \* [Conns -> PeerIds]: peer.GetID()
    Overlays,     \* overlay ids (overlayHex)
    Queries,      \* ADNL query ids
    None,         \* Go's nil
    MaxPeers,     \* cfg.Namespaces.ADNL.MaxPeers
    MaxOverlays,  \* cfg.Namespaces.Overlay.MaxOverlays
    MaxInflight,  \* bound: reader requests of one client running at once
    MaxEndpoints, \* bound: DHT endpoints tried by adnl.connectByADNL (8)
    QueryTTL,     \* maxPendingQueryTTL, in clock ticks
    MaxTime       \* bound on the clock

ASSUME RegistryAssumption ==
    /\ ConnId \in [Conns -> PeerIds]
    /\ None \notin Clients \cup PeerIds \cup Conns \cup Overlays
    /\ MaxPeers \in Nat /\ MaxOverlays \in Nat /\ MaxInflight \in Nat
    /\ MaxEndpoints \in Nat /\ QueryTTL \in Nat /\ MaxTime \in Nat

VARIABLES
    conn,           \* the transport's view of each connection object
    hook,           \* progress of the handlers the bridge hangs on it
    activePeers,    \* peer id -> installed connection
    peerOwners,     \* peer id -> owning client, None for an unowned peer
    peerQueries,    \* peer id -> query handler (what its closure captured)
    activeOverlays, \* overlay id -> overlay wrapper
    overlayToPeer,  \* overlay id -> peer id it is attached to
    pendingQueries, \* query id -> pendingQuery
    clientPeers,    \* client.peers
    clientOverlays, \* client.overlays
    phase,          \* progress of handleWS for each client
    snapshot,       \* peerIDs copied by the teardown of a client
    mu,             \* peerLifecycleMu: what its holder is doing
    peerUses,       \* reader requests on a peer, between look-up and send
    overlayUses,    \* reader requests on an overlay
    answers,        \* adnl.answer / overlay.answer requests in flight
    deliveries,     \* inbound queries between handler call and recording
    now             \* the clock that pendingQuery deadlines are read on

registry == <<activePeers, peerOwners, peerQueries>>
tables   == <<activeOverlays, overlayToPeer, clientPeers, clientOverlays>>
session  == <<phase, snapshot>>
inflight == <<peerUses, overlayUses, answers, deliveries>>
vars == <<conn, hook, registry, tables, pendingQueries, session, mu,
          inflight, now>>

-----------------------------------------------------------------------------
(* Types *)

\* What the query handler closures capture: the connection current when the
\* handler was set, and the client that set it.
Handlers == [conn : Conns, client : Clients]

\* An overlay wrapper: the connection it was attached to, the client its
\* event handlers push to, and its query handler.
Wrappers == [conn : Conns, client : Clients, handler : Handlers \cup {None}]

PendingQuery == [conn : Conns, owner : Clients, deadline : Nat]

\* Go's nil is no handler, no wrapper and no entry.
ASSUME NilAssumption ==
    None \notin Handlers /\ None \notin Wrappers /\ None \notin PendingQuery

PeerUse    == [client : Clients, conn : Conns, stage : {"read", "granted"}]
OverlayUse == [client : Clients, overlay : Overlays, conn : Conns,
               stage : {"read", "granted"}]
Answer     == [client : Clients, query : Queries, entry : PendingQuery,
               stage : {"found", "live", "sent"}]
Delivery   == [conn : Conns, client : Clients, query : Queries]

\* Stages of detachPeerLocked, in the order of the code.
DetachStages == {"detOverlays", "detPending", "detOwner", "detRemove"}
Stages == DetachStages \cup
    {"free", "pingExisting", "register", "handler", "ping", "close",
     "cleanLoop", "joinTrack", "leaveTrack"}
Ops == {"none", "connect", "disconnect", "cleanup", "callback", "join", "leave"}

Holder == [pc : Stages, op : Ops, client : Clients \cup {None},
           peer : PeerIds \cup {None}, conn : Conns \cup {None},
           owner : Clients \cup {None}, left : SUBSET Overlays,
           todo : SUBSET PeerIds, tries : Nat]

Free == [pc |-> "free", op |-> "none", client |-> None, peer |-> None,
         conn |-> None, owner |-> None, left |-> {}, todo |-> {}, tries |-> 0]

Phases == {"absent", "open", "draining", "cleanPeers", "cleanOverlays", "gone"}

-----------------------------------------------------------------------------
(* Look-ups *)

\* adnl.go:55 and overlay.go:26.  Both lists are duplicate-free, so a set
\* says all that the code ever asks of them.
clientOwnsPeer(c, p)    == p \in clientPeers[c]
clientOwnsOverlay(c, o) == o \in clientOverlays[c]

addClientPeer(c, p) ==
    clientPeers' = [clientPeers EXCEPT ![c] = @ \cup {p}]

\* Requests of a client that hold a slot of inflightSem.  Two requests of
\* the same shape at the same point are one element of these sets.
Running(c) ==
    {u \in peerUses : u.client = c} \cup {u \in overlayUses : u.client = c}
        \cup {a \in answers : a.client = c}

HoldsLock(c) == mu.client = c /\ mu.op # "cleanup"

\* A request is read while the connection is open and gets a slot.
Admitted(c) ==
    /\ phase[c] = "open"
    /\ Cardinality(Running(c)) + (IF HoldsLock(c) THEN 1 ELSE 0) < MaxInflight

\* The same for a handler that takes peerLifecycleMu.
Locked(c) == Admitted(c) /\ mu = Free

Release == mu' = Free

-----------------------------------------------------------------------------
(* The ADNL gateway (library code, seen through how the bridge uses it).   *)
(* Close cancels the connection at once; the disconnect handler runs later *)
(* on a goroutine of the transport.                                        *)

Closed(k) ==
    /\ conn' = [conn EXCEPT ![k] = "closed"]
    /\ hook' = [hook EXCEPT ![k] = IF @ = "set" THEN "due" ELSE @]

AcceptInbound(k) ==
    /\ conn[k] = "absent"
    /\ conn' = [conn EXCEPT ![k] = "open"]
    /\ hook' = [hook EXCEPT ![k] = "installing"]
    /\ UNCHANGED <<registry, tables, pendingQueries, session, mu, inflight, now>>

RemoteClose(k) ==
    /\ conn[k] = "open"
    /\ Closed(k)
    /\ UNCHANGED <<registry, tables, pendingQueries, session, mu, inflight, now>>

-----------------------------------------------------------------------------
(* installPeer, adnl.go:79 *)

\* Mutants: the check of GetCloserCtx is dropped; a new generation replaces
\* the installed one.
MutantInstallClosed(k, owner) ==
    LET current == activePeers[ConnId[k]]
    IN  \/ /\ current = k
           /\ owner = None \/ peerOwners[ConnId[k]] \in {None, owner}
        \/ current = None

MutantInstallReplaces(k, owner) ==
    LET current == activePeers[ConnId[k]]
    IN  \/ /\ current = k
           /\ owner = None \/ peerOwners[ConnId[k]] \in {None, owner}
        \/ conn[k] = "open"

\* A connection may be installed when no other one is in its place, its
\* owner does not change from one client to another, and it is still open.
installable(k, owner) ==
    LET current == activePeers[ConnId[k]]
    IN  \/ /\ current = k
           /\ owner = None \/ peerOwners[ConnId[k]] \in {None, owner}
        \/ current = None /\ conn[k] = "open"

\* What installPeer writes when it returns nil.
installPeer(k, owner) ==
    LET p == ConnId[k]
    IN  /\ activePeers' = [activePeers EXCEPT ![p] = k]
        /\ peerOwners'  = [peerOwners EXCEPT ![p] =
                             IF activePeers[p] = k /\ owner = None THEN @ ELSE owner]
        /\ UNCHANGED peerQueries

\* SetConnectionHandler's function, bridge.go:195.  An error makes the
\* gateway drop the connection; if the peer closed after its disconnect
\* handler was set and before the check of GetCloserCtx, that handler runs.
connectionHandler(k) ==
    /\ hook[k] = "installing"
    /\ IF installable(k, None)
         THEN /\ installPeer(k, None)
              /\ hook' = [hook EXCEPT ![k] = "set"]
              /\ UNCHANGED conn
         ELSE /\ \E h \in {"rejected"} \cup
                          (IF activePeers[ConnId[k]] = None THEN {"due"} ELSE {}) :
                   hook' = [hook EXCEPT ![k] = h]
              /\ conn' = [conn EXCEPT ![k] = "closed"]
              /\ UNCHANGED registry

\* An inbound connection: no lock of the bridge is held around the handler.
InboundConnection(k) ==
    /\ mu.conn # k
    /\ connectionHandler(k)
    /\ UNCHANGED <<tables, pendingQueries, session, mu, inflight, now>>

-----------------------------------------------------------------------------
(* detachPeerLocked, adnl.go:185.  Its caller holds peerLifecycleMu and    *)
(* passes the connection it means; h says who the caller is.               *)

\* Lines 186-192: the connection must still be the installed one.
beginDetach(h, p, expected) ==
    mu' = [h EXCEPT !.pc = "detOverlays", !.peer = p, !.conn = expected,
                    !.owner = peerOwners[p]]

\* Mutant: the wrappers stay in activeOverlays.
MutantDetachOverlays ==
    /\ mu.pc = "detOverlays"
    /\ LET ids == {o \in Overlays : overlayToPeer[o] = mu.peer}
       IN  /\ overlayToPeer' = [o \in Overlays |->
                                  IF o \in ids THEN None ELSE overlayToPeer[o]]
           /\ mu' = [mu EXCEPT !.pc = "detPending", !.left = ids]
    /\ UNCHANGED <<conn, hook, registry, activeOverlays, clientPeers, clientOverlays,
                   pendingQueries, session, inflight, now>>

detachOverlays ==
    /\ mu.pc = "detOverlays"
    /\ LET ids == {o \in Overlays : overlayToPeer[o] = mu.peer}
       IN  /\ overlayToPeer'  = [o \in Overlays |->
                                   IF o \in ids THEN None ELSE overlayToPeer[o]]
           /\ activeOverlays' = [o \in Overlays |->
                                   IF o \in ids THEN None ELSE activeOverlays[o]]
           /\ mu' = [mu EXCEPT !.pc = "detPending", !.left = ids]
    /\ UNCHANGED <<conn, hook, registry, clientPeers, clientOverlays,
                   pendingQueries, session, inflight, now>>

detachPending ==
    /\ mu.pc = "detPending"
    /\ pendingQueries' = [q \in Queries |->
         IF pendingQueries[q] # None /\ pendingQueries[q].conn = mu.conn
           THEN None ELSE pendingQueries[q]]
    /\ mu' = [mu EXCEPT !.pc = "detOwner"]
    /\ UNCHANGED <<conn, hook, registry, tables, session, inflight, now>>

\* Mutant: the owner's list of peers is not updated.
MutantDetachOwner ==
    /\ mu.pc = "detOwner"
    /\ clientOverlays' = [c \in Clients |-> IF c = mu.owner
                            THEN clientOverlays[c] \ mu.left ELSE clientOverlays[c]]
    /\ mu' = [mu EXCEPT !.pc = "detRemove"]
    /\ UNCHANGED <<conn, hook, registry, activeOverlays, overlayToPeer, clientPeers,
                   pendingQueries, session, inflight, now>>

detachOwner ==
    /\ mu.pc = "detOwner"
    /\ clientPeers'    = [c \in Clients |-> IF c = mu.owner
                            THEN clientPeers[c] \ {mu.peer} ELSE clientPeers[c]]
    /\ clientOverlays' = [c \in Clients |-> IF c = mu.owner
                            THEN clientOverlays[c] \ mu.left ELSE clientOverlays[c]]
    /\ mu' = [mu EXCEPT !.pc = "detRemove"]
    /\ UNCHANGED <<conn, hook, registry, activeOverlays, overlayToPeer,
                   pendingQueries, session, inflight, now>>

\* Lines 251-261.  The disconnect handler is done after this; every other
\* caller goes on to close the connection.  The repeated test of line 252 always
\* succeeds (DetachKnows in PeerRegistryProofs), so the early returns of the
\* callers after a failed one are not modelled.
detachRemove ==
    /\ mu.pc = "detRemove"
    /\ IF activePeers[mu.peer] = mu.conn
         THEN /\ activePeers' = [activePeers EXCEPT ![mu.peer] = None]
              /\ peerOwners'  = [peerOwners EXCEPT ![mu.peer] = None]
              /\ peerQueries' = [peerQueries EXCEPT ![mu.peer] = None]
         ELSE UNCHANGED registry
    /\ IF mu.op = "callback" THEN Release
         ELSE mu' = [mu EXCEPT !.pc = "close", !.owner = None, !.left = {}]
    /\ UNCHANGED <<conn, hook, tables, pendingQueries, session, inflight, now>>

\* Mutant: only an owned peer is detached when its connection closes.
MutantDisconnectHandler(k) ==
    /\ mu = Free
    /\ hook[k] = "due"
    /\ hook' = [hook EXCEPT ![k] = "done"]
    /\ IF activePeers[ConnId[k]] = k /\ peerOwners[ConnId[k]] # None
         THEN beginDetach([Free EXCEPT !.op = "callback"], ConnId[k], k)
         ELSE UNCHANGED mu
    /\ UNCHANGED <<conn, registry, tables, pendingQueries, session, inflight, now>>

\* peerDisconnectHandler, adnl.go:164: takes the lock, ignores a connection
\* that is no longer the installed one.
peerDisconnectHandler(k) ==
    /\ mu = Free
    /\ hook[k] = "due"
    /\ hook' = [hook EXCEPT ![k] = "done"]
    /\ IF activePeers[ConnId[k]] = k
         THEN beginDetach([Free EXCEPT !.op = "callback"], ConnId[k], k)
         ELSE UNCHANGED mu
    /\ UNCHANGED <<conn, registry, tables, pendingQueries, session, inflight, now>>

-----------------------------------------------------------------------------
(* adnl.connect and adnl.connectByADNL hold peerLifecycleMu from their     *)
(* first look at activePeers to their reply, across the liveness ping.     *)

\* Mutant: off by one.
MutantPeerLimit(c) == Cardinality(clientPeers[c]) <= MaxPeers

belowPeerLimit(c) == Cardinality(clientPeers[c]) < MaxPeers

\* Lines 308-357 (408-458): an installed peer is pinged and claimed if it is
\* unowned, an unknown one is registered, trying up to tries endpoints.
lockAndLook(c, p, tries) ==
    LET h == [Free EXCEPT !.op = "connect", !.client = c, !.peer = p, !.tries = tries]
    IN  /\ Locked(c)
        /\ IF activePeers[p] # None
             THEN /\ peerOwners[p] \in {None, c}
                  /\ peerOwners[p] = None => belowPeerLimit(c)
                  /\ mu' = [h EXCEPT !.pc = "pingExisting", !.conn = activePeers[p]]
             ELSE /\ belowPeerLimit(c)
                  /\ mu' = [h EXCEPT !.pc = "register"]
        /\ UNCHANGED <<conn, hook, registry, tables, pendingQueries, session,
                       inflight, now>>

handleADNLConnect(c, p)       == lockAndLook(c, p, 1)
handleADNLConnectByADNL(c, p) == \E n \in 1..MaxEndpoints : lockAndLook(c, p, n)

pingExisting ==
    /\ mu.pc = "pingExisting"
    /\ \/ /\ conn[mu.conn] = "open"                       \* the ping is answered
          /\ IF peerOwners[mu.peer] = None /\ installable(mu.conn, mu.client)
               THEN installPeer(mu.conn, mu.client) /\ addClientPeer(mu.client, mu.peer)
               ELSE UNCHANGED <<registry, clientPeers>>
       \/ UNCHANGED <<registry, clientPeers>>             \* or times out
    /\ Release
    /\ UNCHANGED <<conn, hook, activeOverlays, overlayToPeer, clientOverlays,
                   pendingQueries, session, inflight, now>>

\* Mutant: the endpoint list is overrun.
MutantNextEndpoint == [mu EXCEPT !.pc = "register", !.conn = None, !.tries = @ - 1]

\* What follows an endpoint that did not work.
nextEndpoint ==
    IF mu.tries > 1
      THEN [mu EXCEPT !.pc = "register", !.conn = None, !.tries = @ - 1]
      ELSE Free

\* gate.RegisterClient fails, finds a connection it already has, or dials a
\* new one and runs the connection handler on it before it returns.
RegisterClient ==
    /\ mu.pc = "register"
    /\ \/ mu' = nextEndpoint /\ UNCHANGED <<conn, hook>>
       \/ \E k \in Conns :
            /\ ConnId[k] = mu.peer /\ conn[k] = "open" /\ hook[k] = "set"
            /\ mu' = [mu EXCEPT !.pc = "ping", !.conn = k]
            /\ UNCHANGED <<conn, hook>>
       \/ \E k \in Conns :
            /\ ConnId[k] = mu.peer /\ conn[k] = "absent"
            /\ conn' = [conn EXCEPT ![k] = "open"]
            /\ hook' = [hook EXCEPT ![k] = "installing"]
            /\ mu' = [mu EXCEPT !.pc = "handler", !.conn = k]
    /\ UNCHANGED <<registry, tables, pendingQueries, session, inflight, now>>

OutboundConnection ==
    /\ mu.pc = "handler"
    /\ connectionHandler(mu.conn)
    /\ mu' = IF installable(mu.conn, None) THEN [mu EXCEPT !.pc = "ping"] ELSE nextEndpoint
    /\ UNCHANGED <<tables, pendingQueries, session, inflight, now>>

\* detachPeerLocked followed by Close, whether or not it detached anything.
abandonCandidate(h) ==
    IF activePeers[mu.peer] = mu.conn
      THEN beginDetach(h, mu.peer, mu.conn)
      ELSE mu' = [h EXCEPT !.pc = "close"]

\* Lines 365-380 (480-504).
pingCandidate ==
    /\ mu.pc = "ping"
    /\ \/ /\ conn[mu.conn] = "open"
          /\ IF installable(mu.conn, mu.client)
               THEN /\ installPeer(mu.conn, mu.client)
                    /\ addClientPeer(mu.client, mu.peer)
                    /\ Release
               ELSE /\ abandonCandidate([mu EXCEPT !.tries = 1])
                    /\ UNCHANGED <<registry, clientPeers>>
       \/ /\ abandonCandidate(mu)
          /\ UNCHANGED <<registry, clientPeers>>
    /\ UNCHANGED <<conn, hook, activeOverlays, overlayToPeer, clientOverlays,
                   pendingQueries, session, inflight, now>>

\* peer.Close() by the holder of the lock, after a detach.
closePeer ==
    /\ mu.pc = "close"
    /\ Closed(mu.conn)
    /\ mu' = CASE mu.op = "connect" -> nextEndpoint
               [] mu.op = "cleanup" -> [mu EXCEPT !.pc = "cleanLoop", !.conn = None,
                                                  !.peer = None]
               [] OTHER             -> Free
    /\ UNCHANGED <<registry, tables, pendingQueries, session, inflight, now>>

handleADNLDisconnect(c, p) ==
    /\ Locked(c)
    /\ clientOwnsPeer(c, p)
    /\ activePeers[p] # None
    /\ beginDetach([Free EXCEPT !.op = "disconnect", !.client = c], p, activePeers[p])
    /\ UNCHANGED <<conn, hook, registry, tables, pendingQueries, session, inflight, now>>

-----------------------------------------------------------------------------
(* Requests that use a peer: the connection is read from activePeers, the  *)
(* ownership is checked afterwards, then the connection read first is used.*)

usePeer(c, p) ==
    /\ Admitted(c)
    /\ activePeers[p] # None
    /\ peerUses' = peerUses \cup
         {[client |-> c, conn |-> activePeers[p], stage |-> "read"]}
    /\ UNCHANGED <<conn, hook, registry, tables, pendingQueries, session, mu,
                   overlayUses, answers, deliveries, now>>

handleADNLSendMessage(c, p) == usePeer(c, p)
handleADNLPing(c, p)        == usePeer(c, p)
handleADNLQuery(c, p)       == usePeer(c, p)

\* Mutant: no ownership check.
MutantCheckPeerUse(u) ==
    /\ u.stage = "read"
    /\ peerUses' = (peerUses \ {u}) \cup {[u EXCEPT !.stage = "granted"]}
    /\ UNCHANGED <<conn, hook, registry, tables, pendingQueries, session, mu,
                   overlayUses, answers, deliveries, now>>

\* clientOwnsPeer, then the call on the connection; an error reply ends the
\* request at either point.
checkPeerUse(u) ==
    /\ u.stage = "read"
    /\ peerUses' = (peerUses \ {u}) \cup
         (IF clientOwnsPeer(u.client, ConnId[u.conn])
            THEN {[u EXCEPT !.stage = "granted"]} ELSE {})
    /\ UNCHANGED <<conn, hook, registry, tables, pendingQueries, session, mu,
                   overlayUses, answers, deliveries, now>>

finishPeerUse(u) ==
    /\ u.stage = "granted"
    /\ peerUses' = peerUses \ {u}
    /\ UNCHANGED <<conn, hook, registry, tables, pendingQueries, session, mu,
                   overlayUses, answers, deliveries, now>>

-----------------------------------------------------------------------------
(* Overlays *)

\* overlay.go:52, up to the insertion into activeOverlays and overlayToPeer.
\* An overlay that is already joined only gets a reply.
handleOverlayJoin(c, o, p) ==
    /\ Locked(c)
    /\ Cardinality(clientOverlays[c]) < MaxOverlays
    /\ activePeers[p] # None
    /\ clientOwnsPeer(c, p)
    /\ activeOverlays[o] = None
    /\ activeOverlays' = [activeOverlays EXCEPT ![o] =
         [conn |-> activePeers[p], client |-> c, handler |-> None]]
    /\ overlayToPeer' = [overlayToPeer EXCEPT ![o] = p]
    /\ mu' = [Free EXCEPT !.pc = "joinTrack", !.op = "join", !.client = c, !.left = {o}]
    /\ UNCHANGED <<conn, hook, registry, clientPeers, clientOverlays,
                   pendingQueries, session, inflight, now>>

joinTrack ==
    /\ mu.pc = "joinTrack"
    /\ clientOverlays' = [clientOverlays EXCEPT ![mu.client] = @ \cup mu.left]
    /\ Release
    /\ UNCHANGED <<conn, hook, registry, activeOverlays, overlayToPeer, clientPeers,
                   pendingQueries, session, inflight, now>>

\* overlay.go:203: removed from activeOverlays first, then from the client's
\* list and overlayToPeer.
handleOverlayLeave(c, o) ==
    /\ Locked(c)
    /\ clientOwnsOverlay(c, o)
    /\ activeOverlays[o] # None
    /\ activeOverlays' = [activeOverlays EXCEPT ![o] = None]
    /\ mu' = [Free EXCEPT !.pc = "leaveTrack", !.op = "leave", !.client = c, !.left = {o}]
    /\ UNCHANGED <<conn, hook, registry, overlayToPeer, clientPeers, clientOverlays,
                   pendingQueries, session, inflight, now>>

leaveTrack ==
    /\ mu.pc = "leaveTrack"
    /\ clientOverlays' = [clientOverlays EXCEPT ![mu.client] = @ \ mu.left]
    /\ overlayToPeer'  = [o \in Overlays |->
                            IF o \in mu.left THEN None ELSE overlayToPeer[o]]
    /\ Release
    /\ UNCHANGED <<conn, hook, registry, activeOverlays, clientPeers,
                   pendingQueries, session, inflight, now>>

\* Readers of an overlay: the wrapper first, the ownership second.
useOverlay(c, o) ==
    /\ Admitted(c)
    /\ activeOverlays[o] # None
    /\ overlayUses' = overlayUses \cup
         {[client |-> c, overlay |-> o, conn |-> activeOverlays[o].conn, stage |-> "read"]}
    /\ UNCHANGED <<conn, hook, registry, tables, pendingQueries, session, mu,
                   peerUses, answers, deliveries, now>>

handleOverlayGetPeers(c, o)    == useOverlay(c, o)
handleOverlaySendMessage(c, o) == useOverlay(c, o)
handleOverlaySendRaw(c, o)     == useOverlay(c, o)
handleOverlayBroadcast(c, o)   == useOverlay(c, o)

\* overlay.query looks and checks in one critical section of peerLifecycleMu.
handleOverlayQuery(c, o) ==
    /\ Locked(c)
    /\ activeOverlays[o] # None
    /\ clientOwnsOverlay(c, o)
    /\ overlayUses' = overlayUses \cup
         {[client |-> c, overlay |-> o, conn |-> activeOverlays[o].conn, stage |-> "granted"]}
    /\ UNCHANGED <<conn, hook, registry, tables, pendingQueries, session, mu,
                   peerUses, answers, deliveries, now>>

checkOverlayUse(u) ==
    /\ u.stage = "read"
    /\ overlayUses' = (overlayUses \ {u}) \cup
         (IF clientOwnsOverlay(u.client, u.overlay)
            THEN {[u EXCEPT !.stage = "granted"]} ELSE {})
    /\ UNCHANGED <<conn, hook, registry, tables, pendingQueries, session, mu,
                   peerUses, answers, deliveries, now>>

finishOverlayUse(u) ==
    /\ u.stage = "granted"
    /\ overlayUses' = overlayUses \ {u}
    /\ UNCHANGED <<conn, hook, registry, tables, pendingQueries, session, mu,
                   peerUses, answers, deliveries, now>>

-----------------------------------------------------------------------------
(* Inbound queries.  A handler captures the connection and the client that *)
(* set it; the query it receives waits in pendingQueries for an answer.    *)

handleADNLSetQueryHandler(c, p) ==
    /\ Locked(c)
    /\ activePeers[p] # None
    /\ clientOwnsPeer(c, p)
    /\ peerQueries' = [peerQueries EXCEPT ![p] = [conn |-> activePeers[p], client |-> c]]
    /\ UNCHANGED <<conn, hook, activePeers, peerOwners, tables, pendingQueries,
                   session, mu, inflight, now>>

handleOverlaySetQueryHandler(c, o, p) ==
    /\ Locked(c)
    /\ activeOverlays[o] # None
    /\ clientOwnsOverlay(c, o)
    /\ activePeers[p] # None
    /\ clientOwnsPeer(c, p)
    /\ overlayToPeer[o] = p
    /\ activeOverlays' = [activeOverlays EXCEPT ![o].handler =
                            [conn |-> activePeers[p], client |-> c]]
    /\ UNCHANGED <<conn, hook, registry, overlayToPeer, clientPeers, clientOverlays,
                   pendingQueries, session, mu, inflight, now>>

\* The transport hands query q to handler; it has yet to take the lock.
deliver(handler, q) ==
    /\ handler # None
    /\ deliveries' = deliveries \cup
         {[conn |-> handler.conn, client |-> handler.client, query |-> q]}
    /\ UNCHANGED <<conn, hook, registry, tables, pendingQueries, session, mu,
                   peerUses, overlayUses, answers, now>>

\* peerQueryHandler, adnl.go:150, on a query that arrives on k.
peerQueryHandler(k, q) ==
    /\ conn[k] = "open"
    /\ activePeers[ConnId[k]] = k
    /\ deliver(peerQueries[ConnId[k]], q)

\* The overlay wrapper dispatches a query to its own handler.
OverlayQueryArrives(o, q) ==
    /\ activeOverlays[o] # None
    /\ conn[activeOverlays[o].conn] = "open"
    /\ deliver(activeOverlays[o].handler, q)

\* Mutant: the query is recorded although its connection was removed.
MutantRecordQuery(d) ==
    /\ mu = Free
    /\ deliveries' = deliveries \ {d}
    /\ pendingQueries' = [pendingQueries EXCEPT ![d.query] =
         [conn |-> d.conn, owner |-> d.client, deadline |-> now + QueryTTL]]
    /\ UNCHANGED <<conn, hook, registry, tables, session, mu, peerUses, overlayUses,
                   answers, now>>

\* The handler's critical section, adnl.go:807-818 and overlay.go:708-719.
recordQuery(d) ==
    /\ mu = Free
    /\ deliveries' = deliveries \ {d}
    /\ pendingQueries' =
         IF activePeers[ConnId[d.conn]] = d.conn
           THEN [pendingQueries EXCEPT ![d.query] =
                   [conn |-> d.conn, owner |-> d.client, deadline |-> now + QueryTTL]]
           ELSE pendingQueries
    /\ UNCHANGED <<conn, hook, registry, tables, session, mu, peerUses, overlayUses,
                   answers, now>>

expired(q) == pendingQueries[q] # None /\ now > pendingQueries[q].deadline

\* adnl.answer and overlay.answer, up to the first unlock of pendingQueriesMu.
findPending(c, q) ==
    /\ Admitted(c)
    /\ pendingQueries[q] # None
    /\ IF expired(q)
         THEN /\ pendingQueries' = [pendingQueries EXCEPT ![q] = None]
              /\ UNCHANGED answers
         ELSE /\ pendingQueries[q].owner = c
              /\ answers' = answers \cup
                   {[client |-> c, query |-> q, entry |-> pendingQueries[q],
                     stage |-> "found"]}
              /\ UNCHANGED pendingQueries
    /\ UNCHANGED <<conn, hook, registry, tables, session, mu, peerUses, overlayUses,
                   deliveries, now>>

handleADNLAnswer(c, q)    == findPending(c, q)
handleOverlayAnswer(c, q) == findPending(c, q)

checkAnswer(a) ==
    /\ a.stage = "found"
    /\ answers' = (answers \ {a}) \cup
         (IF activePeers[ConnId[a.entry.conn]] = a.entry.conn
            THEN {[a EXCEPT !.stage = "live"]} ELSE {})
    /\ UNCHANGED <<conn, hook, registry, tables, pendingQueries, session, mu,
                   peerUses, overlayUses, deliveries, now>>

\* peer.Answer returns an error, or the answer is on its way.
sendAnswer(a) ==
    /\ a.stage = "live"
    /\ answers' \in {answers \ {a}, (answers \ {a}) \cup {[a EXCEPT !.stage = "sent"]}}
    /\ UNCHANGED <<conn, hook, registry, tables, pendingQueries, session, mu,
                   peerUses, overlayUses, deliveries, now>>

\* Mutant: whatever is recorded under the query id is deleted.
MutantForgetAnswered(a) ==
    /\ a.stage = "sent"
    /\ answers' = answers \ {a}
    /\ pendingQueries' = [pendingQueries EXCEPT ![a.query] = None]
    /\ UNCHANGED <<conn, hook, registry, tables, session, mu, peerUses, overlayUses,
                   deliveries, now>>

\* Only the entry that was answered is deleted, not one recorded since.
forgetAnswered(a) ==
    /\ a.stage = "sent"
    /\ answers' = answers \ {a}
    /\ pendingQueries' = IF pendingQueries[a.query] = a.entry
                           THEN [pendingQueries EXCEPT ![a.query] = None]
                           ELSE pendingQueries
    /\ UNCHANGED <<conn, hook, registry, tables, session, mu, peerUses, overlayUses,
                   deliveries, now>>

\* The sweeper of bridge.go:226 evicts what has expired.
sweepPending ==
    /\ \E q \in Queries : expired(q)
    /\ pendingQueries' = [q \in Queries |-> IF expired(q) THEN None ELSE pendingQueries[q]]
    /\ UNCHANGED <<conn, hook, registry, tables, session, mu, inflight, now>>

Tick ==
    /\ now < MaxTime
    /\ now' = now + 1
    /\ UNCHANGED <<conn, hook, registry, tables, pendingQueries, session, mu, inflight>>

-----------------------------------------------------------------------------
(* handleWS: the life of a client, and its deferred clean-up in LIFO order *)

OpenClient(c) ==
    /\ phase[c] = "absent"
    /\ phase' = [phase EXCEPT ![c] = "open"]
    /\ UNCHANGED <<conn, hook, registry, tables, pendingQueries, snapshot, mu,
                   inflight, now>>

\* The read loop ends and connCancel is called.
EndRead(c) ==
    /\ phase[c] = "open"
    /\ phase' = [phase EXCEPT ![c] = "draining"]
    /\ UNCHANGED <<conn, hook, registry, tables, pendingQueries, snapshot, mu,
                   inflight, now>>

\* Mutant: the clean-up does not wait for the client's requests.
MutantSnapshotPeers(c) ==
    /\ phase[c] = "draining"
    /\ snapshot' = [snapshot EXCEPT ![c] = clientPeers[c]]
    /\ clientPeers' = [clientPeers EXCEPT ![c] = {}]
    /\ phase' = [phase EXCEPT ![c] = "cleanPeers"]
    /\ UNCHANGED <<conn, hook, registry, activeOverlays, overlayToPeer, clientOverlays,
                   pendingQueries, mu, inflight, now>>

\* wg.Wait returns, then client.peers is copied and cleared (bridge.go:338),
\* still without peerLifecycleMu.
snapshotPeers(c) ==
    /\ phase[c] = "draining"
    /\ Running(c) = {} /\ ~HoldsLock(c)
    /\ snapshot' = [snapshot EXCEPT ![c] = clientPeers[c]]
    /\ clientPeers' = [clientPeers EXCEPT ![c] = {}]
    /\ phase' = [phase EXCEPT ![c] = "cleanPeers"]
    /\ UNCHANGED <<conn, hook, registry, activeOverlays, overlayToPeer, clientOverlays,
                   pendingQueries, mu, inflight, now>>

lockForCleanup(c) ==
    /\ phase[c] = "cleanPeers"
    /\ mu = Free
    /\ mu' = [Free EXCEPT !.pc = "cleanLoop", !.op = "cleanup", !.client = c,
                          !.todo = snapshot[c]]
    /\ UNCHANGED <<conn, hook, registry, tables, pendingQueries, session, inflight, now>>

\* One iteration of the loop over peerIDs, bridge.go:344: whatever connection
\* is installed under that id now is detached and closed.
cleanupPeer ==
    /\ mu.pc = "cleanLoop"
    /\ \E p \in mu.todo :
         LET h == [mu EXCEPT !.todo = @ \ {p}]
         IN  IF activePeers[p] # None THEN beginDetach(h, p, activePeers[p])
                                      ELSE mu' = h
    /\ UNCHANGED <<conn, hook, registry, tables, pendingQueries, session, inflight, now>>

\* Mutant: the lock is not released.
MutantCleanupPeersDone ==
    /\ mu.pc = "cleanLoop"
    /\ mu.todo = {}
    /\ phase' = [phase EXCEPT ![mu.client] = "cleanOverlays"]
    /\ snapshot' = [snapshot EXCEPT ![mu.client] = {}]
    /\ mu' = [mu EXCEPT !.pc = "free"]
    /\ UNCHANGED <<conn, hook, registry, tables, pendingQueries, inflight, now>>

cleanupPeersDone ==
    /\ mu.pc = "cleanLoop"
    /\ mu.todo = {}
    /\ phase' = [phase EXCEPT ![mu.client] = "cleanOverlays"]
    /\ snapshot' = [snapshot EXCEPT ![mu.client] = {}]
    /\ Release
    /\ UNCHANGED <<conn, hook, registry, tables, pendingQueries, inflight, now>>

\* bridge.go:313: the overlays still listed go in one critical section, and
\* handleWS returns.
cleanupOverlays(c) ==
    /\ phase[c] = "cleanOverlays"
    /\ mu = Free
    /\ activeOverlays' = [o \in Overlays |-> IF o \in clientOverlays[c]
                            THEN None ELSE activeOverlays[o]]
    /\ overlayToPeer'  = [o \in Overlays |-> IF o \in clientOverlays[c]
                            THEN None ELSE overlayToPeer[o]]
    /\ clientOverlays' = [clientOverlays EXCEPT ![c] = {}]
    /\ phase' = [phase EXCEPT ![c] = "gone"]
    /\ UNCHANGED <<conn, hook, registry, clientPeers, pendingQueries, snapshot, mu,
                   inflight, now>>

-----------------------------------------------------------------------------
Init ==
    /\ conn = [k \in Conns |-> "absent"]
    /\ hook = [k \in Conns |-> "none"]
    /\ activePeers = [p \in PeerIds |-> None]
    /\ peerOwners  = [p \in PeerIds |-> None]
    /\ peerQueries = [p \in PeerIds |-> None]
    /\ activeOverlays = [o \in Overlays |-> None]
    /\ overlayToPeer  = [o \in Overlays |-> None]
    /\ pendingQueries = [q \in Queries |-> None]
    /\ clientPeers    = [c \in Clients |-> {}]
    /\ clientOverlays = [c \in Clients |-> {}]
    /\ phase    = [c \in Clients |-> "absent"]
    /\ snapshot = [c \in Clients |-> {}]
    /\ mu = Free
    /\ peerUses = {} /\ overlayUses = {} /\ answers = {} /\ deliveries = {}
    /\ now = 0

Gateway == \E k \in Conns :
    \/ AcceptInbound(k) \/ InboundConnection(k) \/ RemoteClose(k)
    \/ peerDisconnectHandler(k)
    \/ \E q \in Queries : peerQueryHandler(k, q)

\* The steps of whoever holds peerLifecycleMu.
LockHolder ==
    \/ detachOverlays \/ detachPending \/ detachOwner \/ detachRemove \/ closePeer
    \/ pingExisting \/ RegisterClient \/ OutboundConnection \/ pingCandidate
    \/ joinTrack \/ leaveTrack \/ cleanupPeer \/ cleanupPeersDone

PeerRequest(c, p) ==
    \/ handleADNLConnect(c, p) \/ handleADNLConnectByADNL(c, p)
    \/ handleADNLDisconnect(c, p) \/ handleADNLSetQueryHandler(c, p)
    \/ handleADNLSendMessage(c, p) \/ handleADNLPing(c, p) \/ handleADNLQuery(c, p)

OverlayRequest(c, o) ==
    \/ handleOverlayLeave(c, o) \/ handleOverlayQuery(c, o)
    \/ handleOverlayGetPeers(c, o) \/ handleOverlaySendMessage(c, o)
    \/ handleOverlaySendRaw(c, o) \/ handleOverlayBroadcast(c, o)
    \/ \E p \in PeerIds :
         handleOverlayJoin(c, o, p) \/ handleOverlaySetQueryHandler(c, o, p)

Request(c) ==
    \/ \E p \in PeerIds : PeerRequest(c, p)
    \/ \E o \in Overlays : OverlayRequest(c, o)
    \/ \E q \in Queries : handleADNLAnswer(c, q) \/ handleOverlayAnswer(c, q)

\* The later steps of the requests that run without the lock.
RequestProgress ==
    \/ \E u \in peerUses : checkPeerUse(u) \/ finishPeerUse(u)
    \/ \E u \in overlayUses : checkOverlayUse(u) \/ finishOverlayUse(u)
    \/ \E a \in answers : checkAnswer(a) \/ sendAnswer(a) \/ forgetAnswered(a)

Session(c) ==
    OpenClient(c) \/ EndRead(c) \/ snapshotPeers(c) \/ lockForCleanup(c) \/ cleanupOverlays(c)

Inbound ==
    \/ \E o \in Overlays, q \in Queries : OverlayQueryArrives(o, q)
    \/ \E d \in deliveries : recordQuery(d)

Next ==
    \/ Gateway \/ LockHolder \/ RequestProgress \/ Inbound \/ sweepPending \/ Tick
    \/ \E c \in Clients : Request(c) \/ Session(c)

Spec == Init /\ [][Next]_vars

\* Every goroutine that can run does run, ping, dial and send return (they
\* carry timeouts or are the transport's), and Go's mutex hands itself over
\* in starvation mode, so a waiter is not overtaken for ever.
Progress(c) ==
    \/ \E u \in peerUses : u.client = c /\ (checkPeerUse(u) \/ finishPeerUse(u))
    \/ \E u \in overlayUses : u.client = c /\ (checkOverlayUse(u) \/ finishOverlayUse(u))
    \/ \E a \in answers : a.client = c /\ (checkAnswer(a) \/ sendAnswer(a) \/ forgetAnswered(a))

Fairness ==
    /\ WF_vars(LockHolder)
    /\ \A c \in Clients :
         /\ WF_vars(Progress(c)) /\ WF_vars(snapshotPeers(c))
         /\ SF_vars(lockForCleanup(c)) /\ SF_vars(cleanupOverlays(c))
    /\ \A k \in Conns : SF_vars(peerDisconnectHandler(k))

FairSpec == Spec /\ Fairness

-----------------------------------------------------------------------------
(* Properties *)

\* Every table, list and request in flight holds what the Go declarations
\* and the life cycle of a client and of a connection allow.
TypeOK ==
    /\ conn \in [Conns -> {"absent", "open", "closed"}]
    /\ hook \in [Conns -> {"none", "installing", "set", "due", "done", "rejected"}]
    /\ activePeers \in [PeerIds -> Conns \cup {None}]
    /\ peerOwners \in [PeerIds -> Clients \cup {None}]
    /\ peerQueries \in [PeerIds -> Handlers \cup {None}]
    /\ activeOverlays \in [Overlays -> Wrappers \cup {None}]
    /\ overlayToPeer \in [Overlays -> PeerIds \cup {None}]
    /\ pendingQueries \in [Queries -> PendingQuery \cup {None}]
    /\ clientPeers \in [Clients -> SUBSET PeerIds]
    /\ clientOverlays \in [Clients -> SUBSET Overlays]
    /\ phase \in [Clients -> Phases]
    /\ snapshot \in [Clients -> SUBSET PeerIds]
    /\ mu \in Holder
    /\ peerUses \subseteq PeerUse /\ overlayUses \subseteq OverlayUse
    /\ answers \subseteq Answer /\ deliveries \subseteq Delivery
    /\ now \in Nat

Detaching(p) == mu.pc \in DetachStages /\ mu.peer = p

\* client.peers and peerOwners say the same thing, although no step writes
\* both under one lock: a listed peer is installed and owned by that client,
\* and an owned peer is listed, or its owner's teardown has it in its copy,
\* or the detach that is under way has just unlisted it.
OwnershipAgrees ==
    \A p \in PeerIds :
      /\ \A c \in Clients : p \in clientPeers[c] => peerOwners[p] = c
      /\ peerOwners[p] # None =>
           /\ activePeers[p] # None
           /\ \/ p \in clientPeers[peerOwners[p]]
              \/ p \in snapshot[peerOwners[p]]
              \/ Detaching(p) /\ mu.pc = "detRemove"

\* A joined overlay hangs on the connection that is installed under the peer
\* id of overlayToPeer, owned by the client that joined it, also while that
\* peer is being detached; the client's own list agrees with activeOverlays
\* but for the overlay a join, a leave or a detach is working on.
OverlayAttached ==
    /\ \A o \in Overlays : activeOverlays[o] # None =>
         LET w == activeOverlays[o]  p == overlayToPeer[o]
         IN  /\ p # None
             /\ activePeers[p] = w.conn
             /\ peerOwners[p] = w.client
             /\ w.handler # None => w.handler = [conn |-> w.conn, client |-> w.client]
             /\ o \in clientOverlays[w.client] \/ (mu.pc = "joinTrack" /\ o \in mu.left)
    /\ \A c \in Clients : \A o \in clientOverlays[c] :
         \/ activeOverlays[o] # None /\ activeOverlays[o].client = c
         \/ o \in mu.left /\ mu.pc \in {"leaveTrack", "detPending", "detOwner"}

\* An inbound query waiting for an answer arrived on the connection that is
\* installed now, and the client it waits for is that peer's owner: a query
\* is never left behind by a detach nor recorded for a dead generation.
PendingQueryLive ==
    \A q \in Queries : pendingQueries[q] # None =>
      LET e == pendingQueries[q]
      IN  /\ activePeers[ConnId[e.conn]] = e.conn
          /\ peerOwners[ConnId[e.conn]] = e.owner

\* A closed connection stays in activePeers only while its disconnect
\* handler is still to run or the detach of that connection is under way.
NoZombie ==
    \A p \in PeerIds :
      LET k == activePeers[p]
      IN  k # None /\ conn[k] = "closed" =>
            hook[k] = "due" \/ (Detaching(p) /\ mu.conn = k)

\* max_peers and max_overlays hold at every point of connects, joins, detaches
\* and clean-ups, although the lists are extended after the check.
WithinLimits ==
    \A c \in Clients : /\ Cardinality(clientPeers[c]) <= MaxPeers
                       /\ Cardinality(clientOverlays[c]) <= MaxOverlays

\* When handleWS has returned nothing refers to the client any more.  The
\* peer clean-up alone already removes the client's overlays, because each
\* hangs on one of its peers.
GoneLeavesNothing ==
    \A c \in Clients :
      /\ phase[c] \in {"cleanOverlays", "gone"} =>
           /\ clientOverlays[c] = {} /\ clientPeers[c] = {}
           /\ \A p \in PeerIds : peerOwners[p] # c
           /\ \A o \in Overlays : activeOverlays[o] # None => activeOverlays[o].client # c
           /\ \A q \in Queries : pendingQueries[q] # None => pendingQueries[q].owner # c

\* A send, ping or query that passed the ownership check acts on a peer of
\* its own client or on a connection that has been removed, although the
\* connection was read before the check.
PeerUseOwned ==
    \A u \in peerUses :
      LET p == ConnId[u.conn]
      IN  u.stage = "granted" =>
            activePeers[p] # u.conn \/ peerOwners[p] = u.client

\* The same for overlay requests: the connection they send over belongs to
\* their client or is gone.  docs/architecture.md says that another client
\* cannot operate on a client's peers and overlays.
OverlayUseOwned ==
    \A u \in overlayUses :
      LET p == ConnId[u.conn]
      IN  u.stage = "granted" =>
            activePeers[p] # u.conn \/ peerOwners[p] = u.client

\* The clean-up of a client that went away never detaches and closes a peer
\* that another client owns (docs/architecture.md, Client ownership).
TeardownSparesOthers ==
    mu.op = "cleanup" /\ mu.pc \in DetachStages => mu.owner \in {mu.client, None}

\* A peer never changes hands: its connection is not replaced and its owner
\* does not change until the peer has been removed.
NoTakeover ==
    [][\A p \in PeerIds :
         /\ activePeers[p] # None => activePeers'[p] \in {activePeers[p], None}
         /\ peerOwners[p] # None /\ activePeers'[p] # None
              => peerOwners'[p] = peerOwners[p]]_vars

\* A query waiting for an answer is forgotten only when that very query was
\* answered, expired, or lost its connection, or when another one with the
\* same id took its place; a late deletion by an earlier answer spares it.
PendingNotLost ==
    [][\A q \in Queries :
         LET e == pendingQueries[q]
         IN  e # None /\ pendingQueries'[q] # e =>
               \/ pendingQueries'[q] # None
               \/ now > e.deadline
               \/ mu.pc = "detPending" /\ mu.conn = e.conn
               \/ \E a \in answers : a.query = q /\ a.stage = "sent" /\ a.entry = e]_vars

\* The teardown of a client comes to an end: requests drain, the lock is
\* obtained and every peer of the copy is dealt with.
TeardownCompletes ==
    \A c \in Clients : phase[c] = "draining" ~> phase[c] = "gone"

\* A peer whose connection has closed is eventually removed.
ClosedPeerRemoved ==
    \A k \in Conns :
      (conn[k] = "closed" /\ activePeers[ConnId[k]] = k) ~> activePeers[ConnId[k]] # k
=============================================================================
