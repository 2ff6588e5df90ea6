-------------------------- MODULE PeerQueryProofs ---------------------------
(***************************************************************************)
(* Theorems about the inbound queries of PeerRegistry and about what a     *)
(* client leaves behind: a recorded query belongs to the installed         *)
(* connection and its owner, it is not lost before it is answered, the     *)
(* limits hold at every step and a departed client is forgotten.           *)
(***************************************************************************)
EXTENDS PeerAttachmentProofs

-----------------------------------------------------------------------------
(* Inbound queries *)

\* The handler of a peer was set by its owner for its current connection.
HandlersOwned ==
    \A p \in PeerIds : peerQueries[p] # None =>
      activePeers[p] = peerQueries[p].conn /\ peerOwners[p] = peerQueries[p].client

\* A query on its way to the lock came in on a connection of its client, and
\* if that connection is still installed it still is the client's.
DeliveriesOwned ==
    \A d \in deliveries :
      /\ hook[d.conn] \notin Fresh
      /\ activePeers[ConnId[d.conn]] = d.conn => peerOwners[ConnId[d.conn]] = d.client

\* A detach past its second stage has forgotten the connection's queries.
DetachedForgotten ==
    mu.pc \in {"detOwner", "detRemove"} =>
      \A q \in Queries : pendingQueries[q] # None => pendingQueries[q].conn # mu.conn

QueriesInv == PendingQueryLive /\ HandlersOwned /\ DeliveriesOwned /\ DetachedForgotten

\* The types of the query tables.
LEMMA QueryTypes ==
    ASSUME OwnershipInv
    PROVE  /\ peerQueries \in [PeerIds -> Handlers \cup {None}]
           /\ pendingQueries \in [Queries -> PendingQuery \cup {None}]
           /\ deliveries \subseteq Delivery
BY DEF OwnershipInv, TypeInv, TypeOK

\* An owned connection that is installed stays so unless it is removed.
LEMMA OwnedKept ==
    ASSUME OwnershipInv, NoTakeoverStep, NEW p \in PeerIds, NEW k \in Conns, NEW c \in Clients,
           activePeers[p] = k, peerOwners[p] = c, activePeers'[p] = activePeers[p]
    PROVE  activePeers'[p] = k /\ peerOwners'[p] = c
BY RegistryTypes DEF NoTakeoverStep

\* Queries on their way keep what is known of them in every step.
LEMMA DeliveryKept ==
    ASSUME OwnershipInv, DeliveriesOwned, NoTakeoverStep, StaysRemoved, NEW d \in deliveries
    PROVE  /\ hook'[d.conn] \notin Fresh
           /\ activePeers'[ConnId[d.conn]] = d.conn => peerOwners'[ConnId[d.conn]] = d.client
<1>1. d.conn \in Conns /\ d.client \in Clients BY QueryTypes DEF Delivery
<1> QED BY <1>1, UseKept DEF DeliveriesOwned

\* A step that removes no peer and at most forgets queries preserves the
\* invariant, provided it does not jump into the late stages of a detach.
LEMMA FrameQueries ==
    ASSUME OwnershipInv, QueriesInv, NoTakeoverStep, StaysRemoved,
           UNCHANGED peerQueries, deliveries' \subseteq deliveries,
           \A q \in Queries : pendingQueries'[q] \in {pendingQueries[q], None},
           \A p \in PeerIds : activePeers[p] # None => activePeers'[p] = activePeers[p],
           mu' = mu \/ mu'.pc \notin {"detOwner", "detRemove"}
    PROVE  QueriesInv'
<1>1. HandlersOwned'
  <2> SUFFICES ASSUME NEW p \in PeerIds, peerQueries[p] # None
               PROVE  activePeers'[p] = peerQueries[p].conn /\ peerOwners'[p] = peerQueries[p].client
    BY DEF HandlersOwned
  <2>1. peerQueries[p].conn \in Conns /\ peerQueries[p].client \in Clients
    BY QueryTypes DEF Handlers
  <2> QED BY <2>1, OwnedKept, RegistryTypes DEF QueriesInv, HandlersOwned
<1>2. DeliveriesOwned'
  BY DeliveryKept DEF QueriesInv, DeliveriesOwned
<1>3. PendingQueryLive'
  <2> SUFFICES ASSUME NEW q \in Queries, pendingQueries[q] # None
               PROVE  LET e == pendingQueries[q]
                      IN  /\ activePeers'[ConnId[e.conn]] = e.conn
                          /\ peerOwners'[ConnId[e.conn]] = e.owner
    BY DEF PendingQueryLive
  <2>1. pendingQueries[q].conn \in Conns /\ pendingQueries[q].owner \in Clients
    BY QueryTypes DEF PendingQuery
  <2> QED BY <2>1, OwnedKept, RegistryTypes DEF QueriesInv, PendingQueryLive
<1>4. DetachedForgotten' BY DEF QueriesInv, DetachedForgotten
<1> QED BY <1>1, <1>2, <1>3, <1>4 DEF QueriesInv

\* A query that its handler takes up came in for the owner of the peer.
LEMMA DeliverQueries ==
    ASSUME OwnershipInv, Generations, QueriesInv, NoTakeoverStep, StaysRemoved,
           NEW h \in Handlers, NEW q \in Queries, deliver(h, q),
           activePeers[ConnId[h.conn]] = h.conn, peerOwners[ConnId[h.conn]] = h.client
    PROVE  QueriesInv'
<1> USE DEF registry, tables, session, inflight
<1>0. UNCHANGED <<peerQueries, pendingQueries, activePeers, peerOwners, mu, hook>>
  BY DEF deliver
<1>1. HandlersOwned' /\ PendingQueryLive' /\ DetachedForgotten'
  BY <1>0 DEF QueriesInv, HandlersOwned, PendingQueryLive, DetachedForgotten
<1>2. h.conn \in Conns BY DEF Handlers
<1>3. hook[h.conn] \notin Fresh BY <1>2 DEF Generations, InstalledHooked, Fresh
<1>4. \A d \in deliveries' : d \in deliveries \/ (d.conn = h.conn /\ d.client = h.client)
  BY DEF deliver
<1>5. DeliveriesOwned' BY <1>0, <1>3, <1>4 DEF QueriesInv, DeliveriesOwned
<1> QED BY <1>1, <1>5 DEF QueriesInv

\* The steps of a detach preserve the invariant: what hung on the connection
\* is gone before the connection is.
LEMMA DetachQueries ==
    ASSUME OwnershipInv, Generations, QueriesInv, NoTakeoverStep, StaysRemoved,
           detachPending \/ detachOwner \/ detachRemove
    PROVE  QueriesInv'
<1> USE DEF registry, tables, session, inflight
<1>0. mu \in Holder BY RegistryTypes
<1>a. /\ mu.peer \in PeerIds /\ mu.conn \in Conns /\ ConnId[mu.conn] = mu.peer
      /\ activePeers[mu.peer] = mu.conn
  BY HolderDetaches DEF detachPending, detachOwner, detachRemove, DetachStages
<1>1. CASE detachPending \/ detachOwner
  <2>1. UNCHANGED <<peerQueries, activePeers, peerOwners, deliveries, hook>>
    BY <1>1 DEF detachPending, detachOwner
  <2>2. HandlersOwned' /\ DeliveriesOwned'
    BY <2>1 DEF QueriesInv, HandlersOwned, DeliveriesOwned
  <2>3. \A q \in Queries : pendingQueries'[q] \in {pendingQueries[q], None}
    BY <1>1 DEF detachPending, detachOwner
  <2>4. PendingQueryLive'
    BY <2>1, <2>3 DEF QueriesInv, PendingQueryLive
  <2>5. DetachedForgotten'
    <3>1. mu'.conn = mu.conn BY <1>0, <1>1 DEF detachPending, detachOwner, Holder
    <3>2. CASE detachPending BY <3>1, <3>2 DEF detachPending, DetachedForgotten
    <3>3. CASE detachOwner
      BY <3>1, <3>3 DEF detachOwner, QueriesInv, DetachedForgotten
    <3> QED BY <1>1, <3>2, <3>3
  <2> QED BY <2>2, <2>4, <2>5 DEF QueriesInv
<1>2. CASE detachRemove
  <2>1. /\ UNCHANGED <<deliveries, pendingQueries>> /\ mu.pc = "detRemove"
        /\ peerQueries'[mu.peer] = None
        /\ \A p \in PeerIds : p # mu.peer => /\ activePeers'[p] = activePeers[p]
                                             /\ peerOwners'[p] = peerOwners[p]
                                             /\ peerQueries'[p] = peerQueries[p]
    BY <1>2, <1>a, RegistryTypes, QueryTypes DEF detachRemove
  <2>2. HandlersOwned' BY <2>1 DEF QueriesInv, HandlersOwned
  <2>3. DeliveriesOwned' BY <2>1, DeliveryKept DEF QueriesInv, DeliveriesOwned
  <2>4. PendingQueryLive'
    <3> SUFFICES ASSUME NEW q \in Queries, pendingQueries[q] # None
                 PROVE  LET e == pendingQueries[q]
                        IN  /\ activePeers'[ConnId[e.conn]] = e.conn
                            /\ peerOwners'[ConnId[e.conn]] = e.owner
      BY <2>1 DEF PendingQueryLive
    <3>1. pendingQueries[q].conn \in Conns BY QueryTypes DEF PendingQuery
    <3>2. pendingQueries[q].conn # mu.conn BY <2>1 DEF QueriesInv, DetachedForgotten
    <3>3. ConnId[pendingQueries[q].conn] # mu.peer
      BY <1>a, <3>2 DEF QueriesInv, PendingQueryLive
    <3> QED BY <2>1, <3>1, <3>3, RegistryTypes DEF QueriesInv, PendingQueryLive
  <2>5. mu'.pc \in {"free", "close"}
    <3>1. CASE mu.op = "callback" BY <1>2, <3>1 DEF detachRemove, Release, Free
    <3>2. CASE mu.op # "callback" BY <1>0, <1>2, <3>2 DEF detachRemove, Holder
    <3> QED BY <3>1, <3>2
  <2>6. DetachedForgotten' BY <2>5 DEF DetachedForgotten
  <2> QED BY <2>2, <2>3, <2>4, <2>6 DEF QueriesInv
<1> QED BY <1>1, <1>2

\* Setting a handler and recording a query, both under a free lock.
LEMMA RecordQueries ==
    ASSUME OwnershipInv, QueriesInv,
           \/ \E d \in deliveries : recordQuery(d)
           \/ \E c \in Clients, p \in PeerIds : handleADNLSetQueryHandler(c, p)
    PROVE  QueriesInv'
<1> USE DEF registry, tables, session, inflight
<1>0. mu = Free /\ UNCHANGED <<activePeers, peerOwners, mu, hook>>
  BY DEF recordQuery, handleADNLSetQueryHandler, Locked
<1>1. DetachedForgotten' BY <1>0 DEF DetachedForgotten, Free
<1>2. ASSUME NEW d \in deliveries, recordQuery(d) PROVE QueriesInv'
  <2>1. UNCHANGED peerQueries /\ deliveries' \subseteq deliveries
    BY <1>2 DEF recordQuery
  <2>2. HandlersOwned' /\ DeliveriesOwned'
    BY <1>0, <2>1 DEF QueriesInv, HandlersOwned, DeliveriesOwned
  <2>3. PendingQueryLive'
    <3> SUFFICES ASSUME NEW q \in Queries, pendingQueries'[q] # None
                 PROVE  LET e == pendingQueries'[q]
                        IN  /\ activePeers[ConnId[e.conn]] = e.conn
                            /\ peerOwners[ConnId[e.conn]] = e.owner
      BY <1>0 DEF PendingQueryLive
    <3>1. CASE pendingQueries'[q] = pendingQueries[q]
      BY <3>1 DEF QueriesInv, PendingQueryLive
    <3>2. CASE pendingQueries'[q] # pendingQueries[q]
      <4>1. /\ activePeers[ConnId[d.conn]] = d.conn
            /\ pendingQueries'[q] = [conn |-> d.conn, owner |-> d.client,
                                     deadline |-> now + QueryTTL]
        BY <1>2, <3>2, QueryTypes DEF recordQuery
      <4>2. peerOwners[ConnId[d.conn]] = d.client BY <4>1 DEF QueriesInv, DeliveriesOwned
      <4> QED BY <4>1, <4>2
    <3> QED BY <3>1, <3>2
  <2> QED BY <1>1, <2>2, <2>3 DEF QueriesInv
<1>3. ASSUME NEW c \in Clients, NEW p \in PeerIds, handleADNLSetQueryHandler(c, p)
      PROVE  QueriesInv'
  <2>1. UNCHANGED <<pendingQueries, deliveries>>
    BY <1>3 DEF handleADNLSetQueryHandler
  <2>2. PendingQueryLive' /\ DeliveriesOwned'
    BY <1>0, <2>1 DEF QueriesInv, PendingQueryLive, DeliveriesOwned
  <2>3. peerOwners[p] = c
    BY <1>3 DEF handleADNLSetQueryHandler, clientOwnsPeer, OwnershipInv, OwnershipAgrees
  <2>4. HandlersOwned'
    BY <1>0, <1>3, <2>3, QueryTypes DEF handleADNLSetQueryHandler, QueriesInv, HandlersOwned
  <2> QED BY <1>1, <2>2, <2>4 DEF QueriesInv
<1> QED BY <1>2, <1>3

\* A request or a session step finds the lock free if it takes it, and
\* starts at one of these stages.
LEMMA TakesFreeLock ==
    ASSUME NEW c \in Clients, Request(c) \/ Session(c)
    PROVE  \/ mu' = mu
           \/ /\ mu = Free
              /\ mu'.pc \in {"pingExisting", "register", "detOverlays", "joinTrack",
                             "leaveTrack", "cleanLoop"}
<1> USE DEF registry, tables, session, inflight
<1>1. ASSUME NEW p \in PeerIds, NEW n, lockAndLook(c, p, n)
      PROVE  mu = Free /\ mu'.pc \in {"pingExisting", "register"}
  BY <1>1 DEF lockAndLook, Locked, Free
<1>2. ASSUME NEW p \in PeerIds, handleADNLDisconnect(c, p)
      PROVE  mu = Free /\ mu'.pc = "detOverlays"
  BY <1>2 DEF handleADNLDisconnect, Locked, beginDetach, Free
<1>3. ASSUME NEW o \in Overlays,
             handleOverlayLeave(c, o) \/ \E p \in PeerIds : handleOverlayJoin(c, o, p)
      PROVE  mu = Free /\ mu'.pc \in {"joinTrack", "leaveTrack"}
  BY <1>3 DEF handleOverlayLeave, handleOverlayJoin, Locked, Free
<1>4. ASSUME lockForCleanup(c) PROVE mu = Free /\ mu'.pc = "cleanLoop"
  BY <1>4 DEF lockForCleanup, Free
<1>5. CASE Request(c)
  BY <1>1, <1>2, <1>3, <1>5
     DEF Request, PeerRequest, OverlayRequest, handleADNLConnect, handleADNLConnectByADNL,
         handleADNLSetQueryHandler, handleADNLSendMessage, handleADNLPing, handleADNLQuery,
         usePeer, handleOverlayQuery, handleOverlayGetPeers, handleOverlaySendMessage,
         handleOverlaySendRaw, handleOverlayBroadcast, useOverlay,
         handleOverlaySetQueryHandler, handleADNLAnswer, handleOverlayAnswer, findPending
<1>6. CASE Session(c)
  BY <1>4, <1>6 DEF Session, OpenClient, EndRead, snapshotPeers, cleanupOverlays
<1> QED BY <1>5, <1>6

\* Every step preserves the invariant on inbound queries.
LEMMA NextQueries ==
    OwnershipInv /\ Generations /\ OverlaysInv /\ QueriesInv /\ [Next]_vars => QueriesInv'
<1> SUFFICES ASSUME OwnershipInv, Generations, OverlaysInv, QueriesInv, [Next]_vars
             PROVE  QueriesInv'
  OBVIOUS
<1> USE DEF registry, tables, session, inflight
<1>1. StaysRemoved /\ NoTakeoverStep BY NextStaysRemoved, NextNoTakeover
<1>2. ASSUME UNCHANGED peerQueries, deliveries' \subseteq deliveries,
             \A q \in Queries : pendingQueries'[q] \in {pendingQueries[q], None},
             \A p \in PeerIds : activePeers[p] # None => activePeers'[p] = activePeers[p],
             mu' = mu \/ mu'.pc \notin {"detOwner", "detRemove"}
      PROVE  QueriesInv'
  BY <1>1, <1>2, FrameQueries
<1>3. CASE UNCHANGED vars BY <1>2, <1>3 DEF vars
<1>4. CASE Gateway
  <2>1. ASSUME NEW k \in Conns, InboundConnection(k) PROVE QueriesInv'
    <3>1. UNCHANGED peerQueries
      BY <2>1 DEF InboundConnection, connectionHandler, installPeer
    <3> QED BY <1>2, <2>1, <3>1, HandlerOwnership DEF InboundConnection
  <2>2. ASSUME NEW k \in Conns, peerDisconnectHandler(k) PROVE QueriesInv'
    <3>1. mu' = mu \/ mu'.pc = "detOverlays"
      BY <2>2 DEF peerDisconnectHandler, beginDetach, Free
    <3> QED BY <1>2, <2>2, <3>1 DEF peerDisconnectHandler
  <2>3. ASSUME NEW k \in Conns, NEW q \in Queries, peerQueryHandler(k, q) PROVE QueriesInv'
    <3>1. ConnId[k] \in PeerIds BY RegistryTypes
    <3>2. /\ peerQueries[ConnId[k]] # None /\ deliver(peerQueries[ConnId[k]], q)
          /\ activePeers[ConnId[k]] = k
      BY <2>3 DEF peerQueryHandler, deliver
    <3>3. peerQueries[ConnId[k]] \in Handlers BY <3>1, <3>2, QueryTypes
    <3>4. peerQueries[ConnId[k]].conn = k /\ peerOwners[ConnId[k]] = peerQueries[ConnId[k]].client
      BY <3>1, <3>2 DEF QueriesInv, HandlersOwned
    <3> QED BY <1>1, <3>2, <3>3, <3>4, DeliverQueries
  <2> QED BY <1>2, <1>4, <2>1, <2>2, <2>3 DEF Gateway, AcceptInbound, RemoteClose
<1>5. CASE LockHolder
  <2>1. CASE detachPending \/ detachOwner \/ detachRemove BY <1>1, <2>1, DetachQueries
  <2>2. CASE detachOverlays
    <3>1. mu'.pc = "detPending" BY <2>2, RegistryTypes DEF detachOverlays, Holder
    <3> QED BY <1>2, <2>2, <3>1 DEF detachOverlays
  <2>3. CASE joinTrack \/ leaveTrack
    BY <1>2, <2>3 DEF joinTrack, leaveTrack, Release, Free
  <2>4. CASE OutboundConnection
    <3>1. mu.conn \in Conns
      BY <2>4, HolderStage DEF OutboundConnection, ConnStages, PeerStages, Stages
    <3>2. UNCHANGED peerQueries
      BY <2>4 DEF OutboundConnection, connectionHandler, installPeer
    <3> QED BY <1>2, <2>4, <3>1, <3>2, HandlerOwnership, HolderMoves
            DEF OutboundConnection, TrackStages
  <2>5. CASE pingExisting \/ pingCandidate
    <3>1. activePeers' = activePeers
      BY <2>5, ClaimKeepsConnection DEF pingExisting, pingCandidate
    <3>2. UNCHANGED peerQueries BY <2>5 DEF pingExisting, pingCandidate, installPeer
    <3> QED BY <1>2, <2>5, <3>1, <3>2, HolderMoves DEF pingExisting, pingCandidate, TrackStages
  <2>6. CASE closePeer \/ RegisterClient \/ cleanupPeer \/ cleanupPeersDone
    BY <1>2, <2>6, HolderMoves
       DEF closePeer, RegisterClient, cleanupPeer, cleanupPeersDone, TrackStages
  <2> QED BY <1>5, <2>1, <2>2, <2>3, <2>4, <2>5, <2>6 DEF LockHolder
<1>6. CASE RequestProgress \/ Inbound \/ sweepPending \/ Tick
  <2>1. ASSUME NEW o \in Overlays, NEW q \in Queries, OverlayQueryArrives(o, q)
        PROVE  QueriesInv'
    <3> DEFINE w == activeOverlays[o]
    <3>1. w # None /\ w.handler # None /\ deliver(w.handler, q)
      BY <2>1 DEF OverlayQueryArrives, deliver
    <3>2. w.handler \in Handlers BY <3>1, OverlayTypes DEF Wrappers
    <3>3. w.handler.conn = w.conn /\ w.handler.client = w.client
      <4>1. w.handler = [conn |-> w.conn, client |-> w.client]
        BY <3>1 DEF OverlaysInv, OverlayAttached
      <4> QED BY <4>1
    <3>4. ConnId[w.conn] = overlayToPeer[o]
      BY <3>1, AttachedPeer, RegistryTypes DEF OverlaysInv, OwnershipInv, TypeInv, KeyedById
    <3>5. activePeers[ConnId[w.conn]] = w.conn /\ peerOwners[ConnId[w.conn]] = w.client
      BY <3>1, <3>4, AttachedPeer DEF OverlaysInv
    <3> HIDE DEF w
    <3> QED BY <1>1, <3>1, <3>2, <3>3, <3>5, DeliverQueries
  <2>2. ASSUME NEW a \in answers, forgetAnswered(a) PROVE QueriesInv'
    <3>1. \A q \in Queries : pendingQueries'[q] \in {pendingQueries[q], None}
      BY <2>2, QueryTypes DEF forgetAnswered
    <3> QED BY <1>2, <2>2, <3>1 DEF forgetAnswered
  <2>3. CASE sweepPending BY <1>2, <2>3 DEF sweepPending
  <2> QED BY <1>2, <1>6, <2>1, <2>2, <2>3, RecordQueries
          DEF RequestProgress, Inbound, Tick, checkPeerUse, finishPeerUse, checkOverlayUse,
              finishOverlayUse, checkAnswer, sendAnswer
<1>7. ASSUME NEW c \in Clients, Request(c) \/ Session(c) PROVE QueriesInv'
  <2>1. mu' = mu \/ mu'.pc \notin {"detOwner", "detRemove"} BY <1>7, TakesFreeLock
  <2>2. ASSUME NEW p \in PeerIds, handleADNLSetQueryHandler(c, p) PROVE QueriesInv'
    BY <2>2, RecordQueries
  <2>3. ASSUME NEW q \in Queries, findPending(c, q) PROVE QueriesInv'
    <3>1. \A r \in Queries : pendingQueries'[r] \in {pendingQueries[r], None}
      BY <2>3, QueryTypes DEF findPending
    <3> QED BY <1>2, <2>3, <3>1 DEF findPending
  <2>4. CASE Request(c)
    BY <1>2, <2>1, <2>2, <2>3, <2>4
       DEF Request, PeerRequest, OverlayRequest, handleADNLConnect, handleADNLConnectByADNL,
           lockAndLook, handleADNLDisconnect, handleADNLSendMessage, handleADNLPing,
           handleADNLQuery, usePeer, handleOverlayLeave, handleOverlayJoin, handleOverlayQuery,
           handleOverlayGetPeers, handleOverlaySendMessage, handleOverlaySendRaw,
           handleOverlayBroadcast, useOverlay, handleOverlaySetQueryHandler, handleADNLAnswer,
           handleOverlayAnswer
  <2>5. CASE Session(c)
    BY <1>2, <2>1, <2>5
       DEF Session, OpenClient, EndRead, snapshotPeers, lockForCleanup, cleanupOverlays
  <2> QED BY <1>7, <2>4, <2>5
<1> QED BY <1>3, <1>4, <1>5, <1>6, <1>7 DEF Next

\* The invariant of this module and of the ones before it.
AttachmentInv == OwnershipInv /\ Generations /\ OverlaysInv /\ QueriesInv

\* AttachmentInv holds initially and in every step.
LEMMA AttachmentInduction ==
    /\ Init => AttachmentInv
    /\ AttachmentInv /\ [Next]_vars => AttachmentInv'
<1>1. Init => QueriesInv
  BY DEF Init, QueriesInv, PendingQueryLive, HandlersOwned, DeliveriesOwned, DetachedForgotten, Free
<1> QED BY <1>1, InitOwnership, InitGenerations, InitOverlays, NextOwnership, NextGenerations,
           NextOverlays, NextQueries DEF AttachmentInv

\* A recorded query waits on the installed connection and for that peer's
\* owner in every behaviour: recording races with detaches and never leaves
\* an entry for a dead generation behind.
THEOREM PendingQueriesLive == Spec => []PendingQueryLive
<1>1. AttachmentInv => PendingQueryLive BY DEF AttachmentInv, QueriesInv
<1> QED BY <1>1, AttachmentInduction, PTL DEF Spec

\* Once the peers of a departed client are cleaned up nothing refers to the
\* client: no list, no owner entry, no overlay and no waiting query.
THEOREM ClientLeavesNothing == Spec => []GoneLeavesNothing
<1>1. AttachmentInv => GoneLeavesNothing
  <2> SUFFICES ASSUME AttachmentInv, NEW c \in Clients, phase[c] \in {"cleanOverlays", "gone"}
               PROVE  /\ clientOverlays[c] = {} /\ clientPeers[c] = {}
                      /\ \A p \in PeerIds : peerOwners[p] # c
                      /\ \A o \in Overlays : activeOverlays[o] # None => activeOverlays[o].client # c
                      /\ \A q \in Queries : pendingQueries[q] # None => pendingQueries[q].owner # c
    BY DEF GoneLeavesNothing
  <2>0. OwnershipInv /\ OverlaysInv /\ QueriesInv BY DEF AttachmentInv
  <2>1. clientPeers[c] = {} /\ \A p \in PeerIds : peerOwners[p] # c
    BY <2>0 DEF OwnershipInv, ClosedOwnsNothing
  <2>2. \A o \in Overlays : activeOverlays[o] # None => activeOverlays[o].client # c
    BY <2>0, <2>1, AttachedPeer DEF OverlaysInv
  <2>3. \A q \in Queries : pendingQueries[q] # None => pendingQueries[q].owner # c
    <3> SUFFICES ASSUME NEW q \in Queries, pendingQueries[q] # None
                 PROVE  pendingQueries[q].owner # c
      OBVIOUS
    <3>1. pendingQueries[q].conn \in Conns BY <2>0, QueryTypes DEF PendingQuery
    <3> QED BY <2>0, <2>1, <3>1, RegistryTypes DEF QueriesInv, PendingQueryLive
  <2>4. ASSUME NEW o \in clientOverlays[c] PROVE FALSE
    <3>1. o \in Overlays BY <2>0, OverlayTypes
    <3>2. o \in mu.left /\ mu.pc \in {"leaveTrack", "detPending", "detOwner"}
      BY <2>0, <2>2, <3>1 DEF OverlaysInv, OverlayAttached
    <3>3. CASE mu.pc = "leaveTrack"
      <4>1. c = mu.client /\ mu.op = "leave" BY <2>0, <3>2, <3>3 DEF OverlaysInv, HolderOverlays
      <4> QED BY <2>0, <4>1 DEF OwnershipInv, HolderClient, RequestOps
    <3>4. CASE mu.pc \in {"detPending", "detOwner"}
      <4>1. c = mu.owner BY <2>0, <3>2, <3>4 DEF OverlaysInv, HolderOverlays
      <4>2. mu.peer \in PeerIds /\ mu.owner = peerOwners[mu.peer]
        BY <2>0, <3>4, HolderDetaches DEF DetachStages
      <4> QED BY <2>1, <4>1, <4>2
    <3> QED BY <3>2, <3>3, <3>4
  <2>5. clientOverlays[c] = {} BY <2>4
  <2> QED BY <2>1, <2>2, <2>3, <2>5
<1> QED BY <1>1, AttachmentInduction, PTL DEF Spec

-----------------------------------------------------------------------------
(* Limits.  A connect and a join compare with the limit first and extend    *)
(* the list stages later; in between nobody else extends that list.        *)

\* What the check at the start of a connect or of a join still guarantees.
HolderLimits ==
    /\ mu.op = "connect" =>
         \/ mu.pc = "pingExisting" /\ peerOwners[mu.peer] = mu.client
         \/ belowPeerLimit(mu.client)
    /\ mu.pc = "joinTrack" =>
         /\ \E o \in Overlays : mu.left = {o}
         /\ Cardinality(clientOverlays[mu.client]) < MaxOverlays

ListsFinite ==
    \A c \in Clients : IsFiniteSet(clientPeers[c]) /\ IsFiniteSet(clientOverlays[c])

LimitsInv == WithinLimits /\ ListsFinite /\ HolderLimits

\* Whoever holds the lock keeps it for the same client or gives it back.
LEMMA HolderKeeps ==
    ASSUME OwnershipInv, LockHolder
    PROVE  \/ mu' = Free
           \/ /\ mu'.op = mu.op /\ mu'.client = mu.client /\ mu.pc # "pingExisting"
              /\ mu'.pc \notin {"joinTrack", "pingExisting"}
<1>0. mu \in Holder BY RegistryTypes
<1>1. ASSUME mu' = nextEndpoint, mu.pc # "pingExisting"
      PROVE  mu' = Free \/ (mu'.op = mu.op /\ mu'.client = mu.client /\ mu'.pc = "register")
  BY <1>0, <1>1 DEF nextEndpoint, Holder
<1>2. ASSUME NEW h \in Holder, h.op = mu.op, h.client = mu.client, NEW p, NEW k,
             beginDetach(h, p, k)
      PROVE  mu'.op = mu.op /\ mu'.client = mu.client /\ mu'.pc = "detOverlays"
  BY <1>2 DEF beginDetach, Holder
<1>3. CASE detachOverlays \/ detachPending \/ detachOwner
  BY <1>0, <1>3 DEF detachOverlays, detachPending, detachOwner, Holder
<1>4. CASE detachRemove
  <2>1. CASE mu.op = "callback" BY <1>4, <2>1 DEF detachRemove, Release
  <2>2. CASE mu.op # "callback" BY <1>0, <1>4, <2>2 DEF detachRemove, Holder
  <2> QED BY <2>1, <2>2
<1>5. CASE closePeer
  <2>1. CASE mu.op = "cleanup"
    <3>1. mu' = [mu EXCEPT !.pc = "cleanLoop", !.conn = None, !.peer = None]
      BY <1>5, <2>1 DEF closePeer
    <3> QED BY <1>0, <1>5, <3>1 DEF closePeer, Holder
  <2>2. CASE mu.op = "connect" BY <1>1, <1>5, <2>2 DEF closePeer
  <2>3. CASE mu.op \notin {"connect", "cleanup"} BY <1>5, <2>3 DEF closePeer
  <2> QED BY <2>1, <2>2, <2>3
<1>6. CASE pingExisting \/ joinTrack \/ leaveTrack \/ cleanupPeersDone
  BY <1>6 DEF pingExisting, joinTrack, leaveTrack, cleanupPeersDone, Release
<1>7. CASE RegisterClient
  <2>1. ASSUME NEW k, NEW s \in {"ping", "handler"}, mu' = [mu EXCEPT !.pc = s, !.conn = k]
        PROVE  mu'.op = mu.op /\ mu'.client = mu.client /\ mu'.pc = s
    BY <1>0, <2>1 DEF Holder
  <2> QED BY <1>1, <1>7, <2>1 DEF RegisterClient
<1>8. CASE OutboundConnection
  BY <1>0, <1>1, <1>8 DEF OutboundConnection, Holder
<1>9. CASE pingCandidate
  <2>1. ASSUME NEW h \in Holder, h.op = mu.op, h.client = mu.client, abandonCandidate(h)
        PROVE  mu'.op = mu.op /\ mu'.client = mu.client /\ mu'.pc \in {"detOverlays", "close"}
    BY <1>2, <2>1 DEF abandonCandidate, Holder
  <2>2. /\ [mu EXCEPT !.tries = 1] \in Holder
        /\ [mu EXCEPT !.tries = 1].op = mu.op
        /\ [mu EXCEPT !.tries = 1].client = mu.client
    BY <1>0 DEF Holder
  <2> QED BY <1>0, <1>9, <2>1, <2>2 DEF pingCandidate, Release
<1>10. CASE cleanupPeer
  <2>1. PICK p \in mu.todo :
          IF activePeers[p] # None
            THEN beginDetach([mu EXCEPT !.todo = @ \ {p}], p, activePeers[p])
            ELSE mu' = [mu EXCEPT !.todo = @ \ {p}]
    BY <1>10 DEF cleanupPeer
  <2>2. /\ [mu EXCEPT !.todo = @ \ {p}] \in Holder
        /\ [mu EXCEPT !.todo = @ \ {p}].op = mu.op
        /\ [mu EXCEPT !.todo = @ \ {p}].client = mu.client
        /\ [mu EXCEPT !.todo = @ \ {p}].pc = mu.pc
    BY <1>0 DEF Holder
  <2>3. mu.pc = "cleanLoop" BY <1>10 DEF cleanupPeer
  <2> QED BY <1>2, <2>1, <2>2, <2>3
<1> QED BY <1>3, <1>4, <1>5, <1>6, <1>7, <1>8, <1>9, <1>10, LockHolder DEF LockHolder

\* The list that a holder will extend belongs to a client.
LEMMA HolderIsClient ==
    ASSUME OwnershipInv, OverlaysInv, mu.op = "connect" \/ mu.pc = "joinTrack"
    PROVE  mu.client \in Clients
BY DEF OwnershipInv, HolderClient, OverlaysInv, HolderOverlays, RequestOps

\* Steps that do not extend a list preserve the limits.
LEMMA ShrinkLimits ==
    ASSUME OwnershipInv, OverlaysInv, LimitsInv,
           \A c \in Clients : /\ clientPeers'[c] \subseteq clientPeers[c]
                              /\ clientOverlays'[c] \subseteq clientOverlays[c],
           \/ /\ mu' = mu
              /\ mu.pc = "pingExisting" /\ peerOwners[mu.peer] = mu.client
                   => peerOwners'[mu.peer] = mu.client
           \/ mu' = Free
           \/ /\ mu'.op = mu.op /\ mu'.client = mu.client /\ mu.pc # "pingExisting"
              /\ mu'.pc \notin {"joinTrack", "pingExisting"}
    PROVE  LimitsInv'
<1>1. ASSUME NEW c \in Clients
      PROVE  /\ IsFiniteSet(clientPeers'[c]) /\ IsFiniteSet(clientOverlays'[c])
             /\ Cardinality(clientPeers'[c]) <= Cardinality(clientPeers[c])
             /\ Cardinality(clientOverlays'[c]) <= Cardinality(clientOverlays[c])
             /\ Cardinality(clientPeers'[c]) \in Nat /\ Cardinality(clientPeers[c]) \in Nat
             /\ Cardinality(clientOverlays'[c]) \in Nat /\ Cardinality(clientOverlays[c]) \in Nat
  <2>1. IsFiniteSet(clientPeers[c]) /\ IsFiniteSet(clientOverlays[c])
    BY DEF LimitsInv, ListsFinite
  <2>2. /\ IsFiniteSet(clientPeers'[c]) /\ IsFiniteSet(clientOverlays'[c])
        /\ Cardinality(clientPeers'[c]) <= Cardinality(clientPeers[c])
        /\ Cardinality(clientOverlays'[c]) <= Cardinality(clientOverlays[c])
    BY <2>1, FS_Subset
  <2> QED BY <2>1, <2>2, FS_CardinalityType
<1>2. WithinLimits' /\ ListsFinite'
  BY <1>1, RegistryAssumption DEF LimitsInv, WithinLimits, ListsFinite
<1>3. HolderLimits'
  <2>1. CASE mu' = mu /\ (mu.pc = "pingExisting" /\ peerOwners[mu.peer] = mu.client
                            => peerOwners'[mu.peer] = mu.client)
    BY <1>1, <2>1, HolderIsClient, RegistryAssumption DEF LimitsInv, HolderLimits, belowPeerLimit
  <2>2. CASE mu' = Free BY <2>2 DEF HolderLimits, Free
  <2>3. CASE /\ mu'.op = mu.op /\ mu'.client = mu.client /\ mu.pc # "pingExisting"
             /\ mu'.pc \notin {"joinTrack", "pingExisting"}
    BY <1>1, <2>3, HolderIsClient, RegistryAssumption DEF LimitsInv, HolderLimits, belowPeerLimit
  <2> QED BY <2>1, <2>2, <2>3
<1> QED BY <1>2, <1>3 DEF LimitsInv

\* Adding one element to a list that is below its limit.
LEMMA AddBelowLimit ==
    ASSUME NEW S, IsFiniteSet(S), NEW x, NEW n \in Nat, Cardinality(S) < n
    PROVE  IsFiniteSet(S \cup {x}) /\ Cardinality(S \cup {x}) <= n
<1>1. Cardinality(S) \in Nat BY FS_CardinalityType
<1>2. /\ IsFiniteSet(S \cup {x})
      /\ Cardinality(S \cup {x}) = IF x \in S THEN Cardinality(S) ELSE Cardinality(S) + 1
  BY FS_AddElement
<1> QED BY <1>1, <1>2

\* A claim and the end of a join extend a list that the check at the start
\* found short enough.
LEMMA ExtendLimits ==
    ASSUME OwnershipInv, OverlaysInv, LimitsInv, mu' = Free,
           \/ /\ mu.op = "connect"
              /\ mu.pc = "pingExisting" => peerOwners[mu.peer] = None
              /\ addClientPeer(mu.client, mu.peer) /\ UNCHANGED clientOverlays
           \/ joinTrack
    PROVE  LimitsInv'
<1> USE DEF registry, tables, session, inflight
<1>0. HolderLimits' BY DEF HolderLimits, Free
<1>1. mu.client \in Clients BY HolderIsClient DEF joinTrack
<1>2. /\ clientPeers \in [Clients -> SUBSET PeerIds]
      /\ clientOverlays \in [Clients -> SUBSET Overlays]
      /\ MaxPeers \in Nat /\ MaxOverlays \in Nat
  BY RegistryAssumption DEF OwnershipInv, TypeInv, TypeOK
<1>3. CASE /\ mu.op = "connect"
           /\ mu.pc = "pingExisting" => peerOwners[mu.peer] = None
           /\ addClientPeer(mu.client, mu.peer) /\ UNCHANGED clientOverlays
  <2>1. Cardinality(clientPeers[mu.client]) < MaxPeers
    BY <1>1, <1>3, RegistryTypes DEF LimitsInv, HolderLimits, belowPeerLimit
  <2>2. IsFiniteSet(clientPeers[mu.client]) BY <1>1 DEF LimitsInv, ListsFinite
  <2>3. /\ IsFiniteSet(clientPeers[mu.client] \cup {mu.peer})
        /\ Cardinality(clientPeers[mu.client] \cup {mu.peer}) <= MaxPeers
    BY <1>2, <2>1, <2>2, AddBelowLimit
  <2>4. /\ clientPeers'[mu.client] = clientPeers[mu.client] \cup {mu.peer}
        /\ \A c \in Clients : c # mu.client => clientPeers'[c] = clientPeers[c]
    BY <1>1, <1>2, <1>3 DEF addClientPeer
  <2>5. WithinLimits' /\ ListsFinite'
    BY <1>3, <2>3, <2>4 DEF LimitsInv, WithinLimits, ListsFinite
  <2> QED BY <1>0, <2>5 DEF LimitsInv
<1>4. CASE joinTrack
  <2>1. PICK o \in Overlays : mu.left = {o}
    BY <1>4 DEF joinTrack, LimitsInv, HolderLimits
  <2>2. /\ Cardinality(clientOverlays[mu.client]) < MaxOverlays
        /\ IsFiniteSet(clientOverlays[mu.client])
    BY <1>1, <1>4 DEF joinTrack, LimitsInv, HolderLimits, ListsFinite
  <2>3. /\ IsFiniteSet(clientOverlays[mu.client] \cup {o})
        /\ Cardinality(clientOverlays[mu.client] \cup {o}) <= MaxOverlays
    BY <1>2, <2>2, AddBelowLimit
  <2>4. /\ clientOverlays'[mu.client] = clientOverlays[mu.client] \cup {o}
        /\ \A c \in Clients : c # mu.client => clientOverlays'[c] = clientOverlays[c]
        /\ UNCHANGED clientPeers
    BY <1>1, <1>2, <1>4, <2>1 DEF joinTrack
  <2>5. WithinLimits' /\ ListsFinite'
    BY <2>3, <2>4 DEF LimitsInv, WithinLimits, ListsFinite
  <2> QED BY <1>0, <2>5 DEF LimitsInv
<1> QED BY <1>3, <1>4

\* Every step keeps every list within its limit.
LEMMA NextLimits ==
    OwnershipInv /\ Generations /\ OverlaysInv /\ LimitsInv /\ [Next]_vars => LimitsInv'
<1> SUFFICES ASSUME OwnershipInv, Generations, OverlaysInv, LimitsInv, [Next]_vars
             PROVE  LimitsInv'
  OBVIOUS
<1> USE DEF registry, tables, session, inflight
<1>0. NoTakeoverStep BY NextNoTakeover
<1>1. ASSUME \A c \in Clients : /\ clientPeers'[c] \subseteq clientPeers[c]
                                /\ clientOverlays'[c] \subseteq clientOverlays[c],
             \A p \in PeerIds : activePeers[p] # None => activePeers'[p] = activePeers[p],
             mu' = mu
      PROVE  LimitsInv'
  <2>1. ASSUME mu.pc = "pingExisting", peerOwners[mu.peer] = mu.client
        PROVE  peerOwners'[mu.peer] = mu.client
    <3>1. mu.peer \in PeerIds /\ mu.conn \in Conns /\ activePeers[mu.peer] = mu.conn
      BY <2>1, HolderStage DEF ConnStages, PeerStages, Stages, DetachStages, Generations, HolderConn
    <3>2. mu.client \in Clients
      BY <2>1 DEF OwnershipInv, HolderClient, ConnectStages, RequestOps
    <3> QED BY <1>0, <1>1, <2>1, <3>1, <3>2, RegistryTypes DEF NoTakeoverStep
  <2> QED BY <1>1, <2>1, ShrinkLimits
<1>2. ASSUME UNCHANGED <<clientPeers, clientOverlays, activePeers, mu>> PROVE LimitsInv'
  BY <1>1, <1>2
<1>3. CASE UNCHANGED vars BY <1>2, <1>3 DEF vars
<1>4. CASE Gateway
  <2>1. ASSUME NEW k \in Conns, InboundConnection(k) PROVE LimitsInv'
    BY <1>1, <2>1, HandlerOwnership DEF InboundConnection
  <2>2. ASSUME NEW k \in Conns, peerDisconnectHandler(k) PROVE LimitsInv'
    <3>1. CASE mu' = mu BY <1>2, <2>2, <3>1 DEF peerDisconnectHandler
    <3>2. CASE beginDetach([Free EXCEPT !.op = "callback"], ConnId[k], k)
      <4>1. mu'.op = "callback" /\ mu'.pc = "detOverlays" BY <3>2 DEF beginDetach, Free
      <4>2. HolderLimits' BY <4>1 DEF HolderLimits
      <4> QED BY <2>2, <4>2 DEF peerDisconnectHandler, LimitsInv, WithinLimits, ListsFinite
    <3> QED BY <2>2, <3>1, <3>2 DEF peerDisconnectHandler
  <2> QED BY <1>2, <1>4, <2>1, <2>2
          DEF Gateway, AcceptInbound, RemoteClose, peerQueryHandler, deliver
<1>5. CASE LockHolder
  <2>1. ASSUME \A c \in Clients : /\ clientPeers'[c] \subseteq clientPeers[c]
                                  /\ clientOverlays'[c] \subseteq clientOverlays[c]
        PROVE  LimitsInv'
    BY <1>5, <2>1, HolderKeeps, ShrinkLimits
  <2>2. CASE pingExisting
    <3>1. mu.op = "connect" /\ mu' = Free
      BY <2>2 DEF pingExisting, Release, OwnershipInv, HolderClient, ConnectStages
    <3> QED BY <2>1, <2>2, <3>1, ExtendLimits DEF pingExisting
  <2>3. CASE pingCandidate
    <3>1. mu.op = "connect" /\ mu.pc = "ping"
      BY <2>3 DEF pingCandidate, OwnershipInv, HolderClient, ConnectStages
    <3> QED BY <2>1, <2>3, <3>1, ExtendLimits DEF pingCandidate, Release
  <2>4. CASE joinTrack BY <2>4, ExtendLimits DEF joinTrack, Release
  <2>5. CASE detachOwner BY <2>1, <2>5 DEF detachOwner
  <2>6. CASE leaveTrack
    <3>1. \A c \in Clients : clientOverlays'[c] \subseteq clientOverlays[c]
      BY <2>6, OverlayTypes DEF leaveTrack
    <3> QED BY <2>1, <2>6, <3>1 DEF leaveTrack
  <2> QED BY <1>5, <2>1, <2>2, <2>3, <2>4, <2>5, <2>6
          DEF LockHolder, detachOverlays, detachPending, detachRemove, closePeer, RegisterClient,
              OutboundConnection, cleanupPeer, cleanupPeersDone
<1>6. CASE RequestProgress \/ Inbound \/ sweepPending \/ Tick
  BY <1>2, <1>6
     DEF RequestProgress, Inbound, sweepPending, Tick, checkPeerUse, finishPeerUse,
         checkOverlayUse, finishOverlayUse, checkAnswer, sendAnswer, forgetAnswered,
         OverlayQueryArrives, deliver, recordQuery
<1>7. ASSUME UNCHANGED <<clientPeers, clientOverlays>>, HolderLimits' PROVE LimitsInv'
  BY <1>7 DEF LimitsInv, WithinLimits, ListsFinite
<1>8. ASSUME NEW c \in Clients, Request(c) PROVE LimitsInv'
  <2>1. ASSUME NEW p \in PeerIds, NEW n \in Nat, lockAndLook(c, p, n) PROVE LimitsInv'
    <3>1. /\ mu'.op = "connect" /\ mu'.client = c /\ mu'.peer = p
          /\ mu'.pc \in {"pingExisting", "register"}
          /\ mu'.pc = "register" => belowPeerLimit(c)
          /\ peerOwners[p] = c \/ belowPeerLimit(c)
      BY <2>1 DEF lockAndLook, Free
    <3>2. HolderLimits'
      BY <2>1, <3>1 DEF lockAndLook, HolderLimits, belowPeerLimit
    <3> QED BY <1>7, <2>1, <3>2 DEF lockAndLook
  <2>2. ASSUME NEW p \in PeerIds, handleADNLDisconnect(c, p) PROVE LimitsInv'
    <3>1. mu'.op = "disconnect" /\ mu'.pc = "detOverlays"
      BY <2>2 DEF handleADNLDisconnect, beginDetach, Free
    <3>2. HolderLimits' BY <3>1 DEF HolderLimits
    <3> QED BY <1>7, <2>2, <3>2 DEF handleADNLDisconnect
  <2>3. ASSUME NEW p \in PeerIds, PeerRequest(c, p) PROVE LimitsInv'
    BY <1>2, <2>1, <2>2, <2>3, RegistryAssumption
       DEF PeerRequest, handleADNLConnect, handleADNLConnectByADNL, handleADNLSetQueryHandler,
           handleADNLSendMessage, handleADNLPing, handleADNLQuery, usePeer
  <2>4. ASSUME NEW o \in Overlays, NEW p \in PeerIds, handleOverlayJoin(c, o, p)
        PROVE  LimitsInv'
    <3>1. mu'.op = "join" /\ mu'.client = c /\ mu'.left = {o}
      BY <2>4 DEF handleOverlayJoin, Free
    <3>2. HolderLimits' BY <2>4, <3>1 DEF handleOverlayJoin, HolderLimits
    <3> QED BY <1>7, <2>4, <3>2 DEF handleOverlayJoin
  <2>5. ASSUME NEW o \in Overlays, handleOverlayLeave(c, o) PROVE LimitsInv'
    <3>1. mu'.op = "leave" /\ mu'.pc = "leaveTrack"
      BY <2>5 DEF handleOverlayLeave, Free
    <3>2. HolderLimits' BY <3>1 DEF HolderLimits
    <3> QED BY <1>7, <2>5, <3>2 DEF handleOverlayLeave
  <2>6. ASSUME NEW o \in Overlays, OverlayRequest(c, o) PROVE LimitsInv'
    BY <1>2, <2>4, <2>5, <2>6
       DEF OverlayRequest, handleOverlayQuery, handleOverlayGetPeers, handleOverlaySendMessage,
           handleOverlaySendRaw, handleOverlayBroadcast, useOverlay, handleOverlaySetQueryHandler
  <2> QED BY <1>2, <1>8, <2>3, <2>6 DEF Request, handleADNLAnswer, handleOverlayAnswer, findPending
<1>9. ASSUME NEW c \in Clients, Session(c) PROVE LimitsInv'
  <2>1. CASE snapshotPeers(c)
    <3>1. \A d \in Clients : clientPeers'[d] \subseteq clientPeers[d]
      BY <2>1 DEF snapshotPeers, OwnershipInv, TypeInv, TypeOK
    <3> QED BY <1>1, <2>1, <3>1 DEF snapshotPeers
  <2>2. CASE cleanupOverlays(c)
    <3>1. \A d \in Clients : clientOverlays'[d] \subseteq clientOverlays[d]
      BY <2>2, OverlayTypes DEF cleanupOverlays
    <3> QED BY <1>1, <2>2, <3>1 DEF cleanupOverlays
  <2>3. CASE lockForCleanup(c)
    <3>1. mu'.op = "cleanup" /\ mu'.pc = "cleanLoop" BY <2>3 DEF lockForCleanup, Free
    <3>2. HolderLimits' BY <3>1 DEF HolderLimits
    <3> QED BY <1>7, <2>3, <3>2 DEF lockForCleanup
  <2> QED BY <1>2, <1>9, <2>1, <2>2, <2>3 DEF Session, OpenClient, EndRead
<1> QED BY <1>3, <1>4, <1>5, <1>6, <1>8, <1>9 DEF Next

\* max_peers and max_overlays hold in every behaviour, although a connect
\* checks the limit long before it extends the list.
THEOREM LimitsHold == Spec => []WithinLimits
<1>1. Init => OwnershipInv /\ Generations /\ OverlaysInv /\ LimitsInv
  <2>1. Init => WithinLimits /\ ListsFinite
    BY FS_EmptySet, RegistryAssumption DEF Init, WithinLimits, ListsFinite
  <2>2. Init => HolderLimits BY DEF Init, HolderLimits, Free
  <2> QED BY <2>1, <2>2, InitOwnership, InitGenerations, InitOverlays DEF LimitsInv
<1>2. OwnershipInv /\ Generations /\ OverlaysInv /\ LimitsInv /\ [Next]_vars
        => OwnershipInv' /\ Generations' /\ OverlaysInv' /\ LimitsInv'
  BY NextOwnership, NextGenerations, NextOverlays, NextLimits
<1>3. LimitsInv => WithinLimits BY DEF LimitsInv
<1> QED BY <1>1, <1>2, <1>3, PTL DEF Spec

-----------------------------------------------------------------------------
(* Queries are not lost *)

\* What one step may do to a query that waits for an answer.
PendingKeptStep ==
    \A q \in Queries :
      LET e == pendingQueries[q]
      IN  e # None /\ pendingQueries'[q] # e =>
            \/ pendingQueries'[q] # None
            \/ now > e.deadline
            \/ mu.pc = "detPending" /\ mu.conn = e.conn
            \/ \E a \in answers : a.query = q /\ a.stage = "sent" /\ a.entry = e

\* No step drops a waiting query without a reason that concerns that query.
LEMMA NextPendingKept == TypeInv /\ [Next]_vars => PendingKeptStep
<1> SUFFICES ASSUME TypeInv, [Next]_vars PROVE PendingKeptStep
  OBVIOUS
<1> USE DEF registry, tables, session, inflight
<1>0. pendingQueries \in [Queries -> PendingQuery \cup {None}] BY DEF TypeInv, TypeOK
<1>1. ASSUME UNCHANGED pendingQueries PROVE PendingKeptStep
  BY <1>1 DEF PendingKeptStep
<1>2. CASE detachPending
  BY <1>2 DEF detachPending, PendingKeptStep
<1>3. ASSUME NEW d \in deliveries, recordQuery(d) PROVE PendingKeptStep
  <2>1. d \in Delivery /\ now + QueryTTL \in Nat
    BY RegistryAssumption DEF TypeInv, TypeOK
  <2> DEFINE e == [conn |-> d.conn, owner |-> d.client, deadline |-> now + QueryTTL]
  <2>2. e \in PendingQuery BY <2>1 DEF Delivery, PendingQuery
  <2>3. e # None BY <2>2, NilAssumption
  <2>4. pendingQueries' \in {pendingQueries, [pendingQueries EXCEPT ![d.query] = e]}
    BY <1>3 DEF recordQuery
  <2> HIDE DEF e
  <2> QED BY <1>0, <2>3, <2>4 DEF PendingKeptStep
<1>4. ASSUME NEW c \in Clients, NEW q \in Queries, findPending(c, q) PROVE PendingKeptStep
  BY <1>0, <1>4 DEF findPending, expired, PendingKeptStep
<1>5. ASSUME NEW a \in answers, forgetAnswered(a) PROVE PendingKeptStep
  BY <1>0, <1>5 DEF forgetAnswered, PendingKeptStep
<1>6. CASE sweepPending BY <1>6 DEF sweepPending, expired, PendingKeptStep
<1>7. CASE UNCHANGED vars \/ Gateway
  BY <1>1, <1>7
     DEF vars, Gateway, AcceptInbound, InboundConnection, RemoteClose, peerDisconnectHandler,
         peerQueryHandler, deliver
<1>8. CASE LockHolder
  BY <1>1, <1>2, <1>8
     DEF LockHolder, detachOverlays, detachOwner, detachRemove, closePeer, pingExisting,
         RegisterClient, OutboundConnection, pingCandidate, joinTrack, leaveTrack, cleanupPeer,
         cleanupPeersDone
<1>9. CASE RequestProgress \/ Inbound \/ Tick
  BY <1>1, <1>3, <1>5, <1>9
     DEF RequestProgress, Inbound, Tick, checkPeerUse, finishPeerUse, checkOverlayUse,
         finishOverlayUse, checkAnswer, sendAnswer, OverlayQueryArrives, deliver
<1>10. ASSUME NEW c \in Clients, Request(c) \/ Session(c) PROVE PendingKeptStep
  BY <1>1, <1>4, <1>10
     DEF Request, PeerRequest, OverlayRequest, Session, handleADNLConnect,
         handleADNLConnectByADNL, lockAndLook, handleADNLDisconnect, handleADNLSetQueryHandler,
         handleADNLSendMessage, handleADNLPing, handleADNLQuery, usePeer, handleOverlayLeave,
         handleOverlayQuery, handleOverlayGetPeers, handleOverlaySendMessage,
         handleOverlaySendRaw, handleOverlayBroadcast, useOverlay, handleOverlayJoin,
         handleOverlaySetQueryHandler, handleADNLAnswer, handleOverlayAnswer,
         OpenClient, EndRead, snapshotPeers, lockForCleanup, cleanupOverlays
<1> QED BY <1>6, <1>7, <1>8, <1>9, <1>10 DEF Next

\* A waiting query is forgotten only when that very query was answered,
\* expired or lost its connection, or was replaced by one with the same id.
THEOREM PendingQueriesNotLost == Spec => PendingNotLost
<1>1. Init => TypeInv BY InitType
<1>2. TypeInv /\ [Next]_vars => TypeInv' BY NextType
<1>3. TypeInv /\ [Next]_vars => PendingKeptStep BY NextPendingKept
<1> QED BY <1>1, <1>2, <1>3, PTL DEF Spec, PendingNotLost, PendingKeptStep
=============================================================================
