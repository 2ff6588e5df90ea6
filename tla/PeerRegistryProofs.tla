------------------------- MODULE PeerRegistryProofs -------------------------
(***************************************************************************)
(* Theorems about PeerRegistry, for every value of its constants: any      *)
(* number of clients, peers, connections, overlays, queries and requests.  *)
(*                                                                         *)
(* The first part proves type correctness together with HolderOK, which    *)
(* says what the holder of peerLifecycleMu knows at each of its stages.    *)
(* The second part adds what makes the ownership tables agree.             *)
(***************************************************************************)
EXTENDS PeerRegistry, TLAPS

\* Stages at which the holder of the lock works on one peer id, and stages
\* at which it works on one connection of that peer.
PeerStages == Stages \ {"free", "cleanLoop", "joinTrack", "leaveTrack"}
ConnStages == PeerStages \ {"register"}

\* What the holder of peerLifecycleMu works on.
HolderOK ==
    /\ mu.pc \in PeerStages => mu.peer \in PeerIds
    /\ mu.pc \in ConnStages => mu.conn \in Conns /\ ConnId[mu.conn] = mu.peer

\* activePeers files a connection under its own id.
KeyedById == \A p \in PeerIds : activePeers[p] # None => ConnId[activePeers[p]] = p

TypeInv == TypeOK /\ HolderOK /\ KeyedById

-----------------------------------------------------------------------------
(* Lock records *)

\* The record of a lock nobody holds is well formed.
LEMMA FreeType == Free \in Holder
BY DEF Free, Holder, Stages, Ops, DetachStages

\* A detach may begin for any caller that holds a well-formed lock record.
LEMMA BeginDetachType ==
    ASSUME TypeOK, NEW h \in Holder, NEW p \in PeerIds, NEW k \in Conns, ConnId[k] = p,
           beginDetach(h, p, k)
    PROVE  mu' \in Holder /\ HolderOK'
BY DEF TypeOK, beginDetach, HolderOK, Holder, Stages, DetachStages

\* A connect that goes on to the next endpoint, or gives up, leaves a
\* well-formed lock record.
LEMMA NextEndpointType ==
    ASSUME TypeInv, mu.pc \in PeerStages, mu' = nextEndpoint
    PROVE  mu' \in Holder /\ HolderOK'
<1>1. mu \in Holder BY DEF TypeInv, TypeOK
<1>2. mu.tries \in Nat BY <1>1 DEF Holder
<1>3. CASE mu.tries > 1
  <2>1. mu.tries - 1 \in Nat BY <1>2, <1>3
  <2>2. mu' = [mu EXCEPT !.pc = "register", !.conn = None, !.tries = mu.tries - 1]
    BY <1>1, <1>3 DEF nextEndpoint, Holder
  <2> QED BY <1>1, <2>1, <2>2 DEF TypeInv, HolderOK, PeerStages, ConnStages, Holder,
                                  Stages, DetachStages
<1>4. CASE ~(mu.tries > 1)
  <2>1. mu' = Free BY <1>4 DEF nextEndpoint
  <2> QED BY <2>1, FreeType DEF HolderOK, PeerStages, ConnStages, Free
<1> QED BY <1>3, <1>4

\* Releasing the lock leaves a well-formed record.
LEMMA ReleaseType == Release => mu' \in Holder /\ HolderOK'
BY FreeType DEF Release, HolderOK, PeerStages, ConnStages, Free

\* installPeer keeps the registry well typed and keyed by id.
LEMMA InstallType ==
    ASSUME TypeInv, NEW k \in Conns, NEW c \in Clients \cup {None}, installPeer(k, c)
    PROVE  /\ activePeers' \in [PeerIds -> Conns \cup {None}]
           /\ peerOwners' \in [PeerIds -> Clients \cup {None}]
           /\ peerQueries' \in [PeerIds -> Handlers \cup {None}]
           /\ KeyedById'
BY RegistryAssumption DEF TypeInv, TypeOK, KeyedById, installPeer

\* The initial state is well formed.
LEMMA InitType == Init => TypeInv
BY FreeType DEF Init, TypeInv, TypeOK, Phases, HolderOK, PeerStages, ConnStages,
                KeyedById, Free

-----------------------------------------------------------------------------
(* The steps of the gateway *)

\* The connection handler, inbound or outbound, keeps the types.
LEMMA ConnectionHandlerType ==
    ASSUME TypeInv, NEW k \in Conns, connectionHandler(k)
    PROVE  /\ conn' \in [Conns -> {"absent", "open", "closed"}]
           /\ hook' \in [Conns -> {"none", "installing", "set", "due", "done", "rejected"}]
           /\ activePeers' \in [PeerIds -> Conns \cup {None}]
           /\ peerOwners' \in [PeerIds -> Clients \cup {None}]
           /\ peerQueries' \in [PeerIds -> Handlers \cup {None}]
           /\ KeyedById'
<1>1. CASE installable(k, None)
  <2>1. installPeer(k, None) BY <1>1 DEF connectionHandler
  <2> QED BY <1>1, <2>1, InstallType DEF connectionHandler, TypeInv, TypeOK
<1>2. CASE ~installable(k, None)
  BY <1>2 DEF connectionHandler, TypeInv, TypeOK, KeyedById, registry
<1> QED BY <1>1, <1>2

\* Steps of the ADNL gateway and of the handlers it calls preserve TypeInv.
LEMMA GatewayType == TypeInv /\ Gateway => TypeInv'
<1> SUFFICES ASSUME TypeInv, NEW k \in Conns,
                    \/ AcceptInbound(k) \/ InboundConnection(k) \/ RemoteClose(k)
                    \/ peerDisconnectHandler(k)
                    \/ \E q \in Queries : peerQueryHandler(k, q)
             PROVE  TypeInv'
  BY DEF Gateway
<1> USE DEF registry, tables, session, inflight
<1>1. CASE AcceptInbound(k)
  BY <1>1 DEF AcceptInbound, TypeInv, TypeOK, HolderOK, KeyedById
<1>2. CASE InboundConnection(k)
  <2>1. connectionHandler(k) BY <1>2 DEF InboundConnection
  <2> QED BY <1>2, <2>1, ConnectionHandlerType DEF InboundConnection, TypeInv, TypeOK, HolderOK
<1>3. CASE RemoteClose(k)
  BY <1>3 DEF RemoteClose, Closed, TypeInv, TypeOK, HolderOK, KeyedById
<1>4. CASE peerDisconnectHandler(k)
  <2>1. ConnId[k] \in PeerIds BY RegistryAssumption
  <2>2. [Free EXCEPT !.op = "callback"] \in Holder BY FreeType DEF Holder, Ops
  <2>3. mu' \in Holder /\ HolderOK'
    BY <1>4, <2>1, <2>2, BeginDetachType DEF peerDisconnectHandler, TypeInv, TypeOK, HolderOK
  <2> QED BY <1>4, <2>3 DEF peerDisconnectHandler, TypeInv, TypeOK, KeyedById
<1>5. CASE \E q \in Queries : peerQueryHandler(k, q)
  <2>1. PICK q \in Queries : peerQueryHandler(k, q) BY <1>5
  <2>2. ConnId[k] \in PeerIds BY RegistryAssumption
  <2>3. peerQueries[ConnId[k]] \in Handlers
    BY <2>1, <2>2 DEF peerQueryHandler, deliver, TypeInv, TypeOK
  <2>4. deliveries' \subseteq Delivery
    BY <2>1, <2>3 DEF peerQueryHandler, deliver, TypeInv, TypeOK, Handlers, Delivery
  <2> QED BY <2>1, <2>4 DEF peerQueryHandler, deliver, TypeInv, TypeOK, HolderOK, KeyedById
<1> QED BY <1>1, <1>2, <1>3, <1>4, <1>5

-----------------------------------------------------------------------------
(* The steps of the holder of peerLifecycleMu *)

\* The stages of detachPeerLocked preserve TypeInv.
LEMMA DetachType ==
    TypeInv /\ (detachOverlays \/ detachPending \/ detachOwner \/ detachRemove) => TypeInv'
<1> SUFFICES ASSUME TypeInv,
                    detachOverlays \/ detachPending \/ detachOwner \/ detachRemove
             PROVE  TypeInv'
  OBVIOUS
<1> USE DEF registry, tables, session, inflight, TypeInv, KeyedById
<1>0. mu \in Holder BY DEF TypeOK
<1>1. CASE detachOverlays
  <2>1. mu' \in Holder /\ HolderOK'
    BY <1>0, <1>1 DEF detachOverlays, HolderOK, PeerStages, ConnStages, Holder, Stages,
                      DetachStages
  <2> QED BY <1>1, <2>1 DEF detachOverlays, TypeOK
<1>2. CASE detachPending
  <2>1. mu' \in Holder /\ HolderOK'
    BY <1>0, <1>2 DEF detachPending, HolderOK, PeerStages, ConnStages, Holder, Stages,
                      DetachStages
  <2> QED BY <1>2, <2>1 DEF detachPending, TypeOK
<1>3. CASE detachOwner
  <2>1. mu' \in Holder /\ HolderOK'
    BY <1>0, <1>3 DEF detachOwner, HolderOK, PeerStages, ConnStages, Holder, Stages,
                      DetachStages
  <2> QED BY <1>3, <2>1 DEF detachOwner, TypeOK
<1>4. CASE detachRemove
  <2>1. mu' \in Holder /\ HolderOK'
    <3>1. CASE mu.op = "callback"
      BY <1>4, <3>1, ReleaseType DEF detachRemove
    <3>2. CASE mu.op # "callback"
      BY <1>0, <1>4, <3>2 DEF detachRemove, HolderOK, PeerStages, ConnStages, Holder,
                              Stages, DetachStages
    <3> QED BY <3>1, <3>2
  <2> QED BY <1>4, <2>1 DEF detachRemove, TypeOK
<1> QED BY <1>1, <1>2, <1>3, <1>4

\* Giving up a candidate, and closing a connection, keep the lock record.
LEMMA AbandonType ==
    ASSUME TypeInv, mu.pc = "ping", NEW h \in Holder,
           h.pc = mu.pc, h.peer = mu.peer, h.conn = mu.conn, abandonCandidate(h)
    PROVE  mu' \in Holder /\ HolderOK'
<1>1. mu.peer \in PeerIds /\ mu.conn \in Conns /\ ConnId[mu.conn] = mu.peer
  BY DEF TypeInv, HolderOK, PeerStages, ConnStages, Stages, DetachStages
<1>2. CASE activePeers[mu.peer] = mu.conn
  BY <1>1, <1>2, BeginDetachType DEF abandonCandidate, TypeInv
<1>3. CASE activePeers[mu.peer] # mu.conn
  BY <1>1, <1>3 DEF abandonCandidate, HolderOK, Holder, Stages, DetachStages
<1> QED BY <1>2, <1>3

\* The steps of adnl.connect and adnl.connectByADNL, and the Close that
\* follows a detach, preserve TypeInv.
LEMMA ConnectType ==
    TypeInv /\ (\/ pingExisting \/ RegisterClient \/ OutboundConnection
                \/ pingCandidate \/ closePeer) => TypeInv'
<1> SUFFICES ASSUME TypeInv, \/ pingExisting \/ RegisterClient \/ OutboundConnection
                             \/ pingCandidate \/ closePeer
             PROVE  TypeInv'
  OBVIOUS
<1> USE DEF registry, tables, session, inflight
<1>0. mu \in Holder /\ mu.client \in Clients \cup {None} BY DEF TypeInv, TypeOK, Holder
<1>a. mu.pc \in PeerStages => mu.peer \in PeerIds
  BY DEF TypeInv, HolderOK
<1>b. mu.pc \in ConnStages => mu.conn \in Conns
  BY DEF TypeInv, HolderOK
<1>1. CASE pingExisting
  <2>1. mu.peer \in PeerIds /\ mu.conn \in Conns
    BY <1>1, <1>a, <1>b DEF pingExisting, PeerStages, ConnStages, Stages
  <2>2. mu' \in Holder /\ HolderOK' BY <1>1, ReleaseType DEF pingExisting
  <2>3. /\ activePeers' \in [PeerIds -> Conns \cup {None}]
        /\ peerOwners' \in [PeerIds -> Clients \cup {None}]
        /\ peerQueries' \in [PeerIds -> Handlers \cup {None}]
        /\ KeyedById'
    <3>1. CASE installPeer(mu.conn, mu.client) BY <1>0, <2>1, <3>1, InstallType
    <3>2. CASE UNCHANGED registry BY <3>2 DEF TypeInv, TypeOK, KeyedById
    <3> QED BY <1>1, <3>1, <3>2 DEF pingExisting
  <2>4. clientPeers' \in [Clients -> SUBSET PeerIds]
    BY <1>1, <2>1 DEF pingExisting, addClientPeer, TypeInv, TypeOK
  <2> QED BY <1>1, <2>2, <2>3, <2>4 DEF pingExisting, TypeInv, TypeOK
<1>2. CASE RegisterClient
  <2>1. mu.pc \in PeerStages /\ mu.pc = "register" /\ mu.peer \in PeerIds
    BY <1>2, <1>a DEF RegisterClient, PeerStages, Stages
  <2>2. mu' \in Holder /\ HolderOK'
    <3>1. CASE mu' = nextEndpoint BY <2>1, <3>1, NextEndpointType
    <3>2. CASE \E k \in Conns : /\ ConnId[k] = mu.peer
                                /\ mu' = [mu EXCEPT !.pc = "ping", !.conn = k]
      BY <1>0, <2>1, <3>2 DEF HolderOK, PeerStages, ConnStages, Holder, Stages, DetachStages
    <3>3. CASE \E k \in Conns : /\ ConnId[k] = mu.peer
                                /\ mu' = [mu EXCEPT !.pc = "handler", !.conn = k]
      BY <1>0, <2>1, <3>3 DEF HolderOK, PeerStages, ConnStages, Holder, Stages, DetachStages
    <3> QED BY <1>2, <3>1, <3>2, <3>3 DEF RegisterClient
  <2> QED BY <1>2, <2>2 DEF RegisterClient, TypeInv, TypeOK, KeyedById
<1>3. CASE OutboundConnection
  <2>1. mu.pc \in PeerStages /\ mu.conn \in Conns
    BY <1>3, <1>b DEF OutboundConnection, PeerStages, ConnStages, Stages
  <2>2. mu' \in Holder /\ HolderOK'
    <3>1. CASE mu' = nextEndpoint BY <2>1, <3>1, NextEndpointType
    <3>2. CASE mu' = [mu EXCEPT !.pc = "ping"]
      BY <1>3, <1>0, <3>2 DEF OutboundConnection, TypeInv, HolderOK, PeerStages, ConnStages,
                              Holder, Stages, DetachStages
    <3> QED BY <1>3, <3>1, <3>2 DEF OutboundConnection
  <2>3. connectionHandler(mu.conn) BY <1>3 DEF OutboundConnection
  <2> QED BY <1>3, <2>1, <2>2, <2>3, ConnectionHandlerType DEF OutboundConnection, TypeInv, TypeOK
<1>4. CASE pingCandidate
  <2>1. mu.pc = "ping" /\ mu.peer \in PeerIds /\ mu.conn \in Conns
    BY <1>4, <1>a, <1>b DEF pingCandidate, PeerStages, ConnStages, Stages
  <2>2. mu' \in Holder /\ HolderOK'
    <3>1. CASE Release BY <3>1, ReleaseType
    <3>2. CASE abandonCandidate(mu) BY <1>0, <2>1, <3>2, AbandonType
    <3>3. CASE abandonCandidate([mu EXCEPT !.tries = 1])
      <4>1. /\ [mu EXCEPT !.tries = 1] \in Holder
            /\ [mu EXCEPT !.tries = 1].pc = mu.pc
            /\ [mu EXCEPT !.tries = 1].peer = mu.peer
            /\ [mu EXCEPT !.tries = 1].conn = mu.conn
        BY <1>0 DEF Holder
      <4> QED BY <2>1, <3>3, <4>1, AbandonType
    <3> QED BY <1>4, <3>1, <3>2, <3>3 DEF pingCandidate
  <2>3. /\ activePeers' \in [PeerIds -> Conns \cup {None}]
        /\ peerOwners' \in [PeerIds -> Clients \cup {None}]
        /\ peerQueries' \in [PeerIds -> Handlers \cup {None}]
        /\ KeyedById'
    <3>1. CASE installPeer(mu.conn, mu.client) BY <1>0, <2>1, <3>1, InstallType
    <3>2. CASE UNCHANGED registry BY <3>2 DEF TypeInv, TypeOK, KeyedById
    <3> QED BY <1>4, <3>1, <3>2 DEF pingCandidate
  <2>4. clientPeers' \in [Clients -> SUBSET PeerIds]
    BY <1>4, <2>1 DEF pingCandidate, addClientPeer, TypeInv, TypeOK
  <2> QED BY <1>4, <2>2, <2>3, <2>4 DEF pingCandidate, TypeInv, TypeOK
<1>5. CASE closePeer
  <2>1. mu.pc \in PeerStages BY <1>5 DEF closePeer, PeerStages, Stages
  <2>2. mu' \in Holder /\ HolderOK'
    <3>1. CASE mu.op = "connect"
      <4>1. mu' = nextEndpoint BY <1>5, <3>1 DEF closePeer
      <4> QED BY <2>1, <4>1, NextEndpointType
    <3>2. CASE mu.op = "cleanup"
      <4>1. mu' = [mu EXCEPT !.pc = "cleanLoop", !.conn = None, !.peer = None]
        BY <1>5, <3>2 DEF closePeer
      <4> QED BY <1>0, <4>1 DEF HolderOK, PeerStages, ConnStages, Holder, Stages
    <3>3. CASE mu.op \notin {"connect", "cleanup"}
      <4>1. mu' = Free BY <1>5, <3>3 DEF closePeer
      <4> QED BY <4>1, ReleaseType DEF Release
    <3> QED BY <3>1, <3>2, <3>3
  <2> QED BY <1>5, <2>2 DEF closePeer, Closed, TypeInv, TypeOK, KeyedById
<1> QED BY <1>1, <1>2, <1>3, <1>4, <1>5

\* The remaining steps of the holder of the lock preserve TypeInv.
LEMMA TrackType ==
    TypeInv /\ (joinTrack \/ leaveTrack \/ cleanupPeer \/ cleanupPeersDone) => TypeInv'
<1> SUFFICES ASSUME TypeInv, joinTrack \/ leaveTrack \/ cleanupPeer \/ cleanupPeersDone
             PROVE  TypeInv'
  OBVIOUS
<1> USE DEF registry, tables, session, inflight, TypeInv, KeyedById
<1>0. mu \in Holder /\ mu.left \subseteq Overlays /\ mu.todo \subseteq PeerIds
  BY DEF TypeOK, Holder
<1>1. CASE joinTrack
  BY <1>0, <1>1, ReleaseType DEF joinTrack, TypeOK
<1>2. CASE leaveTrack
  BY <1>0, <1>2, ReleaseType DEF leaveTrack, TypeOK
<1>3. CASE cleanupPeer
  <2>1. PICK p \in mu.todo :
          IF activePeers[p] # None
            THEN beginDetach([mu EXCEPT !.todo = @ \ {p}], p, activePeers[p])
            ELSE mu' = [mu EXCEPT !.todo = @ \ {p}]
    BY <1>3 DEF cleanupPeer
  <2>2. [mu EXCEPT !.todo = @ \ {p}] \in Holder BY <1>0 DEF Holder
  <2>3. mu' \in Holder /\ HolderOK'
    <3>1. CASE activePeers[p] # None
      <4>1. activePeers[p] \in Conns /\ ConnId[activePeers[p]] = p
        BY <1>0, <3>1 DEF TypeOK
      <4> QED BY <1>0, <2>1, <2>2, <3>1, <4>1, BeginDetachType
    <3>2. CASE activePeers[p] = None
      BY <1>0, <1>3, <2>1, <2>2, <3>2 DEF cleanupPeer, HolderOK, PeerStages, ConnStages, Holder
    <3> QED BY <3>1, <3>2
  <2> QED BY <1>3, <2>3 DEF cleanupPeer, TypeOK
<1>4. CASE cleanupPeersDone
  BY <1>4, ReleaseType DEF cleanupPeersDone, TypeOK, Phases
<1> QED BY <1>1, <1>2, <1>3, <1>4

-----------------------------------------------------------------------------
(* Requests and the life of a client *)

\* The later steps of requests that run without the lock, the recording and
\* the expiry of inbound queries, and the clock preserve TypeInv.
LEMMA ProgressType == TypeInv /\ (RequestProgress \/ Inbound \/ sweepPending \/ Tick) => TypeInv'
<1> SUFFICES ASSUME TypeInv, RequestProgress \/ Inbound \/ sweepPending \/ Tick
             PROVE  TypeInv'
  OBVIOUS
<1> USE DEF registry, tables, session, inflight, TypeInv, HolderOK, KeyedById
<1>1. ASSUME NEW u \in peerUses, checkPeerUse(u) \/ finishPeerUse(u) PROVE TypeInv'
  BY <1>1 DEF checkPeerUse, finishPeerUse, TypeOK, PeerUse
<1>2. ASSUME NEW u \in overlayUses, checkOverlayUse(u) \/ finishOverlayUse(u) PROVE TypeInv'
  BY <1>2 DEF checkOverlayUse, finishOverlayUse, TypeOK, OverlayUse
<1>3. ASSUME NEW a \in answers, checkAnswer(a) \/ sendAnswer(a) \/ forgetAnswered(a)
      PROVE  TypeInv'
  <2>1. CASE checkAnswer(a) BY <2>1 DEF checkAnswer, TypeOK, Answer
  <2>2. CASE sendAnswer(a) BY <2>2 DEF sendAnswer, TypeOK, Answer
  <2>3. CASE forgetAnswered(a) BY <2>3 DEF forgetAnswered, TypeOK
  <2> QED BY <1>3, <2>1, <2>2, <2>3
<1>4. ASSUME NEW o \in Overlays, NEW q \in Queries, OverlayQueryArrives(o, q) PROVE TypeInv'
  <2>1. activeOverlays[o].handler \in Handlers
    BY <1>4 DEF OverlayQueryArrives, deliver, TypeOK, Wrappers
  <2>2. deliveries' \subseteq Delivery
    BY <1>4, <2>1 DEF OverlayQueryArrives, deliver, TypeOK, Handlers, Delivery
  <2> QED BY <1>4, <2>2 DEF OverlayQueryArrives, deliver, TypeOK
<1>5. ASSUME NEW d \in deliveries, recordQuery(d) PROVE TypeInv'
  <2>1. now + QueryTTL \in Nat BY RegistryAssumption DEF TypeOK
  <2>2. [conn |-> d.conn, owner |-> d.client, deadline |-> now + QueryTTL] \in PendingQuery
    BY <2>1 DEF TypeOK, Delivery, PendingQuery
  <2> QED BY <1>5, <2>2 DEF recordQuery, TypeOK
<1>6. CASE sweepPending
  BY <1>6 DEF sweepPending, expired, TypeOK
<1>7. CASE Tick
  BY <1>7 DEF Tick, TypeOK
<1> QED BY <1>1, <1>2, <1>3, <1>4, <1>5, <1>6, <1>7 DEF RequestProgress, Inbound

\* Requests on a peer preserve TypeInv.
LEMMA PeerRequestType ==
    ASSUME TypeInv, NEW c \in Clients, NEW p \in PeerIds, PeerRequest(c, p)
    PROVE  TypeInv'
<1> USE DEF registry, tables, session, inflight
<1>1. ASSUME NEW n \in Nat, lockAndLook(c, p, n) PROVE TypeInv'
  <2> DEFINE h == [Free EXCEPT !.op = "connect", !.client = c, !.peer = p, !.tries = n]
  <2>1. h \in Holder /\ h.peer = p BY FreeType DEF Holder, Ops
  <2> HIDE DEF h
  <2>2. CASE activePeers[p] # None
    <3>1. mu' = [h EXCEPT !.pc = "pingExisting", !.conn = activePeers[p]]
      BY <1>1, <2>2 DEF lockAndLook, h
    <3>2. activePeers[p] \in Conns /\ ConnId[activePeers[p]] = p
      BY <2>2 DEF TypeInv, TypeOK, KeyedById
    <3>3. mu' \in Holder /\ HolderOK'
      BY <2>1, <3>1, <3>2 DEF HolderOK, Holder, Stages
    <3> QED BY <1>1, <3>3 DEF lockAndLook, TypeInv, TypeOK, KeyedById
  <2>3. CASE activePeers[p] = None
    <3>1. mu' = [h EXCEPT !.pc = "register"]
      BY <1>1, <2>3 DEF lockAndLook, h
    <3>2. mu' \in Holder /\ HolderOK'
      BY <2>1, <3>1 DEF HolderOK, PeerStages, ConnStages, Holder, Stages
    <3> QED BY <1>1, <3>2 DEF lockAndLook, TypeInv, TypeOK, KeyedById
  <2> QED BY <2>2, <2>3
<1>2. CASE handleADNLConnect(c, p) \/ handleADNLConnectByADNL(c, p)
  BY <1>1, <1>2, RegistryAssumption DEF handleADNLConnect, handleADNLConnectByADNL
<1>3. CASE handleADNLDisconnect(c, p)
  <2>1. activePeers[p] \in Conns /\ ConnId[activePeers[p]] = p
    BY <1>3 DEF handleADNLDisconnect, TypeInv, TypeOK, KeyedById
  <2>2. [Free EXCEPT !.op = "disconnect", !.client = c] \in Holder
    BY FreeType DEF Holder, Ops
  <2>3. mu' \in Holder /\ HolderOK'
    BY <1>3, <2>1, <2>2, BeginDetachType DEF handleADNLDisconnect, TypeInv
  <2> QED BY <1>3, <2>3 DEF handleADNLDisconnect, TypeInv, TypeOK, KeyedById
<1>4. CASE handleADNLSetQueryHandler(c, p)
  BY <1>4 DEF handleADNLSetQueryHandler, TypeInv, TypeOK, HolderOK, KeyedById, Handlers
<1>5. CASE usePeer(c, p)
  BY <1>5 DEF usePeer, TypeInv, TypeOK, HolderOK, KeyedById, PeerUse
<1> QED BY <1>2, <1>3, <1>4, <1>5, PeerRequest(c, p)
        DEF PeerRequest, handleADNLSendMessage, handleADNLPing, handleADNLQuery

\* Requests on an overlay preserve TypeInv.
LEMMA OverlayRequestType ==
    ASSUME TypeInv, NEW c \in Clients, NEW o \in Overlays, OverlayRequest(c, o)
    PROVE  TypeInv'
<1> USE DEF registry, tables, session, inflight
<1>1. CASE handleOverlayLeave(c, o)
  <2>1. mu' \in Holder /\ HolderOK'
    BY <1>1, FreeType DEF handleOverlayLeave, HolderOK, PeerStages, ConnStages, Holder, Ops,
                          Stages, Free
  <2> QED BY <1>1, <2>1 DEF handleOverlayLeave, TypeInv, TypeOK, KeyedById
<1>2. CASE handleOverlayQuery(c, o)
  BY <1>2 DEF handleOverlayQuery, TypeInv, TypeOK, HolderOK, KeyedById, Wrappers, OverlayUse
<1>3. CASE useOverlay(c, o)
  BY <1>3 DEF useOverlay, TypeInv, TypeOK, HolderOK, KeyedById, Wrappers, OverlayUse
<1>4. ASSUME NEW p \in PeerIds, handleOverlayJoin(c, o, p) PROVE TypeInv'
  <2>0. mu' = [Free EXCEPT !.pc = "joinTrack", !.op = "join", !.client = c, !.left = {o}]
    BY <1>4 DEF handleOverlayJoin
  <2>1. mu' \in Holder /\ HolderOK'
    BY <2>0, FreeType DEF HolderOK, PeerStages, ConnStages, Holder, Ops, Stages, Free
  <2>2. activeOverlays' \in [Overlays -> Wrappers \cup {None}]
    BY <1>4 DEF handleOverlayJoin, TypeInv, TypeOK, Wrappers
  <2> QED BY <1>4, <2>1, <2>2 DEF handleOverlayJoin, TypeInv, TypeOK, KeyedById
<1>5. ASSUME NEW p \in PeerIds, handleOverlaySetQueryHandler(c, o, p) PROVE TypeInv'
  <2>1. activeOverlays' \in [Overlays -> Wrappers \cup {None}]
    BY <1>5 DEF handleOverlaySetQueryHandler, TypeInv, TypeOK, Wrappers, Handlers
  <2> QED BY <1>5, <2>1 DEF handleOverlaySetQueryHandler, TypeInv, TypeOK, HolderOK, KeyedById
<1> QED BY <1>1, <1>2, <1>3, <1>4, <1>5, OverlayRequest(c, o)
        DEF OverlayRequest, handleOverlayGetPeers, handleOverlaySendMessage,
            handleOverlaySendRaw, handleOverlayBroadcast

\* Answers to inbound queries, and the life of a client, preserve TypeInv.
LEMMA SessionType ==
    ASSUME TypeInv, NEW c \in Clients,
           Session(c) \/ \E q \in Queries : handleADNLAnswer(c, q) \/ handleOverlayAnswer(c, q)
    PROVE  TypeInv'
<1> USE DEF registry, tables, session, inflight, TypeInv, KeyedById
<1>1. ASSUME NEW q \in Queries, findPending(c, q) PROVE TypeInv'
  BY <1>1 DEF findPending, expired, TypeOK, HolderOK, Answer
<1>2. CASE OpenClient(c) BY <1>2 DEF OpenClient, TypeOK, HolderOK, Phases
<1>3. CASE EndRead(c) BY <1>3 DEF EndRead, TypeOK, HolderOK, Phases
<1>4. CASE snapshotPeers(c) BY <1>4 DEF snapshotPeers, TypeOK, HolderOK, Phases
<1>5. CASE lockForCleanup(c)
  <2>1. mu' \in Holder /\ HolderOK'
    BY <1>5, FreeType DEF lockForCleanup, TypeOK, HolderOK, PeerStages, ConnStages, Holder,
                          Ops, Stages, Free
  <2> QED BY <1>5, <2>1 DEF lockForCleanup, TypeOK
<1>6. CASE cleanupOverlays(c) BY <1>6 DEF cleanupOverlays, TypeOK, HolderOK, Phases
<1> QED BY <1>1, <1>2, <1>3, <1>4, <1>5, <1>6
        DEF Session, handleADNLAnswer, handleOverlayAnswer

\* Every step preserves TypeInv.
LEMMA NextType == TypeInv /\ [Next]_vars => TypeInv'
<1> SUFFICES ASSUME TypeInv, [Next]_vars PROVE TypeInv'
  OBVIOUS
<1>1. CASE UNCHANGED vars
  BY <1>1 DEF vars, registry, tables, session, inflight, TypeInv, TypeOK, HolderOK, KeyedById
<1>2. CASE Gateway BY <1>2, GatewayType
<1>3. CASE LockHolder BY <1>3, DetachType, ConnectType, TrackType DEF LockHolder
<1>4. CASE RequestProgress \/ Inbound \/ sweepPending \/ Tick BY <1>4, ProgressType
<1>5. ASSUME NEW c \in Clients, Request(c) PROVE TypeInv'
  BY <1>5, PeerRequestType, OverlayRequestType, SessionType DEF Request
<1>6. ASSUME NEW c \in Clients, Session(c) PROVE TypeInv'
  BY <1>6, SessionType
<1> QED BY <1>1, <1>2, <1>3, <1>4, <1>5, <1>6 DEF Next

\* Type correctness: in every behaviour the tables of the bridge, the lists
\* of the clients and the requests in flight stay well formed; in particular
\* connectByADNL never counts its endpoints below zero.
THEOREM TypeCorrect == Spec => []TypeOK
<1>1. Init => TypeInv BY InitType
<1>2. TypeInv /\ [Next]_vars => TypeInv' BY NextType
<1>3. TypeInv => TypeOK BY DEF TypeInv
<1> QED BY <1>1, <1>2, <1>3, PTL DEF Spec

-----------------------------------------------------------------------------
(* Ownership.  The inductive invariant says, besides OwnershipAgrees, for   *)
(* whom the lock is held, that nothing replaces the peer being detached,   *)
(* and that the clean-up of a client still has all of its peers ahead.     *)

ConnectStages == {"pingExisting", "register", "handler", "ping"}
RequestOps    == {"connect", "disconnect", "join", "leave"}

\* A request holds the lock for a client that is not past wg.Wait, the
\* clean-up for one that is.
HolderClient ==
    /\ mu.op \in RequestOps => mu.client \in Clients /\ phase[mu.client] \in {"open", "draining"}
    /\ mu.op = "cleanup" => mu.client \in Clients /\ phase[mu.client] = "cleanPeers"
    /\ mu.pc \in ConnectStages => mu.op = "connect"
    /\ mu.pc = "cleanLoop" => mu.op = "cleanup"

\* From the check at the start of detachPeerLocked to the removal, the
\* connection stays installed and its owner stays the same.
DetachKnows ==
    mu.pc \in DetachStages =>
      /\ activePeers[mu.peer] = mu.conn
      /\ mu.owner = peerOwners[mu.peer]
      /\ mu.pc = "detRemove" => \A c \in Clients : mu.peer \notin clientPeers[c]

\* The clean-up has yet to visit, or is detaching, every peer of its client.
CleanupCovers ==
    mu.op = "cleanup" =>
      \A p \in PeerIds : peerOwners[p] = mu.client => p \in mu.todo \/ Detaching(p)

\* After wg.Wait a client lists no peer, after the clean-up it owns none, and
\* the copy of its list exists in between only.
ClosedOwnsNothing ==
    \A c \in Clients :
      /\ phase[c] # "cleanPeers" => snapshot[c] = {}
      /\ phase[c] \in {"cleanPeers", "cleanOverlays", "gone"} => clientPeers[c] = {}
      /\ phase[c] \in {"cleanOverlays", "gone"} => \A p \in PeerIds : peerOwners[p] # c

OwnershipInv ==
    /\ TypeInv /\ OwnershipAgrees
    /\ HolderClient /\ DetachKnows /\ CleanupCovers /\ ClosedOwnsNothing

\* The initial state satisfies the ownership invariant.
LEMMA InitOwnership == Init => OwnershipInv
<1> SUFFICES ASSUME Init PROVE OwnershipInv
  OBVIOUS
<1>1. TypeInv BY InitType
<1>2. OwnershipAgrees /\ HolderClient /\ DetachKnows /\ CleanupCovers /\ ClosedOwnsNothing
  BY RegistryAssumption DEF Init, OwnershipAgrees, HolderClient, DetachKnows, CleanupCovers,
     ClosedOwnsNothing, Free, ConnectStages, RequestOps, DetachStages
<1> QED BY <1>1, <1>2 DEF OwnershipInv

\* Steps that leave ownership, sessions and the lock alone, and at most fill
\* free places of activePeers, preserve the ownership invariant.
LEMMA FrameOwnership ==
    ASSUME OwnershipInv, TypeInv',
           UNCHANGED <<peerOwners, clientPeers, phase, snapshot, mu>>,
           \A p \in PeerIds : activePeers[p] # None => activePeers'[p] = activePeers[p]
    PROVE  OwnershipInv'
<1>1. OwnershipAgrees'
  BY DEF OwnershipInv, OwnershipAgrees, Detaching
<1>2. DetachKnows'
  <2> SUFFICES ASSUME mu.pc \in DetachStages PROVE DetachKnows'
    BY DEF DetachKnows
  <2>1. mu.peer \in PeerIds /\ mu.conn \in Conns
    BY DEF OwnershipInv, TypeInv, HolderOK, PeerStages, ConnStages, Stages, DetachStages
  <2>2. mu.conn # None BY <2>1, RegistryAssumption
  <2> QED BY <2>1, <2>2 DEF OwnershipInv, DetachKnows
<1>3. HolderClient' /\ CleanupCovers' /\ ClosedOwnsNothing'
  BY DEF OwnershipInv, HolderClient, CleanupCovers, ClosedOwnsNothing, Detaching
<1> QED BY <1>1, <1>2, <1>3 DEF OwnershipInv

\* A step that changes the lock only, and not from the last stage of a
\* detach, keeps the tables in agreement.
LEMMA LockOwnership ==
    ASSUME OwnershipInv, TypeInv', mu.pc # "detRemove",
           UNCHANGED <<activePeers, peerOwners, clientPeers, phase, snapshot>>,
           HolderClient', DetachKnows', CleanupCovers'
    PROVE  OwnershipInv'
<1>1. OwnershipAgrees' BY DEF OwnershipInv, OwnershipAgrees
<1>2. ClosedOwnsNothing' BY DEF OwnershipInv, ClosedOwnsNothing
<1> QED BY <1>1, <1>2 DEF OwnershipInv

\* Giving the lock back disturbs nothing that the lock record says.
LEMMA FreeOwnership ==
    ASSUME mu' = Free PROVE HolderClient' /\ DetachKnows' /\ CleanupCovers'
BY DEF HolderClient, DetachKnows, CleanupCovers, Free, ConnectStages, RequestOps, DetachStages

\* A detach that begins on the installed connection knows what it detaches.
LEMMA BeginDetachOwnership ==
    ASSUME TypeOK, NEW h \in Holder, NEW p \in PeerIds, NEW k \in Conns,
           activePeers[p] = k, beginDetach(h, p, k),
           UNCHANGED <<activePeers, peerOwners>>
    PROVE  /\ DetachKnows' /\ mu'.pc = "detOverlays" /\ mu'.peer = p
           /\ mu'.op = h.op /\ mu'.client = h.client /\ mu'.todo = h.todo
BY DEF TypeOK, beginDetach, DetachKnows, Holder, DetachStages

\* What a successful installPeer does to the owners: nothing but giving an
\* unowned peer to the client that asks for it.
LEMMA InstallOwnership ==
    ASSUME OwnershipInv, NEW k \in Conns, NEW c \in Clients \cup {None},
           installable(k, c), installPeer(k, c)
    PROVE  /\ \A p \in PeerIds : activePeers[p] # None => activePeers'[p] = activePeers[p]
           /\ activePeers'[ConnId[k]] = k
           /\ \A p \in PeerIds : p # ConnId[k] => peerOwners'[p] = peerOwners[p]
           /\ peerOwners[ConnId[k]] # None => peerOwners'[ConnId[k]] = peerOwners[ConnId[k]]
           /\ peerOwners'[ConnId[k]] \in {peerOwners[ConnId[k]], c}
           /\ c # None => peerOwners'[ConnId[k]] = c
<1>1. ConnId[k] \in PeerIds BY RegistryAssumption
<1>2. peerOwners[ConnId[k]] # None => activePeers[ConnId[k]] # None
  BY <1>1 DEF OwnershipInv, OwnershipAgrees
<1>3. k # None BY RegistryAssumption
<1>4. /\ activePeers \in [PeerIds -> Conns \cup {None}]
      /\ peerOwners \in [PeerIds -> Clients \cup {None}]
  BY DEF OwnershipInv, TypeInv, TypeOK
<1> QED BY <1>1, <1>2, <1>3, <1>4 DEF installable, installPeer

\* The connection handler installs for nobody: owners do not change.
LEMMA HandlerOwnership ==
    ASSUME OwnershipInv, NEW k \in Conns, connectionHandler(k)
    PROVE  /\ \A p \in PeerIds : activePeers[p] # None => activePeers'[p] = activePeers[p]
           /\ peerOwners' = peerOwners
<1>1. CASE installable(k, None)
  <2>1. installPeer(k, None) BY <1>1 DEF connectionHandler
  <2>2. /\ \A p \in PeerIds : activePeers[p] # None => activePeers'[p] = activePeers[p]
        /\ \A p \in PeerIds : peerOwners'[p] = peerOwners[p]
    BY <1>1, <2>1, InstallOwnership, RegistryAssumption
  <2>3. peerOwners \in [PeerIds -> Clients \cup {None}]
    BY DEF OwnershipInv, TypeInv, TypeOK
  <2>4. peerOwners' \in [PeerIds -> Clients \cup {None}]
    BY <2>1, InstallType DEF OwnershipInv
  <2> QED BY <2>2, <2>3, <2>4
<1>2. CASE ~installable(k, None)
  BY <1>2 DEF connectionHandler, registry
<1> QED BY <1>1, <1>2

\* What a client and its list look like after a claim.  The peer was unowned
\* or already the client's, so no other list names it.
LEMMA ClaimOwnership ==
    ASSUME OwnershipInv, TypeInv', mu.pc \in {"pingExisting", "ping"},
           installable(mu.conn, mu.client), installPeer(mu.conn, mu.client),
           addClientPeer(mu.client, mu.peer), Release,
           UNCHANGED <<phase, snapshot>>
    PROVE  OwnershipInv'
<1> DEFINE c == mu.client  p == mu.peer
<1>1. p \in PeerIds /\ mu.conn \in Conns /\ ConnId[mu.conn] = p
  BY DEF OwnershipInv, TypeInv, HolderOK, PeerStages, ConnStages, Stages, DetachStages
<1>2. c \in Clients /\ phase[c] \in {"open", "draining"}
  BY DEF OwnershipInv, HolderClient, ConnectStages, RequestOps
<1>3. c # None /\ mu.conn # None BY <1>1, <1>2, RegistryAssumption
<1>4. /\ \A r \in PeerIds : activePeers[r] # None => activePeers'[r] = activePeers[r]
      /\ activePeers'[p] = mu.conn
      /\ \A r \in PeerIds : r # p => peerOwners'[r] = peerOwners[r]
      /\ peerOwners[p] \in {None, c} /\ peerOwners'[p] = c
  BY <1>1, <1>2, <1>3, InstallOwnership
<1>5. /\ clientPeers \in [Clients -> SUBSET PeerIds]
      /\ clientPeers' = [clientPeers EXCEPT ![c] = @ \cup {p}]
  BY DEF OwnershipInv, TypeInv, TypeOK, addClientPeer
<1>6. mu' = Free BY DEF Release
<1>7. mu.pc \notin DetachStages BY DEF DetachStages
<1> HIDE DEF c, p
<1>8. OwnershipAgrees'
  <2> SUFFICES ASSUME NEW r \in PeerIds
               PROVE  /\ \A d \in Clients : r \in clientPeers'[d] => peerOwners'[r] = d
                      /\ peerOwners'[r] # None =>
                           /\ activePeers'[r] # None
                           /\ r \in clientPeers'[peerOwners'[r]] \/ r \in snapshot'[peerOwners'[r]]
    BY DEF OwnershipAgrees
  <2>1. CASE r = p
    <3>1. \A d \in Clients : p \in clientPeers[d] => d = c
      BY <1>1, <1>3, <1>4, RegistryAssumption DEF OwnershipInv, OwnershipAgrees
    <3>2. /\ p \in clientPeers'[c]
          /\ \A d \in Clients : d # c => clientPeers'[d] = clientPeers[d]
      BY <1>2, <1>5
    <3>3. peerOwners'[r] = c /\ activePeers'[r] # None BY <1>3, <1>4, <2>1
    <3> QED BY <2>1, <3>1, <3>2, <3>3
  <2>2. CASE r # p
    <3>1. /\ \A d \in Clients : r \in clientPeers'[d] <=> r \in clientPeers[d]
          /\ peerOwners'[r] = peerOwners[r]
      BY <1>2, <1>4, <1>5, <2>2
    <3>2. peerOwners[r] \in Clients \cup {None} BY DEF OwnershipInv, TypeInv, TypeOK
    <3> QED BY <1>4, <1>7, <3>1, <3>2 DEF OwnershipInv, OwnershipAgrees
  <2> QED BY <2>1, <2>2
<1>9. ClosedOwnsNothing'
  BY <1>1, <1>2, <1>4, <1>5 DEF OwnershipInv, ClosedOwnsNothing
<1> QED BY <1>6, <1>8, <1>9, FreeOwnership DEF OwnershipInv

\* A connect that goes on to the next endpoint or gives up.
LEMMA NextEndpointOwnership ==
    ASSUME OwnershipInv, mu.op = "connect", mu' = nextEndpoint, UNCHANGED phase
    PROVE  HolderClient' /\ DetachKnows' /\ CleanupCovers'
<1>1. CASE mu' = Free BY <1>1, FreeOwnership
<1>2. CASE mu' = [mu EXCEPT !.pc = "register", !.conn = None, !.tries = @ - 1]
  <2>1. mu'.pc = "register" /\ mu'.op = "connect" /\ mu'.client = mu.client
    BY <1>2 DEF OwnershipInv, TypeInv, TypeOK, Holder
  <2> QED BY <2>1 DEF OwnershipInv, HolderClient, DetachKnows, CleanupCovers, ConnectStages,
                      RequestOps, DetachStages
<1> QED BY <1>1, <1>2 DEF nextEndpoint

\* The steps of a connect preserve the ownership invariant.
LEMMA ConnectOwnership ==
    ASSUME OwnershipInv, TypeInv',
           \/ pingExisting \/ RegisterClient \/ OutboundConnection \/ pingCandidate
    PROVE  OwnershipInv'
<1> USE DEF registry, tables, session, inflight
<1>0. mu \in Holder BY DEF OwnershipInv, TypeInv, TypeOK
<1>1. CASE pingExisting
  <2>1. mu' = Free /\ mu.pc = "pingExisting" BY <1>1 DEF pingExisting, Release
  <2>2. CASE UNCHANGED <<registry, clientPeers>>
    BY <1>1, <2>1, <2>2, LockOwnership, FreeOwnership DEF pingExisting
  <2>3. CASE ~UNCHANGED <<registry, clientPeers>>
    BY <1>1, <2>1, <2>3, ClaimOwnership DEF pingExisting
  <2> QED BY <2>2, <2>3
<1>2. CASE RegisterClient
  <2>1. mu.pc = "register" /\ mu.op = "connect"
    BY <1>2 DEF RegisterClient, OwnershipInv, HolderClient, ConnectStages
  <2>2. HolderClient' /\ DetachKnows' /\ CleanupCovers'
    <3>1. CASE mu' = nextEndpoint
      BY <1>2, <2>1, <3>1, NextEndpointOwnership DEF RegisterClient
    <3>2. CASE \E k \in Conns : \E stage \in {"ping", "handler"} :
                 mu' = [mu EXCEPT !.pc = stage, !.conn = k]
      <4>1. mu'.pc \in {"ping", "handler"} /\ mu'.op = "connect" /\ mu'.client = mu.client
        BY <1>0, <2>1, <3>2 DEF Holder
      <4> QED BY <1>2, <4>1 DEF RegisterClient, OwnershipInv, HolderClient, DetachKnows,
                 CleanupCovers, ConnectStages, RequestOps, DetachStages
    <3> QED BY <1>2, <3>1, <3>2 DEF RegisterClient
  <2> QED BY <1>2, <2>1, <2>2, LockOwnership DEF RegisterClient
<1>3. CASE OutboundConnection
  <2>1. mu.pc = "handler" /\ mu.op = "connect" /\ mu.conn \in Conns
    BY <1>3 DEF OutboundConnection, OwnershipInv, HolderClient, ConnectStages, TypeInv,
                HolderOK, ConnStages, PeerStages, Stages
  <2>2. connectionHandler(mu.conn) BY <1>3 DEF OutboundConnection
  <2>3. /\ \A p \in PeerIds : activePeers[p] # None => activePeers'[p] = activePeers[p]
        /\ peerOwners' = peerOwners
    BY <2>1, <2>2, HandlerOwnership
  <2>4. HolderClient' /\ DetachKnows' /\ CleanupCovers'
    <3>1. CASE mu' = nextEndpoint
      BY <1>3, <2>1, <3>1, NextEndpointOwnership DEF OutboundConnection
    <3>2. CASE mu' = [mu EXCEPT !.pc = "ping"]
      <4>1. mu'.pc = "ping" /\ mu'.op = "connect" /\ mu'.client = mu.client
        BY <1>0, <2>1, <3>2 DEF Holder
      <4> QED BY <1>3, <4>1 DEF OutboundConnection, OwnershipInv, HolderClient, DetachKnows,
                 CleanupCovers, ConnectStages, RequestOps, DetachStages
    <3> QED BY <1>3, <3>1, <3>2 DEF OutboundConnection
  <2>5. OwnershipAgrees'
    BY <1>3, <2>1, <2>3 DEF OutboundConnection, OwnershipInv, OwnershipAgrees
  <2>6. ClosedOwnsNothing'
    BY <1>3, <2>3 DEF OutboundConnection, OwnershipInv, ClosedOwnsNothing
  <2> QED BY <2>4, <2>5, <2>6 DEF OwnershipInv
<1>4. CASE pingCandidate
  <2>1. /\ mu.pc = "ping" /\ mu.op = "connect" /\ mu.peer \in PeerIds
        /\ mu.conn \in Conns
    BY <1>4 DEF pingCandidate, OwnershipInv, HolderClient, ConnectStages, TypeInv,
                HolderOK, ConnStages, PeerStages, Stages
  <2>2. ASSUME NEW h \in Holder, h.op = "connect", h.client = mu.client,
               abandonCandidate(h), UNCHANGED <<registry, clientPeers>>
        PROVE  OwnershipInv'
    <3>1. HolderClient' /\ DetachKnows' /\ CleanupCovers'
      <4>1. CASE activePeers[mu.peer] = mu.conn
        <5>1. /\ DetachKnows' /\ mu'.pc = "detOverlays"
              /\ mu'.op = "connect" /\ mu'.client = mu.client
          BY <2>1, <2>2, <4>1, BeginDetachOwnership DEF abandonCandidate, OwnershipInv, TypeInv
        <5> QED BY <1>4, <2>1, <5>1 DEF pingCandidate, OwnershipInv, HolderClient, CleanupCovers,
                   ConnectStages, RequestOps
      <4>2. CASE activePeers[mu.peer] # mu.conn
        <5>1. mu'.pc = "close" /\ mu'.op = "connect" /\ mu'.client = mu.client
          BY <2>2, <4>2 DEF abandonCandidate, Holder
        <5> QED BY <1>4, <2>1, <5>1 DEF pingCandidate, OwnershipInv, HolderClient, DetachKnows,
                   CleanupCovers, ConnectStages, RequestOps, DetachStages
      <4> QED BY <4>1, <4>2
    <3> QED BY <1>4, <2>1, <2>2, <3>1, LockOwnership DEF pingCandidate
  <2>3. CASE Release /\ installable(mu.conn, mu.client) /\ installPeer(mu.conn, mu.client)
             /\ addClientPeer(mu.client, mu.peer)
    BY <1>4, <2>1, <2>3, ClaimOwnership DEF pingCandidate
  <2>4. CASE abandonCandidate(mu) /\ UNCHANGED <<registry, clientPeers>>
    BY <1>0, <2>1, <2>2, <2>4
  <2>5. CASE abandonCandidate([mu EXCEPT !.tries = 1]) /\ UNCHANGED <<registry, clientPeers>>
    <3>1. /\ [mu EXCEPT !.tries = 1] \in Holder
          /\ [mu EXCEPT !.tries = 1].op = "connect"
          /\ [mu EXCEPT !.tries = 1].client = mu.client
      BY <1>0, <2>1 DEF Holder
    <3> QED BY <2>2, <2>5, <3>1
  <2> QED BY <1>4, <2>3, <2>4, <2>5 DEF pingCandidate
<1> QED BY <1>1, <1>2, <1>3, <1>4

\* The stages of a detach, and the Close that follows one, preserve the
\* ownership invariant.
LEMMA DetachOwnership ==
    ASSUME OwnershipInv, TypeInv',
           \/ detachOverlays \/ detachPending \/ detachOwner \/ detachRemove \/ closePeer
    PROVE  OwnershipInv'
<1> USE DEF registry, tables, session, inflight
<1>0. mu \in Holder BY DEF OwnershipInv, TypeInv, TypeOK
<1>a. mu.pc \in DetachStages =>
        /\ mu.peer \in PeerIds /\ mu.conn \in Conns /\ mu.conn # None
        /\ activePeers[mu.peer] = mu.conn /\ mu.owner = peerOwners[mu.peer]
  BY RegistryAssumption DEF OwnershipInv, TypeInv, HolderOK, PeerStages, ConnStages, Stages,
     DetachKnows, DetachStages
<1>1. CASE detachOverlays \/ detachPending
  <2>1. /\ mu.pc \in {"detOverlays", "detPending"} /\ mu'.pc \in {"detPending", "detOwner"}
        /\ mu'.op = mu.op /\ mu'.client = mu.client /\ mu'.todo = mu.todo
        /\ mu'.peer = mu.peer /\ mu'.conn = mu.conn /\ mu'.owner = mu.owner
    BY <1>0, <1>1 DEF detachOverlays, detachPending, Holder
  <2>2. UNCHANGED <<activePeers, peerOwners, clientPeers, phase, snapshot>>
    BY <1>1 DEF detachOverlays, detachPending
  <2>3. HolderClient' /\ DetachKnows' /\ CleanupCovers'
    BY <1>a, <2>1, <2>2 DEF OwnershipInv, HolderClient, DetachKnows, CleanupCovers, Detaching,
       ConnectStages, DetachStages
  <2> QED BY <2>1, <2>2, <2>3, LockOwnership
<1>2. CASE detachOwner
  <2>1. /\ mu.pc = "detOwner" /\ mu'.pc = "detRemove"
        /\ mu'.op = mu.op /\ mu'.client = mu.client /\ mu'.todo = mu.todo
        /\ mu'.peer = mu.peer /\ mu'.conn = mu.conn /\ mu'.owner = mu.owner
    BY <1>0, <1>2 DEF detachOwner, Holder
  <2>2. UNCHANGED <<activePeers, peerOwners, phase, snapshot>>
    BY <1>2 DEF detachOwner
  <2>3. \A c \in Clients : clientPeers'[c] = clientPeers[c] \ {mu.peer}
    <3>1. \A c \in Clients : mu.peer \in clientPeers[c] => c = mu.owner
      BY <1>a, <2>1 DEF OwnershipInv, OwnershipAgrees, DetachStages
    <3> QED BY <1>2, <3>1 DEF detachOwner
  <2>4. OwnershipAgrees'
    <3> SUFFICES ASSUME NEW r \in PeerIds
                 PROVE  /\ \A d \in Clients : r \in clientPeers'[d] => peerOwners[r] = d
                        /\ peerOwners[r] # None =>
                             /\ activePeers[r] # None
                             /\ \/ r \in clientPeers'[peerOwners[r]]
                                \/ r \in snapshot[peerOwners[r]]
                                \/ r = mu.peer
      BY <2>1, <2>2 DEF OwnershipAgrees, Detaching, DetachStages
    <3>1. peerOwners[r] \in Clients \cup {None} BY DEF OwnershipInv, TypeInv, TypeOK
    <3> QED BY <2>1, <2>3, <3>1 DEF OwnershipInv, OwnershipAgrees
  <2>5. HolderClient' /\ DetachKnows' /\ CleanupCovers'
    BY <1>a, <2>1, <2>2, <2>3 DEF OwnershipInv, HolderClient, DetachKnows, CleanupCovers,
       Detaching, ConnectStages, DetachStages
  <2>6. ClosedOwnsNothing'
    BY <2>2, <2>3 DEF OwnershipInv, ClosedOwnsNothing
  <2> QED BY <2>4, <2>5, <2>6 DEF OwnershipInv
<1>3. CASE detachRemove
  <2>1. /\ mu.pc = "detRemove" /\ mu.peer \in PeerIds
        /\ \A c \in Clients : mu.peer \notin clientPeers[c]
    BY <1>3, <1>a DEF detachRemove, OwnershipInv, DetachKnows, DetachStages
  <2>2. /\ activePeers' = [activePeers EXCEPT ![mu.peer] = None]
        /\ peerOwners'  = [peerOwners EXCEPT ![mu.peer] = None]
        /\ UNCHANGED <<clientPeers, phase, snapshot>>
    BY <1>3, <1>a DEF detachRemove, DetachStages
  <2>3. /\ activePeers'[mu.peer] = None /\ peerOwners'[mu.peer] = None
        /\ \A r \in PeerIds : r # mu.peer => /\ activePeers'[r] = activePeers[r]
                                             /\ peerOwners'[r] = peerOwners[r]
    BY <2>1, <2>2 DEF OwnershipInv, TypeInv, TypeOK
  <2>4. OwnershipAgrees'
    <3> SUFFICES ASSUME NEW r \in PeerIds
                 PROVE  /\ \A d \in Clients : r \in clientPeers[d] => peerOwners'[r] = d
                        /\ peerOwners'[r] # None =>
                             /\ activePeers'[r] # None
                             /\ \/ r \in clientPeers[peerOwners'[r]]
                                \/ r \in snapshot[peerOwners'[r]]
      BY <2>2 DEF OwnershipAgrees
    <3>1. CASE r = mu.peer BY <2>1, <2>3, <3>1
    <3>2. CASE r # mu.peer BY <2>3, <3>2 DEF OwnershipInv, OwnershipAgrees, Detaching
    <3> QED BY <3>1, <3>2
  <2>5. HolderClient' /\ DetachKnows' /\ CleanupCovers'
    <3>1. CASE mu.op = "callback"
      BY <1>3, <3>1, FreeOwnership DEF detachRemove, Release
    <3>2. CASE mu.op # "callback"
      <4>1. /\ mu'.pc = "close" /\ mu'.op = mu.op /\ mu'.client = mu.client
            /\ mu'.todo = mu.todo
        BY <1>0, <1>3, <3>2 DEF detachRemove, Holder
      <4>2. HolderClient' /\ DetachKnows'
        BY <2>2, <4>1 DEF OwnershipInv, HolderClient, DetachKnows, ConnectStages, DetachStages
      <4>3. CleanupCovers'
        <5> SUFFICES ASSUME mu.op = "cleanup", NEW r \in PeerIds, peerOwners'[r] = mu.client
                     PROVE  r \in mu.todo
          BY <4>1 DEF CleanupCovers
        <5>1. mu.client # None
          BY RegistryAssumption DEF OwnershipInv, HolderClient
        <5> QED BY <2>3, <5>1 DEF OwnershipInv, CleanupCovers, Detaching
      <4> QED BY <4>2, <4>3
    <3> QED BY <3>1, <3>2
  <2>6. ClosedOwnsNothing'
    BY <2>2, <2>3, RegistryAssumption DEF OwnershipInv, ClosedOwnsNothing
  <2> QED BY <2>4, <2>5, <2>6 DEF OwnershipInv
<1>4. CASE closePeer
  <2>1. mu.pc = "close" BY <1>4 DEF closePeer
  <2>2. HolderClient' /\ DetachKnows' /\ CleanupCovers'
    <3>1. CASE mu.op = "connect"
      BY <1>4, <3>1, NextEndpointOwnership DEF closePeer
    <3>2. CASE mu.op = "cleanup"
      <4>1. mu' = [mu EXCEPT !.pc = "cleanLoop", !.conn = None, !.peer = None]
        BY <1>4, <3>2 DEF closePeer
      <4>2. /\ mu'.pc = "cleanLoop" /\ mu'.op = mu.op /\ mu'.client = mu.client
            /\ mu'.todo = mu.todo
        BY <1>0, <4>1 DEF Holder
      <4> QED BY <1>4, <2>1, <3>2, <4>2 DEF closePeer, OwnershipInv, HolderClient, DetachKnows,
                 CleanupCovers, Detaching, ConnectStages, RequestOps, DetachStages
    <3>3. CASE mu.op \notin {"connect", "cleanup"}
      BY <1>4, <3>3, FreeOwnership DEF closePeer
    <3> QED BY <3>1, <3>2, <3>3
  <2> QED BY <1>4, <2>1, <2>2, LockOwnership DEF closePeer
<1> QED BY <1>1, <1>2, <1>3, <1>4

\* Requests that take the free lock preserve the ownership invariant.
LEMMA RequestOwnership ==
    ASSUME OwnershipInv, TypeInv', NEW c \in Clients, Request(c)
    PROVE  OwnershipInv'
<1> USE DEF registry, tables, session, inflight
<1>1. ASSUME UNCHANGED <<activePeers, peerOwners, clientPeers, session, mu>>
      PROVE  OwnershipInv'
  BY <1>1, FrameOwnership
<1>2. ASSUME Locked(c), UNCHANGED <<activePeers, peerOwners, clientPeers, session>>,
             mu'.op \in RequestOps, mu'.client = c,
             mu'.pc \in ConnectStages => mu'.op = "connect",
             mu'.pc # "cleanLoop", DetachKnows'
      PROVE  OwnershipInv'
  <2>1. mu.pc # "detRemove" BY <1>2 DEF Locked, Free
  <2>2. HolderClient' /\ CleanupCovers'
    BY <1>2 DEF Locked, Admitted, HolderClient, CleanupCovers, RequestOps
  <2> QED BY <1>2, <2>1, <2>2, LockOwnership
<1>3. ASSUME NEW p \in PeerIds, NEW n \in Nat, lockAndLook(c, p, n) PROVE OwnershipInv'
  <2>1. mu'.pc \in {"pingExisting", "register"} /\ mu'.op = "connect" /\ mu'.client = c
    BY <1>3 DEF lockAndLook, Free
  <2> QED BY <1>2, <1>3, <2>1 DEF lockAndLook, DetachKnows, ConnectStages, RequestOps, DetachStages
<1>4. ASSUME NEW p \in PeerIds, handleADNLDisconnect(c, p) PROVE OwnershipInv'
  <2>1. activePeers[p] \in Conns
    BY <1>4 DEF handleADNLDisconnect, OwnershipInv, TypeInv, TypeOK
  <2> DEFINE h == [Free EXCEPT !.op = "disconnect", !.client = c]
  <2>2. h \in Holder /\ h.op = "disconnect" /\ h.client = c BY FreeType DEF Holder, Ops
  <2>3. beginDetach(h, p, activePeers[p]) BY <1>4 DEF handleADNLDisconnect
  <2> HIDE DEF h
  <2>4. /\ DetachKnows' /\ mu'.pc = "detOverlays"
        /\ mu'.op = "disconnect" /\ mu'.client = c
    BY <1>4, <2>1, <2>2, <2>3, BeginDetachOwnership
       DEF handleADNLDisconnect, OwnershipInv, TypeInv
  <2> QED BY <1>2, <1>4, <2>4 DEF handleADNLDisconnect, ConnectStages, RequestOps
<1>5. ASSUME NEW o \in Overlays,
             handleOverlayLeave(c, o) \/ \E p \in PeerIds : handleOverlayJoin(c, o, p)
      PROVE  OwnershipInv'
  <2>1. /\ mu'.pc \in {"joinTrack", "leaveTrack"} /\ mu'.op \in {"join", "leave"}
        /\ mu'.client = c
    BY <1>5 DEF handleOverlayLeave, handleOverlayJoin, Free
  <2> QED BY <1>2, <1>5, <2>1 DEF handleOverlayLeave, handleOverlayJoin, DetachKnows,
             ConnectStages, RequestOps, DetachStages
<1>6. ASSUME NEW p \in PeerIds, PeerRequest(c, p) PROVE OwnershipInv'
  BY <1>1, <1>3, <1>4, <1>6, RegistryAssumption
     DEF PeerRequest, handleADNLConnect, handleADNLConnectByADNL, handleADNLSetQueryHandler,
         handleADNLSendMessage, handleADNLPing, handleADNLQuery, usePeer
<1>7. ASSUME NEW o \in Overlays, OverlayRequest(c, o) PROVE OwnershipInv'
  BY <1>1, <1>5, <1>7
     DEF OverlayRequest, handleOverlayQuery, handleOverlaySetQueryHandler,
         handleOverlayGetPeers, handleOverlaySendMessage, handleOverlaySendRaw,
         handleOverlayBroadcast, useOverlay
<1>8. ASSUME NEW q \in Queries, handleADNLAnswer(c, q) \/ handleOverlayAnswer(c, q)
      PROVE  OwnershipInv'
  BY <1>1, <1>8 DEF handleADNLAnswer, handleOverlayAnswer, findPending
<1> QED BY <1>6, <1>7, <1>8, Request(c) DEF Request

\* The life of a client preserves the ownership invariant.
LEMMA SessionOwnership ==
    ASSUME OwnershipInv, TypeInv', NEW c \in Clients, Session(c)
    PROVE  OwnershipInv'
<1> USE DEF registry, tables, session, inflight
<1>0. phase \in [Clients -> Phases] BY DEF OwnershipInv, TypeInv, TypeOK
<1>1. CASE OpenClient(c) \/ EndRead(c) \/ cleanupOverlays(c)
  <2>1. UNCHANGED <<activePeers, peerOwners, clientPeers, snapshot, mu>>
    BY <1>1 DEF OpenClient, EndRead, cleanupOverlays
  <2>2. /\ \A d \in Clients : d # c => phase'[d] = phase[d]
        /\ \/ phase[c] = "absent" /\ phase'[c] = "open"
           \/ phase[c] = "open" /\ phase'[c] = "draining"
           \/ phase[c] = "cleanOverlays" /\ phase'[c] = "gone"
    BY <1>0, <1>1 DEF OpenClient, EndRead, cleanupOverlays
  <2>3. HolderClient' /\ ClosedOwnsNothing'
    BY <2>1, <2>2 DEF OwnershipInv, HolderClient, ClosedOwnsNothing
  <2>4. OwnershipAgrees' /\ DetachKnows' /\ CleanupCovers'
    BY <2>1 DEF OwnershipInv, OwnershipAgrees, DetachKnows, CleanupCovers, Detaching
  <2> QED BY <2>3, <2>4 DEF OwnershipInv
<1>2. CASE snapshotPeers(c)
  <2>1. /\ UNCHANGED <<activePeers, peerOwners, mu>>
        /\ \A d \in Clients : d # c => /\ phase'[d] = phase[d]
                                       /\ clientPeers'[d] = clientPeers[d]
                                       /\ snapshot'[d] = snapshot[d]
        /\ phase[c] = "draining" /\ phase'[c] = "cleanPeers"
        /\ clientPeers'[c] = {} /\ snapshot'[c] = clientPeers[c]
        /\ ~HoldsLock(c)
    BY <1>0, <1>2 DEF snapshotPeers, OwnershipInv, TypeInv, TypeOK
  <2>2. HolderClient'
    BY <2>1 DEF OwnershipInv, HolderClient, HoldsLock, RequestOps
  <2>3. ClosedOwnsNothing'
    BY <2>1 DEF OwnershipInv, ClosedOwnsNothing
  <2>4. OwnershipAgrees'
    <3> SUFFICES ASSUME NEW r \in PeerIds
                 PROVE  /\ \A d \in Clients : r \in clientPeers'[d] => peerOwners[r] = d
                        /\ peerOwners[r] # None =>
                             /\ activePeers[r] # None
                             /\ \/ r \in clientPeers'[peerOwners[r]]
                                \/ r \in snapshot'[peerOwners[r]]
                                \/ Detaching(r) /\ mu.pc = "detRemove"
      BY <2>1 DEF OwnershipAgrees, Detaching
    <3>1. peerOwners[r] \in Clients \cup {None} BY DEF OwnershipInv, TypeInv, TypeOK
    <3>2. \A d \in Clients : r \in clientPeers'[d] => peerOwners[r] = d
      BY <2>1 DEF OwnershipInv, OwnershipAgrees
    <3>3. CASE peerOwners[r] = c
      <4>1. snapshot[c] = {} BY <2>1 DEF OwnershipInv, ClosedOwnsNothing
      <4> QED BY <2>1, <3>2, <3>3, <4>1 DEF OwnershipInv, OwnershipAgrees
    <3>4. CASE peerOwners[r] # c
      BY <2>1, <3>1, <3>2, <3>4 DEF OwnershipInv, OwnershipAgrees
    <3> QED BY <3>3, <3>4
  <2>5. DetachKnows' /\ CleanupCovers'
    BY <2>1 DEF OwnershipInv, DetachKnows, CleanupCovers, Detaching
  <2> QED BY <2>2, <2>3, <2>4, <2>5 DEF OwnershipInv
<1>3. CASE lockForCleanup(c)
  <2>1. /\ mu = Free /\ phase[c] = "cleanPeers"
        /\ UNCHANGED <<activePeers, peerOwners, clientPeers, phase, snapshot>>
        /\ mu'.pc = "cleanLoop" /\ mu'.op = "cleanup" /\ mu'.client = c
        /\ mu'.todo = snapshot[c]
    BY <1>3 DEF lockForCleanup, Free
  <2>2. mu.pc # "detRemove" BY <2>1 DEF Free
  <2>3. HolderClient' /\ DetachKnows'
    BY <2>1 DEF HolderClient, DetachKnows, ConnectStages, RequestOps, DetachStages
  <2>4. CleanupCovers'
    <3> SUFFICES ASSUME NEW r \in PeerIds, peerOwners[r] = c PROVE r \in snapshot[c]
      BY <2>1 DEF CleanupCovers
    <3> QED BY <2>1, <2>2, RegistryAssumption DEF OwnershipInv, OwnershipAgrees, ClosedOwnsNothing
  <2> QED BY <2>1, <2>2, <2>3, <2>4, LockOwnership
<1> QED BY <1>1, <1>2, <1>3, Session(c) DEF Session

\* The other steps of the holder of the lock preserve the ownership
\* invariant; here the clean-up of a client comes to an end.
LEMMA TrackOwnership ==
    ASSUME OwnershipInv, TypeInv', joinTrack \/ leaveTrack \/ cleanupPeer \/ cleanupPeersDone
    PROVE  OwnershipInv'
<1> USE DEF registry, tables, session, inflight
<1>0. mu \in Holder BY DEF OwnershipInv, TypeInv, TypeOK
<1>1. CASE joinTrack \/ leaveTrack
  <2>1. /\ mu' = Free /\ mu.pc # "detRemove"
        /\ UNCHANGED <<activePeers, peerOwners, clientPeers, phase, snapshot>>
    BY <1>1 DEF joinTrack, leaveTrack, Release
  <2> QED BY <2>1, FreeOwnership, LockOwnership
<1>2. CASE cleanupPeer
  <2>1. mu.pc = "cleanLoop" /\ mu.op = "cleanup"
        /\ UNCHANGED <<activePeers, peerOwners, clientPeers, phase, snapshot>>
    BY <1>2 DEF cleanupPeer, OwnershipInv, HolderClient
  <2>2. PICK p \in mu.todo :
          IF activePeers[p] # None
            THEN beginDetach([mu EXCEPT !.todo = @ \ {p}], p, activePeers[p])
            ELSE mu' = [mu EXCEPT !.todo = @ \ {p}]
    BY <1>2 DEF cleanupPeer
  <2> DEFINE h == [mu EXCEPT !.todo = @ \ {p}]
  <2>3. /\ h \in Holder /\ h.pc = "cleanLoop" /\ h.op = "cleanup" /\ h.client = mu.client
        /\ h.todo = mu.todo \ {p} /\ p \in PeerIds
    BY <1>0, <2>1 DEF Holder
  <2>4. /\ activePeers[p] # None => beginDetach(h, p, activePeers[p])
        /\ activePeers[p] = None => mu' = h
    BY <2>2
  <2> HIDE DEF h
  <2>5. HolderClient' /\ DetachKnows' /\ CleanupCovers'
    <3>1. CASE activePeers[p] # None
      <4>1. activePeers[p] \in Conns BY <2>3, <3>1 DEF OwnershipInv, TypeInv, TypeOK
      <4>2. /\ DetachKnows' /\ mu'.pc = "detOverlays" /\ mu'.peer = p
            /\ mu'.op = "cleanup" /\ mu'.client = mu.client /\ mu'.todo = mu.todo \ {p}
        BY <2>1, <2>3, <2>4, <3>1, <4>1, BeginDetachOwnership DEF OwnershipInv, TypeInv
      <4>3. CleanupCovers'
        BY <2>1, <4>2 DEF OwnershipInv, CleanupCovers, Detaching, DetachStages
      <4> QED BY <2>1, <4>2, <4>3 DEF OwnershipInv, HolderClient, ConnectStages, RequestOps
    <3>2. CASE activePeers[p] = None
      <4>1. peerOwners[p] # mu.client
        BY <2>1, <2>3, <3>2, RegistryAssumption DEF OwnershipInv, OwnershipAgrees, HolderClient
      <4>2. /\ mu'.pc = "cleanLoop" /\ mu'.op = "cleanup" /\ mu'.client = mu.client
            /\ mu'.todo = mu.todo \ {p}
        BY <2>3, <2>4, <3>2
      <4>3. CleanupCovers'
        BY <2>1, <4>1, <4>2 DEF OwnershipInv, CleanupCovers, Detaching, DetachStages
      <4> QED BY <2>1, <4>2, <4>3 DEF OwnershipInv, HolderClient, DetachKnows, ConnectStages,
                 RequestOps, DetachStages
    <3> QED BY <3>1, <3>2
  <2> QED BY <2>1, <2>5, LockOwnership
<1>3. CASE cleanupPeersDone
  <2> DEFINE c == mu.client
  <2>1. /\ mu.pc = "cleanLoop" /\ mu.op = "cleanup" /\ mu.todo = {} /\ mu' = Free
        /\ c \in Clients /\ phase[c] = "cleanPeers"
    BY <1>3 DEF cleanupPeersDone, Release, OwnershipInv, HolderClient
  <2>2. /\ UNCHANGED <<activePeers, peerOwners, clientPeers>>
        /\ phase'[c] = "cleanOverlays" /\ snapshot'[c] = {}
        /\ \A d \in Clients : d # c => phase'[d] = phase[d] /\ snapshot'[d] = snapshot[d]
    BY <1>3, <2>1 DEF cleanupPeersDone, OwnershipInv, TypeInv, TypeOK
  <2>3. \A p \in PeerIds : peerOwners[p] # c
    BY <2>1 DEF OwnershipInv, CleanupCovers, Detaching, DetachStages
  <2> HIDE DEF c
  <2>4. OwnershipAgrees'
    <3> SUFFICES ASSUME NEW r \in PeerIds
                 PROVE  /\ \A d \in Clients : r \in clientPeers[d] => peerOwners[r] = d
                        /\ peerOwners[r] # None =>
                             /\ activePeers[r] # None
                             /\ \/ r \in clientPeers[peerOwners[r]]
                                \/ r \in snapshot'[peerOwners[r]]
      BY <2>2 DEF OwnershipAgrees
    <3>1. peerOwners[r] \in Clients \cup {None} BY DEF OwnershipInv, TypeInv, TypeOK
    <3> QED BY <2>1, <2>2, <2>3, <3>1 DEF OwnershipInv, OwnershipAgrees
  <2>5. ClosedOwnsNothing'
    BY <2>1, <2>2, <2>3 DEF OwnershipInv, ClosedOwnsNothing
  <2> QED BY <2>1, <2>4, <2>5, FreeOwnership DEF OwnershipInv
<1> QED BY <1>1, <1>2, <1>3

\* The gateway and the handlers it calls preserve the ownership invariant.
LEMMA GatewayOwnership ==
    ASSUME OwnershipInv, TypeInv', Gateway
    PROVE  OwnershipInv'
<1> USE DEF registry, tables, session, inflight
<1>1. PICK k \in Conns :
        \/ AcceptInbound(k) \/ InboundConnection(k) \/ RemoteClose(k)
        \/ peerDisconnectHandler(k)
        \/ \E q \in Queries : peerQueryHandler(k, q)
  BY DEF Gateway
<1>2. CASE AcceptInbound(k) \/ RemoteClose(k) \/ \E q \in Queries : peerQueryHandler(k, q)
  BY <1>2, FrameOwnership DEF AcceptInbound, RemoteClose, peerQueryHandler, deliver
<1>3. CASE InboundConnection(k)
  BY <1>3, HandlerOwnership, FrameOwnership DEF InboundConnection
<1>4. CASE peerDisconnectHandler(k)
  <2>1. ConnId[k] \in PeerIds BY RegistryAssumption
  <2>2. CASE activePeers[ConnId[k]] = k
    <3> DEFINE h == [Free EXCEPT !.op = "callback"]
    <3>1. h \in Holder /\ h.op = "callback" BY FreeType DEF Holder, Ops
    <3>2. beginDetach(h, ConnId[k], k) BY <1>4, <2>2 DEF peerDisconnectHandler
    <3> HIDE DEF h
    <3>3. DetachKnows' /\ mu'.pc = "detOverlays" /\ mu'.op = "callback"
      BY <1>4, <2>1, <2>2, <3>1, <3>2, BeginDetachOwnership
         DEF peerDisconnectHandler, OwnershipInv, TypeInv
    <3>4. mu.pc # "detRemove" BY <1>4 DEF peerDisconnectHandler, Free
    <3>5. HolderClient' /\ CleanupCovers'
      BY <3>3 DEF HolderClient, CleanupCovers, ConnectStages, RequestOps
    <3> QED BY <1>4, <3>3, <3>4, <3>5, LockOwnership DEF peerDisconnectHandler
  <2>3. CASE activePeers[ConnId[k]] # k
    BY <1>4, <2>3, FrameOwnership DEF peerDisconnectHandler
  <2> QED BY <2>2, <2>3
<1> QED BY <1>1, <1>2, <1>3, <1>4

\* Every step preserves the ownership invariant.
LEMMA NextOwnership == OwnershipInv /\ [Next]_vars => OwnershipInv'
<1> SUFFICES ASSUME OwnershipInv, [Next]_vars PROVE OwnershipInv'
  OBVIOUS
<1> USE DEF registry, tables, session, inflight
<1>0. TypeInv' BY NextType DEF OwnershipInv
<1>1. CASE UNCHANGED vars
  BY <1>0, <1>1, FrameOwnership DEF vars
<1>2. CASE Gateway BY <1>0, <1>2, GatewayOwnership
<1>3. CASE LockHolder
  BY <1>0, <1>3, DetachOwnership, ConnectOwnership, TrackOwnership DEF LockHolder
<1>4. CASE RequestProgress \/ Inbound \/ sweepPending \/ Tick
  BY <1>0, <1>4, FrameOwnership
     DEF RequestProgress, Inbound, sweepPending, Tick, checkPeerUse, finishPeerUse,
         checkOverlayUse, finishOverlayUse, checkAnswer, sendAnswer, forgetAnswered,
         OverlayQueryArrives, deliver, recordQuery
<1>5. ASSUME NEW c \in Clients, Request(c) PROVE OwnershipInv'
  BY <1>0, <1>5, RequestOwnership
<1>6. ASSUME NEW c \in Clients, Session(c) PROVE OwnershipInv'
  BY <1>0, <1>6, SessionOwnership
<1> QED BY <1>1, <1>2, <1>3, <1>4, <1>5, <1>6 DEF Next

\* The lists of the clients and the owner table agree in every behaviour:
\* a listed peer is installed and owned by the client that lists it, and an
\* owned peer is listed, waits in its owner's clean-up or is being removed.
THEOREM OwnershipAlwaysAgrees == Spec => []OwnershipAgrees
<1>1. Init => OwnershipInv BY InitOwnership
<1>2. OwnershipInv /\ [Next]_vars => OwnershipInv' BY NextOwnership
<1>3. OwnershipInv => OwnershipAgrees BY DEF OwnershipInv
<1> QED BY <1>1, <1>2, <1>3, PTL DEF Spec

-----------------------------------------------------------------------------
(* No peer changes hands *)

\* What one step may do to the installed connections and their owners.
NoTakeoverStep ==
    \A p \in PeerIds :
      /\ activePeers[p] # None => activePeers'[p] \in {activePeers[p], None}
      /\ peerOwners[p] # None /\ activePeers'[p] # None => peerOwners'[p] = peerOwners[p]

\* A claim by the holder of the lock takes no peer from anybody.
LEMMA ClaimNoTakeover ==
    ASSUME OwnershipInv, mu.pc \in {"pingExisting", "ping"},
           installable(mu.conn, mu.client), installPeer(mu.conn, mu.client)
    PROVE  NoTakeoverStep
<1>1. mu.conn \in Conns
  BY DEF OwnershipInv, TypeInv, HolderOK, PeerStages, ConnStages, Stages, DetachStages
<1>2. mu.client \in Clients \cup {None}
  BY DEF OwnershipInv, TypeInv, TypeOK, Holder
<1> QED BY <1>1, <1>2, InstallOwnership DEF NoTakeoverStep

\* No step replaces an installed connection or its owner.
LEMMA NextNoTakeover == OwnershipInv /\ [Next]_vars => NoTakeoverStep
<1> SUFFICES ASSUME OwnershipInv, [Next]_vars PROVE NoTakeoverStep
  OBVIOUS
<1> USE DEF registry, tables, session, inflight
<1>1. ASSUME UNCHANGED <<activePeers, peerOwners>> PROVE NoTakeoverStep
  BY <1>1 DEF NoTakeoverStep
<1>2. CASE UNCHANGED vars BY <1>1, <1>2 DEF vars
<1>3. CASE Gateway
  <2>1. ASSUME NEW k \in Conns, InboundConnection(k) PROVE NoTakeoverStep
    BY <2>1, HandlerOwnership DEF InboundConnection, NoTakeoverStep
  <2> QED BY <1>1, <1>3, <2>1 DEF Gateway, AcceptInbound, RemoteClose, peerDisconnectHandler,
             peerQueryHandler, deliver
<1>4. CASE LockHolder
  <2>1. CASE pingExisting \/ pingCandidate
    BY <1>1, <2>1, ClaimNoTakeover DEF pingExisting, pingCandidate
  <2>2. CASE OutboundConnection
    <3>1. mu.conn \in Conns /\ connectionHandler(mu.conn)
      BY <2>2 DEF OutboundConnection, OwnershipInv, TypeInv, HolderOK, PeerStages, ConnStages,
                  Stages
    <3> QED BY <3>1, HandlerOwnership DEF NoTakeoverStep
  <2>3. CASE detachRemove
    BY <2>3 DEF detachRemove, NoTakeoverStep, OwnershipInv, TypeInv, TypeOK
  <2> QED BY <1>1, <1>4, <2>1, <2>2, <2>3
          DEF LockHolder, detachOverlays, detachPending, detachOwner, closePeer,
              RegisterClient, joinTrack, leaveTrack, cleanupPeer, cleanupPeersDone
<1>5. CASE RequestProgress \/ Inbound \/ sweepPending \/ Tick
  BY <1>1, <1>5
     DEF RequestProgress, Inbound, sweepPending, Tick, checkPeerUse, finishPeerUse,
         checkOverlayUse, finishOverlayUse, checkAnswer, sendAnswer, forgetAnswered,
         OverlayQueryArrives, deliver, recordQuery
<1>6. ASSUME NEW c \in Clients, Request(c) PROVE NoTakeoverStep
  <2>1. ASSUME NEW p \in PeerIds, PeerRequest(c, p) PROVE NoTakeoverStep
    BY <1>1, <2>1
       DEF PeerRequest, handleADNLConnect, handleADNLConnectByADNL, lockAndLook,
           handleADNLDisconnect, handleADNLSetQueryHandler, handleADNLSendMessage,
           handleADNLPing, handleADNLQuery, usePeer
  <2>2. ASSUME NEW o \in Overlays, OverlayRequest(c, o) PROVE NoTakeoverStep
    BY <1>1, <2>2
       DEF OverlayRequest, handleOverlayLeave, handleOverlayJoin, handleOverlayQuery,
           handleOverlaySetQueryHandler, handleOverlayGetPeers, handleOverlaySendMessage,
           handleOverlaySendRaw, handleOverlayBroadcast, useOverlay
  <2> QED BY <1>1, <1>6, <2>1, <2>2 DEF Request, handleADNLAnswer, handleOverlayAnswer, findPending
<1>7. ASSUME NEW c \in Clients, Session(c) PROVE NoTakeoverStep
  BY <1>1, <1>7 DEF Session, OpenClient, EndRead, snapshotPeers, lockForCleanup, cleanupOverlays
<1> QED BY <1>2, <1>3, <1>4, <1>5, <1>6, <1>7 DEF Next

\* A peer never changes hands in any behaviour: installPeer neither replaces
\* a connection nor moves a peer from one client to another.
THEOREM PeersNeverTakenOver == Spec => NoTakeover
<1>1. Init => OwnershipInv BY InitOwnership
<1>2. OwnershipInv /\ [Next]_vars => OwnershipInv' BY NextOwnership
<1>3. OwnershipInv /\ [Next]_vars => NoTakeoverStep BY NextNoTakeover
<1> QED BY <1>1, <1>2, <1>3, PTL DEF Spec, NoTakeover, NoTakeoverStep
=============================================================================
