---------------------- MODULE OwnershipRefinementProofs ----------------------
(***************************************************************************)
(* The peer registry implements PeerOwnership, for every value of the      *)
(* constants.  The invariants of PeerRegistryProofs (OwnershipInv) and of  *)
(* PeerAttachmentProofs (Generations) say why each step of the registry is *)
(* a step of the abstract specification or leaves its state alone.         *)
(***************************************************************************)
EXTENDS OwnershipRefinement, PeerAttachmentProofs

Present == {"open", "draining", "cleanPeers"}

\* Nothing that PeerOwnership sees changes.
LEMMA StutterMaps ==
    ASSUME UNCHANGED <<activePeers, peerOwners>>,
           \A k \in Conns : hook'[k] \in Fresh <=> hook[k] \in Fresh,
           \A c \in Clients : phase'[c] \in Present <=> phase[c] \in Present
    PROVE  UNCHANGED Ownership!ownershipVars
<1>1. [p \in PeerIds |-> peerOf(p)]' = [p \in PeerIds |-> peerOf(p)] BY DEF peerOf
<1>2. {k \in Conns : hook[k] \notin {"none", "installing"}}'
        = {k \in Conns : hook[k] \notin {"none", "installing"}}
  BY DEF Fresh
<1>3. {c \in Clients : phase[c] \in {"open", "draining", "cleanPeers"}}'
        = {c \in Clients : phase[c] \in {"open", "draining", "cleanPeers"}}
  BY DEF Present
<1> QED BY <1>1, <1>2, <1>3 DEF Ownership!ownershipVars

\* A connection handler installs its connection or turns it away.
LEMMA HandlerMaps ==
    ASSUME OwnershipInv, Generations, NEW k \in Conns, connectionHandler(k), UNCHANGED phase
    PROVE  Ownership!Install(k) \/ Ownership!TurnAway(k)
<1> DEFINE p == ConnId[k]
<1>0. p \in PeerIds /\ k # None BY RegistryTypes
<1>1. {c \in Clients : phase[c] \in {"open", "draining", "cleanPeers"}}'
        = {c \in Clients : phase[c] \in {"open", "draining", "cleanPeers"}}
  OBVIOUS
<1>2. /\ {j \in Conns : hook[j] \notin {"none", "installing"}}'
           = {j \in Conns : hook[j] \notin {"none", "installing"}} \cup {k}
      /\ k \notin {j \in Conns : hook[j] \notin {"none", "installing"}}
  BY HandlerInstalls
<1>3. peerOwners' = peerOwners BY HandlerOwnership
<1>4. CASE installable(k, None)
  <2>1. /\ activePeers[p] = None /\ activePeers'[p] = k
        /\ \A r \in PeerIds : r # p => activePeers'[r] = activePeers[r]
    BY <1>4, HandlerInstalls
  <2>2. peerOwners[p] = None BY <1>0, <2>1 DEF OwnershipInv, OwnershipAgrees
  <2>3. [r \in PeerIds |-> peerOf(r)][p] = [conn |-> None, owner |-> None]
    BY <1>0, <2>1, <2>2 DEF peerOf
  <2>4. [r \in PeerIds |-> peerOf(r)]'
          = [[r \in PeerIds |-> peerOf(r)] EXCEPT ![p] = [conn |-> k, owner |-> None]]
    BY <1>0, <1>3, <2>1, <2>2 DEF peerOf
  <2> HIDE DEF p
  <2> QED BY <1>1, <1>2, <2>3, <2>4 DEF Ownership!Install, Ownership!NoPeer, p
<1>5. CASE ~installable(k, None)
  <2>1. activePeers' = activePeers BY <1>5, HandlerInstalls
  <2>2. [r \in PeerIds |-> peerOf(r)]' = [r \in PeerIds |-> peerOf(r)]
    BY <1>3, <2>1 DEF peerOf
  <2> QED BY <1>1, <1>2, <2>2 DEF Ownership!TurnAway
<1> QED BY <1>4, <1>5

\* A claim gives an unowned peer to a client that is there, or confirms the
\* owner it has.
LEMMA ClaimMaps ==
    ASSUME OwnershipInv, Generations, mu.pc \in {"pingExisting", "ping"},
           installable(mu.conn, mu.client), installPeer(mu.conn, mu.client),
           UNCHANGED <<hook, phase>>
    PROVE  /\ mu.client \in Clients /\ mu.peer \in PeerIds
           /\ Ownership!Claim(mu.client, mu.peer) \/ UNCHANGED Ownership!ownershipVars
<1> DEFINE c == mu.client  p == mu.peer  k == mu.conn
<1>1. p \in PeerIds /\ k \in Conns /\ ConnId[k] = p
  BY HolderStage DEF ConnStages, PeerStages, Stages, DetachStages
<1>2. c \in Clients /\ phase[c] \in Present
  BY DEF OwnershipInv, HolderClient, ConnectStages, RequestOps, Present
<1>3. activePeers[p] = k /\ activePeers' = activePeers
  BY ClaimKeepsConnection DEF Generations, HolderConn
<1>4. k # None /\ c # None BY <1>1, <1>2, RegistryTypes
<1>5. /\ peerOwners[p] \in {None, c} /\ peerOwners'[p] = c
      /\ \A r \in PeerIds : r # p => peerOwners'[r] = peerOwners[r]
  BY <1>1, <1>2, <1>4, InstallOwnership
<1>6. peerOwners \in [PeerIds -> Clients \cup {None}]
      /\ peerOwners' \in [PeerIds -> Clients \cup {None}]
  BY <1>1, <1>2, InstallType DEF OwnershipInv, TypeInv, TypeOK
<1> HIDE DEF c, p, k
<1>7. CASE peerOwners[p] = c
  <2>1. peerOwners' = peerOwners BY <1>5, <1>6, <1>7
  <2> QED BY <1>1, <1>2, <1>3, <2>1, StutterMaps DEF c, p
<1>8. CASE peerOwners[p] = None
  <2>1. /\ {j \in Conns : hook[j] \notin {"none", "installing"}}'
             = {j \in Conns : hook[j] \notin {"none", "installing"}}
        /\ {d \in Clients : phase[d] \in {"open", "draining", "cleanPeers"}}'
             = {d \in Clients : phase[d] \in {"open", "draining", "cleanPeers"}}
    OBVIOUS
  <2>2. c \in {d \in Clients : phase[d] \in {"open", "draining", "cleanPeers"}}
    BY <1>2 DEF Present
  <2>3. /\ [r \in PeerIds |-> peerOf(r)][p].conn # None
        /\ [r \in PeerIds |-> peerOf(r)][p].owner = None
    BY <1>1, <1>3, <1>4, <1>8 DEF peerOf
  <2>4. [r \in PeerIds |-> peerOf(r)]'
          = [[r \in PeerIds |-> peerOf(r)] EXCEPT ![p].owner = c]
    BY <1>1, <1>3, <1>5 DEF peerOf
  <2>5. Ownership!Claim(c, p) BY <2>1, <2>2, <2>3, <2>4 DEF Ownership!Claim
  <2> QED BY <1>1, <1>2, <2>5 DEF c, p
<1> QED BY <1>5, <1>7, <1>8

\* The last stage of a detach removes the peer.
LEMMA RemoveMaps ==
    ASSUME OwnershipInv, detachRemove
    PROVE  mu.peer \in PeerIds /\ Ownership!Remove(mu.peer)
<1> USE DEF registry, tables, session, inflight
<1> DEFINE p == mu.peer
<1>1. p \in PeerIds /\ mu.conn \in Conns /\ activePeers[p] = mu.conn
  BY HolderDetaches DEF detachRemove, DetachStages
<1>2. mu.conn # None BY <1>1, RegistryTypes
<1>3. /\ activePeers' = [activePeers EXCEPT ![p] = None]
      /\ peerOwners' = [peerOwners EXCEPT ![p] = None]
      /\ UNCHANGED <<hook, phase>>
  BY <1>1 DEF detachRemove
<1>4. [r \in PeerIds |-> peerOf(r)][p] # [conn |-> None, owner |-> None]
  <2>1. [r \in PeerIds |-> peerOf(r)][p].conn = mu.conn BY <1>1 DEF peerOf
  <2> QED BY <1>2, <2>1
<1>5. [r \in PeerIds |-> peerOf(r)]'
        = [[r \in PeerIds |-> peerOf(r)] EXCEPT ![p] = [conn |-> None, owner |-> None]]
  BY <1>1, <1>3, RegistryTypes DEF peerOf
<1>6. /\ {j \in Conns : hook[j] \notin {"none", "installing"}}'
           = {j \in Conns : hook[j] \notin {"none", "installing"}}
      /\ {d \in Clients : phase[d] \in {"open", "draining", "cleanPeers"}}'
           = {d \in Clients : phase[d] \in {"open", "draining", "cleanPeers"}}
  BY <1>3
<1> HIDE DEF p
<1>7. Ownership!Remove(p) BY <1>4, <1>5, <1>6 DEF Ownership!Remove, Ownership!NoPeer
<1> QED BY <1>1, <1>7 DEF p

\* The life of a client: it arrives, and it leaves when the clean-up of its
\* peers is done and it owns nothing.
LEMMA SessionMaps ==
    /\ \A c \in Clients : OwnershipInv /\ OpenClient(c) => Ownership!Arrive(c)
    /\ OwnershipInv /\ cleanupPeersDone => (\E c \in Clients : Ownership!Leave(c))
<1> USE DEF registry, tables, session, inflight
<1>1. ASSUME NEW c \in Clients, OwnershipInv, OpenClient(c) PROVE Ownership!Arrive(c)
  <2>1. /\ phase \in [Clients -> Phases] /\ phase[c] = "absent"
        /\ phase' = [phase EXCEPT ![c] = "open"] /\ UNCHANGED <<activePeers, peerOwners, hook>>
    BY <1>1 DEF OpenClient, OwnershipInv, TypeInv, TypeOK
  <2>2. /\ c \notin {d \in Clients : phase[d] \in {"open", "draining", "cleanPeers"}}
        /\ {d \in Clients : phase[d] \in {"open", "draining", "cleanPeers"}}'
             = {d \in Clients : phase[d] \in {"open", "draining", "cleanPeers"}} \cup {c}
    BY <2>1
  <2>3. /\ [r \in PeerIds |-> peerOf(r)]' = [r \in PeerIds |-> peerOf(r)]
        /\ {j \in Conns : hook[j] \notin {"none", "installing"}}'
             = {j \in Conns : hook[j] \notin {"none", "installing"}}
    BY <2>1 DEF peerOf
  <2> QED BY <2>2, <2>3 DEF Ownership!Arrive
<1>2. ASSUME OwnershipInv, cleanupPeersDone
      PROVE  \E c \in Clients : Ownership!Leave(c)
  <2>0. PICK c \in Clients : c = mu.client
    BY <1>2 DEF cleanupPeersDone, OwnershipInv, HolderClient
  <2>1. /\ mu.pc = "cleanLoop" /\ mu.op = "cleanup" /\ mu.todo = {}
        /\ phase[c] = "cleanPeers"
    BY <1>2, <2>0 DEF cleanupPeersDone, OwnershipInv, HolderClient
  <2>2. \A p \in PeerIds : peerOwners[p] # c
    BY <1>2, <2>0, <2>1 DEF OwnershipInv, CleanupCovers, Detaching, DetachStages
  <2>3. /\ phase \in [Clients -> Phases]
        /\ phase' = [phase EXCEPT ![c] = "cleanOverlays"]
        /\ UNCHANGED <<activePeers, peerOwners, hook>>
    BY <1>2, <2>0 DEF cleanupPeersDone, OwnershipInv, TypeInv, TypeOK
  <2>4. /\ c \in {d \in Clients : phase[d] \in {"open", "draining", "cleanPeers"}}
        /\ {d \in Clients : phase[d] \in {"open", "draining", "cleanPeers"}}'
             = {d \in Clients : phase[d] \in {"open", "draining", "cleanPeers"}} \ {c}
    BY <2>1, <2>3
  <2>5. /\ [r \in PeerIds |-> peerOf(r)]' = [r \in PeerIds |-> peerOf(r)]
        /\ {j \in Conns : hook[j] \notin {"none", "installing"}}'
             = {j \in Conns : hook[j] \notin {"none", "installing"}}
    BY <2>3 DEF peerOf
  <2>6. \A p \in PeerIds : [r \in PeerIds |-> peerOf(r)][p].owner # c
    BY <2>2 DEF peerOf
  <2>7. Ownership!Leave(c) BY <2>4, <2>5, <2>6 DEF Ownership!Leave
  <2> QED BY <2>7
<1> QED BY <1>1, <1>2

\* Every step of the registry is a step of PeerOwnership or changes nothing
\* that PeerOwnership sees.
LEMMA NextMaps ==
    OwnershipInv /\ Generations /\ [Next]_vars => [Ownership!Next]_Ownership!ownershipVars
<1> SUFFICES ASSUME OwnershipInv, Generations, [Next]_vars
             PROVE  [Ownership!Next]_Ownership!ownershipVars
  OBVIOUS
<1> USE DEF registry, tables, session, inflight
<1>1. ASSUME UNCHANGED <<activePeers, peerOwners, hook, phase>>
      PROVE  UNCHANGED Ownership!ownershipVars
  BY <1>1, StutterMaps
<1>2. ASSUME NEW k \in Conns, UNCHANGED <<activePeers, peerOwners, phase>>,
             \A j \in Conns : j # k => hook'[j] = hook[j], hook'[k] \in Fresh <=> hook[k] \in Fresh
      PROVE  UNCHANGED Ownership!ownershipVars
  BY <1>2, StutterMaps
<1>3. ASSUME NEW k \in Conns, connectionHandler(k), UNCHANGED phase PROVE Ownership!Next
  BY <1>3, HandlerMaps DEF Ownership!Next
<1>4. CASE UNCHANGED vars BY <1>1, <1>4 DEF vars
<1>5. CASE Gateway
  <2>1. ASSUME NEW k \in Conns, AcceptInbound(k) PROVE UNCHANGED Ownership!ownershipVars
    <3>1. hook[k] = "none" BY <2>1 DEF AcceptInbound, Generations, HookMatchesConn
    <3> QED BY <1>2, <2>1, <3>1, RegistryTypes DEF AcceptInbound, Fresh
  <2>2. ASSUME NEW k \in Conns, RemoteClose(k) PROVE UNCHANGED Ownership!ownershipVars
    BY <1>2, <2>2, RegistryTypes DEF RemoteClose, Closed, Fresh
  <2>3. ASSUME NEW k \in Conns, peerDisconnectHandler(k) PROVE UNCHANGED Ownership!ownershipVars
    BY <1>2, <2>3, RegistryTypes DEF peerDisconnectHandler, Fresh
  <2> QED BY <1>1, <1>3, <1>5, <2>1, <2>2, <2>3
          DEF Gateway, InboundConnection, peerQueryHandler, deliver
<1>6. CASE LockHolder
  <2>1. CASE pingExisting \/ pingCandidate
    <3>1. UNCHANGED <<hook, phase>> /\ mu.pc \in {"pingExisting", "ping"}
      BY <2>1 DEF pingExisting, pingCandidate
    <3>2. \/ UNCHANGED <<activePeers, peerOwners>>
          \/ installable(mu.conn, mu.client) /\ installPeer(mu.conn, mu.client)
      BY <2>1 DEF pingExisting, pingCandidate
    <3>3. CASE UNCHANGED <<activePeers, peerOwners>> BY <1>1, <3>1, <3>3
    <3>4. CASE installable(mu.conn, mu.client) /\ installPeer(mu.conn, mu.client)
      BY <3>1, <3>4, ClaimMaps DEF Ownership!Next
    <3> QED BY <3>2, <3>3, <3>4
  <2>2. CASE RegisterClient
    BY <1>1, <1>2, <2>2, RegistryTypes DEF RegisterClient, Generations, HookMatchesConn, Fresh
  <2>3. CASE OutboundConnection
    <3>1. mu.conn \in Conns
      BY <2>3, HolderStage DEF OutboundConnection, ConnStages, PeerStages, Stages
    <3> QED BY <1>3, <2>3, <3>1 DEF OutboundConnection
  <2>4. CASE detachRemove BY <2>4, RemoveMaps DEF Ownership!Next
  <2>5. CASE closePeer
    <3>1. mu.conn \in Conns
      BY <2>5, HolderStage DEF closePeer, ConnStages, PeerStages, Stages
    <3> QED BY <1>2, <2>5, <3>1, RegistryTypes DEF closePeer, Closed, Fresh
  <2>6. CASE cleanupPeersDone
    <3>1. \E c \in Clients : Ownership!Leave(c) BY <2>6, SessionMaps
    <3> QED BY <3>1 DEF Ownership!Next
  <2>7. CASE detachOverlays \/ detachPending \/ detachOwner \/ joinTrack \/ leaveTrack \/ cleanupPeer
    <3>1. UNCHANGED <<activePeers, peerOwners, hook, phase>>
      BY <2>7 DEF detachOverlays, detachPending, detachOwner, joinTrack, leaveTrack, cleanupPeer
    <3> QED BY <1>1, <3>1
  <2> QED BY <1>6, <2>1, <2>2, <2>3, <2>4, <2>5, <2>6, <2>7 DEF LockHolder
<1>7. CASE RequestProgress \/ Inbound \/ sweepPending \/ Tick
  BY <1>1, <1>7
     DEF RequestProgress, Inbound, sweepPending, Tick, checkPeerUse, finishPeerUse,
         checkOverlayUse, finishOverlayUse, checkAnswer, sendAnswer, forgetAnswered,
         OverlayQueryArrives, deliver, recordQuery
<1>8. ASSUME NEW c \in Clients, Request(c) PROVE UNCHANGED Ownership!ownershipVars
  BY <1>1, <1>8
     DEF Request, PeerRequest, OverlayRequest, handleADNLConnect,
         handleADNLConnectByADNL, lockAndLook, handleADNLDisconnect, handleADNLSetQueryHandler,
         handleADNLSendMessage, handleADNLPing, handleADNLQuery, usePeer, handleOverlayLeave,
         handleOverlayQuery, handleOverlayGetPeers, handleOverlaySendMessage,
         handleOverlaySendRaw, handleOverlayBroadcast, useOverlay, handleOverlayJoin,
         handleOverlaySetQueryHandler, handleADNLAnswer, handleOverlayAnswer, findPending
<1>9. ASSUME NEW c \in Clients, Session(c) PROVE [Ownership!Next]_Ownership!ownershipVars
  <2>0. phase \in [Clients -> Phases] BY DEF OwnershipInv, TypeInv, TypeOK
  <2>1. CASE OpenClient(c) BY <2>1, SessionMaps DEF Ownership!Next
  <2>2. CASE EndRead(c) \/ snapshotPeers(c) \/ cleanupOverlays(c)
    <3>1. \A d \in Clients : phase'[d] \in Present <=> phase[d] \in Present
      BY <2>0, <2>2 DEF EndRead, snapshotPeers, cleanupOverlays, Present
    <3> QED BY <2>2, <3>1, StutterMaps DEF EndRead, snapshotPeers, cleanupOverlays
  <2>3. CASE lockForCleanup(c) BY <1>1, <2>3 DEF lockForCleanup
  <2> QED BY <1>9, <2>1, <2>2, <2>3 DEF Session
<1> QED BY <1>4, <1>5, <1>6, <1>7, <1>8, <1>9 DEF Next

\* The registry implements PeerOwnership: whatever the order of connects,
\* detaches, disconnect handlers and tear-downs, a client never leaves while
\* it owns a peer, nobody gets a peer that another client owns, and a
\* connection that was removed does not come back.
THEOREM RegistryImplementsOwnership == Spec => ImplementsPeerOwnership
<1>1. Init => OwnershipInv /\ Generations BY InitOwnership, InitGenerations
<1>2. OwnershipInv /\ Generations /\ [Next]_vars => OwnershipInv' /\ Generations'
  BY NextOwnership, NextGenerations
<1>3. Init => Ownership!Init
  BY DEF Init, Ownership!Init, Ownership!NoPeer, peerOf
<1>4. OwnershipInv /\ Generations /\ [Next]_vars => [Ownership!Next]_Ownership!ownershipVars
  BY NextMaps
<1> QED BY <1>1, <1>2, <1>3, <1>4, PTL DEF Spec, ImplementsPeerOwnership, Ownership!Spec
=============================================================================
