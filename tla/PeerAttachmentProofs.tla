------------------------ MODULE PeerAttachmentProofs ------------------------
(***************************************************************************)
(* Theorems about what hangs on the peers of PeerRegistry: the handlers of *)
(* a connection, the requests that use it, the overlays joined on it and   *)
(* the inbound queries that wait on it.  Every part rests on OwnershipInv  *)
(* of PeerRegistryProofs and on the invariants of the parts before it.     *)
(***************************************************************************)
EXTENDS PeerRegistryProofs, FiniteSetTheorems

-----------------------------------------------------------------------------
(* Generations.  Why a removed connection can never be installed again: it *)
(* is installed only by its connection handler, which runs once.           *)

\* The connection handler has not run to its end.
Fresh == {"none", "installing"}

\* A connection gets its handlers when the transport creates it.
HookMatchesConn == \A k \in Conns : hook[k] = "none" <=> conn[k] = "absent"

\* An installed connection is open, or its disconnect handler is due, or
\* that handler is detaching it.
InstalledHooked ==
    \A k \in Conns : activePeers[ConnId[k]] = k =>
      \/ hook[k] = "set" /\ conn[k] = "open"
      \/ hook[k] = "due" /\ conn[k] = "closed"
      \/ hook[k] = "done" /\ conn[k] = "closed" /\ mu.pc \in DetachStages /\ mu.conn = k

\* A connection whose disconnect handler is armed is installed, or the
\* holder of the lock is about to close it.
HookedInstalled ==
    \A k \in Conns : hook[k] = "set" =>
      conn[k] = "open" /\ (activePeers[ConnId[k]] = k \/ (mu.pc = "close" /\ mu.conn = k))

\* What the holder of the lock knows of the connection it works on.
HolderConn ==
    /\ mu.pc \in {"ping", "pingExisting"} => activePeers[mu.peer] = mu.conn
    /\ mu.pc = "close" => hook[mu.conn] \notin Fresh
    /\ mu.op = "callback" => mu.pc \in DetachStages /\ hook[mu.conn] = "done"

Generations == HookMatchesConn /\ InstalledHooked /\ HookedInstalled /\ HolderConn

\* The initial state has no connections.
LEMMA InitGenerations == Init => Generations
BY RegistryAssumption DEF Init, Generations, HookMatchesConn, InstalledHooked, HookedInstalled,
   HolderConn, Free, Fresh

\* The types that the proofs of this module use.
LEMMA RegistryTypes ==
    ASSUME OwnershipInv
    PROVE  /\ conn \in [Conns -> {"absent", "open", "closed"}]
           /\ hook \in [Conns -> {"none", "installing", "set", "due", "done", "rejected"}]
           /\ activePeers \in [PeerIds -> Conns \cup {None}]
           /\ peerOwners \in [PeerIds -> Clients \cup {None}]
           /\ mu \in Holder
           /\ ConnId \in [Conns -> PeerIds]
           /\ None \notin Conns /\ None \notin Clients /\ None \notin PeerIds
           /\ None \notin Overlays
BY RegistryAssumption DEF OwnershipInv, TypeInv, TypeOK

\* The connection of the holder's stage carries the id of its peer.
LEMMA HolderStage ==
    ASSUME OwnershipInv, mu.pc \in ConnStages
    PROVE  mu.peer \in PeerIds /\ mu.conn \in Conns /\ ConnId[mu.conn] = mu.peer
BY DEF OwnershipInv, TypeInv, HolderOK, ConnStages

\* A holder that detaches works on the installed connection.
LEMMA HolderDetaches ==
    ASSUME OwnershipInv, mu.pc \in DetachStages
    PROVE  /\ mu.peer \in PeerIds /\ mu.conn \in Conns /\ ConnId[mu.conn] = mu.peer
           /\ activePeers[mu.peer] = mu.conn /\ mu.owner = peerOwners[mu.peer]
BY DEF OwnershipInv, TypeInv, HolderOK, DetachKnows, ConnStages, PeerStages, Stages, DetachStages

\* A connection handler, run for an inbound or for a dialled connection,
\* installs that connection only and only if it runs for the first time.
LEMMA HandlerInstalls ==
    ASSUME OwnershipInv, Generations, NEW k \in Conns, connectionHandler(k)
    PROVE  /\ hook[k] = "installing" /\ activePeers[ConnId[k]] # k
           /\ hook'[k] \in {"set", "rejected", "due"}
           /\ \A j \in Conns : j # k => conn'[j] = conn[j] /\ hook'[j] = hook[j]
           /\ \A p \in PeerIds : p # ConnId[k] => activePeers'[p] = activePeers[p]
           /\ conn'[k] # "absent"
           /\ \/ /\ installable(k, None)
                 /\ hook'[k] = "set" /\ conn'[k] = "open" /\ activePeers'[ConnId[k]] = k
                 /\ activePeers[ConnId[k]] = None
              \/ /\ ~installable(k, None)
                 /\ hook'[k] # "set" /\ activePeers' = activePeers
                 /\ activePeers'[ConnId[k]] # k
<1>1. /\ hook[k] = "installing" /\ activePeers[ConnId[k]] # k
  BY DEF connectionHandler, Generations, InstalledHooked
<1>2. ConnId[k] \in PeerIds BY RegistryTypes
<1>3. CASE installable(k, None)
  <2>1. activePeers[ConnId[k]] = None /\ conn[k] = "open" /\ installPeer(k, None)
        /\ hook' = [hook EXCEPT ![k] = "set"] /\ conn' = conn
    BY <1>1, <1>3 DEF installable, connectionHandler
  <2>2. activePeers' = [activePeers EXCEPT ![ConnId[k]] = k]
    BY <2>1 DEF installPeer
  <2> QED BY <1>1, <1>2, <1>3, <2>1, <2>2, RegistryTypes
<1>4. CASE ~installable(k, None)
  <2>1. /\ conn' = [conn EXCEPT ![k] = "closed"] /\ activePeers' = activePeers
        /\ \E h \in {"rejected", "due"} : hook' = [hook EXCEPT ![k] = h]
    BY <1>4 DEF connectionHandler, registry
  <2> QED BY <1>1, <1>2, <1>4, <2>1, RegistryTypes
<1> QED BY <1>3, <1>4

\* A step that changes the lock only, and lets no detach and no Close be
\* forgotten, preserves Generations.
LEMMA LockGenerations ==
    ASSUME OwnershipInv, Generations, UNCHANGED <<conn, hook, activePeers>>, mu.pc # "close",
           mu.pc \in DetachStages => mu'.pc \in DetachStages /\ mu'.conn = mu.conn,
           HolderConn'
    PROVE  Generations'
BY DEF Generations, HookMatchesConn, InstalledHooked, HookedInstalled

\* Steps that touch neither connections nor the lock preserve Generations.
LEMMA FrameGenerations ==
    ASSUME Generations, UNCHANGED <<conn, hook, activePeers, mu>>
    PROVE  Generations'
BY DEF Generations, HookMatchesConn, InstalledHooked, HookedInstalled, HolderConn

\* A connection that is created or closed keeps Generations.
LEMMA TransportGenerations ==
    ASSUME OwnershipInv, Generations, NEW k \in Conns, AcceptInbound(k) \/ RemoteClose(k)
    PROVE  Generations'
<1> USE DEF registry, tables, session, inflight
<1>0. /\ UNCHANGED <<activePeers, mu>>
      /\ \A j \in Conns : j # k => conn'[j] = conn[j] /\ hook'[j] = hook[j]
      /\ \/ conn[k] = "absent" /\ conn'[k] = "open" /\ hook'[k] = "installing"
         \/ conn[k] = "open" /\ conn'[k] = "closed"
            /\ hook'[k] = IF hook[k] = "set" THEN "due" ELSE hook[k]
  BY RegistryTypes DEF AcceptInbound, RemoteClose, Closed
<1>1. HookMatchesConn' BY <1>0 DEF Generations, HookMatchesConn
<1>2. InstalledHooked' BY <1>0 DEF Generations, HookMatchesConn, InstalledHooked
<1>3. HookedInstalled' BY <1>0 DEF Generations, HookedInstalled
<1>4. HolderConn'
  <2>1. mu.pc \in DetachStages \cup {"close"} => mu.conn \in Conns
    BY HolderStage DEF ConnStages, PeerStages, Stages, DetachStages
  <2> QED BY <1>0, <2>1 DEF Generations, HookMatchesConn, HolderConn, Fresh
<1> QED BY <1>1, <1>2, <1>3, <1>4 DEF Generations

\* The connection handler keeps Generations, for an inbound connection and
\* for one the holder of the lock has dialled.
LEMMA HandlerGenerations ==
    ASSUME OwnershipInv, Generations, NEW k \in Conns, connectionHandler(k),
           \/ mu' = mu
           \/ mu.pc = "handler" /\ HolderConn'
    PROVE  Generations'
<1>0. ConnId[k] \in PeerIds BY RegistryTypes
<1>1. HookMatchesConn' BY HandlerInstalls DEF Generations, HookMatchesConn
<1>2. InstalledHooked'
  <2> SUFFICES ASSUME NEW j \in Conns, activePeers'[ConnId[j]] = j
               PROVE  \/ hook'[j] = "set" /\ conn'[j] = "open"
                      \/ hook'[j] = "due" /\ conn'[j] = "closed"
                      \/ hook'[j] = "done" /\ conn'[j] = "closed" /\ mu'.pc \in DetachStages
                         /\ mu'.conn = j
    BY DEF InstalledHooked
  <2>1. CASE j = k BY <2>1, HandlerInstalls
  <2>2. CASE j # k
    <3>1. activePeers[ConnId[j]] = j /\ conn'[j] = conn[j] /\ hook'[j] = hook[j]
      BY <2>2, HandlerInstalls, RegistryTypes
    <3>2. mu.pc \in DetachStages => mu' = mu BY DEF DetachStages
    <3> QED BY <3>1, <3>2 DEF Generations, InstalledHooked
  <2> QED BY <2>1, <2>2
<1>3. HookedInstalled'
  <2> SUFFICES ASSUME NEW j \in Conns, hook'[j] = "set"
               PROVE  /\ conn'[j] = "open"
                      /\ activePeers'[ConnId[j]] = j \/ (mu'.pc = "close" /\ mu'.conn = j)
    BY DEF HookedInstalled
  <2>1. CASE j = k BY <2>1, HandlerInstalls
  <2>2. CASE j # k
    <3>1. conn'[j] = conn[j] /\ hook[j] = "set" BY <2>2, HandlerInstalls
    <3>2. activePeers[ConnId[j]] = j => activePeers'[ConnId[j]] = j
      BY <2>2, HandlerInstalls, RegistryTypes
    <3> QED BY <3>1, <3>2 DEF Generations, HookedInstalled
  <2> QED BY <2>1, <2>2
<1>4. HolderConn'
  <2> SUFFICES ASSUME mu' = mu PROVE HolderConn'
    OBVIOUS
  <2>1. mu.pc \in DetachStages \cup {"close", "ping", "pingExisting"} =>
          mu.conn \in Conns /\ ConnId[mu.conn] = mu.peer /\ mu.peer \in PeerIds
    BY HolderStage DEF ConnStages, PeerStages, Stages, DetachStages
  <2>2. mu.pc = "close" \/ mu.op = "callback" => hook'[mu.conn] = hook[mu.conn]
    BY <2>1, HandlerInstalls DEF Generations, HolderConn, Fresh
  <2>3. mu.pc \in {"ping", "pingExisting"} => activePeers'[mu.peer] = mu.conn
    BY <2>1, HandlerInstalls, RegistryTypes DEF Generations, HolderConn
  <2> QED BY <2>2, <2>3 DEF Generations, HolderConn
<1> QED BY <1>1, <1>2, <1>3, <1>4 DEF Generations

\* A claim by the holder of the lock changes the owner, not the connection.
LEMMA ClaimKeepsConnection ==
    ASSUME OwnershipInv, Generations, mu.pc \in {"ping", "pingExisting"},
           NEW c, installPeer(mu.conn, c)
    PROVE  activePeers' = activePeers
<1>1. mu.peer \in PeerIds /\ ConnId[mu.conn] = mu.peer
  BY HolderStage DEF ConnStages, PeerStages, Stages, DetachStages
<1>2. activePeers[mu.peer] = mu.conn BY DEF Generations, HolderConn
<1> QED BY <1>1, <1>2, RegistryTypes DEF installPeer

\* Giving the lock back claims nothing about a connection.
LEMMA FreeHolderConn == mu' = Free => HolderConn'
BY DEF HolderConn, Free, Fresh

\* Nor does going on to the next endpoint.
LEMMA NextEndpointHolderConn ==
    ASSUME OwnershipInv, mu.op = "connect", mu' = nextEndpoint
    PROVE  HolderConn'
<1>1. CASE mu' = Free BY <1>1, FreeHolderConn
<1>2. CASE mu' = [mu EXCEPT !.pc = "register", !.conn = None, !.tries = @ - 1]
  <2>1. mu'.pc = "register" /\ mu'.op = "connect" BY <1>2, RegistryTypes DEF Holder
  <2> QED BY <2>1 DEF HolderConn
<1> QED BY <1>1, <1>2 DEF nextEndpoint

\* A detach that begins for a request or a clean-up.
LEMMA BeginDetachHolderConn ==
    ASSUME NEW h \in Holder, NEW p, NEW k, beginDetach(h, p, k), h.op # "callback"
    PROVE  HolderConn'
<1>1. mu'.pc = "detOverlays" /\ mu'.op = h.op BY DEF beginDetach, Holder
<1> QED BY <1>1 DEF HolderConn

\* The stages of a detach and the Close that follows keep Generations.
LEMMA DetachGenerations ==
    ASSUME OwnershipInv, Generations,
           \/ detachOverlays \/ detachPending \/ detachOwner \/ detachRemove \/ closePeer
    PROVE  Generations'
<1> USE DEF registry, tables, session, inflight
<1>0. mu \in Holder BY RegistryTypes
<1>1. CASE detachOverlays \/ detachPending \/ detachOwner
  <2>1. /\ mu.pc \in DetachStages /\ mu.pc # "close" /\ mu'.pc \in DetachStages
        /\ mu'.op = mu.op /\ mu'.conn = mu.conn
        /\ UNCHANGED <<conn, hook, activePeers>>
    BY <1>0, <1>1 DEF detachOverlays, detachPending, detachOwner, DetachStages, Holder
  <2>2. HolderConn'
    BY <2>1 DEF Generations, HolderConn, DetachStages
  <2> QED BY <2>1, <2>2, LockGenerations
<1>2. CASE detachRemove
  <2> DEFINE k == mu.conn  p == mu.peer
  <2>1. /\ mu.pc = "detRemove" /\ k \in Conns /\ p \in PeerIds /\ ConnId[k] = p
        /\ activePeers[p] = k
    BY <1>2, HolderDetaches DEF detachRemove, DetachStages
  <2>2. UNCHANGED <<conn, hook>> /\ activePeers' = [activePeers EXCEPT ![p] = None]
    BY <1>2, <2>1 DEF detachRemove
  <2>3. \A r \in PeerIds : r # p => activePeers'[r] = activePeers[r]
    BY <2>2, RegistryTypes
  <2>4. activePeers'[p] = None BY <2>1, <2>2, RegistryTypes
  <2>5. hook[k] \notin Fresh /\ (mu.op = "callback" => hook[k] = "done")
    BY <2>1 DEF Generations, InstalledHooked, HolderConn, Fresh
  <2>6. /\ mu.op = "callback" => mu' = Free
        /\ mu.op # "callback" => mu'.pc = "close" /\ mu'.op = mu.op /\ mu'.conn = k
    BY <1>0, <1>2 DEF detachRemove, Release, Holder
  <2> HIDE DEF k, p
  <2>7. HolderConn'
    BY <2>2, <2>5, <2>6, FreeHolderConn DEF HolderConn
  <2>8. HookMatchesConn' BY <2>2 DEF Generations, HookMatchesConn
  <2>9. InstalledHooked'
    <3> SUFFICES ASSUME NEW j \in Conns, activePeers'[ConnId[j]] = j
                 PROVE  \/ hook[j] = "set" /\ conn[j] = "open"
                        \/ hook[j] = "due" /\ conn[j] = "closed"
      BY <2>2 DEF InstalledHooked
    <3>1. activePeers[ConnId[j]] = j /\ ConnId[j] # p
      BY <2>3, <2>4, RegistryTypes
    <3>2. j # k BY <2>1, <3>1
    <3> QED BY <3>1, <3>2 DEF Generations, InstalledHooked, k
  <2>10. HookedInstalled'
    <3> SUFFICES ASSUME NEW j \in Conns, hook[j] = "set"
                 PROVE  /\ conn[j] = "open"
                        /\ activePeers'[ConnId[j]] = j \/ (mu'.pc = "close" /\ mu'.conn = j)
      BY <2>2 DEF HookedInstalled
    <3>1. conn[j] = "open" /\ activePeers[ConnId[j]] = j
      BY <2>1 DEF Generations, HookedInstalled
    <3>2. CASE j = k BY <2>5, <2>6, <3>1, <3>2
    <3>3. CASE j # k
      <4>1. ConnId[j] # p /\ ConnId[j] \in PeerIds BY <2>1, <3>1, <3>3, RegistryTypes
      <4> QED BY <2>3, <3>1, <4>1
    <3> QED BY <3>2, <3>3
  <2> QED BY <2>7, <2>8, <2>9, <2>10 DEF Generations
<1>3. CASE closePeer
  <2> DEFINE k == mu.conn
  <2>1. mu.pc = "close" /\ k \in Conns
    BY <1>3, HolderStage DEF closePeer, ConnStages, PeerStages, Stages
  <2>2. /\ UNCHANGED activePeers
        /\ conn'[k] = "closed" /\ hook'[k] = (IF hook[k] = "set" THEN "due" ELSE hook[k])
        /\ \A j \in Conns : j # k => conn'[j] = conn[j] /\ hook'[j] = hook[j]
    BY <1>3, <2>1, RegistryTypes DEF closePeer, Closed
  <2>3. hook[k] \notin Fresh /\ mu.op # "callback"
    BY <2>1 DEF Generations, HolderConn, DetachStages
  <2>4. HolderConn'
    <3>1. CASE mu.op = "connect"
      BY <1>3, <3>1, NextEndpointHolderConn DEF closePeer
    <3>2. CASE mu.op = "cleanup"
      <4>1. mu' = [mu EXCEPT !.pc = "cleanLoop", !.conn = None, !.peer = None]
        BY <1>3, <3>2 DEF closePeer
      <4>2. mu'.pc = "cleanLoop" /\ mu'.op = "cleanup"
        BY <1>0, <3>2, <4>1 DEF Holder
      <4> QED BY <4>2 DEF HolderConn
    <3>3. CASE mu.op \notin {"connect", "cleanup"}
      BY <1>3, <3>3, FreeHolderConn DEF closePeer
    <3> QED BY <3>1, <3>2, <3>3
  <2>5. HookMatchesConn' BY <2>2, <2>3 DEF Generations, HookMatchesConn, Fresh
  <2>6. InstalledHooked'
    BY <2>1, <2>2, <2>3 DEF Generations, InstalledHooked, DetachStages
  <2>7. HookedInstalled'
    BY <2>1, <2>2, <2>3 DEF Generations, HookedInstalled
  <2> QED BY <2>4, <2>5, <2>6, <2>7 DEF Generations
<1> QED BY <1>1, <1>2, <1>3

\* The steps of a connect keep Generations.
LEMMA ConnectGenerations ==
    ASSUME OwnershipInv, Generations,
           \/ pingExisting \/ RegisterClient \/ OutboundConnection \/ pingCandidate
    PROVE  Generations'
<1> USE DEF registry, tables, session, inflight
<1>0. mu \in Holder BY RegistryTypes
<1>a. mu.pc \in ConnectStages => mu.op = "connect" BY DEF OwnershipInv, HolderClient
<1>1. CASE pingExisting
  <2>1. mu.pc = "pingExisting" /\ mu' = Free /\ UNCHANGED <<conn, hook>>
    BY <1>1 DEF pingExisting, Release
  <2>2. activePeers' = activePeers
    BY <1>1, <2>1, ClaimKeepsConnection DEF pingExisting
  <2> QED BY <2>1, <2>2, LockGenerations, FreeHolderConn DEF DetachStages
<1>2. CASE RegisterClient
  <2>1. mu.pc = "register" /\ mu.op = "connect" /\ activePeers' = activePeers /\ mu.peer \in PeerIds
    BY <1>2, <1>a DEF RegisterClient, ConnectStages, OwnershipInv, TypeInv, HolderOK, PeerStages,
       Stages
  <2>2. CASE mu' = nextEndpoint /\ UNCHANGED <<conn, hook>>
    BY <2>1, <2>2, NextEndpointHolderConn, LockGenerations DEF DetachStages
  <2>3. ASSUME NEW k \in Conns, ConnId[k] = mu.peer, conn[k] = "open", hook[k] = "set",
               mu' = [mu EXCEPT !.pc = "ping", !.conn = k], UNCHANGED <<conn, hook>>
        PROVE  Generations'
    <3>1. mu'.pc = "ping" /\ mu'.op = "connect" /\ mu'.conn = k /\ mu'.peer = mu.peer
      BY <1>0, <2>1, <2>3 DEF Holder
    <3>2. activePeers[mu.peer] = k BY <2>1, <2>3 DEF Generations, HookedInstalled
    <3>3. HolderConn' BY <2>1, <3>1, <3>2 DEF HolderConn
    <3> QED BY <2>1, <2>3, <3>3, LockGenerations DEF DetachStages
  <2>4. ASSUME NEW k \in Conns, ConnId[k] = mu.peer, conn[k] = "absent",
               conn' = [conn EXCEPT ![k] = "open"], hook' = [hook EXCEPT ![k] = "installing"],
               mu' = [mu EXCEPT !.pc = "handler", !.conn = k]
        PROVE  Generations'
    <3>1. mu'.pc = "handler" /\ mu'.op = "connect" BY <1>0, <2>1, <2>4 DEF Holder
    <3>2. /\ conn'[k] = "open" /\ hook'[k] = "installing"
          /\ \A j \in Conns : j # k => conn'[j] = conn[j] /\ hook'[j] = hook[j]
      BY <2>4, RegistryTypes
    <3>3. HolderConn' BY <3>1 DEF HolderConn
    <3>4. HookMatchesConn' BY <3>2 DEF Generations, HookMatchesConn
    <3>5. InstalledHooked'
      BY <2>1, <2>4, <3>2 DEF Generations, InstalledHooked, HookMatchesConn, DetachStages
    <3>6. HookedInstalled'
      BY <2>1, <3>2 DEF Generations, HookedInstalled
    <3> QED BY <3>3, <3>4, <3>5, <3>6 DEF Generations
  <2> QED BY <1>2, <2>2, <2>3, <2>4 DEF RegisterClient
<1>3. CASE OutboundConnection
  <2>1. mu.pc = "handler" /\ mu.op = "connect" /\ connectionHandler(mu.conn)
    BY <1>3, <1>a DEF OutboundConnection, ConnectStages
  <2>2. mu.conn \in Conns /\ mu.peer \in PeerIds /\ ConnId[mu.conn] = mu.peer
    BY <2>1, HolderStage DEF ConnStages, PeerStages, Stages
  <2>3. HolderConn'
    <3>1. CASE installable(mu.conn, None)
      <4>1. mu'.pc = "ping" /\ mu'.op = "connect" /\ mu'.peer = mu.peer /\ mu'.conn = mu.conn
        BY <1>0, <1>3, <2>1, <3>1 DEF OutboundConnection, Holder
      <4>2. activePeers'[mu.peer] = mu.conn BY <2>1, <2>2, <3>1, HandlerInstalls
      <4> QED BY <4>1, <4>2 DEF HolderConn
    <3>2. CASE ~installable(mu.conn, None)
      BY <1>3, <2>1, <3>2, NextEndpointHolderConn DEF OutboundConnection
    <3> QED BY <3>1, <3>2
  <2> QED BY <2>1, <2>2, <2>3, HandlerGenerations
<1>4. CASE pingCandidate
  <2>1. /\ mu.pc = "ping" /\ mu.op = "connect" /\ UNCHANGED <<conn, hook>>
        /\ activePeers[mu.peer] = mu.conn
    BY <1>4, <1>a DEF pingCandidate, ConnectStages, Generations, HolderConn
  <2>2. activePeers' = activePeers
    BY <1>4, <2>1, ClaimKeepsConnection DEF pingCandidate
  <2>3. HolderConn'
    <3>1. ASSUME NEW h \in Holder, h.op = "connect", abandonCandidate(h) PROVE HolderConn'
      BY <2>1, <3>1, BeginDetachHolderConn DEF abandonCandidate
    <3>2. CASE Release BY <3>2, FreeHolderConn DEF Release
    <3>3. CASE abandonCandidate(mu) BY <1>0, <2>1, <3>1, <3>3
    <3>4. CASE abandonCandidate([mu EXCEPT !.tries = 1])
      <4>1. [mu EXCEPT !.tries = 1] \in Holder /\ [mu EXCEPT !.tries = 1].op = "connect"
        BY <1>0, <2>1 DEF Holder
      <4> QED BY <3>1, <3>4, <4>1
    <3> QED BY <1>4, <3>2, <3>3, <3>4 DEF pingCandidate
  <2> QED BY <2>1, <2>2, <2>3, LockGenerations DEF DetachStages
<1> QED BY <1>1, <1>2, <1>3, <1>4

\* The other steps of the holder of the lock keep Generations.
LEMMA TrackGenerations ==
    ASSUME OwnershipInv, Generations,
           joinTrack \/ leaveTrack \/ cleanupPeer \/ cleanupPeersDone
    PROVE  Generations'
<1> USE DEF registry, tables, session, inflight
<1>0. mu \in Holder BY RegistryTypes
<1>1. CASE joinTrack \/ leaveTrack \/ cleanupPeersDone
  <2>1. /\ mu' = Free /\ mu.pc \in {"joinTrack", "leaveTrack", "cleanLoop"}
        /\ UNCHANGED <<conn, hook, activePeers>>
    BY <1>1 DEF joinTrack, leaveTrack, cleanupPeersDone, Release
  <2> QED BY <2>1, FreeHolderConn, LockGenerations DEF DetachStages
<1>2. CASE cleanupPeer
  <2>1. mu.pc = "cleanLoop" /\ mu.op = "cleanup" /\ UNCHANGED <<conn, hook, activePeers>>
    BY <1>2 DEF cleanupPeer, OwnershipInv, HolderClient
  <2>2. PICK p \in mu.todo :
          IF activePeers[p] # None
            THEN beginDetach([mu EXCEPT !.todo = @ \ {p}], p, activePeers[p])
            ELSE mu' = [mu EXCEPT !.todo = @ \ {p}]
    BY <1>2 DEF cleanupPeer
  <2>3. /\ [mu EXCEPT !.todo = @ \ {p}] \in Holder
        /\ [mu EXCEPT !.todo = @ \ {p}].op = "cleanup"
        /\ [mu EXCEPT !.todo = @ \ {p}].pc = "cleanLoop"
    BY <1>0, <2>1 DEF Holder
  <2>4. HolderConn'
    <3>1. CASE activePeers[p] # None BY <2>2, <2>3, <3>1, BeginDetachHolderConn
    <3>2. CASE activePeers[p] = None
      <4>1. mu'.pc = "cleanLoop" /\ mu'.op = "cleanup" BY <2>2, <2>3, <3>2
      <4> QED BY <4>1 DEF HolderConn
    <3> QED BY <3>1, <3>2
  <2> QED BY <2>1, <2>4, LockGenerations DEF DetachStages
<1> QED BY <1>1, <1>2

\* The gateway and the handlers it calls keep Generations.
LEMMA GatewayGenerations ==
    ASSUME OwnershipInv, Generations, Gateway
    PROVE  Generations'
<1> USE DEF registry, tables, session, inflight
<1>1. PICK k \in Conns :
        \/ AcceptInbound(k) \/ InboundConnection(k) \/ RemoteClose(k)
        \/ peerDisconnectHandler(k)
        \/ \E q \in Queries : peerQueryHandler(k, q)
  BY DEF Gateway
<1>2. CASE AcceptInbound(k) \/ RemoteClose(k) BY <1>2, TransportGenerations
<1>3. CASE InboundConnection(k) BY <1>3, HandlerGenerations DEF InboundConnection
<1>4. CASE \E q \in Queries : peerQueryHandler(k, q)
  BY <1>4, FrameGenerations DEF peerQueryHandler, deliver
<1>5. CASE peerDisconnectHandler(k)
  <2>1. /\ hook[k] = "due" /\ hook'[k] = "done" /\ UNCHANGED <<conn, activePeers>> /\ mu = Free
        /\ \A j \in Conns : j # k => hook'[j] = hook[j]
    BY <1>5, RegistryTypes DEF peerDisconnectHandler
  <2>2. mu.pc = "free" /\ mu.op = "none" BY <2>1 DEF Free
  <2>3. activePeers[ConnId[k]] # k => mu' = mu
    BY <1>5 DEF peerDisconnectHandler
  <2>4. activePeers[ConnId[k]] = k => mu'.pc = "detOverlays" /\ mu'.conn = k
    <3> SUFFICES ASSUME activePeers[ConnId[k]] = k PROVE mu'.pc = "detOverlays" /\ mu'.conn = k
      OBVIOUS
    <3>1. [Free EXCEPT !.op = "callback"] \in Holder BY FreeType DEF Holder, Ops
    <3>2. beginDetach([Free EXCEPT !.op = "callback"], ConnId[k], k)
      BY <1>5 DEF peerDisconnectHandler
    <3> QED BY <3>1, <3>2 DEF beginDetach, Holder
  <2>5. HookMatchesConn'
    BY <2>1 DEF Generations, HookMatchesConn
  <2>6. InstalledHooked'
    BY <2>1, <2>2, <2>4 DEF Generations, InstalledHooked, DetachStages
  <2>7. HookedInstalled'
    BY <2>1, <2>2 DEF Generations, HookedInstalled
  <2>8. HolderConn'
    BY <2>1, <2>2, <2>3, <2>4 DEF HolderConn, DetachStages
  <2> QED BY <2>5, <2>6, <2>7, <2>8 DEF Generations
<1> QED BY <1>1, <1>2, <1>3, <1>4, <1>5

\* A request or a clean-up that takes the free lock keeps Generations.
LEMMA TakeLockGenerations ==
    ASSUME OwnershipInv, Generations, NEW c \in Clients, Request(c) \/ Session(c)
    PROVE  Generations'
<1> USE DEF registry, tables, session, inflight
<1>0. UNCHANGED <<conn, hook, activePeers>>
  BY DEF Request, PeerRequest, OverlayRequest, Session, handleADNLConnect,
     handleADNLConnectByADNL, lockAndLook, handleADNLDisconnect, handleADNLSetQueryHandler,
     handleADNLSendMessage, handleADNLPing, handleADNLQuery, usePeer, handleOverlayLeave,
     handleOverlayQuery, handleOverlayGetPeers, handleOverlaySendMessage, handleOverlaySendRaw,
     handleOverlayBroadcast, useOverlay, handleOverlayJoin, handleOverlaySetQueryHandler,
     handleADNLAnswer, handleOverlayAnswer, findPending, OpenClient, EndRead, snapshotPeers,
     lockForCleanup, cleanupOverlays
<1>1. CASE mu' = mu BY <1>0, <1>1, FrameGenerations
<1>2. ASSUME mu = Free, HolderConn' PROVE Generations'
  <2>1. mu.pc = "free" BY <1>2 DEF Free
  <2> QED BY <1>0, <1>2, <2>1, LockGenerations DEF DetachStages
<1>3. ASSUME NEW p \in PeerIds, NEW n \in Nat, lockAndLook(c, p, n) PROVE Generations'
  <2>1. /\ mu = Free /\ mu'.op = "connect"
        /\ \/ mu'.pc = "pingExisting" /\ mu'.peer = p /\ mu'.conn = activePeers[p]
           \/ mu'.pc = "register"
    BY <1>3 DEF lockAndLook, Locked, Free
  <2>2. HolderConn' BY <1>0, <2>1 DEF HolderConn
  <2> QED BY <1>2, <2>1, <2>2
<1>4. ASSUME NEW p \in PeerIds, handleADNLDisconnect(c, p) PROVE Generations'
  <2>1. /\ [Free EXCEPT !.op = "disconnect", !.client = c] \in Holder
        /\ [Free EXCEPT !.op = "disconnect", !.client = c].op = "disconnect"
    BY FreeType DEF Holder, Ops
  <2>2. HolderConn' BY <1>4, <2>1, BeginDetachHolderConn DEF handleADNLDisconnect
  <2> QED BY <1>2, <1>4, <2>2 DEF handleADNLDisconnect, Locked
<1>5. ASSUME mu = Free, mu'.pc \in {"joinTrack", "leaveTrack", "cleanLoop"},
             mu'.op \in {"join", "leave", "cleanup"}
      PROVE  Generations'
  <2>1. HolderConn' BY <1>5 DEF HolderConn
  <2> QED BY <1>2, <1>5, <2>1
<1>6. CASE Request(c)
  <2>1. ASSUME NEW p \in PeerIds, PeerRequest(c, p) PROVE Generations'
    BY <1>1, <1>3, <1>4, <2>1, RegistryAssumption
       DEF PeerRequest, handleADNLConnect, handleADNLConnectByADNL, handleADNLSetQueryHandler,
           handleADNLSendMessage, handleADNLPing, handleADNLQuery, usePeer
  <2>2. ASSUME NEW o \in Overlays, OverlayRequest(c, o) PROVE Generations'
    <3>1. CASE handleOverlayLeave(c, o) \/ \E p \in PeerIds : handleOverlayJoin(c, o, p)
      <4>1. /\ mu = Free /\ mu'.pc \in {"joinTrack", "leaveTrack"}
            /\ mu'.op \in {"join", "leave"}
        BY <3>1 DEF handleOverlayLeave, handleOverlayJoin, Locked, Free
      <4> QED BY <1>5, <4>1
    <3> QED BY <1>1, <2>2, <3>1
            DEF OverlayRequest, handleOverlayQuery, handleOverlaySetQueryHandler,
                handleOverlayGetPeers, handleOverlaySendMessage, handleOverlaySendRaw,
                handleOverlayBroadcast, useOverlay
  <2> QED BY <1>1, <1>6, <2>1, <2>2 DEF Request, handleADNLAnswer, handleOverlayAnswer, findPending
<1>7. CASE Session(c)
  <2>1. CASE lockForCleanup(c)
    <3>1. mu = Free /\ mu'.pc = "cleanLoop" /\ mu'.op = "cleanup"
      BY <2>1 DEF lockForCleanup, Free
    <3> QED BY <1>5, <3>1
  <2> QED BY <1>1, <1>7, <2>1 DEF Session, OpenClient, EndRead, snapshotPeers, cleanupOverlays
<1> QED BY <1>6, <1>7

\* Every step keeps Generations.
LEMMA NextGenerations == OwnershipInv /\ Generations /\ [Next]_vars => Generations'
<1> SUFFICES ASSUME OwnershipInv, Generations, [Next]_vars PROVE Generations'
  OBVIOUS
<1> USE DEF registry, tables, session, inflight
<1>1. CASE UNCHANGED vars BY <1>1, FrameGenerations DEF vars
<1>2. CASE Gateway BY <1>2, GatewayGenerations
<1>3. CASE LockHolder
  BY <1>3, DetachGenerations, ConnectGenerations, TrackGenerations DEF LockHolder
<1>4. CASE RequestProgress \/ Inbound \/ sweepPending \/ Tick
  BY <1>4, FrameGenerations
     DEF RequestProgress, Inbound, sweepPending, Tick, checkPeerUse, finishPeerUse,
         checkOverlayUse, finishOverlayUse, checkAnswer, sendAnswer, forgetAnswered,
         OverlayQueryArrives, deliver, recordQuery
<1>5. ASSUME NEW c \in Clients, Request(c) \/ Session(c) PROVE Generations'
  BY <1>5, TakeLockGenerations
<1> QED BY <1>1, <1>2, <1>3, <1>4, <1>5 DEF Next

\* A closed connection stays in activePeers only until its disconnect handler
\* or the detach that is under way removes it.
THEOREM NoZombieEver == Spec => []NoZombie
<1>1. Init => OwnershipInv /\ Generations BY InitOwnership, InitGenerations
<1>2. OwnershipInv /\ Generations /\ [Next]_vars => OwnershipInv' /\ Generations'
  BY NextOwnership, NextGenerations
<1>3. OwnershipInv /\ Generations => NoZombie
  <2> SUFFICES ASSUME OwnershipInv, Generations, NEW p \in PeerIds,
                      activePeers[p] # None, conn[activePeers[p]] = "closed"
               PROVE  \/ hook[activePeers[p]] = "due"
                      \/ Detaching(p) /\ mu.conn = activePeers[p]
    BY DEF NoZombie
  <2>1. activePeers[p] \in Conns /\ ConnId[activePeers[p]] = p
    BY DEF OwnershipInv, TypeInv, TypeOK, KeyedById
  <2>2. mu.pc \in DetachStages => ConnId[mu.conn] = mu.peer BY HolderDetaches
  <2> QED BY <2>1, <2>2 DEF Generations, InstalledHooked, Detaching
<1> QED BY <1>1, <1>2, <1>3, PTL DEF Spec

-----------------------------------------------------------------------------
(* Requests that use a peer.  They hold a connection they read earlier,    *)
(* so they rely on it not coming back under another owner.                 *)

\* What one step may do to a connection whose handler has run: it stays so,
\* and if it is not installed it does not become installed.
StaysRemoved ==
    \A k \in Conns : hook[k] \notin Fresh =>
      /\ hook'[k] \notin Fresh
      /\ activePeers'[ConnId[k]] = k => activePeers[ConnId[k]] = k

\* No step installs a connection again after it has been removed.
LEMMA NextStaysRemoved == OwnershipInv /\ Generations /\ [Next]_vars => StaysRemoved
<1> SUFFICES ASSUME OwnershipInv, Generations, [Next]_vars PROVE StaysRemoved
  OBVIOUS
<1> USE DEF registry, tables, session, inflight
<1>1. ASSUME UNCHANGED <<hook, activePeers>> PROVE StaysRemoved
  BY <1>1 DEF StaysRemoved
<1>2. ASSUME NEW k \in Conns, connectionHandler(k) PROVE StaysRemoved
  BY <1>2, HandlerInstalls, RegistryTypes DEF StaysRemoved, Fresh
<1>3. CASE UNCHANGED vars BY <1>1, <1>3 DEF vars
<1>4. CASE Gateway
  <2>1. ASSUME NEW k \in Conns, AcceptInbound(k) PROVE StaysRemoved
    BY <2>1, RegistryTypes DEF AcceptInbound, StaysRemoved, Generations, HookMatchesConn, Fresh
  <2>2. ASSUME NEW k \in Conns, RemoteClose(k) PROVE StaysRemoved
    BY <2>2, RegistryTypes DEF RemoteClose, Closed, StaysRemoved, Fresh
  <2>3. ASSUME NEW k \in Conns, peerDisconnectHandler(k) PROVE StaysRemoved
    BY <2>3, RegistryTypes DEF peerDisconnectHandler, StaysRemoved, Fresh
  <2> QED BY <1>1, <1>2, <1>4, <2>1, <2>2, <2>3
          DEF Gateway, InboundConnection, peerQueryHandler, deliver
<1>5. CASE LockHolder
  <2>1. CASE pingExisting \/ pingCandidate
    BY <1>1, <2>1, ClaimKeepsConnection DEF pingExisting, pingCandidate
  <2>2. CASE RegisterClient
    BY <2>2, RegistryTypes DEF RegisterClient, StaysRemoved, Generations, HookMatchesConn, Fresh
  <2>3. CASE OutboundConnection
    <3>1. mu.conn \in Conns
      BY <2>3, HolderStage DEF OutboundConnection, ConnStages, PeerStages, Stages
    <3> QED BY <1>2, <2>3, <3>1 DEF OutboundConnection
  <2>4. CASE detachRemove
    BY <2>4, RegistryTypes DEF detachRemove, StaysRemoved
  <2>5. CASE closePeer
    <3>1. mu.conn \in Conns
      BY <2>5, HolderStage DEF closePeer, ConnStages, PeerStages, Stages
    <3> QED BY <2>5, <3>1, RegistryTypes DEF closePeer, Closed, StaysRemoved, Fresh
  <2> QED BY <1>1, <1>5, <2>1, <2>2, <2>3, <2>4, <2>5
          DEF LockHolder, detachOverlays, detachPending, detachOwner, joinTrack, leaveTrack,
              cleanupPeer, cleanupPeersDone
<1>6. CASE RequestProgress \/ Inbound \/ sweepPending \/ Tick
  BY <1>1, <1>6
     DEF RequestProgress, Inbound, sweepPending, Tick, checkPeerUse, finishPeerUse,
         checkOverlayUse, finishOverlayUse, checkAnswer, sendAnswer, forgetAnswered,
         OverlayQueryArrives, deliver, recordQuery
<1>7. ASSUME NEW c \in Clients, Request(c) \/ Session(c) PROVE StaysRemoved
  BY <1>1, <1>7
     DEF Request, PeerRequest, OverlayRequest, Session, handleADNLConnect,
         handleADNLConnectByADNL, lockAndLook, handleADNLDisconnect, handleADNLSetQueryHandler,
         handleADNLSendMessage, handleADNLPing, handleADNLQuery, usePeer, handleOverlayLeave,
         handleOverlayQuery, handleOverlayGetPeers, handleOverlaySendMessage,
         handleOverlaySendRaw, handleOverlayBroadcast, useOverlay, handleOverlayJoin,
         handleOverlaySetQueryHandler, handleADNLAnswer, handleOverlayAnswer, findPending,
         OpenClient, EndRead, snapshotPeers, lockForCleanup, cleanupOverlays
<1> QED BY <1>3, <1>4, <1>5, <1>6, <1>7 DEF Next

\* The connection that a request holds was installed when it was read, and
\* a request that passed the check owns it as long as it is installed.
UsesInv == PeerUseOwned /\ \A u \in peerUses : hook[u.conn] \notin Fresh

\* What any step leaves true of a request that stays as it is.
LEMMA UseKept ==
    ASSUME OwnershipInv, StaysRemoved, NoTakeoverStep, NEW k \in Conns, NEW c \in Clients,
           hook[k] \notin Fresh
    PROVE  /\ hook'[k] \notin Fresh
           /\ (activePeers[ConnId[k]] = k => peerOwners[ConnId[k]] = c)
                => (activePeers'[ConnId[k]] = k => peerOwners'[ConnId[k]] = c)
<1>1. ConnId[k] \in PeerIds /\ k # None /\ c # None BY RegistryTypes
<1> QED BY <1>1 DEF StaysRemoved, NoTakeoverStep

\* Every step keeps the requests on peers honest.
LEMMA NextUses == OwnershipInv /\ Generations /\ UsesInv /\ [Next]_vars => UsesInv'
<1> SUFFICES ASSUME OwnershipInv, Generations, UsesInv, [Next]_vars PROVE UsesInv'
  OBVIOUS
<1> USE DEF registry, tables, session, inflight
<1>1. StaysRemoved /\ NoTakeoverStep BY NextStaysRemoved, NextNoTakeover
<1>2. ASSUME NEW u \in peerUses
      PROVE  /\ hook'[u.conn] \notin Fresh
             /\ u.stage = "granted" => activePeers'[ConnId[u.conn]] # u.conn
                                       \/ peerOwners'[ConnId[u.conn]] = u.client
  <2>1. u.conn \in Conns /\ u.client \in Clients /\ hook[u.conn] \notin Fresh
    BY DEF OwnershipInv, TypeInv, TypeOK, PeerUse, UsesInv
  <2>2. u.stage = "granted" => (activePeers[ConnId[u.conn]] = u.conn
                                => peerOwners[ConnId[u.conn]] = u.client)
    BY DEF UsesInv, PeerUseOwned
  <2> QED BY <1>1, <2>1, <2>2, UseKept
<1>3. ASSUME peerUses' \subseteq peerUses PROVE UsesInv'
  BY <1>2, <1>3 DEF UsesInv, PeerUseOwned
<1>4. ASSUME NEW v, peerUses' \subseteq peerUses \cup {v}, hook'[v.conn] \notin Fresh,
             v.stage = "granted" => activePeers'[ConnId[v.conn]] # v.conn
                                    \/ peerOwners'[ConnId[v.conn]] = v.client
      PROVE  UsesInv'
  BY <1>2, <1>4 DEF UsesInv, PeerUseOwned
<1>5. ASSUME NEW c \in Clients, NEW p \in PeerIds, usePeer(c, p) PROVE UsesInv'
  <2> DEFINE v == [client |-> c, conn |-> activePeers[p], stage |-> "read"]
  <2>1. peerUses' \subseteq peerUses \cup {v} /\ UNCHANGED hook
    BY <1>5 DEF usePeer
  <2>2. activePeers[p] \in Conns /\ ConnId[activePeers[p]] = p
    BY <1>5 DEF usePeer, OwnershipInv, TypeInv, TypeOK, KeyedById
  <2>3. hook[activePeers[p]] \notin Fresh
    BY <2>2 DEF Generations, InstalledHooked, Fresh
  <2>4. v.conn = activePeers[p] /\ v.stage = "read" OBVIOUS
  <2> HIDE DEF v
  <2> QED BY <1>4, <2>1, <2>3, <2>4
<1>6. ASSUME NEW u \in peerUses, checkPeerUse(u) PROVE UsesInv'
  <2>1. u \in PeerUse /\ u.client \in Clients /\ u.conn \in Conns /\ ConnId[u.conn] \in PeerIds
    BY RegistryTypes DEF OwnershipInv, TypeInv, TypeOK, PeerUse
  <2>2. CASE clientOwnsPeer(u.client, ConnId[u.conn])
    <3> DEFINE v == [u EXCEPT !.stage = "granted"]
    <3>1. peerUses' \subseteq peerUses \cup {v} /\ UNCHANGED <<hook, activePeers, peerOwners>>
      BY <1>6 DEF checkPeerUse
    <3>2. v.conn = u.conn /\ v.client = u.client BY <2>1 DEF PeerUse
    <3>3. peerOwners[ConnId[u.conn]] = u.client
      BY <2>1, <2>2 DEF clientOwnsPeer, OwnershipInv, OwnershipAgrees
    <3>4. hook[u.conn] \notin Fresh BY DEF UsesInv
    <3> HIDE DEF v
    <3> QED BY <1>4, <3>1, <3>2, <3>3, <3>4
  <2>3. CASE ~clientOwnsPeer(u.client, ConnId[u.conn])
    BY <1>3, <1>6, <2>3 DEF checkPeerUse
  <2> QED BY <2>2, <2>3
<1>7. ASSUME NEW u \in peerUses, finishPeerUse(u) PROVE UsesInv'
  BY <1>3, <1>7 DEF finishPeerUse
<1>8. CASE UNCHANGED vars \/ Gateway \/ LockHolder
  BY <1>3, <1>8
     DEF vars, Gateway, AcceptInbound, InboundConnection, RemoteClose, peerDisconnectHandler,
         peerQueryHandler, deliver, LockHolder, detachOverlays, detachPending, detachOwner,
         detachRemove, closePeer, pingExisting, RegisterClient, OutboundConnection,
         pingCandidate, joinTrack, leaveTrack, cleanupPeer, cleanupPeersDone
<1>9. CASE RequestProgress \/ Inbound \/ sweepPending \/ Tick
  BY <1>3, <1>6, <1>7, <1>9
     DEF RequestProgress, Inbound, sweepPending, Tick, checkOverlayUse, finishOverlayUse,
         checkAnswer, sendAnswer, forgetAnswered, OverlayQueryArrives, deliver, recordQuery
<1>10. ASSUME NEW c \in Clients, Request(c) \/ Session(c) PROVE UsesInv'
  BY <1>3, <1>5, <1>10
     DEF Request, PeerRequest, OverlayRequest, Session, handleADNLConnect,
         handleADNLConnectByADNL, lockAndLook, handleADNLDisconnect, handleADNLSetQueryHandler,
         handleADNLSendMessage, handleADNLPing, handleADNLQuery, handleOverlayLeave,
         handleOverlayQuery, handleOverlayGetPeers, handleOverlaySendMessage,
         handleOverlaySendRaw, handleOverlayBroadcast, useOverlay, handleOverlayJoin,
         handleOverlaySetQueryHandler, handleADNLAnswer, handleOverlayAnswer, findPending,
         OpenClient, EndRead, snapshotPeers, lockForCleanup, cleanupOverlays
<1> QED BY <1>8, <1>9, <1>10 DEF Next

\* A send, ping or query that passed the ownership check acts on a peer of
\* its own client or on a connection that is gone for good, however long ago
\* the connection was read.
THEOREM GrantedUsesOwnPeer == Spec => []PeerUseOwned
<1>1. Init => OwnershipInv /\ Generations /\ UsesInv
  BY InitOwnership, InitGenerations DEF Init, UsesInv, PeerUseOwned
<1>2. OwnershipInv /\ Generations /\ UsesInv /\ [Next]_vars
        => OwnershipInv' /\ Generations' /\ UsesInv'
  BY NextOwnership, NextGenerations, NextUses
<1>3. UsesInv => PeerUseOwned BY DEF UsesInv
<1> QED BY <1>1, <1>2, <1>3, PTL DEF Spec

-----------------------------------------------------------------------------
(* Overlays.  The invariant adds to OverlayAttached which overlays the      *)
(* holder of the lock is working on.                                       *)

\* A join has inserted its overlay for the client it runs for; a leave and a
\* detach have removed theirs and have only that client's list left to do;
\* a detach past its first stage leaves no overlay on the peer.
HolderOverlays ==
    /\ mu.pc = "joinTrack" =>
         /\ mu.op = "join"
         /\ \A o \in mu.left : activeOverlays[o] # None /\ activeOverlays[o].client = mu.client
    /\ mu.pc = "leaveTrack" => mu.op = "leave"
    /\ mu.pc \in {"leaveTrack", "detPending", "detOwner"} =>
         \A o \in mu.left : activeOverlays[o] = None
    /\ mu.pc = "leaveTrack" =>
         \A c \in Clients : \A o \in clientOverlays[c] : o \in mu.left => c = mu.client
    /\ mu.pc \in {"detPending", "detOwner"} =>
         \A c \in Clients : \A o \in clientOverlays[c] : o \in mu.left => c = mu.owner
    /\ mu.pc \in {"detPending", "detOwner", "detRemove"} =>
         \A o \in Overlays : overlayToPeer[o] # mu.peer

OverlaysInv == OverlayAttached /\ HolderOverlays

\* Stages at which the tables of overlays disagree.
TrackStages == {"joinTrack", "leaveTrack", "detPending", "detOwner"}

\* The types of the overlay tables.
LEMMA OverlayTypes ==
    ASSUME OwnershipInv
    PROVE  /\ activeOverlays \in [Overlays -> Wrappers \cup {None}]
           /\ overlayToPeer \in [Overlays -> PeerIds \cup {None}]
           /\ clientOverlays \in [Clients -> SUBSET Overlays]
           /\ mu.left \subseteq Overlays
BY DEF OwnershipInv, TypeInv, TypeOK, Holder

\* An attached overlay pins its peer: the peer is installed and owned.
LEMMA AttachedPeer ==
    ASSUME OwnershipInv, OverlayAttached, NEW o \in Overlays, activeOverlays[o] # None
    PROVE  /\ overlayToPeer[o] \in PeerIds
           /\ activeOverlays[o].conn \in Conns /\ activeOverlays[o].client \in Clients
           /\ activePeers[overlayToPeer[o]] = activeOverlays[o].conn
           /\ peerOwners[overlayToPeer[o]] = activeOverlays[o].client
<1>1. activeOverlays[o] \in Wrappers BY OverlayTypes
<1> QED BY <1>1, OverlayTypes DEF OverlayAttached, Wrappers

\* Installing a peer disturbs no attached overlay.
LEMMA InstallKeepsOverlays ==
    ASSUME OwnershipInv, OverlayAttached, NoTakeoverStep, NEW o \in Overlays,
           activeOverlays[o] # None,
           \A p \in PeerIds : activePeers[p] # None => activePeers'[p] = activePeers[p]
    PROVE  /\ activePeers'[overlayToPeer[o]] = activeOverlays[o].conn
           /\ peerOwners'[overlayToPeer[o]] = activeOverlays[o].client
BY AttachedPeer, RegistryTypes DEF NoTakeoverStep

\* A step that leaves the overlay tables alone and takes or moves the lock
\* at a stage that is not about overlays preserves the invariant.
LEMMA LockOverlays ==
    ASSUME OwnershipInv, OverlaysInv, NoTakeoverStep,
           UNCHANGED <<activeOverlays, overlayToPeer, clientOverlays>>,
           \A p \in PeerIds : activePeers[p] # None => activePeers'[p] = activePeers[p],
           mu.pc \notin TrackStages,
           mu'.pc \notin TrackStages \cup {"detRemove"}
    PROVE  OverlaysInv'
<1>1. HolderOverlays' BY DEF HolderOverlays, TrackStages
<1>2. OverlayAttached'
  <2>1. ASSUME NEW o \in Overlays, activeOverlays[o] # None
        PROVE  /\ activePeers'[overlayToPeer[o]] = activeOverlays[o].conn
               /\ peerOwners'[overlayToPeer[o]] = activeOverlays[o].client
    BY <2>1, InstallKeepsOverlays DEF OverlaysInv
  <2> QED BY <2>1 DEF OverlaysInv, OverlayAttached, TrackStages
<1> QED BY <1>1, <1>2 DEF OverlaysInv

\* A step that leaves the overlay tables and the lock alone preserves it.
LEMMA FrameOverlays ==
    ASSUME OwnershipInv, OverlaysInv, NoTakeoverStep,
           UNCHANGED <<activeOverlays, overlayToPeer, clientOverlays, mu>>,
           \A p \in PeerIds : activePeers[p] # None => activePeers'[p] = activePeers[p]
    PROVE  OverlaysInv'
<1>1. HolderOverlays' BY DEF OverlaysInv, HolderOverlays
<1>2. OverlayAttached'
  <2>1. ASSUME NEW o \in Overlays, activeOverlays[o] # None
        PROVE  /\ activePeers'[overlayToPeer[o]] = activeOverlays[o].conn
               /\ peerOwners'[overlayToPeer[o]] = activeOverlays[o].client
    BY <2>1, InstallKeepsOverlays DEF OverlaysInv
  <2> QED BY <2>1 DEF OverlaysInv, OverlayAttached
<1> QED BY <1>1, <1>2 DEF OverlaysInv

\* The stages of a detach take the peer's overlays down with it.
LEMMA DetachOverlaysInv ==
    ASSUME OwnershipInv, OverlaysInv,
           detachOverlays \/ detachPending \/ detachOwner \/ detachRemove
    PROVE  OverlaysInv'
<1> USE DEF registry, tables, session, inflight
<1>0. mu \in Holder BY RegistryTypes
<1>a. /\ mu.peer \in PeerIds /\ mu.conn \in Conns
      /\ activePeers[mu.peer] = mu.conn /\ mu.owner = peerOwners[mu.peer]
  BY HolderDetaches DEF detachOverlays, detachPending, detachOwner, detachRemove, DetachStages
<1>1. CASE detachOverlays
  <2> DEFINE ids == {o \in Overlays : overlayToPeer[o] = mu.peer}
  <2>1. /\ mu.pc = "detOverlays" /\ mu'.pc = "detPending" /\ mu'.left = ids
        /\ mu'.owner = mu.owner /\ mu'.peer = mu.peer
        /\ UNCHANGED <<activePeers, peerOwners, clientOverlays>>
    BY <1>0, <1>1 DEF detachOverlays, Holder
  <2>2. \A o \in Overlays : /\ o \in ids => activeOverlays'[o] = None /\ overlayToPeer'[o] = None
                            /\ o \notin ids => /\ activeOverlays'[o] = activeOverlays[o]
                                               /\ overlayToPeer'[o] = overlayToPeer[o]
    BY <1>1 DEF detachOverlays
  <2>3. \A c \in Clients : \A o \in clientOverlays[c] :
          o \in Overlays /\ activeOverlays[o] # None /\ activeOverlays[o].client = c
    BY <2>1, OverlayTypes DEF OverlaysInv, OverlayAttached
  <2>4. \A o \in ids : activeOverlays[o] # None => activeOverlays[o].client = mu.owner
    BY <1>a DEF OverlaysInv, OverlayAttached
  <2>5. \A o \in Overlays : overlayToPeer'[o] # mu.peer
    BY <1>a, <2>2, RegistryTypes
  <2> HIDE DEF ids
  <2>6. HolderOverlays'
    <3>1. \A o \in ids : o \in Overlays BY DEF ids
    <3> QED BY <2>1, <2>2, <2>3, <2>4, <2>5, <3>1 DEF HolderOverlays
  <2>7. OverlayAttached'
    BY <2>1, <2>2, <2>3 DEF OverlaysInv, OverlayAttached
  <2> QED BY <2>6, <2>7 DEF OverlaysInv
<1>2. CASE detachPending
  <2>1. /\ mu.pc = "detPending" /\ mu'.pc = "detOwner" /\ mu'.left = mu.left
        /\ mu'.owner = mu.owner /\ mu'.peer = mu.peer
        /\ UNCHANGED <<activePeers, peerOwners, activeOverlays, overlayToPeer, clientOverlays>>
    BY <1>0, <1>2 DEF detachPending, Holder
  <2> QED BY <2>1 DEF OverlaysInv, OverlayAttached, HolderOverlays
<1>3. CASE detachOwner
  <2>1. /\ mu.pc = "detOwner" /\ mu'.pc = "detRemove" /\ mu'.peer = mu.peer
        /\ UNCHANGED <<activePeers, peerOwners, activeOverlays, overlayToPeer>>
    BY <1>0, <1>3 DEF detachOwner, Holder
  <2>2. \A c \in Clients : clientOverlays'[c] = clientOverlays[c] \ mu.left
    BY <1>3, <2>1 DEF detachOwner, OverlaysInv, HolderOverlays
  <2>3. \A o \in Overlays : activeOverlays[o] # None => o \notin mu.left
    BY <2>1 DEF OverlaysInv, HolderOverlays
  <2>4. OverlayAttached'
    <3>1. \A o \in Overlays : activeOverlays[o] # None => activeOverlays[o].client \in Clients
      BY AttachedPeer DEF OverlaysInv
    <3> QED BY <2>1, <2>2, <2>3, <3>1 DEF OverlaysInv, OverlayAttached
  <2>5. HolderOverlays' BY <2>1 DEF OverlaysInv, HolderOverlays
  <2> QED BY <2>4, <2>5 DEF OverlaysInv
<1>4. CASE detachRemove
  <2>1. /\ mu.pc = "detRemove" /\ mu'.pc \in {"free", "close"}
        /\ UNCHANGED <<activeOverlays, overlayToPeer, clientOverlays>>
    <3>1. CASE mu.op = "callback" BY <1>4, <3>1 DEF detachRemove, Release, Free
    <3>2. CASE mu.op # "callback" BY <1>0, <1>4, <3>2 DEF detachRemove, Holder
    <3> QED BY <3>1, <3>2
  <2>2. \A p \in PeerIds : p # mu.peer =>
          activePeers'[p] = activePeers[p] /\ peerOwners'[p] = peerOwners[p]
    BY <1>4, RegistryTypes DEF detachRemove
  <2>3. \A o \in Overlays : overlayToPeer[o] # mu.peer
    BY <2>1 DEF OverlaysInv, HolderOverlays
  <2>4. OverlayAttached'
    <3>1. \A o \in Overlays : activeOverlays[o] # None => overlayToPeer[o] \in PeerIds
      BY AttachedPeer DEF OverlaysInv
    <3> QED BY <2>1, <2>2, <2>3, <3>1 DEF OverlaysInv, OverlayAttached
  <2>5. HolderOverlays' BY <2>1 DEF HolderOverlays
  <2> QED BY <2>4, <2>5 DEF OverlaysInv
<1> QED BY <1>1, <1>2, <1>3, <1>4

\* The second half of a join and of a leave bring the lists into agreement.
LEMMA TrackOverlays ==
    ASSUME OwnershipInv, OverlaysInv, joinTrack \/ leaveTrack
    PROVE  OverlaysInv'
<1> USE DEF registry, tables, session, inflight
<1>1. mu' = Free /\ UNCHANGED <<activePeers, peerOwners, activeOverlays>>
  BY DEF joinTrack, leaveTrack, Release
<1>2. mu'.pc = "free" BY <1>1 DEF Free
<1>3. HolderOverlays' BY <1>2 DEF HolderOverlays
<1>4. \A o \in Overlays : activeOverlays[o] # None => activeOverlays[o].client \in Clients
  BY AttachedPeer DEF OverlaysInv
<1>5. CASE joinTrack
  <2>1. mu.pc = "joinTrack" /\ mu.client \in Clients
    BY <1>5 DEF joinTrack, OverlaysInv, HolderOverlays, OwnershipInv, HolderClient, RequestOps
  <2>2. /\ clientOverlays'[mu.client] = clientOverlays[mu.client] \cup mu.left
        /\ \A c \in Clients : c # mu.client => clientOverlays'[c] = clientOverlays[c]
        /\ overlayToPeer' = overlayToPeer
    BY <1>5, <2>1, OverlayTypes DEF joinTrack
  <2>3. OverlayAttached'
    <3>1. \A o \in mu.left : activeOverlays[o] # None /\ activeOverlays[o].client = mu.client
      BY <2>1 DEF OverlaysInv, HolderOverlays
    <3> QED BY <1>1, <1>2, <1>4, <2>1, <2>2, <3>1 DEF OverlaysInv, OverlayAttached
  <2> QED BY <1>3, <2>3 DEF OverlaysInv
<1>6. CASE leaveTrack
  <2>1. mu.pc = "leaveTrack" /\ mu.client \in Clients
    BY <1>6 DEF leaveTrack, OverlaysInv, HolderOverlays, OwnershipInv, HolderClient, RequestOps
  <2>2. /\ clientOverlays'[mu.client] = clientOverlays[mu.client] \ mu.left
        /\ \A c \in Clients : c # mu.client => clientOverlays'[c] = clientOverlays[c]
        /\ \A o \in Overlays : o \notin mu.left => overlayToPeer'[o] = overlayToPeer[o]
    BY <1>6, <2>1, OverlayTypes DEF leaveTrack
  <2>3. /\ \A o \in mu.left : activeOverlays[o] = None
        /\ \A c \in Clients : \A o \in clientOverlays[c] : o \in mu.left => c = mu.client
    BY <2>1 DEF OverlaysInv, HolderOverlays
  <2>4. OverlayAttached'
    BY <1>1, <1>2, <1>4, <2>1, <2>2, <2>3 DEF OverlaysInv, OverlayAttached
  <2> QED BY <1>3, <2>4 DEF OverlaysInv
<1> QED BY <1>5, <1>6

\* With a free lock the tables of overlays agree exactly.
LEMMA FreeOverlays ==
    ASSUME OwnershipInv, OverlaysInv, mu = Free
    PROVE  /\ mu.pc = "free"
           /\ \A o \in Overlays : activeOverlays[o] # None => o \in clientOverlays[activeOverlays[o].client]
           /\ \A c \in Clients : \A o \in clientOverlays[c] :
                o \in Overlays /\ activeOverlays[o] # None /\ activeOverlays[o].client = c
<1>1. mu.pc = "free" BY DEF Free
<1> QED BY <1>1, OverlayTypes DEF OverlaysInv, OverlayAttached

\* overlay.join, overlay.leave and overlay.setQueryHandler preserve the
\* overlay invariant.
LEMMA RequestOverlays ==
    ASSUME OwnershipInv, OverlaysInv, NEW c \in Clients, NEW o \in Overlays,
           \/ handleOverlayLeave(c, o)
           \/ \E p \in PeerIds :
                handleOverlayJoin(c, o, p) \/ handleOverlaySetQueryHandler(c, o, p)
    PROVE  OverlaysInv'
<1> USE DEF registry, tables, session, inflight
<1>0. UNCHANGED <<activePeers, peerOwners, clientOverlays>> /\ mu = Free
  BY DEF handleOverlayLeave, handleOverlayJoin, handleOverlaySetQueryHandler, Locked
<1>a. \A r \in Overlays : activeOverlays[r] # None => activeOverlays[r].client \in Clients
  BY AttachedPeer DEF OverlaysInv
<1>1. ASSUME NEW p \in PeerIds, handleOverlayJoin(c, o, p) PROVE OverlaysInv'
  <2> DEFINE w == [conn |-> activePeers[p], client |-> c, handler |-> None]
  <2>1. /\ activeOverlays[o] = None /\ activeOverlays'[o] = w /\ overlayToPeer'[o] = p
        /\ \A r \in Overlays : r # o => /\ activeOverlays'[r] = activeOverlays[r]
                                        /\ overlayToPeer'[r] = overlayToPeer[r]
    BY <1>1, OverlayTypes DEF handleOverlayJoin
  <2>2. mu'.pc = "joinTrack" /\ mu'.op = "join" /\ mu'.client = c /\ mu'.left = {o}
    BY <1>1 DEF handleOverlayJoin, Free
  <2>3. peerOwners[p] = c
    BY <1>1 DEF handleOverlayJoin, clientOwnsPeer, OwnershipInv, OwnershipAgrees
  <2>4. w.conn = activePeers[p] /\ w.client = c /\ w.handler = None OBVIOUS
  <2>5. w # None
    <3>1. w \in Wrappers
      BY <1>1, RegistryTypes DEF handleOverlayJoin, Wrappers
    <3> QED BY <3>1, NilAssumption
  <2> HIDE DEF w
  <2>6. HolderOverlays' BY <2>1, <2>2, <2>4, <2>5 DEF HolderOverlays
  <2>7. OverlayAttached'
    BY <1>0, <2>1, <2>2, <2>3, <2>4, FreeOverlays, RegistryTypes DEF OverlaysInv, OverlayAttached
  <2> QED BY <2>6, <2>7 DEF OverlaysInv
<1>2. CASE handleOverlayLeave(c, o)
  <2>1. /\ o \in clientOverlays[c] /\ activeOverlays'[o] = None
        /\ \A r \in Overlays : r # o => activeOverlays'[r] = activeOverlays[r]
        /\ UNCHANGED overlayToPeer
    BY <1>2, OverlayTypes DEF handleOverlayLeave, clientOwnsOverlay
  <2>2. mu'.pc = "leaveTrack" /\ mu'.op = "leave" /\ mu'.client = c /\ mu'.left = {o}
    BY <1>2 DEF handleOverlayLeave, Free
  <2>3. HolderOverlays'
    BY <1>0, <2>1, <2>2, FreeOverlays DEF HolderOverlays
  <2>4. OverlayAttached'
    BY <1>0, <1>a, <2>1, <2>2, FreeOverlays DEF OverlaysInv, OverlayAttached
  <2> QED BY <2>3, <2>4 DEF OverlaysInv
<1>3. ASSUME NEW p \in PeerIds, handleOverlaySetQueryHandler(c, o, p) PROVE OverlaysInv'
  <2> DEFINE w == activeOverlays[o]
             hn == [conn |-> activePeers[p], client |-> c]
             v == [w EXCEPT !.handler = hn]
  <2>1. /\ w # None /\ w \in Wrappers /\ o \in clientOverlays[c] /\ overlayToPeer[o] = p
        /\ activeOverlays'[o] = v /\ UNCHANGED <<overlayToPeer, mu>>
        /\ \A r \in Overlays : r # o => activeOverlays'[r] = activeOverlays[r]
    BY <1>3, OverlayTypes DEF handleOverlaySetQueryHandler, clientOwnsOverlay
  <2>2. w.client = c /\ w.conn = activePeers[p]
    BY <1>0, <2>1, FreeOverlays DEF OverlaysInv, OverlayAttached
  <2>3. v.conn = w.conn /\ v.client = w.client /\ v.handler = hn /\ v # None
    <3>1. hn \in Handlers
      BY <1>3, RegistryTypes DEF handleOverlaySetQueryHandler, Handlers
    <3> HIDE DEF hn
    <3>2. v \in Wrappers BY <2>1, <3>1 DEF Wrappers
    <3> QED BY <2>1, <3>2, NilAssumption DEF Wrappers
  <2> HIDE DEF v, w, hn
  <2>4. hn = [conn |-> v.conn, client |-> v.client] BY <2>2, <2>3 DEF hn
  <2>5. HolderOverlays' BY <1>0, <2>1, FreeOverlays DEF HolderOverlays
  <2>6. OverlayAttached'
    BY <1>0, <1>a, <2>1, <2>2, <2>3, <2>4, FreeOverlays DEF OverlaysInv, OverlayAttached, w
  <2> QED BY <2>5, <2>6 DEF OverlaysInv
<1> QED BY <1>1, <1>2, <1>3

\* Stages that a holder can be at after a step that is neither part of a
\* detach nor of a join or a leave.
LEMMA HolderMoves ==
    ASSUME OwnershipInv,
           \/ closePeer \/ pingExisting \/ RegisterClient \/ OutboundConnection \/ pingCandidate
           \/ cleanupPeer \/ cleanupPeersDone
    PROVE  /\ mu.pc \notin TrackStages \cup DetachStages
           /\ mu'.pc \notin TrackStages \cup {"detRemove"}
<1> USE DEF TrackStages, DetachStages
<1>0. mu \in Holder BY RegistryTypes
<1>1. mu.pc \notin TrackStages \cup DetachStages
  BY DEF closePeer, pingExisting, RegisterClient, OutboundConnection, pingCandidate,
         cleanupPeer, cleanupPeersDone
<1>2. ASSUME mu' = nextEndpoint PROVE mu'.pc \in {"register", "free"}
  BY <1>0, <1>2 DEF nextEndpoint, Holder, Free
<1>3. ASSUME mu' = Free PROVE mu'.pc = "free"
  BY <1>3 DEF Free
<1>4. ASSUME NEW h \in Holder, NEW p, NEW k, beginDetach(h, p, k) PROVE mu'.pc = "detOverlays"
  BY <1>4 DEF beginDetach, Holder
<1>5. CASE closePeer
  <2>1. CASE mu.op = "cleanup"
    <3>1. mu' = [mu EXCEPT !.pc = "cleanLoop", !.conn = None, !.peer = None]
      BY <1>5, <2>1 DEF closePeer
    <3> QED BY <1>0, <1>1, <3>1 DEF Holder
  <2>2. CASE mu.op = "connect" BY <1>1, <1>2, <1>5, <2>2 DEF closePeer
  <2>3. CASE mu.op \notin {"connect", "cleanup"} BY <1>1, <1>3, <1>5, <2>3 DEF closePeer
  <2> QED BY <2>1, <2>2, <2>3
<1>6. CASE pingExisting \/ cleanupPeersDone
  BY <1>1, <1>3, <1>6 DEF pingExisting, cleanupPeersDone, Release
<1>7. CASE RegisterClient
  <2>1. ASSUME NEW k, NEW s \in {"ping", "handler"}, mu' = [mu EXCEPT !.pc = s, !.conn = k]
        PROVE  mu'.pc = s
    BY <1>0, <2>1 DEF Holder
  <2> QED BY <1>1, <1>2, <1>7, <2>1 DEF RegisterClient
<1>8. CASE OutboundConnection
  BY <1>0, <1>1, <1>2, <1>8 DEF OutboundConnection, Holder
<1>9. CASE pingCandidate
  <2>1. ASSUME NEW h \in Holder, abandonCandidate(h) PROVE mu'.pc \in {"detOverlays", "close"}
    BY <1>4, <2>1 DEF abandonCandidate, Holder
  <2>2. [mu EXCEPT !.tries = 1] \in Holder BY <1>0 DEF Holder
  <2> QED BY <1>0, <1>1, <1>3, <1>9, <2>1, <2>2 DEF pingCandidate, Release
<1>10. CASE cleanupPeer
  <2>1. PICK p \in mu.todo :
          IF activePeers[p] # None
            THEN beginDetach([mu EXCEPT !.todo = @ \ {p}], p, activePeers[p])
            ELSE mu' = [mu EXCEPT !.todo = @ \ {p}]
    BY <1>10 DEF cleanupPeer
  <2>2. /\ [mu EXCEPT !.todo = @ \ {p}] \in Holder
        /\ [mu EXCEPT !.todo = @ \ {p}].pc = mu.pc
    BY <1>0 DEF Holder
  <2> QED BY <1>1, <1>4, <2>1, <2>2
<1> QED BY <1>5, <1>6, <1>7, <1>8, <1>9, <1>10

\* Every step preserves the overlay invariant.
LEMMA NextOverlays == OwnershipInv /\ Generations /\ OverlaysInv /\ [Next]_vars => OverlaysInv'
<1> SUFFICES ASSUME OwnershipInv, Generations, OverlaysInv, [Next]_vars PROVE OverlaysInv'
  OBVIOUS
<1> USE DEF registry, tables, session, inflight
<1>1. NoTakeoverStep BY NextNoTakeover
<1>2. ASSUME UNCHANGED <<activeOverlays, overlayToPeer, clientOverlays, mu>>,
             \A p \in PeerIds : activePeers[p] # None => activePeers'[p] = activePeers[p]
      PROVE  OverlaysInv'
  BY <1>1, <1>2, FrameOverlays
<1>3. ASSUME UNCHANGED <<activeOverlays, overlayToPeer, clientOverlays>>,
             \A p \in PeerIds : activePeers[p] # None => activePeers'[p] = activePeers[p],
             mu.pc \notin TrackStages, mu'.pc \notin TrackStages \cup {"detRemove"}
      PROVE  OverlaysInv'
  BY <1>1, <1>3, LockOverlays
<1>4. mu = Free => mu.pc \notin TrackStages BY DEF Free, TrackStages
<1>5. CASE UNCHANGED vars BY <1>2, <1>5 DEF vars
<1>6. CASE Gateway
  <2>1. ASSUME NEW k \in Conns, InboundConnection(k) PROVE OverlaysInv'
    BY <1>2, <2>1, HandlerOwnership DEF InboundConnection
  <2>2. ASSUME NEW k \in Conns, peerDisconnectHandler(k) PROVE OverlaysInv'
    <3>1. /\ UNCHANGED <<activeOverlays, overlayToPeer, clientOverlays, activePeers>> /\ mu = Free
          /\ \/ mu' = mu
             \/ beginDetach([Free EXCEPT !.op = "callback"], ConnId[k], k)
      BY <2>2 DEF peerDisconnectHandler
    <3>2. mu' = mu \/ mu'.pc = "detOverlays" BY <3>1 DEF beginDetach, Free
    <3> QED BY <1>2, <1>3, <1>4, <3>1, <3>2 DEF TrackStages
  <2> QED BY <1>2, <1>6, <2>1, <2>2
          DEF Gateway, AcceptInbound, RemoteClose, peerQueryHandler, deliver
<1>7. CASE LockHolder
  <2>1. CASE detachOverlays \/ detachPending \/ detachOwner \/ detachRemove
    BY <2>1, DetachOverlaysInv
  <2>2. CASE joinTrack \/ leaveTrack BY <2>2, TrackOverlays
  <2>3. CASE OutboundConnection
    <3>1. mu.conn \in Conns
      BY <2>3, HolderStage DEF OutboundConnection, ConnStages, PeerStages, Stages
    <3> QED BY <1>3, <2>3, <3>1, HandlerOwnership, HolderMoves DEF OutboundConnection
  <2>4. CASE pingExisting \/ pingCandidate
    <3>1. activePeers' = activePeers
      BY <2>4, ClaimKeepsConnection DEF pingExisting, pingCandidate
    <3> QED BY <1>3, <2>4, <3>1, HolderMoves DEF pingExisting, pingCandidate
  <2>5. CASE closePeer \/ RegisterClient \/ cleanupPeer \/ cleanupPeersDone
    BY <1>3, <2>5, HolderMoves DEF closePeer, RegisterClient, cleanupPeer, cleanupPeersDone
  <2> QED BY <1>7, <2>1, <2>2, <2>3, <2>4, <2>5 DEF LockHolder
<1>8. CASE RequestProgress \/ Inbound \/ sweepPending \/ Tick
  BY <1>2, <1>8
     DEF RequestProgress, Inbound, sweepPending, Tick, checkPeerUse, finishPeerUse,
         checkOverlayUse, finishOverlayUse, checkAnswer, sendAnswer, forgetAnswered,
         OverlayQueryArrives, deliver, recordQuery
<1>9. ASSUME NEW c \in Clients, Request(c) PROVE OverlaysInv'
  <2>1. ASSUME NEW p \in PeerIds, NEW n \in Nat, lockAndLook(c, p, n) PROVE OverlaysInv'
    <3>1. mu = Free /\ mu'.pc \in {"pingExisting", "register"}
      BY <2>1 DEF lockAndLook, Locked, Free
    <3> QED BY <1>3, <1>4, <2>1, <3>1 DEF lockAndLook, TrackStages
  <2>2. ASSUME NEW p \in PeerIds, handleADNLDisconnect(c, p) PROVE OverlaysInv'
    <3>1. mu = Free /\ mu'.pc = "detOverlays"
      BY <2>2 DEF handleADNLDisconnect, Locked, beginDetach, Free
    <3> QED BY <1>3, <1>4, <2>2, <3>1 DEF handleADNLDisconnect, TrackStages
  <2>3. ASSUME NEW p \in PeerIds, PeerRequest(c, p) PROVE OverlaysInv'
    BY <1>2, <2>1, <2>2, <2>3, RegistryAssumption
       DEF PeerRequest, handleADNLConnect, handleADNLConnectByADNL, handleADNLSetQueryHandler,
           handleADNLSendMessage, handleADNLPing, handleADNLQuery, usePeer
  <2>4. ASSUME NEW o \in Overlays, OverlayRequest(c, o) PROVE OverlaysInv'
    BY <1>2, <2>4, RequestOverlays
       DEF OverlayRequest, handleOverlayQuery, handleOverlayGetPeers, handleOverlaySendMessage,
           handleOverlaySendRaw, handleOverlayBroadcast, useOverlay
  <2> QED BY <1>2, <1>9, <2>3, <2>4 DEF Request, handleADNLAnswer, handleOverlayAnswer, findPending
<1>10. ASSUME NEW c \in Clients, Session(c) PROVE OverlaysInv'
  <2>1. CASE cleanupOverlays(c)
    <3>1. /\ mu = Free /\ UNCHANGED <<mu, activePeers, peerOwners>>
          /\ clientOverlays'[c] = {}
          /\ \A d \in Clients : d # c => clientOverlays'[d] = clientOverlays[d]
          /\ \A o \in Overlays : o \in clientOverlays[c] => activeOverlays'[o] = None
          /\ \A o \in Overlays : o \notin clientOverlays[c] =>
               activeOverlays'[o] = activeOverlays[o] /\ overlayToPeer'[o] = overlayToPeer[o]
      BY <2>1, OverlayTypes DEF cleanupOverlays
    <3>2. HolderOverlays' BY <3>1 DEF HolderOverlays, Free
    <3>3. \A o \in Overlays : activeOverlays[o] # None => activeOverlays[o].client \in Clients
      BY AttachedPeer DEF OverlaysInv
    <3>4. OverlayAttached'
      BY <3>1, <3>3, FreeOverlays DEF OverlaysInv, OverlayAttached
    <3> QED BY <3>2, <3>4 DEF OverlaysInv
  <2>2. CASE lockForCleanup(c)
    <3>1. mu = Free /\ mu'.pc = "cleanLoop" BY <2>2 DEF lockForCleanup, Free
    <3> QED BY <1>3, <1>4, <2>2, <3>1 DEF lockForCleanup, TrackStages
  <2> QED BY <1>2, <1>10, <2>1, <2>2 DEF Session, OpenClient, EndRead, snapshotPeers
<1> QED BY <1>5, <1>6, <1>7, <1>8, <1>9, <1>10 DEF Next

\* The initial state has no overlays.
LEMMA InitOverlays == Init => OverlaysInv
BY DEF Init, OverlaysInv, OverlayAttached, HolderOverlays, Free

\* A joined overlay hangs on an installed connection owned by its client in
\* every behaviour, also in the middle of joins, leaves, detaches and
\* clean-ups, and the lists of the clients agree with it.
THEOREM OverlaysStayAttached == Spec => []OverlayAttached
<1>1. Init => OwnershipInv /\ Generations /\ OverlaysInv
  BY InitOwnership, InitGenerations, InitOverlays
<1>2. OwnershipInv /\ Generations /\ OverlaysInv /\ [Next]_vars
        => OwnershipInv' /\ Generations' /\ OverlaysInv'
  BY NextOwnership, NextGenerations, NextOverlays
<1>3. OverlaysInv => OverlayAttached BY DEF OverlaysInv
<1> QED BY <1>1, <1>2, <1>3, PTL DEF Spec
=============================================================================
