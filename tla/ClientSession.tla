---------------------------- MODULE ClientSession ----------------------------
(***************************************************************************)
(* One WebSocket connection: the request goroutines that handleWS starts   *)
(* (bridge.go:390), the in-flight semaphore that admits them, and the      *)
(* subscriptions, which are requests that keep their slot for as long as   *)
(* they stream (subscribe.go, trace.go:43).                                *)
(*                                                                         *)
(* All subscribe handlers and lite.sendAndWatch share one shape: count,    *)
(* register, stream, and on the way out unregister and count down.  What   *)
(* they stream is left out.  Besides the requests there are the ping pump, *)
(* which the tear-down waits for, and the broadcasters that                *)
(* overlay.broadcast leaves behind, which it does not.                     *)
(***************************************************************************)
EXTENDS Integers, FiniteSets

CONSTANTS
    Requests,     \* requests the client may send, each at most once
    MaxInflight,  \* cfg.MaxInflight, the capacity of inflightSem
    MaxSubs,      \* cfg.Namespaces.Subscribe.MaxSubscriptions
    MaxBroadcasts \* maxConcurrentOverlayBroadcasts, the capacity of broadcastSem

\* Config.Validate (config.go:349-364) demands exactly this of a bridge whose
\* subscribe namespace is enabled.
ASSUME SessionAssumption ==
    /\ IsFiniteSet(Requests)
    /\ MaxInflight \in Nat /\ MaxSubs \in Nat /\ MaxBroadcasts \in Nat
    /\ MaxSubs >= 1 /\ MaxInflight > MaxSubs

VARIABLES
    open,          \* the read loop runs and connCtx is not cancelled
    handler,       \* request -> where its goroutine is
    activeSubs,    \* client.activeSubs
    subscriptions, \* keys of client.subscriptions, named by their request
    cancelled,     \* subscriptions whose own context was cancelled
    pump,          \* the goroutine that pings the client runs
    broadcastSem,  \* slots of client.broadcastSem taken
    broadcasters,  \* requests whose background broadcaster runs
    returned       \* wg.Wait has returned

requestVars == <<handler, activeSubs, subscriptions, cancelled>>
vars == <<open, requestVars, pump, broadcastSem, broadcasters, returned>>

\* Stages in which a request is part of activeSubs.
CountedStages == {"overshoot", "counted", "registered", "streaming", "unregister", "leaving"}
\* Stages in which it holds a slot of inflightSem.
SlotStages == CountedStages \cup {"admitted", "broadcast", "working"}
Stages == SlotStages \cup {"unsent", "spawned", "done"}

\* What only the ping pump, the broadcasters and wg.Wait change.
besides == <<pump, broadcastSem, broadcasters, returned>>

In(S) == {r \in Requests : handler[r] \in S}

goto(r, stage) == handler' = [handler EXCEPT ![r] = stage]

-----------------------------------------------------------------------------
(* handleWS *)

\* A message is read: wg.Add(1) and the go statement.
receive(r) ==
    /\ open
    /\ handler[r] = "unsent"
    /\ goto(r, "spawned")
    /\ UNCHANGED <<open, activeSubs, subscriptions, cancelled, besides>>

\* The select on inflightSem: a slot, or "too many concurrent requests".
acquireSlot(r) ==
    /\ handler[r] = "spawned"
    /\ goto(r, IF Cardinality(In(SlotStages)) < MaxInflight THEN "admitted" ELSE "done")
    /\ UNCHANGED <<open, activeSubs, subscriptions, cancelled, besides>>

\* The deferred release of the slot and wg.Done.
finish(r) ==
    /\ handler[r] = "working"
    /\ goto(r, "done")
    /\ UNCHANGED <<open, activeSubs, subscriptions, cancelled, besides>>

\* ReadMessage fails, connCancel is called.
endRead ==
    /\ open
    /\ open' = FALSE
    /\ UNCHANGED <<requestVars, besides>>

\* The ping pump ends when a ping cannot be written, or with the context.
pumpFails ==
    /\ pump
    /\ pump' = FALSE
    /\ UNCHANGED <<open, requestVars, broadcastSem, broadcasters, returned>>

pumpEnds ==
    /\ pump /\ ~open
    /\ pump' = FALSE
    /\ UNCHANGED <<open, requestVars, broadcastSem, broadcasters, returned>>

\* wg.Wait: the requests and the pump, not the broadcasters.
waitRequests ==
    /\ ~open /\ ~returned
    /\ In(SlotStages \cup {"spawned"}) = {} /\ ~pump
    /\ returned' = TRUE
    /\ UNCHANGED <<open, requestVars, pump, broadcastSem, broadcasters>>

-----------------------------------------------------------------------------
(* handleRequest *)

\* A request that is not about subscriptions.
handleOther(r) ==
    /\ handler[r] = "admitted"
    /\ goto(r, "working")
    /\ UNCHANGED <<open, activeSubs, subscriptions, cancelled, besides>>

\* Mutant: the entry is deleted and its context is not cancelled.
MutantUnsubscribe(r, s) ==
    /\ handler[r] = "admitted"
    /\ subscriptions' = subscriptions \ {s}
    /\ goto(r, "working")
    /\ UNCHANGED <<open, activeSubs, cancelled, besides>>

\* subscribe.go:722: cancel and delete under subscriptionsMu.
handleUnsubscribe(r, s) ==
    /\ handler[r] = "admitted"
    /\ cancelled' = IF s \in subscriptions THEN cancelled \cup {s} ELSE cancelled
    /\ subscriptions' = subscriptions \ {s}
    /\ goto(r, "working")
    /\ UNCHANGED <<open, activeSubs, besides>>

\* Mutant: the limit is compared before the atomic add.
MutantReserve(r) ==
    /\ handler[r] = "admitted"
    /\ activeSubs' = activeSubs + 1
    /\ goto(r, IF activeSubs > MaxSubs THEN "overshoot" ELSE "counted")
    /\ UNCHANGED <<open, subscriptions, cancelled, besides>>

\* atomic.AddInt32(&client.activeSubs, 1) against the limit.
reserve(r) ==
    /\ handler[r] = "admitted"
    /\ activeSubs' = activeSubs + 1
    /\ goto(r, IF activeSubs + 1 > MaxSubs THEN "overshoot" ELSE "counted")
    /\ UNCHANGED <<open, subscriptions, cancelled, besides>>

handleSubscribeTransactions(r)    == reserve(r)
handleSubscribeBlocks(r)          == reserve(r)
handleSubscribeAccountState(r)    == reserve(r)
handleSubscribeNewTransactions(r) == reserve(r)
handleSubscribeConfigChanges(r)   == reserve(r)
handleSubscribeMultiAccount(r)    == reserve(r)
handleSubscribeTrace(r)           == reserve(r)
handleSendAndWatch(r)             == reserve(r)

\* Mutant: the deferred subtraction runs as well.
MutantUndoReserve(r) ==
    /\ handler[r] = "overshoot"
    /\ activeSubs' = activeSubs - 1
    /\ goto(r, "leaving")
    /\ UNCHANGED <<open, subscriptions, cancelled, besides>>

\* "too many subscriptions": the add is taken back.
undoReserve(r) ==
    /\ handler[r] = "overshoot"
    /\ activeSubs' = activeSubs - 1
    /\ goto(r, "working")
    /\ UNCHANGED <<open, subscriptions, cancelled, besides>>

\* Bad parameters end the handler, otherwise the subscription is registered.
register(r) ==
    /\ handler[r] = "counted"
    /\ \/ goto(r, "leaving") /\ UNCHANGED subscriptions
       \/ goto(r, "registered") /\ subscriptions' = subscriptions \cup {r}
    /\ UNCHANGED <<open, activeSubs, cancelled, besides>>

\* The first look-ups fail, or the confirmation is sent and events follow.
start(r) ==
    /\ handler[r] = "registered"
    /\ goto(r, "unregister") \/ goto(r, "streaming")
    /\ UNCHANGED <<open, activeSubs, subscriptions, cancelled, besides>>

\* Mutants: the stream watches the connection only, or its own context only.
MutantIgnoresCancel(r) ==
    /\ handler[r] = "streaming"
    /\ ~open
    /\ goto(r, "unregister")
    /\ UNCHANGED <<open, activeSubs, subscriptions, cancelled, besides>>

MutantIgnoresClose(r) ==
    /\ handler[r] = "streaming"
    /\ r \in cancelled
    /\ goto(r, "unregister")
    /\ UNCHANGED <<open, activeSubs, subscriptions, cancelled, besides>>

\* The stream ends on its context, its own or the connection's ...
endStream(r) ==
    /\ handler[r] = "streaming"
    /\ ~open \/ r \in cancelled
    /\ goto(r, "unregister")
    /\ UNCHANGED <<open, activeSubs, subscriptions, cancelled, besides>>

\* ... or because an event cannot be written or its source closes.
breakStream(r) ==
    /\ handler[r] = "streaming"
    /\ goto(r, "unregister")
    /\ UNCHANGED <<open, activeSubs, subscriptions, cancelled, besides>>

\* Deferred: cancel the context, delete the entry ...
unregister(r) ==
    /\ handler[r] = "unregister"
    /\ cancelled' = cancelled \cup {r}
    /\ subscriptions' = subscriptions \ {r}
    /\ goto(r, "leaving")
    /\ UNCHANGED <<open, activeSubs, besides>>

\* ... and count down.
leave(r) ==
    /\ handler[r] = "leaving"
    /\ activeSubs' = activeSubs - 1
    /\ goto(r, "working")
    /\ UNCHANGED <<open, subscriptions, cancelled, besides>>

-----------------------------------------------------------------------------
(* overlay.broadcast *)

\* A slot of broadcastSem, or "too many active overlay broadcasts".
handleOverlayBroadcast(r) ==
    /\ handler[r] = "admitted"
    /\ IF broadcastSem < MaxBroadcasts
         THEN broadcastSem' = broadcastSem + 1 /\ goto(r, "broadcast")
         ELSE goto(r, "working") /\ UNCHANGED broadcastSem
    /\ UNCHANGED <<open, activeSubs, subscriptions, cancelled, pump, broadcasters, returned>>

\* The broadcaster is made and runs in the background, or the slot is returned.
startBroadcast(r) ==
    /\ handler[r] = "broadcast"
    /\ goto(r, "working")
    /\ \/ broadcasters' = broadcasters \cup {r} /\ UNCHANGED broadcastSem
       \/ broadcastSem' = broadcastSem - 1 /\ UNCHANGED broadcasters
    /\ UNCHANGED <<open, activeSubs, subscriptions, cancelled, pump, returned>>

\* broadcaster.Run returns: acknowledged, 65 seconds over, or the client gone.
endBroadcast(r) ==
    /\ r \in broadcasters
    /\ broadcasters' = broadcasters \ {r}
    /\ broadcastSem' = broadcastSem - 1
    /\ UNCHANGED <<open, requestVars, pump, returned>>

-----------------------------------------------------------------------------
Init ==
    /\ open = TRUE /\ returned = FALSE
    /\ handler = [r \in Requests |-> "unsent"]
    /\ activeSubs = 0 /\ subscriptions = {} /\ cancelled = {}
    /\ pump = TRUE /\ broadcastSem = 0 /\ broadcasters = {}

Subscribe(r) ==
    \/ handleSubscribeTransactions(r) \/ handleSubscribeBlocks(r)
    \/ handleSubscribeAccountState(r) \/ handleSubscribeNewTransactions(r)
    \/ handleSubscribeConfigChanges(r) \/ handleSubscribeMultiAccount(r)
    \/ handleSubscribeTrace(r) \/ handleSendAndWatch(r)

handleRequest(r) ==
    \/ handleOther(r) \/ Subscribe(r) \/ handleOverlayBroadcast(r)
    \/ \E s \in Requests : handleUnsubscribe(r, s)

\* What the goroutine of request r does by itself.
Goroutine(r) ==
    \/ acquireSlot(r) \/ handleRequest(r) \/ undoReserve(r) \/ register(r) \/ start(r)
    \/ endStream(r) \/ unregister(r) \/ leave(r) \/ startBroadcast(r) \/ finish(r)

Next ==
    \/ endRead \/ pumpFails \/ pumpEnds \/ waitRequests
    \/ \E r \in Requests : receive(r) \/ Goroutine(r) \/ breakStream(r) \/ endBroadcast(r)

Spec == Init /\ [][Next]_vars

\* Goroutines that can run do run.  Nothing makes a stream break, the client
\* send another request, or the connection end.
FairSpec ==
    /\ Spec /\ WF_vars(pumpEnds) /\ WF_vars(waitRequests)
    /\ \A r \in Requests : WF_vars(Goroutine(r)) /\ WF_vars(endBroadcast(r))

-----------------------------------------------------------------------------
(* Properties *)

\* Every variable has its type.
TypeOK ==
    /\ {open, pump, returned} \subseteq BOOLEAN
    /\ handler \in [Requests -> Stages]
    /\ subscriptions \subseteq Requests /\ cancelled \subseteq Requests
    /\ broadcasters \subseteq Requests

\* The two counters are exact on every path.  activeSubs is the number of
\* handlers between their add and their deferred subtraction; every slot of
\* broadcastSem belongs to a broadcaster that runs or is being made, although
\* broadcasters outlive their requests and may outlive the tear-down.
CountExact ==
    /\ TypeOK
    /\ activeSubs = Cardinality(In(CountedStages))
    /\ broadcastSem = Cardinality(In({"broadcast"})) + Cardinality(broadcasters)
    /\ broadcastSem <= MaxBroadcasts

\* However many subscribe requests overlap, at most max_subscriptions get
\* past the check of activeSubs at a time.
SubscriptionLimit ==
    Cardinality(In({"counted", "registered", "streaming", "unregister"})) <= MaxSubs

\* Every stream can be stopped: it is found by subscribe.unsubscribe, or its
\* context is cancelled already.  The map names no handler that has ended.
StreamsCancellable ==
    /\ In({"registered", "streaming"}) \subseteq subscriptions \cup cancelled
    /\ subscriptions \subseteq In({"registered", "streaming", "unregister"})

\* An unsubscribed stream ends and gives back its slot and its count.
UnsubscribedEnds == \A r \in Requests : r \in cancelled ~> handler[r] = "done"

\* When the connection ends, handleWS gets past wg.Wait with no subscription
\* left (docs/architecture.md: closing a connection stops its subscriptions),
\* and no broadcaster goes on for good.
SessionDrains ==
    ~open ~> returned /\ activeSubs = 0 /\ subscriptions = {} /\ broadcasters = {}
=============================================================================
