# TLA+ models of tonutils-bridge

The bridge is a WebSocket server: browsers and other clients send JSON-RPC
requests, the bridge carries them out on TON liteservers, the DHT and ADNL
peers, and pushes events back.  This directory models what its goroutines share
(peers, overlays, queries, sessions, traces), what its requests do with a chain
that moves on while they run, and the life of the process with its configuration
file; it checks the models with TLC on small instances and proves all their
safety properties, the refinement included, with TLAPS for every instance.

## 1. Inventory

| Part | State | Operations | Hard because |
|---|---|---|---|
| ADNL peers (`wsbridge/adnl.go`) | `activePeers`, `peerOwners`, `peerQueries`, `client.peers` | connect, connectByADNL, disconnect, send, ping, query, set query handler, answer, `installPeer`, `detachPeerLocked`, disconnect handler | five tables under five mutexes; `peerLifecycleMu` serialises writers, but the gateway's connection handler and the start of a teardown do not take it; several connection objects (generations) share an id |
| Overlays (`wsbridge/overlay.go`) | `activeOverlays`, `overlayToPeer`, `client.overlays` | join, leave, send, sendRaw, broadcast, getPeers, query, set query handler, answer | an overlay must go with its peer; readers look up and check in two critical sections |
| Inbound queries (`adnl.go`, `overlay.go`, `bridge.go`) | `pendingQueries` | record, answer, expire, sweep, drop on detach | recorded and answered long after the connection was looked at |
| WebSocket sessions (`wsbridge/bridge.go`) | `clients`, `inflightSem`, `broadcastSem`, the wait group, deferred clean-ups | accept, read loop, ping pump, dispatch, teardown | requests, subscriptions, broadcasters and teardown overlap; LIFO defers |
| Subscriptions (`wsbridge/subscribe.go`) | `activeSubs`, `client.subscriptions`; per stream the last block, balance, config cells | subscribe.*, unsubscribe | a counter changed before it is compared; long-lived requests hold request slots; look-ups fail half-way through a block |
| Trace coordinator (`wsbridge/trace.go`) | `newMsgsCh`, `doneCh`, wait group, semaphore | coordinator, resolvers, waiter, cancellation | a wait group whose counter leaves zero again, a bounded channel, a close |
| Send and watch (`wsbridge/lite.go`) | the block and account it watches from | resend, scan | retries against a moving account |
| Requests answered once (`lite`, `dht`, `dns`, `jetton`, `nft`, `sbt`, `wallet`, `payment`, `network`) | local: the block they read at, a cursor, a list of questions | parse, snapshot, read, ask, walk, convert, answer | several calls while blocks appear, and an error return after each of them |
| Configuration (`config.go`) | `config.json`, the only persistent state, with the ADNL key | load, migrate, default, validate, save | saved in place; defaults that must validate |
| Start-up, tunnel, shutdown (`main.go`) | what `run` has acquired; channels between tunnel, forwarder and start-up | acquire, wait, serve, release | one step of several fails; an event that is dropped or never comes |
| Helpers (`wsbridge/helpers.go`) | none | parsing, serialisation | - |

Interactions: `handleWS` starts a goroutine per request; handlers share the
registry through the mutexes above; the ADNL gateway calls back into the bridge
(connection, query, message and disconnect handlers) on its own goroutines; the
disconnect handler takes `peerLifecycleMu`, which other goroutines hold while
they call `Close`.

What makes the parts correct, in a sentence each: the ownership tables agree
and nobody's peer is used, replaced or closed by somebody else; overlays and
pending queries never outlive the connection they belong to; a client that is
gone leaves nothing behind, and its teardown ends; limits hold; every
subscription can be stopped and a session drains; a trace reports every message
once and says it is complete when it is; a stream neither loses nor repeats;
a watched message is not passed over and not sent again after its execution;
every other request is answered once; what was set is what the bridge runs with,
after a restart, too; and a signal ends the process.  `PROJECT.json` lists the
hazards these properties are aimed at, with source lines.

## 2. Modules

| Module | Models | Checked by |
|---|---|---|
| `PeerRegistry` | ADNL peers, overlays, inbound queries, the teardown of clients, and the gateway as the bridge sees it | `MCPeerRegistry`, `PeerRegistryProofs`, `PeerAttachmentProofs`, `PeerQueryProofs` |
| `PeerOwnership` | the abstract specification of ownership: six operations on one table | `OwnershipRefinement` |
| `OwnershipRefinement` | the refinement mapping from `PeerRegistry` to `PeerOwnership` | `MCPeerRegistry`, `OwnershipRefinementProofs` |
| `ClientSession` | one connection: request slots, subscription counting, registration, cancellation, ping pump, overlay broadcasters, shutdown | `MCClientSession`, `ClientSessionProofs` |
| `TraceCoordinator` | one trace: coordinator, resolvers, waiter, channel, cancellation | `MCTraceCoordinator`, `TraceCoordinatorProofs` |
| `BlockStreams` | `subscribe.blocks`, `subscribe.newTransactions` | `MCChainReaders` |
| `StateStreams` | `subscribe.accountState`, `subscribe.configChanges` | `MCChainReaders` |
| `MessageWatch` | the resend and scan loop of `lite.sendAndWatch` | `MCChainReaders` |
| `TransactionFeeds` | `subscribe.transactions`, `subscribe.multiAccount` | `MCChainReaders` |
| `ReadRequests` | dispatch and every handler that answers once | `MCChainReaders` |
| `ChainReaders` | the composition of the five above | `MCChainReaders`, `ChainReadersProofs` |
| `Configuration` | `config.json`: load, migrate, default, validate, save, edit | `MCStartup`, `StartupProofs` |
| `Startup` | a run of the process on top of `Configuration`: acquisition and release, tunnel, signals, crashes | `MCStartup`, `StartupProofs` |

### PeerRegistry

Variables have the names of the Go fields.  Further ones are: `conn` and `hook`
(a connection object's life and how far the bridge's handlers on it have got),
`mu` (who holds `peerLifecycleMu`, for which operation, and at which stage: the
local variables of the goroutine inside the critical section), `phase` and
`snapshot` (how far `handleWS` is with a client, and the copy of `client.peers`
its teardown made), and `peerUses`, `overlayUses`, `answers`, `deliveries`
(goroutines that run without the lock, between two of their critical sections).

One action is one critical section or one blocking call.  `detachPeerLocked` is
four actions (`detachOverlays`, `detachPending`, `detachOwner`, `detachRemove`)
because it updates its tables under different locks and the gateway, the readers
and the start of a teardown see the states in between.  A connect is
`lockAndLook`, then `pingExisting`, or `RegisterClient`, `OutboundConnection` and
`pingCandidate`, with a detach and `closePeer` when the candidate fails, and for
`connectByADNL` the next endpoint.  An early return that only sends an error
changes no state and is a stuttering step.  A request waiting for the lock is not
represented: it holds nothing anybody looks at.  Requests of one client with the
same shape at the same point are one element of a set.  Peers and overlays are
kept in lists in the code and in sets here: the code never adds an element
twice and never uses the order.

The gateway is library code and is modelled from its use:
`Close` takes effect at once and its disconnect handler runs later on another
goroutine (the code calls `Close` with the lock held, and the handler takes the
lock); an error from the connection handler makes the gateway drop the
connection; `RegisterClient` runs the connection handler before it returns, or
returns a connection it already has; a closed overlay wrapper still reaches its
connection.

`PeerOwnership` says what all this amounts to: clients arrive and leave, a
connection is installed or turned away and never comes back, a present client
claims an unowned peer, a peer is removed.  `OwnershipRefinement` maps
`activePeers` and `peerOwners` together to its one table, a connection's `hook`
to having been used, and `phase` to presence: a client counts as present until
its clean-up has gone through its peers, which is what makes "leaves owning
nothing" true.

### ClientSession

One request is one value of `Requests`; `handler` says where its goroutine is.
All `subscribe.*` handlers and `lite.sendAndWatch` reserve a unit of
`activeSubs`, register a cancel function, stream, unregister and count down in
deferred calls.  What is streamed is the subject of the chain readers; here a
stream ends on its context (`endStream`) or for a reason of its own
(`breakStream`).  The ping pump may fail and close the socket, and ends with the
connection.  `overlay.broadcast` takes a slot of `broadcastSem`, gives it back on
either of its error paths, or hands it to a goroutine of its own that the wait
group does not know.

### TraceCoordinator

`resolver` gives the state of the goroutine of each message, `waiter` the
goroutine in `wg.Wait`, `newMsgsCh` the channel's buffer.  The messages that a
transaction sends are chosen freely among those not seen yet, so all trees are
explored.  `lateSpawn` is a history variable: a resolver was spawned after the
counter had reached zero and before a new `doneCh` was made.  A `Done` that
brings the counter to zero releases the waiter; if the counter is raised before
the waiter runs, `sync.WaitGroup` panics, which `panicked` records.

### Chain readers

Five modules, each for requests of one behaviour, with the chain as environment:

- `BlockStreams`: a stream takes the block after the last one it dealt with,
  reads its shards and, for transactions, page after page of each block, and
  sends the events in order.  A failed look-up takes it back to the same block,
  with nothing sent.  Blocks are seqnos, a transaction is its place in its block.
- `StateStreams`: a stream looks at the newest block, skipping those in between,
  and compares with what it reported last.  All it asks of a seqno is whether a
  newer block exists, so the chain here is endless and the model finite.
- `MessageWatch`: the account is a sequence of transactions, those of the
  message and others; the message may be executed, or lost on the way.  Every
  round looks at the account in a new block, scans back to the last known
  transaction, or sends the message again if the account has not moved.
- `TransactionFeeds`: per account a feed from the library through a bounded
  channel to a goroutine that filters and writes; the first failed write cancels
  all of them, and the handler waits for all.
- `ReadRequests`: a handler is the path of its steps (`parse`, `convert`,
  `snapshot`, `read`, `ownRead`, `ask`, `check`, `walk`), in the order of its
  code, each of which may end it with an error.  `readAt` collects the blocks its
  answer is put together from.  A JSON number is a float64 with `FloatBits` bits
  before it is compared with the largest exact integer.

`ChainReaders` puts them side by side.  They share nothing but the socket, so
exactly one runs in a behaviour; all their interleavings would add nothing.

### Configuration and Startup

`file` is what is on the disk: nothing, a partial file, or a configuration with
one field for each way `LoadConfig` treats a field.  `os.WriteFile` is two steps
(`truncate`, `SaveConfig`) with a crash or a failure in between.  Durations are
integers with the wrap-around of `time.Duration`.  `Startup` continues where
`LoadConfig` returns: `held` is what `run` has acquired, in order, `pc` the next
step.  `RunTunnel` is library code that reports tunnels and errors when it likes,
or never; `forwardEvent` and `notifyUpdate` are the goroutine of `startTunnel`
between its channel and the one that start-up waits on.

## 3. Runs

| Run | Instance | Shows |
|---|---|---|
| `ownership` | 2 clients, 1 peer, 3 generations, 2 requests per client, 2 endpoints | `OwnershipAgrees`, `NoZombie`, `PeerUseOwned`, `NoTakeover` hold, and `ImplementsPeerOwnership`: every step is one of the abstract specification or a stutter |
| `overlays` | 2 clients, 2 peers, 2 overlays, limits of one | `OverlayAttached`, `WithinLimits`, `GoneLeavesNothing` hold |
| `queries` | 2 clients, 2 generations, an overlay, a query id, 2 clock values | `TypeOK`, `PendingQueryLive`, `PendingNotLost` hold |
| `liveness` | 2 clients, 2 generations, fair | `TeardownCompletes`, `ClosedPeerRemoved` hold |
| `teardown_scope` | as `ownership` | `TeardownSparesOthers` fails (finding 1) |
| `foreign_overlay` | 2 clients, 2 peers, 1 overlay, 2 requests per client | `OverlayUseOwned` fails (finding 2) |
| `session` | 4 requests, 3 slots, 2 subscriptions, 1 broadcast, fair | `CountExact`, `SubscriptionLimit`, `StreamsCancellable`, `UnsubscribedEnds`, `SessionDrains` hold |
| `trace` | 4 messages, depth 3, 2 resolvers, channel of 2, fair | `TypeOK`, `EachMessageOnce`, `ExactUnlessLateSpawn`, `CoordinatorReturns` hold |
| `trace_complete` | 3 messages, channel of 1 | `CompleteMeansDone` fails (finding 3) |
| `chain` | 3 masterchain blocks, 2 shards, pages of 2; 2 config params; histories of 5, pages of 2; 2 accounts, channel of 1; every method, fair | `TypeOK`, `StreamExact`, `BlocksDelivered`, `StateCatchesUp`, `MessageNotSkipped`, `InclusionNoticed`, `FeedContiguous`, `FeedsEnd`, `OneSnapshot`, `NotFoundMeansAbsent`, `NumbersExact`, `AnsweredOnce` hold |
| `startup` | 1 edit, 2 keys, durations up to 128, 2 reports, event channel of 2, fair | `TypeOK`, `StartsAgain`, `SettingsKept`, `PingsInTime`, `LatestTunnel`, `SignalEnds` hold |
| `missing_defaults` | as `startup` | `MissingGetDefaults` fails (finding 4) |

Bounds.  Three generations of one peer allow an old connection's handler to run
after a newer one was installed, removed and followed by a third.  Two clients
are the smallest number that can dispute a peer, and the third plays no role a
second does not.  Limits of one with two peers and two overlays put every client
at its limit.  One tick of the clock outlasts the time-to-live of a query, so a
query recorded before it has expired after it and one recorded again has a later
deadline.
Two requests per client let a reader overlap a request that holds the lock.  Four
messages give chains of depth three and two children next to a chain; a channel
of two (one) fills up.  Three slots, two subscriptions and a fourth request put
`activeSubs` beyond its limit and leave one slot over; two broadcasts compete for
the one slot.  Clients are symmetric in the runs that check no liveness.

In `chain`, the tip can be two blocks ahead of a stream, a shard top moves by
none, one or two blocks, and blocks have none to three transactions, so that a
page of two is missed, filled, and exceeded; the library may also answer with
less than a page.  Two config params tell the first from the last of a list.  A
history of five with pages of two gives scans of up to three pages that end
inside a page, on its edge and at the beginning.  Feeds of two accounts are the
fewest in which one ends the other, and a channel of one fills up.  Three
mantissa bits put the limit of exact integers at 8, and numbers run to 16 on
both sides.

In `startup`, an edit is one of 28 files: an empty one, limits at, below and above
their bounds with and without subscriptions, every kind of deadline (malformed,
negative, zero, one, exact, and too long for nine times it), and a version 1
file.  Two keys let a key be generated, lost and generated again.  128 stands
for 2^63.  Two reports are one that start-up waits for and one that comes when it
no longer does.

Deadlock is not checked: connection objects, requests and messages are used
once, so an instance legitimately comes to rest when they are used up; a
session, a stream or a trace ends, and a process may stay down.  That nothing
stops too early is what the liveness properties say.

Fairness.  Weak fairness for the steps of goroutines that can run: Go's
scheduler runs them, and their blocking calls (ping, dial, send, look-up) carry
timeouts or are asynchronous; a broadcaster runs under a timeout of 65 s.
Strong fairness for those that wait for
`peerLifecycleMu`: Go's mutex goes into starvation mode and hands itself to the
longest waiter.  Strong fairness, too, for the branch of a `select` in a feed
whose context is done, since `select` chooses among ready branches at random.
No fairness for what clients and remote peers do: connecting,
closing, sending requests, breaking a stream; and none for the tunnel, which may
stay silent.

Progress against a liteserver needs something of the liteserver, and the
properties say what: `BlocksDelivered` and `InclusionNoticed` have the premise
that look-ups stop failing at some time (`<>[][~...]`).  For the state streams,
which read another block every time, it is strong fairness of a successful read,
together with a masterchain that does not stop.  `AnsweredOnce` needs neither: a
failed call is answered with an error.

## 4. Findings

1. `bridge.go:338`: a teardown copies `client.peers`, then waits for
   `peerLifecycleMu`, then looks each id up again.  Meanwhile the peer can
   close, be detached, and be connected by another client, whose peer, overlays
   and queries the teardown then removes.  (`teardown_scope`)
2. `overlay.go:358`: `overlay.sendMessage`, `sendRaw`, `broadcast` and `getPeers`
   read the wrapper, then check ownership by overlay id, in two critical
   sections; if the overlay changes hands in between, the request uses the
   previous owner's connection.  (`foreign_overlay`)
3. `trace.go:217`: a message taken from the channel after the counter reached
   zero gets a resolver that no waiter waits for; `trace_complete` is sent while
   it runs.  The same spawn can raise the counter before the released waiter has
   returned from `Wait`, which panics, and with the stale `doneCh` the cancel
   path (213) closes the channel while a resolver may still send to it.
   (`trace_complete`; `ExactUnlessLateSpawn` shows that the three have this one
   cause.)
4. `config.go:184`: `applyDefaults` leaves booleans alone, so a version 2 file
   that does not mention `ssrf_protection` runs without it, where the
   documentation has missing values receive their defaults.  (`missing_defaults`)

Observations.  The models are built on these; no document contradicts them:

- `subscribe.newTransactions` reads the shard blocks that a masterchain block
  refers to: one that has not moved is reported again, those between two tops are
  not read (`StreamExact` is stated accordingly).
- `dns.resolve` and `nft.getData` put an answer together from several blocks;
  `OneSnapshot` holds for all others.
- A number of 2^53 + 1 arrives as 2^53 and is accepted; from 2^53 + 2 on numbers
  are refused (`NumbersExact` names the exception).
- `sendAndWatch` may report an identical message executed before the request, if
  it is on the page that reaches the known transaction.
- A result that cannot be marshalled is not answered: `sendResult` only logs.  An
  answer counts as sent in the model when its handler calls `sendResult`.
- A `pong_deadline` of at most 1ns, or one so long (from 32 years on) that
  nine times it wraps to a negative, passes `Validate` and makes
  `time.NewTicker` panic with the first client (`pingPump`).
- A signal does not end a start-up that waits for a tunnel which never reports
  (the exception in `SignalEnds`).
- `Shutdown` does not wait for WebSocket sessions, which are hijacked.
- A crash between the two steps of a save leaves a file that the next start
  refuses; the operator has to remove it, and with it the key (`refuseConfig`).

## 5. Proofs

The proofs hold for any value of the constants that satisfies the `ASSUME`s of
the modules: any sets of clients, peers, connections, overlays, queries,
requests, messages, accounts and shards, any limits, page sizes and capacities,
any width of integers.  The assumptions are those the code or its constants
justify: limits are natural numbers, capacities and page sizes at least one, the
sets that are counted finite (`RegistryAssumption`, `SessionAssumption`,
`TraceAssumption` and so on); a stand-in such as `None` or `Missing` is none of
the values it stands beside (`NilAssumption`, `EditsAssumption`); the files an
operator writes are such as `encoding/json` accepts for a `Config`, whatever
values they set (`EditsAssumption`); the DNS root contract is asked for at least
once (`StartupAssumption`).  TLC evaluates them in the runs.

Hardly any invariant that a run checks is inductive as it stands.  What follows
says, for each module of proofs, what has to be added and why.

### Peers: `PeerRegistryProofs`, `PeerAttachmentProofs`, `PeerQueryProofs`

- `TypeCorrect`: `Spec => []TypeOK`.  `TypeOK` is not inductive: the record of
  the lock holder may hold `None` where a stage uses a peer or a connection.
  `TypeInv` adds `HolderOK` (which stages work on a peer and on a connection of
  that peer) and `KeyedById` (`activePeers` files a connection under its own id).
- `OwnershipAlwaysAgrees`: `Spec => []OwnershipAgrees`.  The inductive invariant
  `OwnershipInv` adds to `TypeInv` and `OwnershipAgrees`: `HolderClient` (a
  request holds the lock only for a client that has not passed `wg.Wait`, a
  clean-up only for one that has), `DetachKnows` (from the check at the start of
  `detachPeerLocked` to the removal the connection stays installed, its owner the
  same, and in the last stage no list names the peer), `CleanupCovers` (the loop
  of a clean-up has ahead of it, or is detaching, every peer its client still
  owns) and `ClosedOwnsNothing` (a closed client lists no peer, and after its
  clean-up owns none).  The argument: only `installPeer` gives a peer an owner,
  it does so for unowned peers only, and its caller then holds the lock for a
  client that is still there to list it; the gateway's own call of `installPeer`
  can only fill a free place and never changes an owner, which is why it may run
  without the lock.
- `PeersNeverTakenOver`: `Spec => NoTakeover`, from the same invariant.
- `NoZombieEver`: `Spec => []NoZombie`.  `Generations` says how the life of a
  connection object (`conn`), its handlers (`hook`) and the table agree: an
  installed connection is open, or its disconnect handler is due, or that handler
  is detaching it; one whose handler is armed is installed or about to be closed
  by the holder of the lock.
- `GrantedUsesOwnPeer`: `Spec => []PeerUseOwned`.  A request that has read a
  connection works on it while other goroutines detach it and connect the peer
  for others.  `StaysRemoved` is the step lemma: a connection whose handler has
  run and that is not installed is never installed again.  `UsesInv` adds that
  the connection of a request has had its handler run, so it either is still
  installed, and then the client's, or gone for good.
- `OverlaysStayAttached`: `Spec => []OverlayAttached`.  `HolderOverlays` says what
  the four tables owe each other between the critical sections of a join, a leave
  and a detach: which list entry is still to be made or deleted, and by whom.
- `PendingQueriesLive`: `Spec => []PendingQueryLive`.  `QueriesInv` adds that a
  handler of a peer was set by its owner for its present connection, that a query
  waiting for the lock came in on a connection of its client, and that a detach
  past its second stage has forgotten the connection's queries.
- `ClientLeavesNothing`: `Spec => []GoneLeavesNothing`, from all of the above
  (`AttachmentInv`).
- `LimitsHold`: `Spec => []WithinLimits`.  The check and the extension are stages
  apart; `HolderLimits` carries the check from the one to the other, which works
  because nobody without the lock extends the list.
- `PendingQueriesNotLost`: `Spec => PendingNotLost`, the action property, from
  `AttachmentInv` and the list of the actions that touch `pendingQueries`.

### Refinement: `OwnershipRefinementProofs`

`RegistryImplementsOwnership`: `Spec => ImplementsPeerOwnership`.  The initial
state maps to the initial state, and under `OwnershipInv` and `Generations` every
step maps to an operation of `PeerOwnership` or leaves its variables alone:
`ClaimMaps` (`installPeer` by a request is a claim of an unowned peer by a present
client), `HandlerMaps` (the gateway's connection handler installs or turns away a
connection that was never used), `RemoveMaps` (the last stage of a detach),
`SessionMaps` (arriving, leaving), `StutterMaps` (all others).

### Sessions: `ClientSessionProofs`

Every action moves one request from a stage to another.  `Moved` says what that
does to the number of requests in any set of stages, with which
`CountersExact` (`[]CountExact`), `SubscriptionsLimited` (`[]SubscriptionLimit`)
and `StreamsStayCancellable` (`[]StreamsCancellable`) follow from `SessionInv`:
the three of them and `BroadcastersAnswered` (a background broadcaster belongs to a
request that is past its answer, so it is counted once).  The limit follows from
the exact counter: a request gets past the check only if the counter, itself
included, is at most `MaxSubs`.
`NothingLeftAfterWait` is the safety half of `SessionDrains`: once `wg.Wait` has
returned no subscription is counted or registered (`Drained`).

### Chain readers: `ChainReadersProofs`

One reader runs and the others rest (`OneReader`), so each has an invariant of
its own:

- `WatchSkipsNothing` (`[]MessageNotSkipped`): `WatchInv` says that a scan has
  been through everything above its cursor, and that the cursor is above the known
  transaction.
- `FeedsWithoutGap` (`[]FeedContiguous`): `FeedInv` says that the channel holds
  the transactions just before the last one pushed, consecutively, and that what
  was written is the wanted part of what has left the channel.
- `StreamsExact` (`[]StreamExact`): `BlockInv` says, for each stage of a block
  under work, how the events already collected, the pages still to be read and the
  shards still to be visited add up to the block's transactions.
- `AnswersOneSnapshot`, `NotFoundIsTrue`, `ParametersExact`
  (`[]OneSnapshot`, `[]NotFoundMeansAbsent`, `[]NumbersExact`): `RequestInv` says
  that the rest of a handler's path can only read at the block it has read at
  (`Coherent`), and for `lite.getTransaction` that the walk has been through
  everything above its cursor.  `Coherent` is proved for every path of every
  handler, and kept by every step.
- `AnsweredExactlyOnce` is the safety half of `AnsweredOnce`: never two answers,
  and none missing when the handler has ended.
- `ReadersTyped` (`[]TypeOK`).

### Traces: `TraceCoordinatorProofs`

`TraceTyped` (`[]TypeOK`), `MessagesTracedOnce` (`[]EachMessageOnce`) and
`ExactWithoutLateSpawn` (`[]ExactUnlessLateSpawn`).  `TraceInv` has `OnePlace`,
which says without cardinalities that the places of a message exclude each other
and that being in one is being discovered, and `Quiet`: without a late spawn, a
waiter past `Wait` has nobody to wait for, and the coordinator that drains or has
returned has such a waiter behind it.

### Process: `StartupProofs`

`ProcessStartsAgain` (`[]StartsAgain`), `OperatorSettingsKept` (`[]SettingsKept`)
and `PingsBeforeDeadline` (`[]PingsInTime`) are about the file: `ConfigInv` says
that what is about to be written is whole, and that the configuration in memory
keeps what was read, wherever the process is.  The lemmas on `applyDefaults` and
`migrateV1` (`DefaultsApplied`, `FullUnchanged`, `FieldsKept`) hold for every
configuration, not only for the 28 of the run; `NineTenths` is the arithmetic of
the ping period for any width.
`HeldInOrder` (`[]TypeOK`) needs `Holding`, how much is held at each step of `run`.
`TunnelIsLatest` (`[]LatestTunnel`) needs `EventsInv` and `TunnelInv`: the last
update among the events on their way is the last tunnel built, and when none is
on its way the last one has arrived.

### Checked by TLC only

The liveness properties: `TeardownCompletes`, `ClosedPeerRemoved`,
`UnsubscribedEnds`, `SessionDrains`, `CoordinatorReturns`, `BlocksDelivered`,
`StateCatchesUp`, `InclusionNoticed`, `FeedsEnd`, `AnsweredOnce`, `SignalEnds`.
They need fairness and `ENABLED`, which the prover does not handle.  All
invariants, the action properties and the refinement of the passing runs are
proved.

The proofs have one lemma per group of actions and one step per action.  The
inductive invariants were checked with TLC on the instances of the runs before
they were proved (for `StartupInv`, with the index in `EventsAre` bounded by the
queue's length).

## 6. Plan

Done: all modules of section 2, the runs, the refinement, the proofs above.

Open:

1. The safety halves of further liveness properties: what a teardown that has
   ended, feeds that have ended and a process that is down leave behind.
2. What `PeerOwnership` promises by itself (a connection that was removed does not
   come back, a client that has left owns nothing), proved of the abstract
   specification and carried to the registry through the refinement.
3. `max_clients` and the API key at the upgrade, as a module of their own.

## 7. Not modelled

- Which clients receive an event (`peerCustomHandler`, `sendEvent`,
  `broadcastToClients`): they change no state of the registry.
- Admission: `max_clients` and the API key, decided once at the upgrade, and the
  HTTP upgrade itself; deadlines of single writes.
- Contents: parsing, addresses, cells, serialisation (`helpers.go`, the bodies of
  answers), logging.  They are sequential and without state.
- The insides of tonutils-go (gateway, DHT, liteserver pool, tunnel), which are
  modelled from their use and marked external in `PROJECT.json`.
- Sessions and process are not composed: a session of a process that is going
  down has the behaviours of one whose connection ends.
