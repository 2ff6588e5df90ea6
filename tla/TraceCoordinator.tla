-------------------------- MODULE TraceCoordinator --------------------------
(***************************************************************************)
(* One trace of subscribe.trace: traceCoordinator (trace.go:168), the      *)
(* resolver goroutines it spawns, and the goroutine that waits for them.   *)
(*                                                                         *)
(* Each internal message gets a resolver, which polls until it finds the   *)
(* transaction of the message and puts the messages that transaction sent  *)
(* into newMsgsCh.  The coordinator reads them and spawns resolvers.  A    *)
(* waiter closes doneCh when the WaitGroup reaches zero; the coordinator   *)
(* then reports trace_complete.                                            *)
(*                                                                         *)
(* The messages a transaction sends are an arbitrary set of messages that  *)
(* were not seen before, so every tree over Msgs is explored.              *)
(***************************************************************************)
EXTENDS Naturals, FiniteSets, Sequences

CONSTANTS
    Msgs,          \* internal messages (pendingMsg, by msgHash)
    MaxDepth,      \* state.maxDepth
    MaxResolvers,  \* capacity of sem
    ChanCap        \* capacity of newMsgsCh (64)

ASSUME TraceAssumption ==
    /\ IsFiniteSet(Msgs)
    /\ MaxDepth \in Nat \ {0} /\ MaxResolvers \in Nat \ {0} /\ ChanCap \in Nat \ {0}

VARIABLES
    coord,      \* where traceCoordinator is
    resolver,   \* message -> where its resolver is
    toSend,     \* message -> children its resolver has yet to put in the channel
    depth,      \* message -> pendingMsg.depth
    newMsgsCh,  \* the channel's buffer
    chClosed,   \* close(newMsgsCh) was called
    waiter,     \* the goroutine in wg.Wait; close(doneCh) ends it
    cancelled,  \* ctx is done
    completed,  \* trace_complete was sent
    panicked,   \* a WaitGroup or channel misuse panicked
    discovered, \* messages that some transaction was seen to send
    dropped,    \* messages the clean-up after a cancel threw away
    lateSpawn   \* a resolver was spawned after wg had reached zero and
                \* before doneCh was made anew

vars == <<coord, resolver, toSend, depth, newMsgsCh, chClosed, waiter, cancelled,
          completed, panicked, discovered, dropped, lateSpawn>>

Live == {m \in Msgs : resolver[m] \in {"queued", "running", "sending"}}

\* The WaitGroup's counter: spawned and not yet done.
counter == Cardinality(Live)

\* doneCh is closed once its waiter has ended.
doneClosed == waiter = "ended"

\* A panic in one of these goroutines ends the process.
running == ~panicked

-----------------------------------------------------------------------------
(* Coordinator *)

\* wg.Add(1) and the go statement, trace.go:177.
spawnResolver(m) == resolver' = [resolver EXCEPT ![m] = "queued"]

\* case msg := <-newMsgsCh, trace.go:217.  doneCh is left as it is.
takeMessage ==
    /\ running
    /\ coord = "select"
    /\ newMsgsCh # <<>>
    /\ spawnResolver(Head(newMsgsCh))
    /\ newMsgsCh' = Tail(newMsgsCh)
    /\ lateSpawn' = (lateSpawn \/ waiter \notin {"starting", "waiting"})
    /\ UNCHANGED <<coord, toSend, depth, chClosed, waiter, cancelled, completed,
                   panicked, discovered, dropped>>

\* case <-doneCh, trace.go:225.
seeDone ==
    /\ running
    /\ coord = "select"
    /\ doneClosed
    /\ coord' = "drain"
    /\ UNCHANGED <<resolver, toSend, depth, newMsgsCh, chClosed, waiter, cancelled,
                   completed, panicked, discovered, dropped, lateSpawn>>

\* Mutants: the message is lost; the old doneCh is kept; no waiter is launched.
MutantDrainLosesMessage ==
    /\ running
    /\ coord = "drain"
    /\ newMsgsCh # <<>>
    /\ newMsgsCh' = Tail(newMsgsCh)
    /\ waiter' = "starting"
    /\ coord' = "select"
    /\ UNCHANGED <<resolver, toSend, depth, chClosed, cancelled, completed, panicked,
                   discovered, dropped, lateSpawn>>

MutantDrainKeepsDoneCh ==
    /\ running
    /\ coord = "drain"
    /\ newMsgsCh # <<>>
    /\ spawnResolver(Head(newMsgsCh))
    /\ newMsgsCh' = Tail(newMsgsCh)
    /\ coord' = "select"
    /\ UNCHANGED <<toSend, depth, chClosed, waiter, cancelled, completed, panicked,
                   discovered, dropped, lateSpawn>>

MutantDrainWithoutWaiter ==
    /\ running
    /\ coord = "drain"
    /\ newMsgsCh # <<>>
    /\ spawnResolver(Head(newMsgsCh))
    /\ newMsgsCh' = Tail(newMsgsCh)
    /\ waiter' = "missing"
    /\ coord' = "select"
    /\ UNCHANGED <<toSend, depth, chClosed, cancelled, completed, panicked,
                   discovered, dropped, lateSpawn>>

\* A message is left: spawn for it and launch a new waiter on a new doneCh.
drainMessage ==
    /\ running
    /\ coord = "drain"
    /\ newMsgsCh # <<>>
    /\ spawnResolver(Head(newMsgsCh))
    /\ newMsgsCh' = Tail(newMsgsCh)
    /\ waiter' = "starting"
    /\ coord' = "select"
    /\ UNCHANGED <<toSend, depth, chClosed, cancelled, completed, panicked,
                   discovered, dropped, lateSpawn>>

\* Nothing is left: trace_complete.
drainEmpty ==
    /\ running
    /\ coord = "drain"
    /\ newMsgsCh = <<>>
    /\ completed' = TRUE
    /\ coord' = "returned"
    /\ UNCHANGED <<resolver, toSend, depth, newMsgsCh, chClosed, waiter, cancelled,
                   panicked, discovered, dropped, lateSpawn>>

\* case <-ctx.Done(), trace.go:205: a drainer starts, doneCh is awaited.
seeCancel ==
    /\ running
    /\ coord = "select"
    /\ cancelled
    /\ coord' = "awaitDone"
    /\ UNCHANGED <<resolver, toSend, depth, newMsgsCh, chClosed, waiter, cancelled,
                   completed, panicked, discovered, dropped, lateSpawn>>

discard ==
    /\ running
    /\ coord = "awaitDone" \/ chClosed
    /\ newMsgsCh # <<>>
    /\ dropped' = dropped \cup {Head(newMsgsCh)}
    /\ newMsgsCh' = Tail(newMsgsCh)
    /\ UNCHANGED <<coord, resolver, toSend, depth, chClosed, waiter, cancelled,
                   completed, panicked, discovered, lateSpawn>>

closeAndReturn ==
    /\ running
    /\ coord = "awaitDone"
    /\ doneClosed
    /\ chClosed' = TRUE
    /\ coord' = "returned"
    /\ UNCHANGED <<resolver, toSend, depth, newMsgsCh, waiter, cancelled, completed,
                   panicked, discovered, dropped, lateSpawn>>

-----------------------------------------------------------------------------
(* The waiter: wg.Wait(); close(doneCh) *)

startWait ==
    /\ running
    /\ waiter = "starting"
    /\ waiter' = IF Live = {} THEN "closing" ELSE "waiting"
    /\ UNCHANGED <<coord, resolver, toSend, depth, newMsgsCh, chClosed, cancelled,
                   completed, panicked, discovered, dropped, lateSpawn>>

\* A waiter that the last Done released panics if the counter has been
\* raised again before it runs ("WaitGroup is reused before previous Wait
\* has returned").
wakeWaiter ==
    /\ running
    /\ waiter = "released"
    /\ IF Live = {} THEN waiter' = "closing" /\ UNCHANGED panicked
                    ELSE panicked' = TRUE /\ UNCHANGED waiter
    /\ UNCHANGED <<coord, resolver, toSend, depth, newMsgsCh, chClosed, cancelled,
                   completed, discovered, dropped, lateSpawn>>

closeDone ==
    /\ running
    /\ waiter = "closing"
    /\ waiter' = "ended"
    /\ UNCHANGED <<coord, resolver, toSend, depth, newMsgsCh, chClosed, cancelled,
                   completed, panicked, discovered, dropped, lateSpawn>>

-----------------------------------------------------------------------------
(* Resolvers *)

\* sem <- struct{}{}
acquire(m) ==
    /\ running
    /\ resolver[m] = "queued"
    /\ Cardinality({n \in Msgs : resolver[n] \in {"running", "sending"}}) < MaxResolvers
    /\ resolver' = [resolver EXCEPT ![m] = "running"]
    /\ UNCHANGED <<coord, toSend, depth, newMsgsCh, chClosed, waiter, cancelled,
                   completed, panicked, discovered, dropped, lateSpawn>>

\* The deferred release of sem and wg.Done.  The Done that brings the
\* counter to zero releases a waiter blocked in Wait.
finish(m) ==
    /\ resolver' = [resolver EXCEPT ![m] = "done"]
    /\ waiter' = IF Live = {m} /\ waiter = "waiting" THEN "released" ELSE waiter

\* Ways out of resolveMessage that send no child: a look-up error, the
\* message's timeout, the end of ctx, a failed trace_tx event.
giveUp(m) ==
    /\ running
    /\ resolver[m] = "running"
    /\ finish(m)
    /\ UNCHANGED <<coord, toSend, depth, newMsgsCh, chClosed, cancelled, completed,
                   panicked, discovered, dropped, lateSpawn>>

\* Mutant: children are followed below the depth limit, too.
MutantScanForMatch(m) ==
    /\ running
    /\ resolver[m] = "running"
    /\ \E children \in SUBSET (Msgs \ discovered) :
         /\ toSend' = [toSend EXCEPT ![m] = children]
         /\ depth' = [n \in Msgs |-> IF n \in children THEN depth[m] + 1 ELSE depth[n]]
         /\ discovered' = discovered \cup children
    /\ resolver' = [resolver EXCEPT ![m] = "sending"]
    /\ UNCHANGED <<coord, newMsgsCh, chClosed, waiter, cancelled, completed, panicked,
                   dropped, lateSpawn>>

\* scanForMatch finds the transaction; below the depth limit its internal
\* out messages are extracted one level deeper.  A look-up that was answered
\* before ctx ended may be acted on after it.
scanForMatch(m) ==
    /\ running
    /\ resolver[m] = "running"
    /\ \E children \in SUBSET (Msgs \ discovered) :
         /\ depth[m] < MaxDepth \/ children = {}
         /\ toSend' = [toSend EXCEPT ![m] = children]
         /\ depth' = [n \in Msgs |-> IF n \in children THEN depth[m] + 1 ELSE depth[n]]
         /\ discovered' = discovered \cup children
    /\ resolver' = [resolver EXCEPT ![m] = "sending"]
    /\ UNCHANGED <<coord, newMsgsCh, chClosed, waiter, cancelled, completed, panicked,
                   dropped, lateSpawn>>

\* newMsgsCh <- child: blocks on a full channel, panics on a closed one.
sendChild(m) ==
    /\ running
    /\ resolver[m] = "sending"
    /\ \E child \in toSend[m] :
         IF chClosed
           THEN panicked' = TRUE /\ UNCHANGED <<newMsgsCh, toSend>>
           ELSE /\ Len(newMsgsCh) < ChanCap
                /\ newMsgsCh' = Append(newMsgsCh, child)
                /\ toSend' = [toSend EXCEPT ![m] = @ \ {child}]
                /\ UNCHANGED panicked
    /\ UNCHANGED <<coord, resolver, depth, chClosed, waiter, cancelled, completed,
                   discovered, dropped, lateSpawn>>

returnMatched(m) ==
    /\ running
    /\ resolver[m] = "sending"
    /\ toSend[m] = {}
    /\ finish(m)
    /\ UNCHANGED <<coord, toSend, depth, newMsgsCh, chClosed, cancelled, completed,
                   panicked, discovered, dropped, lateSpawn>>

\* The client unsubscribes or goes away.
Cancel ==
    /\ running
    /\ ~cancelled
    /\ cancelled' = TRUE
    /\ UNCHANGED <<coord, resolver, toSend, depth, newMsgsCh, chClosed, waiter,
                   completed, panicked, discovered, dropped, lateSpawn>>

-----------------------------------------------------------------------------
\* trace.go:169-198: a resolver for every message of the root transaction.
Init ==
    /\ \E initial \in SUBSET Msgs :
         /\ resolver = [m \in Msgs |-> IF m \in initial THEN "queued" ELSE "none"]
         /\ depth = [m \in Msgs |-> IF m \in initial THEN 1 ELSE 0]
         /\ discovered = initial
    /\ coord = "select"
    /\ toSend = [m \in Msgs |-> {}]
    /\ newMsgsCh = <<>> /\ chClosed = FALSE
    /\ waiter = "starting"
    /\ cancelled = FALSE /\ completed = FALSE /\ panicked = FALSE
    /\ dropped = {} /\ lateSpawn = FALSE

Coordinator ==
    takeMessage \/ seeDone \/ drainMessage \/ drainEmpty \/ seeCancel \/ closeAndReturn

Waiter == startWait \/ wakeWaiter \/ closeDone

resolveMessage(m) ==
    acquire(m) \/ giveUp(m) \/ scanForMatch(m) \/ sendChild(m) \/ returnMatched(m)

Next ==
    \/ Coordinator \/ discard \/ Waiter \/ Cancel
    \/ \E m \in Msgs : resolveMessage(m)

Spec == Init /\ [][Next]_vars

\* Goroutines that can run do run; a message's timeout bounds its polling.
FairSpec ==
    /\ Spec
    /\ WF_vars(Coordinator)
    /\ WF_vars(discard)
    /\ WF_vars(Waiter)
    /\ \A m \in Msgs : WF_vars(resolveMessage(m))

-----------------------------------------------------------------------------
(* Properties *)

\* Every variable has the shape of the channel, counter or flag it models,
\* and the channel never exceeds its capacity.
TypeOK ==
    /\ coord \in {"select", "drain", "awaitDone", "returned"}
    /\ resolver \in [Msgs -> {"none", "queued", "running", "sending", "done"}]
    /\ toSend \in [Msgs -> SUBSET Msgs]
    /\ depth \in [Msgs -> 0..MaxDepth]
    /\ newMsgsCh \in Seq(Msgs) /\ Len(newMsgsCh) <= ChanCap
    /\ waiter \in {"starting", "waiting", "released", "closing", "ended"}
    /\ {chClosed, cancelled, completed, panicked, lateSpawn} \subseteq BOOLEAN
    /\ discovered \subseteq Msgs /\ dropped \subseteq Msgs

\* No discovered message disappears and none is traced twice: it is with the
\* resolver that found it, in the channel, has a resolver of its own, or was
\* thrown away after a cancel, and is in one of these places only.
EachMessageOnce ==
    \A m \in Msgs :
      LET places == {<<"send", n>> : n \in {n \in Msgs : m \in toSend[n]}}
                      \cup {<<"chan", i>> : i \in {i \in 1..Len(newMsgsCh) : newMsgsCh[i] = m}}
                      \cup (IF resolver[m] # "none" THEN {<<"resolver", m>>} ELSE {})
                      \cup (IF m \in dropped THEN {<<"dropped", m>>} ELSE {})
      IN  Cardinality(places) = IF m \in discovered THEN 1 ELSE 0

\* As long as no resolver was spawned behind the waiter's back, the trace is
\* exact: trace_complete means that every discovered message was resolved or
\* timed out, the channel is closed on nobody, and nothing panics.
ExactUnlessLateSpawn ==
    ~lateSpawn =>
      /\ completed => \A m \in discovered : resolver[m] = "done"
      /\ chClosed => Live = {}
      /\ ~panicked

\* The coordinator returns: no interleaving of resolvers, waiter, channel
\* and cancellation leaves it waiting for ever.
CoordinatorReturns == <>(coord = "returned" \/ panicked)

\* trace_complete is sent when all messages are resolved or timed out, as
\* the comment on traceCoordinator says.
CompleteMeansDone == completed => \A m \in discovered : resolver[m] = "done"
=============================================================================
