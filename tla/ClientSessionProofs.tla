------------------------- MODULE ClientSessionProofs -------------------------
(***************************************************************************)
(* Proofs about one WebSocket session.  Every step of a request goroutine  *)
(* moves one request from a stage to another; Moved says what that does to *)
(* the number of requests in a set of stages, and the two counters follow. *)
(***************************************************************************)
EXTENDS ClientSession, FiniteSetTheorems, TLAPS

\* A background broadcaster belongs to a request that is past its answer, so
\* no request starts two of them and its slot is counted once.
BroadcastersAnswered == broadcasters \subseteq In({"working", "done"})

\* The inductive invariant.
SessionInv ==
    /\ CountExact /\ SubscriptionLimit /\ StreamsCancellable
    /\ BroadcastersAnswered

-----------------------------------------------------------------------------
(* Counting requests *)

\* There are finitely many requests in any set of stages.
LEMMA InFinite ==
    ASSUME NEW S
    PROVE  IsFiniteSet(In(S)) /\ Cardinality(In(S)) \in Nat
<1>1. In(S) \subseteq Requests BY DEF In
<1>2. IsFiniteSet(In(S)) BY <1>1, SessionAssumption, FS_Subset
<1> QED BY <1>2, FS_CardinalityType

\* A request that moves from a stage to another changes the number of
\* requests in S by one when it crosses the border of S, and not otherwise.
LEMMA Moved ==
    ASSUME handler \in [Requests -> Stages], NEW r \in Requests, NEW to \in Stages,
           goto(r, to), NEW S
    PROVE  /\ In(S)' = IF to \in S THEN In(S) \cup {r} ELSE In(S) \ {r}
           /\ Cardinality(In(S)') = Cardinality(In(S))
                + (IF to \in S THEN 1 ELSE 0) - (IF handler[r] \in S THEN 1 ELSE 0)
<1>1. In(S)' = IF to \in S THEN In(S) \cup {r} ELSE In(S) \ {r} BY DEF goto, In
<1>2. r \in In(S) <=> handler[r] \in S BY DEF In
<1>3. IsFiniteSet(In(S)) /\ Cardinality(In(S)) \in Nat BY InFinite
<1>4. Cardinality(In(S)') = Cardinality(In(S))
        + (IF to \in S THEN 1 ELSE 0) - (IF handler[r] \in S THEN 1 ELSE 0)
  <2>1. CASE to \in S /\ handler[r] \notin S
    <3>1. Cardinality(In(S)') = Cardinality(In(S)) + 1
      BY <1>1, <1>2, <1>3, <2>1, FS_AddElement
    <3> QED BY <1>3, <2>1, <3>1
  <2>2. CASE to \notin S /\ handler[r] \in S
    <3>1. Cardinality(In(S)') = Cardinality(In(S)) - 1
      BY <1>1, <1>2, <1>3, <2>2, FS_RemoveElement
    <3> QED BY <1>3, <2>2, <3>1
  <2>3. CASE to \in S <=> handler[r] \in S
    <3>1. In(S)' = In(S) BY <1>1, <1>2, <2>3
    <3> QED BY <1>3, <2>3, <3>1
  <2> QED BY <2>1, <2>2, <2>3
<1> QED BY <1>1, <1>4

\* The sets of stages that the invariant speaks of.
Admitted == {"counted", "registered", "streaming", "unregister"}
Running == {"registered", "streaming"}
Listed == {"registered", "streaming", "unregister"}
Answered == {"working", "done"}

\* What a move does to each of them.
LEMMA MovedAll ==
    ASSUME handler \in [Requests -> Stages], NEW r \in Requests, NEW to \in Stages, goto(r, to)
    PROVE  /\ handler' \in [Requests -> Stages]
           /\ In(Running)' = IF to \in Running THEN In(Running) \cup {r} ELSE In(Running) \ {r}
           /\ In(Listed)' = IF to \in Listed THEN In(Listed) \cup {r} ELSE In(Listed) \ {r}
           /\ In(Answered)' = IF to \in Answered THEN In(Answered) \cup {r} ELSE In(Answered) \ {r}
           /\ Cardinality(In(CountedStages)') = Cardinality(In(CountedStages))
                + (IF to \in CountedStages THEN 1 ELSE 0) - (IF handler[r] \in CountedStages THEN 1 ELSE 0)
           /\ Cardinality(In({"broadcast"})') = Cardinality(In({"broadcast"}))
                + (IF to = "broadcast" THEN 1 ELSE 0) - (IF handler[r] = "broadcast" THEN 1 ELSE 0)
           /\ Cardinality(In(Admitted)') = Cardinality(In(Admitted))
                + (IF to \in Admitted THEN 1 ELSE 0) - (IF handler[r] \in Admitted THEN 1 ELSE 0)
<1>1. handler' \in [Requests -> Stages] BY DEF goto
<1>2. In(Running)' = IF to \in Running THEN In(Running) \cup {r} ELSE In(Running) \ {r} BY Moved
<1>3. In(Listed)' = IF to \in Listed THEN In(Listed) \cup {r} ELSE In(Listed) \ {r} BY Moved
<1>4. In(Answered)' = IF to \in Answered THEN In(Answered) \cup {r} ELSE In(Answered) \ {r} BY Moved
<1>5. Cardinality(In(CountedStages)') = Cardinality(In(CountedStages))
        + (IF to \in CountedStages THEN 1 ELSE 0) - (IF handler[r] \in CountedStages THEN 1 ELSE 0)
  BY Moved
<1>6. Cardinality(In({"broadcast"})') = Cardinality(In({"broadcast"}))
        + (IF to \in {"broadcast"} THEN 1 ELSE 0) - (IF handler[r] \in {"broadcast"} THEN 1 ELSE 0)
  BY Moved
<1>7. Cardinality(In(Admitted)') = Cardinality(In(Admitted))
        + (IF to \in Admitted THEN 1 ELSE 0) - (IF handler[r] \in Admitted THEN 1 ELSE 0)
  BY Moved
<1> QED BY <1>1, <1>2, <1>3, <1>4, <1>5, <1>6, <1>7

-----------------------------------------------------------------------------
(* The invariant *)

\* In the beginning nothing is counted and nothing runs.
LEMMA InitSession == Init => SessionInv
<1> SUFFICES ASSUME Init PROVE SessionInv OBVIOUS
<1>1. TypeOK BY DEF Init, TypeOK, Stages, SlotStages, CountedStages
<1>2. /\ In(CountedStages) = {} /\ In({"broadcast"}) = {}
      /\ In({"counted", "registered", "streaming", "unregister"}) = {}
      /\ In({"registered", "streaming"}) = {}
  BY DEF Init, In, CountedStages
<1>3. Cardinality({}) = 0 BY FS_EmptySet
<1> QED BY <1>1, <1>2, <1>3, SessionAssumption
        DEF Init, SessionInv, CountExact, SubscriptionLimit, StreamsCancellable, BroadcastersAnswered

\* Every step keeps the invariant.
LEMMA NextSession == SessionInv /\ [Next]_vars => SessionInv'
<1> SUFFICES ASSUME SessionInv, [Next]_vars PROVE SessionInv' OBVIOUS
<1> USE DEF requestVars, besides
<1>a. /\ handler \in [Requests -> Stages] /\ {open, pump, returned} \subseteq BOOLEAN
      /\ subscriptions \subseteq Requests /\ cancelled \subseteq Requests
      /\ broadcasters \subseteq Requests
  BY DEF SessionInv, CountExact, TypeOK
<1>b. IsFiniteSet(broadcasters) /\ Cardinality(broadcasters) \in Nat
  BY <1>a, SessionAssumption, FS_Subset, FS_CardinalityType
<1>c. /\ Cardinality(In(CountedStages)) \in Nat /\ Cardinality(In({"broadcast"})) \in Nat
      /\ Cardinality(In(Admitted)) \in Nat /\ MaxSubs \in Nat /\ MaxBroadcasts \in Nat
  BY InFinite, SessionAssumption
<1>d. In(Admitted) \subseteq In(CountedStages) /\ IsFiniteSet(In(CountedStages))
  BY InFinite DEF In, Admitted, CountedStages
<1>e. Cardinality(In(Admitted)) <= Cardinality(In(CountedStages))
  BY <1>d, FS_Subset
<1>f. /\ activeSubs = Cardinality(In(CountedStages))
      /\ broadcastSem = Cardinality(In({"broadcast"})) + Cardinality(broadcasters)
      /\ broadcastSem <= MaxBroadcasts /\ Cardinality(In(Admitted)) <= MaxSubs
      /\ In(Running) \subseteq subscriptions \cup cancelled
      /\ subscriptions \subseteq In(Listed) /\ broadcasters \subseteq In(Answered)
  BY DEF SessionInv, CountExact, SubscriptionLimit, StreamsCancellable, BroadcastersAnswered,
         Admitted, Running, Listed, Answered
<1>g. ASSUME handler' \in [Requests -> Stages], {open, pump, returned}' \subseteq BOOLEAN,
             subscriptions' \subseteq Requests, cancelled' \subseteq Requests,
             broadcasters' \subseteq Requests,
             activeSubs' = Cardinality(In(CountedStages)'),
             broadcastSem' = Cardinality(In({"broadcast"})') + Cardinality(broadcasters'),
             broadcastSem' <= MaxBroadcasts, Cardinality(In(Admitted)') <= MaxSubs,
             In(Running)' \subseteq subscriptions' \cup cancelled',
             subscriptions' \subseteq In(Listed)', broadcasters' \subseteq In(Answered)'
      PROVE  SessionInv'
  BY <1>g DEF SessionInv, CountExact, TypeOK, SubscriptionLimit, StreamsCancellable,
              BroadcastersAnswered, Admitted, Running, Listed, Answered
<1>h. ASSUME UNCHANGED requestVars, UNCHANGED <<broadcastSem, broadcasters>>,
             {open, pump, returned}' \subseteq BOOLEAN
      PROVE  SessionInv'
  BY <1>h DEF SessionInv, CountExact, TypeOK, SubscriptionLimit, StreamsCancellable,
              BroadcastersAnswered, In
<1> HIDE DEF requestVars
<1>1. CASE UNCHANGED vars BY <1>1, <1>a, <1>h DEF vars
<1>2. CASE endRead \/ pumpFails \/ pumpEnds \/ waitRequests
  BY <1>2, <1>a, <1>h DEF endRead, pumpFails, pumpEnds, waitRequests
<1> USE DEF requestVars
<1>3. ASSUME NEW r \in Requests, NEW to \in Stages, goto(r, to),
             (to \in CountedStages) <=> (handler[r] \in CountedStages),
             (to = "broadcast") <=> (handler[r] = "broadcast"),
             to \in Admitted => handler[r] \in Admitted,
             to \in Running => handler[r] \in Running,
             handler[r] \in Listed => to \in Listed,
             handler[r] \in Answered => to \in Answered,
             UNCHANGED <<open, activeSubs, subscriptions, cancelled, besides>>
      PROVE  SessionInv'
  <2>1. /\ handler' \in [Requests -> Stages]
        /\ In(Running)' \subseteq In(Running) /\ In(Listed) \subseteq In(Listed)'
        /\ In(Answered) \subseteq In(Answered)'
    <3>1. /\ r \in In(Running) <=> handler[r] \in Running
          /\ r \in In(Listed) <=> handler[r] \in Listed
          /\ r \in In(Answered) <=> handler[r] \in Answered
      BY DEF In
    <3> QED BY <1>3, <1>a, <3>1, MovedAll
  <2>2. Cardinality(In(CountedStages)') = Cardinality(In(CountedStages))
    BY <1>3, <1>a, <1>c, MovedAll
  <2>3. Cardinality(In({"broadcast"})') = Cardinality(In({"broadcast"}))
    BY <1>3, <1>a, <1>c, MovedAll
  <2>4. Cardinality(In(Admitted)') <= MaxSubs
    BY <1>3, <1>a, <1>c, <1>f, MovedAll
  <2> QED BY <1>3, <1>a, <1>f, <1>g, <2>1, <2>2, <2>3, <2>4
<1>4. ASSUME NEW r \in Requests,
             \/ receive(r) \/ acquireSlot(r) \/ finish(r) \/ handleOther(r)
             \/ start(r) \/ endStream(r) \/ breakStream(r)
      PROVE  SessionInv'
  <2> USE DEF Stages, SlotStages, CountedStages, Admitted, Running, Listed, Answered
  <2>1. CASE receive(r) BY <2>1, <1>3 DEF receive
  <2>2. CASE acquireSlot(r)
    <3>1. goto(r, "admitted") \/ goto(r, "done") BY <2>2 DEF acquireSlot
    <3> QED BY <2>2, <3>1, <1>3 DEF acquireSlot
  <2>3. CASE finish(r) BY <2>3, <1>3 DEF finish
  <2>4. CASE handleOther(r) BY <2>4, <1>3 DEF handleOther
  <2>5. CASE start(r) BY <2>5, <1>3 DEF start
  <2>6. CASE endStream(r) BY <2>6, <1>3 DEF endStream
  <2>7. CASE breakStream(r) BY <2>7, <1>3 DEF breakStream
  <2> QED BY <1>4, <2>1, <2>2, <2>3, <2>4, <2>5, <2>6, <2>7
<1>5. ASSUME NEW r \in Requests, NEW to \in Stages, goto(r, to)
      PROVE  /\ handler' \in [Requests -> Stages]
             /\ In(Running)' = IF to \in Running THEN In(Running) \cup {r} ELSE In(Running) \ {r}
             /\ In(Listed)' = IF to \in Listed THEN In(Listed) \cup {r} ELSE In(Listed) \ {r}
             /\ In(Answered)' = IF to \in Answered THEN In(Answered) \cup {r} ELSE In(Answered) \ {r}
             /\ r \in In(Running) <=> handler[r] \in Running
             /\ r \in In(Listed) <=> handler[r] \in Listed
             /\ r \in In(Answered) <=> handler[r] \in Answered
  <2>1. /\ r \in In(Running) <=> handler[r] \in Running
        /\ r \in In(Listed) <=> handler[r] \in Listed
        /\ r \in In(Answered) <=> handler[r] \in Answered
    BY DEF In
  <2> QED BY <1>a, <1>5, <2>1, MovedAll
<1>6. ASSUME NEW r \in Requests, NEW s \in Requests, handleUnsubscribe(r, s) PROVE SessionInv'
  <2> USE DEF Stages, SlotStages, CountedStages, Admitted, Running, Listed, Answered
  <2>1. /\ handler[r] = "admitted" /\ goto(r, "working")
        /\ UNCHANGED <<open, activeSubs, besides>>
        /\ subscriptions' \subseteq subscriptions /\ cancelled \subseteq cancelled'
        /\ subscriptions \cup cancelled \subseteq subscriptions' \cup cancelled'
        /\ cancelled' \subseteq Requests
    BY <1>6, <1>a DEF handleUnsubscribe
  <2>2. /\ Cardinality(In(CountedStages)') = Cardinality(In(CountedStages))
        /\ Cardinality(In({"broadcast"})') = Cardinality(In({"broadcast"}))
        /\ Cardinality(In(Admitted)') = Cardinality(In(Admitted))
    BY <1>a, <1>c, <2>1, MovedAll
  <2>3. /\ handler' \in [Requests -> Stages] /\ In(Running)' \subseteq In(Running)
        /\ In(Listed)' = In(Listed) /\ In(Answered) \subseteq In(Answered)'
    <3>1. handler[r] = "admitted" /\ goto(r, "working") BY <2>1
    <3> QED BY <3>1, <1>5
  <2> QED BY <1>a, <1>f, <1>g, <2>1, <2>2, <2>3
<1>7. ASSUME NEW r \in Requests, reserve(r) PROVE SessionInv'
  <2> USE DEF Stages, SlotStages, CountedStages, Admitted, Running, Listed, Answered
  <2>1. PICK to \in {"overshoot", "counted"} :
          /\ handler[r] = "admitted" /\ goto(r, to) /\ activeSubs' = activeSubs + 1
          /\ to = "counted" => activeSubs + 1 <= MaxSubs
          /\ UNCHANGED <<open, subscriptions, cancelled, besides>>
    BY <1>7, <1>c, <1>f DEF reserve
  <2>2. /\ Cardinality(In(CountedStages)') = Cardinality(In(CountedStages)) + 1
        /\ Cardinality(In({"broadcast"})') = Cardinality(In({"broadcast"}))
        /\ Cardinality(In(Admitted)') <= MaxSubs
    <3>1. CASE to = "overshoot" BY <1>a, <1>c, <1>f, <2>1, <3>1, MovedAll
    <3>2. CASE to = "counted" BY <1>a, <1>c, <1>e, <1>f, <2>1, <3>2, MovedAll
    <3> QED BY <2>1, <3>1, <3>2
  <2>3. /\ handler' \in [Requests -> Stages] /\ In(Running)' \subseteq In(Running)
        /\ In(Listed)' = In(Listed) /\ In(Answered) \subseteq In(Answered)'
    BY <2>1, <1>5
  <2> QED BY <1>a, <1>f, <1>g, <2>1, <2>2, <2>3
<1>8. ASSUME NEW r \in Requests, undoReserve(r) \/ leave(r) PROVE SessionInv'
  <2> USE DEF Stages, SlotStages, CountedStages, Admitted, Running, Listed, Answered
  <2>1. /\ handler[r] \in {"overshoot", "leaving"} /\ goto(r, "working")
        /\ activeSubs' = activeSubs - 1
        /\ UNCHANGED <<open, subscriptions, cancelled, besides>>
    BY <1>8 DEF undoReserve, leave
  <2>2. /\ Cardinality(In(CountedStages)') = Cardinality(In(CountedStages)) - 1
        /\ Cardinality(In({"broadcast"})') = Cardinality(In({"broadcast"}))
        /\ Cardinality(In(Admitted)') <= MaxSubs
    BY <1>a, <1>c, <1>f, <2>1, MovedAll
  <2>3. /\ handler' \in [Requests -> Stages] /\ In(Running)' \subseteq In(Running)
        /\ In(Listed)' = In(Listed) /\ In(Answered) \subseteq In(Answered)'
    BY <2>1, <1>5
  <2> QED BY <1>a, <1>f, <1>g, <2>1, <2>2, <2>3
<1>9. ASSUME NEW r \in Requests, register(r) PROVE SessionInv'
  <2> USE DEF Stages, SlotStages, CountedStages, Admitted, Running, Listed, Answered
  <2>1. PICK to \in {"leaving", "registered"} :
          /\ handler[r] = "counted" /\ goto(r, to)
          /\ subscriptions' = IF to = "registered" THEN subscriptions \cup {r} ELSE subscriptions
          /\ UNCHANGED <<open, activeSubs, cancelled, besides>>
    BY <1>9 DEF register
  <2>2. /\ Cardinality(In(CountedStages)') = Cardinality(In(CountedStages))
        /\ Cardinality(In({"broadcast"})') = Cardinality(In({"broadcast"}))
        /\ Cardinality(In(Admitted)') <= MaxSubs
    BY <1>a, <1>c, <1>f, <2>1, MovedAll
  <2>3. /\ handler' \in [Requests -> Stages] /\ subscriptions' \subseteq Requests
        /\ In(Running)' \subseteq subscriptions' \cup cancelled'
        /\ subscriptions' \subseteq In(Listed)' /\ In(Answered) \subseteq In(Answered)'
    BY <2>1, <1>5, <1>f, <1>a
  <2> QED BY <1>a, <1>f, <1>g, <2>1, <2>2, <2>3
<1>10. ASSUME NEW r \in Requests, unregister(r) PROVE SessionInv'
  <2> USE DEF Stages, SlotStages, CountedStages, Admitted, Running, Listed, Answered
  <2>1. /\ handler[r] = "unregister" /\ goto(r, "leaving")
        /\ cancelled' = cancelled \cup {r} /\ subscriptions' = subscriptions \ {r}
        /\ UNCHANGED <<open, activeSubs, besides>>
    BY <1>10 DEF unregister
  <2>2. /\ Cardinality(In(CountedStages)') = Cardinality(In(CountedStages))
        /\ Cardinality(In({"broadcast"})') = Cardinality(In({"broadcast"}))
        /\ Cardinality(In(Admitted)') <= MaxSubs
    BY <1>a, <1>c, <1>f, <2>1, MovedAll
  <2>3. /\ handler' \in [Requests -> Stages]
        /\ In(Running)' \subseteq subscriptions' \cup cancelled'
        /\ subscriptions' \subseteq In(Listed)' /\ In(Answered) \subseteq In(Answered)'
    BY <2>1, <1>5, <1>f
  <2> QED BY <1>a, <1>f, <1>g, <2>1, <2>2, <2>3
<1>11. ASSUME NEW r \in Requests, handleOverlayBroadcast(r) PROVE SessionInv'
  <2> USE DEF Stages, SlotStages, CountedStages, Admitted, Running, Listed, Answered
  <2>1. PICK to \in {"broadcast", "working"} :
          /\ handler[r] = "admitted" /\ goto(r, to)
          /\ broadcastSem' = broadcastSem + (IF to = "broadcast" THEN 1 ELSE 0)
          /\ broadcastSem' <= MaxBroadcasts
          /\ UNCHANGED <<open, activeSubs, subscriptions, cancelled, pump, broadcasters, returned>>
    BY <1>11, <1>b, <1>c, <1>f DEF handleOverlayBroadcast
  <2>2. /\ Cardinality(In(CountedStages)') = Cardinality(In(CountedStages))
        /\ Cardinality(In({"broadcast"})') = Cardinality(In({"broadcast"}))
             + (IF to = "broadcast" THEN 1 ELSE 0)
        /\ Cardinality(In(Admitted)') <= MaxSubs
    BY <1>a, <1>c, <1>f, <2>1, MovedAll
  <2>3. /\ handler' \in [Requests -> Stages] /\ In(Running)' \subseteq In(Running)
        /\ In(Listed)' = In(Listed) /\ In(Answered) \subseteq In(Answered)'
    BY <2>1, <1>5
  <2>4. broadcastSem' = Cardinality(In({"broadcast"})') + Cardinality(broadcasters')
    BY <1>b, <1>c, <1>f, <2>1, <2>2
  <2> QED BY <1>a, <1>f, <1>g, <2>1, <2>2, <2>3, <2>4
<1>12. ASSUME NEW r \in Requests, startBroadcast(r) PROVE SessionInv'
  <2> USE DEF Stages, SlotStages, CountedStages, Admitted, Running, Listed, Answered
  <2>1. /\ handler[r] = "broadcast" /\ goto(r, "working")
        /\ UNCHANGED <<open, activeSubs, subscriptions, cancelled, pump, returned>>
        /\ \/ broadcasters' = broadcasters \cup {r} /\ UNCHANGED broadcastSem
           \/ broadcastSem' = broadcastSem - 1 /\ UNCHANGED broadcasters
    BY <1>12 DEF startBroadcast
  <2>2. /\ Cardinality(In(CountedStages)') = Cardinality(In(CountedStages))
        /\ Cardinality(In({"broadcast"})') = Cardinality(In({"broadcast"})) - 1
        /\ Cardinality(In(Admitted)') <= MaxSubs
    BY <1>a, <1>c, <1>f, <2>1, MovedAll
  <2>3. /\ handler' \in [Requests -> Stages] /\ In(Running)' \subseteq In(Running)
        /\ In(Listed)' = In(Listed) /\ In(Answered)' = In(Answered) \cup {r}
        /\ r \notin In(Answered)
    BY <2>1, <1>5
  <2>4. CASE broadcasters' = broadcasters \cup {r} /\ UNCHANGED broadcastSem
    <3>1. r \notin broadcasters BY <1>f, <2>3
    <3>2. Cardinality(broadcasters') = Cardinality(broadcasters) + 1
      BY <1>b, <2>4, <3>1, FS_AddElement
    <3>3. broadcastSem' = Cardinality(In({"broadcast"})') + Cardinality(broadcasters')
      BY <1>b, <1>c, <1>f, <2>2, <2>4, <3>2
    <3> QED BY <1>a, <1>f, <1>g, <2>1, <2>2, <2>3, <2>4, <3>3
  <2>5. CASE broadcastSem' = broadcastSem - 1 /\ UNCHANGED broadcasters
    <3>1. /\ broadcastSem' = Cardinality(In({"broadcast"})') + Cardinality(broadcasters')
          /\ broadcastSem' <= MaxBroadcasts
      BY <1>b, <1>c, <1>f, <2>2, <2>5
    <3> QED BY <1>a, <1>f, <1>g, <2>1, <2>2, <2>3, <2>5, <3>1
  <2> QED BY <2>1, <2>4, <2>5
<1>13. ASSUME NEW r \in Requests, endBroadcast(r) PROVE SessionInv'
  <2>1. Cardinality(broadcasters') = Cardinality(broadcasters) - 1
    BY <1>b, <1>13, FS_RemoveElement DEF endBroadcast
  <2>2. UNCHANGED handler /\ broadcasters' \subseteq broadcasters
        /\ broadcastSem' = broadcastSem - 1
        /\ UNCHANGED <<open, activeSubs, subscriptions, cancelled, pump, returned>>
    BY <1>13 DEF endBroadcast
  <2>3. \A S : In(S)' = In(S) BY <2>2 DEF In
  <2>4. /\ broadcastSem' = Cardinality(In({"broadcast"})') + Cardinality(broadcasters')
        /\ broadcastSem' <= MaxBroadcasts
    BY <1>b, <1>c, <1>f, <2>1, <2>2, <2>3
  <2> QED BY <1>a, <1>f, <1>g, <2>2, <2>3, <2>4
<1> QED
  BY <1>1, <1>2, <1>4, <1>6, <1>7, <1>8, <1>9, <1>10, <1>11, <1>12, <1>13
     DEF Next, Goroutine, handleRequest, Subscribe, handleSubscribeTransactions,
         handleSubscribeBlocks, handleSubscribeAccountState, handleSubscribeNewTransactions,
         handleSubscribeConfigChanges, handleSubscribeMultiAccount, handleSubscribeTrace,
         handleSendAndWatch

\* The invariant holds throughout.
LEMMA SessionInvariant == Spec => []SessionInv
<1> QED BY InitSession, NextSession, PTL DEF Spec

-----------------------------------------------------------------------------
(* Results *)

\* activeSubs and broadcastSem are exact whatever order requests, streams,
\* broadcasters and the end of the connection run in, for any number of
\* requests (subscribe.go, overlay.go).
THEOREM CountersExact == Spec => []CountExact
<1> QED BY SessionInvariant, PTL DEF SessionInv

\* The add-then-compare of the subscribe handlers admits no more than
\* max_subscriptions at a time, although it overshoots the counter.
THEOREM SubscriptionsLimited == Spec => []SubscriptionLimit
<1> QED BY SessionInvariant, PTL DEF SessionInv

\* No stream is out of reach of subscribe.unsubscribe and of its own context,
\* and the map of subscriptions never names a handler that has ended.
THEOREM StreamsStayCancellable == Spec => []StreamsCancellable
<1> QED BY SessionInvariant, PTL DEF SessionInv

-----------------------------------------------------------------------------
(* The end of the connection *)

\* Once wg.Wait has returned, no goroutine it waited for runs and no message
\* is read that would start another.
Drained == returned => ~open /\ ~pump /\ In(SlotStages \cup {"spawned"}) = {}

\* Only a broadcaster can take a step once wg.Wait has returned.
LEMMA DrainedKept == Drained /\ [Next]_vars => Drained'
<1> SUFFICES ASSUME Drained, [Next]_vars PROVE Drained' OBVIOUS
<1> USE DEF requestVars, besides
<1>1. CASE UNCHANGED vars BY <1>1 DEF vars, Drained, In
<1>2. CASE ~returned /\ Next
  <2>1. CASE waitRequests BY <2>1 DEF waitRequests, Drained, In
  <2>2. CASE endRead \/ pumpFails \/ pumpEnds
    BY <1>2, <2>2 DEF endRead, pumpFails, pumpEnds, Drained
  <2>3. ASSUME NEW r \in Requests, receive(r) \/ Goroutine(r) \/ breakStream(r) \/ endBroadcast(r)
        PROVE  UNCHANGED returned
    BY <2>3 DEF receive, Goroutine, breakStream, endBroadcast, acquireSlot, handleRequest,
                handleOther, Subscribe, handleSubscribeTransactions, handleSubscribeBlocks,
                handleSubscribeAccountState, handleSubscribeNewTransactions,
                handleSubscribeConfigChanges, handleSubscribeMultiAccount, handleSubscribeTrace,
                handleSendAndWatch, reserve, handleOverlayBroadcast, handleUnsubscribe,
                undoReserve, register, start, endStream, unregister, leave, startBroadcast, finish
  <2>4. CASE UNCHANGED returned BY <1>2, <2>4 DEF Drained
  <2> QED BY <1>2, <2>1, <2>2, <2>3, <2>4 DEF Next
<1>3. CASE returned /\ Next
  <2>1. ~open /\ ~pump /\ \A r \in Requests : handler[r] \notin SlotStages \cup {"spawned"}
    BY <1>3 DEF Drained, In
  <2>2. ~endRead /\ ~pumpFails /\ ~pumpEnds /\ ~waitRequests
    BY <1>3, <2>1 DEF endRead, pumpFails, pumpEnds, waitRequests
  <2>3. ASSUME NEW r \in Requests PROVE ~receive(r) /\ ~Goroutine(r) /\ ~breakStream(r)
    BY <2>1 DEF receive, Goroutine, breakStream, acquireSlot, handleRequest,
                handleOther, Subscribe, handleSubscribeTransactions, handleSubscribeBlocks,
                handleSubscribeAccountState, handleSubscribeNewTransactions,
                handleSubscribeConfigChanges, handleSubscribeMultiAccount, handleSubscribeTrace,
                handleSendAndWatch, reserve, handleOverlayBroadcast, handleUnsubscribe,
                undoReserve, register, start, endStream, unregister, leave, startBroadcast, finish,
                SlotStages, CountedStages
  <2>4. PICK r \in Requests : endBroadcast(r) BY <1>3, <2>2, <2>3 DEF Next
  <2> QED BY <1>3, <2>4 DEF endBroadcast, Drained, In
<1> QED BY <1>1, <1>2, <1>3

\* The safety half of SessionDrains: when handleWS gets past wg.Wait
\* (bridge.go:362), no handler is counted, none is named in the map of
\* subscriptions and none starts later; what may be left is broadcasters.
THEOREM NothingLeftAfterWait ==
    Spec => [](returned => activeSubs = 0 /\ subscriptions = {})
<1>1. Init => Drained BY DEF Init, Drained
<1>2. SessionInv /\ Drained => (returned => activeSubs = 0 /\ subscriptions = {})
  <2> SUFFICES ASSUME SessionInv, Drained, returned
               PROVE  activeSubs = 0 /\ subscriptions = {}
    OBVIOUS
  <2>1. In(CountedStages) = {} /\ In({"registered", "streaming", "unregister"}) = {}
    BY DEF Drained, In, SlotStages, CountedStages
  <2>2. Cardinality({}) = 0 BY FS_EmptySet
  <2> QED BY <2>1, <2>2 DEF SessionInv, CountExact, StreamsCancellable
<1> QED BY <1>1, <1>2, DrainedKept, SessionInvariant, PTL DEF Spec
=============================================================================
