----------------------- MODULE TraceCoordinatorProofs -----------------------
(***************************************************************************)
(* Proofs about one trace: no message is lost or traced twice, and the     *)
(* trace is exact as long as the WaitGroup is used as it must be.          *)
(***************************************************************************)
EXTENDS TraceCoordinator, FiniteSetTheorems, TLAPS

-----------------------------------------------------------------------------
(* Definitions *)

\* Where message m is; a discovered message is in one place.
Sent(m) == \E n \in Msgs : m \in toSend[n]
Waits(m) == \E i \in DOMAIN newMsgsCh : newMsgsCh[i] = m
Spawned(m) == resolver[m] # "none"

\* A message that is anywhere was discovered, and the other way round; it is
\* with one resolver only, once in the channel, and nowhere else then.
OnePlace ==
    /\ \A m \in Msgs : m \in discovered <=> Sent(m) \/ Waits(m) \/ Spawned(m) \/ m \in dropped
    /\ \A m, n, k \in Msgs : m \in toSend[n] /\ m \in toSend[k] => n = k
    /\ \A i, j \in DOMAIN newMsgsCh : newMsgsCh[i] = newMsgsCh[j] => i = j
    /\ \A m \in Msgs : Sent(m) => ~Waits(m) /\ ~Spawned(m) /\ m \notin dropped
    /\ \A m \in Msgs : Waits(m) => ~Spawned(m) /\ m \notin dropped
    /\ \A m \in Msgs : Spawned(m) => m \notin dropped

\* Only a resolver that has found its transaction has messages to send.
SendersSend == \A m \in Msgs : toSend[m] # {} => resolver[m] = "sending"

\* The coordinator returns once, and throws messages away only after a cancel.
CoordStage ==
    /\ chClosed => coord = "returned" /\ ~completed
    /\ completed => coord = "returned"
    /\ dropped # {} => coord = "awaitDone" \/ chClosed

\* Without a late spawn, a waiter that is past Wait has nobody to wait for, and
\* the coordinator goes on from it.
Quiet ==
    ~lateSpawn =>
      /\ waiter \in {"released", "closing", "ended"} => Live = {}
      /\ coord \in {"drain", "returned"} => waiter = "ended"
      /\ completed => newMsgsCh = << >> /\ dropped = {}
      /\ ~panicked

\* The inductive invariant.
TraceInv == TypeOK /\ OnePlace /\ SendersSend /\ CoordStage /\ Quiet

-----------------------------------------------------------------------------
(* Types *)

\* A trace in the beginning.
LEMMA InitTyped == Init => TypeOK
<1> SUFFICES ASSUME Init PROVE TypeOK OBVIOUS
<1>1. PICK initial \in SUBSET Msgs :
        /\ resolver = [m \in Msgs |-> IF m \in initial THEN "queued" ELSE "none"]
        /\ depth = [m \in Msgs |-> IF m \in initial THEN 1 ELSE 0]
        /\ discovered = initial
  BY DEF Init
<1>2. MaxDepth \in Nat \ {0} /\ ChanCap \in Nat BY TraceAssumption
<1>3. resolver \in [Msgs -> {"none", "queued", "running", "sending", "done"}] BY <1>1
<1>4. depth \in [Msgs -> 0..MaxDepth] BY <1>1, <1>2
<1>5. newMsgsCh \in Seq(Msgs) /\ Len(newMsgsCh) <= ChanCap BY <1>2 DEF Init
<1>6. toSend \in [Msgs -> SUBSET Msgs] BY DEF Init
<1>7. {chClosed, cancelled, completed, panicked, lateSpawn} \subseteq BOOLEAN BY DEF Init
<1> QED BY <1>1, <1>3, <1>4, <1>5, <1>6, <1>7 DEF Init, TypeOK

\* The channel when its first message is taken ...
LEMMA ChannelTail ==
    ASSUME NEW S, NEW ch \in Seq(S), ch # << >>
    PROVE  /\ Len(ch) \in Nat \ {0} /\ DOMAIN ch = 1..Len(ch) /\ Head(ch) = ch[1] /\ Head(ch) \in S
           /\ Tail(ch) \in Seq(S) /\ DOMAIN Tail(ch) = 1..(Len(ch) - 1)
           /\ Len(Tail(ch)) = Len(ch) - 1
           /\ \A i \in 1..(Len(ch) - 1) : Tail(ch)[i] = ch[i + 1] /\ i + 1 \in 1..Len(ch)
OBVIOUS

\* ... and when one is put into it.
LEMMA ChannelAppend ==
    ASSUME NEW S, NEW ch \in Seq(S), NEW c \in S
    PROVE  /\ Append(ch, c) \in Seq(S) /\ Len(ch) \in Nat /\ DOMAIN ch = 1..Len(ch)
           /\ Len(Append(ch, c)) = Len(ch) + 1 /\ DOMAIN Append(ch, c) = 1..(Len(ch) + 1)
           /\ Append(ch, c)[Len(ch) + 1] = c
           /\ \A i \in 1..Len(ch) : Append(ch, c)[i] = ch[i]
OBVIOUS

\* The steps, by what they do to the messages: a message leaves the channel for
\* a resolver of its own or is thrown away, a resolver goes on, finds messages
\* or sends one, or only the coordinator, the waiter or the client moves.
spawnHead ==
    /\ newMsgsCh # << >> /\ resolver' = [resolver EXCEPT ![Head(newMsgsCh)] = "queued"]
    /\ newMsgsCh' = Tail(newMsgsCh) /\ UNCHANGED <<toSend, depth, discovered, dropped>>
dropHead ==
    /\ newMsgsCh # << >> /\ dropped' = dropped \cup {Head(newMsgsCh)}
    /\ newMsgsCh' = Tail(newMsgsCh) /\ UNCHANGED <<resolver, toSend, depth, discovered>>
resolverMoves(m, from, to) ==
    /\ resolver[m] = from /\ resolver' = [resolver EXCEPT ![m] = to]
    /\ from \in {"queued", "running", "sending"} /\ to \in {"running", "sending", "done"}
    /\ UNCHANGED <<newMsgsCh, toSend, depth, discovered, dropped>>
sendsOne(m, child) ==
    /\ resolver[m] = "sending" /\ child \in toSend[m] /\ Len(newMsgsCh) < ChanCap
    /\ newMsgsCh' = Append(newMsgsCh, child) /\ toSend' = [toSend EXCEPT ![m] = @ \ {child}]
    /\ UNCHANGED <<resolver, depth, discovered, dropped>>
messagesRest == UNCHANGED <<resolver, newMsgsCh, toSend, depth, discovered, dropped>>

\* Every step is one of these.
LEMMA StepKinds ==
    ASSUME TypeOK, [Next]_vars
    PROVE  \/ spawnHead \/ dropHead \/ messagesRest
           \/ \E m \in Msgs : \E from, to \in {"queued", "running", "sending", "done"} :
                resolverMoves(m, from, to) /\ (from = "sending" => toSend[m] = {})
                  /\ to # "sending"
           \/ \E m \in Msgs : scanForMatch(m)
           \/ \E m \in Msgs : \E child \in toSend[m] : sendsOne(m, child)
<1>1. CASE UNCHANGED vars BY <1>1 DEF vars, messagesRest
<1>2. CASE takeMessage \/ drainMessage
  BY <1>2 DEF takeMessage, drainMessage, spawnResolver, spawnHead
<1>3. CASE discard BY <1>3 DEF discard, dropHead
<1>4. CASE seeDone \/ drainEmpty \/ seeCancel \/ closeAndReturn \/ Waiter \/ Cancel
  BY <1>4 DEF seeDone, drainEmpty, seeCancel, closeAndReturn, Waiter, startWait, wakeWaiter,
              closeDone, Cancel, messagesRest
<1>5. ASSUME NEW m \in Msgs, acquire(m)
      PROVE  resolverMoves(m, "queued", "running")
  BY <1>5 DEF acquire, resolverMoves
<1>6. ASSUME NEW m \in Msgs, giveUp(m)
      PROVE  resolverMoves(m, "running", "done")
  BY <1>6 DEF giveUp, finish, resolverMoves
<1>7. ASSUME NEW m \in Msgs, returnMatched(m)
      PROVE  resolverMoves(m, "sending", "done") /\ toSend[m] = {}
  BY <1>7 DEF returnMatched, finish, resolverMoves
<1>8. ASSUME NEW m \in Msgs, sendChild(m)
      PROVE  messagesRest \/ \E child \in toSend[m] : sendsOne(m, child)
  <2>1. CASE chClosed BY <1>8, <2>1 DEF sendChild, messagesRest
  <2>2. CASE ~chClosed BY <1>8, <2>2 DEF sendChild, sendsOne
  <2> QED BY <2>1, <2>2
<1> QED BY <1>1, <1>2, <1>3, <1>4, <1>5, <1>6, <1>7, <1>8 DEF Next, Coordinator, resolveMessage

\* Every step keeps the types: the channel within its capacity, the messages
\* within the depth limit.
LEMMA NextTyped == TypeOK /\ [Next]_vars => TypeOK'
<1> SUFFICES ASSUME TypeOK, [Next]_vars PROVE TypeOK' OBVIOUS
<1> DEFINE Stages == {"none", "queued", "running", "sending", "done"}
<1>0. /\ resolver \in [Msgs -> Stages] /\ toSend \in [Msgs -> SUBSET Msgs]
      /\ depth \in [Msgs -> 0..MaxDepth] /\ newMsgsCh \in Seq(Msgs) /\ Len(newMsgsCh) <= ChanCap
      /\ discovered \subseteq Msgs /\ dropped \subseteq Msgs
      /\ Len(newMsgsCh) \in Nat /\ ChanCap \in Nat /\ MaxDepth \in Nat
  BY TraceAssumption DEF TypeOK
<1>1. coord' \in {"select", "drain", "awaitDone", "returned"}
  BY DEF TypeOK, vars, Next, Coordinator, takeMessage, seeDone, drainMessage, drainEmpty, seeCancel,
         closeAndReturn, discard, Waiter, startWait, wakeWaiter, closeDone, Cancel, resolveMessage,
         acquire, giveUp, scanForMatch, sendChild, returnMatched
<1>2. waiter' \in {"starting", "waiting", "released", "closing", "ended"}
  BY DEF TypeOK, vars, Next, Coordinator, takeMessage, seeDone, drainMessage, drainEmpty, seeCancel,
         closeAndReturn, discard, Waiter, startWait, wakeWaiter, closeDone, Cancel, resolveMessage,
         acquire, giveUp, scanForMatch, sendChild, returnMatched, finish
<1>3. {chClosed', cancelled', completed', panicked', lateSpawn'} \subseteq BOOLEAN
  BY DEF TypeOK, vars, Next, Coordinator, takeMessage, seeDone, drainMessage, drainEmpty, seeCancel,
         closeAndReturn, discard, Waiter, startWait, wakeWaiter, closeDone, Cancel, resolveMessage,
         acquire, giveUp, scanForMatch, sendChild, returnMatched
<1> DEFINE Kept == /\ resolver' \in [Msgs -> Stages] /\ toSend' \in [Msgs -> SUBSET Msgs]
                   /\ depth' \in [Msgs -> 0..MaxDepth] /\ newMsgsCh' \in Seq(Msgs)
                   /\ Len(newMsgsCh') <= ChanCap
                   /\ discovered' \subseteq Msgs /\ dropped' \subseteq Msgs
<1>4. Kept
  <2>1. CASE messagesRest BY <1>0, <2>1 DEF messagesRest
  <2>2. CASE spawnHead \/ dropHead
    <3>1. newMsgsCh # << >> /\ newMsgsCh' = Tail(newMsgsCh) BY <2>2 DEF spawnHead, dropHead
    <3>2. /\ Head(newMsgsCh) \in Msgs /\ newMsgsCh' \in Seq(Msgs) /\ Len(newMsgsCh') <= ChanCap
      BY <1>0, <3>1, ChannelTail
    <3>3. CASE spawnHead BY <1>0, <3>2, <3>3 DEF spawnHead
    <3>4. CASE dropHead BY <1>0, <3>2, <3>4 DEF dropHead
    <3> QED BY <2>2, <3>3, <3>4
  <2>3. ASSUME NEW m \in Msgs, NEW from, NEW to, resolverMoves(m, from, to)
        PROVE  Kept
    BY <1>0, <2>3 DEF resolverMoves
  <2>4. ASSUME NEW m \in Msgs, scanForMatch(m) PROVE Kept
    <3>1. PICK children \in SUBSET (Msgs \ discovered) :
            /\ depth[m] < MaxDepth \/ children = {}
            /\ toSend' = [toSend EXCEPT ![m] = children]
            /\ depth' = [n \in Msgs |-> IF n \in children THEN depth[m] + 1 ELSE depth[n]]
            /\ discovered' = discovered \cup children
      BY <2>4 DEF scanForMatch
    <3>2. depth' \in [Msgs -> 0..MaxDepth]
      <4>1. \A n \in Msgs : n \in children => depth[m] + 1 \in 0..MaxDepth BY <1>0, <3>1
      <4> QED BY <1>0, <3>1, <4>1
    <3>3. toSend' \in [Msgs -> SUBSET Msgs] BY <1>0, <3>1
    <3>4. /\ resolver' = [resolver EXCEPT ![m] = "sending"] /\ newMsgsCh' = newMsgsCh
          /\ dropped' = dropped
      BY <2>4 DEF scanForMatch
    <3> QED BY <1>0, <3>1, <3>2, <3>3, <3>4
  <2>5. ASSUME NEW m \in Msgs, NEW child \in toSend[m], sendsOne(m, child) PROVE Kept
    <3>1. child \in Msgs BY <1>0
    <3>2. newMsgsCh' \in Seq(Msgs) /\ Len(newMsgsCh') = Len(newMsgsCh) + 1
      BY <1>0, <2>5, <3>1, ChannelAppend DEF sendsOne
    <3>3. Len(newMsgsCh') <= ChanCap BY <1>0, <2>5, <3>2 DEF sendsOne
    <3>4. toSend' \in [Msgs -> SUBSET Msgs] BY <1>0, <2>5 DEF sendsOne
    <3> QED BY <1>0, <2>5, <3>2, <3>3, <3>4 DEF sendsOne
  <2> HIDE DEF Kept
  <2> QED BY <2>1, <2>2, <2>3, <2>4, <2>5, StepKinds
<1> QED BY <1>1, <1>2, <1>3, <1>4 DEF TypeOK

-----------------------------------------------------------------------------
(* No message is lost or traced twice *)

\* The messages of a trace in the beginning each have their resolver.
LEMMA InitPlaces == Init => OnePlace /\ SendersSend
<1> SUFFICES ASSUME Init PROVE OnePlace /\ SendersSend OBVIOUS
<1>1. PICK initial \in SUBSET Msgs :
        /\ resolver = [m \in Msgs |-> IF m \in initial THEN "queued" ELSE "none"]
        /\ discovered = initial
  BY DEF Init
<1>2. /\ toSend = [m \in Msgs |-> {}] /\ newMsgsCh = << >> /\ dropped = {} /\ DOMAIN newMsgsCh = {}
  BY DEF Init
<1>3. \A m \in Msgs : /\ ~Sent(m) /\ ~Waits(m) /\ m \notin dropped
                      /\ Spawned(m) <=> m \in discovered
  BY <1>1, <1>2 DEF Sent, Waits, Spawned
<1>4. SendersSend BY <1>2 DEF SendersSend
<1>5. OnePlace BY <1>2, <1>3 DEF OnePlace
<1> QED BY <1>4, <1>5

\* Taking the first message of the channel takes that message only.
LEMMA HeadLeaves ==
    ASSUME TypeOK, OnePlace, newMsgsCh # << >>, newMsgsCh' = Tail(newMsgsCh)
    PROVE  /\ Head(newMsgsCh) \in Msgs /\ Waits(Head(newMsgsCh))
           /\ \A m \in Msgs : Waits(m)' <=> Waits(m) /\ m # Head(newMsgsCh)
           /\ \A i, j \in DOMAIN newMsgsCh' : newMsgsCh'[i] = newMsgsCh'[j] => i = j
<1> DEFINE ch == newMsgsCh
           new == newMsgsCh'
<1>1. /\ Len(ch) \in Nat \ {0} /\ DOMAIN ch = 1..Len(ch) /\ Head(ch) = ch[1] /\ Head(ch) \in Msgs
      /\ DOMAIN new = 1..(Len(ch) - 1)
      /\ \A i \in 1..(Len(ch) - 1) : new[i] = ch[i + 1] /\ i + 1 \in 1..Len(ch)
  BY ChannelTail DEF TypeOK
<1>2. 1 \in 1..Len(ch) /\ \A i \in 1..(Len(ch) - 1) : i + 1 # 1 BY <1>1
<1>3. \A i, j \in 1..Len(ch) : ch[i] = ch[j] => i = j BY <1>1 DEF OnePlace
<1>4. Waits(Head(ch)) BY <1>1, <1>2 DEF Waits
<1>5. ASSUME NEW m \in Msgs, Waits(m)' PROVE Waits(m) /\ m # Head(ch)
  <2>1. PICK i \in 1..(Len(ch) - 1) : new[i] = m BY <1>1, <1>5 DEF Waits
  <2>2. ch[i + 1] = m /\ i + 1 \in 1..Len(ch) /\ i + 1 # 1 BY <1>1, <1>2, <2>1
  <2> QED BY <1>1, <1>2, <1>3, <2>2 DEF Waits
<1>6. ASSUME NEW m \in Msgs, Waits(m), m # Head(ch) PROVE Waits(m)'
  <2>1. PICK i \in 1..Len(ch) : ch[i] = m BY <1>1, <1>6 DEF Waits
  <2>2. i # 1 BY <1>1, <1>6, <2>1
  <2>3. i - 1 \in 1..(Len(ch) - 1) /\ (i - 1) + 1 = i BY <1>1, <2>2
  <2>4. new[i - 1] = m BY <1>1, <2>1, <2>3
  <2> QED BY <1>1, <2>3, <2>4 DEF Waits
<1>7. \A i, j \in 1..(Len(ch) - 1) : new[i] = new[j] => i = j
  <2> SUFFICES ASSUME NEW i \in 1..(Len(ch) - 1), NEW j \in 1..(Len(ch) - 1), new[i] = new[j]
               PROVE  i = j
    OBVIOUS
  <2>1. i + 1 = j + 1 BY <1>1, <1>3
  <2> QED BY <1>1, <2>1
<1> QED BY <1>1, <1>4, <1>5, <1>6, <1>7

\* Every step leaves every discovered message in one place.
LEMMA NextPlaces == TypeOK /\ OnePlace /\ SendersSend /\ [Next]_vars => OnePlace' /\ SendersSend'
<1> SUFFICES ASSUME TypeOK, OnePlace, SendersSend, [Next]_vars PROVE OnePlace' /\ SendersSend'
  OBVIOUS
<1>0. /\ resolver \in [Msgs -> {"none", "queued", "running", "sending", "done"}]
      /\ toSend \in [Msgs -> SUBSET Msgs] /\ newMsgsCh \in Seq(Msgs)
      /\ discovered \subseteq Msgs /\ dropped \subseteq Msgs
  BY DEF TypeOK
<1>1. CASE messagesRest
  <2>1. /\ resolver' = resolver /\ newMsgsCh' = newMsgsCh /\ toSend' = toSend
        /\ discovered' = discovered /\ dropped' = dropped
    BY <1>1 DEF messagesRest
  <2>2. \A m \in Msgs : (Sent(m)' <=> Sent(m)) /\ (Waits(m)' <=> Waits(m))
                          /\ (Spawned(m)' <=> Spawned(m))
    BY <2>1 DEF Sent, Waits, Spawned
  <2> QED BY <2>1, <2>2 DEF OnePlace, SendersSend
<1>2. CASE spawnHead
  <2> DEFINE h == Head(newMsgsCh)
  <2>1. /\ h \in Msgs /\ Waits(h) /\ \A m \in Msgs : Waits(m)' <=> Waits(m) /\ m # h
        /\ \A i, j \in DOMAIN newMsgsCh' : newMsgsCh'[i] = newMsgsCh'[j] => i = j
    BY <1>2, HeadLeaves DEF spawnHead
  <2>2. /\ toSend' = toSend /\ discovered' = discovered /\ dropped' = dropped
        /\ resolver' = [resolver EXCEPT ![h] = "queued"]
    BY <1>2 DEF spawnHead
  <2> HIDE DEF h
  <2>3. \A m \in Msgs : (Sent(m)' <=> Sent(m)) /\ (Spawned(m)' <=> Spawned(m) \/ m = h)
    BY <1>0, <2>1, <2>2 DEF Sent, Spawned
  <2>4. ~Sent(h) /\ ~Spawned(h) /\ h \notin dropped /\ h \in discovered
    BY <2>1 DEF OnePlace
  <2>5. OnePlace' BY <2>1, <2>2, <2>3, <2>4 DEF OnePlace
  <2>6. SendersSend'
    <3>1. toSend[h] = {} BY <2>1, <2>4 DEF SendersSend, Spawned
    <3> QED BY <1>0, <2>1, <2>2, <3>1 DEF SendersSend
  <2> QED BY <2>5, <2>6
<1>3. CASE dropHead
  <2> DEFINE h == Head(newMsgsCh)
  <2>1. /\ h \in Msgs /\ Waits(h) /\ \A m \in Msgs : Waits(m)' <=> Waits(m) /\ m # h
        /\ \A i, j \in DOMAIN newMsgsCh' : newMsgsCh'[i] = newMsgsCh'[j] => i = j
    BY <1>3, HeadLeaves DEF dropHead
  <2>2. /\ toSend' = toSend /\ discovered' = discovered /\ dropped' = dropped \cup {h}
        /\ resolver' = resolver
    BY <1>3 DEF dropHead
  <2> HIDE DEF h
  <2>3. \A m \in Msgs : (Sent(m)' <=> Sent(m)) /\ (Spawned(m)' <=> Spawned(m))
    BY <2>2 DEF Sent, Spawned
  <2>4. ~Sent(h) /\ ~Spawned(h) /\ h \notin dropped /\ h \in discovered
    BY <2>1 DEF OnePlace
  <2>5. OnePlace' BY <2>1, <2>2, <2>3, <2>4 DEF OnePlace
  <2>6. SendersSend' BY <2>2 DEF SendersSend
  <2> QED BY <2>5, <2>6
<1>4. ASSUME NEW m \in Msgs, NEW from, NEW to, resolverMoves(m, from, to),
             from = "sending" => toSend[m] = {}, to # "sending"
      PROVE  OnePlace' /\ SendersSend'
  <2>1. /\ newMsgsCh' = newMsgsCh /\ toSend' = toSend /\ discovered' = discovered
        /\ dropped' = dropped /\ resolver' = [resolver EXCEPT ![m] = to] /\ resolver[m] = from
        /\ from \in {"queued", "running", "sending"} /\ to \in {"running", "done"}
    BY <1>4 DEF resolverMoves
  <2>2. \A n \in Msgs : (Sent(n)' <=> Sent(n)) /\ (Waits(n)' <=> Waits(n))
                          /\ (Spawned(n)' <=> Spawned(n))
    BY <1>0, <2>1 DEF Sent, Waits, Spawned
  <2>3. OnePlace' BY <2>1, <2>2 DEF OnePlace
  <2>4. SendersSend' BY <1>0, <1>4, <2>1 DEF SendersSend
  <2> QED BY <2>3, <2>4
<1>5. ASSUME NEW m \in Msgs, scanForMatch(m) PROVE OnePlace' /\ SendersSend'
  <2>1. PICK children \in SUBSET (Msgs \ discovered) :
          /\ toSend' = [toSend EXCEPT ![m] = children] /\ discovered' = discovered \cup children
    BY <1>5 DEF scanForMatch
  <2>2. /\ newMsgsCh' = newMsgsCh /\ dropped' = dropped /\ resolver[m] = "running"
        /\ resolver' = [resolver EXCEPT ![m] = "sending"]
    BY <1>5 DEF scanForMatch
  <2>3. toSend[m] = {} BY <2>2 DEF SendersSend
  <2>4. \A n \in Msgs : (Waits(n)' <=> Waits(n)) /\ (Spawned(n)' <=> Spawned(n))
    BY <1>0, <2>2 DEF Waits, Spawned
  <2>5. \A n \in Msgs : Sent(n)' <=> Sent(n) \/ n \in children
    BY <1>0, <2>1, <2>3 DEF Sent
  <2>6. \A n \in children : ~Sent(n) /\ ~Waits(n) /\ ~Spawned(n) /\ n \notin dropped
    BY <2>1 DEF OnePlace
  <2>7. \A n, k, l \in Msgs : n \in toSend'[k] /\ n \in toSend'[l] => k = l
    BY <1>0, <2>1, <2>3, <2>6 DEF OnePlace, Sent
  <2>8. OnePlace' BY <2>1, <2>2, <2>4, <2>5, <2>6, <2>7 DEF OnePlace
  <2>9. SendersSend' BY <1>0, <2>1, <2>2 DEF SendersSend
  <2> QED BY <2>8, <2>9
<1>6. ASSUME NEW m \in Msgs, NEW child \in toSend[m], sendsOne(m, child)
      PROVE  OnePlace' /\ SendersSend'
  <2>1. /\ newMsgsCh' = Append(newMsgsCh, child) /\ toSend' = [toSend EXCEPT ![m] = @ \ {child}]
        /\ discovered' = discovered /\ dropped' = dropped /\ resolver' = resolver
    BY <1>6 DEF sendsOne
  <2>2. child \in Msgs /\ Sent(child) BY <1>0 DEF Sent
  <2>3. ~Waits(child) /\ ~Spawned(child) /\ child \notin dropped /\ child \in discovered
    BY <2>2 DEF OnePlace
  <2>4. \A n \in Msgs : n \in toSend[m] /\ child \in toSend[n] => n = m BY <2>2 DEF OnePlace
  <2>5. \A n \in Msgs : Sent(n)' <=> Sent(n) /\ n # child
    <3>1. \A n \in Msgs : toSend'[n] = IF n = m THEN toSend[n] \ {child} ELSE toSend[n]
      BY <1>0, <2>1
    <3>2. \A n \in Msgs : child \in toSend[n] => n = m BY <2>2 DEF OnePlace
    <3> QED BY <3>1, <3>2 DEF Sent
  <2>6. /\ Len(newMsgsCh) \in Nat /\ DOMAIN newMsgsCh = 1..Len(newMsgsCh)
        /\ DOMAIN newMsgsCh' = 1..(Len(newMsgsCh) + 1) /\ newMsgsCh'[Len(newMsgsCh) + 1] = child
        /\ \A i \in 1..Len(newMsgsCh) : newMsgsCh'[i] = newMsgsCh[i]
    BY <1>0, <2>1, <2>2, ChannelAppend
  <2>7. \A i : i \in 1..(Len(newMsgsCh) + 1) <=> i \in 1..Len(newMsgsCh) \/ i = Len(newMsgsCh) + 1
    BY <2>6
  <2>8. \A n \in Msgs : Waits(n)' <=> Waits(n) \/ n = child BY <2>6, <2>7 DEF Waits
  <2>9. \A i, j \in DOMAIN newMsgsCh' : newMsgsCh'[i] = newMsgsCh'[j] => i = j
    BY <2>3, <2>6, <2>7 DEF OnePlace, Waits
  <2>10. \A n \in Msgs : Spawned(n)' <=> Spawned(n) BY <2>1 DEF Spawned
  <2>11. \A n, k, l \in Msgs : n \in toSend'[k] /\ n \in toSend'[l] => k = l
    BY <1>0, <2>1 DEF OnePlace
  <2>12. OnePlace' BY <2>1, <2>2, <2>3, <2>5, <2>8, <2>9, <2>10, <2>11 DEF OnePlace
  <2>13. SendersSend' BY <1>0, <2>1 DEF SendersSend
  <2> QED BY <2>12, <2>13
<1> QED BY <1>1, <1>2, <1>3, <1>4, <1>5, <1>6, StepKinds
-----------------------------------------------------------------------------
(* The trace is exact without a late spawn *)

\* The coordinator's variables in the beginning.
LEMMA InitQuiet == Init => CoordStage /\ Quiet
BY DEF Init, CoordStage, Quiet

\* Every step keeps the coordinator's order: it returns once, and only the
\* clean-up after a cancel throws messages away.
LEMMA NextStage == TypeOK /\ CoordStage /\ [Next]_vars => CoordStage'
<1> SUFFICES ASSUME TypeOK, CoordStage, [Next]_vars PROVE CoordStage' OBVIOUS
<1>1. CASE discard BY <1>1 DEF discard, CoordStage
<1>2. CASE closeAndReturn BY <1>2 DEF closeAndReturn, CoordStage
<1>3. CASE drainEmpty BY <1>3 DEF drainEmpty, CoordStage
<1>4. CASE takeMessage BY <1>4 DEF takeMessage, CoordStage
<1>5. CASE drainMessage BY <1>5 DEF drainMessage, CoordStage
<1>6. CASE seeDone \/ seeCancel BY <1>6 DEF seeDone, seeCancel, CoordStage
<1>7. CASE Waiter \/ Cancel
  BY <1>7 DEF Waiter, startWait, wakeWaiter, closeDone, Cancel, CoordStage
<1>8. ASSUME NEW m \in Msgs, resolveMessage(m) PROVE CoordStage'
  BY <1>8 DEF resolveMessage, acquire, giveUp, scanForMatch, sendChild, returnMatched, CoordStage
<1>9. CASE UNCHANGED vars BY <1>9 DEF vars, CoordStage
<1> QED BY <1>1, <1>2, <1>3, <1>4, <1>5, <1>6, <1>7, <1>8, <1>9 DEF Next, Coordinator

\* Every step keeps a released waiter quiet, unless it is the late spawn: only
\* takeMessage and drainMessage raise the counter, and drainMessage launches a
\* new waiter with it.
LEMMA NextQuiet == TypeOK /\ CoordStage /\ Quiet /\ [Next]_vars => Quiet'
<1> SUFFICES ASSUME TypeOK, CoordStage, Quiet, [Next]_vars, ~lateSpawn' PROVE Quiet'
  BY DEF Quiet
<1>0. resolver \in [Msgs -> {"none", "queued", "running", "sending", "done"}] BY DEF TypeOK
<1>1. CASE takeMessage BY <1>1 DEF takeMessage, Quiet, CoordStage, TypeOK
<1>2. CASE seeDone BY <1>2 DEF seeDone, doneClosed, Quiet, Live
<1>3. CASE drainMessage BY <1>3 DEF drainMessage, Quiet, CoordStage
<1>4. CASE drainEmpty BY <1>4 DEF drainEmpty, Quiet, CoordStage, Live
<1>5. CASE seeCancel BY <1>5 DEF seeCancel, Quiet, CoordStage, Live
<1>6. CASE closeAndReturn BY <1>6 DEF closeAndReturn, doneClosed, Quiet, CoordStage, Live
<1>7. CASE discard BY <1>7 DEF discard, Quiet, Live
<1>8. CASE Waiter BY <1>8 DEF Waiter, startWait, wakeWaiter, closeDone, Quiet, Live
<1>9. CASE Cancel BY <1>9 DEF Cancel, Quiet, Live
<1>10. ASSUME NEW m \in Msgs, acquire(m) PROVE Quiet'
  <2>1. m \in Live BY <1>10 DEF acquire, Live
  <2> QED BY <1>10, <2>1 DEF acquire, Quiet
<1>11. ASSUME NEW m \in Msgs, giveUp(m) \/ returnMatched(m) PROVE Quiet'
  <2>1. m \in Live BY <1>11 DEF giveUp, returnMatched, Live
  <2>2. /\ resolver' = [resolver EXCEPT ![m] = "done"]
        /\ waiter' = IF Live = {m} /\ waiter = "waiting" THEN "released" ELSE waiter
        /\ coord' = coord /\ completed' = completed /\ panicked' = panicked
        /\ newMsgsCh' = newMsgsCh /\ dropped' = dropped /\ lateSpawn' = lateSpawn
    BY <1>11 DEF giveUp, returnMatched, finish
  <2>3. \A n : n \in Live' <=> n \in Live /\ n # m BY <1>0, <2>2 DEF Live
  <2>4. Live = {m} => Live' = {} BY <2>3
  <2> QED BY <2>1, <2>2, <2>4 DEF Quiet
<1>12. ASSUME NEW m \in Msgs, scanForMatch(m) PROVE Quiet'
  <2>1. m \in Live BY <1>12 DEF scanForMatch, Live
  <2> QED BY <1>12, <2>1 DEF scanForMatch, Quiet
<1>13. ASSUME NEW m \in Msgs, sendChild(m) PROVE Quiet'
  <2>1. m \in Live BY <1>13 DEF sendChild, Live
  <2>2. ~lateSpawn /\ Live' = Live BY <1>13 DEF sendChild, Live
  <2>3. ~chClosed /\ ~completed BY <2>1, <2>2 DEF Quiet, CoordStage
  <2> QED BY <1>13, <2>1, <2>2, <2>3 DEF sendChild, Quiet
<1>14. CASE UNCHANGED vars BY <1>14 DEF vars, Quiet, Live
<1> QED
  BY <1>1, <1>2, <1>3, <1>4, <1>5, <1>6, <1>7, <1>8, <1>9, <1>10, <1>11, <1>12, <1>13, <1>14
  DEF Next, Coordinator, resolveMessage

\* The inductive invariant holds in every state.
LEMMA TraceInvariant == Spec => []TraceInv
<1>1. Init => TraceInv BY InitTyped, InitPlaces, InitQuiet DEF TraceInv
<1>2. TraceInv /\ [Next]_vars => TraceInv'
  BY NextTyped, NextPlaces, NextStage, NextQuiet DEF TraceInv
<1> QED BY <1>1, <1>2, PTL DEF Spec

-----------------------------------------------------------------------------
(* Theorems *)

\* The variables of a trace keep the shape of what they model: in particular
\* newMsgsCh never exceeds its capacity and no message is followed below
\* maxDepth.
THEOREM TraceTyped == Spec => []TypeOK
BY TraceInvariant, PTL DEF TraceInv

\* A set whose members are all equal to one it has counts one.
LEMMA OnePlaceCounts ==
    ASSUME NEW S, NEW x \in S, \A y \in S : y = x
    PROVE  Cardinality(S) = 1
<1>1. S = {x} OBVIOUS
<1>2. Cardinality({x}) = 1 BY FS_Singleton
<1> QED BY <1>1, <1>2

\* However the resolvers, the coordinator and the clean-up interleave, a
\* discovered message is neither lost nor traced twice (trace.go:168-260).
THEOREM MessagesTracedOnce == Spec => []EachMessageOnce
<1>1. TypeOK /\ OnePlace => EachMessageOnce
  <2> SUFFICES ASSUME TypeOK, OnePlace, NEW m \in Msgs
               PROVE  LET places == {<<"send", n>> : n \in {n \in Msgs : m \in toSend[n]}}
                            \cup {<<"chan", i>> : i \in {i \in 1..Len(newMsgsCh) : newMsgsCh[i] = m}}
                            \cup (IF resolver[m] # "none" THEN {<<"resolver", m>>} ELSE {})
                            \cup (IF m \in dropped THEN {<<"dropped", m>>} ELSE {})
                      IN  Cardinality(places) = IF m \in discovered THEN 1 ELSE 0
    BY DEF EachMessageOnce
  <2> DEFINE sends == {<<"send", n>> : n \in {n \in Msgs : m \in toSend[n]}}
             waits == {<<"chan", i>> : i \in {i \in 1..Len(newMsgsCh) : newMsgsCh[i] = m}}
             spawned == IF resolver[m] # "none" THEN {<<"resolver", m>>} ELSE {}
             thrown == IF m \in dropped THEN {<<"dropped", m>>} ELSE {}
             places == sends \cup waits \cup spawned \cup thrown
  <2>0. DOMAIN newMsgsCh = 1..Len(newMsgsCh) BY DEF TypeOK
  <2>1. \A y \in sends : Sent(m) /\ \E n \in Msgs : m \in toSend[n] /\ y = <<"send", n>>
    BY DEF Sent
  <2>2. \A y \in waits : Waits(m) /\ \E i \in DOMAIN newMsgsCh : newMsgsCh[i] = m /\ y = <<"chan", i>>
    BY <2>0 DEF Waits
  <2>3. \A y \in spawned : Spawned(m) /\ y = <<"resolver", m>> BY DEF Spawned
  <2>4. \A y \in thrown : m \in dropped /\ y = <<"dropped", m>> OBVIOUS
  <2>5. /\ Sent(m) => \E y : y \in sends
        /\ Waits(m) => \E y : y \in waits
        /\ Spawned(m) => \E y : y \in spawned
        /\ m \in dropped => \E y : y \in thrown
    <3>1. Sent(m) => \E y : y \in sends
      <4> SUFFICES ASSUME Sent(m) PROVE \E y : y \in sends OBVIOUS
      <4>1. PICK n \in Msgs : m \in toSend[n] BY DEF Sent
      <4>2. <<"send", n>> \in sends BY <4>1
      <4> QED BY <4>2
    <3>2. Waits(m) => \E y : y \in waits
      <4> SUFFICES ASSUME Waits(m) PROVE \E y : y \in waits OBVIOUS
      <4>1. PICK i \in DOMAIN newMsgsCh : newMsgsCh[i] = m BY DEF Waits
      <4>2. <<"chan", i>> \in waits BY <2>0, <4>1
      <4> QED BY <4>2
    <3> QED BY <3>1, <3>2 DEF Spawned
  <2>6. ASSUME NEW x, NEW y, x \in sends, y \in sends PROVE x = y BY <2>1, <2>6 DEF OnePlace
  <2>7. ASSUME NEW x, NEW y, x \in waits, y \in waits PROVE x = y BY <2>2, <2>7 DEF OnePlace
  <2> HIDE DEF sends, waits, spawned, thrown
  <2>8. /\ Sent(m) => ~Waits(m) /\ ~Spawned(m) /\ m \notin dropped
        /\ Waits(m) => ~Spawned(m) /\ m \notin dropped
        /\ Spawned(m) => m \notin dropped
        /\ m \in discovered <=> Sent(m) \/ Waits(m) \/ Spawned(m) \/ m \in dropped
    BY DEF OnePlace
  <2>9. \A x, y \in places : x = y BY <2>1, <2>2, <2>3, <2>4, <2>6, <2>7, <2>8
  <2>10. (m \in discovered) <=> \E x : x \in places BY <2>1, <2>2, <2>3, <2>4, <2>5, <2>8
  <2>11. CASE m \in discovered
    <3>1. PICK x : x \in places BY <2>10, <2>11
    <3>2. \A y \in places : y = x BY <2>9, <3>1
    <3> HIDE DEF places
    <3>3. Cardinality(places) = 1 BY <3>1, <3>2, OnePlaceCounts
    <3> QED BY <2>11, <3>3 DEF places, sends, waits, spawned, thrown
  <2>12. CASE m \notin discovered
    <3>1. places = {} BY <2>10, <2>12
    <3>2. Cardinality(places) = 0 BY <3>1, FS_EmptySet
    <3> QED BY <2>12, <3>2 DEF places, sends, waits, spawned, thrown
  <2> QED BY <2>11, <2>12
<1> QED BY <1>1, TraceInvariant, PTL DEF TraceInv

\* As long as the coordinator spawned no resolver behind a waiter's back
\* (trace.go:217 leaves doneCh as it is), trace_complete means that every
\* message was resolved or timed out, the channel is closed on nobody and
\* nothing panics.
THEOREM ExactWithoutLateSpawn == Spec => []ExactUnlessLateSpawn
<1>1. TraceInv => ExactUnlessLateSpawn
  <2> SUFFICES ASSUME TypeOK, OnePlace, SendersSend, CoordStage, Quiet, ~lateSpawn
               PROVE  /\ completed => \A m \in discovered : resolver[m] = "done"
                      /\ chClosed => Live = {}
                      /\ ~panicked
    BY DEF TraceInv, ExactUnlessLateSpawn
  <2>1. ~panicked BY DEF Quiet
  <2>2. (chClosed \/ completed) => Live = {} BY DEF Quiet, CoordStage
  <2>3. ASSUME completed, NEW m \in discovered PROVE resolver[m] = "done"
    <3>1. m \in Msgs /\ resolver[m] \in {"none", "queued", "running", "sending", "done"}
      BY DEF TypeOK
    <3>2. \A n \in Msgs : resolver[n] \notin {"queued", "running", "sending"}
      BY <2>2, <2>3 DEF Live
    <3>3. ~Sent(m) BY <3>2 DEF Sent, SendersSend
    <3>4. newMsgsCh = << >> /\ dropped = {} BY <2>3 DEF Quiet
    <3>5. ~Waits(m) BY <3>4 DEF Waits
    <3>6. Spawned(m) BY <3>1, <3>3, <3>4, <3>5 DEF OnePlace
    <3> QED BY <3>1, <3>2, <3>6 DEF Spawned
  <2> QED BY <2>1, <2>2, <2>3
<1> QED BY <1>1, TraceInvariant, PTL
=============================================================================
