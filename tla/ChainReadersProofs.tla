-------------------------- MODULE ChainReadersProofs --------------------------
(***************************************************************************)
(* Proofs about the requests that follow or read the chain.  Each reader   *)
(* has an inductive invariant of its own; the others rest while it runs.   *)
(***************************************************************************)
EXTENDS ChainReaders, FiniteSetTheorems, WellFoundedInduction, TLAPS

-----------------------------------------------------------------------------
(* The message watch: definitions *)

\* What the handler knows at each stage: before the message is sent nothing
\* has been passed; a scan has gone through everything newer than its cursor,
\* which has not reached the known transaction.
WatchStage ==
    /\ baseLT <= knownLT /\ knownLT <= seenLT
    /\ watchPc = "send" => knownLT = baseLT
    /\ watchPc = "resend" => seenLT = knownLT
    /\ watchPc = "scan" =>
         /\ knownLT < cursorLT
         /\ \A i \in (cursorLT + 1)..seenLT : history[i] # "message"

\* The inductive invariant of the watch.
WatchInv == WatchTypeOK /\ WatchStage /\ MessageNotSkipped

-----------------------------------------------------------------------------
(* The feeds: definitions *)

FeedStages == {"start", "listen", "gone"}

\* The values of a sequence.
Values(s) == {s[i] : i \in DOMAIN s}

\* The wanted transactions after lt up to number n.
WantedIn(lt, n) == {m \in Wanted : lt < m /\ m <= n}

\* A feed at stage pc that starts after lt, with its last transaction pushed,
\* its channel ch and what it has written wr.  What is in the channel follows
\* what has left it, without a gap; what has been written is the wanted part
\* of what has left it, in order.
Ordered(pc, lt, last, ch, wr) ==
    /\ pc = "start" => ch = << >> /\ wr = << >>
    /\ pc # "start" => lt + Len(ch) <= last
    /\ \A i \in DOMAIN ch : ch[i] = last - Len(ch) + i
    /\ \A i, j \in DOMAIN wr : i < j => wr[i] < wr[j]
    /\ Values(wr) \subseteq Wanted
    /\ pc = "listen" => Values(wr) = WantedIn(lt, last - Len(ch))

FeedOrdered(a) == Ordered(feedPc[a], fromLT[a], pushed[a], channel[a], written[a])

\* The inductive invariant of the feeds.
FeedInv ==
    /\ ledger \in [Watched -> Nat] /\ feedPc \in [Watched -> FeedStages]
    /\ fromLT \in [Watched -> Nat] /\ pushed \in [Watched -> Nat]
    /\ channel \in [Watched -> Seq(Nat)] /\ written \in [Watched -> Seq(Nat)]
    /\ \A a \in Watched : FeedOrdered(a)

-----------------------------------------------------------------------------
(* The block streams: definitions *)

\* The blocks there may be, and the event for transaction i of block b.
BlockIds == (Shards \cup {Master}) \X (1..MaxTop)
Event(b, i) == [block |-> b, tx |-> i]
Events == [block : (Shards \cup {Master}) \X Nat, tx : Nat]

\* A sequence without repetitions.
Distinct(s) == \A i, j \in DOMAIN s : i # j => s[i] # s[j]

\* What the handler holds at each stage.
BlockStage ==
    /\ startSeqno <= lastSeqno
    /\ blockPc = "start" => events = << >> /\ startSeqno = lastSeqno
    /\ blockPc \in {"start", "next", "shards"} => todo = << >> /\ after = 0 /\ collected = << >>
    /\ blockPc \in {"shards", "collect", "send"} => block = lastSeqno + 1
    /\ blockPc = "collect" => /\ stream = "newTransactions" /\ todo # << >>
                              /\ Values(todo) \subseteq BlockIds
    /\ blockPc = "send" => todo = << >> /\ after = 0

\* subscribe.blocks: one event for each block, the one for the block being
\* dealt with perhaps still to be written.
BlocksInOrder ==
    stream = "blocks" =>
      /\ \A i \in DOMAIN events : events[i].block = <<Master, startSeqno + i>>
      /\ blockPc \in {"start", "next", "shards"} => startSeqno + Len(events) = lastSeqno
      /\ blockPc = "send" =>
           \/ /\ collected = <<Event(<<Master, block>>, 0)>>
              /\ startSeqno + Len(events) = lastSeqno
           \/ collected = << >> /\ startSeqno + Len(events) = lastSeqno + 1
      /\ blockPc = "ended" => startSeqno + Len(events) \in {lastSeqno, lastSeqno + 1}

\* The blocks dealt with that refer to block b.
Dealt(b) == Cardinality({k \in (startSeqno + 1)..lastSeqno : b \in ReadFor(k)})

\* Transaction i of block b has been written once for each block dealt with,
\* and once more if it has left the transactions to be written.
Reported(b, i) ==
    /\ blockPc \notin {"send", "ended"} => Occurrences(b, i) = Dealt(b)
    /\ blockPc = "send" =>
         IF Event(b, i) \in Values(collected) \/ b \notin ReadFor(block)
           THEN Occurrences(b, i) = Dealt(b)
           ELSE Occurrences(b, i) = Dealt(b) + 1
    /\ blockPc = "ended" =>
         \/ Occurrences(b, i) = Dealt(b)
         \/ block > lastSeqno /\ b \in ReadFor(block) /\ Occurrences(b, i) = Dealt(b) + 1

\* Transaction i of block b has been collected if its block has been read, or
\* the page it is on.
Collected(b, i) ==
    Event(b, i) \in Values(collected) <=>
      b \in ReadFor(block) /\ (b \in Values(todo) => b = Head(todo) /\ i <= after)

\* subscribe.newTransactions: what has been collected and what has been written.
TransactionsCounted ==
    stream = "newTransactions" =>
      /\ blockPc = "collect" =>
           /\ Distinct(todo) /\ Values(todo) \subseteq ReadFor(block)
           /\ after <= TxCount[Head(todo)[2]]
      /\ blockPc \in {"collect", "send"} =>
           /\ Distinct(collected)
           /\ \A e \in Values(collected) : e.block \in ReadFor(block)
      /\ \A b \in BlockIds : \A i \in 1..TxCount[b[2]] :
           Reported(b, i) /\ (blockPc = "collect" => Collected(b, i))

\* The inductive invariant of the block streams.
BlockInv == BlockTypeOK /\ BlockStage /\ BlocksInOrder /\ TransactionsCounted

-----------------------------------------------------------------------------
(* The requests: definitions *)

getTransaction == <<"lite", "getTransaction">>

StepKinds == {"parse", "convert", "gate", "current", "read", "own", "ask", "walk", "check"}
HandlerSteps == [do : StepKinds, else : {"error", "skip", "stop"}]

\* What the steps of path p do.
Does(p) == {p[i].do : i \in DOMAIN p}

\* Path p reads at one block: at the one it has asked for, with no other block
\* taken after the first read, or by one library call and nothing else.
Coherent(p) ==
    \A i, j \in DOMAIN p : i < j =>
      /\ p[i].do = "read" => p[j].do \notin {"current", "own"}
      /\ p[i].do = "own" => p[j].do \notin {"own", "read"}

\* A handler that reads at one block has read at no block, or at one which the
\* rest of its path does not leave.
ReadsOneBlock ==
    request.method \notin Composed =>
      /\ requestPc = "run" => Coherent(path)
      /\ \/ readAt = {}
         \/ \E b \in readAt :
              /\ readAt = {b}
              /\ requestPc = "run" =>
                   /\ "own" \notin Does(path)
                   /\ "read" \in Does(path) => b = snapshot /\ "current" \notin Does(path)

\* lite.getTransaction: everything newer than the cursor has been looked at,
\* and the walk ends where the transaction is.
WalkStage ==
    /\ request.method = getTransaction /\ requestPc = "run" =>
         /\ path \in {<<Parse, Current, Read, Walk>>, <<Current, Read, Walk>>, <<Read, Walk>>,
                      <<Walk>>, << >>}
         /\ path = <<Walk>> => cursor <= known /\ request.lt \notin (cursor + 1)..known
         /\ path = << >> => request.lt \in 1..known
    /\ request.method # getTransaction /\ requestPc = "run" => "walk" \notin Does(path)

\* The inductive invariant of the requests.
RequestInv ==
    /\ requestPc \in {"received", "run", "done"} /\ path \in Seq(HandlerSteps)
    /\ request.lt \in Nat /\ request.number \in Int /\ passed \in Int
    /\ newest \in Nat /\ accountTxs \in Nat /\ known \in Nat /\ cursor \in Nat
    /\ requestPc = "received" => readAt = {}
    /\ requestPc # "done" => replies = << >>
    /\ ReadsOneBlock /\ WalkStage /\ NotFoundMeansAbsent /\ NumbersExact

-----------------------------------------------------------------------------
(* The message watch *)

\* A set of natural numbers that is not empty has a least element.
LEMMA LeastNatural ==
    ASSUME NEW T, T \subseteq Nat, T # {}
    PROVE  \E i \in T : \A j \in T : i <= j
<1> DEFINE Less == {ss \in Nat \X Nat : ss[1] < ss[2]}
<1>1. IsWellFoundedOn(Less, Nat) BY NatLessThanWellFounded DEF OpToRel
<1> HIDE DEF Less
<1>2. PICK x \in T : \A y \in T : ~ (<<y, x>> \in Less) BY <1>1, WFMin
<1>3. \A y \in T : ~ (y < x) BY <1>2 DEF Less
<1> QED BY <1>3

\* The history the account may have in the beginning.
LEMMA InitWatch == WatchInit => WatchInv
<1> SUFFICES ASSUME WatchInit PROVE WatchInv OBVIOUS
<1>1. history \in Seq({"message", "other"}) /\ Len(history) \in Nat BY DEF WatchInit
<1>2. /\ newer \in BOOLEAN /\ inPool \in BOOLEAN /\ watchPc = "start"
      /\ baseLT = 0 /\ knownLT = 0 /\ seenLT = 0 /\ cursorLT = 0 /\ found = 0
  BY DEF WatchInit
<1> QED BY <1>1, <1>2
        DEF WatchInv, WatchTypeOK, WatchStages, WatchStage, MessageNotSkipped, Watching

\* A page of the scan ends within the history, and what it does not reach is
\* left for the next one: this is where a message could be skipped.
LEMMA ScanKeeps ==
    ASSUME WatchInv, NEW n \in 1..ListSize, Available(n), scanPage(n)
    PROVE  WatchInv'
<1> USE MessageWatchAssumption
<1>1. /\ watchPc = "scan" /\ n \in Nat /\ n <= cursorLT /\ n >= 1
      /\ UNCHANGED <<history, newer, inPool, baseLT, seenLT>>
  BY DEF Available, scanPage
<1>2. /\ history \in Seq({"message", "other"}) /\ Len(history) \in Nat
      /\ baseLT \in Nat /\ knownLT \in Nat /\ found \in Nat
      /\ seenLT \in Nat /\ seenLT <= Len(history) /\ cursorLT \in Nat /\ cursorLT <= seenLT
      /\ baseLT <= knownLT /\ knownLT < cursorLT
      /\ \A i \in (cursorLT + 1)..seenLT : history[i] # "message"
      /\ \A i \in (baseLT + 1)..knownLT : history[i] # "message"
  BY <1>1 DEF WatchInv, WatchTypeOK, WatchStage, MessageNotSkipped, Watching
<1>3. CASE Matches(n) # {}
  <2>1. Matches(n) \subseteq Nat BY <1>1, <1>2 DEF Matches, Page
  <2>2. \E i \in Matches(n) : \A j \in Matches(n) : i <= j BY <1>3, <2>1, LeastNatural
  <2>3. /\ found' \in Nat /\ watchPc' = "confirmed" /\ UNCHANGED <<cursorLT, knownLT>>
    BY <1>3, <2>1, <2>2 DEF scanPage
  <2> QED BY <1>1, <2>3
          DEF WatchInv, WatchTypeOK, WatchStages, WatchStage, MessageNotSkipped, Watching
<1>4. CASE Matches(n) = {} /\ reachedKnown(n)
  <2>1. watchPc' = "wait" /\ knownLT' = seenLT /\ UNCHANGED <<cursorLT, found>>
    BY <1>4 DEF scanPage
  <2>2. \A i \in (cursorLT - n + 1)..cursorLT : history[i] # "message"
    BY <1>4 DEF Matches, Page
  <2>3. cursorLT - n <= knownLT BY <1>1, <1>2, <1>4 DEF reachedKnown, Page
  <2>4. \A i \in (baseLT + 1)..seenLT : history[i] # "message"
    <3> SUFFICES ASSUME NEW i \in (baseLT + 1)..seenLT PROVE history[i] # "message" OBVIOUS
    <3>1. i \in (baseLT + 1)..knownLT \/ i \in (cursorLT - n + 1)..cursorLT
            \/ i \in (cursorLT + 1)..seenLT
      BY <1>1, <1>2, <2>3
    <3> QED BY <1>2, <2>2, <3>1
  <2> QED BY <1>1, <1>2, <2>1, <2>4
          DEF WatchInv, WatchTypeOK, WatchStages, WatchStage, MessageNotSkipped, Watching
<1>5. CASE Matches(n) = {} /\ ~reachedKnown(n)
  <2>1. watchPc' = "scan" /\ cursorLT' = cursorLT - n /\ UNCHANGED <<knownLT, found>>
    BY <1>5 DEF scanPage, continueScan
  <2>2. \A i \in (cursorLT - n + 1)..cursorLT : history[i] # "message"
    BY <1>5 DEF Matches, Page
  <2>3. knownLT < cursorLT - n BY <1>1, <1>2, <1>5 DEF reachedKnown, Page
  <2>4. \A i \in (cursorLT - n + 1)..seenLT : history[i] # "message"
    <3> SUFFICES ASSUME NEW i \in (cursorLT - n + 1)..seenLT PROVE history[i] # "message" OBVIOUS
    <3>1. i \in (cursorLT - n + 1)..cursorLT \/ i \in (cursorLT + 1)..seenLT BY <1>1, <1>2
    <3> QED BY <1>2, <2>2, <3>1
  <2> QED BY <1>1, <1>2, <2>1, <2>3, <2>4
          DEF WatchInv, WatchTypeOK, WatchStages, WatchStage, MessageNotSkipped, Watching
<1> QED BY <1>3, <1>4, <1>5

\* Every step of the watch keeps its invariant.
LEMMA NextWatch == WatchInv /\ [WatchNext]_watchVars => WatchInv'
<1> SUFFICES ASSUME WatchInv, [WatchNext]_watchVars PROVE WatchInv' OBVIOUS
<1> USE DEF WatchInv, WatchTypeOK, WatchStages, WatchStage, MessageNotSkipped, Watching
<1>0. Len(history) \in Nat OBVIOUS
<1>1. CASE UNCHANGED watchVars BY <1>1 DEF watchVars
<1>2. ASSUME NEW kind \in {"message", "other"}, includeTransaction(kind) PROVE WatchInv'
  <2>1. /\ history' \in Seq({"message", "other"}) /\ Len(history') = Len(history) + 1
        /\ \A i \in 1..Len(history) : history'[i] = history[i]
        /\ Len(history) \in Nat
    BY <1>2 DEF includeTransaction
  <2>2. /\ \A i \in 1..seenLT : history'[i] = history[i]
        /\ UNCHANGED <<watchPc, baseLT, knownLT, seenLT, cursorLT, found>>
        /\ newer' \in BOOLEAN /\ inPool' \in BOOLEAN
    BY <1>2, <2>1 DEF includeTransaction
  <2> QED BY <2>1, <2>2
<1>3. CASE emptyBlock \/ loseMessage BY <1>3 DEF emptyBlock, loseMessage
<1>4. CASE refuse BY <1>4 DEF refuse
<1>5. CASE watchBlock
  <2>1. newer' \in BOOLEAN BY <1>5 DEF watchBlock
  <2>2. seenLT <= seenLT' /\ seenLT' = Len(history') BY <1>0, <1>5 DEF watchBlock
  <2>3. /\ UNCHANGED <<history, inPool, baseLT, knownLT, cursorLT, found>>
        /\ watchPc' = "account"
    BY <1>5 DEF watchBlock
  <2> QED BY <1>0, <2>1, <2>2, <2>3
<1>6. CASE watchAccount BY <1>6 DEF watchAccount
<1>7. CASE sendMessage BY <1>7 DEF sendMessage
<1>8. CASE lookAtAccount
  <2>0. newer' \in BOOLEAN BY <1>8 DEF lookAtAccount
  <2>a. seenLT \in 0..Len(history) OBVIOUS
  <2>1. /\ UNCHANGED <<history, inPool, baseLT, knownLT, found>>
        /\ watchPc = "wait" /\ seenLT' = Len(history) /\ seenLT <= seenLT'
    BY <1>0, <1>8, <2>a DEF lookAtAccount
  <2>2. CASE Len(history) = knownLT
    <3>1. watchPc' = "resend" /\ UNCHANGED cursorLT BY <1>8, <2>2 DEF lookAtAccount
    <3> QED BY <1>0, <2>0, <2>1, <2>2, <3>1
  <2>3. CASE Len(history) # knownLT
    <3>1. watchPc' = "scan" /\ cursorLT' = Len(history) BY <1>8, <2>3 DEF lookAtAccount
    <3> QED BY <1>0, <2>0, <2>1, <2>3, <3>1
  <2> QED BY <2>2, <2>3
<1>9. CASE resendMessage BY <1>9 DEF resendMessage
<1>10. CASE Scan BY <1>10, ScanKeeps DEF Scan
<1>11. CASE scanFails BY <1>11 DEF scanFails
<1>12. CASE watchExpires BY <1>12 DEF watchExpires
<1> QED BY <1>1, <1>2, <1>3, <1>4, <1>5, <1>6, <1>7, <1>8, <1>9, <1>10, <1>11, <1>12
        DEF WatchNext, WatchStep

-----------------------------------------------------------------------------
(* The feeds *)

\* Transactions are numbers.
LEMMA WantedNat == \A m \in Wanted : m \in Nat
BY FeedsAssumption

\* What one more transaction adds to the wanted ones.
LEMMA WantedNext ==
    ASSUME NEW lt \in Nat, NEW n \in Int
    PROVE  /\ WantedIn(lt, lt) = {}
           /\ n + 1 \notin Wanted => WantedIn(lt, n + 1) = WantedIn(lt, n)
           /\ n + 1 \in Wanted /\ lt < n + 1 => WantedIn(lt, n + 1) = WantedIn(lt, n) \cup {n + 1}
<1>1. \A m \in Wanted : ~(lt < m /\ m <= lt) BY WantedNat
<1>2. \A m \in Wanted : m <= n + 1 <=> m <= n \/ m = n + 1 BY WantedNat
<1>3. WantedIn(lt, lt) = {} BY <1>1 DEF WantedIn
<1>4. n + 1 <= n + 1 OBVIOUS
<1> DEFINE next == n + 1
<1> HIDE DEF next
<1>5. \A m \in Wanted : m <= next <=> m <= n \/ m = next BY <1>2 DEF next
<1>6. next \notin Wanted => WantedIn(lt, next) = WantedIn(lt, n) BY <1>5 DEF WantedIn
<1>7. next \in Wanted /\ lt < next => WantedIn(lt, next) = WantedIn(lt, n) \cup {next}
  BY <1>5 DEF WantedIn
<1> QED BY <1>3, <1>6, <1>7 DEF next

\* The library pushes the next transaction into the channel.
LEMMA PushOrdered ==
    ASSUME NEW pc, pc # "start", NEW lt \in Nat, NEW last \in Nat, NEW ch \in Seq(Nat),
           NEW wr \in Seq(Nat), Ordered(pc, lt, last, ch, wr)
    PROVE  Ordered(pc, lt, last + 1, Append(ch, last + 1), wr)
<1> DEFINE new == Append(ch, last + 1)
<1>1. /\ Len(ch) \in Nat /\ DOMAIN ch = 1..Len(ch) /\ Len(new) = Len(ch) + 1
      /\ DOMAIN new = 1..(Len(ch) + 1) /\ new[Len(ch) + 1] = last + 1
      /\ \A i \in 1..Len(ch) : new[i] = ch[i]
  OBVIOUS
<1> HIDE DEF new
<1>2. (last + 1) - Len(new) = last - Len(ch) BY <1>1
<1>3. \A i \in 1..Len(ch) : ch[i] = last - Len(ch) + i BY <1>1 DEF Ordered
<1>4. \A i \in 1..(Len(ch) + 1) : new[i] = last - Len(ch) + i BY <1>1, <1>3
<1>5. lt + Len(new) <= last + 1 BY <1>1 DEF Ordered
<1>6. Ordered(pc, lt, last + 1, new, wr) BY <1>1, <1>2, <1>4, <1>5 DEF Ordered
<1> QED BY <1>6 DEF new

\* The feed starts after the transaction that was looked up.
LEMMA StartOrdered ==
    ASSUME NEW lt \in Nat, NEW ch, NEW wr, ch = << >>, wr = << >>
    PROVE  Ordered("listen", lt, lt, ch, wr)
<1>1. DOMAIN ch = {} /\ DOMAIN wr = {} /\ Len(ch) = 0 OBVIOUS
<1>2. Values(wr) = {} BY <1>1 DEF Values
<1>3. WantedIn(lt, lt) = {} BY WantedNext
<1>4. lt - Len(ch) = lt /\ lt + Len(ch) = lt BY <1>1
<1> QED BY <1>1, <1>2, <1>3, <1>4 DEF Ordered

\* What is taken from the channel is the transaction that follows.
LEMMA TakenFollows ==
    ASSUME NEW lt \in Nat, NEW last \in Nat, NEW ch \in Seq(Nat), ch # << >>,
           NEW wr \in Seq(Nat), Ordered("listen", lt, last, ch, wr)
    PROVE  /\ Tail(ch) \in Seq(Nat) /\ last - Len(ch) \in Int
           /\ Head(ch) = last - Len(ch) + 1 /\ last - Len(Tail(ch)) = Head(ch)
           /\ lt + Len(Tail(ch)) <= last /\ lt < Head(ch)
           /\ \A i \in DOMAIN Tail(ch) : Tail(ch)[i] = last - Len(Tail(ch)) + i
<1>1. /\ Tail(ch) \in Seq(Nat) /\ Len(ch) \in Nat /\ Len(ch) >= 1 /\ DOMAIN ch = 1..Len(ch)
      /\ Len(Tail(ch)) = Len(ch) - 1 /\ DOMAIN Tail(ch) = 1..(Len(ch) - 1) /\ Head(ch) = ch[1]
      /\ \A i \in 1..(Len(ch) - 1) : Tail(ch)[i] = ch[i + 1]
  OBVIOUS
<1>2. \A i \in 1..Len(ch) : ch[i] = last - Len(ch) + i BY <1>1 DEF Ordered
<1>3. lt + Len(ch) <= last BY DEF Ordered
<1>4. Head(ch) = last - Len(ch) + 1 BY <1>1, <1>2
<1>5. /\ last - Len(ch) \in Int /\ last - Len(Tail(ch)) = Head(ch)
      /\ lt + Len(Tail(ch)) <= last /\ lt < Head(ch)
  BY <1>1, <1>3, <1>4
<1>6. \A i \in 1..(Len(ch) - 1) : Tail(ch)[i] = last - Len(Tail(ch)) + i BY <1>1, <1>2
<1> QED BY <1>1, <1>4, <1>5, <1>6

\* The filter drops it ...
LEMMA DropOrdered ==
    ASSUME NEW lt \in Nat, NEW last \in Nat, NEW ch \in Seq(Nat), ch # << >>,
           NEW wr \in Seq(Nat), Ordered("listen", lt, last, ch, wr), Head(ch) \notin Wanted
    PROVE  Ordered("listen", lt, last, Tail(ch), wr)
<1>1. /\ last - Len(ch) \in Int /\ Head(ch) = last - Len(ch) + 1
      /\ last - Len(Tail(ch)) = Head(ch) /\ lt + Len(Tail(ch)) <= last
      /\ \A i \in DOMAIN Tail(ch) : Tail(ch)[i] = last - Len(Tail(ch)) + i
  BY TakenFollows
<1>2. WantedIn(lt, Head(ch)) = WantedIn(lt, last - Len(ch)) BY <1>1, WantedNext
<1> QED BY <1>1, <1>2 DEF Ordered

\* ... or the write fails and the goroutine is gone ...
LEMMA LoseOrdered ==
    ASSUME NEW lt \in Nat, NEW last \in Nat, NEW ch \in Seq(Nat), ch # << >>,
           NEW wr \in Seq(Nat), Ordered("listen", lt, last, ch, wr)
    PROVE  Ordered("gone", lt, last, Tail(ch), wr)
BY TakenFollows DEF Ordered

\* ... or it is written, after everything written before.
LEMMA WriteOrdered ==
    ASSUME NEW lt \in Nat, NEW last \in Nat, NEW ch \in Seq(Nat), ch # << >>,
           NEW wr \in Seq(Nat), Ordered("listen", lt, last, ch, wr), Head(ch) \in Wanted
    PROVE  Ordered("listen", lt, last, Tail(ch), Append(wr, Head(ch)))
<1> DEFINE head == Head(ch)
           new == Append(wr, head)
           n == Len(wr)
<1>1. /\ last - Len(ch) \in Int /\ head = last - Len(ch) + 1 /\ lt < head
      /\ last - Len(Tail(ch)) = head /\ lt + Len(Tail(ch)) <= last
      /\ \A i \in DOMAIN Tail(ch) : Tail(ch)[i] = last - Len(Tail(ch)) + i
  BY TakenFollows
<1>2. head \in Wanted /\ head \in Nat BY WantedNat
<1>3. /\ Values(wr) \subseteq Wanted /\ Values(wr) = WantedIn(lt, last - Len(ch))
      /\ \A i, j \in DOMAIN wr : i < j => wr[i] < wr[j]
  BY DEF Ordered
<1>4. /\ n \in Nat /\ DOMAIN wr = 1..n /\ DOMAIN new = 1..(n + 1)
      /\ new[n + 1] = head /\ \A i \in 1..n : new[i] = wr[i]
  BY <1>2
<1> HIDE DEF head, new, n
<1>5. \A i \in 1..n : wr[i] \in Nat /\ wr[i] < head
  <2> SUFFICES ASSUME NEW i \in 1..n PROVE wr[i] \in Nat /\ wr[i] < head OBVIOUS
  <2>1. wr[i] \in Values(wr) BY <1>4 DEF Values
  <2>2. wr[i] \in Wanted /\ wr[i] <= last - Len(ch) BY <1>3, <2>1 DEF WantedIn
  <2> QED BY <1>1, <2>2, WantedNat
<1>6. \A i, j \in DOMAIN new : i < j => new[i] < new[j]
  <2> SUFFICES ASSUME NEW i \in 1..(n + 1), NEW j \in 1..(n + 1), i < j PROVE new[i] < new[j]
    BY <1>4
  <2>1. CASE j \in 1..n
    <3>1. i \in 1..n BY <1>4, <2>1
    <3>2. wr[i] < wr[j] BY <1>3, <1>4, <2>1, <3>1
    <3> QED BY <1>4, <2>1, <3>1, <3>2
  <2>2. CASE j = n + 1
    <3>1. i \in 1..n BY <1>4, <2>2
    <3> QED BY <1>4, <1>5, <2>2, <3>1
  <2> QED BY <1>4, <2>1, <2>2
<1>7. Values(new) = Values(wr) \cup {head}
  <2>1. \A i \in 1..(n + 1) : i \in 1..n \/ i = n + 1 BY <1>4
  <2>2. \A i \in 1..n : i \in 1..(n + 1) BY <1>4
  <2>3. n + 1 \in 1..(n + 1) BY <1>4
  <2> QED BY <1>4, <2>1, <2>2, <2>3 DEF Values
<1>8. WantedIn(lt, head) = WantedIn(lt, last - Len(ch)) \cup {head}
  <2> DEFINE t == last - Len(ch)
  <2> HIDE DEF t
  <2>1. t \in Int /\ head = t + 1 BY <1>1 DEF t
  <2>2. t + 1 \in Wanted /\ lt < t + 1 BY <1>1, <1>2, <2>1
  <2>3. WantedIn(lt, t + 1) = WantedIn(lt, t) \cup {t + 1}
    BY ONLY lt \in Nat, <2>1, <2>2, WantedNext
  <2> QED BY <2>1, <2>3 DEF t
<1>9. Ordered("listen", lt, last, Tail(ch), new)
  BY <1>1, <1>2, <1>3, <1>6, <1>7, <1>8 DEF Ordered
<1> QED BY <1>9 DEF new, head

\* A feed that ends keeps what it has written.
LEMMA EndOrdered ==
    ASSUME NEW lt, NEW last, NEW ch, NEW wr, Ordered("listen", lt, last, ch, wr)
    PROVE  Ordered("gone", lt, last, ch, wr)
BY DEF Ordered

\* The feeds in the beginning.
LEMMA InitFeed == FeedInit => FeedInv
<1> SUFFICES ASSUME FeedInit PROVE FeedInv OBVIOUS
<1>1. /\ ledger \in [Watched -> Nat] /\ feedPc \in [Watched -> FeedStages]
      /\ fromLT \in [Watched -> Nat] /\ pushed \in [Watched -> Nat]
      /\ channel \in [Watched -> Seq(Nat)] /\ written \in [Watched -> Seq(Nat)]
  BY DEF FeedInit, FeedStages
<1>2. ASSUME NEW a \in Watched PROVE FeedOrdered(a)
  BY DEF FeedInit, FeedOrdered, Ordered, Values
<1> QED BY <1>1, <1>2 DEF FeedInv

\* Every step of the feeds keeps their invariant.
LEMMA NextFeed == FeedInv /\ [FeedNext]_feedVars => FeedInv'
<1> SUFFICES ASSUME FeedInv, [FeedNext]_feedVars PROVE FeedInv' OBVIOUS
<1>0. /\ ledger \in [Watched -> Nat] /\ feedPc \in [Watched -> FeedStages]
      /\ fromLT \in [Watched -> Nat] /\ pushed \in [Watched -> Nat]
      /\ channel \in [Watched -> Seq(Nat)] /\ written \in [Watched -> Seq(Nat)]
      /\ \A a \in Watched :
           Ordered(feedPc[a], fromLT[a], pushed[a], channel[a], written[a])
  BY DEF FeedInv, FeedOrdered
<1>a. ASSUME NEW a \in Watched, NEW pc \in FeedStages, NEW lt \in Nat, NEW last \in Nat,
             NEW ch \in Seq(Nat), NEW wr \in Seq(Nat), Ordered(pc, lt, last, ch, wr),
             feedPc' = [feedPc EXCEPT ![a] = pc], fromLT' = [fromLT EXCEPT ![a] = lt],
             pushed' = [pushed EXCEPT ![a] = last], channel' = [channel EXCEPT ![a] = ch],
             written' = [written EXCEPT ![a] = wr], UNCHANGED ledger
      PROVE  FeedInv'
  <2>1. /\ feedPc' \in [Watched -> FeedStages] /\ fromLT' \in [Watched -> Nat]
        /\ pushed' \in [Watched -> Nat] /\ channel' \in [Watched -> Seq(Nat)]
        /\ written' \in [Watched -> Seq(Nat)]
    BY <1>0, <1>a
  <2>2. ASSUME NEW b \in Watched
        PROVE  Ordered(feedPc'[b], fromLT'[b], pushed'[b], channel'[b], written'[b])
    <3>1. CASE b = a
      <4>1. feedPc'[b] = pc /\ fromLT'[b] = lt /\ pushed'[b] = last /\ channel'[b] = ch
              /\ written'[b] = wr
        BY <1>0, <1>a, <3>1
      <4> QED BY <1>a, <4>1
    <3>2. CASE b # a
      <4>1. feedPc'[b] = feedPc[b] /\ fromLT'[b] = fromLT[b] /\ pushed'[b] = pushed[b]
              /\ channel'[b] = channel[b] /\ written'[b] = written[b]
        BY <1>0, <1>a, <3>2
      <4> QED BY <1>0, <4>1
    <3> QED BY <3>1, <3>2
  <2> QED BY <1>0, <1>a, <2>1, <2>2 DEF FeedInv, FeedOrdered
<1>b. ASSUME NEW a \in Watched
      PROVE  /\ ledger[a] \in Nat /\ feedPc[a] \in FeedStages /\ fromLT[a] \in Nat
             /\ pushed[a] \in Nat /\ channel[a] \in Seq(Nat) /\ written[a] \in Seq(Nat)
             /\ Ordered(feedPc[a], fromLT[a], pushed[a], channel[a], written[a])
             /\ feedPc = [feedPc EXCEPT ![a] = feedPc[a]]
             /\ fromLT = [fromLT EXCEPT ![a] = fromLT[a]]
             /\ pushed = [pushed EXCEPT ![a] = pushed[a]]
             /\ channel = [channel EXCEPT ![a] = channel[a]]
             /\ written = [written EXCEPT ![a] = written[a]]
  BY <1>0
<1>c. ASSUME UNCHANGED <<feedPc, fromLT, pushed, channel, written>>,
             ledger' \in [Watched -> Nat]
      PROVE  FeedInv'
  BY <1>0, <1>c DEF FeedInv, FeedOrdered
<1>1. CASE UNCHANGED feedVars BY <1>0, <1>1, <1>c DEF feedVars
<1>2. CASE connectionBreaks \/ cancelFeeds \/ waitFeeds
  BY <1>0, <1>2, <1>c DEF connectionBreaks, cancelFeeds, waitFeeds
<1>3. ASSUME NEW a \in Watched, transact(a) PROVE FeedInv'
  <2>1. ledger' \in [Watched -> Nat] BY <1>0, <1>3 DEF transact
  <2> QED BY <1>3, <1>c, <2>1 DEF transact
<1>4. ASSUME NEW a \in Watched, SubscribeOnTransactions(a) PROVE FeedInv'
  <2> DEFINE last == pushed[a] + 1
             ch == Append(channel[a], pushed[a] + 1)
  <2>1. last \in Nat /\ ch \in Seq(Nat) BY <1>b
  <2>2. Ordered(feedPc[a], fromLT[a], last, ch, written[a])
    BY <1>4, <1>b, PushOrdered DEF SubscribeOnTransactions
  <2>3. /\ feedPc' = [feedPc EXCEPT ![a] = feedPc[a]] /\ fromLT' = [fromLT EXCEPT ![a] = fromLT[a]]
        /\ pushed' = [pushed EXCEPT ![a] = last] /\ channel' = [channel EXCEPT ![a] = ch]
        /\ written' = [written EXCEPT ![a] = written[a]] /\ UNCHANGED ledger
    BY <1>4, <1>b DEF SubscribeOnTransactions
  <2> HIDE DEF last, ch
  <2> QED BY <1>a, <1>b, <2>1, <2>2, <2>3
<1>5. ASSUME NEW a \in Watched, startFeed(a) PROVE FeedInv'
  <2>1. PICK lt \in Nat : /\ fromLT' = [fromLT EXCEPT ![a] = lt]
                          /\ pushed' = [pushed EXCEPT ![a] = lt]
    BY <1>5, <1>b DEF startFeed
  <2>2. channel[a] = << >> /\ written[a] = << >>
    BY <1>5, <1>b DEF startFeed, Ordered
  <2>3. Ordered("listen", lt, lt, channel[a], written[a]) BY <2>2, StartOrdered
  <2>4. /\ feedPc' = [feedPc EXCEPT ![a] = "listen"] /\ "listen" \in FeedStages
        /\ channel' = [channel EXCEPT ![a] = channel[a]]
        /\ written' = [written EXCEPT ![a] = written[a]] /\ UNCHANGED ledger
    BY <1>5, <1>b DEF startFeed, FeedStages
  <2> QED BY <1>a, <1>b, <2>1, <2>3, <2>4
<1>6. ASSUME NEW a \in Watched, nextTransaction(a) PROVE FeedInv'
  <2> DEFINE ch == channel[a]
  <2>1. /\ feedPc[a] = "listen" /\ ch # << >> /\ channel' = [channel EXCEPT ![a] = Tail(ch)]
        /\ UNCHANGED <<ledger, fromLT, pushed>>
    BY <1>6 DEF nextTransaction
  <2>2. /\ Ordered("listen", fromLT[a], pushed[a], ch, written[a])
        /\ Tail(ch) \in Seq(Nat) /\ ch \in Seq(Nat) /\ Head(ch) \in Nat
    BY <1>b, <2>1
  <2>3. /\ fromLT' = [fromLT EXCEPT ![a] = fromLT[a]]
        /\ pushed' = [pushed EXCEPT ![a] = pushed[a]] /\ UNCHANGED ledger
        /\ channel' = [channel EXCEPT ![a] = Tail(ch)]
    BY <1>b, <2>1
  <2>a. "listen" \in FeedStages /\ "gone" \in FeedStages BY DEF FeedStages
  <2>4. CASE Head(ch) \notin Wanted
    <3>1. UNCHANGED <<feedPc, written>> BY <1>6, <2>4 DEF nextTransaction
    <3>2. Ordered("listen", fromLT[a], pushed[a], Tail(ch), written[a])
      BY <1>b, <2>1, <2>2, <2>4, DropOrdered
    <3>3. /\ feedPc' = [feedPc EXCEPT ![a] = "listen"]
          /\ written' = [written EXCEPT ![a] = written[a]]
      BY <1>b, <2>1, <3>1
    <3> HIDE DEF ch
    <3> QED BY <1>a, <1>b, <2>a, <2>2, <2>3, <3>2, <3>3
  <2>5. CASE Head(ch) \in Wanted /\ broken
    <3>1. feedPc' = [feedPc EXCEPT ![a] = "gone"] /\ UNCHANGED written
      BY <1>6, <2>5 DEF nextTransaction, writeFails
    <3>2. Ordered("gone", fromLT[a], pushed[a], Tail(ch), written[a])
      BY <1>b, <2>1, <2>2, LoseOrdered
    <3>3. written' = [written EXCEPT ![a] = written[a]] BY <1>b, <3>1
    <3> HIDE DEF ch
    <3> QED BY <1>a, <1>b, <2>a, <2>2, <2>3, <3>1, <3>2, <3>3
  <2>6. CASE Head(ch) \in Wanted /\ ~broken
    <3>1. UNCHANGED feedPc /\ written' = [written EXCEPT ![a] = Append(written[a], Head(ch))]
      BY <1>6, <1>b, <2>6 DEF nextTransaction
    <3>2. Ordered("listen", fromLT[a], pushed[a], Tail(ch), Append(written[a], Head(ch)))
      BY <1>b, <2>1, <2>2, <2>6, WriteOrdered
    <3>3. Append(written[a], Head(ch)) \in Seq(Nat) BY <1>b, <2>2
    <3>4. feedPc' = [feedPc EXCEPT ![a] = "listen"] BY <1>b, <2>1, <3>1
    <3> HIDE DEF ch
    <3> QED BY <1>a, <1>b, <2>a, <2>2, <2>3, <3>1, <3>2, <3>3, <3>4
  <2> QED BY <2>4, <2>5, <2>6
<1>7. ASSUME NEW a \in Watched, endFeed(a) PROVE FeedInv'
  <2>1. /\ feedPc[a] = "listen" /\ feedPc' = [feedPc EXCEPT ![a] = "gone"]
        /\ UNCHANGED <<ledger, fromLT, pushed, channel, written>>
    BY <1>7 DEF endFeed
  <2>2. Ordered("gone", fromLT[a], pushed[a], channel[a], written[a]) BY <1>b, <2>1, EndOrdered
  <2>3. /\ "gone" \in FeedStages /\ channel' = [channel EXCEPT ![a] = channel[a]]
        /\ fromLT' = [fromLT EXCEPT ![a] = fromLT[a]]
        /\ pushed' = [pushed EXCEPT ![a] = pushed[a]]
        /\ written' = [written EXCEPT ![a] = written[a]] /\ UNCHANGED ledger
        /\ feedPc' = [feedPc EXCEPT ![a] = "gone"]
    BY <1>b, <2>1 DEF FeedStages
  <2> QED BY <1>a, <1>b, <2>2, <2>3
<1> QED BY <1>1, <1>2, <1>3, <1>4, <1>5, <1>6, <1>7 DEF FeedNext, Feed

\* The invariant gives the property: what is still in the channel are the
\* transactions up to the last one pushed.
LEMMA FeedImplies == FeedInv => FeedContiguous
<1> SUFFICES ASSUME FeedInv, NEW a \in Watched
             PROVE  /\ \A i, j \in DOMAIN written[a] : i < j => written[a][i] < written[a][j]
                    /\ {written[a][i] : i \in DOMAIN written[a]} \subseteq Wanted
                    /\ feedPc[a] = "listen" =>
                         {lt \in Wanted : fromLT[a] < lt /\ lt <= pushed[a]}
                           = {written[a][i] : i \in DOMAIN written[a]}
                             \cup {channel[a][i] : i \in {k \in DOMAIN channel[a] : channel[a][k] \in Wanted}}
  BY DEF FeedContiguous
<1> DEFINE ch == channel[a]
           lt == fromLT[a]
           last == pushed[a]
<1>1. /\ lt \in Nat /\ last \in Nat /\ ch \in Seq(Nat) /\ Len(ch) \in Nat
      /\ DOMAIN ch = 1..Len(ch) /\ Ordered(feedPc[a], lt, last, ch, written[a])
  BY DEF FeedInv, FeedOrdered
<1>2. /\ \A i, j \in DOMAIN written[a] : i < j => written[a][i] < written[a][j]
      /\ {written[a][i] : i \in DOMAIN written[a]} \subseteq Wanted
  BY <1>1 DEF Ordered, Values
<1> HIDE DEF ch, lt, last
<1>3. ASSUME feedPc[a] = "listen"
      PROVE  {m \in Wanted : lt < m /\ m <= last}
               = Values(written[a]) \cup {ch[i] : i \in {k \in DOMAIN ch : ch[k] \in Wanted}}
  <2>1. /\ lt + Len(ch) <= last /\ \A i \in 1..Len(ch) : ch[i] = last - Len(ch) + i
        /\ Values(written[a]) = {m \in Wanted : lt < m /\ m <= last - Len(ch)}
    BY <1>1, <1>3 DEF Ordered, WantedIn
  <2>2. ASSUME NEW m \in Wanted, lt < m, m <= last, ~(m <= last - Len(ch))
        PROVE  \E k \in 1..Len(ch) : ch[k] = m
    <3>1. m \in Nat BY WantedNat
    <3>2. m - (last - Len(ch)) \in 1..Len(ch) BY <1>1, <2>2, <3>1
    <3>3. ch[m - (last - Len(ch))] = m BY <1>1, <2>1, <3>1, <3>2
    <3> QED BY <3>2, <3>3
  <2>3. \A m \in Wanted : m <= last - Len(ch) => m <= last BY <1>1, WantedNat
  <2>4. \A k \in 1..Len(ch) : lt < ch[k] /\ ch[k] <= last BY <1>1, <2>1
  <2> QED BY <1>1, <2>1, <2>2, <2>3, <2>4
<1> QED BY <1>2, <1>3 DEF ch, lt, last, Values

-----------------------------------------------------------------------------
(* The requests *)

\* The steps a path is made of.
LEMMA StepsTyped ==
    /\ {Parse, Convert, Gate, Current, Read, Own, Ask, Walk, Check} \subseteq HandlerSteps
    /\ {Opt(Own), Opt(Current), Opt(Read), Stop(Ask)} \subseteq HandlerSteps
BY DEF HandlerSteps, StepKinds, Step, Opt, Stop, Parse, Convert, Gate, Current, Read, Own, Ask,
       Walk, Check

\* A path of the handlers that compose nothing, and what it never does.
Sound(p) == p \in Seq(HandlerSteps) /\ Coherent(p) /\ "walk" \notin Does(p)

\* A path that takes the block before step k and reads from then on.
LEMMA ReadAfter ==
    ASSUME NEW p \in Seq(HandlerSteps), NEW k \in Nat,
           \A i \in 1..Len(p) : /\ p[i].do \notin {"own", "walk"}
                                /\ p[i].do = "current" => i <= k
                                /\ p[i].do = "read" => i > k
    PROVE  Sound(p)
<1>1. Len(p) \in Nat /\ DOMAIN p = 1..Len(p) OBVIOUS
<1> QED BY <1>1 DEF Sound, Coherent, Does

\* The emulations read the account and the config at the block they start with.
LEMMA EmulationSound ==
    \A p \in handleEmulateMessage \cup handleEmulateTransaction : Sound(p)
<1> USE DEF Step, Parse, Current, Read, Ask, Check
<1>1. Sound(<<Parse, Current, Ask, Read, Parse, Read, Check, Parse, Check>>)
  <2> DEFINE p == <<Parse, Current, Ask, Read, Parse, Read, Check, Parse, Check>>
  <2>1. p \in Seq(HandlerSteps) /\ Len(p) = 9 BY StepsTyped
  <2>2. \A i \in 1..9 : /\ p[i].do \notin {"own", "walk"}
                        /\ p[i].do = "current" => i <= 3
                        /\ p[i].do = "read" => i > 3
    OBVIOUS
  <2> HIDE DEF p
  <2>3. Sound(p) BY <2>1, <2>2, ReadAfter
  <2> QED BY <2>3 DEF p
<1>2. Sound(<<Parse, Current, Ask, Read, Parse, Read, Check, Check>>)
  <2> DEFINE p == <<Parse, Current, Ask, Read, Parse, Read, Check, Check>>
  <2>1. p \in Seq(HandlerSteps) /\ Len(p) = 8 BY StepsTyped
  <2>2. \A i \in 1..8 : /\ p[i].do \notin {"own", "walk"}
                        /\ p[i].do = "current" => i <= 3
                        /\ p[i].do = "read" => i > 3
    OBVIOUS
  <2> HIDE DEF p
  <2>3. Sound(p) BY <2>1, <2>2, ReadAfter
  <2> QED BY <2>3 DEF p
<1>3. Sound(<<Parse, Current, Ask, Read, Parse, Check, Read, Check, Check, Check, Parse, Check>>)
  <2> DEFINE p == <<Parse, Current, Ask, Read, Parse, Check, Read, Check, Check, Check, Parse, Check>>
  <2>1. p \in Seq(HandlerSteps) /\ Len(p) = 12 BY StepsTyped
  <2>2. \A i \in 1..12 : /\ p[i].do \notin {"own", "walk"}
                         /\ p[i].do = "current" => i <= 3
                         /\ p[i].do = "read" => i > 3
    OBVIOUS
  <2> HIDE DEF p
  <2>3. Sound(p) BY <2>1, <2>2, ReadAfter
  <2> QED BY <2>3 DEF p
<1> QED BY <1>1, <1>2, <1>3 DEF handleEmulateMessage, handleEmulateTransaction

\* The other handlers' paths.
LEMMA ShortPathsSound ==
    /\ Sound(<<Current>>)
    /\ Sound(<<Parse, Current, Read>>)
    /\ Sound(<<Parse, Current, Convert, Read>>)
    /\ Sound(<<Parse, Ask>>)
    /\ Sound(<<Ask>>)
    /\ Sound(<<Current, Read>>)
    /\ Sound(<<Parse, Ask, Ask>>)
    /\ Sound(<<Parse, Ask, Ask, Check>>)
    /\ Sound(<<Parse, Parse, Ask>>)
    /\ Sound(<<Parse, Current, Read, Ask>>)
    /\ Sound(<<Parse, Ask, Parse, Ask>>)
    /\ Sound(<<Parse>>)
    /\ Sound(<<Ask, Stop(Ask)>>)
    /\ Sound(<<Ask, Stop(Ask), Stop(Ask)>>)
    /\ Sound(<<Gate, Parse, Ask>>)
    /\ Sound(<<Parse, Current, Read, Check>>)
    /\ Sound(<< >>)
    /\ Sound(<<Parse, Own>>)
<1> USE StepsTyped DEF Sound, Coherent, Does, Step, Stop, Parse, Convert, Gate, Current, Read, Own,
           Ask, Check
<1>1. Sound(<<Current>>) OBVIOUS
<1>2. Sound(<<Parse, Current, Read>>) OBVIOUS
<1>3. Sound(<<Parse, Current, Convert, Read>>) OBVIOUS
<1>4. Sound(<<Parse, Ask>>) OBVIOUS
<1>5. Sound(<<Ask>>) OBVIOUS
<1>6. Sound(<<Current, Read>>) OBVIOUS
<1>7. Sound(<<Parse, Ask, Ask>>) OBVIOUS
<1>8. Sound(<<Parse, Ask, Ask, Check>>) OBVIOUS
<1>9. Sound(<<Parse, Parse, Ask>>) OBVIOUS
<1>10. Sound(<<Parse, Current, Read, Ask>>) OBVIOUS
<1>11. Sound(<<Parse, Ask, Parse, Ask>>) OBVIOUS
<1>12. Sound(<<Parse>>) OBVIOUS
<1>13. Sound(<<Ask, Stop(Ask)>>) OBVIOUS
<1>14. Sound(<<Ask, Stop(Ask), Stop(Ask)>>) OBVIOUS
<1>15. Sound(<<Gate, Parse, Ask>>) OBVIOUS
<1>16. Sound(<<Parse, Current, Read, Check>>) OBVIOUS
<1>17. Sound(<< >>) OBVIOUS
<1>18. Sound(<<Parse, Own>>) OBVIOUS
<1> HIDE DEF Sound
<1> QED BY <1>1, <1>2, <1>3, <1>4, <1>5, <1>6, <1>7, <1>8, <1>9, <1>10, <1>11, <1>12, <1>13, <1>14, <1>15, <1>16, <1>17, <1>18

\* The paths of the handlers that neither compose nor walk.
PlainPaths ==
    handleGetMasterchainInfo \cup handleGetAccountState \cup handleRunMethod \cup
    handleSendMessage \cup handleSendMessageWait \cup handleGetTransactions \cup
    handleGetTime \cup handleLookupBlock \cup handleGetBlockTransactions \cup
    handleGetShards \cup handleGetBlockchainConfig \cup handleFindTxByInMsgHash \cup
    handleFindTxByOutMsgHash \cup handleGetBlockData \cup handleGetBlockHeader \cup
    handleGetLibraries \cup handleFindAddresses \cup handleFindOverlayNodes \cup
    handleFindTunnelNodes \cup handleDHTFindValue \cup handleDHTStoreAddress \cup
    handleDHTStoreOverlayNodes \cup handleJettonGetData \cup
    handleJettonGetWalletAddress \cup handleJettonGetBalance \cup
    handleNFTGetCollectionData \cup handleNFTGetAddressByIndex \cup
    handleNFTGetRoyaltyParams \cup handleNFTGetContent \cup handleWalletGetSeqno \cup
    handleWalletGetPublicKey \cup handleSBTGetAuthorityAddress \cup
    handleSBTGetRevokedTime \cup handlePaymentGetChannelState \cup
    handleNetworkInfo \cup handleEmulateMessage \cup handleEmulateTransaction

\* Which of them a request may take.
LEMMA HandlerPaths ==
    ASSUME NEW m, NEW p \in Handler(m)
    PROVE  /\ m \notin Composed /\ m # getTransaction => p \in PlainPaths
           /\ m = <<"dns", "resolve">> => p \in handleDNSResolve
           /\ m = <<"nft", "getData">> => p \in handleNFTGetData
           /\ m = getTransaction => p = <<Parse, Current, Read, Walk>>
<1>1. ASSUME m \notin Composed, m # getTransaction PROVE p \in PlainPaths
  BY <1>1 DEF Handler, Composed, getTransaction, PlainPaths
<1>2. ASSUME m = <<"dns", "resolve">> PROVE p \in handleDNSResolve BY <1>2 DEF Handler
<1>3. ASSUME m = <<"nft", "getData">> PROVE p \in handleNFTGetData BY <1>3 DEF Handler
<1>4. ASSUME m = getTransaction PROVE p = <<Parse, Current, Read, Walk>>
  BY <1>4 DEF Handler, getTransaction, handleGetTransaction
<1> QED BY <1>1, <1>2, <1>3, <1>4

\* They are all sound.
LEMMA PlainSound == \A p \in PlainPaths : Sound(p)
BY ShortPathsSound, EmulationSound
   DEF PlainPaths, handleGetMasterchainInfo, handleGetAccountState, handleRunMethod,
       handleSendMessage, handleSendMessageWait, handleGetTransactions, handleGetTime,
       handleLookupBlock, handleGetBlockTransactions, handleGetShards,
       handleGetBlockchainConfig, handleFindTxByInMsgHash, handleFindTxByOutMsgHash,
       handleGetBlockData, handleGetBlockHeader, handleGetLibraries,
       handleFindAddresses, handleFindOverlayNodes, handleFindTunnelNodes,
       handleDHTFindValue, handleDHTStoreAddress, handleDHTStoreOverlayNodes,
       handleJettonGetData, handleJettonGetWalletAddress, handleJettonGetBalance,
       handleNFTGetCollectionData, handleNFTGetAddressByIndex,
       handleNFTGetRoyaltyParams, handleNFTGetContent, handleWalletGetSeqno,
       handleWalletGetPublicKey, handleSBTGetAuthorityAddress, handleSBTGetRevokedTime,
       handlePaymentGetChannelState, handleNetworkInfo

\* A domain's and an NFT's paths walk through no history either.
LEMMA ComposedSteps ==
    \A p \in handleDNSResolve \cup handleNFTGetData :
      p \in Seq(HandlerSteps) /\ "walk" \notin Does(p)
<1> USE StepsTyped DEF Does, Step, Opt, Parse, Own, Current, Read
<1> DEFINE Good(p) == p \in Seq(HandlerSteps) /\ "walk" \notin Does(p)
<1>1. Good(<<Parse, Own>>) OBVIOUS
<1>2. Good(<<Parse, Own, Opt(Own)>>) OBVIOUS
<1>3. Good(<<Parse, Own, Opt(Own), Opt(Own)>>) OBVIOUS
<1>4. Good(<<Parse, Own, Opt(Own), Opt(Current), Opt(Read), Opt(Own)>>) OBVIOUS
<1> HIDE DEF Good
<1>5. \A p \in handleDNSResolve \cup handleNFTGetData : Good(p)
  BY <1>1, <1>2, <1>3, <1>4 DEF handleDNSResolve, handleNFTGetData
<1> QED BY <1>5 DEF Good

\* What is left of a path does nothing new.
LEMMA Shrinks ==
    ASSUME NEW p \in Seq(HandlerSteps), p # << >>, NEW q \in {Tail(p), << >>}
    PROVE  /\ q \in Seq(HandlerSteps) /\ Head(p) \in HandlerSteps /\ Head(p).do \in Does(p)
           /\ Does(q) \subseteq Does(p)
           /\ Coherent(p) => Coherent(q)
<1>1. /\ Len(p) \in Nat /\ Len(p) >= 1 /\ DOMAIN p = 1..Len(p) /\ Head(p) = p[1]
      /\ Tail(p) \in Seq(HandlerSteps) /\ DOMAIN Tail(p) = 1..(Len(p) - 1)
      /\ \A i \in 1..(Len(p) - 1) : Tail(p)[i] = p[i + 1]
  OBVIOUS
<1>2. \A i \in 1..(Len(p) - 1) : i + 1 \in 1..Len(p) BY <1>1
<1>3. Does(Tail(p)) \subseteq Does(p) BY <1>1, <1>2 DEF Does
<1>4. Coherent(p) => Coherent(Tail(p)) BY <1>1, <1>2 DEF Coherent
<1>5. << >> \in Seq(HandlerSteps) /\ Does(<< >>) = {} /\ Coherent(<< >>) BY DEF Does, Coherent
<1>6. Head(p) \in HandlerSteps /\ Head(p).do \in Does(p) BY <1>1 DEF Does
<1> QED BY <1>1, <1>3, <1>4, <1>5, <1>6

\* After a read the block stays; after a call of the library there is none.
LEMMA CoherentTail ==
    ASSUME NEW p \in Seq(HandlerSteps), p # << >>, Coherent(p)
    PROVE  /\ Head(p).do = "read" => "current" \notin Does(Tail(p)) /\ "own" \notin Does(Tail(p))
           /\ Head(p).do = "own" => "own" \notin Does(Tail(p)) /\ "read" \notin Does(Tail(p))
<1>1. /\ Len(p) \in Nat /\ Len(p) >= 1 /\ DOMAIN p = 1..Len(p) /\ Head(p) = p[1]
      /\ DOMAIN Tail(p) = 1..(Len(p) - 1)
      /\ \A i \in 1..(Len(p) - 1) : Tail(p)[i] = p[i + 1]
  OBVIOUS
<1>2. \A i \in 1..(Len(p) - 1) :
        /\ Head(p).do = "read" => Tail(p)[i].do \notin {"current", "own"}
        /\ Head(p).do = "own" => Tail(p)[i].do \notin {"own", "read"}
  <2> SUFFICES ASSUME NEW i \in 1..(Len(p) - 1)
               PROVE  /\ Head(p).do = "read" => Tail(p)[i].do \notin {"current", "own"}
                      /\ Head(p).do = "own" => Tail(p)[i].do \notin {"own", "read"}
    OBVIOUS
  <2>1. 1 \in 1..Len(p) /\ i + 1 \in 1..Len(p) /\ 1 < i + 1 BY <1>1
  <2> QED BY <1>1, <2>1 DEF Coherent
<1> QED BY <1>1, <1>2 DEF Does

\* Where lite.getTransaction is on its path.
LEMMA WalkHeads ==
    ASSUME path \in {<<Parse, Current, Read, Walk>>, <<Current, Read, Walk>>, <<Read, Walk>>,
                     <<Walk>>, << >>}, path # << >>
    PROVE  /\ Head(path).else = "error" /\ Head(path).do \in {"parse", "current", "read", "walk"}
           /\ Head(path).do = "parse" => Tail(path) = <<Current, Read, Walk>>
           /\ Head(path).do = "current" => Tail(path) = <<Read, Walk>>
           /\ Head(path).do = "read" => Tail(path) = <<Walk>>
           /\ Head(path).do = "walk" => path = <<Walk>> /\ Tail(path) = << >>
<1> USE DEF Parse, Current, Read, Walk, Step
<1>1. CASE path = <<Parse, Current, Read, Walk>> BY <1>1
<1>2. CASE path = <<Current, Read, Walk>> BY <1>2
<1>3. CASE path = <<Read, Walk>> BY <1>3
<1>4. CASE path = <<Walk>> BY <1>4
<1> QED BY <1>1, <1>2, <1>3, <1>4

\* A request before it is looked at.
LEMMA InitRequest == RequestInit => RequestInv
<1> SUFFICES ASSUME RequestInit PROVE RequestInv OBVIOUS
<1>1. /\ 2^FloatBits \in Int /\ 2^(FloatBits + 1) \in Int /\ 2^(FloatBits + 2) \in Int
      /\ MaxAccountTxs \in Nat
  BY ReadRequestsAssumption
<1>2. request.lt \in Nat /\ request.number \in Int BY <1>1 DEF RequestInit, None
<1>3. /\ requestPc = "received" /\ path = << >> /\ readAt = {} /\ known = 0 /\ cursor = 0
      /\ passed = None /\ replies = << >> /\ newest = 1 /\ accountTxs \in Nat
  BY <1>1 DEF RequestInit
<1>4. passed \in Int BY <1>1, <1>3 DEF None
<1>5. path \in Seq(HandlerSteps) BY <1>3
<1>6. ReadsOneBlock BY <1>3 DEF ReadsOneBlock
<1>7. WalkStage /\ NotFoundMeansAbsent /\ NumbersExact
  BY <1>3 DEF WalkStage, NotFoundMeansAbsent, NumbersExact
<1> QED BY <1>2, <1>3, <1>4, <1>5, <1>6, <1>7 DEF RequestInv

\* A step that fails: the request is answered, or the handler goes on with
\* less, which lite.getTransaction never does.
LEMMA GiveUpMoves ==
    ASSUME RequestInv, requestPc = "run", path # << >>, NEW kind, giveUp(kind)
    PROVE  \/ requestPc' = "done" /\ replies' = <<kind>> /\ path' = path
           \/ /\ requestPc' = "run" /\ replies' = << >> /\ path' \in {Tail(path), << >>}
              /\ request.method # getTransaction
<1>1. path \in Seq(HandlerSteps) /\ replies = << >> BY DEF RequestInv
<1>2. Head(path) \in HandlerSteps BY <1>1, Shrinks
<1>3. Head(path).else \in {"error", "skip", "stop"} BY <1>2 DEF HandlerSteps
<1>4. Append(<< >>, kind) = <<kind>> OBVIOUS
<1>5. CASE Head(path).else = "error" BY <1>1, <1>4, <1>5 DEF giveUp, reply
<1>6. CASE Head(path).else # "error"
  <2>1. request.method # getTransaction BY <1>6, WalkHeads DEF RequestInv, WalkStage
  <2> QED BY <1>1, <1>3, <1>6, <2>1 DEF giveUp, advance
<1> QED BY <1>5, <1>6

\* A step that leaves the blocks read at alone keeps the handler at its block.
LEMMA ReadsKept ==
    ASSUME RequestInv, requestPc = "run", UNCHANGED <<request, readAt, snapshot>>,
           \/ requestPc' = "done"
           \/ requestPc' = "run" /\ path # << >> /\ path' \in {Tail(path), << >>}
    PROVE  ReadsOneBlock'
<1>0. request' = request /\ readAt' = readAt /\ snapshot' = snapshot OBVIOUS
<1>1. path \in Seq(HandlerSteps) /\ ReadsOneBlock BY DEF RequestInv
<1>2. CASE requestPc' = "done" BY ONLY <1>0, <1>1, <1>2 DEF ReadsOneBlock
<1>3. CASE requestPc' = "run" /\ path # << >> /\ path' \in {Tail(path), << >>}
  <2>1. Does(path') \subseteq Does(path) /\ (Coherent(path) => Coherent(path'))
    BY <1>1, <1>3, Shrinks
  <2>2. CASE request.method \in Composed BY <2>2 DEF ReadsOneBlock
  <2>3. CASE request.method \notin Composed
    <3>1. Coherent(path') BY <1>1, <2>1, <2>3 DEF ReadsOneBlock
    <3>2. CASE readAt = {} BY <3>1, <3>2 DEF ReadsOneBlock
    <3>3. CASE readAt # {}
      <4>1. PICK b \in readAt :
              /\ readAt = {b} /\ "own" \notin Does(path)
              /\ "read" \in Does(path) => b = snapshot /\ "current" \notin Does(path)
        BY ONLY <1>1, <2>3, <3>3, requestPc = "run" DEF ReadsOneBlock
      <4>2. /\ b \in readAt' /\ readAt' = {b} /\ "own" \notin Does(path')
            /\ "read" \in Does(path') => b = snapshot' /\ "current" \notin Does(path')
        BY <1>0, <2>1, <4>1
      <4> QED BY <3>1, <4>2 DEF ReadsOneBlock
    <3> QED BY <3>2, <3>3
  <2> QED BY <2>2, <2>3
<1> QED BY <1>2, <1>3

\* An error is answered, and a handler other than lite.getTransaction goes on.
LEMMA RequestGoesOn ==
    ASSUME RequestInv, requestPc = "run", UNCHANGED request,
           newest' \in Nat, accountTxs' \in Nat, known' \in Nat, cursor' \in Nat, passed' \in Int,
           ReadsOneBlock', NumbersExact',
           \/ /\ requestPc' = "done" /\ path' = path
              /\ \E kind \in {"refused", "failed", "internal"} : replies' = <<kind>>
           \/ /\ requestPc' = "run" /\ replies' = << >> /\ path # << >>
              /\ path' \in {Tail(path), << >>} /\ request.method # getTransaction
    PROVE  RequestInv'
<1>1. /\ path \in Seq(HandlerSteps) /\ request.lt \in Nat /\ request.number \in Int /\ WalkStage
  BY DEF RequestInv
<1>2. CASE requestPc' = "done"
  <2>1. PICK kind \in {"refused", "failed", "internal"} : replies' = <<kind>> BY <1>2
  <2>2. replies' # <<"notFound">> /\ replies' # <<"result">> BY <2>1
  <2>3. WalkStage' BY <1>2 DEF WalkStage
  <2>4. NotFoundMeansAbsent' BY ONLY <2>2 DEF NotFoundMeansAbsent
  <2> QED BY <1>1, <1>2, <2>3, <2>4 DEF RequestInv
<1>3. CASE requestPc' = "run"
  <2>0. /\ replies' = << >> /\ path # << >> /\ path' \in {Tail(path), << >>}
        /\ request.method # getTransaction
    BY <1>3
  <2>1. path' \in Seq(HandlerSteps) /\ Does(path') \subseteq Does(path) BY <1>1, <2>0, Shrinks
  <2>2. WalkStage' BY <1>1, <1>3, <2>0, <2>1 DEF WalkStage
  <2>3. NotFoundMeansAbsent' BY <2>0 DEF NotFoundMeansAbsent
  <2> QED BY <1>1, <1>3, <2>0, <2>1, <2>2, <2>3 DEF RequestInv
<1> QED BY <1>2, <1>3

\* The same for a step of lite.getTransaction that succeeds.
LEMMA WalkGoesOn ==
    ASSUME RequestInv, requestPc = "run", path # << >>, UNCHANGED request,
           newest' \in Nat, accountTxs' \in Nat, known' \in Nat, cursor' \in Nat, passed' \in Int,
           ReadsOneBlock', NumbersExact',
           requestPc' = "run", replies' = << >>, path' = Tail(path),
           request.method = getTransaction,
           Head(path).do = "read" => cursor' = known',
           Head(path).do = "walk" => request.lt \in 1..known'
    PROVE  RequestInv'
<1>1. /\ path \in Seq(HandlerSteps) /\ request.lt \in Nat /\ request.number \in Int
      /\ path \in {<<Parse, Current, Read, Walk>>, <<Current, Read, Walk>>, <<Read, Walk>>,
                   <<Walk>>, << >>}
  BY DEF RequestInv, WalkStage
<1>2. path' \in Seq(HandlerSteps) BY <1>1, Shrinks
<1>3. \/ Head(path).do = "parse" /\ path' = <<Current, Read, Walk>>
      \/ Head(path).do = "current" /\ path' = <<Read, Walk>>
      \/ Head(path).do = "read" /\ path' = <<Walk>>
      \/ Head(path).do = "walk" /\ path' = << >>
  BY <1>1, WalkHeads
<1>4. /\ <<Current, Read, Walk>> # <<Walk>> /\ <<Current, Read, Walk>> # << >>
      /\ <<Read, Walk>> # <<Walk>> /\ <<Read, Walk>> # << >> /\ <<Walk>> # << >>
  OBVIOUS
<1>5. /\ path' = <<Walk>> => cursor' <= known' /\ request.lt \notin (cursor' + 1)..known'
      /\ path' = << >> => request.lt \in 1..known'
  <2>1. path' = <<Walk>> => Head(path).do = "read" BY <1>3, <1>4
  <2>2. path' = << >> => Head(path).do = "walk" BY <1>3, <1>4
  <2>3. cursor' = known' => cursor' <= known' /\ request.lt \notin (cursor' + 1)..known'
    BY <1>1
  <2> QED BY <2>1, <2>2, <2>3
<1>6. WalkStage' BY <1>3, <1>5 DEF WalkStage
<1>7. NotFoundMeansAbsent' BY DEF NotFoundMeansAbsent
<1> QED BY <1>1, <1>2, <1>6, <1>7 DEF RequestInv

\* handleRequest takes a path of the method's handler, or answers.
LEMMA DispatchKeeps == RequestInv /\ handleRequest => RequestInv'
<1> SUFFICES ASSUME RequestInv, handleRequest PROVE RequestInv' OBVIOUS
<1>1. /\ requestPc = "received" /\ replies = << >> /\ readAt = {}
      /\ path \in Seq(HandlerSteps) /\ request.lt \in Nat /\ request.number \in Int
      /\ passed \in Int /\ newest \in Nat /\ accountTxs \in Nat /\ known \in Nat /\ cursor \in Nat
      /\ NumbersExact
  BY DEF RequestInv, handleRequest
<1>2. request' = request /\ readAt' = {} /\ newest' = newest /\ accountTxs' = accountTxs
        /\ known' = known /\ cursor' = cursor /\ passed' = passed
  BY <1>1 DEF handleRequest
<1>3. NumbersExact' BY <1>1, <1>2 DEF NumbersExact
<1>4. CASE reply("unknown")
  <2>1. requestPc' = "done" /\ replies' = <<"unknown">> /\ path' = path
    BY <1>1, <1>4 DEF reply
  <2>2. ReadsOneBlock' BY <1>2, <2>1 DEF ReadsOneBlock
  <2>3. WalkStage' BY <2>1 DEF WalkStage
  <2>4. replies' # <<"notFound">> /\ replies' # <<"result">> BY <2>1
  <2>5. NotFoundMeansAbsent' BY <2>4 DEF NotFoundMeansAbsent
  <2> QED BY <1>1, <1>2, <1>3, <2>1, <2>2, <2>3, <2>5 DEF RequestInv
<1>5. CASE path' \in Handler(request.method) /\ requestPc' = "run" /\ UNCHANGED replies
  <2>1. /\ path' \in Seq(HandlerSteps)
        /\ request.method \notin Composed => Coherent(path')
        /\ request.method # getTransaction => "walk" \notin Does(path')
        /\ request.method = getTransaction => path' = <<Parse, Current, Read, Walk>>
    <3>1. CASE request.method \notin Composed /\ request.method # getTransaction
      BY <1>5, <3>1, HandlerPaths, PlainSound DEF Sound
    <3>2. CASE request.method = getTransaction
      <4> DEFINE p == <<Parse, Current, Read, Walk>>
      <4>1. path' = p BY <1>5, <3>2, HandlerPaths
      <4>2. p \in Seq(HandlerSteps) BY StepsTyped
      <4>3. Coherent(p) BY DEF Coherent, Parse, Current, Read, Walk, Step
      <4> QED BY <3>2, <4>1, <4>2, <4>3
    <3>3. CASE request.method \in Composed
      <4>1. request.method # getTransaction BY <3>3 DEF Composed, getTransaction
      <4>2. path' \in handleDNSResolve \cup handleNFTGetData
        BY <1>5, <3>3, HandlerPaths DEF Composed
      <4> QED BY <3>3, <4>1, <4>2, ComposedSteps
    <3> QED BY <3>1, <3>2, <3>3
  <2>2. ReadsOneBlock' BY <1>2, <2>1 DEF ReadsOneBlock
  <2>3. /\ <<Parse, Current, Read, Walk>> # <<Walk>> /\ <<Parse, Current, Read, Walk>> # << >>
    OBVIOUS
  <2>4. WalkStage' BY <1>2, <2>1, <2>3 DEF WalkStage
  <2>5. NotFoundMeansAbsent' BY <1>1, <1>5 DEF NotFoundMeansAbsent
  <2> QED BY <1>1, <1>2, <1>3, <1>5, <2>1, <2>2, <2>4, <2>5 DEF RequestInv
<1> QED BY <1>4, <1>5 DEF handleRequest

\* A parameter, or a number of lite.runMethod, is taken or refused.
LEMMA ParamsKeep == RequestInv /\ (parseParams \/ convertParams) => RequestInv'
<1> SUFFICES ASSUME RequestInv, parseParams \/ convertParams PROVE RequestInv' OBVIOUS
<1>1. /\ requestPc = "run" /\ path # << >> /\ Head(path).do \in {"parse", "gate", "convert"}
      /\ replies = << >> /\ path \in Seq(HandlerSteps)
  BY DEF parseParams, convertParams, At, RequestInv
<1>2. /\ request' = request /\ readAt' = readAt /\ snapshot' = snapshot /\ newest' \in Nat
      /\ accountTxs' \in Nat /\ known' \in Nat /\ cursor' \in Nat
  BY DEF parseParams, convertParams, RequestInv
<1>3. passed' \in Int /\ NumbersExact'
  <2>1. CASE parseParams
    <3>1. passed' = passed BY <2>1 DEF parseParams
    <3> QED BY <1>2, <3>1 DEF NumbersExact, RequestInv
  <2>2. CASE convertParams
    <3> DEFINE P == 2^FloatBits
               n == request.number
    <3>1. P \in Int /\ n \in Int BY ReadRequestsAssumption DEF RequestInv
    <3>2. CASE passed' = passed BY <1>2, <3>2 DEF NumbersExact, RequestInv
    <3>3. CASE passed' = Unmarshalled(n) /\ Abs(Unmarshalled(n)) <= P
      <4> HIDE DEF P, n
      <4>1. Unmarshalled(n) = IF Abs(n) <= P \/ Abs(n) % 2 = 0 THEN n
                              ELSE LET down == Abs(n) - 1
                                       near == IF down % 4 = 0 THEN down ELSE down + 2
                                   IN  IF n < 0 THEN -near ELSE near
        BY DEF Unmarshalled, P
      <4>2. Unmarshalled(n) \in Int BY <3>1, <4>1 DEF Abs
      <4>3. Unmarshalled(n) = n \/ Abs(n) = P + 1
        <5>1. CASE Abs(n) <= P \/ Abs(n) % 2 = 0 BY <4>1, <5>1
        <5>2. CASE ~(Abs(n) <= P \/ Abs(n) % 2 = 0)
          <6>1. Abs(n) \in Nat /\ Abs(n) >= P + 1 BY <3>1, <5>2 DEF Abs
          <6>2. \/ Unmarshalled(n) \in {Abs(n) - 1, Abs(n) + 1} /\ n >= 0
                \/ Unmarshalled(n) \in {-(Abs(n) - 1), -(Abs(n) + 1)} /\ n < 0
            BY <3>1, <4>1, <5>2, <6>1
          <6>3. Abs(Unmarshalled(n)) >= Abs(n) - 1 BY <3>1, <6>1, <6>2 DEF Abs
          <6> QED BY <3>1, <3>3, <4>2, <6>1, <6>3 DEF Abs
        <5> QED BY <5>1, <5>2
      <4> QED BY <1>2, <3>3, <4>2, <4>3 DEF NumbersExact, P, n
    <3> QED BY <2>2, <3>2, <3>3 DEF convertParams, convertRunMethodParam
  <2> QED BY <2>1, <2>2
<1>4. CASE advance
  <2>1. requestPc' = "run" /\ replies' = << >> /\ path' = Tail(path) BY <1>1, <1>4 DEF advance
  <2>2. ReadsOneBlock' BY <1>1, <1>2, <2>1, ReadsKept
  <2> QED BY <1>1, <1>2, <1>3, <2>1, <2>2, WalkGoesOn, RequestGoesOn
<1>5. CASE giveUp("refused")
  <2>1. \/ requestPc' = "done" /\ replies' = <<"refused">> /\ path' = path
        \/ /\ requestPc' = "run" /\ replies' = << >> /\ path' \in {Tail(path), << >>}
           /\ request.method # getTransaction
    BY <1>1, <1>5, GiveUpMoves
  <2>2. ReadsOneBlock' BY <1>1, <1>2, <2>1, ReadsKept
  <2> QED BY <1>1, <1>2, <1>3, <2>1, <2>2, RequestGoesOn
<1> QED BY <1>4, <1>5 DEF parseParams, convertParams

\* The current block is looked up.
LEMMA CurrentKeeps == RequestInv /\ CurrentMasterchainInfo => RequestInv'
<1> SUFFICES ASSUME RequestInv, CurrentMasterchainInfo PROVE RequestInv' OBVIOUS
<1>1. /\ requestPc = "run" /\ path # << >> /\ Head(path).do = "current"
      /\ replies = << >> /\ path \in Seq(HandlerSteps)
  BY DEF CurrentMasterchainInfo, At, RequestInv
<1>2. /\ request' = request /\ readAt' = readAt /\ newest' \in Nat /\ accountTxs' \in Nat
      /\ cursor' \in Nat /\ passed' \in Int /\ known' \in Nat
  BY DEF CurrentMasterchainInfo, RequestInv
<1>3. NumbersExact'
  <2>1. passed' = passed BY DEF CurrentMasterchainInfo
  <2> QED BY <1>2, <2>1 DEF NumbersExact, RequestInv
<1>4. CASE advance
  <2>1. requestPc' = "run" /\ replies' = << >> /\ path' = Tail(path) BY <1>1, <1>4 DEF advance
  <2>2. ReadsOneBlock'
    <3>1. CASE request.method \in Composed BY <1>2, <3>1 DEF ReadsOneBlock
    <3>2. CASE request.method \notin Composed
      <4>1. /\ Coherent(path') /\ Does(path') \subseteq Does(path) /\ "current" \in Does(path)
        BY <1>1, <2>1, <3>2, Shrinks DEF RequestInv, ReadsOneBlock
      <4>2. CASE readAt = {} BY <1>2, <4>1, <4>2 DEF ReadsOneBlock
      <4>3. CASE readAt # {}
        <5>1. PICK b \in readAt :
                /\ readAt = {b} /\ "own" \notin Does(path)
                /\ "read" \in Does(path) => b = snapshot /\ "current" \notin Does(path)
          BY <1>1, <3>2, <4>3 DEF RequestInv, ReadsOneBlock
        <5>2. /\ b \in readAt' /\ readAt' = {b} /\ "own" \notin Does(path')
              /\ "read" \notin Does(path')
          BY <1>2, <4>1, <5>1
        <5> QED BY <4>1, <5>2 DEF ReadsOneBlock
      <4> QED BY <4>2, <4>3
    <3> QED BY <3>1, <3>2
  <2> QED BY <1>1, <1>2, <1>3, <2>1, <2>2, WalkGoesOn, RequestGoesOn
<1>5. CASE giveUp("failed") /\ UNCHANGED <<snapshot, known>>
  <2>1. \/ requestPc' = "done" /\ replies' = <<"failed">> /\ path' = path
        \/ /\ requestPc' = "run" /\ replies' = << >> /\ path' \in {Tail(path), << >>}
           /\ request.method # getTransaction
    BY <1>1, <1>5, GiveUpMoves
  <2>2. ReadsOneBlock' BY <1>1, <1>2, <1>5, <2>1, ReadsKept
  <2> QED BY <1>1, <1>2, <1>3, <2>1, <2>2, RequestGoesOn
<1> QED BY <1>4, <1>5 DEF CurrentMasterchainInfo

\* State is read at the block that was looked up.
LEMMA ReadKeeps == RequestInv /\ readState => RequestInv'
<1> SUFFICES ASSUME RequestInv, readState PROVE RequestInv' OBVIOUS
<1>1. /\ requestPc = "run" /\ path # << >> /\ Head(path).do = "read"
      /\ replies = << >> /\ path \in Seq(HandlerSteps)
  BY DEF readState, At, RequestInv
<1>2. /\ request' = request /\ snapshot' = snapshot /\ newest' \in Nat /\ accountTxs' \in Nat
      /\ cursor' \in Nat /\ passed' \in Int /\ known' \in Nat /\ known' = known
  BY DEF readState, RequestInv
<1>3. NumbersExact'
  <2>1. passed' = passed BY DEF readState
  <2> QED BY <1>2, <2>1 DEF NumbersExact, RequestInv
<1>4. CASE readAt' = readAt \cup {snapshot} /\ cursor' = known /\ advance
  <2>1. requestPc' = "run" /\ replies' = << >> /\ path' = Tail(path) BY <1>1, <1>4 DEF advance
  <2>2. ReadsOneBlock'
    <3>1. CASE request.method \in Composed BY <1>2, <3>1 DEF ReadsOneBlock
    <3>2. CASE request.method \notin Composed
      <4>1. /\ Coherent(path) /\ Coherent(path') /\ Does(path') \subseteq Does(path)
            /\ "read" \in Does(path)
        BY <1>1, <2>1, <3>2, Shrinks DEF RequestInv, ReadsOneBlock
      <4>2. "current" \notin Does(path') /\ "own" \notin Does(path')
        BY <1>1, <2>1, <4>1, CoherentTail
      <4>3. readAt' = {snapshot'}
        BY <1>1, <1>2, <1>4, <3>2, <4>1 DEF RequestInv, ReadsOneBlock
      <4> QED BY <4>1, <4>2, <4>3 DEF ReadsOneBlock
    <3> QED BY <3>1, <3>2
  <2> QED BY <1>1, <1>2, <1>3, <1>4, <2>1, <2>2, WalkGoesOn, RequestGoesOn
<1>5. CASE giveUp("failed") /\ UNCHANGED <<readAt, asked, cursor>>
  <2>1. \/ requestPc' = "done" /\ replies' = <<"failed">> /\ path' = path
        \/ /\ requestPc' = "run" /\ replies' = << >> /\ path' \in {Tail(path), << >>}
           /\ request.method # getTransaction
    BY <1>1, <1>5, GiveUpMoves
  <2>2. ReadsOneBlock' BY <1>1, <1>2, <1>5, <2>1, ReadsKept
  <2> QED BY <1>1, <1>2, <1>3, <2>1, <2>2, RequestGoesOn
<1> QED BY <1>4, <1>5 DEF readState

\* The library reads at the block current at the time.
LEMMA OwnKeeps == RequestInv /\ ownRead => RequestInv'
<1> SUFFICES ASSUME RequestInv, ownRead PROVE RequestInv' OBVIOUS
<1>1. /\ requestPc = "run" /\ path # << >> /\ Head(path).do = "own"
      /\ replies = << >> /\ path \in Seq(HandlerSteps)
  BY DEF ownRead, At, RequestInv
<1>2. /\ request' = request /\ snapshot' = snapshot /\ newest' \in Nat /\ accountTxs' \in Nat
      /\ cursor' \in Nat /\ passed' \in Int /\ known' \in Nat
  BY DEF ownRead, RequestInv
<1>3. NumbersExact'
  <2>1. passed' = passed BY DEF ownRead
  <2> QED BY <1>2, <2>1 DEF NumbersExact, RequestInv
<1>4. CASE readAt' = readAt \cup {newest} /\ advance
  <2>0. request.method # getTransaction BY <1>1, WalkHeads DEF RequestInv, WalkStage
  <2>1. requestPc' = "run" /\ replies' = << >> /\ path' = Tail(path) BY <1>1, <1>4 DEF advance
  <2>2. ReadsOneBlock'
    <3>1. CASE request.method \in Composed BY <1>2, <3>1 DEF ReadsOneBlock
    <3>2. CASE request.method \notin Composed
      <4>1. /\ Coherent(path) /\ Coherent(path') /\ "own" \in Does(path)
        BY <1>1, <2>1, <3>2, Shrinks DEF RequestInv, ReadsOneBlock
      <4>2. "read" \notin Does(path') /\ "own" \notin Does(path')
        BY <1>1, <2>1, <4>1, CoherentTail
      <4>3. readAt' = {newest}
        BY <1>1, <1>4, <3>2, <4>1 DEF RequestInv, ReadsOneBlock
      <4> QED BY <4>1, <4>2, <4>3 DEF ReadsOneBlock
    <3> QED BY <3>1, <3>2
  <2> QED BY <1>1, <1>2, <1>3, <2>0, <2>1, <2>2, RequestGoesOn
<1>5. CASE giveUp("failed") /\ UNCHANGED readAt
  <2>1. \/ requestPc' = "done" /\ replies' = <<"failed">> /\ path' = path
        \/ /\ requestPc' = "run" /\ replies' = << >> /\ path' \in {Tail(path), << >>}
           /\ request.method # getTransaction
    BY <1>1, <1>5, GiveUpMoves
  <2>2. ReadsOneBlock' BY <1>1, <1>2, <1>5, <2>1, ReadsKept
  <2> QED BY <1>1, <1>2, <1>3, <2>1, <2>2, RequestGoesOn
<1> QED BY <1>4, <1>5 DEF ownRead

\* A question that is about no block, or about one the client names.
LEMMA AskKeeps == RequestInv /\ ask => RequestInv'
<1> SUFFICES ASSUME RequestInv, ask PROVE RequestInv' OBVIOUS
<1>1. /\ requestPc = "run" /\ path # << >> /\ Head(path).do \in {"ask", "check"}
      /\ replies = << >> /\ path \in Seq(HandlerSteps)
  BY DEF ask, At, RequestInv
<1>2. /\ request' = request /\ snapshot' = snapshot /\ readAt' = readAt /\ newest' \in Nat
      /\ accountTxs' \in Nat /\ cursor' \in Nat /\ passed' \in Int /\ known' \in Nat
  BY DEF ask, RequestInv
<1>3. NumbersExact'
  <2>1. passed' = passed BY DEF ask
  <2> QED BY <1>2, <2>1 DEF NumbersExact, RequestInv
<1>4. CASE advance
  <2>0. request.method # getTransaction BY <1>1, WalkHeads DEF RequestInv, WalkStage
  <2>1. requestPc' = "run" /\ replies' = << >> /\ path' = Tail(path) BY <1>1, <1>4 DEF advance
  <2>2. ReadsOneBlock' BY <1>1, <1>2, <2>1, ReadsKept
  <2> QED BY <1>1, <1>2, <1>3, <2>0, <2>1, <2>2, RequestGoesOn
<1>5. CASE giveUp("failed")
  <2>1. \/ requestPc' = "done" /\ replies' = <<"failed">> /\ path' = path
        \/ /\ requestPc' = "run" /\ replies' = << >> /\ path' \in {Tail(path), << >>}
           /\ request.method # getTransaction
    BY <1>1, <1>5, GiveUpMoves
  <2>2. ReadsOneBlock' BY <1>1, <1>2, <2>1, ReadsKept
  <2> QED BY <1>1, <1>2, <1>3, <2>1, <2>2, RequestGoesOn
<1> QED BY <1>4, <1>5 DEF ask

\* The walk: a page without the transaction moves the cursor past it; at the
\* start of the history nothing is left to look at.
LEMMA WalkKeeps == RequestInv /\ walkHistory => RequestInv'
<1> SUFFICES ASSUME RequestInv, walkHistory PROVE RequestInv' OBVIOUS
<1>1. /\ requestPc = "run" /\ path # << >> /\ Head(path).do = "walk"
      /\ replies = << >> /\ path \in Seq(HandlerSteps) /\ cursor \in Nat /\ known \in Nat
      /\ request.lt \in Nat /\ request.number \in Int
  BY DEF walkHistory, At, RequestInv
<1>2. /\ request' = request /\ snapshot' = snapshot /\ readAt' = readAt /\ newest' \in Nat
      /\ accountTxs' \in Nat /\ passed' \in Int /\ known' = known /\ known' \in Nat
  BY DEF walkHistory, RequestInv
<1>3. NumbersExact'
  <2>1. passed' = passed BY DEF walkHistory
  <2> QED BY <1>2, <2>1 DEF NumbersExact, RequestInv
<1>4. request.method = getTransaction
  <2>1. "walk" \in Does(path)
    <3>1. 1 \in DOMAIN path /\ path[1] = Head(path) BY <1>1
    <3> QED BY <1>1, <3>1 DEF Does
  <2> QED BY <1>1, <2>1 DEF RequestInv, WalkStage
<1>5. /\ path = <<Walk>> /\ cursor <= known /\ request.lt \notin (cursor + 1)..known
  <2>1. path = <<Walk>> BY <1>1, <1>4, WalkHeads DEF RequestInv, WalkStage
  <2> QED BY <1>1, <1>4, <2>1 DEF RequestInv, WalkStage
<1>6. CASE cursor = 0
  <2>1. /\ requestPc' = "done" /\ replies' = <<"notFound">> /\ path' = path /\ cursor' = cursor
    BY <1>1, <1>6 DEF walkHistory, reply
  <2>2. ReadsOneBlock' BY <1>1, <1>2, <2>1, ReadsKept
  <2>3. WalkStage' BY <2>1 DEF WalkStage
  <2>4. request.lt \notin 1..known BY <1>1, <1>5, <1>6
  <2>5. NotFoundMeansAbsent' BY <1>2, <2>1, <2>4 DEF NotFoundMeansAbsent
  <2> QED BY <1>1, <1>2, <1>3, <2>1, <2>2, <2>3, <2>5 DEF RequestInv
<1>7. CASE cursor # 0
  <2>1. \/ \E n \in 1..TxPage :
             /\ n <= cursor
             /\ IF request.lt \in (cursor - n + 1)..cursor
                  THEN advance /\ UNCHANGED cursor
                  ELSE cursor' = PrevTxLT(n) /\ UNCHANGED <<requestPc, path, replies>>
        \/ giveUp("failed") /\ UNCHANGED cursor
    BY <1>7 DEF walkHistory
  <2>2. CASE giveUp("failed") /\ UNCHANGED cursor
    <3>1. \/ requestPc' = "done" /\ replies' = <<"failed">> /\ path' = path
          \/ /\ requestPc' = "run" /\ replies' = << >> /\ path' \in {Tail(path), << >>}
             /\ request.method # getTransaction
      BY <1>1, <2>2, GiveUpMoves
    <3>2. ReadsOneBlock' BY <1>1, <1>2, <3>1, ReadsKept
    <3>3. cursor' \in Nat BY <1>1, <2>2
    <3> QED BY <1>1, <1>2, <1>3, <3>1, <3>2, <3>3, RequestGoesOn
  <2>3. ASSUME NEW n \in 1..TxPage, n <= cursor, request.lt \in (cursor - n + 1)..cursor,
               advance, UNCHANGED cursor
        PROVE  RequestInv'
    <3>0. TxPage \in Nat BY ReadRequestsAssumption
    <3>1. requestPc' = "run" /\ replies' = << >> /\ path' = Tail(path) /\ cursor' \in Nat
      BY <1>1, <2>3 DEF advance
    <3>2. ReadsOneBlock' BY <1>1, <1>2, <3>1, ReadsKept
    <3>3. request.lt \in 1..known' BY <1>1, <1>2, <1>5, <2>3, <3>0
    <3> QED BY <1>1, <1>2, <1>3, <1>4, <3>1, <3>2, <3>3, WalkGoesOn
  <2>4. ASSUME NEW n \in 1..TxPage, n <= cursor, request.lt \notin (cursor - n + 1)..cursor,
               cursor' = PrevTxLT(n), UNCHANGED <<requestPc, path, replies>>
        PROVE  RequestInv'
    <3>0. TxPage \in Nat BY ReadRequestsAssumption
    <3>1. requestPc' = "run" /\ replies' = << >> /\ path' = path BY <1>1, <2>4
    <3>2. /\ cursor' \in Nat /\ cursor' <= known
          /\ request.lt \notin (cursor' + 1)..known
      BY <1>1, <1>5, <2>4, <3>0 DEF PrevTxLT
    <3>3. ReadsOneBlock'
      <4>1. ReadsOneBlock /\ requestPc' = requestPc BY <1>1, <3>1 DEF RequestInv
      <4>2. request' = request /\ snapshot' = snapshot /\ readAt' = readAt BY <1>2
      <4>3. path' = path BY <3>1
      <4> QED BY ONLY <4>1, <4>2, <4>3 DEF ReadsOneBlock
    <3>4. <<Walk>> # << >> OBVIOUS
    <3>5. WalkStage' BY <1>2, <1>4, <1>5, <3>1, <3>2, <3>4 DEF WalkStage
    <3>6. NotFoundMeansAbsent' BY <3>1 DEF NotFoundMeansAbsent
    <3> QED BY <1>1, <1>2, <1>3, <3>1, <3>2, <3>3, <3>5, <3>6 DEF RequestInv
  <2> QED BY <2>1, <2>2, <2>3, <2>4
<1> QED BY <1>6, <1>7

\* The answer of a handler that has come to its end.
LEMMA ResultKeeps == RequestInv /\ sendResult => RequestInv'
<1> SUFFICES ASSUME RequestInv, sendResult PROVE RequestInv' OBVIOUS
<1>1. /\ requestPc = "run" /\ path = << >> /\ path' = path /\ replies' = <<"result">>
      /\ requestPc' = "done"
  BY DEF sendResult, reply, RequestInv
<1>2. /\ request' = request /\ snapshot' = snapshot /\ readAt' = readAt /\ known' = known
      /\ newest' \in Nat /\ accountTxs' \in Nat /\ cursor' \in Nat /\ passed' = passed
  BY DEF sendResult, RequestInv
<1>3. ReadsOneBlock' BY <1>1, <1>2, ReadsKept
<1>4. WalkStage' BY <1>1 DEF WalkStage
<1>5. request.method = getTransaction => request.lt \in 1..known
  BY <1>1 DEF RequestInv, WalkStage
<1>6. NotFoundMeansAbsent' BY <1>1, <1>2, <1>5 DEF NotFoundMeansAbsent, getTransaction
<1>7. NumbersExact' BY <1>2 DEF NumbersExact, RequestInv
<1> QED BY <1>1, <1>2, <1>3, <1>4, <1>6, <1>7 DEF RequestInv

\* A panic is answered wherever it happens.
LEMMA PanicKeeps == RequestInv /\ panic => RequestInv'
<1> SUFFICES ASSUME RequestInv, panic PROVE RequestInv' OBVIOUS
<1>1. requestPc = "run" /\ path' = path /\ replies' = <<"internal">> /\ requestPc' = "done"
  BY DEF panic, reply, RequestInv
<1>2. /\ request' = request /\ snapshot' = snapshot /\ readAt' = readAt /\ known' \in Nat
      /\ newest' \in Nat /\ accountTxs' \in Nat /\ cursor' \in Nat /\ passed' = passed
      /\ passed' \in Int
  BY DEF panic, RequestInv
<1>3. ReadsOneBlock' BY <1>1, <1>2, ReadsKept
<1>4. NumbersExact' BY <1>2 DEF NumbersExact, RequestInv
<1> QED BY <1>1, <1>2, <1>3, <1>4, RequestGoesOn

\* A new block changes nothing the handler has read.
LEMMA ChainKeeps == RequestInv /\ (advanceChain \/ UNCHANGED requestVars) => RequestInv'
<1> SUFFICES ASSUME RequestInv, advanceChain \/ UNCHANGED requestVars PROVE RequestInv' OBVIOUS
<1>1. /\ request' = request /\ snapshot' = snapshot /\ readAt' = readAt /\ known' = known
      /\ requestPc' = requestPc /\ path' = path /\ cursor' = cursor /\ passed' = passed
      /\ replies' = replies
  BY DEF advanceChain, requestVars
<1>2. newest' \in Nat BY DEF advanceChain, requestVars, RequestInv
<1>3. accountTxs' \in Nat BY DEF advanceChain, requestVars, RequestInv
<1>4. ReadsOneBlock' /\ WalkStage' /\ NotFoundMeansAbsent' /\ NumbersExact'
  BY <1>1 DEF RequestInv, ReadsOneBlock, WalkStage, NotFoundMeansAbsent, NumbersExact
<1> QED BY <1>1, <1>2, <1>3, <1>4 DEF RequestInv

\* Every step of a request keeps its invariant.
LEMMA NextRequest == RequestInv /\ [RequestNext]_requestVars => RequestInv'
BY DispatchKeeps, ParamsKeep, CurrentKeeps, ReadKeeps, OwnKeeps, AskKeeps, WalkKeeps, ResultKeeps,
   PanicKeeps, ChainKeeps DEF RequestNext, RequestStep

\* A handler that has read at one block at most describes one block.
LEMMA RequestImplies == RequestInv => OneSnapshot
<1> SUFFICES ASSUME RequestInv, request.method \notin Composed PROVE Cardinality(readAt) <= 1
  BY DEF OneSnapshot
<1>1. readAt = {} \/ \E b \in readAt : readAt = {b} BY DEF RequestInv, ReadsOneBlock
<1>2. CASE readAt = {} BY <1>2, FS_EmptySet
<1>3. ASSUME NEW b \in readAt, readAt = {b} PROVE Cardinality(readAt) <= 1
  <2>1. Cardinality({b}) = 1 BY FS_Singleton
  <2> QED BY <1>3, <2>1
<1> QED BY <1>1, <1>2, <1>3

-----------------------------------------------------------------------------
(* The block streams *)

\* A function on 1..n is a sequence of length n.
LEMMA FunctionIsSeq ==
    ASSUME NEW n \in Nat, NEW S, NEW f \in [1..n -> S]
    PROVE  f \in Seq(S) /\ Len(f) = n
OBVIOUS

\* The blocks an answer of GetBlockShardsInfo names: the shard tops, each once.
LEMMA ShardBlocksExact ==
    ASSUME BlockTypeOK, NEW n \in 1..tip, NEW blocks \in ShardBlocks(n)
    PROVE  /\ blocks \in Seq(BlockIds) /\ Distinct(blocks)
           /\ Values(blocks) = {<<s, tops[n][s]>> : s \in Shards}
<1> DEFINE T == {<<s, tops[n][s]>> : s \in Shards}
<1> DEFINE N == Cardinality(Shards)
<1>1. IsFiniteSet(Shards) BY BlockStreamsAssumption
<1>2. N \in Nat BY <1>1, FS_CardinalityType
<1>3. blocks \in [1..N -> T] /\ \A i, j \in DOMAIN blocks : i # j => blocks[i] # blocks[j]
  BY DEF ShardBlocks
<1>4. tops[n] \in [Shards -> 1..MaxTop] BY DEF BlockTypeOK
<1>5. T \subseteq BlockIds BY <1>4 DEF BlockIds
<1>6. IsFiniteSet(T) /\ Cardinality(T) = N
  <2> DEFINE f == [s \in Shards |-> <<s, tops[n][s]>>]
  <2>1. f \in Bijection(Shards, T) BY DEF Bijection, Injection, Surjection, IsInjective
  <2>2. ExistsBijection(Shards, T) BY <2>1 DEF ExistsBijection
  <2> HIDE DEF T
  <2> QED BY <1>1, <2>2, FS_Bijection
<1> HIDE DEF T, N
<1>7. blocks \in Injection(1..N, T) BY <1>3 DEF Injection, IsInjective
<1>8. Cardinality(1..N) = N BY <1>2, FS_Interval
<1>9. blocks \in Surjection(1..N, T) BY <1>6, <1>7, <1>8, FS_Injection
<1>10. DOMAIN blocks = 1..N BY <1>3
<1>11. Values(blocks) = T BY <1>3, <1>9, <1>10 DEF Values, Surjection
<1>12. blocks \in [1..N -> BlockIds] BY <1>3, <1>5
<1>13. blocks \in Seq(BlockIds) BY <1>2, <1>12, FunctionIsSeq
<1> QED BY <1>3, <1>11, <1>13 DEF Distinct, T

\* A new masterchain block leaves the earlier ones as they are.
LEMMA ChainGrows ==
    ASSUME BlockTypeOK, produceBlock
    PROVE  /\ tip' = tip + 1 /\ tip' \in 1..MaxSeqno /\ tops' \in [1..tip' -> [Shards -> 1..MaxTop]]
           /\ \A k \in 1..tip : tops'[k] = tops[k]
<1>1. /\ tip \in 1..MaxSeqno /\ tops \in [1..tip -> [Shards -> 1..MaxTop]] /\ MaxSeqno \in Nat
      /\ MaxTop \in Nat /\ ShardSteps \subseteq Nat
  BY BlockStreamsAssumption DEF BlockTypeOK
<1>2. tip' = tip + 1 /\ tip' \in 1..MaxSeqno BY <1>1 DEF produceBlock
<1>3. PICK step \in [Shards -> ShardSteps] :
         /\ \A s \in Shards : tops[tip][s] + step[s] <= MaxTop
         /\ tops' = Append(tops, [s \in Shards |-> tops[tip][s] + step[s]])
  BY DEF produceBlock
<1> DEFINE g == [s \in Shards |-> tops[tip][s] + step[s]]
<1>4. g \in [Shards -> 1..MaxTop]
  <2>1. tops[tip] \in [Shards -> 1..MaxTop] BY <1>1
  <2> SUFFICES ASSUME NEW s \in Shards PROVE tops[tip][s] + step[s] \in 1..MaxTop OBVIOUS
  <2>2. tops[tip][s] \in 1..MaxTop /\ step[s] \in Nat BY <1>1, <2>1
  <2> QED BY <1>1, <1>3, <2>2
<1> HIDE DEF g
<1>5. tops \in Seq([Shards -> 1..MaxTop]) /\ Len(tops) = tip BY <1>1, FunctionIsSeq
<1>6. tops' = Append(tops, g) BY <1>3 DEF g
<1>7. /\ tops' \in Seq([Shards -> 1..MaxTop]) /\ Len(tops') = tip + 1
      /\ \A k \in 1..Len(tops) : tops'[k] = tops[k]
  <2> DEFINE S == [Shards -> 1..MaxTop]
  <2>1. tops \in Seq(S) /\ g \in S BY <1>4, <1>5
  <2> HIDE DEF S
  <2>2. /\ Append(tops, g) \in Seq(S) /\ Len(Append(tops, g)) = Len(tops) + 1
        /\ \A k \in 1..Len(tops) : Append(tops, g)[k] = tops[k]
    BY <2>1
  <2> QED BY <1>5, <1>6, <2>2 DEF S
<1>8. tops' \in [1..tip' -> [Shards -> 1..MaxTop]]
  <2> DEFINE S == [Shards -> 1..MaxTop]
  <2>1. tops' \in Seq(S) BY <1>7
  <2> HIDE DEF S
  <2>2. tops' \in [1..Len(tops') -> S] BY <2>1
  <2> QED BY <1>2, <1>7, <2>2 DEF S
<1> QED BY <1>2, <1>5, <1>7, <1>8

\* The blocks read for a masterchain block.
LEMMA ReadForTyped ==
    ASSUME BlockTypeOK, NEW n \in 1..tip
    PROVE  ReadFor(n) \subseteq BlockIds
<1>1. /\ tip \in 1..MaxSeqno /\ tops \in [1..tip -> [Shards -> 1..MaxTop]] /\ MaxTop \in Nat
      /\ MaxSeqno \in 1..MaxTop
  BY BlockStreamsAssumption DEF BlockTypeOK
<1>2. n \in 1..MaxTop /\ tops[n] \in [Shards -> 1..MaxTop] BY <1>1
<1> QED BY <1>2 DEF ReadFor, BlockIds

\* The events of transactions a + 1 to m of block b.
PageEvents(b, a, m) == [i \in 1..(m - a) |-> Event(b, a + i)]
OnPage(b, a, m) == {Event(b, j) : j \in (a + 1)..m}

\* Sequence new is col followed by these events.
Extended(col, new, b, a, m) ==
    /\ Len(new) = Len(col) + (m - a) /\ \A i \in 1..Len(col) : new[i] = col[i]
    /\ \A i \in 1..(m - a) : new[Len(col) + i] = Event(b, a + i)

\* Two sequences, one after the other.
LEMMA Concatenated ==
    ASSUME NEW S, NEW s \in Seq(S), NEW t \in Seq(S)
    PROVE  /\ s \o t \in Seq(S) /\ Len(s \o t) = Len(s) + Len(t)
           /\ Len(s) \in Nat /\ Len(t) \in Nat /\ DOMAIN s = 1..Len(s) /\ DOMAIN t = 1..Len(t)
           /\ \A i \in 1..Len(s) : (s \o t)[i] = s[i]
           /\ \A i \in 1..Len(t) : (s \o t)[Len(s) + i] = t[i]
OBVIOUS

\* A page is a sequence of events.
LEMMA PageTyped ==
    ASSUME NEW b \in (Shards \cup {Master}) \X Nat, NEW a \in Nat, NEW m \in Nat, a <= m
    PROVE  /\ PageEvents(b, a, m) \in Seq(Events) /\ Len(PageEvents(b, a, m)) = m - a
           /\ \A i \in 1..(m - a) : PageEvents(b, a, m)[i] = Event(b, a + i)
<1>1. m - a \in Nat OBVIOUS
<1>2. PageEvents(b, a, m) \in [1..(m - a) -> Events]
  <2> SUFFICES ASSUME NEW i \in 1..(m - a) PROVE Event(b, a + i) \in Events BY DEF PageEvents
  <2>1. a + i \in Nat OBVIOUS
  <2> QED BY <2>1 DEF Event, Events
<1>3. PageEvents(b, a, m) \in Seq(Events) /\ Len(PageEvents(b, a, m)) = m - a
  BY <1>1, <1>2, FunctionIsSeq
<1> QED BY <1>3 DEF PageEvents

\* The first element of a sequence and the rest of it.
LEMMA HeadTail ==
    ASSUME NEW S, NEW s \in Seq(S), s # << >>
    PROVE  /\ Len(s) \in Nat \ {0} /\ DOMAIN s = 1..Len(s) /\ Head(s) = s[1] /\ Head(s) \in S
           /\ Tail(s) \in Seq(S) /\ DOMAIN Tail(s) = 1..(Len(s) - 1) /\ Len(Tail(s)) = Len(s) - 1
           /\ \A i \in 1..(Len(s) - 1) : Tail(s)[i] = s[i + 1] /\ i + 1 \in 1..Len(s)
OBVIOUS

\* What is written follows what has been written.
LEMMA Appended ==
    ASSUME NEW S, NEW s \in Seq(S), NEW e \in S
    PROVE  /\ Append(s, e) \in Seq(S) /\ Len(s) \in Nat /\ DOMAIN s = 1..Len(s)
           /\ Len(Append(s, e)) = Len(s) + 1 /\ DOMAIN Append(s, e) = 1..(Len(s) + 1)
           /\ Append(s, e)[Len(s) + 1] = e
           /\ \A i \in 1..Len(s) : Append(s, e)[i] = s[i]
OBVIOUS

\* A page of a block, as collectBlockTransactions appends it.
LEMMA PageCollected ==
    ASSUME BlockTypeOK, todo # << >>, NEW m \in Nat, after <= m, collectedPage(m)
    PROVE  /\ collected' \in Seq(Events) /\ events' = events
           /\ Extended(collected, collected', Head(todo), after, m)
<1>1. collected \in Seq(Events) /\ after \in Nat BY DEF BlockTypeOK, Events
<1>2. Head(todo) \in (Shards \cup {Master}) \X Nat BY DEF BlockTypeOK
<1> DEFINE page == PageEvents(Head(todo), after, m)
<1>3. collected' = collected \o page /\ events' = events
  BY DEF collectedPage, Event, PageEvents
<1>4. /\ page \in Seq(Events) /\ Len(page) = m - after
      /\ \A i \in 1..(m - after) : page[i] = Event(Head(todo), after + i)
  BY <1>1, <1>2, PageTyped
<1> HIDE DEF page
<1>5. /\ collected \o page \in Seq(Events) /\ Len(collected \o page) = Len(collected) + Len(page)
      /\ \A i \in 1..Len(collected) : (collected \o page)[i] = collected[i]
      /\ \A i \in 1..Len(page) : (collected \o page)[Len(collected) + i] = page[i]
  <2>1. collected \in Seq(Events) /\ page \in Seq(Events) BY <1>1, <1>4
  <2> QED BY ONLY <2>1, Concatenated
<1>6. \A i \in 1..(m - after) : collected'[Len(collected) + i] = Event(Head(todo), after + i)
  BY ONLY <1>3, <1>4, <1>5
<1> QED BY ONLY <1>3, <1>4, <1>5, <1>6 DEF Extended

\* The cases of one answer: no progress, a part of the block, the end of the
\* block, the end of the last block.
LEMMA PageCases ==
    ASSUME BlockTypeOK, blockPc = "collect", todo # << >>, Head(todo) \in BlockIds,
           NEW m \in Pages, collectPage(m)
    PROVE  /\ m \in Nat /\ after <= m /\ m <= TxCount[Head(todo)[2]]
           /\ TxCount[Head(todo)[2]] \in Nat
           /\ \/ retry /\ events' = events
              \/ /\ collectedPage(m) /\ m < TxCount[Head(todo)[2]]
                 /\ after' = m /\ todo' = todo /\ blockPc' = "collect"
              \/ /\ collectedPage(m) /\ m = TxCount[Head(todo)[2]]
                 /\ after' = 0 /\ todo' = Tail(todo) /\ Tail(todo) # << >> /\ blockPc' = "collect"
              \/ /\ collectedPage(m) /\ m = TxCount[Head(todo)[2]]
                 /\ after' = 0 /\ todo' = << >> /\ Tail(todo) = << >> /\ blockPc' = "send"
<1>1. /\ after \in Nat /\ PageSize \in Nat BY BlockStreamsAssumption DEF BlockTypeOK
<1>2. TxCount[Head(todo)[2]] \in Nat
  <2>1. Head(todo)[2] \in 1..MaxTop BY DEF BlockIds
  <2> QED BY <2>1, BlockStreamsAssumption
<1>3. m \in Nat /\ after <= m /\ m <= TxCount[Head(todo)[2]] BY <1>1, <1>2 DEF Pages
<1>4. CASE m < TxCount[Head(todo)[2]] BY <1>2, <1>3, <1>4 DEF collectPage
<1>5. CASE m = TxCount[Head(todo)[2]]
  <2>1. ~(m < TxCount[Head(todo)[2]]) BY <1>2, <1>5
  <2> QED BY <1>2, <1>3, <1>5, <2>1 DEF collectPage
<1> QED BY <1>2, <1>3, <1>4, <1>5

\* The stream before it is started.
LEMMA InitBlockStage == BlockInit => BlockTypeOK /\ BlockStage
<1> SUFFICES ASSUME BlockInit PROVE BlockTypeOK /\ BlockStage OBVIOUS
<1>1. 1 \in 1..MaxSeqno /\ MaxTop \in Nat /\ 1 \in 1..MaxTop BY BlockStreamsAssumption
<1>2. tip = 1 /\ tops \in [1..tip -> [Shards -> 1..MaxTop]]
  <2>1. [s \in Shards |-> 1] \in [Shards -> 1..MaxTop] BY <1>1
  <2> QED BY <2>1 DEF BlockInit
<1>3. /\ stream \in {"blocks", "newTransactions"} /\ blockPc = "start" /\ startSeqno = 0
      /\ lastSeqno = 0 /\ block = 0 /\ todo = << >> /\ after = 0 /\ collected = << >>
      /\ events = << >> /\ blockCancel \in BOOLEAN
  BY DEF BlockInit
<1> QED BY <1>1, <1>2, <1>3 DEF BlockTypeOK, BlockStages, BlockStage

\* The type invariant and the stages of the stream are kept by every step.
LEMMA NextBlockStage ==
    BlockTypeOK /\ BlockStage /\ [BlockNext]_blockVars => BlockTypeOK' /\ BlockStage'
<1> SUFFICES ASSUME BlockTypeOK, BlockStage, [BlockNext]_blockVars
             PROVE  BlockTypeOK' /\ BlockStage'
  OBVIOUS
<1> USE DEF BlockStages
<1>0. tip \in Nat /\ lastSeqno \in Nat /\ startSeqno \in Nat BY BlockStreamsAssumption DEF BlockTypeOK
<1>1. CASE UNCHANGED blockVars BY <1>1 DEF blockVars, BlockTypeOK, BlockStage
<1>2. CASE produceBlock
  <2>1. /\ tip' = tip + 1 /\ tip' \in 1..MaxSeqno
        /\ tops' \in [1..tip' -> [Shards -> 1..MaxTop]]
    BY <1>2, ChainGrows
  <2>2. UNCHANGED <<stream, blockPc, startSeqno, lastSeqno, block, todo, after, collected, events,
                    blockCancel>>
    BY <1>2 DEF produceBlock
  <2>3. startSeqno \in 0..tip' /\ lastSeqno \in 0..tip' /\ block \in 0..tip'
    BY <1>0, <2>1 DEF BlockTypeOK
  <2>4. BlockTypeOK' BY <2>1, <2>2, <2>3 DEF BlockTypeOK
  <2>5. BlockStage' BY <2>2 DEF BlockStage
  <2> QED BY <2>4, <2>5
<1>3. CASE subscribe BY <1>0, <1>3 DEF subscribe, chainVars, BlockTypeOK, BlockStage
<1>4. CASE nextMasterchainBlock
  BY <1>0, <1>4 DEF nextMasterchainBlock, chainVars, BlockTypeOK, BlockStage
<1>5. CASE sendBlockEvent
  <2>0. /\ collected \in Seq(Events) /\ events \in Seq(Events) /\ collected # << >>
        /\ events' = Append(events, Head(collected)) /\ collected' = Tail(collected)
    BY <1>5 DEF sendBlockEvent, BlockTypeOK, Events
  <2>1. Head(collected) \in Events /\ Tail(collected) \in Seq(Events) BY <2>0, HeadTail
  <2>2. events' \in Seq(Events) /\ collected' \in Seq(Events) BY <2>0, <2>1, Appended
  <2> QED BY <1>0, <1>5, <2>2 DEF sendBlockEvent, chainVars, BlockTypeOK, BlockStage, Events
<1>6. CASE blockDone BY <1>0, <1>6 DEF blockDone, chainVars, BlockTypeOK, BlockStage
<1>7. CASE blockStreamEnds BY <1>0, <1>7 DEF blockStreamEnds, chainVars, BlockTypeOK, BlockStage
<1>8. CASE blockShards
  <2>1. collected' \in Seq(Events)
    <3>1. [block |-> <<Master, block>>, tx |-> 0] \in Events BY <1>0 DEF Events, BlockTypeOK
    <3> QED BY <1>8, <3>1 DEF blockShards
  <2> QED BY <1>0, <1>8, <2>1 DEF blockShards, chainVars, BlockTypeOK, BlockStage, Events
<1>9. CASE transactionShards
  <2>1. block \in 1..tip BY <1>0, <1>9 DEF transactionShards, BlockTypeOK, BlockStage
  <2>2. PICK shards \in ShardBlocks(block) : todo' = <<<<Master, block>>>> \o shards
    BY <1>9 DEF transactionShards
  <2>3. shards \in Seq(BlockIds) BY <2>1, ShardBlocksExact
  <2>4. <<Master, block>> \in BlockIds
    BY <2>1, BlockStreamsAssumption DEF BlockIds, BlockTypeOK
  <2>5. todo' \in Seq(BlockIds) /\ todo' # << >> BY <2>2, <2>3, <2>4
  <2>6. BlockIds \subseteq (Shards \cup {Master}) \X Nat BY DEF BlockIds
  <2>7. todo' \in Seq((Shards \cup {Master}) \X Nat)
    <3> DEFINE S == (Shards \cup {Master}) \X Nat
    <3>1. BlockIds \subseteq S BY <2>6
    <3> HIDE DEF S
    <3>2. todo' \in Seq(S) BY <2>5, <3>1
    <3> QED BY <3>2 DEF S
  <2>8. Values(todo') \subseteq BlockIds BY <2>5 DEF Values
  <2> QED BY <1>0, <1>9, <2>5, <2>7, <2>8 DEF transactionShards, chainVars, BlockTypeOK, BlockStage
<1>10. ASSUME blockPc = "collect", NEW m \in Pages, collectPage(m)
       PROVE  BlockTypeOK' /\ BlockStage'
  <2>1. todo # << >> /\ Values(todo) \subseteq BlockIds /\ stream = "newTransactions"
    BY <1>10 DEF BlockStage
  <2>2. todo \in Seq((Shards \cup {Master}) \X Nat) BY DEF BlockTypeOK
  <2>3. /\ Head(todo) \in BlockIds /\ Values(Tail(todo)) \subseteq BlockIds
        /\ Tail(todo) \in Seq((Shards \cup {Master}) \X Nat)
    BY <2>1, <2>2, HeadTail DEF Values
  <2>4. UNCHANGED <<tip, tops, stream, startSeqno, lastSeqno, block, blockCancel>>
    BY <1>10 DEF collectPage, chainVars
  <2>5. CASE retry /\ events' = events
    BY <1>0, <1>10, <2>1, <2>4, <2>5 DEF retry, BlockTypeOK, BlockStage
  <2>6. ASSUME collectedPage(m) PROVE collected' \in Seq(Events) /\ events' = events
    BY <1>10, <2>1, <2>3, <2>6, PageCollected, PageCases
  <2>7. CASE /\ collectedPage(m) /\ m < TxCount[Head(todo)[2]]
             /\ after' = m /\ todo' = todo /\ blockPc' = "collect"
    <3>1. m \in Nat BY <1>10, <2>1, <2>3, PageCases
    <3>2. collected' \in Seq(Events) /\ events' = events BY <2>6, <2>7
    <3> QED BY <1>0, <1>10, <2>1, <2>2, <2>4, <2>7, <3>1, <3>2 DEF BlockTypeOK, BlockStage, Events
  <2>8. CASE /\ collectedPage(m) /\ m = TxCount[Head(todo)[2]]
             /\ after' = 0 /\ todo' = Tail(todo) /\ Tail(todo) # << >> /\ blockPc' = "collect"
    <3>2. collected' \in Seq(Events) /\ events' = events BY <2>6, <2>8
    <3> QED BY <1>0, <1>10, <2>1, <2>3, <2>4, <2>8, <3>2 DEF BlockTypeOK, BlockStage, Events
  <2>9. CASE /\ collectedPage(m) /\ m = TxCount[Head(todo)[2]]
             /\ after' = 0 /\ todo' = << >> /\ Tail(todo) = << >> /\ blockPc' = "send"
    <3>2. collected' \in Seq(Events) /\ events' = events BY <2>6, <2>9
    <3> QED BY <1>0, <1>10, <2>1, <2>4, <2>9, <3>2 DEF BlockTypeOK, BlockStage, Events
  <2> QED BY <1>10, <2>1, <2>3, <2>5, <2>7, <2>8, <2>9, PageCases
<1>11. CASE lookupFails
  <2>1. /\ blockPc' = "next" /\ todo' = << >> /\ after' = 0 /\ collected' = << >>
        /\ UNCHANGED <<tip, tops, stream, startSeqno, lastSeqno, block, events, blockCancel>>
    BY <1>11 DEF lookupFails, retry, chainVars
  <2>2. BlockTypeOK' BY <2>1 DEF BlockTypeOK
  <2>3. BlockStage' BY <2>1 DEF BlockStage
  <2> QED BY <2>2, <2>3
<1>12. CASE sendBlockEventFails
  BY <1>0, <1>12 DEF sendBlockEventFails, chainVars, BlockTypeOK, BlockStage
<1>13. CASE cancelBlockStream
  BY <1>0, <1>13 DEF cancelBlockStream, chainVars, BlockTypeOK, BlockStage
<1> QED BY <1>1, <1>2, <1>3, <1>4, <1>5, <1>6, <1>7, <1>8, <1>9, <1>10, <1>11, <1>12, <1>13
        DEF BlockNext, BlockStep, BlockAnswer

\* subscribe.blocks: every step keeps the events in order.
LEMMA NextBlocksInOrder ==
    BlockTypeOK /\ BlockStage /\ BlocksInOrder /\ [BlockNext]_blockVars => BlocksInOrder'
<1> SUFFICES ASSUME BlockTypeOK, BlockStage, BlocksInOrder, [BlockNext]_blockVars,
                    stream' = "blocks"
             PROVE  BlocksInOrder'
  BY DEF BlocksInOrder
<1>0. /\ tip \in Nat /\ lastSeqno \in Nat /\ startSeqno \in Nat /\ block \in Nat
      /\ events \in Seq(Events) /\ Len(events) \in Nat /\ DOMAIN events = 1..Len(events)
  BY BlockStreamsAssumption DEF BlockTypeOK, Events
<1>a. stream = "blocks"
  BY DEF BlockNext, BlockStep, BlockAnswer, blockVars, produceBlock, subscribe,
         nextMasterchainBlock, sendBlockEvent, blockDone, blockStreamEnds, blockShards,
         transactionShards, collectPage, lookupFails, sendBlockEventFails, cancelBlockStream
<1>b. blockPc # "collect" BY <1>a DEF BlockStage
<1> USE <1>0, <1>a DEF BlocksInOrder
<1>1. CASE UNCHANGED blockVars BY <1>1 DEF blockVars
<1>2. CASE produceBlock BY <1>2 DEF produceBlock
<1>3. CASE subscribe
  <2>1. events' = << >> /\ startSeqno' = lastSeqno' /\ blockPc' = "next"
    BY <1>3 DEF subscribe, BlockStage
  <2>2. startSeqno' \in Nat BY <1>3 DEF subscribe
  <2> QED BY <2>1, <2>2
<1>4. CASE nextMasterchainBlock BY <1>4 DEF nextMasterchainBlock
<1>5. CASE sendBlockEvent
  <2>1. /\ collected # << >> /\ blockPc = "send" /\ blockPc' = "send"
        /\ events' = Append(events, Head(collected)) /\ collected' = Tail(collected)
        /\ startSeqno' = startSeqno /\ lastSeqno' = lastSeqno /\ block' = block
    BY <1>5 DEF sendBlockEvent
  <2>2. collected = <<Event(<<Master, block>>, 0)>> /\ startSeqno + Len(events) = lastSeqno
    BY <2>1
  <2>3. Head(collected) = Event(<<Master, block>>, 0) /\ Tail(collected) = << >> BY <2>2
  <2>4. block = startSeqno + (Len(events) + 1) BY <2>1, <2>2 DEF BlockStage
  <2>5. Head(collected) \in Events BY <2>3 DEF Event, Events
  <2>6. /\ Len(events') = Len(events) + 1 /\ DOMAIN events' = 1..(Len(events) + 1)
        /\ events'[Len(events) + 1] = Head(collected)
        /\ \A i \in 1..Len(events) : events'[i] = events[i]
    BY <2>1, <2>5, Appended
  <2>7. ASSUME NEW i \in 1..(Len(events) + 1)
        PROVE  events'[i].block = <<Master, startSeqno + i>>
    <3>1. CASE i = Len(events) + 1 BY <2>3, <2>4, <2>6, <3>1 DEF Event
    <3>2. CASE i # Len(events) + 1
      <4>1. i \in 1..Len(events) BY <3>2
      <4> QED BY <2>6, <4>1
    <3> QED BY <3>1, <3>2
  <2>8. startSeqno' + Len(events') = lastSeqno' + 1 BY <2>1, <2>2, <2>6
  <2>9. \A i \in DOMAIN events' : events'[i].block = <<Master, startSeqno' + i>>
    BY <2>1, <2>6, <2>7
  <2>10. collected' = << >> /\ blockPc' = "send" BY <2>1, <2>3
  <2> QED BY ONLY <2>8, <2>9, <2>10 DEF BlocksInOrder
<1>6. CASE blockDone BY <1>6 DEF blockDone, BlockStage
<1>7. CASE blockStreamEnds BY <1>7 DEF blockStreamEnds
<1>8. CASE blockShards BY <1>8 DEF blockShards, Event
<1>9. CASE transactionShards BY <1>9 DEF transactionShards
<1>10. CASE lookupFails
  <2>1. /\ blockPc = "shards" /\ blockPc' = "next" /\ startSeqno' = startSeqno
        /\ lastSeqno' = lastSeqno /\ events' = events
    BY <1>b, <1>10 DEF lookupFails, retry
  <2> QED BY <2>1
<1>11. CASE sendBlockEventFails BY <1>11 DEF sendBlockEventFails
<1>12. CASE cancelBlockStream BY <1>12 DEF cancelBlockStream
<1> QED BY <1>b, <1>1, <1>2, <1>3, <1>4, <1>5, <1>6, <1>7, <1>8, <1>9, <1>10, <1>11, <1>12
        DEF BlockNext, BlockStep, BlockAnswer

\* How often x occurs in a sequence.
Times(s, x) == Cardinality({j \in DOMAIN s : s[j] = x})

\* A written event is one more occurrence.
LEMMA Counted ==
    ASSUME NEW s \in Seq(Events), NEW e \in Events, NEW x
    PROVE  Times(Append(s, e), x) = IF x = e THEN Times(s, x) + 1 ELSE Times(s, x)
<1> USE DEF Times
<1> DEFINE n == Len(s)
           P == {j \in DOMAIN s : s[j] = x}
           Q == {j \in DOMAIN Append(s, e) : Append(s, e)[j] = x}
<1>1. /\ n \in Nat /\ DOMAIN s = 1..n /\ DOMAIN Append(s, e) = 1..(n + 1)
      /\ Append(s, e)[n + 1] = e /\ \A i \in 1..n : Append(s, e)[i] = s[i]
  BY Appended
<1>2. IsFiniteSet(1..n)
  <2>1. 1 \in Int /\ n \in Int BY <1>1
  <2> QED BY ONLY <2>1, FS_Interval
<1>3. P \subseteq 1..n BY <1>1
<1>4. IsFiniteSet(P) /\ n + 1 \notin P
  <2>1. n + 1 \notin P BY <1>1
  <2> HIDE DEF P
  <2> QED BY <1>2, <1>3, <2>1, FS_Subset
<1>5. Cardinality(P) \in Nat
  <2> HIDE DEF P
  <2> QED BY <1>4, FS_CardinalityType
<1>6. \A i : i \in 1..(n + 1) <=> i \in 1..n \/ i = n + 1 BY <1>1
<1>7. CASE x = e
  <2>1. Q = P \cup {n + 1} BY <1>1, <1>6, <1>7
  <2>2. Cardinality(P \cup {n + 1}) = Cardinality(P) + 1
    <3> HIDE DEF P
    <3> QED BY <1>4, FS_AddElement
  <2> QED BY <1>4, <1>5, <1>7, <2>1, <2>2
<1>8. CASE x # e
  <2>1. Q = P BY <1>1, <1>6, <1>8
  <2> QED BY <1>4, <1>5, <1>8, <2>1
<1> QED BY <1>7, <1>8

\* What has been read for an earlier block does not change.
LEMMA ReadForKept ==
    ASSUME NEW k, tops'[k] = tops[k]
    PROVE  ReadFor(k)' = ReadFor(k)
BY DEF ReadFor

\* A step that writes nothing and finishes no block.
LEMMA CountsKept ==
    ASSUME events' = events, startSeqno' = startSeqno, lastSeqno' = lastSeqno,
           startSeqno \in Nat, lastSeqno \in Nat, lastSeqno <= tip, tip \in Nat,
           \A k \in 1..tip : tops'[k] = tops[k]
    PROVE  \A b, i : Occurrences(b, i)' = Occurrences(b, i) /\ Dealt(b)' = Dealt(b)
<1> TAKE b, i
<1>1. Occurrences(b, i)' = Occurrences(b, i) BY DEF Occurrences
<1>2. \A k \in (startSeqno + 1)..lastSeqno : ReadFor(k)' = ReadFor(k)
  <2> TAKE k \in (startSeqno + 1)..lastSeqno
  <2>1. k \in 1..tip OBVIOUS
  <2> QED BY <2>1, ReadForKept
<1>3. {k \in (startSeqno' + 1)..lastSeqno' : b \in ReadFor(k)'}
        = {k \in (startSeqno + 1)..lastSeqno : b \in ReadFor(k)}
  BY <1>2
<1>4. Dealt(b)' = Dealt(b) BY <1>3 DEF Dealt
<1> QED BY <1>1, <1>4

\* What taking the first element of a sequence does to its values.
LEMMA TailValues ==
    ASSUME NEW S, NEW s \in Seq(S), s # << >>
    PROVE  /\ Values(s) = {Head(s)} \cup Values(Tail(s))
           /\ Distinct(s) => Head(s) \notin Values(Tail(s)) /\ Distinct(Tail(s))
<1>1. /\ Len(s) \in Nat \ {0} /\ DOMAIN s = 1..Len(s) /\ Head(s) = s[1]
      /\ DOMAIN Tail(s) = 1..(Len(s) - 1)
      /\ \A i \in 1..(Len(s) - 1) : Tail(s)[i] = s[i + 1] /\ i + 1 \in 1..Len(s)
  BY HeadTail
<1>2. \A i \in 1..Len(s) : i = 1 \/ (i - 1 \in 1..(Len(s) - 1) /\ (i - 1) + 1 = i) BY <1>1
<1>3. 1 \in 1..Len(s) BY <1>1
<1>4. Values(Tail(s)) \subseteq Values(s) /\ Head(s) \in Values(s) BY <1>1, <1>3 DEF Values
<1>5. ASSUME NEW x \in Values(s) PROVE x = Head(s) \/ x \in Values(Tail(s))
  <2>1. PICK i \in 1..Len(s) : x = s[i] BY <1>1 DEF Values
  <2>2. CASE i = 1 BY <1>1, <2>1, <2>2
  <2>3. CASE i - 1 \in 1..(Len(s) - 1) /\ (i - 1) + 1 = i
    <3>1. Tail(s)[i - 1] = x BY <1>1, <2>1, <2>3
    <3> QED BY <1>1, <2>3, <3>1 DEF Values
  <2> QED BY <1>2, <2>2, <2>3
<1>6. ASSUME Distinct(s) PROVE Head(s) \notin Values(Tail(s)) /\ Distinct(Tail(s))
  <2>1. \A i \in 1..(Len(s) - 1) : i + 1 # 1 BY <1>1
  <2>2. \A i, j \in 1..(Len(s) - 1) : i # j => i + 1 # j + 1 BY <1>1
  <2> QED BY <1>1, <1>3, <1>6, <2>1, <2>2 DEF Distinct, Values
<1> QED BY <1>4, <1>5, <1>6

\* A page adds its events to what has been collected, and nothing twice.
LEMMA PageValues ==
    ASSUME NEW col \in Seq(Events), NEW new \in Seq(Events), NEW b, NEW a \in Nat, NEW m \in Nat,
           a <= m, Extended(col, new, b, a, m)
    PROVE  /\ Values(new) = Values(col) \cup OnPage(b, a, m)
           /\ Distinct(col) /\ OnPage(b, a, m) \cap Values(col) = {} => Distinct(new)
<1> USE DEF OnPage, Extended
<1>1. /\ Len(col) \in Nat /\ DOMAIN col = 1..Len(col) /\ DOMAIN new = 1..Len(new)
      /\ Len(new) \in Nat
  OBVIOUS
<1>2. ASSUME NEW i \in 1..Len(new), i \notin 1..Len(col)
      PROVE  /\ i - Len(col) \in 1..(m - a) /\ a + (i - Len(col)) \in (a + 1)..m
             /\ new[i] = Event(b, a + (i - Len(col)))
  <2>1. i - Len(col) \in 1..(m - a) /\ a + (i - Len(col)) \in (a + 1)..m BY <1>1, <1>2
  <2>2. Len(col) + (i - Len(col)) = i BY <1>1
  <2> QED BY <2>1, <2>2
<1>3. Values(new) \subseteq Values(col) \cup {Event(b, j) : j \in (a + 1)..m}
  <2> SUFFICES ASSUME NEW i \in 1..Len(new)
               PROVE  new[i] \in Values(col) \cup {Event(b, j) : j \in (a + 1)..m}
    BY <1>1 DEF Values
  <2>1. CASE i \in 1..Len(col) BY <1>1, <2>1 DEF Values
  <2>2. CASE i \notin 1..Len(col) BY <1>2, <2>2
  <2> QED BY <2>1, <2>2
<1>4. Values(col) \subseteq Values(new)
  <2>1. \A i \in 1..Len(col) : i \in 1..Len(new) BY <1>1
  <2> QED BY <1>1, <2>1 DEF Values
<1>5. {Event(b, j) : j \in (a + 1)..m} \subseteq Values(new)
  <2> SUFFICES ASSUME NEW j \in (a + 1)..m PROVE Event(b, j) \in Values(new) OBVIOUS
  <2>1. /\ j - a \in 1..(m - a) /\ Len(col) + (j - a) \in 1..Len(new) /\ a + (j - a) = j
    BY <1>1
  <2>2. new[Len(col) + (j - a)] = Event(b, j) BY <2>1
  <2> QED BY <1>1, <2>1, <2>2 DEF Values
<1>6. ASSUME Distinct(col), OnPage(b, a, m) \cap Values(col) = {}
      PROVE  Distinct(new)
  <2> SUFFICES ASSUME NEW i \in 1..Len(new), NEW k \in 1..Len(new), i # k, new[i] = new[k]
               PROVE  FALSE
    BY <1>1 DEF Distinct
  <2>1. CASE i \in 1..Len(col) /\ k \in 1..Len(col) BY <1>1, <1>6, <2>1 DEF Distinct
  <2>2. CASE i \in 1..Len(col) /\ k \notin 1..Len(col) BY <1>1, <1>2, <1>6, <2>2 DEF Values
  <2>3. CASE i \notin 1..Len(col) /\ k \in 1..Len(col) BY <1>1, <1>2, <1>6, <2>3 DEF Values
  <2>4. CASE i \notin 1..Len(col) /\ k \notin 1..Len(col)
    <3>1. Event(b, a + (i - Len(col))) = Event(b, a + (k - Len(col))) BY <1>2, <2>4
    <3>2. a + (i - Len(col)) = a + (k - Len(col)) BY <3>1 DEF Event
    <3> QED BY <1>1, <3>2
  <2> QED BY <2>1, <2>2, <2>3, <2>4
<1> QED BY <1>3, <1>4, <1>5, <1>6

\* A step after which nothing is waiting to be written and no block has been
\* finished.
LEMMA CountsCarried ==
    ASSUME TransactionsCounted, stream = "newTransactions", blockPc \notin {"send", "ended"},
           blockPc' \in {"next", "shards"},
           \A b \in BlockIds : \A i \in 1..TxCount[b[2]] :
             Occurrences(b, i)' = Occurrences(b, i) /\ Dealt(b)' = Dealt(b)
    PROVE  TransactionsCounted'
<1>1. \A b \in BlockIds : \A i \in 1..TxCount[b[2]] : Occurrences(b, i) = Dealt(b)
  BY DEF TransactionsCounted, Reported
<1>2. \A b \in BlockIds : \A i \in 1..TxCount[b[2]] : Occurrences(b, i)' = Dealt(b)' BY <1>1
<1>3. \A b \in BlockIds : \A i \in 1..TxCount[b[2]] : Reported(b, i)' BY <1>2 DEF Reported
<1> QED BY <1>3 DEF TransactionsCounted

\* A step that only the chain or the context takes part in.
LEMMA CountsRest ==
    ASSUME TransactionsCounted, BlockTypeOK, BlockStage,
           \A k \in 1..tip : tops'[k] = tops[k],
           UNCHANGED <<stream, blockPc, startSeqno, lastSeqno, block, todo, after, collected, events>>
    PROVE  TransactionsCounted'
<1>0. /\ tip \in Nat /\ lastSeqno \in Nat /\ startSeqno \in Nat /\ block \in Nat
      /\ lastSeqno <= tip /\ block <= tip
  BY BlockStreamsAssumption DEF BlockTypeOK
<1>1. \A b, i : Occurrences(b, i)' = Occurrences(b, i) /\ Dealt(b)' = Dealt(b)
  BY <1>0, CountsKept
<1>2. /\ stream' = stream /\ blockPc' = blockPc /\ lastSeqno' = lastSeqno /\ block' = block
      /\ todo' = todo /\ after' = after /\ collected' = collected
  OBVIOUS
<1>3. (blockPc \in {"collect", "send"} \/ block > lastSeqno) => ReadFor(block)' = ReadFor(block)
  <2> SUFFICES ASSUME blockPc \in {"collect", "send"} \/ block > lastSeqno
               PROVE  ReadFor(block)' = ReadFor(block)
    OBVIOUS
  <2>1. block \in 1..tip BY <1>0 DEF BlockStage
  <2> QED BY <1>2, <2>1 DEF ReadFor
<1>4. \A b, i : Reported(b, i) => Reported(b, i)' BY <1>1, <1>2, <1>3 DEF Reported
<1>5. \A b, i : blockPc = "collect" /\ Collected(b, i) => Collected(b, i)'
  BY <1>2, <1>3 DEF Collected
<1> QED BY <1>2, <1>3, <1>4, <1>5 DEF TransactionsCounted

\* The list of blocks to read: the masterchain block and the shard tops.
LEMMA ShardsCounted ==
    ASSUME TransactionsCounted, BlockTypeOK, BlockStage, transactionShards
    PROVE  TransactionsCounted'
<1>0. /\ tip \in Nat /\ lastSeqno \in Nat /\ startSeqno \in Nat /\ lastSeqno <= tip
      /\ block \in 1..tip /\ after = 0 /\ collected = << >> /\ Master \notin Shards
  BY BlockStreamsAssumption DEF BlockTypeOK, BlockStage, transactionShards
<1>1. /\ blockPc = "shards" /\ stream = "newTransactions" /\ blockPc' = "collect"
      /\ tip' = tip /\ tops' = tops /\ stream' = stream /\ startSeqno' = startSeqno
      /\ lastSeqno' = lastSeqno /\ block' = block /\ after' = 0 /\ collected' = << >>
      /\ events' = events
  BY <1>0 DEF transactionShards, chainVars
<1>2. PICK shards \in ShardBlocks(block) : todo' = <<<<Master, block>>>> \o shards
  BY DEF transactionShards
<1>3. /\ shards \in Seq(BlockIds) /\ Distinct(shards)
      /\ Values(shards) = {<<s, tops[block][s]>> : s \in Shards}
  BY <1>0, ShardBlocksExact
<1> DEFINE head == <<Master, block>>
<1>4. head \in BlockIds BY <1>0, BlockStreamsAssumption DEF BlockIds, BlockTypeOK
<1>5. head \notin Values(shards) BY <1>0, <1>3
<1>6. ReadFor(block) = {head} \cup Values(shards) BY <1>3 DEF ReadFor
<1> HIDE DEF head
<1>7. /\ todo' \in Seq(BlockIds) /\ todo' # << >> /\ Head(todo') = head /\ Tail(todo') = shards
  BY <1>2, <1>3, <1>4 DEF head
<1>8. Values(todo') = ReadFor(block) BY <1>6, <1>7, TailValues
<1>9. Distinct(todo')
  <2>1. /\ Len(todo') \in Nat \ {0} /\ DOMAIN todo' = 1..Len(todo') /\ head = todo'[1]
        /\ DOMAIN shards = 1..(Len(todo') - 1)
        /\ \A i \in 1..(Len(todo') - 1) : shards[i] = todo'[i + 1] /\ i + 1 \in 1..Len(todo')
    BY <1>7, HeadTail
  <2> SUFFICES ASSUME NEW i \in 1..Len(todo'), NEW j \in 1..Len(todo'), i < j
               PROVE  todo'[i] # todo'[j]
    BY <2>1 DEF Distinct
  <2>2. j - 1 \in 1..(Len(todo') - 1) /\ (j - 1) + 1 = j BY <2>1
  <2>3. todo'[j] = shards[j - 1] BY <2>1, <2>2
  <2>4. CASE i = 1 BY <1>5, <2>1, <2>2, <2>3, <2>4 DEF Values
  <2>5. CASE i # 1
    <3>1. i - 1 \in 1..(Len(todo') - 1) /\ (i - 1) + 1 = i /\ i - 1 # j - 1 BY <2>1, <2>5
    <3>2. todo'[i] = shards[i - 1] BY <2>1, <3>1
    <3> QED BY <1>3, <2>1, <2>2, <2>3, <3>1, <3>2 DEF Distinct
  <2> QED BY <2>4, <2>5
<1>10. ReadFor(block)' = ReadFor(block) BY <1>1 DEF ReadFor
<1>11. \A b, i : Occurrences(b, i)' = Occurrences(b, i) /\ Dealt(b)' = Dealt(b)
  BY <1>0, <1>1, CountsKept
<1>12. ASSUME NEW b \in BlockIds, NEW i \in 1..TxCount[b[2]]
       PROVE  Reported(b, i)' /\ Collected(b, i)'
  <2>1. Occurrences(b, i) = Dealt(b) BY <1>1 DEF TransactionsCounted, Reported
  <2>2. Reported(b, i)' BY <1>1, <1>11, <2>1 DEF Reported
  <2>3. TxCount[b[2]] \in Nat
    <3>1. b[2] \in 1..MaxTop BY DEF BlockIds
    <3> QED BY <3>1, BlockStreamsAssumption
  <2>4. ~(i <= 0) BY <2>3
  <2>5. Values(<< >>) = {} BY DEF Values
  <2>6. Collected(b, i)' BY <1>1, <1>8, <1>10, <2>4, <2>5 DEF Collected
  <2> QED BY <2>2, <2>6
<1>13. TxCount[Head(todo')[2]] \in Nat
  <2>1. Head(todo')[2] \in 1..MaxTop BY <1>4, <1>7 DEF BlockIds
  <2> QED BY <2>1, BlockStreamsAssumption
<1>14. after' <= TxCount[Head(todo')[2]] BY <1>1, <1>13
<1>15. Distinct(collected') /\ \A e \in Values(collected') : e.block \in ReadFor(block)'
  BY <1>1 DEF Distinct, Values
<1> QED BY <1>1, <1>8, <1>9, <1>10, <1>12, <1>14, <1>15 DEF TransactionsCounted

\* One answer: what it holds is new, and it completes its block or leaves the
\* cursor behind what it holds.
LEMMA PageCounted ==
    ASSUME TransactionsCounted, BlockTypeOK, BlockStage, blockPc = "collect",
           NEW m \in Pages, collectPage(m)
    PROVE  TransactionsCounted'
<1>0. /\ tip \in Nat /\ lastSeqno \in Nat /\ startSeqno \in Nat /\ lastSeqno <= tip
      /\ after \in Nat /\ collected \in Seq(Events)
      /\ todo \in Seq((Shards \cup {Master}) \X Nat)
      /\ todo # << >> /\ Values(todo) \subseteq BlockIds /\ stream = "newTransactions"
  BY BlockStreamsAssumption DEF BlockTypeOK, BlockStage, Events
<1>1. /\ tip' = tip /\ tops' = tops /\ stream' = stream /\ startSeqno' = startSeqno
      /\ lastSeqno' = lastSeqno /\ block' = block
  BY DEF collectPage, chainVars
<1>2. /\ Distinct(todo) /\ Values(todo) \subseteq ReadFor(block) /\ Distinct(collected)
      /\ \A e \in Values(collected) : e.block \in ReadFor(block)
      /\ \A b \in BlockIds : \A i \in 1..TxCount[b[2]] :
           Occurrences(b, i) = Dealt(b) /\ Collected(b, i)
  BY <1>0 DEF TransactionsCounted, Reported
<1> DEFINE h == Head(todo)
           rest == Tail(todo)
<1>3. /\ Values(todo) = {h} \cup Values(rest) /\ h \notin Values(rest) /\ Distinct(rest)
      /\ rest \in Seq((Shards \cup {Master}) \X Nat)
  BY <1>0, <1>2, TailValues, HeadTail
<1>4. h \in BlockIds /\ h \in ReadFor(block) BY <1>0, <1>2, <1>3
<1>5. /\ m \in Nat /\ after <= m /\ m <= TxCount[h[2]] /\ TxCount[h[2]] \in Nat
      /\ \/ retry /\ events' = events
         \/ /\ collectedPage(m) /\ m < TxCount[h[2]]
            /\ after' = m /\ todo' = todo /\ blockPc' = "collect"
         \/ /\ collectedPage(m) /\ m = TxCount[h[2]]
            /\ after' = 0 /\ todo' = rest /\ rest # << >> /\ blockPc' = "collect"
         \/ /\ collectedPage(m) /\ m = TxCount[h[2]]
            /\ after' = 0 /\ todo' = << >> /\ rest = << >> /\ blockPc' = "send"
  BY <1>0, <1>4, PageCases
<1>6. ReadFor(block)' = ReadFor(block) BY <1>1 DEF ReadFor
<1>7. events' = events BY <1>5 DEF collectedPage
<1>8. \A b, i : Occurrences(b, i)' = Occurrences(b, i) /\ Dealt(b)' = Dealt(b)
  BY <1>0, <1>1, <1>7, CountsKept
<1>9. CASE retry
  <2>1. blockPc' = "next" BY <1>9 DEF retry
  <2> QED BY <1>0, <1>8, <2>1, CountsCarried
<1>10. CASE collectedPage(m)
  <2>1. collected' \in Seq(Events) /\ Extended(collected, collected', h, after, m)
    BY <1>0, <1>5, <1>10, PageCollected
  <2>2. ASSUME NEW j \in (after + 1)..m PROVE Event(h, j) \notin Values(collected)
    <3>1. j \in 1..TxCount[h[2]] /\ ~(j <= after) BY <1>0, <1>5
    <3>2. Collected(h, j) BY <1>2, <1>4, <3>1
    <3> QED BY <1>3, <3>1, <3>2 DEF Collected
  <2> HIDE DEF h, rest
  <2>3. /\ Values(collected') = Values(collected) \cup OnPage(h, after, m)
        /\ Distinct(collected')
    <3>1. OnPage(h, after, m) \cap Values(collected) = {} BY <2>2 DEF OnPage
    <3>2. collected \in Seq(Events) /\ after \in Nat /\ m \in Nat /\ after <= m BY <1>0, <1>5
    <3>3. Distinct(collected) BY <1>2
    <3>4. \A new \in Seq(Events) : Extended(collected, new, h, after, m) =>
            Values(new) = Values(collected) \cup OnPage(h, after, m) /\ Distinct(new)
      BY ONLY <3>1, <3>2, <3>3, PageValues
    <3> QED BY ONLY <2>1, <3>4
  <2>4. \A e \in Values(collected') : e.block \in ReadFor(block)
    BY <1>2, <1>4, <2>3 DEF Event, OnPage
  <2>5. ASSUME NEW b \in BlockIds, NEW i \in 1..TxCount[b[2]]
        PROVE  /\ i \in Nat /\ i >= 1 /\ b = h => i <= TxCount[h[2]]
               /\ Event(b, i) \in Values(collected') <=>
                    \/ b \in ReadFor(block) /\ (b \in Values(todo) => b = h /\ i <= after)
                    \/ b = h /\ after < i /\ i <= m
    <3>0. TxCount[b[2]] \in Nat
      <4>1. b[2] \in 1..MaxTop BY DEF BlockIds
      <4> QED BY <4>1, BlockStreamsAssumption
    <3>1. i \in Nat /\ i >= 1 /\ i <= TxCount[b[2]] BY <3>0
    <3>2. Event(b, i) \in OnPage(h, after, m) <=> b = h /\ after < i /\ i <= m
      <4>1. \A j \in (after + 1)..m : Event(b, i) = Event(h, j) => b = h /\ i = j BY DEF Event
      <4>2. i \in (after + 1)..m <=> after < i /\ i <= m BY <1>0, <1>5, <3>1
      <4> QED BY <4>1, <4>2 DEF OnPage
    <3>3. Event(b, i) \in Values(collected) <=>
            b \in ReadFor(block) /\ (b \in Values(todo) => b = h /\ i <= after)
      BY <1>2 DEF Collected, h
    <3>4. b = h => i <= TxCount[h[2]] BY <3>1
    <3> QED BY <2>3, <3>1, <3>2, <3>3, <3>4
  <2>6. CASE /\ m < TxCount[h[2]] /\ after' = m /\ todo' = todo /\ blockPc' = "collect"
    <3>1. ASSUME NEW b \in BlockIds, NEW i \in 1..TxCount[b[2]]
          PROVE  Reported(b, i)' /\ Collected(b, i)'
      <4>1. Event(b, i) \in Values(collected') <=>
              b \in ReadFor(block) /\ (b \in Values(todo) => b = h /\ i <= m)
        <5>1. i \in Nat BY <2>5
        <5>2. i <= after => i <= m BY <1>0, <1>5, <5>1
        <5>3. i <= after \/ after < i BY <1>0, <5>1
        <5> QED BY <1>3, <1>4, <2>5, <5>2, <5>3
      <4>2. Collected(b, i)' BY <1>6, <2>6, <4>1 DEF Collected, h
      <4>3. Occurrences(b, i)' = Dealt(b)' BY <1>2, <1>8
      <4>4. Reported(b, i)' BY <2>6, <4>3 DEF Reported
      <4> QED BY <4>2, <4>4
    <3>2. after' <= TxCount[Head(todo')[2]] BY <1>5, <2>6 DEF h
    <3> QED BY <1>2, <1>6, <2>3, <2>4, <2>6, <3>1, <3>2 DEF TransactionsCounted
  <2>7. ASSUME NEW b \in BlockIds, NEW i \in 1..TxCount[b[2]], m = TxCount[h[2]]
        PROVE  Event(b, i) \in Values(collected') <=> b \in ReadFor(block) /\ b \notin Values(rest)
    <3>1. i \in Nat /\ (b = h => i <= m) BY <2>5, <2>7
    <3>2. i <= after \/ after < i BY <1>0, <3>1
    <3> QED BY <1>3, <1>4, <2>5, <3>1, <3>2
  <2>8. CASE /\ m = TxCount[h[2]] /\ after' = 0 /\ todo' = rest /\ rest # << >>
             /\ blockPc' = "collect"
    <3>1. ASSUME NEW b \in BlockIds, NEW i \in 1..TxCount[b[2]]
          PROVE  Reported(b, i)' /\ Collected(b, i)'
      <4>1. ~(i <= 0) BY <2>5
      <4>2. Collected(b, i)' BY <1>6, <2>7, <2>8, <4>1 DEF Collected
      <4>3. Occurrences(b, i)' = Dealt(b)' BY <1>2, <1>8
      <4>4. Reported(b, i)' BY <2>8, <4>3 DEF Reported
      <4> QED BY <4>2, <4>4
    <3>2. after' <= TxCount[Head(todo')[2]]
      <4>1. Head(rest) \in Values(rest) BY <1>3, <2>8, TailValues
      <4>2. Head(rest) \in BlockIds BY <1>0, <1>3, <4>1
      <4>3. Head(rest)[2] \in 1..MaxTop BY <4>2 DEF BlockIds
      <4>4. TxCount[Head(rest)[2]] \in Nat BY <4>3, BlockStreamsAssumption
      <4> QED BY <2>8, <4>4
    <3>3. Values(todo') \subseteq ReadFor(block) BY <1>2, <1>3, <2>8
    <3> QED BY <1>3, <1>6, <2>3, <2>4, <2>8, <3>1, <3>2, <3>3 DEF TransactionsCounted
  <2>9. CASE /\ m = TxCount[h[2]] /\ after' = 0 /\ todo' = << >> /\ rest = << >>
             /\ blockPc' = "send"
    <3>1. ASSUME NEW b \in BlockIds, NEW i \in 1..TxCount[b[2]]
          PROVE  Reported(b, i)'
      <4>1. Values(rest) = {} BY <2>9 DEF Values
      <4>2. Event(b, i) \in Values(collected') \/ b \notin ReadFor(block)' BY <1>6, <2>7, <2>9, <4>1
      <4>3. Occurrences(b, i)' = Dealt(b)' BY <1>2, <1>8
      <4> QED BY <2>9, <4>2, <4>3 DEF Reported
    <3> QED BY <1>6, <2>3, <2>4, <2>9, <3>1 DEF TransactionsCounted
  <2> QED BY <1>5, <2>6, <2>8, <2>9, <1>9
<1> QED BY <1>5, <1>9, <1>10

\* A transaction is written: it leaves what is waiting to be written.
LEMMA SendCounted ==
    ASSUME TransactionsCounted, BlockTypeOK, BlockStage, stream = "newTransactions", sendBlockEvent
    PROVE  TransactionsCounted'
<1>0. /\ collected \in Seq(Events) /\ events \in Seq(Events) /\ collected # << >>
      /\ blockPc = "send" /\ blockPc' = "send" /\ tops' = tops /\ block' = block
      /\ startSeqno' = startSeqno /\ lastSeqno' = lastSeqno
      /\ events' = Append(events, Head(collected)) /\ collected' = Tail(collected)
  BY DEF sendBlockEvent, chainVars, BlockTypeOK, Events
<1> DEFINE e == Head(collected)
<1>1. e \in Events BY <1>0, HeadTail
<1>2. /\ Distinct(collected) /\ \A x \in Values(collected) : x.block \in ReadFor(block)
      /\ \A b \in BlockIds : \A i \in 1..TxCount[b[2]] : Reported(b, i)
  BY <1>0 DEF TransactionsCounted
<1>3. /\ Values(collected) = {e} \cup Values(collected') /\ e \notin Values(collected')
      /\ Distinct(collected')
  BY <1>0, <1>2, TailValues
<1>4. ReadFor(block)' = ReadFor(block) BY <1>0 DEF ReadFor
<1>5. \A b : Dealt(b)' = Dealt(b) BY <1>0 DEF Dealt, ReadFor
<1> HIDE DEF e
<1>6. ASSUME NEW b \in BlockIds, NEW i \in 1..TxCount[b[2]]
      PROVE  Reported(b, i)'
  <2>0. Occurrences(b, i) = Times(events, Event(b, i)) BY DEF Occurrences, Event, Times
  <2>1. Occurrences(b, i)' = Times(events', Event(b, i)) BY DEF Occurrences, Event, Times
  <2>2. events' = Append(events, e) BY <1>0 DEF e
  <2>3. Occurrences(b, i)' = IF Event(b, i) = e THEN Occurrences(b, i) + 1 ELSE Occurrences(b, i)
    BY <1>0, <1>1, <2>0, <2>1, <2>2, Counted
  <2>4. Reported(b, i) BY <1>2
  <2>5. CASE Event(b, i) = e
    <3>1. b \in ReadFor(block)
      <4>1. e \in Values(collected) BY <1>3
      <4> QED BY <1>2, <2>5, <4>1 DEF Event
    <3>2. Occurrences(b, i) = Dealt(b) BY <1>0, <1>3, <2>4, <2>5 DEF Reported
    <3>3. Occurrences(b, i)' = Dealt(b)' + 1 BY <1>5, <2>3, <2>5, <3>2
    <3>4. Event(b, i) \notin Values(collected') /\ b \in ReadFor(block)' BY <1>3, <1>4, <2>5, <3>1
    <3> QED BY <1>0, <3>3, <3>4 DEF Reported
  <2>6. CASE Event(b, i) # e
    <3>1. Occurrences(b, i)' = Occurrences(b, i) /\ Dealt(b)' = Dealt(b) BY <1>5, <2>3, <2>6
    <3>2. Event(b, i) \in Values(collected') <=> Event(b, i) \in Values(collected)
      BY <1>3, <2>6
    <3> QED BY <1>0, <1>4, <2>4, <3>1, <3>2 DEF Reported
  <2> QED BY <2>5, <2>6
<1> QED BY <1>0, <1>2, <1>3, <1>4, <1>6 DEF TransactionsCounted

\* Everything collected for the block has been written: the block counts as
\* dealt with.
LEMMA DoneCounted ==
    ASSUME TransactionsCounted, BlockTypeOK, BlockStage, stream = "newTransactions", blockDone
    PROVE  TransactionsCounted'
<1>0. /\ collected = << >> /\ blockPc = "send" /\ blockPc' = "next" /\ tops' = tops
      /\ startSeqno' = startSeqno /\ lastSeqno' = lastSeqno + 1 /\ events' = events
      /\ startSeqno \in Nat /\ lastSeqno \in Nat /\ startSeqno <= lastSeqno
      /\ block = lastSeqno + 1
  BY BlockStreamsAssumption DEF blockDone, chainVars, BlockTypeOK, BlockStage
<1>1. ASSUME NEW b
      PROVE  Dealt(b)' = IF b \in ReadFor(block) THEN Dealt(b) + 1 ELSE Dealt(b)
  <2> DEFINE P == {k \in (startSeqno + 1)..lastSeqno : b \in ReadFor(k)}
             Q == {k \in (startSeqno + 1)..(lastSeqno + 1) : b \in ReadFor(k)}
  <2>1. Dealt(b) = Cardinality(P) BY DEF Dealt
  <2>2. Dealt(b)' = Cardinality(Q)
    <3>1. \A k : ReadFor(k)' = ReadFor(k) BY <1>0 DEF ReadFor
    <3>2. {k \in (startSeqno' + 1)..lastSeqno' : b \in ReadFor(k)'} = Q BY <1>0, <3>1
    <3> QED BY <3>2 DEF Dealt
  <2>3. \A k : k \in (startSeqno + 1)..(lastSeqno + 1)
                 <=> k \in (startSeqno + 1)..lastSeqno \/ k = block
    BY <1>0
  <2>4. IsFiniteSet(P)
    <3>1. startSeqno + 1 \in Int /\ lastSeqno \in Int BY <1>0
    <3>2. IsFiniteSet((startSeqno + 1)..lastSeqno) BY ONLY <3>1, FS_Interval
    <3>3. P \in SUBSET ((startSeqno + 1)..lastSeqno) OBVIOUS
    <3> HIDE DEF P
    <3> QED BY ONLY <3>2, <3>3, FS_Subset
  <2>5. block \notin P BY <1>0
  <2>6. CASE b \in ReadFor(block)
    <3>1. Q = P \cup {block} BY <2>3, <2>6
    <3> HIDE DEF P, Q
    <3>2. Cardinality(Q) = Cardinality(P) + 1 BY <2>4, <2>5, <3>1, FS_AddElement
    <3> QED BY <2>1, <2>2, <2>6, <3>2
  <2>7. CASE b \notin ReadFor(block)
    <3>1. Q = P BY <2>3, <2>7
    <3> QED BY <2>1, <2>2, <2>7, <3>1
  <2> QED BY <2>6, <2>7
<1>2. ASSUME NEW b \in BlockIds, NEW i \in 1..TxCount[b[2]]
      PROVE  Reported(b, i)'
  <2>1. Reported(b, i) BY DEF TransactionsCounted
  <2>2. Event(b, i) \notin Values(collected) BY <1>0 DEF Values
  <2>3. Occurrences(b, i) = IF b \in ReadFor(block) THEN Dealt(b) + 1 ELSE Dealt(b)
    BY <1>0, <2>1, <2>2 DEF Reported
  <2>4. Occurrences(b, i)' = Occurrences(b, i) BY <1>0 DEF Occurrences
  <2>5. Occurrences(b, i)' = Dealt(b)' BY <1>1, <2>3, <2>4
  <2> QED BY <1>0, <2>5 DEF Reported
<1> QED BY <1>0, <1>2 DEF TransactionsCounted

\* The stream ends: with the last block finished, or half-way through one.
LEMMA EndCounted ==
    ASSUME TransactionsCounted, BlockTypeOK, BlockStage, stream = "newTransactions",
           sendBlockEventFails \/ blockStreamEnds
    PROVE  TransactionsCounted'
<1>0. /\ blockPc \in {"next", "send"} /\ blockPc' = "ended" /\ tops' = tops /\ block' = block
      /\ startSeqno' = startSeqno /\ lastSeqno' = lastSeqno /\ events' = events
      /\ lastSeqno \in Nat /\ (blockPc = "send" => block = lastSeqno + 1)
  BY BlockStreamsAssumption
     DEF sendBlockEventFails, blockStreamEnds, chainVars, BlockTypeOK, BlockStage
<1>1. \A b : Dealt(b)' = Dealt(b) BY <1>0 DEF Dealt, ReadFor
<1>2. \A b, i : Occurrences(b, i)' = Occurrences(b, i) BY <1>0 DEF Occurrences
<1>3. ReadFor(block)' = ReadFor(block) BY <1>0 DEF ReadFor
<1>4. blockPc = "send" => block > lastSeqno BY <1>0
<1>5. ASSUME NEW b \in BlockIds, NEW i \in 1..TxCount[b[2]]
      PROVE  Reported(b, i)'
  <2>1. Reported(b, i) BY DEF TransactionsCounted
  <2>2. \/ Occurrences(b, i) = Dealt(b)
        \/ block > lastSeqno /\ b \in ReadFor(block) /\ Occurrences(b, i) = Dealt(b) + 1
    BY <1>0, <1>4, <2>1 DEF Reported
  <2> QED BY <1>0, <1>1, <1>2, <1>3, <2>2 DEF Reported
<1> QED BY <1>0, <1>5 DEF TransactionsCounted

\* subscribe.newTransactions: every step keeps the count.
LEMMA NextTransactions ==
    BlockTypeOK /\ BlockStage /\ TransactionsCounted /\ [BlockNext]_blockVars => TransactionsCounted'
<1> SUFFICES ASSUME BlockTypeOK, BlockStage, TransactionsCounted, [BlockNext]_blockVars,
                    stream' = "newTransactions"
             PROVE  TransactionsCounted'
  BY DEF TransactionsCounted
<1>0. /\ tip \in Nat /\ lastSeqno \in Nat /\ startSeqno \in Nat /\ lastSeqno <= tip
  BY BlockStreamsAssumption DEF BlockTypeOK
<1>a. stream = "newTransactions"
  BY DEF BlockNext, BlockStep, BlockAnswer, blockVars, produceBlock, subscribe,
         nextMasterchainBlock, sendBlockEvent, blockDone, blockStreamEnds, blockShards,
         transactionShards, collectPage, lookupFails, sendBlockEventFails, cancelBlockStream
<1>1. CASE UNCHANGED blockVars BY <1>1, CountsRest DEF blockVars
<1>2. CASE produceBlock
  <2>1. \A k \in 1..tip : tops'[k] = tops[k] BY <1>2, ChainGrows
  <2>2. UNCHANGED <<stream, blockPc, startSeqno, lastSeqno, block, todo, after, collected, events>>
    BY <1>2 DEF produceBlock
  <2> QED BY <2>1, <2>2, CountsRest
<1>3. CASE subscribe
  <2>1. /\ blockPc = "start" /\ blockPc' = "next" /\ events' = events /\ tops' = tops
        /\ startSeqno' = tip /\ lastSeqno' = tip /\ startSeqno = lastSeqno
    BY <1>3 DEF subscribe, chainVars, BlockStage
  <2>2. (startSeqno + 1)..lastSeqno = {} /\ (startSeqno' + 1)..lastSeqno' = {} BY <1>0, <2>1
  <2>3. ASSUME NEW b, NEW i
        PROVE  Occurrences(b, i)' = Occurrences(b, i) /\ Dealt(b)' = Dealt(b)
    <3>1. Occurrences(b, i)' = Occurrences(b, i) BY <2>1 DEF Occurrences
    <3>2. {k \in (startSeqno + 1)..lastSeqno : b \in ReadFor(k)} = {} BY <2>2
    <3>3. {k \in (startSeqno' + 1)..lastSeqno' : b \in ReadFor(k)'} = {} BY <2>2
    <3> QED BY <3>1, <3>2, <3>3 DEF Dealt
  <2> QED BY <1>a, <2>1, <2>3, CountsCarried
<1>4. CASE nextMasterchainBlock \/ lookupFails
  <2>1. /\ blockPc \notin {"send", "ended"} /\ blockPc' \in {"next", "shards"} /\ events' = events
        /\ tops' = tops /\ startSeqno' = startSeqno /\ lastSeqno' = lastSeqno
    BY <1>4 DEF nextMasterchainBlock, lookupFails, retry, chainVars
  <2>2. \A b, i : Occurrences(b, i)' = Occurrences(b, i) /\ Dealt(b)' = Dealt(b)
    BY <1>0, <2>1, CountsKept
  <2> QED BY <1>a, <2>1, <2>2, CountsCarried
<1>5. CASE sendBlockEvent BY <1>a, <1>5, SendCounted
<1>6. CASE blockDone BY <1>a, <1>6, DoneCounted
<1>7. CASE sendBlockEventFails \/ blockStreamEnds BY <1>a, <1>7, EndCounted
<1>8. CASE blockShards BY <1>a, <1>8 DEF blockShards
<1>9. CASE transactionShards BY <1>9, ShardsCounted
<1>10. CASE blockPc = "collect" /\ \E m \in Pages : collectPage(m) BY <1>10, PageCounted
<1>11. CASE cancelBlockStream
  <2>1. tops' = tops BY <1>11 DEF cancelBlockStream, chainVars
  <2> QED BY <1>11, <2>1, CountsRest DEF cancelBlockStream
<1> QED BY <1>1, <1>2, <1>3, <1>4, <1>5, <1>6, <1>7, <1>8, <1>9, <1>10, <1>11
        DEF BlockNext, BlockStep, BlockAnswer

\* The invariant of the block streams holds before a stream is started.
LEMMA InitBlock == BlockInit => BlockInv
<1> SUFFICES ASSUME BlockInit PROVE BlockInv OBVIOUS
<1>1. BlockTypeOK /\ BlockStage BY InitBlockStage
<1>2. /\ blockPc = "start" /\ startSeqno = 0 /\ lastSeqno = 0 /\ events = << >> /\ Len(events) = 0
      /\ DOMAIN events = {}
  BY DEF BlockInit
<1>3. BlocksInOrder BY <1>2 DEF BlocksInOrder
<1>4. ASSUME NEW b, NEW i PROVE Occurrences(b, i) = Dealt(b)
  <2>1. {j \in DOMAIN events : events[j] = [block |-> b, tx |-> i]} = {} BY <1>2
  <2>2. (startSeqno + 1)..lastSeqno = {} BY <1>2
  <2>3. {k \in (startSeqno + 1)..lastSeqno : b \in ReadFor(k)} = {} BY <2>2
  <2> QED BY <2>1, <2>3 DEF Occurrences, Dealt
<1>5. TransactionsCounted BY <1>2, <1>4 DEF TransactionsCounted, Reported
<1> QED BY <1>1, <1>3, <1>5 DEF BlockInv

\* Every step of a block stream keeps its invariant.
LEMMA NextBlock == BlockInv /\ [BlockNext]_blockVars => BlockInv'
BY NextBlockStage, NextBlocksInOrder, NextTransactions DEF BlockInv

\* The invariant says that the stream is exact.
LEMMA BlockImplies == BlockInv => StreamExact
<1> SUFFICES ASSUME BlockInv PROVE StreamExact OBVIOUS
<1>1. BlockTypeOK /\ BlockStage /\ BlocksInOrder /\ TransactionsCounted BY DEF BlockInv
<1>2. stream \in {"blocks", "newTransactions"} /\ blockPc \in BlockStages BY <1>1 DEF BlockTypeOK
<1>3. CASE stream = "blocks"
  <2>1. BlockEventsContiguous
    <3>1. blockPc # "collect" BY <1>1, <1>3 DEF BlockStage
    <3> QED BY <1>1, <1>2, <1>3, <3>1 DEF BlocksInOrder, BlockEventsContiguous, BlockStages
  <2> QED BY <1>3, <2>1 DEF StreamExact
<1>4. CASE stream = "newTransactions"
  <2> SUFFICES ASSUME NEW n \in 1..tip, NEW b \in ReadFor(n), NEW i \in 1..TxCount[b[2]]
               PROVE  \/ Occurrences(b, i) = Dealt(b)
                      \/ /\ blockPc \in {"send", "ended"} /\ block > lastSeqno
                         /\ b \in ReadFor(block)
                         /\ Occurrences(b, i) = Dealt(b) + 1
    BY <1>4 DEF StreamExact, TransactionsReported, Dealt
  <2>1. b \in BlockIds BY <1>1, ReadForTyped
  <2>2. Reported(b, i) BY <1>1, <1>4, <2>1 DEF TransactionsCounted
  <2>3. blockPc = "send" => block > lastSeqno
    <3>1. lastSeqno \in Nat BY <1>1, BlockStreamsAssumption DEF BlockTypeOK
    <3> QED BY <1>1, <3>1 DEF BlockStage
  <2> QED BY <2>2, <2>3 DEF Reported
<1> QED BY <1>2, <1>3, <1>4

-----------------------------------------------------------------------------
(* The state streams *)

\* The params of a request are a list that is not empty.
LEMMA ParamsTyped ==
    /\ Len(Params) \in Nat \ {0} /\ DOMAIN Params = 1..Len(Params) /\ 1 \in DOMAIN Params
    /\ \A i \in DOMAIN Params : Params[i] \in ParamIds
<1>1. Params \in Seq({Params[i] : i \in DOMAIN Params}) /\ Params # << >> BY StateStreamsAssumption
<1> DEFINE S == {Params[i] : i \in DOMAIN Params}
<1>2. Params \in Seq(S) BY <1>1
<1> HIDE DEF S
<1>3. Len(Params) \in Nat \ {0} /\ DOMAIN Params = 1..Len(Params) BY <1>1, <1>2
<1>4. 1 \in DOMAIN Params BY <1>3
<1> QED BY <1>3, <1>4 DEF ParamIds

\* The state stream before it is started.
LEMMA InitStateTyped == StateInit => StateTypeOK
<1> SUFFICES ASSUME StateInit PROVE StateTypeOK OBVIOUS
<1>1. account \in Accounts BY DEF StateInit
<1>2. config \in Configs BY DEF StateInit, Configs
<1>3. read \in [account : Accounts, config : Configs] BY <1>1, <1>2 DEF StateInit, Tip
<1>4. /\ fresh \in BOOLEAN /\ watch \in {"accountState", "configChanges"} /\ statePc = "start"
      /\ param = 1 /\ lastAccount = account /\ cache = config /\ stateCancel \in BOOLEAN
  BY DEF StateInit
<1>5. 1 \in DOMAIN Params BY ParamsTyped
<1> QED BY <1>1, <1>2, <1>3, <1>4, <1>5 DEF StateTypeOK, StateStages

\* Every step of a state stream keeps its variables within their types; the
\* index of the param compared stays within the list.
LEMMA NextStateTyped == StateTypeOK /\ [StateNext]_stateVars => StateTypeOK'
<1> SUFFICES ASSUME StateTypeOK, [StateNext]_stateVars PROVE StateTypeOK' OBVIOUS
<1>0. /\ account \in Accounts /\ config \in Configs /\ fresh \in BOOLEAN
      /\ watch \in {"accountState", "configChanges"} /\ statePc \in StateStages
      /\ read.account \in Accounts /\ read.config \in Configs
      /\ param \in DOMAIN Params /\ lastAccount \in Accounts /\ cache \in Configs
      /\ stateCancel \in BOOLEAN /\ read \in [account : Accounts, config : Configs]
  BY DEF StateTypeOK
<1>a. Tip \in [account : Accounts, config : Configs] BY <1>0 DEF Tip
<1> USE <1>0 DEF StateTypeOK, StateStages
<1>1. CASE UNCHANGED stateVars BY <1>1 DEF stateVars
<1>2. CASE produceState
  <2>1. account' \in Accounts
    <3>1. CASE UNCHANGED account BY <3>1
    <3>2. ASSUME account.lt < MaxLT, NEW b \in Balances,
                 account' = [lt |-> account.lt + 1, balance |-> b]
          PROVE  account' \in Accounts
      <4>1. account.lt \in 0..MaxLT BY DEF Accounts
      <4>2. account.lt + 1 \in 0..MaxLT BY <3>2, <4>1, StateStreamsAssumption
      <4> QED BY <3>2, <4>2 DEF Accounts
    <3> QED BY <1>2, <3>1, <3>2 DEF produceState
  <2>2. config' \in Configs
    <3>1. CASE UNCHANGED config BY <3>1
    <3>2. ASSUME NEW p \in ParamIds, NEW v \in Cells \cup {NoCell},
                 config' = [config EXCEPT ![p] = v]
          PROVE  config' \in Configs
      BY <3>2 DEF Configs
    <3> QED BY <1>2, <3>1, <3>2 DEF produceState
  <2> QED BY <1>2, <2>1, <2>2 DEF produceState
<1>3. CASE currentBlock BY <1>3, <1>a DEF currentBlock
<1>4. CASE snapshotState BY <1>4 DEF snapshotState
<1>5. CASE waitForBlock BY <1>5, <1>a DEF waitForBlock
<1>6. CASE readFails BY <1>6 DEF readFails
<1>7. CASE readAccount BY <1>7 DEF readAccount
<1>8. CASE reportAccount BY <1>8 DEF reportAccount
<1>9. CASE readConfig
  <2>1. 1 \in DOMAIN Params BY ParamsTyped
  <2> QED BY <1>9, <2>1 DEF readConfig
<1>10. CASE compareParam
  <2>1. Params[param] \in ParamIds BY ParamsTyped
  <2>2. cache' \in Configs BY <1>10, <2>1 DEF compareParam, Configs
  <2>3. param' \in DOMAIN Params /\ statePc' \in StateStages
    <3>1. /\ Len(Params) \in Nat /\ DOMAIN Params = 1..Len(Params) /\ 1 \in DOMAIN Params
      BY ParamsTyped
    <3> QED BY <1>10, <3>1 DEF compareParam
  <2> QED BY <1>10, <2>2, <2>3 DEF compareParam
<1>11. CASE sendStateFails BY <1>11 DEF sendStateFails
<1>12. CASE cancelStateStream BY <1>12 DEF cancelStateStream
<1>13. CASE stateStreamEnds BY <1>13 DEF stateStreamEnds
<1> QED BY <1>1, <1>2, <1>3, <1>4, <1>5, <1>6, <1>7, <1>8, <1>9, <1>10, <1>11, <1>12, <1>13
        DEF StateNext, StateStep, StateAnswer

-----------------------------------------------------------------------------
(* The readers side by side *)

\* In a step of the bridge each reader takes a step of its own or rests.
LEMMA OneReader ==
    ASSUME [Next]_readerVars
    PROVE  /\ [BlockNext]_blockVars /\ [StateNext]_stateVars /\ [WatchNext]_watchVars
           /\ [FeedNext]_feedVars /\ [RequestNext]_requestVars
<1>1. CASE UNCHANGED readerVars BY <1>1 DEF readerVars
<1>2. CASE Next BY <1>2 DEF Next
<1> QED BY <1>1, <1>2

\* lite.sendAndWatch: no transaction between the one known when the message
\* was sent and the one the next scan starts from is the message's, unless it
\* was reported.
THEOREM WatchSkipsNothing == Spec => []MessageNotSkipped
<1>1. Init => WatchInv BY InitWatch DEF Init
<1>2. WatchInv /\ [Next]_readerVars => WatchInv' BY NextWatch, OneReader
<1>3. WatchInv => MessageNotSkipped BY DEF WatchInv
<1> QED BY <1>1, <1>2, <1>3, PTL DEF Spec

\* subscribe.transactions: what the client has been sent of an account are the
\* wanted transactions after the last known one, without a gap and in order.
THEOREM FeedsWithoutGap == Spec => []FeedContiguous
<1>1. Init => FeedInv BY InitFeed DEF Init
<1>2. FeedInv /\ [Next]_readerVars => FeedInv' BY NextFeed, OneReader
<1> QED BY <1>1, <1>2, FeedImplies, PTL DEF Spec

\* An answer put together from several reads describes one masterchain block,
\* unless it is an NFT's or a domain's.
THEOREM AnswersOneSnapshot == Spec => []OneSnapshot
<1>1. Init => RequestInv BY InitRequest DEF Init
<1>2. RequestInv /\ [Next]_readerVars => RequestInv' BY NextRequest, OneReader
<1> QED BY <1>1, <1>2, RequestImplies, PTL DEF Spec

\* lite.getTransaction answers "not found" only for a transaction the account
\* did not have at the block looked at, and finds none that is not there.
THEOREM NotFoundIsTrue == Spec => []NotFoundMeansAbsent
<1>1. Init => RequestInv BY InitRequest DEF Init
<1>2. RequestInv /\ [Next]_readerVars => RequestInv' BY NextRequest, OneReader
<1>3. RequestInv => NotFoundMeansAbsent BY DEF RequestInv
<1> QED BY <1>1, <1>2, <1>3, PTL DEF Spec

\* lite.runMethod hands a get method the number the client sent, or refuses it,
\* but for the first integer past those a float64 holds exactly.
THEOREM ParametersExact == Spec => []NumbersExact
<1>1. Init => RequestInv BY InitRequest DEF Init
<1>2. RequestInv /\ [Next]_readerVars => RequestInv' BY NextRequest, OneReader
<1>3. RequestInv => NumbersExact BY DEF RequestInv
<1> QED BY <1>1, <1>2, <1>3, PTL DEF Spec

\* The variables of the streams and of the watch keep their types; the cursor
\* of a scan stays within the account's history, and the index of the config
\* param compared within the list of the request.
THEOREM ReadersTyped == Spec => []TypeOK
<1> DEFINE Inv == BlockInv /\ StateTypeOK /\ WatchInv
<1>1. Init => Inv BY InitBlock, InitStateTyped, InitWatch DEF Init
<1>2. Inv /\ [Next]_readerVars => Inv' BY NextBlock, NextStateTyped, NextWatch, OneReader
<1>3. Inv => TypeOK BY DEF BlockInv, WatchInv, TypeOK
<1> QED BY <1>1, <1>2, <1>3, PTL DEF Spec

\* subscribe.blocks reports every block after start_seqno once and in order;
\* subscribe.newTransactions reports every transaction of a block dealt with
\* once for each masterchain block that refers to it, whatever the pages, the
\* order of the shards and the failures on the way.
THEOREM StreamsExact == Spec => []StreamExact
<1>1. Init => BlockInv BY InitBlock DEF Init
<1>2. BlockInv /\ [Next]_readerVars => BlockInv' BY NextBlock, OneReader
<1> QED BY <1>1, <1>2, BlockImplies, PTL DEF Spec

-----------------------------------------------------------------------------
(* Answers are not repeated *)

\* The handler runs without having answered, or it has answered once.
AnswersCounted == Len(replies) = IF requestPc = "done" THEN 1 ELSE 0

\* Only a request that has not been answered answers; every error path ends.
LEMMA AnswersKept == RequestInv /\ AnswersCounted /\ [RequestNext]_requestVars => AnswersCounted'
<1> SUFFICES ASSUME RequestInv, AnswersCounted, [RequestNext]_requestVars PROVE AnswersCounted'
  OBVIOUS
<1>1. /\ requestPc \in {"received", "run", "done"} /\ (requestPc # "done" => replies = << >>)
      /\ \A kind : Append(<< >>, kind) = <<kind>> /\ Len(<<kind>>) = 1
  BY DEF RequestInv
<1>2. ASSUME requestPc # "done", NEW kind, reply(kind) PROVE AnswersCounted'
  BY <1>1, <1>2 DEF reply, AnswersCounted
<1>3. ASSUME requestPc # "done", requestPc' # "done", UNCHANGED replies PROVE AnswersCounted'
  BY <1>1, <1>3 DEF AnswersCounted
<1>4. ASSUME requestPc = "run", advance PROVE AnswersCounted' BY <1>3, <1>4 DEF advance
<1>5. ASSUME requestPc = "run", path # << >>, NEW kind, giveUp(kind) PROVE AnswersCounted'
  BY <1>1, <1>5, GiveUpMoves DEF AnswersCounted
<1>6. CASE advanceChain \/ UNCHANGED requestVars
  BY <1>6 DEF advanceChain, requestVars, AnswersCounted
<1>7. CASE handleRequest BY <1>2, <1>3, <1>7 DEF handleRequest
<1>8. CASE parseParams BY <1>4, <1>5, <1>8 DEF parseParams, At
<1>9. CASE convertParams BY <1>4, <1>5, <1>9 DEF convertParams, At
<1>10. CASE CurrentMasterchainInfo \/ readState \/ ownRead \/ ask
  BY <1>4, <1>5, <1>10 DEF CurrentMasterchainInfo, readState, ownRead, ask, At
<1>11. CASE walkHistory BY <1>2, <1>3, <1>4, <1>5, <1>11 DEF walkHistory, At
<1>12. CASE sendResult \/ panic BY <1>2, <1>12 DEF sendResult, panic
<1> QED BY <1>6, <1>7, <1>8, <1>9, <1>10, <1>11, <1>12 DEF RequestNext, RequestStep

\* The safety half of AnsweredOnce: no request is answered twice, and one that
\* has ended has been answered, whichever steps fail or panic on the way.
THEOREM AnsweredExactlyOnce ==
    Spec => [](Len(replies) = IF requestPc = "done" THEN 1 ELSE 0)
<1> DEFINE Inv == RequestInv /\ AnswersCounted
<1>1. Init => Inv BY InitRequest DEF Init, RequestInit, AnswersCounted
<1>2. Inv /\ [Next]_readerVars => Inv' BY NextRequest, AnswersKept, OneReader
<1>3. Inv => Len(replies) = IF requestPc = "done" THEN 1 ELSE 0 BY DEF AnswersCounted
<1> QED BY <1>1, <1>2, <1>3, PTL DEF Spec
=============================================================================
