----------------------------- MODULE BlockStreams -----------------------------
(***************************************************************************)
(* subscribe.blocks and subscribe.newTransactions (subscribe.go): a stream *)
(* that walks the masterchain one block at a time, reads what the block    *)
(* refers to and turns it into events.  A failed look-up sends the stream  *)
(* back to the same block after a pause; lastSeqno moves when every event  *)
(* of the block has been written.                                          *)
(*                                                                         *)
(* The masterchain and the shard tops its blocks refer to grow on their    *)
(* own.  Counting and registering the subscription is ClientSession's      *)
(* part.  A look-up that fails where nothing has been read yet leaves the  *)
(* stream where it is: a stuttering step.                                  *)
(***************************************************************************)
EXTENDS Naturals, Sequences, FiniteSets

CONSTANTS
    MaxSeqno,   \* bound: masterchain blocks produced
    Shards,     \* the shards a masterchain block refers to
    ShardSteps, \* bound: by how much a shard top may move per masterchain block
    MaxTop,     \* bound: seqno of a shard block
    TxCount,    \* seqno -> number of transactions of a block with that seqno
    PageSize    \* transactions per answer of GetBlockTransactionsV2 (256)

Master == "masterchain"

ASSUME BlockStreamsAssumption ==
    /\ MaxTop \in Nat \ {0} /\ MaxSeqno \in 1..MaxTop /\ PageSize \in Nat \ {0}
    /\ IsFiniteSet(Shards) /\ Master \notin Shards
    /\ ShardSteps \subseteq Nat
    /\ TxCount \in [1..MaxTop -> Nat]

VARIABLES
    tip,         \* seqno of the newest masterchain block
    tops,        \* masterchain seqno -> shard -> seqno of its top block
    stream,      \* "blocks" or "newTransactions"
    blockPc,     \* where the handler is
    startSeqno,  \* start_seqno of the confirmation
    lastSeqno,   \* the last block dealt with
    block,       \* the block being dealt with
    todo,        \* blocks whose transactions are still to be read, in order
    after,       \* cursor: transactions of Head(todo) read so far
    collected,   \* events waiting to be sent
    events,      \* events written to the client, from the first one on
    blockCancel  \* the stream's context is cancelled

chainVars == <<tip, tops>>
blockVars == <<tip, tops, stream, blockPc, startSeqno, lastSeqno, block, todo, after,
               collected, events, blockCancel>>

BlockStages == {"start", "next", "shards", "collect", "send", "ended"}

-----------------------------------------------------------------------------
(* The chain (external) *)

produceBlock ==
    /\ tip < MaxSeqno
    /\ tip' = tip + 1
    /\ \E step \in [Shards -> ShardSteps] :
         /\ \A s \in Shards : tops[tip][s] + step[s] <= MaxTop
         /\ tops' = Append(tops, [s \in Shards |-> tops[tip][s] + step[s]])
    /\ UNCHANGED <<stream, blockPc, startSeqno, lastSeqno, block, todo, after,
                   collected, events, blockCancel>>

\* The shard blocks of GetBlockShardsInfo, in the order of its answer.
ShardBlocks(n) ==
    {blocks \in [1..Cardinality(Shards) -> {<<s, tops[n][s]>> : s \in Shards}] :
        \A i, j \in DOMAIN blocks : i # j => blocks[i] # blocks[j]}

-----------------------------------------------------------------------------
(* The handlers *)

retry ==
    /\ blockPc' = "next"
    /\ todo' = << >> /\ after' = 0 /\ collected' = << >>

\* CurrentMasterchainInfo and the confirmation with start_seqno.
subscribe ==
    /\ blockPc = "start"
    /\ blockPc' = "next"
    /\ startSeqno' = tip /\ lastSeqno' = tip
    /\ UNCHANGED <<chainVars, stream, block, todo, after, collected, events, blockCancel>>

\* Mutant: one block too many is waited for.
MutantWaitTooLong ==
    /\ blockPc = "next" /\ ~blockCancel
    /\ lastSeqno + 1 < tip
    /\ block' = lastSeqno + 1
    /\ blockPc' = "shards"
    /\ UNCHANGED <<chainVars, stream, startSeqno, lastSeqno, todo, after, collected,
                   events, blockCancel>>

\* The liteserver holds the answer back until block lastSeqno + 1 exists; the
\* tip it then reports may be further on, so that very block is looked up.
nextMasterchainBlock ==
    /\ blockPc = "next" /\ ~blockCancel
    /\ lastSeqno < tip
    /\ block' = lastSeqno + 1
    /\ blockPc' = "shards"
    /\ UNCHANGED <<chainVars, stream, startSeqno, lastSeqno, todo, after, collected,
                   events, blockCancel>>

\* subscribe.blocks: one event for the block.
blockShards ==
    /\ blockPc = "shards" /\ stream = "blocks"
    /\ collected' = <<[block |-> <<Master, block>>, tx |-> 0]>>
    /\ blockPc' = "send"
    /\ UNCHANGED <<chainVars, stream, startSeqno, lastSeqno, block, todo, after, events,
                   blockCancel>>

\* subscribe.newTransactions: the masterchain block, then its shard tops.
transactionShards ==
    /\ blockPc = "shards" /\ stream = "newTransactions"
    /\ \E shards \in ShardBlocks(block) : todo' = <<<<Master, block>>>> \o shards
    /\ blockPc' = "collect"
    /\ UNCHANGED <<chainVars, stream, startSeqno, lastSeqno, block, after, collected,
                   events, blockCancel>>

\* The transactions up to number m are added to what has been collected.
collectedPage(m) ==
    /\ collected' = collected \o [i \in 1..(m - after) |->
                                    [block |-> Head(todo), tx |-> after + i]]
    /\ UNCHANGED events

\* Mutant: an incomplete answer ends the block.
MutantCollectPage(m) ==
    /\ blockPc = "collect"
    /\ collectedPage(m)
    /\ after' = 0 /\ todo' = Tail(todo)
    /\ blockPc' = IF Tail(todo) = << >> THEN "send" ELSE "collect"
    /\ UNCHANGED <<chainVars, stream, startSeqno, lastSeqno, block, blockCancel>>

\* collectBlockTransactions: one answer, which holds the transactions after
\* the cursor up to number m.  The block is read when the answer is complete;
\* an incomplete one that does not move the cursor is an error.
collectPage(m) ==
    /\ blockPc = "collect"
    /\ IF m < TxCount[Head(todo)[2]] /\ m = after
         THEN retry /\ UNCHANGED events
         ELSE /\ collectedPage(m)
              /\ IF m < TxCount[Head(todo)[2]]
                   THEN after' = m /\ UNCHANGED <<todo, blockPc>>
                   ELSE /\ after' = 0 /\ todo' = Tail(todo)
                        /\ blockPc' = IF Tail(todo) = << >> THEN "send" ELSE "collect"
    /\ UNCHANGED <<chainVars, stream, startSeqno, lastSeqno, block, blockCancel>>

\* Answers the liteserver may give for Head(todo).
Pages == {m \in after..(after + PageSize) : m <= TxCount[Head(todo)[2]]}

\* A look-up for this block fails: sleep and start over with the same block.
lookupFails ==
    /\ blockPc \in {"shards", "collect"}
    /\ retry
    /\ UNCHANGED <<chainVars, stream, startSeqno, lastSeqno, block, events, blockCancel>>

sendBlockEvent ==
    /\ blockPc = "send" /\ collected # << >>
    /\ events' = Append(events, Head(collected))
    /\ collected' = Tail(collected)
    /\ UNCHANGED <<chainVars, stream, blockPc, startSeqno, lastSeqno, block, todo, after,
                   blockCancel>>

\* sendEvent reports failure: the handler returns.
sendBlockEventFails ==
    /\ blockPc = "send" /\ collected # << >>
    /\ blockPc' = "ended"
    /\ UNCHANGED <<chainVars, stream, startSeqno, lastSeqno, block, todo, after,
                   collected, events, blockCancel>>

\* lastSeqno = block.SeqNo
blockDone ==
    /\ blockPc = "send" /\ collected = << >>
    /\ lastSeqno' = block
    /\ blockPc' = "next"
    /\ UNCHANGED <<chainVars, stream, startSeqno, block, todo, after, collected, events,
                   blockCancel>>

\* The context ends (subscribe.unsubscribe or the end of the connection) and
\* the loop sees it at its head; a look-up for a cancelled stream fails.
cancelBlockStream ==
    /\ blockPc \notin {"start", "ended"} /\ ~blockCancel
    /\ blockCancel' = TRUE
    /\ UNCHANGED <<chainVars, stream, blockPc, startSeqno, lastSeqno, block, todo, after,
                   collected, events>>

blockStreamEnds ==
    /\ blockPc = "next" /\ blockCancel
    /\ blockPc' = "ended"
    /\ UNCHANGED <<chainVars, stream, startSeqno, lastSeqno, block, todo, after,
                   collected, events, blockCancel>>

-----------------------------------------------------------------------------
BlockInit ==
    /\ tip = 1 /\ tops = <<[s \in Shards |-> 1]>>
    /\ stream \in {"blocks", "newTransactions"}
    /\ blockPc = "start" /\ startSeqno = 0 /\ lastSeqno = 0 /\ block = 0
    /\ todo = << >> /\ after = 0 /\ collected = << >> /\ events = << >>
    /\ blockCancel = FALSE

\* Steps of the handler that succeed.
BlockStep ==
    \/ subscribe \/ nextMasterchainBlock \/ sendBlockEvent \/ blockDone \/ blockStreamEnds

BlockAnswer ==
    \/ blockShards \/ transactionShards
    \/ blockPc = "collect" /\ \E m \in Pages : collectPage(m)

BlockNext ==
    \/ produceBlock \/ BlockStep \/ BlockAnswer
    \/ lookupFails \/ sendBlockEventFails \/ cancelBlockStream

BlockSpec == BlockInit /\ [][BlockNext]_blockVars

\* The handler runs when it can, and a look-up is answered, well or not.
BlockFairness == WF_blockVars(BlockStep) /\ WF_blockVars(BlockAnswer)

-----------------------------------------------------------------------------
(* Properties *)

\* Every variable has its type.
BlockTypeOK ==
    /\ tip \in 1..MaxSeqno /\ tops \in [1..tip -> [Shards -> 1..MaxTop]]
    /\ stream \in {"blocks", "newTransactions"} /\ blockPc \in BlockStages
    /\ startSeqno \in 0..tip /\ lastSeqno \in 0..tip /\ block \in 0..tip
    /\ todo \in Seq((Shards \cup {Master}) \X Nat) /\ after \in Nat
    /\ collected \in Seq([block : (Shards \cup {Master}) \X Nat, tx : Nat])
    /\ events \in Seq([block : (Shards \cup {Master}) \X Nat, tx : Nat])
    /\ blockCancel \in BOOLEAN

\* The events are start_seqno + 1, start_seqno + 2 and so on.
BlockEventsContiguous ==
    /\ \A i \in DOMAIN events : events[i].block = <<Master, startSeqno + i>>
    /\ startSeqno + Len(events) \in {lastSeqno, lastSeqno + 1}

\* The blocks whose transactions belong to masterchain block n.
ReadFor(n) == {<<Master, n>>} \cup {<<s, tops[n][s]>> : s \in Shards}

Occurrences(b, i) == Cardinality({j \in DOMAIN events : events[j] = [block |-> b, tx |-> i]})

\* Every transaction of a block dealt with is reported once for each
\* masterchain block that refers to it.
TransactionsReported ==
    \A n \in 1..tip : \A b \in ReadFor(n) : \A i \in 1..TxCount[b[2]] :
      LET dealt == Cardinality({k \in (startSeqno + 1)..lastSeqno : b \in ReadFor(k)})
          half  == blockPc \in {"send", "ended"} /\ block > lastSeqno /\ b \in ReadFor(block)
      IN  \/ Occurrences(b, i) = dealt
          \/ half /\ Occurrences(b, i) = dealt + 1

\* However far the tip runs ahead, however long the pages are and however often
\* a look-up fails: subscribe.blocks reports every block after start_seqno with
\* none left out, repeated or out of order, and subscribe.newTransactions every
\* transaction, with none lost or repeated.  For the masterchain that is
\* exactly once; a shard top that has not moved is reported again, and shard
\* blocks between two tops are not read (subscribe.go:385).
StreamExact ==
    CASE stream = "blocks"          -> BlockEventsContiguous
      [] stream = "newTransactions" -> TransactionsReported

\* A look-up fails, or a page does not move the cursor.
BlockLookupFailed == blockPc \in {"shards", "collect"} /\ blockPc' = "next"

\* Every masterchain block after start_seqno is eventually dealt with, unless
\* the stream ends or the liteserver never stops failing: a block whose
\* look-ups fail is retried and not given up.
BlocksDelivered ==
    <>[][~BlockLookupFailed]_blockVars =>
      \A n \in 1..MaxSeqno :
        (blockPc # "start" /\ startSeqno < n /\ n <= tip)
           ~> (lastSeqno >= n \/ blockPc = "ended")
=============================================================================
