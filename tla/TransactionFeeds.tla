--------------------------- MODULE TransactionFeeds ---------------------------
(***************************************************************************)
(* subscribe.transactions and subscribe.multiAccount (subscribe.go): the   *)
(* library's SubscribeOnTransactions pushes the transactions of an account *)
(* into a channel, the bridge filters them and writes events.  For several *)
(* accounts there is a goroutine each; the first that cannot write cancels *)
(* them all, and the handler waits for them.  A single account is the same *)
(* loop run by the handler itself.                                         *)
(***************************************************************************)
EXTENDS Naturals, Sequences, FiniteSets

CONSTANTS
    Watched,     \* the accounts of the request
    MaxFeedLT,   \* bound: transactions of an account
    Wanted,      \* the ones whose opcode passes the operations filter
    ChannelSize  \* capacity of the transaction channel (16)

ASSUME FeedsAssumption ==
    /\ IsFiniteSet(Watched) /\ Watched # {}
    /\ MaxFeedLT \in Nat /\ Wanted \subseteq 1..MaxFeedLT /\ ChannelSize \in Nat \ {0}

VARIABLES
    ledger,     \* account -> number of its transactions
    feedPc,     \* account -> where its goroutine is
    fromLT,     \* account -> the transaction the feed starts after
    pushed,     \* account -> last transaction pushed into the channel
    channel,    \* account -> the channel
    written,    \* account -> transactions written as events
    feedCancel, \* the subscription's context is cancelled
    broken,     \* the connection can no longer be written to
    returned    \* the handler has returned

feedVars == <<ledger, feedPc, fromLT, pushed, channel, written, feedCancel, broken, returned>>

-----------------------------------------------------------------------------
(* External: the account, the connection, and SubscribeOnTransactions *)

transact(a) ==
    /\ ledger[a] < MaxFeedLT
    /\ ledger' = [ledger EXCEPT ![a] = @ + 1]
    /\ UNCHANGED <<feedPc, fromLT, pushed, channel, written, feedCancel, broken, returned>>

connectionBreaks ==
    /\ ~broken
    /\ broken' = TRUE
    /\ UNCHANGED <<ledger, feedPc, fromLT, pushed, channel, written, feedCancel, returned>>

\* In the order of logical time, waiting for room in the channel.
SubscribeOnTransactions(a) ==
    /\ feedPc[a] # "start" /\ ~feedCancel
    /\ pushed[a] < ledger[a] /\ Len(channel[a]) < ChannelSize
    /\ pushed' = [pushed EXCEPT ![a] = @ + 1]
    /\ channel' = [channel EXCEPT ![a] = Append(@, pushed[a] + 1)]
    /\ UNCHANGED <<ledger, feedPc, fromLT, written, feedCancel, broken, returned>>

-----------------------------------------------------------------------------
\* subscribe.unsubscribe or the end of the connection.
cancelFeeds ==
    /\ ~feedCancel
    /\ feedCancel' = TRUE
    /\ UNCHANGED <<ledger, feedPc, fromLT, pushed, channel, written, broken, returned>>

\* The goroutine starts the feed: after last_lt of the request, or after the
\* account's last transaction if that could be looked up.
startFeed(a) ==
    /\ feedPc[a] = "start"
    /\ \E lt \in {fromLT[a], ledger[a]} :
         /\ fromLT[a] # 0 => lt = fromLT[a]
         /\ fromLT' = [fromLT EXCEPT ![a] = lt]
         /\ pushed' = [pushed EXCEPT ![a] = lt]
    /\ feedPc' = [feedPc EXCEPT ![a] = "listen"]
    /\ UNCHANGED <<ledger, channel, written, feedCancel, broken, returned>>

\* Mutant: a failed write ends this goroutine only.
MutantWriteFails(a) ==
    feedPc' = [feedPc EXCEPT ![a] = "gone"] /\ UNCHANGED <<written, feedCancel>>

\* sendEvent failed: cancel() and return.
writeFails(a) ==
    feedPc' = [feedPc EXCEPT ![a] = "gone"] /\ feedCancel' = TRUE /\ UNCHANGED written

\* Mutant: the filter does not skip.
MutantNextTransaction(a) ==
    /\ feedPc[a] = "listen" /\ channel[a] # << >>
    /\ channel' = [channel EXCEPT ![a] = Tail(@)]
    /\ IF broken THEN writeFails(a)
       ELSE written' = [written EXCEPT ![a] = Append(@, Head(channel[a]))]
              /\ UNCHANGED <<feedPc, feedCancel>>
    /\ UNCHANGED <<ledger, fromLT, pushed, broken, returned>>

\* The select takes a transaction (also when the context is cancelled).
nextTransaction(a) ==
    /\ feedPc[a] = "listen" /\ channel[a] # << >>
    /\ channel' = [channel EXCEPT ![a] = Tail(@)]
    /\ IF Head(channel[a]) \notin Wanted
         THEN UNCHANGED <<feedPc, written, feedCancel>>
       ELSE IF broken THEN writeFails(a)
       ELSE written' = [written EXCEPT ![a] = Append(@, Head(channel[a]))]
              /\ UNCHANGED <<feedPc, feedCancel>>
    /\ UNCHANGED <<ledger, fromLT, pushed, broken, returned>>

\* The select takes ctx.Done, or the channel, which the library closes when the
\* context is done.
endFeed(a) ==
    /\ feedPc[a] = "listen" /\ feedCancel
    /\ feedPc' = [feedPc EXCEPT ![a] = "gone"]
    /\ UNCHANGED <<ledger, fromLT, pushed, channel, written, feedCancel, broken, returned>>

\* wg.Wait, then the deferred cancel.
waitFeeds ==
    /\ ~returned /\ \A a \in Watched : feedPc[a] = "gone"
    /\ returned' = TRUE
    /\ feedCancel' = TRUE
    /\ UNCHANGED <<ledger, feedPc, fromLT, pushed, channel, written, broken>>

-----------------------------------------------------------------------------
FeedInit ==
    /\ ledger = [a \in Watched |-> 1]
    /\ feedPc = [a \in Watched |-> "start"]
    /\ fromLT \in [Watched -> {0, 1}]
    /\ pushed = [a \in Watched |-> 0]
    /\ channel = [a \in Watched |-> << >>] /\ written = [a \in Watched |-> << >>]
    /\ feedCancel = FALSE /\ broken = FALSE /\ returned = FALSE

Feed(a) == startFeed(a) \/ nextTransaction(a) \/ endFeed(a)

FeedNext ==
    \/ connectionBreaks \/ cancelFeeds \/ waitFeeds
    \/ \E a \in Watched : transact(a) \/ SubscribeOnTransactions(a) \/ Feed(a)

FeedSpec == FeedInit /\ [][FeedNext]_feedVars

\* Goroutines run, and a select whose context is done takes that branch at
\* some time (it chooses at random).
FeedFairness ==
    /\ WF_feedVars(waitFeeds)
    /\ \A a \in Watched : WF_feedVars(Feed(a)) /\ SF_feedVars(endFeed(a))

-----------------------------------------------------------------------------
(* Properties *)

\* The events of an account are its wanted transactions after the start of
\* the feed, in order, none left out and none twice.
FeedContiguous ==
    \A a \in Watched :
      /\ \A i, j \in DOMAIN written[a] : i < j => written[a][i] < written[a][j]
      /\ {written[a][i] : i \in DOMAIN written[a]} \subseteq Wanted
      /\ feedPc[a] = "listen" =>
           {lt \in Wanted : fromLT[a] < lt /\ lt <= pushed[a]}
             = {written[a][i] : i \in DOMAIN written[a]}
               \cup {channel[a][i] : i \in {k \in DOMAIN channel[a] : channel[a][k] \in Wanted}}

\* One failed write ends the whole subscription, and so does its context.
FeedsEnd ==
    ((\E a \in Watched : feedPc[a] = "gone") \/ feedCancel) ~> returned
=============================================================================
