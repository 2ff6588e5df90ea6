----------------------------- MODULE ChainReaders -----------------------------
(***************************************************************************)
(* The requests of a client that follow or read the chain, side by side: a *)
(* block stream, a state stream, a message watch, a transaction feed and a *)
(* request that is answered once.  They share nothing but the socket, so   *)
(* one of them runs in a behaviour and the others rest in their initial    *)
(* states.                                                                 *)
(***************************************************************************)
EXTENDS BlockStreams, StateStreams, MessageWatch, TransactionFeeds, ReadRequests

VARIABLE reader  \* the one that runs

readerVars == <<reader, blockVars, stateVars, watchVars, feedVars, requestVars>>

\* The initial states of the components that rest.
RestingBlock == stream = "blocks"
RestingState == watch = "accountState" /\ account.balance = CHOOSE b \in Balances : TRUE
RestingWatch == history = << >>
RestingFeed  == \A a \in Watched : fromLT[a] = 0
RestingRequest ==
    /\ accountTxs = 0 /\ ~settings.allowWrite /\ settings.disabled = {}
    /\ request = [method |-> <<"network", "info">>, lt |-> 0, number |-> None]

Init ==
    /\ reader \in {"block", "state", "watch", "feed", "request"}
    /\ BlockInit /\ StateInit /\ WatchInit /\ FeedInit /\ RequestInit
    /\ reader # "block" => RestingBlock
    /\ reader # "state" => RestingState
    /\ reader # "watch" => RestingWatch
    /\ reader # "feed"  => RestingFeed
    /\ reader # "request" => RestingRequest

Next ==
    /\ UNCHANGED reader
    /\ \/ /\ reader = "block" /\ BlockNext
          /\ UNCHANGED <<stateVars, watchVars, feedVars, requestVars>>
       \/ /\ reader = "state" /\ StateNext
          /\ UNCHANGED <<blockVars, watchVars, feedVars, requestVars>>
       \/ /\ reader = "watch" /\ WatchNext
          /\ UNCHANGED <<blockVars, stateVars, feedVars, requestVars>>
       \/ /\ reader = "feed" /\ FeedNext
          /\ UNCHANGED <<blockVars, stateVars, watchVars, requestVars>>
       \/ /\ reader = "request" /\ RequestNext
          /\ UNCHANGED <<blockVars, stateVars, watchVars, feedVars>>

Spec == Init /\ [][Next]_readerVars

\* Each reader's own fairness; that of a resting one asks for nothing.
FairSpec ==
    /\ Spec
    /\ WF_blockVars(reader = "block" /\ BlockStep)
    /\ WF_blockVars(reader = "block" /\ BlockAnswer)
    /\ WF_stateVars(reader = "state" /\ produceState)
    /\ WF_stateVars(reader = "state" /\ StateStep)
    /\ SF_stateVars(reader = "state" /\ StateAnswer)
    /\ WF_watchVars(reader = "watch" /\ emptyBlock)
    /\ WF_watchVars(reader = "watch" /\ WatchStep)
    /\ WF_feedVars(reader = "feed" /\ waitFeeds)
    /\ \A a \in Watched : /\ WF_feedVars(reader = "feed" /\ Feed(a))
                          /\ SF_feedVars(reader = "feed" /\ endFeed(a))
    /\ WF_requestVars(reader = "request" /\ RequestStep)

-----------------------------------------------------------------------------
(* Properties *)

\* Every variable of the streams and the watch has its type; a scan stays
\* within the history.
TypeOK == BlockTypeOK /\ StateTypeOK /\ WatchTypeOK
=============================================================================
