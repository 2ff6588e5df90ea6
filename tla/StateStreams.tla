----------------------------- MODULE StateStreams -----------------------------
(***************************************************************************)
(* subscribe.accountState and subscribe.configChanges (subscribe.go): a    *)
(* stream that looks at the newest masterchain block, skipping those it    *)
(* was too slow for, and reports what differs from what it last reported.  *)
(* A block that cannot be read is skipped, too: lastSeqno has moved.       *)
(*                                                                         *)
(* The chain produces blocks for ever.  All the streams ever ask about     *)
(* seqnos is whether a block newer than lastSeqno exists (fresh), and a    *)
(* block is what an account and the config are in it.                      *)
(***************************************************************************)
EXTENDS Naturals, Sequences

CONSTANTS
    MaxLT,     \* bound: transactions of the account
    Balances,  \* balances of the account
    Params,    \* the config params subscribed to, in the order of the request
    Cells,     \* values of a config param
    NoCell     \* a param that is not set

ASSUME StateStreamsAssumption ==
    /\ MaxLT \in Nat /\ Balances # {} /\ Cells # {} /\ NoCell \notin Cells
    /\ Params \in Seq({Params[i] : i \in DOMAIN Params}) /\ Params # << >>

ParamIds == {Params[i] : i \in DOMAIN Params}

\* What account_state tells changes by.
Accounts == [lt : 0..MaxLT, balance : Balances]
Configs  == [ParamIds -> Cells \cup {NoCell}]

VARIABLES
    account,     \* the account in the newest block
    config,      \* the config in the newest block
    fresh,       \* a block newer than lastSeqno exists
    watch,       \* "accountState" or "configChanges"
    statePc,     \* where the handler is
    read,        \* account and config of the block being looked at
    param,       \* index of the config param being compared
    lastAccount, \* lastBalance and lastTxLT: what the client was last told
    cache,       \* config cells the client was last told
    stateCancel  \* the stream's context is cancelled

stateVars == <<account, config, fresh, watch, statePc, read, param, lastAccount, cache,
               stateCancel>>

StateStages == {"start", "snapshot", "next", "read", "report", "compare", "ended"}

Tip == [account |-> account, config |-> config]

-----------------------------------------------------------------------------
\* The chain (external): a block in which the account makes a transaction, a
\* config param changes, or neither.
produceState ==
    /\ \/ UNCHANGED <<account, config>>
       \/ /\ account.lt < MaxLT
          /\ \E b \in Balances : account' = [lt |-> account.lt + 1, balance |-> b]
          /\ UNCHANGED config
       \/ /\ \E p \in ParamIds, v \in Cells \cup {NoCell} : config' = [config EXCEPT ![p] = v]
          /\ UNCHANGED account
    /\ fresh' = TRUE
    /\ UNCHANGED <<watch, statePc, read, param, lastAccount, cache, stateCancel>>

-----------------------------------------------------------------------------
(* The handlers *)

\* CurrentMasterchainInfo ...
currentBlock ==
    /\ statePc = "start"
    /\ read' = Tip /\ fresh' = FALSE
    /\ statePc' = "snapshot"
    /\ UNCHANGED <<account, config, watch, param, lastAccount, cache, stateCancel>>

\* ... then GetAccount or GetBlockchainConfig in that block, and the
\* confirmation.  An error ends the request.
snapshotState ==
    /\ statePc = "snapshot"
    /\ \/ /\ statePc' = "next"
          /\ lastAccount' = read.account /\ cache' = read.config
       \/ statePc' = "ended" /\ UNCHANGED <<lastAccount, cache>>
    /\ UNCHANGED <<account, config, fresh, watch, read, param, stateCancel>>

\* WaitForBlock(lastSeqno + 1).GetMasterchainInfo: the newest block, which
\* becomes lastSeqno before anything is read from it.
waitForBlock ==
    /\ statePc = "next" /\ ~stateCancel
    /\ fresh
    /\ fresh' = FALSE /\ read' = Tip
    /\ statePc' = "read"
    /\ UNCHANGED <<account, config, watch, param, lastAccount, cache, stateCancel>>

\* GetAccount or GetBlockchainConfig fails: this block is skipped.
readFails ==
    /\ statePc = "read"
    /\ statePc' = "next"
    /\ UNCHANGED <<account, config, fresh, watch, read, param, lastAccount, cache, stateCancel>>

\* Mutant: only the balance is compared.
MutantReadAccount ==
    /\ statePc = "read" /\ watch = "accountState"
    /\ statePc' = IF read.account.balance = lastAccount.balance THEN "next" ELSE "report"
    /\ UNCHANGED <<account, config, fresh, watch, read, param, lastAccount, cache, stateCancel>>

readAccount ==
    /\ statePc = "read" /\ watch = "accountState"
    /\ statePc' = IF read.account = lastAccount THEN "next" ELSE "report"
    /\ UNCHANGED <<account, config, fresh, watch, read, param, lastAccount, cache, stateCancel>>

reportAccount ==
    /\ statePc = "report"
    /\ lastAccount' = read.account
    /\ statePc' = "next"
    /\ UNCHANGED <<account, config, fresh, watch, read, param, cache, stateCancel>>

readConfig ==
    /\ statePc = "read" /\ watch = "configChanges"
    /\ param' = 1
    /\ statePc' = "compare"
    /\ UNCHANGED <<account, config, fresh, watch, read, lastAccount, cache, stateCancel>>

\* Mutant: off by one at the end of the list.
MutantCompareRange ==
    /\ statePc = "compare"
    /\ cache' = [cache EXCEPT ![Params[param]] = read.config[Params[param]]]
    /\ param' = param + 1
    /\ statePc' = IF param < Len(Params) THEN "compare" ELSE "next"
    /\ UNCHANGED <<account, config, fresh, watch, read, lastAccount, stateCancel>>

\* One param: an event with the cached and the new value if they differ, and
\* then the new value is cached.
compareParam ==
    /\ statePc = "compare"
    /\ cache' = [cache EXCEPT ![Params[param]] = read.config[Params[param]]]
    /\ IF param < Len(Params)
         THEN param' = param + 1 /\ UNCHANGED statePc
         ELSE param' = 1 /\ statePc' = "next"
    /\ UNCHANGED <<account, config, fresh, watch, read, lastAccount, stateCancel>>

\* sendEvent reports failure: the handler returns.
sendStateFails ==
    /\ \/ statePc = "report"
       \/ statePc = "compare" /\ read.config[Params[param]] # cache[Params[param]]
    /\ statePc' = "ended"
    /\ UNCHANGED <<account, config, fresh, watch, read, param, lastAccount, cache, stateCancel>>

cancelStateStream ==
    /\ statePc \notin {"start", "snapshot", "ended"} /\ ~stateCancel
    /\ stateCancel' = TRUE
    /\ UNCHANGED <<account, config, fresh, watch, statePc, read, param, lastAccount, cache>>

stateStreamEnds ==
    /\ statePc = "next" /\ stateCancel
    /\ statePc' = "ended"
    /\ UNCHANGED <<account, config, fresh, watch, read, param, lastAccount, cache, stateCancel>>

-----------------------------------------------------------------------------
StateInit ==
    /\ account \in {a \in Accounts : a.lt = 0}
    /\ config = [p \in ParamIds |-> NoCell]
    /\ fresh = TRUE
    /\ watch \in {"accountState", "configChanges"}
    /\ statePc = "start" /\ read = Tip /\ param = 1
    /\ lastAccount = account /\ cache = config
    /\ stateCancel = FALSE

StateStep ==
    \/ currentBlock \/ snapshotState \/ waitForBlock \/ reportAccount \/ compareParam
    \/ stateStreamEnds

StateAnswer == readAccount \/ readConfig

StateNext ==
    \/ produceState \/ StateStep \/ StateAnswer
    \/ readFails \/ sendStateFails \/ cancelStateStream

StateSpec == StateInit /\ [][StateNext]_stateVars

\* The masterchain does not stop, the handler runs when it can, and a read
\* that is tried in block after block succeeds at some time.
StateFairness ==
    /\ WF_stateVars(produceState) /\ WF_stateVars(StateStep) /\ SF_stateVars(StateAnswer)

-----------------------------------------------------------------------------
(* Properties *)

\* Every variable has its type.
StateTypeOK ==
    /\ account \in Accounts /\ config \in Configs /\ fresh \in BOOLEAN
    /\ watch \in {"accountState", "configChanges"} /\ statePc \in StateStages
    /\ read \in [account : Accounts, config : Configs] /\ param \in DOMAIN Params
    /\ lastAccount \in Accounts /\ cache \in Configs /\ stateCancel \in BOOLEAN

\* A state of the account that lasts is reported, unless the stream ends.
AccountCatchesUp ==
    \A a \in Accounts : <>[](account = a) =>
      <>[](watch = "accountState" => lastAccount = a \/ statePc = "ended")

\* The same for every config param of the request.
ConfigCatchesUp ==
    \A p \in ParamIds, v \in Cells \cup {NoCell} : <>[](config[p] = v) =>
      <>[](watch = "configChanges" => cache[p] = v \/ statePc = "ended")

\* However many blocks are skipped, because the stream is slow or because they
\* cannot be read, it catches up with what lasts.
StateCatchesUp == AccountCatchesUp /\ ConfigCatchesUp
=============================================================================
