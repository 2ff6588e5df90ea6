----------------------------- MODULE ReadRequests -----------------------------
(***************************************************************************)
(* The requests that ask the network something and answer once (lite, dht, *)
(* dns, jetton, nft, sbt, wallet, payment, network): the pipeline of       *)
(* handleRequest, and each handler as the paths it can take, a path being  *)
(* the sequence of its steps.  Blocks appear while a handler runs, every   *)
(* question can fail or time out, and a panic is recovered.                *)
(***************************************************************************)
EXTENDS Integers, Sequences, FiniteSets

CONSTANTS
    Requests,      \* the methods asked for, as <<namespace, name>>
    MaxNewest,     \* bound: masterchain blocks
    MaxAccountTxs, \* bound: transactions of the account
    TxPage,        \* transactions per answer of ListTransactions (100)
    FloatBits      \* bits of a float64's mantissa (53)

ASSUME ReadRequestsAssumption ==
    MaxNewest \in Nat /\ MaxAccountTxs \in Nat /\ TxPage \in Nat \ {0} /\ FloatBits \in Nat \ {0}

VARIABLES
    settings,    \* allowWrite and the disabled namespaces of the configuration
    newest,      \* the newest masterchain block
    accountTxs,  \* number of transactions of the account
    request,     \* method, and the lt and number among its parameters
    requestPc,   \* "received", "run" or "done"
    path,        \* the steps still to be taken
    snapshot,    \* the block CurrentMasterchainInfo returned, 0 for none
    readAt,      \* blocks at which the handler has read state
    asked,       \* the handler has asked the network something
    known,       \* the account's transactions up to the snapshot
    cursor,      \* lite.getTransaction: currentLT
    passed,      \* lite.runMethod: the number handed to the get method
    replies      \* what has been sent for the request

requestVars == <<settings, newest, accountTxs, request, requestPc, path, snapshot, readAt,
                 asked, known, cursor, passed, replies>>

None == 2^(FloatBits + 2)  \* no number

-----------------------------------------------------------------------------
(* Steps; "else" says what a failure does: an error and return, go on with *)
(* the next step, or go on to the result.                                  *)

Step(what) == [do |-> what, else |-> "error"]
Opt(s)  == [s EXCEPT !.else = "skip"]
Stop(s) == [s EXCEPT !.else = "stop"]

Parse   == Step("parse")    \* parameters, or an account that does not fit them
Convert == Step("convert")  \* convertRunMethodParam
Gate    == Step("gate")     \* namespaces.dht.allow_write
Current == Step("current")  \* CurrentMasterchainInfo
Read    == Step("read")     \* an account, config or get method at that block
Own     == Step("own")      \* a library call that takes the current block itself
Ask     == Step("ask")      \* a question about no block, or about one the client names
Walk    == Step("walk")     \* the history of lite.getTransaction
Check   == Step("check")    \* a local computation on what was read

-----------------------------------------------------------------------------
(* lite.go *)

handleGetMasterchainInfo  == {<<Current>>}
handleGetAccountState     == {<<Parse, Current, Read>>}
handleRunMethod           == {<<Parse, Current, Convert, Read>>}
handleSendMessage         == {<<Parse, Ask>>}
handleSendMessageWait     == {<<Parse, Ask>>}
handleGetTime             == {<<Ask>>}
handleLookupBlock         == {<<Parse, Ask>>}
handleGetShards           == {<<Current, Read>>}
handleGetBlockchainConfig == {<<Parse, Current, Read>>}
handleGetTransaction      == {<<Parse, Current, Read, Walk>>}
handleFindTxByInMsgHash   == {<<Parse, Ask>>}
handleFindTxByOutMsgHash  == {<<Parse, Ask>>}
handleGetBlockData        == {<<Parse, Ask, Ask>>}
handleGetBlockHeader      == {<<Parse, Ask, Ask, Check>>}

\* Compute phase only: the account must have code and data.
handleEmulateMessage ==
    {<<Parse, Current, Ask, Read, Parse, Read, Check, Parse, Check>>,  \* external
     <<Parse, Current, Ask, Read, Parse, Read, Check, Check>>}         \* internal

\* Mutant: the config is read at a block of its own.
MutantEmulateTransaction ==
    {<<Parse, Current, Ask, Read, Parse, Check, Current, Read, Check, Check, Check, Parse, Check>>}

\* All phases, on the verified account: config, block context, account,
\* message, emulation.
handleEmulateTransaction ==
    {<<Parse, Current, Ask, Read, Parse, Check, Read, Check, Check, Check, Parse, Check>>}

\* From the cursor given, or from the account's last transaction, if any.
handleGetTransactions ==
    {<<Parse, Parse, Ask>>, <<Parse, Current, Read>>, <<Parse, Current, Read, Ask>>}

\* The cursor "after" is looked at once the block was found.
handleGetBlockTransactions == {<<Parse, Ask, Ask>>, <<Parse, Ask, Parse, Ask>>}

\* Nothing is asked for an empty list.
handleGetLibraries == {<<Parse>>, <<Parse, Ask>>}

-----------------------------------------------------------------------------
(* dht.go *)

handleFindAddresses    == {<<Parse, Ask>>}
handleFindOverlayNodes == {<<Parse, Ask>>}
handleDHTFindValue     == {<<Parse, Ask>>}

\* Up to three rounds; what is found counts once a round succeeded.
handleFindTunnelNodes ==
    {<<Ask>>, <<Ask, Stop(Ask)>>, <<Ask, Stop(Ask), Stop(Ask)>>}

handleDHTStoreAddress == {<<Gate, Parse, Ask>>}

handleDHTStoreOverlayNodes == {<<Gate, Parse, Ask>>}

-----------------------------------------------------------------------------
(* The contracts' namespaces; network.go asks nothing *)

handleJettonGetData          == {<<Parse, Own>>}
handleJettonGetWalletAddress == {<<Parse, Own>>}
handleJettonGetBalance       == {<<Parse, Current, Read>>}
handleNFTGetCollectionData   == {<<Parse, Own>>}
handleNFTGetAddressByIndex   == {<<Parse, Own>>}
handleNFTGetRoyaltyParams    == {<<Parse, Own>>}
handleNFTGetContent          == {<<Parse, Own>>}
handleWalletGetSeqno         == {<<Parse, Current, Read>>}
handleWalletGetPublicKey     == {<<Parse, Own>>}
handleSBTGetAuthorityAddress == {<<Parse, Current, Read, Check>>}
handleSBTGetRevokedTime      == {<<Parse, Current, Read>>}
handlePaymentGetChannelState == {<<Parse, Own>>}
handleNetworkInfo            == {<< >>}

\* The content of an item of a collection is completed by the collection, if
\* that answers.
handleNFTGetData == {<<Parse, Own>>, <<Parse, Own, Opt(Own)>>}

\* The item's data, the expiration its collection knows, and the editor are
\* left out of the answer when they cannot be had.
handleDNSResolve ==
    {<<Parse, Own, Opt(Own), Opt(Own)>>,
     <<Parse, Own, Opt(Own), Opt(Current), Opt(Read), Opt(Own)>>}

-----------------------------------------------------------------------------
namespaceEnabled(m) == m[1] \notin settings.disabled

\* The switch of handleRequest; no path: unknown method.
Handler(m) ==
    CASE m = <<"lite", "getMasterchainInfo">>  -> handleGetMasterchainInfo
      [] m = <<"lite", "getAccountState">>     -> handleGetAccountState
      [] m = <<"lite", "runMethod">>           -> handleRunMethod
      [] m = <<"lite", "emulateMessage">>      -> handleEmulateMessage
      [] m = <<"lite", "emulateTransaction">>  -> handleEmulateTransaction
      [] m = <<"lite", "sendMessage">>         -> handleSendMessage
      [] m = <<"lite", "sendMessageWait">>     -> handleSendMessageWait
      [] m = <<"lite", "getTransactions">>     -> handleGetTransactions
      [] m = <<"lite", "getTime">>             -> handleGetTime
      [] m = <<"lite", "lookupBlock">>         -> handleLookupBlock
      [] m = <<"lite", "getBlockTransactions">> -> handleGetBlockTransactions
      [] m = <<"lite", "getShards">>           -> handleGetShards
      [] m = <<"lite", "getBlockchainConfig">> -> handleGetBlockchainConfig
      [] m = <<"lite", "getTransaction">>      -> handleGetTransaction
      [] m = <<"lite", "findTxByInMsgHash">>   -> handleFindTxByInMsgHash
      [] m = <<"lite", "findTxByOutMsgHash">>  -> handleFindTxByOutMsgHash
      [] m = <<"lite", "getBlockData">>        -> handleGetBlockData
      [] m = <<"lite", "getBlockHeader">>      -> handleGetBlockHeader
      [] m = <<"lite", "getLibraries">>        -> handleGetLibraries
      [] m = <<"dht", "findAddresses">>        -> handleFindAddresses
      [] m = <<"dht", "findOverlayNodes">>     -> handleFindOverlayNodes
      [] m = <<"dht", "findTunnelNodes">>      -> handleFindTunnelNodes
      [] m = <<"dht", "findValue">>            -> handleDHTFindValue
      [] m = <<"dht", "storeAddress">>         -> handleDHTStoreAddress
      [] m = <<"dht", "storeOverlayNodes">>    -> handleDHTStoreOverlayNodes
      [] m = <<"dns", "resolve">>              -> handleDNSResolve
      [] m = <<"jetton", "getData">>           -> handleJettonGetData
      [] m = <<"jetton", "getWalletAddress">>  -> handleJettonGetWalletAddress
      [] m = <<"jetton", "getBalance">>        -> handleJettonGetBalance
      [] m = <<"nft", "getData">>              -> handleNFTGetData
      [] m = <<"nft", "getCollectionData">>    -> handleNFTGetCollectionData
      [] m = <<"nft", "getAddressByIndex">>    -> handleNFTGetAddressByIndex
      [] m = <<"nft", "getRoyaltyParams">>     -> handleNFTGetRoyaltyParams
      [] m = <<"nft", "getContent">>           -> handleNFTGetContent
      [] m = <<"wallet", "getSeqno">>          -> handleWalletGetSeqno
      [] m = <<"wallet", "getPublicKey">>      -> handleWalletGetPublicKey
      [] m = <<"sbt", "getAuthorityAddress">>  -> handleSBTGetAuthorityAddress
      [] m = <<"sbt", "getRevokedTime">>       -> handleSBTGetRevokedTime
      [] m = <<"payment", "getChannelState">>  -> handlePaymentGetChannelState
      [] m = <<"network", "info">>             -> handleNetworkInfo
      [] OTHER -> {}

-----------------------------------------------------------------------------
(* Numbers of lite.runMethod: a JSON number is a float64, which holds the   *)
(* integers up to 2^FloatBits and beyond that, for a while, the even ones.  *)

Abs(n) == IF n < 0 THEN -n ELSE n

\* encoding/json: to nearest, ties to the even mantissa.
Unmarshalled(n) ==
    IF Abs(n) <= 2^FloatBits \/ Abs(n) % 2 = 0 THEN n
    ELSE LET down == Abs(n) - 1
             near == IF down % 4 = 0 THEN down ELSE down + 2
         IN  IF n < 0 THEN -near ELSE near

\* Mutant: any integer will do.
MutantConvert(v) == TRUE

\* convertRunMethodParam accepts it.
convertRunMethodParam(v) == Abs(v) <= 2^FloatBits

-----------------------------------------------------------------------------
(* External: the chain goes on *)

advanceChain ==
    /\ newest < MaxNewest
    /\ newest' = newest + 1
    /\ \E n \in {0, 1} :
         accountTxs' = IF accountTxs + n <= MaxAccountTxs THEN accountTxs + n ELSE accountTxs
    /\ UNCHANGED <<settings, request, requestPc, path, snapshot, readAt, asked, known, cursor,
                   passed, replies>>

-----------------------------------------------------------------------------
(* The handler *)

reply(kind) == replies' = Append(replies, kind) /\ requestPc' = "done" /\ UNCHANGED path

handleRequest ==
    /\ requestPc = "received"
    /\ \/ /\ ~namespaceEnabled(request.method) \/ Handler(request.method) = {}
          /\ reply("unknown")
       \/ /\ namespaceEnabled(request.method)
          /\ path' \in Handler(request.method)
          /\ requestPc' = "run" /\ UNCHANGED replies
    /\ UNCHANGED <<settings, newest, accountTxs, request, snapshot, readAt, asked, known, cursor,
                   passed>>

At(what) == requestPc = "run" /\ path # << >> /\ Head(path).do = what

\* On to the next step.
advance == path' = Tail(path) /\ UNCHANGED <<requestPc, replies>>

\* Mutant: no return after the error.
MutantGiveUp(kind) ==
    CASE Head(path).else = "error" ->
           replies' = Append(replies, kind) /\ path' = Tail(path) /\ UNCHANGED requestPc
      [] Head(path).else = "skip"  -> advance
      [] Head(path).else = "stop"  -> path' = << >> /\ UNCHANGED <<requestPc, replies>>

\* The step failed.
giveUp(kind) ==
    CASE Head(path).else = "error" -> reply(kind)
      [] Head(path).else = "skip"  -> advance
      [] Head(path).else = "stop"  -> path' = << >> /\ UNCHANGED <<requestPc, replies>>

parseParams ==
    /\ At("parse") \/ At("gate")
    /\ \/ advance /\ (At("gate") => settings.allowWrite)
       \/ giveUp("refused") /\ (At("gate") => ~settings.allowWrite)
    /\ UNCHANGED <<settings, newest, accountTxs, request, snapshot, readAt, asked, known, cursor,
                   passed>>

convertParams ==
    /\ At("convert")
    /\ LET v == Unmarshalled(request.number) IN
         IF convertRunMethodParam(v) THEN passed' = v /\ advance
         ELSE giveUp("refused") /\ UNCHANGED passed
    /\ UNCHANGED <<settings, newest, accountTxs, request, snapshot, readAt, asked, known, cursor>>

CurrentMasterchainInfo ==
    /\ At("current") /\ asked' = TRUE
    /\ \/ snapshot' = newest /\ known' = accountTxs /\ advance
       \/ giveUp("failed") /\ UNCHANGED <<snapshot, known>>
    /\ UNCHANGED <<settings, newest, accountTxs, request, readAt, cursor, passed>>

\* A read is only made at a block that is known.
readState ==
    /\ At("read")
    /\ \/ /\ snapshot # 0 /\ asked' = TRUE
          /\ readAt' = readAt \cup {snapshot} /\ cursor' = known /\ advance
       \/ giveUp("failed") /\ UNCHANGED <<readAt, asked, cursor>>
    /\ UNCHANGED <<settings, newest, accountTxs, request, snapshot, known, passed>>

ownRead ==
    /\ At("own") /\ asked' = TRUE
    /\ \/ readAt' = readAt \cup {newest} /\ advance
       \/ giveUp("failed") /\ UNCHANGED readAt
    /\ UNCHANGED <<settings, newest, accountTxs, request, snapshot, known, cursor, passed>>

ask ==
    /\ At("ask") \/ At("check")
    /\ asked' = (asked \/ At("ask"))
    /\ advance \/ giveUp("failed")
    /\ UNCHANGED <<settings, newest, accountTxs, request, snapshot, readAt, known, cursor, passed>>

\* Mutant: only the first page is looked at.
MutantOnePage(n) == 0

\* PrevTxLT of the oldest transaction of a page of n; 0 before the first.
PrevTxLT(n) == cursor - n

\* lite.getTransaction: a page of the history, back from the cursor.
walkHistory ==
    /\ At("walk")
    /\ IF cursor = 0 THEN reply("notFound") /\ UNCHANGED <<cursor, asked>>
       ELSE /\ asked' = TRUE
            /\ \/ \E n \in 1..TxPage :
                    /\ n <= cursor
                    /\ IF request.lt \in (cursor - n + 1)..cursor
                         THEN advance /\ UNCHANGED cursor
                         ELSE cursor' = PrevTxLT(n) /\ UNCHANGED <<requestPc, path, replies>>
               \/ giveUp("failed") /\ UNCHANGED cursor
    /\ UNCHANGED <<settings, newest, accountTxs, request, snapshot, readAt, known, passed>>

sendResult ==
    /\ requestPc = "run" /\ path = << >>
    /\ reply("result")
    /\ UNCHANGED <<settings, newest, accountTxs, request, snapshot, readAt, asked, known, cursor,
                   passed>>

\* A panic of the handler is answered by the recover of its goroutine.
panic ==
    /\ requestPc = "run" /\ reply("internal")
    /\ UNCHANGED <<settings, newest, accountTxs, request, snapshot, readAt, asked, known, cursor,
                   passed>>

-----------------------------------------------------------------------------
RequestInit ==
    /\ newest = 1 /\ accountTxs \in 0..MaxAccountTxs
    /\ request \in [method : Requests, lt : {0}, number : {None}]
         \cup [method : Requests \cap {<<"lite", "getTransaction">>}, lt : 1..MaxAccountTxs,
               number : {None}]
         \cup [method : Requests \cap {<<"lite", "runMethod">>}, lt : {0},
               number : -(2^(FloatBits + 1))..2^(FloatBits + 1)]
    /\ settings \in [allowWrite : BOOLEAN, disabled : {{}, {request.method[1]}}]
    /\ request.method[1] # "dht" => ~settings.allowWrite
    /\ requestPc = "received" /\ path = << >> /\ snapshot = 0 /\ readAt = {} /\ asked = FALSE
    /\ known = 0 /\ cursor = 0 /\ passed = None /\ replies = << >>

RequestStep ==
    \/ handleRequest \/ parseParams \/ convertParams \/ CurrentMasterchainInfo \/ readState
    \/ ownRead \/ ask \/ walkHistory \/ sendResult

RequestNext == advanceChain \/ RequestStep \/ panic

RequestSpec == RequestInit /\ [][RequestNext]_requestVars

\* A question is answered, fails or runs into the timeout of its context.
RequestFairness == WF_requestVars(RequestStep)

-----------------------------------------------------------------------------
(* Properties *)

\* The handlers that put together what several calls read.
Composed == {<<"dns", "resolve">>, <<"nft", "getData">>}

\* An answer describes one block, although blocks appear while it is put
\* together; only an NFT's and a domain's are made of reads that each take the
\* block current at the time.
OneSnapshot ==
    replies = <<"result">> /\ request.method \notin Composed => Cardinality(readAt) <= 1

\* lite.getTransaction says that there is no such transaction only if the
\* account had none at the block it looked at, and finds none that is not there.
NotFoundMeansAbsent ==
    /\ replies = <<"notFound">> => request.lt \notin 1..known
    /\ request.method = <<"lite", "getTransaction">> /\ replies = <<"result">> =>
         request.lt \in 1..known

\* A get method runs with the number the client sent, except for the first
\* integer a float64 cannot hold, which is taken for its neighbour.
NumbersExact ==
    passed # None => passed = request.number \/ Abs(request.number) = 2^FloatBits + 1

\* Every request is answered, and once, whatever fails on the way: no error
\* path goes on, and no walk or list of questions lasts for ever.
AnsweredOnce == (requestPc = "run") ~> (requestPc = "done" /\ Len(replies) = 1)
=============================================================================
