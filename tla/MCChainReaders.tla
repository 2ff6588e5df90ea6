---------------------------- MODULE MCChainReaders ----------------------------
(* Instance of ChainReaders for TLC. *)
EXTENDS ChainReaders, TLC

CONSTANTS p1, p2

\* Blocks with no, one, two and three transactions; pages hold two.
Counts == [n \in 1..MaxTop |-> n % 4]

\* Two config params, in this order.
TwoParams == <<p1, p2>>

\* Every method of the namespaces that answer once, and one that is unknown.
AllRequests ==
    ({"lite"} \X {"getMasterchainInfo", "getAccountState", "runMethod", "emulateMessage",
                  "emulateTransaction", "sendMessage", "sendMessageWait", "getTransactions",
                  "getTime", "lookupBlock", "getBlockTransactions", "getShards",
                  "getBlockchainConfig", "getTransaction", "findTxByInMsgHash",
                  "findTxByOutMsgHash", "getBlockData", "getBlockHeader", "getLibraries",
                  "unknown"})
    \cup ({"dht"} \X {"findAddresses", "findOverlayNodes", "findTunnelNodes", "findValue",
                      "storeAddress", "storeOverlayNodes"})
    \cup ({"jetton"} \X {"getData", "getWalletAddress", "getBalance"})
    \cup ({"nft"} \X {"getData", "getCollectionData", "getAddressByIndex", "getRoyaltyParams",
                      "getContent"})
    \cup ({"wallet"} \X {"getSeqno", "getPublicKey"})
    \cup ({"sbt"} \X {"getAuthorityAddress", "getRevokedTime"})
    \cup {<<"dns", "resolve">>, <<"payment", "getChannelState">>, <<"network", "info">>}
=============================================================================
