----------------------------- MODULE MessageWatch -----------------------------
(***************************************************************************)
(* lite.sendAndWatch (lite.go:1327): send an external message and watch    *)
(* its destination account for the transaction it causes.  Every new block *)
(* either shows the account unmoved, and the message is sent again, or the *)
(* account's history is read backwards, page by page, to the transaction   *)
(* known before.  An error of that scan leaves the known transaction where *)
(* it is, so that the next block's scan covers the same ground.            *)
(*                                                                         *)
(* The logical time of a transaction is its place in the history.  Looking *)
(* up the newest block and the account in it is one step, what the account *)
(* is in a block does not change; if either fails nothing has happened.    *)
(* The scan takes it from the library that a page is never empty.          *)
(***************************************************************************)
EXTENDS Naturals, Sequences, FiniteSets

CONSTANTS
    MaxTxs,    \* bound: transactions of the account
    ListSize   \* transactions per answer of ListTransactions (20)

ASSUME MessageWatchAssumption == MaxTxs \in Nat /\ ListSize \in Nat \ {0}

VARIABLES
    history,   \* the account's transactions: caused by the message, or not
    newer,     \* a block newer than the one last looked at exists
    inPool,    \* validators have the message and may include it
    watchPc,   \* where the handler is
    baseLT,    \* LastTxLT of the account before the message was sent
    knownLT,   \* acc.LastTxLT
    seenLT,    \* newAcc.LastTxLT
    cursorLT,  \* lastLT: where the scan goes on
    found      \* the transaction reported by tx_confirmed, 0 for none

watchVars == <<history, newer, inPool, watchPc, baseLT, knownLT, seenLT, cursorLT, found>>

WatchStages ==
    {"start", "account", "send", "wait", "resend", "scan", "confirmed", "timeout", "refused"}
Watching == watchPc \in {"wait", "resend", "scan"}

-----------------------------------------------------------------------------
(* The network (external) *)

\* A block: with a transaction of the account, caused by the message if the
\* validators have it, or without one.
includeTransaction(kind) ==
    /\ Len(history) < MaxTxs
    /\ kind = "message" => inPool
    /\ history' = Append(history, kind)
    /\ inPool' = (inPool /\ kind # "message")
    /\ newer' = TRUE
    /\ UNCHANGED <<watchPc, baseLT, knownLT, seenLT, cursorLT, found>>

emptyBlock ==
    /\ newer' = TRUE
    /\ UNCHANGED <<history, inPool, watchPc, baseLT, knownLT, seenLT, cursorLT, found>>

\* The message is lost or discarded.
loseMessage ==
    /\ inPool' = FALSE
    /\ UNCHANGED <<history, newer, watchPc, baseLT, knownLT, seenLT, cursorLT, found>>

-----------------------------------------------------------------------------
(* handleSendAndWatch *)

refuse ==
    /\ watchPc \in {"start", "account", "send"}
    /\ watchPc' = "refused"
    /\ UNCHANGED <<history, newer, inPool, baseLT, knownLT, seenLT, cursorLT, found>>

watchBlock ==
    /\ watchPc = "start"
    /\ seenLT' = Len(history) /\ newer' = FALSE
    /\ watchPc' = "account"
    /\ UNCHANGED <<history, inPool, baseLT, knownLT, cursorLT, found>>

watchAccount ==
    /\ watchPc = "account"
    /\ baseLT' = seenLT /\ knownLT' = seenLT
    /\ watchPc' = "send"
    /\ UNCHANGED <<history, newer, inPool, seenLT, cursorLT, found>>

\* The message goes out, although the liteserver may report an error.
sendMessage ==
    /\ watchPc = "send"
    /\ inPool' = TRUE
    /\ watchPc' \in {"wait", "refused"}
    /\ UNCHANGED <<history, newer, baseLT, knownLT, seenLT, cursorLT, found>>

-----------------------------------------------------------------------------
(* waitForExternalMessage *)

lookAtAccount ==
    /\ watchPc = "wait" /\ newer
    /\ newer' = FALSE
    /\ seenLT' = Len(history)
    /\ IF Len(history) = knownLT
         THEN watchPc' = "resend" /\ UNCHANGED cursorLT
         ELSE watchPc' = "scan" /\ cursorLT' = Len(history)
    /\ UNCHANGED <<history, inPool, baseLT, knownLT, found>>

\* SendExternalMessage, its error ignored.
resendMessage ==
    /\ watchPc = "resend"
    /\ inPool' \in {inPool, TRUE}
    /\ watchPc' = "wait"
    /\ UNCHANGED <<history, newer, baseLT, knownLT, seenLT, cursorLT, found>>

\* The transactions a page of n ends with, and the ones among them that match.
Page(n)    == (cursorLT - n + 1)..cursorLT
Matches(n) == {i \in Page(n) : history[i] = "message"}

\* Mutants: one page is taken for the whole; the cursor stays where it is.
MutantReachedKnown(n) == TRUE

MutantContinueScan(n) ==
    watchPc' = "scan" /\ UNCHANGED <<cursorLT, knownLT>>

\* sawPrevious, or the beginning of the history.
reachedKnown(n) == knownLT + 1 \in Page(n) \/ cursorLT = n

\* On to the page before.
continueScan(n) ==
    watchPc' = "scan" /\ cursorLT' = cursorLT - n /\ UNCHANGED knownLT

\* A page, oldest transaction first: the first that matches is reported.  It
\* may be one from before the watch, when the page reaches back that far.
scanPage(n) ==
    /\ watchPc = "scan"
    /\ IF Matches(n) # {}
         THEN /\ watchPc' = "confirmed"
              /\ found' = CHOOSE i \in Matches(n) : \A j \in Matches(n) : i <= j
              /\ UNCHANGED <<cursorLT, knownLT>>
         ELSE /\ UNCHANGED found
              /\ IF reachedKnown(n)
                   THEN watchPc' = "wait" /\ knownLT' = seenLT /\ UNCHANGED cursorLT
                   ELSE continueScan(n)
    /\ UNCHANGED <<history, newer, inPool, baseLT, seenLT>>

Available(n) == n \in 1..ListSize /\ n <= cursorLT

\* ListTransactions fails: continue nextBlock.
scanFails ==
    /\ watchPc = "scan"
    /\ watchPc' = "wait"
    /\ UNCHANGED <<history, newer, inPool, baseLT, knownLT, seenLT, cursorLT, found>>

\* watch_timeout, an unsubscribe or the end of the connection: tx_timeout.
watchExpires ==
    /\ Watching
    /\ watchPc' = "timeout"
    /\ UNCHANGED <<history, newer, inPool, baseLT, knownLT, seenLT, cursorLT, found>>

-----------------------------------------------------------------------------
\* The account may have a history, the same message in it.
WatchInit ==
    /\ history \in UNION {[1..n -> {"message", "other"}] : n \in 0..1}
    /\ newer = TRUE /\ inPool = FALSE
    /\ watchPc = "start"
    /\ baseLT = 0 /\ knownLT = 0 /\ seenLT = 0 /\ cursorLT = 0 /\ found = 0

Scan == \E n \in 1..ListSize : Available(n) /\ scanPage(n)

WatchStep == lookAtAccount \/ resendMessage \/ Scan

WatchNext ==
    \/ \E kind \in {"message", "other"} : includeTransaction(kind)
    \/ emptyBlock \/ loseMessage
    \/ refuse \/ watchBlock \/ watchAccount \/ sendMessage
    \/ WatchStep \/ scanFails \/ watchExpires

WatchSpec == WatchInit /\ [][WatchNext]_watchVars

\* Blocks keep coming, the handler runs and its look-ups return.
WatchFairness == WF_watchVars(emptyBlock) /\ WF_watchVars(WatchStep)

-----------------------------------------------------------------------------
(* Properties *)

\* Every variable has its type, and a scan stays within the history.
WatchTypeOK ==
    /\ history \in Seq({"message", "other"}) /\ newer \in BOOLEAN /\ inPool \in BOOLEAN
    /\ watchPc \in WatchStages
    /\ baseLT \in Nat /\ knownLT \in Nat /\ found \in Nat
    /\ seenLT \in 0..Len(history) /\ cursorLT \in 0..seenLT
    /\ watchPc = "scan" => cursorLT >= 1

\* No transaction of the message is passed over: everything up to the known
\* transaction has been looked at, although pages are read backwards, may be
\* of any length, and a scan may fail half-way.  So the message is not sent
\* again once the account, in the block looked at, has executed it.
MessageNotSkipped ==
    /\ Watching => \A i \in (baseLT + 1)..knownLT : history[i] # "message"
    /\ watchPc = "resend" => \A i \in (baseLT + 1)..seenLT : history[i] # "message"

\* A message that is executed while it is watched is confirmed or the watch
\* times out, unless the history can never be read.
InclusionNoticed ==
    <>[][~(watchPc = "scan" /\ scanFails)]_watchVars =>
      ((Watching /\ \E i \in DOMAIN history : i > baseLT /\ history[i] = "message")
         ~> watchPc \in {"confirmed", "timeout"})
=============================================================================
