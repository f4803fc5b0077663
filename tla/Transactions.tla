---------------------------- MODULE Transactions ----------------------------
(***************************************************************************)
(* The parts of the frontend's store that follow the chain:                *)
(* state/application (the block number of the connected chain, from a      *)
(* question and from events, debounced by 100 ms, and the popups) and      *)
(* state/transactions (the receipts of what the user sent, asked for with  *)
(* each block, less often the longer a transaction is pending).            *)
(*                                                                         *)
(* The page may be hidden, which stops the block number; be switched to    *)
(* another chain while questions about the first are unanswered; and be    *)
(* closed or loaded again: the transactions are in the localStorage, the   *)
(* rest is lost.  clearAllTransactions is never dispatched.                *)
(***************************************************************************)
EXTENDS Integers, FiniteSets

CONSTANTS
  TxChains,      \* the chains
  Hashes,        \* transactions the user sends
  chainOf,       \* the chain each is sent to
  Interval,      \* blocks between checks by age: 1, 3 after 5 minutes, 10 after an hour
  MaxTip,        \* bound: the blocks of each chain
  LastMined,     \* bound: the last block that holds transactions of the user
  MaxEvents,     \* bound: changes of chain, of visibility, and reloads
  null           \* JavaScript's

ASSUME TxAssumption ==
  /\ chainOf \in [Hashes -> TxChains]
  /\ 0 \in DOMAIN Interval /\ \A a \in DOMAIN Interval : Interval[a] \in Nat \ {0}
  /\ MaxTip \in [TxChains -> Nat] /\ LastMined \in Nat /\ MaxEvents \in Nat
  /\ null \notin TxChains /\ null \notin Nat

VARIABLES
  webChain,     \* useActiveWeb3React's chain
  head,         \* the last block of each chain
  minedAt,      \* the block that holds a transaction, 0 before
  visible,      \* useIsWindowVisible
  events,       \* changes of chain, of visibility, and reloads so far
  attached,     \* the chain the provider's listener is for, or null
  feed,         \* the updater's state, [chainId, blockNumber]
  feedDebounced,\* useDebounce of it
  blockQueries, \* getBlockNumber: <<chain, 0>> asked, <<chain, n>> answered
  blockNumber,  \* state.application.blockNumber, 0 for undefined
  transactions, \* state.transactions: what is known of each hash
  receiptQueries, \* unanswered getTransactionReceipt
  popupList     \* state.application.popupList

appState == <<attached, feed, feedDebounced, blockQueries, blockNumber>>
txState == <<transactions, receiptQueries, popupList>>
txVars == <<webChain, head, minedAt, visible, events, appState, txState>>

-----------------------------------------------------------------------------
unsent == [known |-> FALSE, receipt |-> 0, lastCheckedBlockNumber |-> 0, age |-> 0]

TxInit ==
  /\ webChain \in TxChains /\ head = [c \in TxChains |-> 1]
  /\ minedAt = [h \in Hashes |-> 0]
  /\ visible = TRUE /\ events = 0
  /\ attached = null /\ blockQueries = {}
  /\ feed = [chainId |-> webChain, blockNumber |-> null] /\ feedDebounced = feed
  /\ blockNumber = [c \in TxChains |-> 0]
  /\ transactions = [h \in Hashes |-> unsent]
  /\ receiptQueries = {} /\ popupList = {}

(* The transactions reducer.                                               *)
addTransaction(h) == [transactions EXCEPT ![h].known = TRUE]
checkedTransaction(h, n) ==
  [transactions EXCEPT ![h].lastCheckedBlockNumber = IF @ > n THEN @ ELSE n]
finalizeTransaction(c, h, n) ==
  IF c = chainOf[h] /\ transactions[h].known
  THEN [transactions EXCEPT ![h].receipt = n] ELSE transactions

(* Whether a block is one to ask for the receipt at.                       *)
shouldCheck_EveryInterval(n, tx) ==
  /\ tx.known /\ tx.receipt = 0
  /\ tx.lastCheckedBlockNumber = 0 \/ n - tx.lastCheckedBlockNumber = Interval[tx.age]
shouldCheck(n, tx) ==
  /\ tx.known /\ tx.receipt = 0
  /\ \/ tx.lastCheckedBlockNumber = 0
     \/ n - tx.lastCheckedBlockNumber >= Interval[tx.age]

(* The updater's effect on [chainId, library, transactions,                *)
(* lastBlockNumber]: it asks again for what is still unanswered.           *)
Updates(c, txs, n) ==
  LET asked == {h \in Hashes : chainOf[h] = c /\ n # 0 /\ shouldCheck(n, txs[h])}
      used(h) == {q.id : q \in {r \in receiptQueries : r.hash = h}}
  IN  {[id |-> CHOOSE i \in 1 .. Cardinality(used(h)) + 1 : i \notin used(h),
        chainId |-> c, hash |-> h, lastBlockNumber |-> n] : h \in asked}

-----------------------------------------------------------------------------
(* state/application: the block number.                                    *)

(* The provider's listener, or a question, reports a block of chain c.     *)
blockNumberCallback(c, n) ==
  IF c # feed.chainId THEN feed
  ELSE [chainId |-> c,
        blockNumber |-> IF feed.blockNumber = null \/ feed.blockNumber < n
                        THEN n ELSE feed.blockNumber]

(* The effect on [chainId, library, windowVisible] attaches the listener,  *)
(* or detaches it.                                                         *)
listenedChain == IF visible THEN webChain ELSE null
Attach ==
  /\ attached # listenedChain /\ attached' = listenedChain
  /\ IF visible
     THEN /\ feed' = [chainId |-> webChain, blockNumber |-> null]
          /\ blockQueries' = blockQueries \cup {<<webChain, 0>>}
     ELSE UNCHANGED <<feed, blockQueries>>
  /\ UNCHANGED <<webChain, head, minedAt, visible, events, feedDebounced, blockNumber, txState>>

getBlockNumber(q) ==
  /\ q \in blockQueries /\ q[2] = 0
  /\ blockQueries' = (blockQueries \ {q}) \cup {<<q[1], head[q[1]]>>}
  /\ UNCHANGED <<webChain, head, minedAt, visible, events, attached, feed, feedDebounced,
                 blockNumber, txState>>

BlockNumberAnswered(q) ==
  /\ q \in blockQueries /\ q[2] # 0
  /\ blockQueries' = blockQueries \ {q}
  /\ feed' = blockNumberCallback(q[1], q[2])
  /\ UNCHANGED <<webChain, head, minedAt, visible, events, attached, feedDebounced,
                 blockNumber, txState>>

(* A block of the chain, with some of the user's transactions in it; the   *)
(* listener is told of it.                                                 *)
Block(c) ==
  /\ head[c] < MaxTip[c] /\ head' = [head EXCEPT ![c] = @ + 1]
  /\ \E S \in SUBSET {h \in Hashes : transactions[h].known /\ chainOf[h] = c /\ minedAt[h] = 0} :
       /\ head'[c] > LastMined => S = {}
       /\ minedAt' = [h \in Hashes |-> IF h \in S THEN head'[c] ELSE minedAt[h]]
  /\ feed' = IF attached = c THEN blockNumberCallback(c, head'[c]) ELSE feed
  /\ UNCHANGED <<webChain, visible, events, attached, feedDebounced, blockQueries,
                 blockNumber, txState>>

(* The effect on [windowVisible, debouncedState]: updateBlockNumber.       *)
updateBlockNumber_Last(s) == [blockNumber EXCEPT ![s.chainId] = s.blockNumber]
updateBlockNumber(s) ==
  [blockNumber EXCEPT ![s.chainId] = IF @ > s.blockNumber THEN @ ELSE s.blockNumber]
dispatched(s, v) ==
  IF v /\ s.blockNumber # null THEN updateBlockNumber(s) ELSE blockNumber

(* The store has a new block number for the connected chain, or the page   *)
(* another chain.                                                          *)
Polls(c, n) ==
  receiptQueries' = IF c # webChain \/ n # blockNumber[c]
                    THEN receiptQueries \cup Updates(c, transactions, n) ELSE receiptQueries

Debounce ==
  /\ feedDebounced # feed /\ feedDebounced' = feed
  /\ blockNumber' = dispatched(feed, visible)
  /\ Polls(webChain, blockNumber'[webChain])
  /\ UNCHANGED <<webChain, head, minedAt, visible, events, attached, feed, blockQueries,
                 transactions, popupList>>

useIsWindowVisible ==
  /\ events < MaxEvents /\ events' = events + 1
  /\ visible' = ~visible
  /\ blockNumber' = dispatched(feedDebounced, visible')
  /\ Polls(webChain, blockNumber'[webChain])
  /\ UNCHANGED <<webChain, head, minedAt, attached, feed, feedDebounced, blockQueries,
                 transactions, popupList>>

ChangeWebChain(c) ==
  /\ events < MaxEvents /\ events' = events + 1
  /\ c # webChain /\ webChain' = c
  /\ Polls(c, blockNumber[c])
  /\ UNCHANGED <<head, minedAt, visible, appState, transactions, popupList>>

-----------------------------------------------------------------------------
(* state/transactions.                                                     *)

(* useTransactionAdder: the wallet has sent a transaction.                 *)
useTransactionAdder(h) ==
  /\ ~transactions[h].known /\ chainOf[h] = webChain
  /\ transactions' = addTransaction(h)
  /\ receiptQueries' = receiptQueries \cup Updates(webChain, transactions', blockNumber[webChain])
  /\ UNCHANGED <<webChain, head, minedAt, visible, events, appState, popupList>>

(* Five minutes, and an hour, after it was added.                          *)
Ages(h) ==
  /\ transactions[h].known /\ transactions[h].receipt = 0 
  /\ transactions[h].age + 1 \in DOMAIN Interval
  /\ transactions' = [transactions EXCEPT ![h].age = @ + 1]
  /\ UNCHANGED <<webChain, head, minedAt, visible, events, appState, receiptQueries, popupList>>

(* A change of the connected chain's transactions, a receipt written once  *)
(* more too, runs the effect again.                                        *)
Dispatched(txs, q) ==
  /\ transactions' = txs
  /\ receiptQueries' = (receiptQueries \ {q}) \cup
       IF q.chainId = webChain /\ (txs # transactions \/ txs[q.hash].receipt # 0)
       THEN Updates(webChain, txs, blockNumber[webChain]) ELSE {}

(* addPopup: a popup of the same key is replaced.                          *)
addPopup_Concat(key) == popupList \cup {[key |-> key, show |-> TRUE]}
addPopup(key) == {p \in popupList : p.key # key} \cup {[key |-> key, show |-> TRUE]}
removePopup(key) == {IF p.key = key THEN [p EXCEPT !.show = FALSE] ELSE p : p \in popupList}

(* The answer to getTransactionReceipt: the receipt and its popup ...      *)
receiptChain(q) == q.chainId
Receipt(q) ==
  /\ minedAt[q.hash] # 0 /\ q.chainId = chainOf[q.hash]
  /\ Dispatched(finalizeTransaction(receiptChain(q), q.hash, minedAt[q.hash]), q)
  /\ popupList' = addPopup(q.hash)
  /\ UNCHANGED <<webChain, head, minedAt, visible, events, appState>>

(* ... or none yet ...                                                     *)
NoReceipt(q) ==
  /\ minedAt[q.hash] = 0
  /\ Dispatched(checkedTransaction(q.hash, q.lastBlockNumber), q)
  /\ UNCHANGED <<webChain, head, minedAt, visible, events, appState, popupList>>

(* ... or an error, which leaves it to the next block.                     *)
ReceiptFailed(q) ==
  /\ q.lastBlockNumber < MaxTip[q.chainId]
  /\ receiptQueries' = receiptQueries \ {q}
  /\ UNCHANGED <<webChain, head, minedAt, visible, events, appState, transactions, popupList>>

ReceiptAnswered(q) == q \in receiptQueries /\ (Receipt(q) \/ NoReceipt(q))

(* The popup's close button, or its 15 seconds.                            *)
PopupCloses(p) ==
  /\ p \in popupList /\ p.show
  /\ popupList' = removePopup(p.key)
  /\ UNCHANGED <<webChain, head, minedAt, visible, events, appState, transactions, receiptQueries>>

(* The page is loaded again: PERSISTED_KEYS.                               *)
loadedTransactions == transactions
Reload ==
  /\ events < MaxEvents /\ events' = events + 1
  /\ attached' = null /\ blockQueries' = {} /\ visible' = TRUE
  /\ feed' = [chainId |-> webChain, blockNumber |-> null] /\ feedDebounced' = feed'
  /\ blockNumber' = [c \in TxChains |-> 0]
  /\ transactions' = loadedTransactions
  /\ receiptQueries' = {} /\ popupList' = {}
  /\ UNCHANGED <<webChain, head, minedAt>>

TxNext ==
  \/ Attach \/ Debounce \/ useIsWindowVisible \/ Reload
  \/ \E q \in blockQueries : getBlockNumber(q) \/ BlockNumberAnswered(q)
  \/ \E c \in TxChains : Block(c) \/ ChangeWebChain(c)
  \/ \E h \in Hashes : useTransactionAdder(h) \/ Ages(h)
  \/ \E q \in receiptQueries : Receipt(q) \/ NoReceipt(q) \/ ReceiptFailed(q)
  \/ \E p \in popupList : PopupCloses(p)

TxSpec == TxInit /\ [][TxNext]_txVars

-----------------------------------------------------------------------------
(* The block number polled with is a number the chain has, and never goes  *)
(* back while the page lives: events and answers of a chain that was left, *)
(* of a page that was hidden, or that were overtaken, change nothing.      *)
Feed == INSTANCE BlockFeed WITH FeedChains <- TxChains, tip <- head, number <- blockNumber
BlockNumberFollowsChain == Feed!FeedSpec

(* A mined transaction gets its receipt, however its checks were spread    *)
(* over blocks, chains, reloads and failures, once the page is left alone  *)
(* on the transaction's chain.                                             *)
MinedFinalized ==
  \A h \in Hashes :
    <>[](webChain = chainOf[h] /\ visible) =>
      (minedAt[h] # 0 ~> transactions[h].receipt # 0)

(* A transaction has at most one popup, and one only when it is final,     *)
(* although its receipt may have been asked for several times and have     *)
(* come on another chain.                                                  *)
PopupsOfFinal ==
  /\ \A p, q \in popupList : p.key = q.key => p = q
  /\ \A p \in popupList : transactions[p.key].receipt = minedAt[p.key] /\ minedAt[p.key] # 0
=============================================================================
