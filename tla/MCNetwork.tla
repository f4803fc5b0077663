----------------------------- MODULE MCNetwork -----------------------------
(***************************************************************************)
(* What copies the chain off it.  In the frontend's store: the multicalls, *)
(* the block number with the user's transactions, and the token lists,     *)
(* which share no state but the wallet's chain and the page's visibility.  *)
(* In the backend's database: the pools and the tokens, which share the    *)
(* tokens' records.  Each module lets what it shares change at any time,   *)
(* so each is explored while the others rest.                              *)
(***************************************************************************)
EXTENDS Multicall, Transactions, TokenLists, PoolMirror, TokenMirror

VARIABLE part   \* the part explored

Parts == {"multicall", "transactions", "lists", "pools", "tokens"}
backendVars == <<mirrorVars, tokenVars>>
networkVars == <<part, mcVars, txVars, listVars, backendVars>>

MCkeyOf == [s \in Subscriptions |-> IF s = "balance" THEN 1 ELSE 2]
MCblocksPerFetch == [s \in Subscriptions |-> IF s = "symbol" THEN Infinity ELSE 1]
MCMaxBlock == [c \in ChainIds |-> IF c = 1 THEN 2 ELSE 1]
MCchainOf == [h \in Hashes |-> 1]
MCInterval == [a \in 0 .. 1 |-> a + 1]
MCMaxTip == [c \in TxChains |-> IF c = 1 THEN 3 ELSE 1]
MCmajorOf == [v \in 1 .. 4 |-> IF v = 4 THEN 2 ELSE 1]

(* The page was opened on the first chain; the transactions' part explores *)
(* the other too.                                                          *)
AtStart == chain = 1 /\ (part = "transactions" \/ webChain = 1)

Init ==
  /\ part \in Parts
  /\ McInit /\ TxInit /\ ListsInit /\ MirrorInit /\ TokenInit
  /\ AtStart

Next ==
  \/ part = "multicall" /\ McNext /\ UNCHANGED <<part, txVars, listVars, backendVars>>
  \/ part = "transactions" /\ TxNext /\ UNCHANGED <<part, mcVars, listVars, backendVars>>
  \/ part = "lists" /\ ListsNext /\ UNCHANGED <<part, mcVars, txVars, backendVars>>
  \/ part = "pools" /\ MirrorNext /\ UNCHANGED <<part, mcVars, txVars, listVars, tokenVars>>
  \/ part = "tokens" /\ TokenNext /\ UNCHANGED <<part, mcVars, txVars, listVars, mirrorVars>>

(* Effects run after every render and timers fire; retry ends with an      *)
(* answer or an error; a node answers while the page stays, and a chain    *)
(* has new blocks.  The scheduler starts the jobs again, a job that was    *)
(* started ends, and Redis drops what has expired.                         *)
Fairness ==
  /\ WF_mcVars(part = "multicall" /\ Updater)
  /\ WF_mcVars(part = "multicall" /\ useDebounce)
  /\ \A i \in 1 .. MaxFetches : WF_mcVars(part = "multicall" /\ FetchEnds(i))
  /\ WF_txVars(part = "transactions" /\ Attach)
  /\ WF_txVars(part = "transactions" /\ Debounce)
  /\ WF_txVars(part = "transactions" /\
               \E q \in blockQueries : getBlockNumber(q) \/ BlockNumberAnswered(q))
  /\ WF_txVars(part = "transactions" /\ \E q \in receiptQueries : ReceiptAnswered(q))
  /\ \A c \in TxChains : WF_txVars(part = "transactions" /\ Block(c))
  /\ WF_mirrorVars(part = "pools" /\ PoolBaseInfo(Scheduled))
  /\ \A r \in PoolRuns : WF_mirrorVars(part = "pools" /\ Progress(r))
  /\ \A key \in {"base", "data"} : WF_mirrorVars(part = "pools" /\ Expire(key))
  /\ WF_tokenVars(part = "tokens" /\ ~missed /\ Fetch(ScheduledPrice))
  /\ \A r \in Jobs : WF_tokenVars(part = "tokens" /\ ~missed /\ JobGoesOn(r))
  /\ WF_tokenVars(part = "tokens" /\ ~missed /\ SetRecord(PoolRun))
  /\ WF_tokenVars(part = "tokens" /\ ~missed /\ SaveTokenInfo)

Spec == Init /\ [][Next]_networkVars /\ Fairness

(* The backend's copies.  Once the pool rests, the tables come to hold it  *)
(* and go on holding it, whatever failed, overlapped or was restarted      *)
(* before: a digest kept of something that was not saved, or overwritten   *)
(* by an older run, expires.                                               *)
PoolsMirrored == part = "pools" => PoolRowsMirrored

(* And its price of a token comes to be the oracle's, although other jobs  *)
(* write the token's record back with the price they had read.             *)
PricesMirrored == part = "tokens" => TokenPriceMirrored
=============================================================================
