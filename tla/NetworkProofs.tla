--------------------------- MODULE NetworkProofs ---------------------------
(***************************************************************************)
(* Theorems about the stores that follow the network, for any chains,      *)
(* calls, listeners, transactions, lists and bounds: Multicall,            *)
(* Transactions and TokenLists.                                            *)
(***************************************************************************)
EXTENDS Multicall, Transactions, TokenLists, WellFoundedInduction, TLAPS

(* The smallest of some numbers is one of them.                            *)
LEMMA MinIsMember ==
  ASSUME NEW S \in SUBSET Nat, S # {}
  PROVE  Min(S) \in S
<1>1. PICK x \in S : \A y \in S : ~ (<<y, x>> \in OpToRel(<, Nat))
  BY WFMin, NatLessThanWellFounded
<1>2. ASSUME NEW y \in S PROVE x =< y
  <2>1. <<y, x>> \in Nat \X Nat => <<y, x>>[1] = y /\ <<y, x>>[2] = x
    OBVIOUS
  <2>2. ~ (y < x)
    BY <1>1, <2>1 DEF OpToRel
  <2>. QED BY <2>2
<1>. QED BY <1>2 DEF Min

-----------------------------------------------------------------------------
(* Multicall.  A call asked for waits for a block later than its result,   *)
(* and every fetch is for a block: so an error is only ever recorded over  *)
(* an earlier result.                                                      *)

McInv == McTypeOK /\ FetchAhead

Results == [data : Data, blockNumber : Nat, fetchingBlockNumber : Nat]
Ahead(r) == r.fetchingBlockNumber # 0 => r.blockNumber < r.fetchingBlockNumber

(* What is out of date is older than the chain's last block.               *)
LEMMA OutdatedIsOlder ==
  ASSUME McTypeOK, NEW k \in outdatedListeningKeys
  PROVE  /\ k \in CallKeys /\ latest[chain] \in Nat \ {0}
         /\ callResults[chain][k].blockNumber < latest[chain]
<1>1. /\ k \in CallKeys /\ latest[chain] # 0
      /\ \/ callResults[chain][k].blockNumber = 0
         \/ callResults[chain][k].blockNumber < minDataBlockNumber(k)
  BY DEF outdatedListeningKeys, activeListeningKeys
<1>2. latest[chain] \in Nat /\ callResults[chain][k] \in Results
  BY <1>1 DEF McTypeOK, Results
<1> DEFINE live == liveRates(k) \cup {Infinity}
<1>3. live \subseteq Nat \ {0}
  <2>1. Infinity > MaxBlock[chain] /\ MaxBlock[chain] \in Nat /\ Infinity \in Nat
    BY MulticallAssumption DEF McTypeOK
  <2>2. Rates \subseteq Nat \ {0}
    BY MulticallAssumption DEF Rates
  <2>3. Infinity \in Nat \ {0}
    BY <2>1
  <2>4. liveRates(k) \subseteq Rates
    BY DEF liveRates
  <2>. QED BY <2>2, <2>3, <2>4, Zenon
<1>4. Min(live) \in live
  BY <1>3, MinIsMember
<1>5. maxAge(k) \in Nat \ {0}
  BY <1>3, <1>4 DEF maxAge
<1>. QED BY <1>1, <1>2, <1>5 DEF minDataBlockNumber, Results

LEMMA FetchingResult ==
  ASSUME NEW r \in Results, Ahead(r), NEW n \in Nat, r.blockNumber < n, NEW f, f.block = n
  PROVE  /\ fetchingMulticallResults(r, f) \in Results
         /\ Ahead(fetchingMulticallResults(r, f))
         /\ fetchingMulticallResults(r, f).blockNumber >= r.blockNumber
BY DEF Results, Ahead, fetchingMulticallResults

LEMMA ErrorResult ==
  ASSUME NEW r \in Results, Ahead(r), NEW f \in Fetches
  PROVE  /\ errorFetchingMulticallResults(r, f) \in Results
         /\ Ahead(errorFetchingMulticallResults(r, f))
         /\ errorFetchingMulticallResults(r, f).blockNumber >= r.blockNumber
BY DEF Results, Data, Fetches, Ahead, errorFetchingMulticallResults

LEMMA UpdatedResult ==
  ASSUME NEW r \in Results, Ahead(r), NEW n \in Nat
  PROVE  /\ updateMulticallResults(r, n) \in Results
         /\ Ahead(updateMulticallResults(r, n))
         /\ updateMulticallResults(r, n).blockNumber >= r.blockNumber
BY DEF Results, Data, Ahead, updateMulticallResults

LEMMA McInitInv == McInit => McInv
BY DEF McInit, McInv, McTypeOK, FetchAhead, perCall, noResult, Data, Fetches

(* A step that replaces the results of one chain.                          *)
Advancing(r, s) == Ahead(s) /\ s.blockNumber >= r.blockNumber

LEMMA ResultsStep ==
  ASSUME McInv, NEW c \in ChainIds, NEW R \in [CallKeys -> Results],
         callResults' = [callResults EXCEPT ![c] = R],
         \A k \in CallKeys : Advancing(callResults[c][k], R[k])
  PROVE  /\ callResults' \in [ChainIds -> [CallKeys -> Results]]
         /\ \A d \in ChainIds, k \in CallKeys :
              Advancing(callResults[d][k], callResults'[d][k])
<1>1. callResults \in [ChainIds -> [CallKeys -> Results]]
  BY DEF McInv, McTypeOK, Results
<1>2. ASSUME NEW d \in ChainIds, NEW k \in CallKeys, d # c
      PROVE  Advancing(callResults[d][k], callResults'[d][k])
  <2>1. callResults'[d] = callResults[d]
    BY <1>1, <1>2
  <2>2. callResults[d][k] \in Results
    BY <1>1
  <2>3. Ahead(callResults[d][k])
    BY DEF McInv, FetchAhead, Ahead
  <2>. QED BY <2>1, <2>2, <2>3 DEF Advancing, Results
<1>3. callResults'[c] = R
  BY <1>1
<1>. QED BY <1>1, <1>2, <1>3

LEMMA UpdaterStep ==
  ASSUME McInv, Updater
  PROVE  /\ McTypeOK'
         /\ \A d \in ChainIds, k \in CallKeys :
              Advancing(callResults[d][k], callResults'[d][k])
<1> DEFINE n == latest[chain]
           R == [k \in CallKeys |-> IF k \in outdatedListeningKeys
                   THEN fetchingMulticallResults(callResults[chain][k], [block |-> n])
                   ELSE callResults[chain][k]]
<1>1. McTypeOK /\ chain \in ChainIds
  BY DEF McInv, McTypeOK
<1>2. n \in Nat \ {0}
  BY <1>1, OutdatedIsOlder DEF Updater
<1>3. callResults' = [callResults EXCEPT ![chain] = R]
  BY <1>1 DEF Updater, McTypeOK
<1>4. ASSUME NEW k \in CallKeys
      PROVE  R[k] \in Results /\ Advancing(callResults[chain][k], R[k])
  <2>1. callResults[chain][k] \in Results /\ Ahead(callResults[chain][k])
    BY <1>1 DEF McInv, McTypeOK, FetchAhead, Ahead, Results
  <2>2. CASE k \in outdatedListeningKeys
    <3>1. callResults[chain][k].blockNumber < n
      BY <1>1, <2>2, OutdatedIsOlder
    <3>. QED BY <1>2, <2>1, <2>2, <3>1, FetchingResult DEF Advancing
  <2>3. CASE k \notin outdatedListeningKeys
    BY <2>1, <2>3 DEF Advancing, Results
  <2>. QED BY <2>2, <2>3
<1>5. R \in [CallKeys -> Results]
  BY <1>4
<1>6. fetches' \subseteq Fetches
  <2>1. \A i : chunkArray(outdatedListeningKeys, i) \subseteq CallKeys
    BY <1>1, OutdatedIsOlder DEF chunkArray
  <2>2. fetches \subseteq Fetches
    BY <1>1 DEF McTypeOK
  <2> DEFINE kept == {f \in fetches : f.id \notin cancelled}
             free == (1 .. MaxFetches) \ {f.id : f \in kept}
             ids == {i \in free : rank(i, free) < numChunks(outdatedListeningKeys)}
             new == {[id |-> i, chain |-> chain, block |-> latest[chain],
                      keys |-> chunkArray(outdatedListeningKeys, rank(i, free))] : i \in ids}
  <2>3. fetches' = kept \cup new
    BY DEF Updater
  <2>4. kept \subseteq Fetches
    BY <2>2
  <2>5. ASSUME NEW i \in ids
        PROVE  [id |-> i, chain |-> chain, block |-> latest[chain],
                keys |-> chunkArray(outdatedListeningKeys, rank(i, free))] \in Fetches
    <3>1. i \in 1 .. MaxFetches
      OBVIOUS
    <3>2. chunkArray(outdatedListeningKeys, rank(i, free)) \in SUBSET CallKeys
      BY <2>1
    <3>. QED BY <1>1, <1>2, <3>1, <3>2 DEF Fetches
  <2>6. new \subseteq Fetches
    BY <2>5
  <2>. QED BY <2>3, <2>4, <2>6
<1>7. callResults' \in [ChainIds -> [CallKeys -> Results]]
  BY <1>1, <1>3, <1>4, <1>5, ResultsStep
<1>8. UNCHANGED <<chain, latest, left, mounted>>
  BY DEF Updater
<1>. QED BY <1>1, <1>3, <1>4, <1>5, <1>6, <1>7, <1>8, ResultsStep DEF McTypeOK, Results

LEMMA FetchedStep ==
  ASSUME McInv, NEW f \in fetches, Fetched(f) \/ FetchFailed(f)
  PROVE  /\ McTypeOK'
         /\ \A d \in ChainIds, k \in CallKeys :
              Advancing(callResults[d][k], callResults'[d][k])
<1> DEFINE old == callResults[f.chain]
<1>1. McTypeOK /\ f \in Fetches
  BY DEF McInv, McTypeOK
<1>2. f.chain \in ChainIds /\ f.block \in Nat /\ MaxBlock[f.chain] \in Nat
  BY <1>1, MulticallAssumption DEF Fetches
<1>3. \A k \in CallKeys : old[k] \in Results /\ Ahead(old[k])
  BY <1>1, <1>2 DEF McInv, McTypeOK, FetchAhead, Ahead, Results
<1>4. \A k \in CallKeys : Advancing(old[k], old[k])
  BY <1>3 DEF Advancing, Results
<1>5. CASE Fetched(f)
  <2>1. PICK n \in f.block .. MaxBlock[f.chain] :
          callResults' = [callResults EXCEPT ![f.chain] =
            [k \in CallKeys |-> IF k \in f.keys
               THEN updateMulticallResults(old[k], n) ELSE old[k]]]
    BY <1>1, <1>2, <1>5 DEF Fetched, McTypeOK
  <2> DEFINE R == [k \in CallKeys |-> IF k \in f.keys
                     THEN updateMulticallResults(old[k], n) ELSE old[k]]
  <2>2. n \in Nat
    BY <1>2
  <2>3. \A k \in CallKeys : R[k] \in Results /\ Advancing(old[k], R[k])
    BY <1>3, <1>4, <2>2, UpdatedResult DEF Advancing
  <2>4. R \in [CallKeys -> Results]
    BY <2>3
  <2>. HIDE DEF R
  <2>5. /\ callResults' \in [ChainIds -> [CallKeys -> Results]]
        /\ \A d \in ChainIds, k \in CallKeys :
             Advancing(callResults[d][k], callResults'[d][k])
    BY <1>2, <2>1, <2>3, <2>4, ResultsStep DEF R
  <2>. QED BY <1>1, <1>5, <2>5 DEF Fetched, McTypeOK, Results
<1>6. CASE FetchFailed(f)
  <2> DEFINE R == [k \in CallKeys |-> IF k \in f.keys
                     THEN errorFetchingMulticallResults(old[k], f) ELSE old[k]]
  <2>1. callResults' = [callResults EXCEPT ![f.chain] = R]
    BY <1>1, <1>2, <1>6 DEF FetchFailed, McTypeOK
  <2>3. \A k \in CallKeys : R[k] \in Results /\ Advancing(old[k], R[k])
    BY <1>1, <1>3, <1>4, ErrorResult DEF Advancing
  <2>4. R \in [CallKeys -> Results]
    BY <2>3
  <2>. HIDE DEF R
  <2>5. /\ callResults' \in [ChainIds -> [CallKeys -> Results]]
        /\ \A d \in ChainIds, k \in CallKeys :
             Advancing(callResults[d][k], callResults'[d][k])
    BY <1>2, <2>1, <2>3, <2>4, ResultsStep DEF R
  <2>. QED BY <1>1, <1>6, <2>5 DEF FetchFailed, McTypeOK, Results
<1>. QED BY <1>5, <1>6

(* What the page does leaves the results as they are.                      *)
LEMMA PageStep ==
  ASSUME McInv, UNCHANGED <<callResults, fetches>>,
         \/ \E s \in Subscriptions : Mount(s) \/ Unmount(s)
         \/ \E c \in ChainIds : SwitchTo(c) \/ NewBlock(c)
         \/ useDebounce \/ UNCHANGED mcVars
  PROVE  /\ McTypeOK'
         /\ \A d \in ChainIds, k \in CallKeys :
              Advancing(callResults[d][k], callResults'[d][k])
<1>1. /\ chain' \in ChainIds /\ left' \subseteq ChainIds /\ mounted' \subseteq Subscriptions
      /\ latest' \in [ChainIds -> Nat]
  <2>1. CASE \E s \in Subscriptions : Mount(s) \/ Unmount(s)
    BY <2>1 DEF McInv, McTypeOK, Mount, Unmount
  <2>2. CASE \E c \in ChainIds : SwitchTo(c) \/ NewBlock(c)
    BY <2>2 DEF McInv, McTypeOK, SwitchTo, NewBlock
  <2>3. CASE useDebounce \/ UNCHANGED mcVars
    BY <2>3 DEF McInv, McTypeOK, useDebounce, mcVars
  <2>. QED BY <2>1, <2>2, <2>3
<1>2. McTypeOK'
  BY <1>1 DEF McInv, McTypeOK
<1>3. \A d \in ChainIds, k \in CallKeys : callResults[d][k] \in Results
  BY DEF McInv, McTypeOK, Results
<1>. QED BY <1>2, <1>3 DEF McInv, FetchAhead, Ahead, Advancing, Results

LEMMA McStep ==
  ASSUME McInv, [McNext]_mcVars
  PROVE  /\ McInv'
         /\ \A d \in ChainIds, k \in CallKeys :
              Advancing(callResults[d][k], callResults'[d][k])
<1>1. /\ McTypeOK'
      /\ \A d \in ChainIds, k \in CallKeys :
           Advancing(callResults[d][k], callResults'[d][k])
  <2>1. CASE Updater
    BY <2>1, UpdaterStep
  <2>2. CASE \E f \in fetches : Fetched(f) \/ FetchFailed(f)
    BY <2>2, FetchedStep
  <2>3. CASE \/ \E s \in Subscriptions : Mount(s) \/ Unmount(s)
             \/ \E c \in ChainIds : SwitchTo(c) \/ NewBlock(c)
             \/ useDebounce \/ UNCHANGED mcVars
    <3>1. UNCHANGED <<callResults, fetches>>
      BY <2>3 DEF Mount, Unmount, SwitchTo, NewBlock, useDebounce, mcVars
    <3>. QED BY <2>3, <3>1, PageStep
  <2>. QED BY <2>1, <2>2, <2>3 DEF McNext
<1>2. FetchAhead'
  BY <1>1 DEF Advancing, Ahead, FetchAhead
<1>. QED BY <1>1, <1>2 DEF McInv

(* Whatever is mounted, cancelled, overtaken or late, what is recorded of  *)
(* a call being fetched is a fetch for a block after its result's, so that *)
(* an error of that fetch never replaces a newer answer.                   *)
THEOREM FetchesAreAhead == McSpec => []FetchAhead
<1>1. McInit => McInv
  BY McInitInv
<1>2. McInv /\ [McNext]_mcVars => McInv'
  BY McStep
<1>3. McInv => FetchAhead
  BY DEF McInv
<1>. QED BY <1>1, <1>2, <1>3, PTL DEF McSpec

(* No result a component has seen is ever replaced by that of an earlier   *)
(* block: on any chains, for any calls, chunks and rates of polling.       *)
THEOREM McResultsAdvance == McSpec => ResultsAdvance
<1>1. McInit => McInv
  BY McInitInv
<1>2. McInv /\ [McNext]_mcVars => McInv'
  BY McStep
<1>3. McInv /\ [McNext]_mcVars =>
        [\A c \in ChainIds, k \in CallKeys :
           callResults'[c][k].blockNumber >= callResults[c][k].blockNumber]_mcVars
  BY McStep DEF Advancing
<1>. QED BY <1>1, <1>2, <1>3, PTL DEF McSpec, ResultsAdvance

-----------------------------------------------------------------------------
(* TokenLists.  Every case of the reducer keeps what is pending newer than *)
(* what is current; nothing need be known of versions, or of requests.     *)

IsList(l) == {"current", "pendingUpdate"} \subseteq DOMAIN l
Newer(l) == l.pendingUpdate # 0 =>
              l.current # 0 /\ getVersionUpgrade(l.current, l.pendingUpdate) # "NONE"
Sound(l) == IsList(l) /\ Newer(l)

ListInv == byUrl = [u \in ListUrls |-> byUrl[u]] /\ \A u \in ListUrls : Sound(byUrl[u])

LEMMA NewListSound ==
  ASSUME NEW v
  PROVE  /\ Sound(NEW_LIST_STATE) /\ Sound([NEW_LIST_STATE EXCEPT !.current = v])
         /\ Sound([NEW_LIST_STATE EXCEPT !.error = TRUE])
BY DEF Sound, IsList, Newer, NEW_LIST_STATE

LEMMA ReducerSound ==
  ASSUME NEW l, Sound(l), NEW id, NEW v
  PROVE  /\ Sound(fetchPending(l, id)) /\ Sound(fetchFulfilled(l, id, v))
         /\ Sound(fetchRejected(l, id)) /\ Sound(acceptListUpdate(l))
<1>1. Sound(fetchPending(l, id)) /\ Sound(acceptListUpdate(l))
  BY DEF Sound, IsList, Newer, fetchPending, acceptListUpdate
<1>2. Sound(fetchRejected(l, id))
  BY NewListSound DEF fetchRejected
<1>3. Sound(fetchFulfilled(l, id, v))
  <2>1. CASE l.current = 0
    BY <2>1, NewListSound DEF fetchFulfilled
  <2>2. CASE l.current # 0
    BY <2>2 DEF Sound, IsList, Newer, fetchFulfilled
  <2>. QED BY <2>1, <2>2
<1>. QED BY <1>1, <1>2, <1>3

LEMMA ListsStep ==
  ASSUME ListInv, [ListsNext]_listVars
  PROVE  ListInv'
<1>1. CASE ListsUpdater
  BY <1>1, ReducerSound DEF ListsUpdater, ListInv
<1>2. CASE fetchAllListsCallback
  BY <1>2, ReducerSound DEF fetchAllListsCallback, ListInv
<1>3. CASE \E q \in listRequests : ListFetched(q) \/ ListFetchFailed(q)
  BY <1>3, ReducerSound DEF ListFetched, ListFetchFailed, ListInv
<1>4. CASE \E p \in listPopups : handleAcceptUpdate(p) \/ removeThisPopup(p)
  BY <1>4, ReducerSound DEF handleAcceptUpdate, removeThisPopup, ListInv
<1>5. CASE UNCHANGED byUrl
  BY <1>5 DEF ListInv
<1>. QED BY <1>1, <1>2, <1>3, <1>4, <1>5 DEF ListsNext, ListsHide, Publish, listVars

(* Whatever requests overtake each other or fail, and whatever the server  *)
(* publishes, a list is only offered a version newer than it has.          *)
THEOREM ListsUpdatesAreNewer == ListsSpec => []UpdatesAreNewer
<1>1. ListsInit => ListInv
  <2>1. \A u \in ListUrls : Sound(initialLists[u])
    BY NewListSound DEF initialLists
  <2>. QED BY <2>1 DEF ListsInit, ListInv, initialLists
<1>2. ListInv /\ [ListsNext]_listVars => ListInv'
  BY ListsStep
<1>3. ListInv => UpdatesAreNewer
  BY DEF ListInv, Sound, Newer, UpdatesAreNewer, bump
<1>. QED BY <1>1, <1>2, <1>3, PTL DEF ListsSpec

-----------------------------------------------------------------------------
(* Transactions.  Every number of a block that is on its way to the store, *)
(* through the listener, a question or the debounce, is of a block its     *)
(* chain has, whichever chain the page is on when it arrives.              *)

Known(s) == /\ s = [chainId |-> s.chainId, blockNumber |-> s.blockNumber]
            /\ s.chainId \in TxChains
            /\ \/ s.blockNumber = null
               \/ s.blockNumber \in Nat /\ s.blockNumber <= head[s.chainId]

FeedInv ==
  /\ webChain \in TxChains
  /\ head \in [TxChains -> Nat] /\ blockNumber \in [TxChains -> Nat]
  /\ \A c \in TxChains : blockNumber[c] <= head[c]
  /\ Known(feed) /\ Known(feedDebounced)
  /\ \A q \in blockQueries : /\ q = <<q[1], q[2]>> /\ q[1] \in TxChains
                              /\ q[2] \in Nat /\ q[2] <= head[q[1]]

LEMMA TxInitFeed == TxInit => FeedInv /\ Feed!FeedInit
<1>1. TxInit => /\ webChain \in TxChains /\ head \in [TxChains -> Nat]
                /\ blockNumber = [c \in TxChains |-> 0] /\ blockQueries = {}
                /\ Known(feed) /\ Known(feedDebounced)
  <2> SUFFICES ASSUME TxInit
               PROVE  /\ webChain \in TxChains /\ head \in [TxChains -> Nat]
                      /\ blockNumber = [c \in TxChains |-> 0] /\ blockQueries = {}
                      /\ Known(feed) /\ Known(feedDebounced)
    OBVIOUS
  <2>1. webChain \in TxChains /\ head = [c \in TxChains |-> 1] /\ feedDebounced = feed
    BY DEF TxInit
  <2>2. Known(feed)
    <3>1. feed = [chainId |-> webChain, blockNumber |-> null]
      BY DEF TxInit
    <3>. QED BY <2>1, <3>1 DEF Known
  <2>3. blockNumber = [c \in TxChains |-> 0] /\ blockQueries = {}
    BY DEF TxInit
  <2>. QED BY <2>1, <2>2, <2>3
<1>. QED BY <1>1 DEF FeedInv, Feed!FeedInit

(* The listener's callback.                                                *)
LEMMA CallbackKnown ==
  ASSUME FeedInv, NEW c \in TxChains, NEW n \in Nat, n <= head[c]
  PROVE  Known(blockNumberCallback(c, n))
BY DEF FeedInv, Known, blockNumberCallback

(* What the reducer makes of a known block: nothing, or a later number.    *)
LEMMA DispatchLearns ==
  ASSUME FeedInv, NEW s, Known(s), NEW v,
         blockNumber' = dispatched(s, v), UNCHANGED head
  PROVE  /\ blockNumber' \in [TxChains -> Nat]
         /\ \A c \in TxChains : blockNumber'[c] <= head[c]
         /\ Feed!Learned \/ UNCHANGED blockNumber
<1>1. CASE ~(v /\ s.blockNumber # null) \/ blockNumber[s.chainId] >= s.blockNumber
  <2>1. blockNumber' = blockNumber
    BY <1>1 DEF dispatched, updateBlockNumber, FeedInv, Known
  <2>. QED BY <2>1 DEF FeedInv
<1>2. CASE v /\ s.blockNumber # null /\ blockNumber[s.chainId] < s.blockNumber
  <2>1. s.chainId \in TxChains /\ s.blockNumber \in Nat /\ s.blockNumber <= head[s.chainId]
    BY <1>2 DEF Known
  <2>2. blockNumber' = [blockNumber EXCEPT ![s.chainId] = s.blockNumber]
    <3>1. blockNumber' = updateBlockNumber(s)
      BY <1>2 DEF dispatched
    <3>2. ~ (blockNumber[s.chainId] > s.blockNumber)
      BY <1>2, <2>1 DEF FeedInv
    <3>. QED BY <3>1, <3>2 DEF updateBlockNumber
  <2>3. s.blockNumber \in blockNumber[s.chainId] + 1 .. head[s.chainId]
    BY <1>2, <2>1 DEF FeedInv
  <2>4. Feed!Learned
    BY <2>1, <2>2, <2>3 DEF Feed!Learned
  <2>. QED BY <2>1, <2>2, <2>4 DEF FeedInv
<1>. QED BY <1>1, <1>2 DEF FeedInv, Known

LEMMA FeedStep ==
  ASSUME FeedInv, [TxNext]_txVars
  PROVE  FeedInv' /\ [Feed!Mined \/ Feed!Learned \/ Feed!Forgotten]_<<head, blockNumber>>
<1>1. CASE Attach
  <2>1. Known([chainId |-> webChain, blockNumber |-> null])
    BY DEF FeedInv, Known
  <2>2. Known(feed') /\ UNCHANGED <<webChain, head, feedDebounced, blockNumber>>
    BY <1>1, <2>1 DEF Attach, FeedInv
  <2>3. blockQueries' \subseteq blockQueries \cup {<<webChain, 0>>}
    BY <1>1 DEF Attach
  <2>. QED BY <2>2, <2>3 DEF FeedInv, Known
<1>2. CASE Debounce
  <2>1. /\ blockNumber' \in [TxChains -> Nat]
        /\ \A c \in TxChains : blockNumber'[c] <= head[c]
        /\ Feed!Learned \/ UNCHANGED blockNumber
    BY <1>2, DispatchLearns DEF Debounce, FeedInv
  <2>2. feedDebounced' = feed /\ UNCHANGED <<webChain, head, feed, blockQueries>>
    BY <1>2 DEF Debounce
  <2>. QED BY <2>1, <2>2 DEF FeedInv, Known
<1>3. CASE useIsWindowVisible
  <2>1. /\ blockNumber' \in [TxChains -> Nat]
        /\ \A c \in TxChains : blockNumber'[c] <= head[c]
        /\ Feed!Learned \/ UNCHANGED blockNumber
    BY <1>3, DispatchLearns DEF useIsWindowVisible, FeedInv
  <2>2. UNCHANGED <<webChain, head, feed, feedDebounced, blockQueries>>
    BY <1>3 DEF useIsWindowVisible
  <2>. QED BY <2>1, <2>2 DEF FeedInv, Known
<1>4. CASE Reload
  <2>1. Known([chainId |-> webChain, blockNumber |-> null])
    BY DEF FeedInv, Known
  <2>2. /\ Known(feed') /\ Known(feedDebounced') /\ blockQueries' = {}
        /\ UNCHANGED <<webChain, head>> /\ blockNumber' = [c \in TxChains |-> 0]
    BY <1>4, <2>1 DEF Reload
  <2>3. Feed!Forgotten
    BY <2>2 DEF Feed!Forgotten
  <2>. QED BY <2>2, <2>3 DEF FeedInv, Known
<1>5. ASSUME NEW q \in blockQueries, getBlockNumber(q)
      PROVE  FeedInv' /\ UNCHANGED <<head, blockNumber>>
  <2>1. UNCHANGED <<webChain, head, feed, feedDebounced, blockNumber>>
    BY <1>5 DEF getBlockNumber
  <2>2. blockQueries' \subseteq blockQueries \cup {<<q[1], head[q[1]]>>}
    BY <1>5 DEF getBlockNumber
  <2>. QED BY <2>1, <2>2 DEF FeedInv, Known
<1>6. ASSUME NEW q \in blockQueries, BlockNumberAnswered(q)
      PROVE  FeedInv' /\ UNCHANGED <<head, blockNumber>>
  <2>1. Known(feed')
    BY <1>6, CallbackKnown DEF BlockNumberAnswered, FeedInv
  <2>2. UNCHANGED <<webChain, head, feedDebounced, blockNumber>> /\ blockQueries' \subseteq blockQueries
    BY <1>6 DEF BlockNumberAnswered
  <2>. QED BY <2>1, <2>2 DEF FeedInv, Known
<1>7. ASSUME NEW c \in TxChains, Block(c)
      PROVE  FeedInv' /\ Feed!Mined
  <2>1. /\ head' = [head EXCEPT ![c] = @ + 1]
        /\ UNCHANGED <<webChain, feedDebounced, blockQueries, blockNumber>>
        /\ feed' = IF attached = c THEN blockNumberCallback(c, head'[c]) ELSE feed
    BY <1>7 DEF Block
  <2>2. head' \in [TxChains -> Nat] /\ \A d \in TxChains : head[d] <= head'[d]
    BY <2>1 DEF FeedInv
  <2>3. Known(feed)' /\ Known(feedDebounced)'
    BY <2>1, <2>2 DEF FeedInv, Known, blockNumberCallback
  <2>4. \A q \in blockQueries : q[2] <= head'[q[1]]
    BY <2>2 DEF FeedInv
  <2>5. \A d \in TxChains : blockNumber[d] <= head'[d]
    BY <2>2 DEF FeedInv
  <2>6. Feed!Mined
    BY <2>1 DEF Feed!Mined
  <2>. QED BY <2>1, <2>2, <2>3, <2>4, <2>5, <2>6 DEF FeedInv
<1>8. ASSUME NEW c \in TxChains, ChangeWebChain(c)
      PROVE  FeedInv' /\ UNCHANGED <<head, blockNumber>>
  BY <1>8 DEF ChangeWebChain, appState, FeedInv, Known
<1>9. CASE UNCHANGED <<webChain, head, appState>>
  BY <1>9 DEF appState, FeedInv, Known
<1>10. \/ Attach \/ Debounce \/ useIsWindowVisible \/ Reload
       \/ \E q \in blockQueries : getBlockNumber(q) \/ BlockNumberAnswered(q)
       \/ \E c \in TxChains : Block(c) \/ ChangeWebChain(c)
       \/ UNCHANGED <<webChain, head, appState>>
  BY DEF TxNext, txVars, useTransactionAdder, Ages, Receipt, NoReceipt, ReceiptFailed,
         PopupCloses
<1>. QED BY <1>1, <1>2, <1>3, <1>4, <1>5, <1>6, <1>7, <1>8, <1>9, <1>10

(* The store's block numbers are BlockFeed's: each is of a block its chain *)
(* has and never goes back while the page lives, whatever was switched,    *)
(* hidden, reloaded or overtaken.                                          *)
THEOREM FollowsChain == TxSpec => BlockNumberFollowsChain
<1>1. TxInit => FeedInv /\ Feed!FeedInit
  BY TxInitFeed
<1>2. FeedInv /\ [TxNext]_txVars =>
        FeedInv' /\ [Feed!Mined \/ Feed!Learned \/ Feed!Forgotten]_<<head, blockNumber>>
  BY FeedStep
<1>. QED BY <1>1, <1>2, PTL DEF TxSpec, BlockNumberFollowsChain, Feed!FeedSpec, Feed!feedVars

-----------------------------------------------------------------------------
(* A receipt recorded is the transaction's own, and what is asked for is   *)
(* known: so a transaction that a popup is about stays final.              *)

TxStore(txs) ==
  /\ txs = [h \in Hashes |-> txs[h]]
  /\ \A h \in Hashes : {"known", "receipt"} \subseteq DOMAIN txs[h]
Receipted(txs) == \A h \in Hashes : txs[h].receipt # 0 => txs[h].receipt = minedAt[h]
Asked(txs, Q) == \A q \in Q : q.hash \in Hashes /\ txs[q.hash].known

PopupInv ==
  /\ minedAt = [h \in Hashes |-> minedAt[h]]
  /\ TxStore(transactions) /\ Receipted(transactions) /\ Asked(transactions, receiptQueries)
  /\ popupList \subseteq [key : Hashes, show : BOOLEAN]
  /\ PopupsOfFinal

LEMMA UpdatesAsked ==
  ASSUME NEW c, NEW txs, NEW n
  PROVE  Asked(txs, Updates(c, txs, n))
<1> SUFFICES ASSUME NEW q \in Updates(c, txs, n)
             PROVE  q.hash \in Hashes /\ txs[q.hash].known
  BY DEF Asked
<1> DEFINE asked == {h \in Hashes : chainOf[h] = c /\ n # 0 /\ shouldCheck(n, txs[h])}
           used(h) == {r.id : r \in {p \in receiptQueries : p.hash = h}}
           query(h) == [id |-> CHOOSE i \in 1 .. Cardinality(used(h)) + 1 : i \notin used(h),
                        chainId |-> c, hash |-> h, lastBlockNumber |-> n]
<1>1. PICK h \in asked : q = query(h)
  BY Zenon DEF Updates
<1>2. query(h).hash = h
  OBVIOUS
<1>. QED BY <1>1, <1>2 DEF shouldCheck

(* A step that only replaces transactions: what is known stays known, what *)
(* is receipted stays as it was or gets its block.                         *)
LEMMA StoreStep ==
  ASSUME PopupInv, NEW txs, TxStore(txs), Receipted(txs),
         \A h \in Hashes : transactions[h].known => txs[h].known,
         \A h \in Hashes : transactions[h].receipt # 0 => txs[h].receipt = transactions[h].receipt,
         transactions' = txs, UNCHANGED minedAt,
         NEW c, NEW n, receiptQueries' \subseteq receiptQueries \cup Updates(c, txs, n),
         UNCHANGED popupList
  PROVE  PopupInv'
<1>1. Asked(txs, receiptQueries')
  BY UpdatesAsked DEF PopupInv, Asked
<1>2. \A p \in popupList : txs[p.key].receipt = minedAt[p.key]
  BY DEF PopupInv, PopupsOfFinal
<1>. QED BY <1>1, <1>2 DEF PopupInv, PopupsOfFinal, TxStore, Receipted, Asked

LEMMA TxInitPopups == TxInit => PopupInv
BY DEF TxInit, PopupInv, TxStore, Receipted, Asked, unsent, PopupsOfFinal

LEMMA ReceiptStep ==
  ASSUME PopupInv, NEW q \in receiptQueries, Receipt(q)
  PROVE  PopupInv'
<1> DEFINE h == q.hash
           txs == [transactions EXCEPT ![h].receipt = minedAt[h]]
<1>1. h \in Hashes /\ transactions[h].known /\ minedAt[h] # 0 /\ UNCHANGED minedAt
  BY DEF PopupInv, Asked, Receipt
<1>2. transactions' = txs
  BY <1>1 DEF Receipt, Dispatched, finalizeTransaction, receiptChain
<1>3. TxStore(txs) /\ Receipted(txs) /\ txs[h].receipt = minedAt[h]
  BY <1>1 DEF PopupInv, TxStore, Receipted
<1>4. \A g \in Hashes : /\ txs[g].known = transactions[g].known
                       /\ g # h => txs[g] = transactions[g]
  BY <1>1 DEF PopupInv, TxStore
<1>5. Asked(txs, receiptQueries')
  <2>1. receiptQueries' \subseteq receiptQueries \cup Updates(webChain, txs, blockNumber[webChain])
    BY <1>2 DEF Receipt, Dispatched
  <2>2. Asked(txs, receiptQueries)
    BY <1>4 DEF PopupInv, Asked
  <2>. QED BY <2>1, <2>2, UpdatesAsked DEF Asked
<1>6. popupList' = {p \in popupList : p.key # h} \cup {[key |-> h, show |-> TRUE]}
  BY DEF Receipt, addPopup
<1>7. /\ popupList' \subseteq [key : Hashes, show : BOOLEAN]
      /\ \A p, r \in popupList' : p.key = r.key => p = r
  <2> DEFINE new == [key |-> h, show |-> TRUE]
  <2>1. new \in [key : Hashes, show : BOOLEAN] /\ new.key = h
    BY <1>1
  <2>2. popupList \subseteq [key : Hashes, show : BOOLEAN]
    BY DEF PopupInv
  <2>3. \A p, r \in popupList : p.key = r.key => p = r
    BY DEF PopupInv, PopupsOfFinal
  <2>. HIDE DEF new
  <2>. QED BY <1>6, <2>1, <2>2, <2>3 DEF new
<1>8. \A p \in popupList' : txs[p.key].receipt = minedAt[p.key] /\ minedAt[p.key] # 0
  BY <1>1, <1>3, <1>4, <1>6 DEF PopupInv, PopupsOfFinal
<1>. QED BY <1>1, <1>2, <1>3, <1>5, <1>7, <1>8
         DEF PopupInv, PopupsOfFinal, TxStore, Receipted, Asked

LEMMA PopupStep ==
  ASSUME PopupInv, [TxNext]_txVars
  PROVE  PopupInv'
<1>1. CASE \/ Attach \/ Debounce \/ useIsWindowVisible
           \/ \E c \in TxChains : ChangeWebChain(c)
           \/ \E q \in blockQueries : getBlockNumber(q) \/ BlockNumberAnswered(q)
           \/ \E q \in receiptQueries : ReceiptFailed(q)
           \/ UNCHANGED txVars
  <2>1. UNCHANGED <<minedAt, transactions, popupList>>
    BY <1>1 DEF Attach, Debounce, useIsWindowVisible, ChangeWebChain, getBlockNumber,
                BlockNumberAnswered, ReceiptFailed, txVars, txState
  <2>2. \E c, n : receiptQueries' \subseteq receiptQueries \cup Updates(c, transactions, n)
    BY <1>1 DEF Attach, Debounce, useIsWindowVisible, ChangeWebChain, getBlockNumber,
                BlockNumberAnswered, ReceiptFailed, txVars, txState, Polls
  <2>. QED BY <2>1, <2>2, StoreStep DEF PopupInv
<1>2. ASSUME NEW c \in TxChains, Block(c)
      PROVE  PopupInv'
  <2>1. /\ UNCHANGED <<transactions, receiptQueries, popupList>>
        /\ minedAt' = [h \in Hashes |-> minedAt'[h]]
        /\ \A h \in Hashes : minedAt[h] # 0 => minedAt'[h] = minedAt[h]
    BY <1>2 DEF Block, txState
  <2>2. \A h \in Hashes : transactions[h].receipt # 0 => minedAt'[h] = minedAt[h]
    BY <2>1 DEF PopupInv, Receipted
  <2>. QED BY <2>1, <2>2 DEF PopupInv, PopupsOfFinal, Receipted, TxStore, Asked
<1>3. ASSUME NEW h \in Hashes, useTransactionAdder(h) \/ Ages(h)
      PROVE  PopupInv'
  <2>1. UNCHANGED <<minedAt, popupList>>
    BY <1>3 DEF useTransactionAdder, Ages
  <2>2. /\ TxStore(transactions')
        /\ \A g \in Hashes : /\ transactions[g].known => transactions'[g].known
                            /\ transactions'[g].receipt = transactions[g].receipt
    BY <1>3 DEF useTransactionAdder, Ages, addTransaction, PopupInv, TxStore
  <2>3. \E c, n : receiptQueries' \subseteq receiptQueries \cup Updates(c, transactions', n)
    BY <1>3 DEF useTransactionAdder, Ages
  <2>4. Receipted(transactions')
    BY <2>2 DEF PopupInv, Receipted
  <2>. QED BY <2>1, <2>2, <2>3, <2>4, StoreStep
<1>4. ASSUME NEW q \in receiptQueries, NoReceipt(q)
      PROVE  PopupInv'
  <2>1. UNCHANGED <<minedAt, popupList>>
    BY <1>4 DEF NoReceipt
  <2>2. /\ TxStore(transactions')
        /\ \A g \in Hashes : /\ transactions[g].known => transactions'[g].known
                            /\ transactions'[g].receipt = transactions[g].receipt
    BY <1>4 DEF NoReceipt, Dispatched, checkedTransaction, PopupInv, TxStore
  <2>3. receiptQueries' \subseteq
          receiptQueries \cup Updates(webChain, transactions', blockNumber[webChain])
    BY <1>4 DEF NoReceipt, Dispatched
  <2>4. Receipted(transactions')
    BY <2>2 DEF PopupInv, Receipted
  <2>. QED BY <2>1, <2>2, <2>3, <2>4, StoreStep
<1>5. ASSUME NEW p \in popupList, PopupCloses(p)
      PROVE  PopupInv'
  <2>1. UNCHANGED <<minedAt, transactions, receiptQueries>>
    BY <1>5 DEF PopupCloses
  <2>2. \A r \in popupList : r \in [key : Hashes, show : BOOLEAN]
    BY DEF PopupInv
  <2>3. \A r \in popupList : /\ [r EXCEPT !.show = FALSE] \in [key : Hashes, show : BOOLEAN]
                             /\ [r EXCEPT !.show = FALSE].key = r.key
    BY <2>2
  <2>4. \A s \in popupList' : \E r \in popupList :
          /\ s = IF r.key = p.key THEN [r EXCEPT !.show = FALSE] ELSE r
          /\ s \in [key : Hashes, show : BOOLEAN] /\ s.key = r.key
    BY <1>5, <2>2, <2>3 DEF PopupCloses, removePopup
  <2>. QED BY <2>1, <2>4 DEF PopupInv, PopupsOfFinal, TxStore, Receipted, Asked
<1>6. CASE Reload
  <2>1. UNCHANGED <<minedAt, transactions>> /\ receiptQueries' = {} /\ popupList' = {}
    BY <1>6 DEF Reload, loadedTransactions
  <2>. QED BY <2>1 DEF PopupInv, PopupsOfFinal, TxStore, Receipted, Asked
<1>. QED BY <1>1, <1>2, <1>3, <1>4, <1>5, <1>6, ReceiptStep DEF TxNext

(* A transaction has at most one popup, and one only when it is final, in  *)
(* the block it was mined in, however often and wherever its receipt was   *)
(* asked for.                                                              *)
THEOREM PopupsAreOfFinal == TxSpec => []PopupsOfFinal
<1>1. TxInit => PopupInv
  BY TxInitPopups
<1>2. PopupInv /\ [TxNext]_txVars => PopupInv'
  BY PopupStep
<1>3. PopupInv => PopupsOfFinal
  BY DEF PopupInv
<1>. QED BY <1>1, <1>2, <1>3, PTL DEF TxSpec
=============================================================================
