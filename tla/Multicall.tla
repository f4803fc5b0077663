----------------------------- MODULE Multicall -----------------------------
(***************************************************************************)
(* state/multicall: components subscribe to contract calls, an updater     *)
(* fetches the calls that are out of date in chunks, and a new block       *)
(* cancels what is still being fetched for the block before.  Answers and  *)
(* errors come in any order, from fetches that were overtaken too.         *)
(***************************************************************************)
EXTENDS Integers, FiniteSets, FiniteSetsExt

CONSTANTS
  ChainIds,        \* the chains the wallet may be on
  CallKeys,        \* keys of calls, numbers
  Subscriptions,   \* the components that call useCallsData
  keyOf,           \* the call each is interested in
  blocksPerFetch,  \* and how old its data may be: 1, or Infinity
  Infinity,        \* NEVER_RELOAD's, more than any block number
  ChunkSize,       \* CALL_CHUNK_SIZE
  MaxBlock,        \* bound: the blocks of each chain
  MaxFetches,      \* bound: fetches under way at once
  MaxMoves         \* bound: components mounted and chains switched to

ASSUME MulticallAssumption ==
  /\ MaxBlock \in [ChainIds -> Nat] /\ Infinity \in Nat
  /\ \A c \in ChainIds : Infinity > MaxBlock[c]
  /\ CallKeys \subseteq Nat /\ ChunkSize \in Nat \ {0} /\ MaxFetches \in Nat /\ MaxMoves \in Nat
  /\ keyOf \in [Subscriptions -> CallKeys]
  /\ blocksPerFetch \in [Subscriptions -> Nat \ {0}]

VARIABLES
  chain,         \* useActiveWeb3React's chain
  latest,        \* useBlockNumber on each chain, 0 before the first
  left,          \* history: chains left since their last block
  moves,         \* components mounted and chains switched to
  mounted,       \* the subscriptions of the components on the page
  debounced,     \* callListeners 100 ms ago, and the chains they were of
  callListeners, \* the listeners of each chain's calls, by blocksPerFetch
  callResults,   \* the results of each chain's calls
  fetches,       \* chunks being fetched
  cancellations  \* the ref: the block, and the fetches that can be cancelled

mcVars == <<chain, latest, left, moves, mounted, debounced, callListeners, callResults,
            fetches, cancellations>>

Rates == {blocksPerFetch[s] : s \in Subscriptions}
noListener == [listed |-> FALSE, count |-> [b \in Rates |-> 0]]
noResult == [data |-> "undefined", blockNumber |-> 0, fetchingBlockNumber |-> 0]
perCall(x) == [c \in ChainIds |-> [k \in CallKeys |-> x]]

Data == {"undefined", "null", "value"}
Fetches == [id: 1 .. MaxFetches, chain: ChainIds, keys: SUBSET CallKeys, block: Nat \ {0}]
McTypeOK ==
  /\ chain \in ChainIds /\ left \subseteq ChainIds /\ mounted \subseteq Subscriptions
  /\ latest \in [ChainIds -> Nat]
  /\ callResults \in [ChainIds -> [CallKeys ->
       [data : Data, blockNumber : Nat, fetchingBlockNumber : Nat]]]
  /\ fetches \subseteq Fetches

McInit ==
  /\ chain \in ChainIds /\ latest = [c \in ChainIds |-> 0] /\ left = {} /\ moves = 0
  /\ mounted = {}
  /\ callListeners = perCall(noListener) /\ debounced = callListeners
  /\ callResults = perCall(noResult)
  /\ fetches = {}
  /\ cancellations = [block |-> 0, ids |-> {}]

-----------------------------------------------------------------------------
(* The reducer's listeners.  A call whose last listener left stays listed. *)
listenersOf(k, b, S) == Cardinality({s \in S : keyOf[s] = k /\ blocksPerFetch[s] = b})
addMulticallListeners(ls, c, S) ==
  [ls EXCEPT ![c] = [k \in CallKeys |->
     [listed |-> @[k].listed \/ \E s \in S : keyOf[s] = k,
      count |-> [b \in Rates |-> @[k].count[b] + listenersOf(k, b, S)]]]]
removeMulticallListeners(ls, c, S) ==
  [ls EXCEPT ![c] = [k \in CallKeys |->
     [@[k] EXCEPT !.count = [b \in Rates |->
        IF @[b] = 0 THEN 0 ELSE @[b] - listenersOf(k, b, S)]]]]

(* What the reducer makes of a chunk's fate: a call asked for, ...         *)
fetchingMulticallResults(r, f) ==
  IF r.fetchingBlockNumber >= f.block THEN r
  ELSE [r EXCEPT !.fetchingBlockNumber = f.block]
(* ... an error, of the fetch the call waits for, ...                      *)
errorFetchingMulticallResults(r, f) ==
  IF r.fetchingBlockNumber = f.block
  THEN [data |-> "null", blockNumber |-> f.block, fetchingBlockNumber |-> 0]
  ELSE r
(* ... and an answer of block n, unless the result is of a later one.      *)
updateMulticallResults_Unguarded(r, n) ==
  [data |-> "value", blockNumber |-> n, fetchingBlockNumber |-> 0]
updateMulticallResults(r, n) ==
  IF r.blockNumber > n THEN r
  ELSE [data |-> "value", blockNumber |-> n, fetchingBlockNumber |-> 0]

(* useCallsData's effect on [chainId, options, calls] and its cleanup.     *)
Mount(s) ==
  /\ moves < MaxMoves /\ moves' = moves + 1
  /\ s \notin mounted /\ mounted' = mounted \cup {s}
  /\ callListeners' = addMulticallListeners(callListeners, chain, {s})
  /\ UNCHANGED <<chain, latest, left, debounced, callResults, fetches, cancellations>>

Unmount(s) ==
  /\ s \in mounted /\ mounted' = mounted \ {s}
  /\ callListeners' = removeMulticallListeners(callListeners, chain, {s})
  /\ UNCHANGED <<chain, latest, left, moves, debounced, callResults, fetches, cancellations>>

SwitchTo(c) ==
  /\ moves < MaxMoves /\ moves' = moves + 1
  /\ c # chain /\ chain' = c /\ left' = left \cup {chain}
  /\ callListeners' =
       addMulticallListeners(removeMulticallListeners(callListeners, chain, mounted), c, mounted)
  /\ UNCHANGED <<latest, mounted, debounced, callResults, fetches, cancellations>>

NewBlock(c) ==
  /\ latest[c] < MaxBlock[c] /\ latest' = [latest EXCEPT ![c] = @ + 1]
  /\ left' = left \ {c}
  /\ UNCHANGED <<chain, moves, mounted, debounced, callListeners, callResults, fetches,
                 cancellations>>

(* useDebounce(state.callListeners, 100).                                  *)
useDebounce ==
  /\ debounced # callListeners /\ debounced' = callListeners
  /\ UNCHANGED <<chain, latest, left, moves, mounted, callListeners, callResults, fetches,
                 cancellations>>

-----------------------------------------------------------------------------
(* The listed calls of the chain, and how old their data may be: Infinity  *)
(* for NEVER_RELOAD, whose key parseInt does not read, and for a call      *)
(* nobody listens to any more.                                             *)
activeListeningKeys == {k \in CallKeys : debounced[chain][k].listed}
liveRates(k) == {b \in Rates : debounced[chain][k].count[b] > 0}
maxAge(k) == Min(liveRates(k) \cup {Infinity})
minDataBlockNumber(k) == latest[chain] - (maxAge(k) - 1)

alreadyFetching(k) ==
  LET f == callResults[chain][k].fetchingBlockNumber
  IN  f # 0 /\ f >= minDataBlockNumber(k)

outdatedListeningKeys ==
  IF latest[chain] = 0 THEN {}
  ELSE {k \in activeListeningKeys :
          LET r == callResults[chain][k] IN
          /\ ~alreadyFetching(k)
          /\ r.blockNumber = 0 \/ r.blockNumber < minDataBlockNumber(k)}

(* chunkArray: the i-th chunk of at most ChunkSize calls, evenly.          *)
rank(x, S) == Cardinality({y \in S : y < x})
numChunks(keys) == (Cardinality(keys) + ChunkSize - 1) \div ChunkSize
chunkArray(keys, i) ==
  LET size == (Cardinality(keys) + numChunks(keys) - 1) \div numChunks(keys)
  IN  {k \in keys : rank(k, keys) \div size = i}

(* What a new block cancels: the fetches of the ref, if it is of another.  *)
cancelled_SameBlock ==
  IF cancellations.block = latest[chain] THEN cancellations.ids ELSE {}
cancelled ==
  IF cancellations.block # latest[chain] THEN cancellations.ids ELSE {}

(* The updater's effect: after it nothing is out of date until a result, a *)
(* block or a listener makes it so.                                        *)
Updater ==
  /\ outdatedListeningKeys # {}
  /\ LET kept == {f \in fetches : f.id \notin cancelled}
         free == (1 .. MaxFetches) \ {f.id : f \in kept}
         number == numChunks(outdatedListeningKeys)
         ids == {i \in free : rank(i, free) < number}
         new == {[id |-> i, chain |-> chain, block |-> latest[chain],
                  keys |-> chunkArray(outdatedListeningKeys, rank(i, free))] : i \in ids}
     IN
     /\ number <= Cardinality(free)
     /\ fetches' = kept \cup new
     /\ callResults' = [callResults EXCEPT ![chain] =
          [k \in CallKeys |-> IF k \in outdatedListeningKeys
             THEN fetchingMulticallResults(@[k], [block |-> latest[chain]]) ELSE @[k]]]
     /\ cancellations' = [block |-> latest[chain], ids |-> ids]
  /\ UNCHANGED <<chain, latest, left, moves, mounted, debounced, callListeners>>

-----------------------------------------------------------------------------
(* retry(fetchChunk): a node behind the block is asked again, until it     *)
(* answers for the block or a later one.  The ref is replaced: what else   *)
(* was fetched with the chunk can no longer be cancelled.                  *)
Fetched(f) ==
  /\ \E n \in f.block .. MaxBlock[f.chain] :
       callResults' = [callResults EXCEPT ![f.chain] =
         [k \in CallKeys |-> IF k \in f.keys
            THEN updateMulticallResults(@[k], n) ELSE @[k]]]
  /\ fetches' = fetches \ {f}
  /\ cancellations' = [block |-> f.block, ids |-> {}]
  /\ UNCHANGED <<chain, latest, left, moves, mounted, debounced, callListeners>>

FetchFailed(f) ==
  /\ callResults' = [callResults EXCEPT ![f.chain] =
       [k \in CallKeys |-> IF k \in f.keys
          THEN errorFetchingMulticallResults(@[k], f) ELSE @[k]]]
  /\ fetches' = fetches \ {f}
  /\ cancellations' = [cancellations EXCEPT !.ids = @ \ {f.id}]
  /\ UNCHANGED <<chain, latest, left, moves, mounted, debounced, callListeners>>

FetchEnds(i) == \E f \in fetches : f.id = i /\ (Fetched(f) \/ FetchFailed(f))

McNext ==
  \/ \E s \in Subscriptions : Mount(s) \/ Unmount(s)
  \/ \E c \in ChainIds : SwitchTo(c) \/ NewBlock(c)
  \/ useDebounce \/ Updater
  \/ \E f \in fetches : Fetched(f) \/ FetchFailed(f)

McSpec == McInit /\ [][McNext]_mcVars

-----------------------------------------------------------------------------
(* What a component sees of a call of the chain (toCallState).             *)
toCallState(k) ==
  LET r == callResults[chain][k] IN
  [loading |-> r.blockNumber = 0 \/ latest[chain] = 0,
   syncing |-> r.blockNumber < latest[chain],
   error   |-> r.blockNumber # 0 /\ r.data # "value"]

(* A call a component reloads with every block.                            *)
Polled(k) == \E s \in mounted : keyOf[s] = k /\ blocksPerFetch[s] = 1

(* No answer, error or overtaken fetch takes a result back to an earlier   *)
(* block than a component has seen.                                        *)
ResultsAdvance ==
  [][\A c \in ChainIds, k \in CallKeys :
       callResults'[c][k].blockNumber >= callResults[c][k].blockNumber]_mcVars

(* A call that is waited for waits for a block later than its result.      *)
FetchAhead ==
  \A c \in ChainIds, k \in CallKeys :
    LET r == callResults[c][k] IN
    r.fetchingBlockNumber # 0 => r.blockNumber < r.fetchingBlockNumber

(* Again and again nothing polled on the page is syncing, whatever was     *)
(* cancelled and overtaken, unless the wallet left the chain since its     *)
(* last block (the fetch cancelled then is not made again before the next).*)
Refreshed ==
  []<>(chain \in left \/ latest[chain] = 0 \/ \A k \in CallKeys : Polled(k) => ~toCallState(k).syncing)
=============================================================================
