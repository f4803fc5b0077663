----------------------------- MODULE Positions ------------------------------
(***************************************************************************)
(* The exchange's liquidity positions: PoolFinder looks for the pool of    *)
(* two currencies and saves every pool it finds in state/user, which the   *)
(* localStorage keeps; the Pool page lists, among the saved pools, the     *)
(* pinned ones and those of each listed token with the bases, the pools    *)
(* the account has a share of.  Reserves and balances come through the     *)
(* multicalls, per chain, and the wallet may change chains on either page. *)
(***************************************************************************)
EXTENDS Integers, FiniteSets

CONSTANTS
  DexChains,       \* the chains
  DexTokens,       \* tokens, numbered in the order of their addresses
  chainOfToken,    \* the chain of each
  wethOf,          \* WETH
  trackedBases,    \* BASES_TO_TRACK_LIQUIDITY_FOR
  PINNED_PAIRS,    \* of all chains
  Listed,          \* the tokens of the selected list
  Deployed,        \* the pools that exist, pairs of tokens
  coin, noCurrency,\* ETHER, and null
  MaxDexMoves      \* bound: changes of chain, page, share, and reloads

DexPairs == {t \in DexTokens \X DexTokens : t[1] < t[2] /\ chainOfToken[t[1]] = chainOfToken[t[2]]}
ASSUME PositionsAssumption ==
  /\ DexTokens \subseteq Nat /\ chainOfToken \in [DexTokens -> DexChains]
  /\ wethOf \in [DexChains -> DexTokens] /\ \A c \in DexChains : chainOfToken[wethOf[c]] = c
  /\ trackedBases \in [DexChains -> SUBSET DexTokens]
  /\ \A c \in DexChains : \A b \in trackedBases[c] : chainOfToken[b] = c
  /\ PINNED_PAIRS \subseteq DexTokens \X DexTokens
  /\ \A t \in PINNED_PAIRS : t[1] # t[2] /\ chainOfToken[t[1]] = chainOfToken[t[2]]
  /\ Listed \subseteq DexTokens /\ Deployed \subseteq DexPairs /\ MaxDexMoves \in Nat

VARIABLES
  dexChain,    \* useActiveWeb3React's chain
  dexPage,     \* "find" or "pool"; "crashed" when rendering threw
  finder,      \* PoolFinder's useStates
  savedPairs,  \* state.user.pairs
  reserves,    \* what the multicalls know of each chain's pools ...
  shares,      \* ... and of the account's shares
  owned,       \* the shares the account has
  imported,    \* history: pools the finder has shown
  dexMoves

posVars == <<dexChain, dexPage, finder, savedPairs, reserves, shares, owned, imported, dexMoves>>

onChains(x) == [c \in DexChains |-> [t \in DexPairs |-> x]]
newFinder == [showSearch |-> FALSE, activeField |-> 1, currency |-> <<coin, noCurrency>>]

PositionsInit ==
  /\ dexChain \in DexChains /\ dexPage = "find" /\ finder = newFinder
  /\ savedPairs = [c \in DexChains |-> {}]
  /\ reserves = onChains("loading") /\ shares = onChains("loading")
  /\ owned \in [Deployed -> {"none", "some"}]
  /\ imported = {} /\ dexMoves = 0

DexMove == dexMoves < MaxDexMoves /\ dexMoves' = dexMoves + 1

-----------------------------------------------------------------------------
wrappedCurrency(x, c) == IF x = coin THEN wethOf[c] ELSE x
sorted(t) == IF t[1] < t[2] THEN t ELSE <<t[2], t[1]>>

(* The two tokens of the finder on chain c; Pair.getAddress throws when    *)
(* they are of two chains, which takes the page away.                      *)
tokensOf(f, c) == <<wrappedCurrency(f.currency[1], c), wrappedCurrency(f.currency[2], c)>>
chosen(f) == noCurrency \notin {f.currency[1], f.currency[2]}
throws(f, c) ==
  chosen(f) /\ chainOfToken[tokensOf(f, c)[1]] # chainOfToken[tokensOf(f, c)[2]]

(* usePair: the pool asked for, and the pair once it is known to exist.    *)
asked(f, c) ==
  IF chosen(f) /\ ~throws(f, c) /\ tokensOf(f, c)[1] # tokensOf(f, c)[2]
  THEN {sorted(tokensOf(f, c))} ELSE {}
usePair(f, c, res) == {t \in asked(f, c) : res[c][t] = "exists"}

(* addSerializedPair files a pair under its tokens' chain.                 *)
addSerializedPair(S) ==
  [c \in DexChains |-> savedPairs[c] \cup {t \in S : chainOfToken[t[1]] = c}]

(* PoolFinder renders f on chain c with the reserves res: it throws, or    *)
(* saves the pair it found.                                                *)
RendersFinder(f, c, res) ==
  IF throws(f, c)
  THEN dexPage' = "crashed" /\ UNCHANGED <<savedPairs, imported>>
  ELSE /\ dexPage' = "find"
       /\ savedPairs' = addSerializedPair(usePair(f, c, res))
       /\ imported' = imported \cup usePair(f, c, res)

(* The finder's buttons, and the search's choice of a currency.            *)
OpenSearch(i) ==
  /\ dexPage = "find" /\ ~finder.showSearch
  /\ finder' = [finder EXCEPT !.showSearch = TRUE, !.activeField = i]
  /\ UNCHANGED <<dexChain, dexPage, savedPairs, reserves, shares, owned, imported, dexMoves>>

FinderSelects(x) ==
  /\ dexPage = "find" /\ finder.showSearch
  /\ x \in {coin} \cup {y \in DexTokens : chainOfToken[y] = dexChain}
  /\ finder' = [finder EXCEPT !.showSearch = FALSE, !.currency[finder.activeField + 1] = x]
  /\ RendersFinder(finder', dexChain, reserves)
  /\ UNCHANGED <<dexChain, reserves, shares, owned, dexMoves>>

handleSearchDismiss ==
  /\ dexPage = "find" /\ finder.showSearch
  /\ finder' = [finder EXCEPT !.showSearch = FALSE]
  /\ UNCHANGED <<dexChain, dexPage, savedPairs, reserves, shares, owned, imported, dexMoves>>

-----------------------------------------------------------------------------
(* useTrackedTokenPairs: each pool once, whoever tracks it.                *)
pinnedPairs(c) == {t \in PINNED_PAIRS : chainOfToken[t[1]] = c}
generatedPairs(c) ==
  {t \in trackedBases[c] \X {y \in Listed : chainOfToken[y] = c} : t[1] # t[2]}
dedupe_Unsorted(S) == S
dedupe(S) == {sorted(t) : t \in S}
useTrackedTokenPairs ==
  dedupe(savedPairs[dexChain] \cup generatedPairs(dexChain) \cup pinnedPairs(dexChain))

(* The Pool page: the shares of the tracked pools, the reserves of those   *)
(* the account has a share of, and once all shares are known a card for    *)
(* each of them.  Reserves are not waited for: an entry [state, pair] is   *)
(* never falsy.                                                            *)
pooled == {t \in useTrackedTokenPairs : shares[dexChain][sorted(t)] = "some"}
v2IsLoading == \E t \in useTrackedTokenPairs : shares[dexChain][sorted(t)] = "loading"
cards ==
  IF v2IsLoading THEN {} ELSE {t \in pooled : reserves[dexChain][sorted(t)] = "exists"}

(* Calls of the page shown are answered; on another chain there is nothing *)
(* at the pool's address.                                                  *)
Reserves(t) ==
  /\ \/ dexPage = "find" /\ t \in asked(finder, dexChain)
     \/ dexPage = "pool" /\ t \in {sorted(x) : x \in pooled}
  /\ reserves[dexChain][t] = "loading"
  /\ reserves' = [reserves EXCEPT ![dexChain][t] =
       IF t \in Deployed /\ chainOfToken[t[1]] = dexChain THEN "exists" ELSE "none"]
  /\ IF dexPage = "find" THEN RendersFinder(finder, dexChain, reserves')
     ELSE UNCHANGED <<dexPage, savedPairs, imported>>
  /\ UNCHANGED <<dexChain, finder, shares, owned, dexMoves>>

useTokenBalances(t) ==
  /\ \/ dexPage = "find" /\ t \in usePair(finder, dexChain, reserves)
     \/ dexPage = "pool" /\ t \in {sorted(x) : x \in useTrackedTokenPairs}
  /\ shares' = [shares EXCEPT ![dexChain][t] =
       IF t \in Deployed /\ chainOfToken[t[1]] = dexChain THEN owned[t] ELSE "none"]
  /\ shares' # shares
  /\ UNCHANGED <<dexChain, dexPage, finder, savedPairs, reserves, owned, imported, dexMoves>>

-----------------------------------------------------------------------------
SwitchDexChain(c) ==
  /\ DexMove
  /\ c # dexChain /\ dexChain' = c
  /\ IF dexPage = "find" THEN RendersFinder(finder, c, reserves)
     ELSE UNCHANGED <<dexPage, savedPairs, imported>>
  /\ UNCHANGED <<finder, reserves, shares, owned>>

GoToPool ==
  /\ dexPage = "find" /\ dexPage' = "pool" /\ finder' = newFinder
  /\ UNCHANGED <<dexChain, savedPairs, reserves, shares, owned, imported, dexMoves>>

GoToFinder ==
  /\ DexMove
  /\ dexPage = "pool" /\ dexPage' = "find"
  /\ UNCHANGED <<dexChain, finder, savedPairs, reserves, shares, owned, imported>>

(* A share is bought or sold, by a page or elsewhere.                      *)
ShareChanges(t) ==
  /\ DexMove
  /\ owned' = [owned EXCEPT ![t] = IF @ = "none" THEN "some" ELSE "none"]
  /\ UNCHANGED <<dexChain, dexPage, finder, savedPairs, reserves, shares, imported>>

(* The page is loaded again: of all this, state.user is in the             *)
(* localStorage.                                                           *)
ReloadDex ==
  /\ DexMove
  /\ dexPage' \in {"find", "pool"} /\ dexPage \in {dexPage', "crashed"}
  /\ finder' = newFinder /\ reserves' = onChains("loading") /\ shares' = onChains("loading")
  /\ UNCHANGED <<dexChain, savedPairs, owned, imported>>

PositionsNext ==
  \/ \E i \in {0, 1} : OpenSearch(i)
  \/ \E x \in DexTokens \cup {coin} : FinderSelects(x)
  \/ handleSearchDismiss \/ GoToPool \/ GoToFinder \/ ReloadDex
  \/ \E t \in DexPairs : Reserves(t) \/ useTokenBalances(t)
  \/ \E c \in DexChains : SwitchDexChain(c)
  \/ \E t \in Deployed : ShareChanges(t)

-----------------------------------------------------------------------------
(* A pool that was found once stays on the Pool page of its chain, exactly *)
(* once, as long as the account has a share of it and no tracked pool's    *)
(* share is loading: whatever else tracks it, whichever chain the wallet   *)
(* went to, and after a reload.                                            *)
ImportedOnce ==
  dexPage = "pool" /\ ~v2IsLoading =>
    \A t \in {p \in imported : chainOfToken[p[1]] = dexChain} :
      (shares[dexChain][t] = "some" /\ reserves[dexChain][t] = "exists") =>
        Cardinality({x \in cards : sorted(x) = t}) = 1
=============================================================================
