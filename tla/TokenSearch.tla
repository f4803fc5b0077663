---------------------------- MODULE TokenSearch -----------------------------
(***************************************************************************)
(* How a currency is chosen in the exchange: from the tokens of the        *)
(* program's list and those the user added, which the localStorage keeps,  *)
(* or by typing an address, whose token is read from its contract.  The    *)
(* token a field holds is looked up the same way: in the list, among the   *)
(* added ones, or at its contract, which is read no more than once.  The   *)
(* selected list is DEFAULT_LIST (another cannot be selected, and it is    *)
(* answered by the program): it changes with the release that is loaded.   *)
(* Words filter and sort the rows, any of which may be shown here.         *)
(***************************************************************************)
EXTENDS Integers

CONSTANTS
  SearchChains, Addresses,
  TokensOn,              \* the tokens whose contracts are on each chain
  Releases,              \* DEFAULT_LIST in the program's releases: tokens on each chain
  nothing, undefined, null,  \* no address; useToken's of no token, and while it loads
  native,                \* ETHER
  MaxSearchMoves         \* bound: changes of chain, reloads, and tokens added

ASSUME SearchAssumption ==
  /\ TokensOn \in [SearchChains -> SUBSET Addresses]
  /\ Releases \subseteq [SearchChains -> SUBSET Addresses]
  /\ {nothing, undefined, null, native} \cap Addresses = {} /\ MaxSearchMoves \in Nat

VARIABLES
  searchChain, \* useActiveWeb3React's chain
  userTokens,  \* state.user.tokens: those added on each chain
  tokenList,   \* useSelectedTokenList
  contracts,   \* the multicalls: what became of the calls to each contract, by chain
  modalOpen,   \* CurrencyInputPanel's
  searchQuery, \* CurrencySearch's: the address typed, if it is one
  currencyId,  \* what the field holds
  searchMoves

searchStore == <<userTokens, tokenList, contracts>>
searchVars == <<searchChain, searchStore, modalOpen, searchQuery, currencyId, searchMoves>>

perChain(x) == [c \in SearchChains |-> x]
notAsked == perChain([a \in Addresses |-> "not asked"])

(* A page may be loaded with a currency in its address.                    *)
SearchInit ==
  /\ searchChain \in SearchChains /\ userTokens = perChain({}) /\ tokenList \in Releases
  /\ contracts = notAsked /\ modalOpen = FALSE /\ searchQuery = nothing
  /\ currencyId \in Addresses \cup {nothing} /\ searchMoves = 0

-----------------------------------------------------------------------------
listed == tokenList[searchChain]
useUserAddedTokens == userTokens[searchChain]
useAllTokens == listed \cup useUserAddedTokens

(* A call whose fetch was cancelled says that it is loading for ever, and  *)
(* one that failed is answered as by a contract that is no token.          *)
useToken(a) ==
  CASE a \in useAllTokens -> a
    [] a \notin useAllTokens /\ contracts[searchChain][a] \in
         {"not asked", "fetching", "cancelled"} -> null
    [] a \in TokensOn[searchChain] \ useAllTokens /\ contracts[searchChain][a] = "read" -> a
    [] OTHER -> undefined
useCurrency(id) ==
  CASE id = native -> native [] id = nothing -> undefined [] OTHER -> useToken(id)

searchToken == {useToken(a) : a \in {searchQuery} \cap Addresses} \cap Addresses
itemData ==
  IF searchQuery \in Addresses THEN searchToken ELSE {native} \cup useAllTokens

(* The field opens the search, which is cleared, and a choice closes it.   *)
SetSearch(open, query, id) == modalOpen' = open /\ searchQuery' = query /\ currencyId' = id

OpenSearchModal ==
  /\ ~modalOpen /\ SetSearch(TRUE, nothing, currencyId)
  /\ UNCHANGED <<searchChain, searchStore, searchMoves>>

handleDismissSearch ==
  /\ modalOpen /\ SetSearch(FALSE, nothing, currencyId)
  /\ UNCHANGED <<searchChain, searchStore, searchMoves>>

handleInput(q) ==
  /\ modalOpen /\ SetSearch(TRUE, q, currencyId)
  /\ UNCHANGED <<searchChain, searchStore, searchMoves>>

(* A row but the field's own currency, which is known only when useToken   *)
(* finds it; Enter takes the first row.                                    *)
selectFound(currency) ==
  /\ modalOpen /\ currency \in itemData /\ currency # useCurrency(currencyId)
  /\ SetSearch(FALSE, nothing, currency)
  /\ UNCHANGED <<searchChain, searchStore, searchMoves>>

(* The buttons of a row that is not on the list.                           *)
SearchMove == searchMoves < MaxSearchMoves /\ searchMoves' = searchMoves + 1

addToken(a) ==
  /\ SearchMove /\ modalOpen /\ a \in itemData \ (useAllTokens \cup {native})
  /\ userTokens' = [userTokens EXCEPT ![searchChain] = @ \cup {a}]
  /\ UNCHANGED <<searchChain, tokenList, contracts, modalOpen, searchQuery, currencyId>>

removeToken(a) ==
  /\ modalOpen /\ a \in itemData /\ a \in useUserAddedTokens \ listed
  /\ userTokens' = [userTokens EXCEPT ![searchChain] = @ \ {a}]
  /\ UNCHANGED <<searchChain, tokenList, contracts, modalOpen, searchQuery, currencyId,
                 searchMoves>>

-----------------------------------------------------------------------------
(* useSingleCallResult: the addresses typed and held, when they are not    *)
(* tokens of the chain, are asked for with NEVER_RELOAD.  A call that is   *)
(* marked as fetching is not fetched again.                                *)
typedAddress == IF modalOpen THEN {searchQuery} \cap Addresses ELSE {}
subscribed_TypedOnly == typedAddress
subscribed == typedAddress \cup ({currencyId} \cap Addresses)

AskContract(a) ==
  /\ a \in subscribed \ useAllTokens /\ contracts[searchChain][a] = "not asked"
  /\ contracts' = [contracts EXCEPT ![searchChain][a] = "fetching"]
  /\ UNCHANGED <<searchChain, userTokens, tokenList, modalOpen, searchQuery, currencyId,
                 searchMoves>>

(* The contract answers, or the chunk of calls fails, perhaps by another   *)
(* contract; or the next block, with which other calls are fetched, or     *)
(* another chain's, cancels the fetch.                                     *)
ContractFetched(c, a) ==
  /\ contracts[c][a] = "fetching"
  /\ \E fate \in {"read", "failed", "cancelled"} :
       contracts' = [contracts EXCEPT ![c][a] = fate]
  /\ UNCHANGED <<searchChain, userTokens, tokenList, modalOpen, searchQuery, currencyId,
                 searchMoves>>

SwitchSearchChain(c) ==
  /\ SearchMove /\ c # searchChain /\ searchChain' = c
  /\ UNCHANGED <<searchStore, modalOpen, searchQuery, currencyId>>

(* The page is loaded again, perhaps in another release: of all this,      *)
(* state.user is in the localStorage.                                      *)
ReloadSearch ==
  /\ SearchMove /\ tokenList' \in Releases /\ contracts' = notAsked
  /\ \E id \in Addresses \cup {nothing} : SetSearch(FALSE, nothing, id)
  /\ UNCHANGED <<searchChain, userTokens>>

SearchNext ==
  \/ OpenSearchModal \/ handleDismissSearch \/ ReloadSearch
  \/ \E q \in Addresses \cup {nothing} : handleInput(q)
  \/ \E currency \in Addresses \cup {native} : selectFound(currency)
  \/ \E a \in Addresses : addToken(a) \/ removeToken(a) \/ AskContract(a)
  \/ \E c \in SearchChains, a \in Addresses : ContractFetched(c, a)
  \/ \E c \in SearchChains : SwitchSearchChain(c)

-----------------------------------------------------------------------------
(* A currency field never waits for ever for a token its chain has,        *)
(* although the user removes it, another release's list has it no more, or *)
(* the page is loaded with no more than its address; unless the one fetch  *)
(* of its contract, since the page was loaded, failed or was cancelled.    *)
unresolved ==
  /\ currencyId \in TokensOn[searchChain] /\ useCurrency(currencyId) # currencyId
  /\ contracts[searchChain][currencyId] \notin {"failed", "cancelled"}
SelectedResolves == unresolved ~> ~unresolved
=============================================================================
