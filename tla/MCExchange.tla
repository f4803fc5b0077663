----------------------------- MODULE MCExchange -----------------------------
(***************************************************************************)
(* The exchange: the router mounts one of its pages at a time, each with   *)
(* its own slice of the store, so each is explored while the others rest;  *)
(* so are the search of a currency and the settings, whose modals cover    *)
(* the page.                                                               *)
(***************************************************************************)
EXTENDS SwapPage, AddPage, RemovePage, Positions, TokenSearch, Settings

VARIABLE page   \* the page shown

Pages == {"swap", "add", "remove", "positions", "search", "settings"}
modalVars == <<searchVars, settingsVars>>
exchangeVars == <<page, swapVars, addVars, removeVars, posVars, modalVars>>

MCUrl == [independentField |-> "INPUT", typedValue |-> 3, INPUT |-> "CAKE", OUTPUT |-> ETHER,
          recipient |-> none]
MCseverityOf == [r \in Rates |-> IF r = 2 THEN 4 ELSE 0]
MCchainOfToken == [t \in DexTokens |-> IF t < 10 THEN 1 ELSE 2]
MCwethOf == [c \in DexChains |-> IF c = 1 THEN 2 ELSE 12]
MCDeployed == {<<1, 2>>, <<12, 13>>}
MCtrackedBases == [c \in DexChains |-> IF c = 1 THEN {1, 2} ELSE {12}]
MCPinned == {<<2, 1>>}

(* What the user's liquidity is worth in the first token varies.           *)
MCWorths == {[f \in CurrencyFields |-> IF f = "CURRENCY_A" THEN w ELSE 1] : w \in {1, 3}}

(* Eight units to a bip: 0.125% (12.5 bips), 0.29% and what it becomes.    *)
MCTolerances == {0, 100, 231, 232, 8 * 10, 8 * 50, 8 * 80, 8 * 100, 8 * 600, 8 * 5000}
MCtimesHundred == [v \in MCTolerances |-> IF v = 232 THEN 231 ELSE v]
MCoverHundred == [v \in MCTolerances |-> IF v = 231 THEN 232 ELSE v]

(* The fake token is on chain 1 only, the other on both, and a release     *)
(* lists it or not.                                                        *)
MCTokensOn == [c \in SearchChains |-> IF c = 1 THEN Addresses ELSE {"0xcake"}]
MCReleases == {[c \in SearchChains |-> l] : l \in {{}, {"0xcake"}}}

AtRest(p) ==
  CASE p = "swap"      -> rate = 1
    [] p = "add"       -> price = 0 /\ ~addExpert /\ addApproval = [f \in Fields |-> "no"]
    [] p = "remove"    -> lpPair = 1 /\ held = 2 /\ worth = [f \in CurrencyFields |-> 1]
    [] p = "positions" -> dexChain = 1 /\ owned = [t \in Deployed |-> "none"]
    [] p = "search"    -> searchChain = 1 /\ currencyId = nothing /\ tokenList[1] = {"0xcake"}
    [] p = "settings"  -> TRUE

Init ==
  /\ page \in Pages
  /\ SwapInit /\ AddInit /\ RemoveInit /\ PositionsInit /\ SearchInit /\ SettingsInit
  /\ \A p \in Pages \ {page} : AtRest(p)

Next ==
  \/ page = "swap" /\ SwapNext /\ UNCHANGED <<page, addVars, removeVars, posVars, modalVars>>
  \/ page = "add" /\ AddNext /\ UNCHANGED <<page, swapVars, removeVars, posVars, modalVars>>
  \/ page = "remove" /\ RemoveNext /\ UNCHANGED <<page, swapVars, addVars, posVars, modalVars>>
  \/ page = "positions" /\ PositionsNext /\ UNCHANGED <<page, swapVars, addVars, removeVars, modalVars>>
  \/ page = "search" /\ SearchNext
     /\ UNCHANGED <<page, swapVars, addVars, removeVars, posVars, settingsVars>>
  \/ page = "settings" /\ SettingsNext
     /\ UNCHANGED <<page, swapVars, addVars, removeVars, posVars, searchVars>>

(* What is confirmed is estimated, and answered by the wallet; contracts   *)
(* are asked for by the multicalls, whose fetches end somehow.             *)
Fairness ==
  /\ \A i \in 1 .. MaxSwaps : WF_swapVars(page = "swap" /\ SwapEnds(i))
  /\ \A i \in 1 .. MaxSupplies : WF_addVars(page = "add" /\ SupplyEnds(i))
  /\ \A i \in 1 .. MaxRemovals : WF_removeVars(page = "remove" /\ RemovalEnds(i))
  /\ \A a \in Addresses : WF_searchVars(page = "search" /\ AskContract(a))
  /\ \A c \in SearchChains, a \in Addresses :
       WF_searchVars(page = "search" /\ ContractFetched(c, a))

Spec == Init /\ [][Next]_exchangeVars /\ Fairness

(* What is sent is what the user agreed to: the trade he last saw or       *)
(* accepted, for a new pool the amounts he typed, and for a removal by     *)
(* permit the amount he signed, but for what SignatureFits excepts.        *)
SentAsAgreed == SwapsAgreed /\ CreatedAsTyped /\ SignatureFits

(* The transaction or error a confirmation modal shows is of a call        *)
(* confirmed in it, although modals are dismissed and opened again before  *)
(* the answer.                                                             *)
OutcomesShown == SwapOutcomeShown /\ SupplyOutcomeShown /\ RemovalOutcomeShown

(* No confirmation modal waits for ever, dismissed, overlapped or failed   *)
(* as the calls may be.                                                    *)
AttemptsEnd ==
  /\ modal.attemptingTxn ~> ~modal.attemptingTxn
  /\ addition.attemptingTxn ~> ~addition.attemptingTxn
  /\ removal.attemptingTxn ~> ~removal.attemptingTxn
=============================================================================
