------------------------------ MODULE SwapPage ------------------------------
(***************************************************************************)
(* The exchange's swap page: the inputs in state/swap, the trade they make *)
(* at the pairs' prices, the approval of the router, and the confirmation  *)
(* modal, which shows a trade while the price moves on, sends it through   *)
(* an estimate and the wallet, and may be dismissed and opened again       *)
(* before the answer.                                                      *)
(***************************************************************************)
EXTENDS Integers, FiniteSets

CONSTANTS
  Tokens,        \* the tokens that may be selected, WETH among them
  ETHER,         \* the chain's own coin
  WETH,          \* its wrapped token
  none,          \* undefined, null and ''
  Amounts,       \* what may be typed
  Rates,         \* prices of the pairs; 0: no route
  severityOf,    \* warningSeverity of the trade's impact at each price
  Slippage,      \* what allowedSlippage adds to an input
  Balance,       \* the user's balance of every currency
  Url,           \* queryParametersToSwapState of the page's address
  MaxSwapMoves,  \* bound: changes of input, price, chain and mode
  MaxSwaps       \* bound: swaps, and approvals, sent

ASSUME SwapAssumption ==
  /\ WETH \in Tokens /\ ETHER \notin Tokens
  /\ Amounts \subseteq Nat \ {0} /\ Rates \subseteq Nat
  /\ \A r \in Rates : severityOf[r] \in 0 .. 4

VARIABLES
  swap,              \* state.swap
  expert,            \* useExpertModeManager
  rate,              \* the price of the pairs' last reserves
  allowance,         \* the router's, none before it is loaded
  approvals,         \* approvals at the wallet or on the chain
  approvalSubmitted, \* the page's state: two buttons
  modal,             \* the page's state: setSwapState's
  swaps,             \* swapCallback's promises
  swapIds,           \* history: the swaps sent so far
  swapMoves          \* changes of input, price, chain and mode so far

inputs == <<swap, expert, rate>>
router == <<allowance, approvals, approvalSubmitted>>
swapVars == <<inputs, router, modal, swaps, swapIds, swapMoves>>

Currencies == Tokens \cup {ETHER}
other(field) == IF field = "INPUT" THEN "OUTPUT" ELSE "INPUT"
Unlimited == 1000

(* "agreed": history, the trade the user last asked to swap or accepted;   *)
(* "since": history, the swaps confirmed since the modal was opened;       *)
(* "overlapped": history, it was opened while a swap was unanswered.       *)
closedModal ==
  [showConfirm |-> FALSE, tradeToConfirm |-> none, attemptingTxn |-> FALSE,
   swapErrorMessage |-> none, txHash |-> none,
   agreed |-> none, since |-> {}, overlapped |-> FALSE]

SwapInit ==
  /\ swap = Url /\ expert = FALSE /\ rate \in Rates
  /\ allowance = [t \in Tokens |-> none] /\ approvals = {} /\ approvalSubmitted = FALSE
  /\ modal = closedModal
  /\ swaps = {} /\ swapIds = 0 /\ swapMoves = 0

-----------------------------------------------------------------------------
(* useDerivedSwapInfo, useWrapCallback: the trade the inputs make.         *)
showWrap == {swap.INPUT, swap.OUTPUT} = {ETHER, WETH}

tryParseAmount(value, currency) == IF value = 0 \/ currency = none THEN none ELSE value
parsedAmount == tryParseAmount(swap.typedValue, swap[swap.independentField])

trade ==
  IF showWrap \/ parsedAmount = none \/ none \in {swap.INPUT, swap.OUTPUT} \/ rate = 0
  THEN none
  ELSE [tradeType |-> swap.independentField, input |-> swap.INPUT, output |-> swap.OUTPUT,
        inputAmount  |-> parsedAmount + IF swap.independentField = "INPUT" THEN 0 ELSE rate,
        outputAmount |-> parsedAmount + IF swap.independentField = "INPUT" THEN rate ELSE 0]

priceImpactSeverity == IF trade = none THEN 4 ELSE severityOf[rate]

maximumAmountIn(t) == t.inputAmount + IF t.tradeType = "INPUT" THEN 0 ELSE Slippage

swapInputError ==
  \/ parsedAmount = none \/ none \in {swap.INPUT, swap.OUTPUT} \/ swap.recipient = "unknown"
  \/ trade # none /\ maximumAmountIn(trade) > Balance

(* useSwapCallback's error.                                                *)
swapCallbackError == trade = none \/ swap.recipient = "unknown"

(* useApproveCallback's state.                                             *)
approval ==
  CASE trade = none -> "UNKNOWN"
    [] trade # none /\ swap.INPUT = ETHER -> "APPROVED"
    [] trade # none /\ swap.INPUT \in Tokens ->
         CASE allowance[swap.INPUT] = none -> "UNKNOWN"
           [] allowance[swap.INPUT] # none /\ allowance[swap.INPUT] >= maximumAmountIn(trade) ->
                "APPROVED"
           [] OTHER -> IF \E p \in approvals : p.token = swap.INPUT /\ p.stage = "sent"
                       THEN "PENDING" ELSE "NOT_APPROVED"

showApproveFlow ==
  /\ ~swapInputError /\ (priceImpactSeverity <= 3 \/ expert)
  /\ approval \in {"NOT_APPROVED", "PENDING"} \/ (approvalSubmitted /\ approval = "APPROVED")

(* The effect on [approval, approvalSubmitted], after any change.          *)
Submitted(was) == approvalSubmitted' = (was \/ approval' = "PENDING")

-----------------------------------------------------------------------------
(* The inputs, while no modal covers them.  Selecting the other field's    *)
(* currency switches the two.                                              *)
typeInput(field, v) == [swap EXCEPT !.independentField = field, !.typedValue = v]
selectCurrency(field, c) ==
  IF c = swap[other(field)]
  THEN [swap EXCEPT ![field] = c, ![other(field)] = swap[field],
                    !.independentField = other(@)]
  ELSE [swap EXCEPT ![field] = c]
switchCurrencies ==
  [swap EXCEPT !.INPUT = swap.OUTPUT, !.OUTPUT = swap.INPUT, !.independentField = other(@)]

SwapMove ==
  /\ swapMoves < MaxSwapMoves /\ swapMoves' = swapMoves + 1
  /\ UNCHANGED <<allowance, approvals, modal, swaps, swapIds>>
Input(s) == SwapMove /\ ~modal.showConfirm /\ swap' = s /\ UNCHANGED <<expert, rate>>

onUserInput ==
  \E f \in {"INPUT", "OUTPUT"}, v \in Amounts : Input(typeInput(f, v)) /\ Submitted(approvalSubmitted)
handleInputSelect ==
  \E c \in Currencies : Input(selectCurrency("INPUT", c)) /\ Submitted(FALSE)
handleOutputSelect ==
  \E c \in Currencies : Input(selectCurrency("OUTPUT", c)) /\ Submitted(approvalSubmitted)
onSwitchTokens == Input(switchCurrencies) /\ Submitted(FALSE)
onChangeRecipient ==
  \E r \in {none, "unknown", "friend"} :
    /\ expert \/ swap.recipient # none
    /\ Input([swap EXCEPT !.recipient = r]) /\ Submitted(approvalSubmitted)
toggleSetExpertMode ==
  /\ SwapMove /\ ~modal.showConfirm /\ expert' = ~expert
  /\ UNCHANGED <<swap, rate, approvalSubmitted>>

(* A block moves the price; another chain loads the address's swap again.  *)
PriceMoves ==
  /\ SwapMove /\ \E r \in Rates \ {rate} : rate' = r
  /\ UNCHANGED <<swap, expert>> /\ Submitted(approvalSubmitted)
useDefaultsFromURLSearch ==
  /\ SwapMove /\ swap' = Url
  /\ UNCHANGED <<expert, rate>> /\ Submitted(approvalSubmitted)

-----------------------------------------------------------------------------
(* The approval of the router: estimated, for all or for the amount, then  *)
(* sent by the wallet or rejected, then mined or failed.                   *)
AllowancesLoaded ==
  /\ \E t \in Tokens : allowance[t] = none
  /\ allowance' = [t \in Tokens |-> IF allowance[t] = none THEN 0 ELSE allowance[t]]
  /\ UNCHANGED <<inputs, approvals, modal, swaps, swapIds, swapMoves>>
  /\ Submitted(approvalSubmitted)

approveCallback ==
  /\ ~modal.showConfirm /\ showApproveFlow /\ approval = "NOT_APPROVED" /\ ~approvalSubmitted
  /\ \E n \in {Unlimited, maximumAmountIn(trade)} :
       LET p == [token |-> swap.INPUT, amount |-> n, stage |-> "wallet"] IN
       p \notin approvals /\ Cardinality(approvals) < MaxSwaps /\ approvals' = approvals \cup {p}
  /\ UNCHANGED <<inputs, allowance, approvalSubmitted, modal, swaps, swapIds, swapMoves>>

ApprovalAnswered(p) ==
  /\ p.stage = "wallet"
  /\ \/ approvals' = (approvals \ {p}) \cup {[p EXCEPT !.stage = "sent"]}
     \/ approvals' = approvals \ {p}
  /\ UNCHANGED <<inputs, allowance, modal, swaps, swapIds, swapMoves>>
  /\ Submitted(approvalSubmitted)

ApprovalMined(p) ==
  /\ p.stage = "sent" /\ approvals' = approvals \ {p}
  /\ \E n \in {p.amount, allowance[p.token]} : allowance' = [allowance EXCEPT ![p.token] = n]
  /\ UNCHANGED <<inputs, modal, swaps, swapIds, swapMoves>>
  /\ Submitted(approvalSubmitted)

-----------------------------------------------------------------------------
(* The modal.  What the user asked to swap is compared with the trade of   *)
(* now.                                                                    *)
tradeMeaningfullyDiffers_Type(a, b) ==
  a.tradeType # b.tradeType \/ a.input # b.input \/ a.output # b.output
tradeMeaningfullyDiffers(a, b) ==
  \/ a.tradeType # b.tradeType \/ a.input # b.input \/ a.output # b.output
  \/ a.inputAmount # b.inputAmount \/ a.outputAmount # b.outputAmount
showAcceptChanges ==
  /\ trade # none /\ modal.tradeToConfirm # none
  /\ tradeMeaningfullyDiffers(trade, modal.tradeToConfirm)

(* TransactionConfirmationModal, and ConfirmSwapModal's content.           *)
shownContent ==
  CASE ~modal.showConfirm -> "closed"
    [] modal.showConfirm /\ modal.attemptingTxn -> "pending"
    [] modal.showConfirm /\ ~modal.attemptingTxn /\ modal.txHash # none -> "submitted"
    [] OTHER -> IF modal.swapErrorMessage # none THEN "error" ELSE "trade"

swapEnabled ==
  /\ ~showWrap /\ ~modal.showConfirm /\ ~swapInputError /\ trade # none
  /\ priceImpactSeverity <= 3 \/ expert
  /\ IF showApproveFlow THEN approval = "APPROVED" ELSE ~swapCallbackError

opened ==
  [modal EXCEPT !.tradeToConfirm = trade, !.attemptingTxn = FALSE, !.swapErrorMessage = none,
                !.showConfirm = TRUE, !.txHash = none]
SwapButton ==
  /\ swapEnabled /\ ~expert
  /\ modal' = [opened EXCEPT !.agreed = trade, !.since = {}, !.overlapped = (swaps # {})]
  /\ UNCHANGED <<inputs, router, swaps, swapIds, swapMoves>>

handleAcceptChanges ==
  /\ shownContent = "trade" /\ showAcceptChanges
  /\ modal' = [modal EXCEPT !.tradeToConfirm = trade, !.agreed = trade]
  /\ UNCHANGED <<inputs, router, swaps, swapIds, swapMoves>>

(* The user may decline the prompt of confirmPriceImpactWithoutFee, which  *)
(* changes nothing.                                                        *)
handleSwap ==
  /\ trade # none /\ swap.recipient # "unknown" /\ swapIds < MaxSwaps
  /\ swapIds' = swapIds + 1
  /\ modal' = [modal EXCEPT !.attemptingTxn = TRUE, !.swapErrorMessage = none, !.txHash = none,
                            !.since = IF modal.showConfirm THEN @ \cup {swapIds'} ELSE {}]
  /\ swaps' = swaps \cup {[id |-> swapIds', trade |-> trade, stage |-> "estimate",
                           expert |-> expert, severity |-> priceImpactSeverity,
                           agreed |-> IF expert THEN trade ELSE modal.agreed]}
  /\ UNCHANGED <<inputs, router, swapMoves>>
Confirm ==
  \/ shownContent = "trade" /\ ~showAcceptChanges /\ handleSwap
  \/ swapEnabled /\ expert /\ handleSwap

handleConfirmDismiss ==
  /\ modal.showConfirm
  /\ modal' = [modal EXCEPT !.showConfirm = FALSE,
                            !.agreed = none, !.since = {}, !.overlapped = FALSE]
  /\ swap' = IF modal.txHash # none THEN typeInput("INPUT", 0) ELSE swap
  /\ UNCHANGED <<expert, rate, allowance, approvals, swaps, swapIds, swapMoves>>
  /\ Submitted(approvalSubmitted)

(* onSwap: the calls are estimated; the first that is estimated with the   *)
(* next one is sent.                                                       *)
useSwapCallArguments(t) ==
  IF t.tradeType = "INPUT" THEN {"exact", "supporting fee on transfer"} ELSE {"exact"}
successfulEstimation(calls, estimated) ==
  IF calls \subseteq estimated THEN {"exact"} ELSE estimated \ {"exact"}

thenFailed_StillAttempting(id) == [modal EXCEPT !.swapErrorMessage = id, !.txHash = none]
thenFailed(id) ==
  [modal EXCEPT !.attemptingTxn = FALSE, !.swapErrorMessage = id, !.txHash = none]
thenSent(id) ==
  [modal EXCEPT !.attemptingTxn = FALSE, !.swapErrorMessage = none, !.txHash = id]

Estimated(s) ==
  /\ s.stage = "estimate"
  /\ LET calls == useSwapCallArguments(s.trade) IN
     \E estimated \in SUBSET calls :
       IF successfulEstimation(calls, estimated) # {}
       THEN swaps' = (swaps \ {s}) \cup {[s EXCEPT !.stage = "wallet"]} /\ UNCHANGED modal
       ELSE swaps' = swaps \ {s} /\ modal' = thenFailed(s.id)
  /\ UNCHANGED <<inputs, router, swapIds, swapMoves>>
Answered(s) ==
  /\ s.stage = "wallet" /\ swaps' = swaps \ {s}
  /\ modal' \in {thenSent(s.id), thenFailed(s.id)}
  /\ UNCHANGED <<inputs, router, swapIds, swapMoves>>
SwapEnds(i) == \E s \in swaps : s.id = i /\ (Estimated(s) \/ Answered(s))

SwapNext ==
  \/ onUserInput \/ handleInputSelect \/ handleOutputSelect \/ onSwitchTokens
  \/ onChangeRecipient \/ toggleSetExpertMode \/ PriceMoves \/ useDefaultsFromURLSearch
  \/ AllowancesLoaded \/ approveCallback \/ \E p \in approvals : ApprovalAnswered(p) \/ ApprovalMined(p)
  \/ SwapButton \/ handleAcceptChanges \/ Confirm \/ handleConfirmDismiss
  \/ \E s \in swaps : Estimated(s) \/ Answered(s)

-----------------------------------------------------------------------------
(* Whatever the price did while the modal was open, a swap sent is the     *)
(* trade the user asked for or accepted (an expert: the one on the page).  *)
SwapsAgreed == \A s \in swaps : s.trade = s.agreed

(* The transaction, or the error, the modal shows is of a swap confirmed   *)
(* in it, unless it was opened while an earlier swap was unanswered.       *)
SwapOutcomeShown ==
  /\ shownContent = "submitted" /\ ~modal.overlapped => modal.txHash \in modal.since
  /\ shownContent = "error" /\ ~modal.overlapped => modal.swapErrorMessage \in modal.since

(* constants/index.ts: "for non expert mode disable swaps above this", the *)
(* price impact of severity 4.                                             *)
BlockedForNonExperts == \A s \in swaps : ~s.expert => s.severity <= 3

=============================================================================
