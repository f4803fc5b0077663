--------------------------- MODULE ExchangeProofs ---------------------------
(***************************************************************************)
(* Theorems about the exchange's pages, for any tokens, prices, amounts    *)
(* and bounds.  One page is shown at a time, so a step of the exchange is  *)
(* a step of one page or none of each (ExchangeStep), and every page has   *)
(* an invariant of its own.                                                *)
(***************************************************************************)
EXTENDS MCExchange, FiniteSetTheorems, TLAPS

LEMMA ExchangeStep ==
  [Next]_exchangeVars =>
    /\ [SwapNext]_swapVars /\ [AddNext]_addVars /\ [RemoveNext]_removeVars
    /\ [PositionsNext]_posVars /\ [SettingsNext]_settingsVars
  BY DEF Next, exchangeVars, modalVars

-----------------------------------------------------------------------------
(* The swap page.  While its modal is open the trade it shows is the one   *)
(* agreed to, and every swap that may still answer, like the last answer,  *)
(* was confirmed in it, unless it overlapped an earlier one.               *)

TradeFields == {"tradeType", "input", "output", "inputAmount", "outputAmount"}
IsTrade(t) == t # none /\ DOMAIN t = TradeFields /\ t = [k \in TradeFields |-> t[k]]

SwapFields == {"id", "trade", "stage", "expert", "severity", "agreed"}
IsSwap(s) == DOMAIN s = SwapFields /\ s = [k \in SwapFields |-> s[k]]

ModalFields == {"showConfirm", "tradeToConfirm", "attemptingTxn", "swapErrorMessage",
                "txHash", "agreed", "since", "overlapped"}

TradeAgreed ==
  modal.showConfirm =>
    ~expert /\ modal.agreed = modal.tradeToConfirm /\ IsTrade(modal.tradeToConfirm)

SwapsOfModal ==
  modal.showConfirm /\ ~modal.overlapped =>
    /\ \A s \in swaps : s.id \in modal.since
    /\ modal.txHash # none => modal.txHash \in modal.since
    /\ modal.swapErrorMessage # none => modal.swapErrorMessage \in modal.since

SwapInv ==
  /\ DOMAIN modal = ModalFields /\ modal = [k \in ModalFields |-> modal[k]]
  /\ \A s \in swaps : IsSwap(s)
  /\ TradeAgreed /\ SwapsAgreed /\ SwapsOfModal

LEMMA SwapStarts == SwapInit => SwapInv
<1>. SUFFICES ASSUME SwapInit PROVE SwapInv
  OBVIOUS
<1>1. modal = closedModal /\ swaps = {}
  BY DEF SwapInit
<1>2. /\ DOMAIN modal = ModalFields /\ modal = [k \in ModalFields |-> modal[k]]
      /\ ~modal.showConfirm
  BY <1>1 DEF closedModal, ModalFields
<1>. QED BY <1>1, <1>2 DEF SwapInv, TradeAgreed, SwapsAgreed, SwapsOfModal

(* What the inputs make is a trade, or none.                               *)
LEMMA TradeIsTrade == trade # none => IsTrade(trade)
<1>. SUFFICES ASSUME trade # none PROVE IsTrade(trade)
  OBVIOUS
<1>1. \E a, b, c, d, e : trade = [tradeType |-> a, input |-> b, output |-> c,
                                  inputAmount |-> d, outputAmount |-> e]
  BY DEF trade
<1>. QED BY <1>1 DEF IsTrade, TradeFields

(* Two trades that do not differ meaningfully are one.                     *)
LEMMA SameTrade ==
  ASSUME NEW a, NEW b, IsTrade(a), IsTrade(b), ~tradeMeaningfullyDiffers(a, b)
  PROVE  a = b
<1>1. \A k \in TradeFields : a[k] = b[k]
  BY DEF tradeMeaningfullyDiffers, TradeFields
<1>2. [k \in TradeFields |-> a[k]] = [k \in TradeFields |-> b[k]]
  BY <1>1
<1>. QED BY <1>2 DEF IsTrade

LEMMA ModalUntouched ==
  ASSUME SwapInv, UNCHANGED <<modal, swaps>>, expert' = expert \/ ~modal.showConfirm
  PROVE  SwapInv'
  BY DEF SwapInv, TradeAgreed, SwapsAgreed, SwapsOfModal

LEMMA SwapButtonStep ==
  ASSUME SwapInv, SwapButton
  PROVE  SwapInv'
<1>1. modal' = [opened EXCEPT !.agreed = trade, !.since = {}, !.overlapped = (swaps # {})]
  BY DEF SwapButton
<1>2. UNCHANGED <<swaps, expert>> /\ ~expert /\ IsTrade(trade)
  BY TradeIsTrade DEF SwapButton, swapEnabled, inputs
<1>3. /\ DOMAIN modal' = ModalFields /\ modal' = [k \in ModalFields |-> modal'[k]]
      /\ modal'.agreed = trade /\ modal'.tradeToConfirm = trade
      /\ modal'.txHash = none /\ modal'.swapErrorMessage = none
      /\ modal'.overlapped <=> swaps # {}
  BY <1>1 DEF SwapInv, opened, ModalFields
<1>. QED BY <1>2, <1>3 DEF SwapInv, TradeAgreed, SwapsAgreed, SwapsOfModal

LEMMA AcceptStep ==
  ASSUME SwapInv, handleAcceptChanges
  PROVE  SwapInv'
<1>1. modal' = [modal EXCEPT !.tradeToConfirm = trade, !.agreed = trade]
  BY DEF handleAcceptChanges
<1>2. UNCHANGED <<swaps, expert>> /\ IsTrade(trade)
  BY TradeIsTrade DEF handleAcceptChanges, showAcceptChanges, inputs
<1>3. /\ DOMAIN modal' = ModalFields /\ modal' = [k \in ModalFields |-> modal'[k]]
      /\ modal'.agreed = trade /\ modal'.tradeToConfirm = trade
      /\ \A k \in ModalFields \ {"agreed", "tradeToConfirm"} : modal'[k] = modal[k]
  BY <1>1 DEF SwapInv, ModalFields
<1>4. /\ modal'.showConfirm = modal.showConfirm /\ modal'.txHash = modal.txHash
      /\ modal'.swapErrorMessage = modal.swapErrorMessage /\ modal'.since = modal.since
      /\ modal'.overlapped = modal.overlapped
  BY <1>3 DEF ModalFields
<1>. QED BY <1>2, <1>3, <1>4 DEF SwapInv, TradeAgreed, SwapsAgreed, SwapsOfModal

LEMMA ConfirmStep ==
  ASSUME SwapInv, Confirm
  PROVE  SwapInv'
<1> DEFINE new == [id |-> swapIds', trade |-> trade, stage |-> "estimate",
                   expert |-> expert, severity |-> priceImpactSeverity,
                   agreed |-> IF expert THEN trade ELSE modal.agreed]
<1>1. handleSwap
  BY DEF Confirm
<1>2. /\ modal' = [modal EXCEPT !.attemptingTxn = TRUE, !.swapErrorMessage = none, !.txHash = none,
                     !.since = IF modal.showConfirm THEN @ \cup {swapIds'} ELSE {}]
      /\ swaps' = swaps \cup {new} /\ UNCHANGED expert /\ IsTrade(trade)
  BY <1>1, TradeIsTrade DEF handleSwap, inputs
<1>3. /\ DOMAIN modal' = ModalFields /\ modal' = [k \in ModalFields |-> modal'[k]]
      /\ modal'.txHash = none /\ modal'.swapErrorMessage = none
      /\ modal.showConfirm => modal'.since = modal.since \cup {swapIds'}
      /\ modal'.showConfirm = modal.showConfirm /\ modal'.overlapped = modal.overlapped
      /\ modal'.agreed = modal.agreed /\ modal'.tradeToConfirm = modal.tradeToConfirm
  BY <1>2 DEF SwapInv, ModalFields
<1>4. IsSwap(new) /\ new.id = swapIds' /\ new.trade = trade
      /\ new.agreed = IF expert THEN trade ELSE modal.agreed
  BY DEF IsSwap, SwapFields
<1> HIDE DEF new
<1>5. new.trade = new.agreed
  <2>1. CASE shownContent = "trade" /\ ~showAcceptChanges
    <3>1. modal.showConfirm
      BY <2>1 DEF shownContent
    <3>2. IsTrade(modal.tradeToConfirm) /\ modal.agreed = modal.tradeToConfirm
      BY <3>1 DEF SwapInv, TradeAgreed
    <3>3. ~tradeMeaningfullyDiffers(trade, modal.tradeToConfirm)
      BY <1>2, <2>1, <3>2 DEF showAcceptChanges, IsTrade
    <3>. QED BY <1>2, <1>4, <3>2, <3>3, SameTrade
  <2>2. CASE expert
    BY <1>4, <2>2
  <2>. QED BY <2>1, <2>2 DEF Confirm
<1>6. (\A s \in swaps' : IsSwap(s)) /\ SwapsAgreed'
  BY <1>2, <1>4, <1>5 DEF SwapInv, SwapsAgreed
<1>7. TradeAgreed'
  BY <1>2, <1>3 DEF SwapInv, TradeAgreed
<1>8. SwapsOfModal'
  BY <1>2, <1>3, <1>4 DEF SwapInv, SwapsOfModal
<1>. QED BY <1>3, <1>6, <1>7, <1>8 DEF SwapInv

(* The modal after an answer of swap id.                                   *)
LEMMA AnswerKeeps ==
  ASSUME SwapInv, NEW s \in swaps, UNCHANGED expert,
         modal' \in {modal, thenFailed(s.id), thenSent(s.id)},
         swaps' \subseteq swaps \cup {[s EXCEPT !.stage = "wallet"]}
  PROVE  SwapInv'
<1> DEFINE t == [s EXCEPT !.stage = "wallet"]
<1>1. IsSwap(s) /\ s.trade = s.agreed
  BY DEF SwapInv, SwapsAgreed
<1>2. IsSwap(t) /\ t.id = s.id /\ t.trade = t.agreed
  BY <1>1 DEF IsSwap, SwapFields
<1>3. swaps' \subseteq swaps \cup {t}
  OBVIOUS
<1> HIDE DEF t
<1>4. (\A r \in swaps' : IsSwap(r)) /\ SwapsAgreed'
  BY <1>2, <1>3 DEF SwapInv, SwapsAgreed
<1>5. /\ DOMAIN modal' = ModalFields /\ modal' = [k \in ModalFields |-> modal'[k]]
      /\ modal'.showConfirm = modal.showConfirm /\ modal'.overlapped = modal.overlapped
      /\ modal'.agreed = modal.agreed /\ modal'.tradeToConfirm = modal.tradeToConfirm
      /\ modal'.since = modal.since
      /\ modal'.txHash \in {modal.txHash, none, s.id}
      /\ modal'.swapErrorMessage \in {modal.swapErrorMessage, none, s.id}
  <2>1. CASE modal' = modal
    BY <2>1 DEF SwapInv
  <2>2. CASE modal' = thenFailed(s.id)
    BY <2>2 DEF thenFailed, SwapInv, ModalFields
  <2>3. CASE modal' = thenSent(s.id)
    BY <2>3 DEF thenSent, SwapInv, ModalFields
  <2>. QED BY <2>1, <2>2, <2>3
<1>6. TradeAgreed'
  BY <1>5 DEF SwapInv, TradeAgreed
<1>7. SwapsOfModal'
  BY <1>2, <1>3, <1>5 DEF SwapInv, SwapsOfModal
<1>. QED BY <1>4, <1>5, <1>6, <1>7 DEF SwapInv

LEMMA SwapStepKeeps == SwapInv /\ [SwapNext]_swapVars => SwapInv'
<1>. SUFFICES ASSUME SwapInv, [SwapNext]_swapVars PROVE SwapInv'
  OBVIOUS
<1>1. CASE UNCHANGED swapVars
  BY <1>1, ModalUntouched DEF swapVars, inputs
<1>2. CASE \/ onUserInput \/ handleInputSelect \/ handleOutputSelect \/ onSwitchTokens
           \/ onChangeRecipient
  <2>1. UNCHANGED <<modal, swaps, expert>>
    BY <1>2 DEF onUserInput, handleInputSelect, handleOutputSelect, onSwitchTokens,
                onChangeRecipient, Input, SwapMove
  <2>. QED BY <2>1, ModalUntouched
<1>3. CASE toggleSetExpertMode
  <2>1. UNCHANGED <<modal, swaps>> /\ ~modal.showConfirm
    BY <1>3 DEF toggleSetExpertMode, SwapMove
  <2>. QED BY <2>1, ModalUntouched
<1>4. CASE PriceMoves \/ useDefaultsFromURLSearch \/ AllowancesLoaded \/ approveCallback
  <2>1. UNCHANGED <<modal, swaps, expert>>
    BY <1>4 DEF PriceMoves, useDefaultsFromURLSearch, AllowancesLoaded, approveCallback,
                SwapMove, inputs
  <2>. QED BY <2>1, ModalUntouched
<1>5. ASSUME NEW p \in approvals, ApprovalAnswered(p) \/ ApprovalMined(p) PROVE SwapInv'
  <2>1. UNCHANGED <<modal, swaps, expert>>
    BY <1>5 DEF ApprovalAnswered, ApprovalMined, inputs
  <2>. QED BY <2>1, ModalUntouched
<1>6. CASE SwapButton
  BY <1>6, SwapButtonStep
<1>7. CASE handleAcceptChanges
  BY <1>7, AcceptStep
<1>8. CASE Confirm
  BY <1>8, ConfirmStep
<1>9. CASE handleConfirmDismiss
  <2>1. /\ modal' = [modal EXCEPT !.showConfirm = FALSE,
                                  !.agreed = none, !.since = {}, !.overlapped = FALSE]
        /\ UNCHANGED swaps
    BY <1>9 DEF handleConfirmDismiss
  <2>2. /\ DOMAIN modal' = ModalFields /\ modal' = [k \in ModalFields |-> modal'[k]]
        /\ ~modal'.showConfirm
    BY <2>1 DEF SwapInv, ModalFields
  <2>. QED BY <2>1, <2>2 DEF SwapInv, TradeAgreed, SwapsAgreed, SwapsOfModal
<1>10. ASSUME NEW s \in swaps, Estimated(s) \/ Answered(s) PROVE SwapInv'
  <2>1. /\ UNCHANGED expert /\ modal' \in {modal, thenFailed(s.id), thenSent(s.id)}
        /\ swaps' \subseteq swaps \cup {[s EXCEPT !.stage = "wallet"]}
    <3>1. CASE Estimated(s)
      <4>1. UNCHANGED expert
        BY <3>1 DEF Estimated, inputs
      <4>2. \/ swaps' = (swaps \ {s}) \cup {[s EXCEPT !.stage = "wallet"]} /\ modal' = modal
            \/ swaps' = swaps \ {s} /\ modal' = thenFailed(s.id)
        BY <3>1 DEF Estimated
      <4>. QED BY <4>1, <4>2
    <3>2. CASE Answered(s)
      BY <3>2 DEF Answered, inputs
    <3>. QED BY <1>10, <3>1, <3>2
  <2>. QED BY <2>1, AnswerKeeps
<1>. QED
  BY <1>1, <1>2, <1>3, <1>4, <1>5, <1>6, <1>7, <1>8, <1>9, <1>10 DEF SwapNext

LEMMA SwapShows == SwapInv => SwapsAgreed /\ SwapOutcomeShown
  BY DEF SwapInv, SwapsOfModal, SwapOutcomeShown, shownContent

-----------------------------------------------------------------------------
(* The page that adds liquidity.  What state/mint keeps is what the user   *)
(* sees in the fields, in a pool that is empty; and with no modal open     *)
(* there is nothing to answer, unless one was dismissed too early.         *)

AdditionFields == {"showConfirm", "attemptingTxn", "txHash", "since", "left"}

FieldsAsTyped ==
  /\ \E f \in Fields, v, o \in Int :
       mint = [independentField |-> f, typedValue |-> v, otherTypedValue |-> o]
  /\ typed = [f \in Fields |-> IF f = mint.independentField THEN mint.typedValue
                               ELSE mint.otherTypedValue]

SuppliesOfModal ==
  /\ addExpert => ~addition.showConfirm
  /\ ~addExpert /\ ~addition.left =>
       /\ \A s \in supplies : addition.showConfirm /\ s.id \in addition.since
       /\ addition.txHash # 0 => addition.showConfirm /\ addition.txHash \in addition.since

AddInv ==
  /\ DOMAIN addition = AdditionFields /\ addition = [k \in AdditionFields |-> addition[k]]
  /\ FieldsAsTyped /\ CreatedAsTyped /\ SuppliesOfModal

LEMMA AddStarts == AddInit => AddInv
<1>. SUFFICES ASSUME AddInit PROVE AddInv
  OBVIOUS
<1>1. /\ DOMAIN addition = AdditionFields
      /\ addition = [k \in AdditionFields |-> addition[k]]
      /\ ~addition.showConfirm /\ addition.txHash = 0
  BY DEF AddInit, AdditionFields
<1>2. FieldsAsTyped
  BY DEF AddInit, FieldsAsTyped, Fields
<1>. QED BY <1>1, <1>2 DEF AddInit, AddInv, CreatedAsTyped, SuppliesOfModal

(* An input keeps the fields and the store together.                       *)
LEMMA InputKeepsFields ==
  ASSUME FieldsAsTyped, NEW f \in Fields, NEW v \in Int, onFieldInput(f, v)
  PROVE  FieldsAsTyped'
<1>1. PICK i \in Fields, w, o \in Int :
        mint = [independentField |-> i, typedValue |-> w, otherTypedValue |-> o]
  BY DEF FieldsAsTyped
<1>2. typed = [g \in Fields |-> IF g = i THEN w ELSE o]
  BY <1>1 DEF FieldsAsTyped
<1>3. /\ mint' = typeField(f, v)
      /\ typed' = [g \in Fields |-> IF g = f THEN v ELSE IF noLiquidity THEN typed[g] ELSE 0]
  BY DEF onFieldInput
<1> DEFINE p == IF ~noLiquidity THEN 0 ELSE IF f = i THEN o ELSE w
<1>4. mint' = [independentField |-> f, typedValue |-> v, otherTypedValue |-> p]
  BY <1>1, <1>3 DEF typeField
<1>5. p \in Int
  BY <1>1
<1>6. \A g \in Fields \ {f} : (IF noLiquidity THEN typed[g] ELSE 0) = p
  BY <1>2 DEF Fields
<1> HIDE DEF p
<1>7. typed' = [g \in Fields |-> IF g = f THEN v ELSE p]
  BY <1>3, <1>6
<1>. QED BY <1>4, <1>5, <1>7 DEF FieldsAsTyped

LEMMA AddUntouched ==
  ASSUME AddInv, UNCHANGED <<mint, typed, addition, supplies, addExpert>>
  PROVE  AddInv'
  BY DEF AddInv, FieldsAsTyped, CreatedAsTyped, SuppliesOfModal

LEMMA AddStep ==
  ASSUME AddInv, onAdd, addition.showConfirm \/ addExpert
  PROVE  AddInv'
<1> DEFINE new == [id |-> supplyIds', amounts |-> parsedAmounts, typed |-> typed,
                   creates |-> noLiquidity]
<1>1. /\ supplies' = supplies \cup {new}
      /\ addition' = [addition EXCEPT !.attemptingTxn = TRUE, !.since = @ \cup {supplyIds'}]
      /\ UNCHANGED <<mint, typed, addExpert>>
  BY DEF onAdd
<1>2. /\ DOMAIN addition' = AdditionFields
      /\ addition' = [k \in AdditionFields |-> addition'[k]]
      /\ addition'.showConfirm = addition.showConfirm /\ addition'.left = addition.left
      /\ addition'.txHash = addition.txHash
      /\ addition'.since = addition.since \cup {supplyIds'}
  BY <1>1 DEF AddInv, AdditionFields
<1>3. new.id = supplyIds' /\ (new.creates => new.amounts = new.typed)
  <2>1. ASSUME noLiquidity PROVE parsedAmounts = typed
    <3>1. dependentAmount = mint.otherTypedValue
      BY <2>1 DEF dependentAmount
    <3>2. parsedAmounts = [f \in Fields |-> IF f = mint.independentField THEN mint.typedValue
                                            ELSE mint.otherTypedValue]
      BY <3>1 DEF parsedAmounts
    <3>. QED BY <3>2 DEF AddInv, FieldsAsTyped
  <2>. QED BY <2>1
<1> HIDE DEF new
<1>4. FieldsAsTyped' /\ CreatedAsTyped'
  BY <1>1, <1>3 DEF AddInv, FieldsAsTyped, CreatedAsTyped
<1>5. SuppliesOfModal'
  BY <1>1, <1>2, <1>3 DEF AddInv, SuppliesOfModal
<1>. QED BY <1>2, <1>4, <1>5 DEF AddInv

LEMMA AddStepKeeps == AddInv /\ [AddNext]_addVars => AddInv'
<1>. SUFFICES ASSUME AddInv, [AddNext]_addVars PROVE AddInv'
  OBVIOUS
<1>1. CASE UNCHANGED addVars
  BY <1>1, AddUntouched DEF addVars
<1>2. CASE TypedAmount
  <2>1. PICK f \in Fields, v \in Typable : onFieldInput(f, v)
    BY <1>2 DEF TypedAmount
  <2>2. v \in Int
    BY <2>1, AddAssumption
  <2>3. FieldsAsTyped'
    BY <2>1, <2>2, InputKeepsFields DEF AddInv
  <2>. QED BY <1>2, <2>3 DEF TypedAmount, AddInv, CreatedAsTyped, SuppliesOfModal
<1>3. CASE PoolChanges \/ handleCurrencySelect \/ PoolLoaded
  BY <1>3, AddUntouched DEF PoolChanges, handleCurrencySelect, PoolLoaded
<1>4. ASSUME NEW f \in Fields, approveField(f) \/ FieldApprovalMined(f) PROVE AddInv'
  BY <1>4, AddUntouched DEF approveField, FieldApprovalMined
<1>5. CASE SupplyButton
  <2>1. /\ addition' = [addition EXCEPT !.showConfirm = TRUE, !.since = {}]
        /\ UNCHANGED <<mint, typed, supplies, addExpert>>
        /\ ~addExpert /\ ~addition.showConfirm
    BY <1>5 DEF SupplyButton, SupplyEnabled
  <2>2. /\ DOMAIN addition' = AdditionFields
        /\ addition' = [k \in AdditionFields |-> addition'[k]]
        /\ addition'.txHash = addition.txHash /\ addition'.left = addition.left
    BY <2>1 DEF AddInv, AdditionFields
  <2>3. SuppliesOfModal'
    BY <2>1, <2>2 DEF AddInv, SuppliesOfModal
  <2>4. FieldsAsTyped' /\ CreatedAsTyped'
    BY <2>1 DEF AddInv, FieldsAsTyped, CreatedAsTyped
  <2>. QED BY <2>2, <2>3, <2>4 DEF AddInv
<1>6. CASE ConfirmSupply
  BY <1>6, AddStep DEF ConfirmSupply
<1>7. CASE handleDismissSupply
  <2>1. /\ addition' = [addition EXCEPT !.showConfirm = FALSE, !.txHash = 0, !.since = {},
                                        !.left = @ \/ supplies # {}]
        /\ UNCHANGED <<supplies, addExpert>>
    BY <1>7 DEF handleDismissSupply
  <2>2. /\ DOMAIN addition' = AdditionFields
        /\ addition' = [k \in AdditionFields |-> addition'[k]]
        /\ ~addition'.showConfirm /\ addition'.txHash = 0
        /\ addition'.left <=> addition.left \/ supplies # {}
    BY <2>1 DEF AddInv, AdditionFields
  <2>3. FieldsAsTyped'
    <3>1. CASE onFieldInput("A", 0)
      BY <3>1, InputKeepsFields DEF AddInv, Fields
    <3>2. CASE UNCHANGED <<mint, typed>>
      BY <3>2 DEF AddInv, FieldsAsTyped
    <3>. QED BY <1>7, <3>1, <3>2 DEF handleDismissSupply
  <2>4. SuppliesOfModal'
    BY <2>1, <2>2 DEF SuppliesOfModal
  <2>. QED BY <2>1, <2>2, <2>3, <2>4 DEF AddInv, CreatedAsTyped
<1>8. ASSUME NEW s \in supplies, SupplyAnswered(s) PROVE AddInv'
  <2>1. supplies' = supplies \ {s} /\ UNCHANGED <<mint, typed, addExpert>>
    BY <1>8 DEF SupplyAnswered
  <2>2. /\ DOMAIN addition' = AdditionFields
        /\ addition' = [k \in AdditionFields |-> addition'[k]]
        /\ addition'.showConfirm = addition.showConfirm /\ addition'.left = addition.left
        /\ addition'.since = addition.since /\ addition'.txHash \in {addition.txHash, s.id}
    BY <1>8 DEF SupplyAnswered, supplyFailed, AddInv, AdditionFields
  <2>3. SuppliesOfModal'
    BY <2>1, <2>2 DEF AddInv, SuppliesOfModal
  <2>. QED BY <2>1, <2>2, <2>3 DEF AddInv, FieldsAsTyped, CreatedAsTyped
<1>. QED BY <1>1, <1>2, <1>3, <1>4, <1>5, <1>6, <1>7, <1>8 DEF AddNext

LEMMA AddShows == AddInv => CreatedAsTyped /\ SupplyOutcomeShown
  BY DEF AddInv, SuppliesOfModal, SupplyOutcomeShown

-----------------------------------------------------------------------------
(* The page that removes liquidity.  A signature under way, or on the      *)
(* page, is of the amount and the pair of now, or marked.                  *)

RemovalFields == {"showConfirm", "attemptingTxn", "txHash", "since", "left"}
PermitFields == {"pair", "amount", "overtaken", "moved"}
RequestFields == {"id", "pair", "amount", "stage", "permit"}

IsPermit(q) == DOMAIN q = PermitFields /\ q = [k \in PermitFields |-> q[k]]
IsRequest(r) == DOMAIN r = RequestFields /\ r = [k \in RequestFields |-> r[k]]
Fits(q, pair, amount) == q.overtaken \/ q.moved \/ (q.pair = pair /\ q.amount = amount)

BurnFields == {"PERCENT", "LIQUIDITY"} \cup CurrencyFields

PermitsOfPage ==
  /\ burn.independentField \in BurnFields
  /\ \A q \in signing : IsPermit(q) /\ Fits(q, lpPair, liquidityAmount)
  /\ signatureData # unsigned =>
       IsPermit(signatureData) /\ Fits(signatureData, lpPair, liquidityAmount)

RemovalsOfModal ==
  ~removal.left =>
    /\ \A r \in removals : removal.showConfirm /\ r.id \in removal.since
    /\ removal.txHash # 0 => removal.showConfirm /\ removal.txHash \in removal.since

RemoveInv ==
  /\ DOMAIN removal = RemovalFields /\ removal = [k \in RemovalFields |-> removal[k]]
  /\ \A r \in removals : IsRequest(r)
  /\ PermitsOfPage /\ SignatureFits /\ RemovalsOfModal

LEMMA RemoveStarts == RemoveInit => RemoveInv
<1>. SUFFICES ASSUME RemoveInit PROVE RemoveInv
  OBVIOUS
<1>1. /\ DOMAIN removal = RemovalFields /\ removal = [k \in RemovalFields |-> removal[k]]
      /\ ~removal.showConfirm /\ removal.txHash = 0
  BY DEF RemoveInit, RemovalFields
<1>2. signing = {} /\ signatureData = unsigned /\ removals = {}
  BY DEF RemoveInit
<1>3. burn.independentField \in BurnFields
  BY DEF RemoveInit, BurnFields
<1>. QED BY <1>1, <1>2, <1>3 DEF RemoveInv, PermitsOfPage, SignatureFits, RemovalsOfModal

(* An input marks the signatures under way and clears the one there is.    *)
LEMMA InputClears ==
  ASSUME PermitsOfPage, NEW field \in BurnFields, NEW v, onBurnInput(field, v)
  PROVE  PermitsOfPage'
<1>1. /\ signatureData' = unsigned
      /\ signing' = {[q EXCEPT !.overtaken = TRUE] : q \in signing}
  BY DEF onBurnInput, signatureAfterInput
<1>3. burn'.independentField \in BurnFields
  BY DEF onBurnInput
<1>2. ASSUME NEW q \in signing
      PROVE  LET m == [q EXCEPT !.overtaken = TRUE] IN IsPermit(m) /\ m.overtaken
  BY DEF PermitsOfPage, IsPermit, PermitFields
<1>. QED BY <1>1, <1>2, <1>3 DEF PermitsOfPage, Fits

LEMMA PermitsUntouched ==
  ASSUME PermitsOfPage, UNCHANGED <<burn, held, worth, lpPair>>,
         signing' \subseteq signing, signatureData' \in signing \cup {signatureData, unsigned}
  PROVE  PermitsOfPage'
<1>1. liquidityAmount' = liquidityAmount
  BY DEF liquidityAmount, share, partOf
<1>. QED BY <1>1 DEF PermitsOfPage

LEMMA RemovalsUntouched ==
  ASSUME RemoveInv, PermitsOfPage', UNCHANGED <<removal, removals>>
  PROVE  RemoveInv'
  BY DEF RemoveInv, SignatureFits, RemovalsOfModal

LEMMA MovedStep ==
  ASSUME PermitsOfPage, PermitsMove, burn' = burn
  PROVE  PermitsOfPage'
<1>1. /\ signing' = {[q EXCEPT !.moved = TRUE] : q \in signing}
      /\ signatureData' = IF signatureData = unsigned THEN unsigned
                          ELSE [signatureData EXCEPT !.moved = TRUE]
  BY DEF PermitsMove, Moved
<1>2. ASSUME NEW q, IsPermit(q)
      PROVE  LET m == [q EXCEPT !.moved = TRUE] IN IsPermit(m) /\ m.moved
  BY <1>2 DEF IsPermit, PermitFields
<1>3. \A q \in signing' : IsPermit(q) /\ q.moved
  BY <1>1, <1>2 DEF PermitsOfPage
<1>4. signatureData' # unsigned => IsPermit(signatureData') /\ signatureData'.moved
  BY <1>1, <1>2 DEF PermitsOfPage
<1>. QED BY <1>3, <1>4 DEF PermitsOfPage, Fits

LEMMA RemoveStep ==
  ASSUME RemoveInv, onRemove
  PROVE  RemoveInv'
<1> DEFINE new == [id |-> removalIds', pair |-> lpPair, amount |-> liquidityAmount,
                   stage |-> "estimate",
                   permit |-> IF lpApprovalState = "APPROVED" THEN unsigned ELSE signatureData]
<1>1. /\ removals' = removals \cup {new}
      /\ removal' = [removal EXCEPT !.since = @ \cup {removalIds'}]
      /\ removal.showConfirm
      /\ UNCHANGED <<burn, lpPair, held, worth, signing, signatureData>>
  BY DEF onRemove, removeForm
<1>2. /\ DOMAIN removal' = RemovalFields /\ removal' = [k \in RemovalFields |-> removal'[k]]
      /\ removal'.showConfirm = removal.showConfirm /\ removal'.left = removal.left
      /\ removal'.txHash = removal.txHash
      /\ removal'.since = removal.since \cup {removalIds'}
  BY <1>1 DEF RemoveInv, RemovalFields
<1>3. /\ IsRequest(new) /\ new.id = removalIds'
      /\ new.pair = lpPair /\ new.amount = liquidityAmount
      /\ new.permit \in {unsigned, signatureData}
  BY DEF IsRequest, RequestFields
<1> HIDE DEF new
<1>4. new.permit # unsigned => Fits(new.permit, new.pair, new.amount)
  BY <1>3 DEF RemoveInv, PermitsOfPage
<1>5. SignatureFits' /\ \A r \in removals' : IsRequest(r)
  BY <1>1, <1>3, <1>4 DEF RemoveInv, SignatureFits, Fits
<1>6. RemovalsOfModal'
  BY <1>1, <1>2, <1>3 DEF RemoveInv, RemovalsOfModal
<1>7. PermitsOfPage'
  BY <1>1, PermitsUntouched DEF RemoveInv
<1>. QED BY <1>2, <1>5, <1>6, <1>7 DEF RemoveInv

LEMMA RemovalEndsStep ==
  ASSUME RemoveInv, NEW r \in removals, RemovalEstimated(r) \/ RemovalAnswered(r)
  PROVE  RemoveInv'
<1> DEFINE w == [r EXCEPT !.stage = "wallet"]
<1>1. UNCHANGED <<burn, lpPair, held, worth, signing, signatureData>>
  BY DEF RemovalEstimated, RemovalAnswered, removeForm
<1>2. removals' \subseteq removals \cup {w}
  BY DEF RemovalEstimated, RemovalAnswered
<1>3. /\ IsRequest(w) /\ w.id = r.id /\ w.pair = r.pair /\ w.amount = r.amount
      /\ w.permit = r.permit
  BY DEF RemoveInv, IsRequest, RequestFields
<1> HIDE DEF w
<1>4. /\ DOMAIN removal' = RemovalFields /\ removal' = [k \in RemovalFields |-> removal'[k]]
      /\ removal'.showConfirm = removal.showConfirm /\ removal'.left = removal.left
      /\ removal'.since = removal.since /\ removal'.txHash \in {removal.txHash, r.id}
  <2>1. CASE removal' = removal
    BY <2>1 DEF RemoveInv
  <2>2. CASE removal' = [removal EXCEPT !.attemptingTxn = TRUE]
    BY <2>2 DEF RemoveInv, RemovalFields
  <2>3. CASE removal' = [removal EXCEPT !.attemptingTxn = FALSE]
    BY <2>3 DEF RemoveInv, RemovalFields
  <2>4. CASE removal' = [removal EXCEPT !.attemptingTxn = FALSE, !.txHash = r.id]
    BY <2>4 DEF RemoveInv, RemovalFields
  <2>. QED
    BY <2>1, <2>2, <2>3, <2>4 DEF RemovalEstimated, RemovalAnswered, removalRejected
<1>5. SignatureFits' /\ \A q \in removals' : IsRequest(q)
  BY <1>2, <1>3 DEF RemoveInv, SignatureFits
<1>6. RemovalsOfModal'
  BY <1>2, <1>3, <1>4 DEF RemoveInv, RemovalsOfModal
<1>7. PermitsOfPage'
  BY <1>1, PermitsUntouched DEF RemoveInv
<1>. QED BY <1>4, <1>5, <1>6, <1>7 DEF RemoveInv

LEMMA RemoveStepKeeps == RemoveInv /\ [RemoveNext]_removeVars => RemoveInv'
<1>. SUFFICES ASSUME RemoveInv, [RemoveNext]_removeVars PROVE RemoveInv'
  OBVIOUS
<1>0. PermitsOfPage
  BY DEF RemoveInv
<1>1. CASE UNCHANGED removeVars
  <2>1. PermitsOfPage'
    BY <1>0, <1>1, PermitsUntouched DEF removeVars, removeForm
  <2>. QED BY <1>1, <2>1, RemovalsUntouched DEF removeVars
<1>2. CASE Typed
  <2>1. \E field \in BurnFields : \E v : onBurnInput(field, v)
    BY <1>2 DEF Typed, BurnFields
  <2>2. PermitsOfPage'
    BY <1>0, <2>1, InputClears
  <2>. QED BY <1>2, <2>2, RemovalsUntouched DEF Typed
<1>3. CASE Slide
  <2>1. PermitsOfPage'
    BY <1>0, <1>3, PermitsUntouched DEF Slide
  <2>. QED BY <1>3, <2>1, RemovalsUntouched DEF Slide
<1>4. CASE SliderFires
  <2>1. PermitsOfPage'
    BY <1>0, <1>4, InputClears DEF SliderFires, BurnFields
  <2>. QED BY <1>4, <2>1, RemovalsUntouched DEF SliderFires
<1>5. CASE SelectOrReceive
  <2>1. PermitsOfPage'
    BY <1>0, <1>5, MovedStep DEF SelectOrReceive
  <2>. QED BY <1>5, <2>1, RemovalsUntouched DEF SelectOrReceive
<1>13. CASE ReservesMove
  <2>1. UNCHANGED <<burn, lpPair, held, removal, removals>>
    BY <1>13 DEF ReservesMove
  <2>2. PermitsOfPage'
    <3>1. CASE burn.independentField \in CurrencyFields
      BY <1>0, <1>13, <2>1, <3>1, MovedStep DEF ReservesMove
    <3>2. CASE burn.independentField \notin CurrencyFields
      <4>1. burn.independentField \in {"PERCENT", "LIQUIDITY"}
        BY <1>0, <3>2 DEF PermitsOfPage, BurnFields
      <4>2. share' = share
        BY <2>1, <4>1 DEF share, partOf
      <4>3. liquidityAmount' = liquidityAmount
        BY <2>1, <4>2 DEF liquidityAmount
      <4>. QED BY <1>0, <1>13, <2>1, <3>2, <4>3 DEF ReservesMove, PermitsOfPage
    <3>. QED BY <3>1, <3>2
  <2>. QED BY <2>1, <2>2, RemovalsUntouched
<1>6. CASE onAttemptToApprove
  <2> DEFINE new == [pair |-> lpPair, amount |-> liquidityAmount,
                     overtaken |-> FALSE, moved |-> FALSE]
  <2>1. /\ signing' = signing \cup {new}
        /\ UNCHANGED <<burn, lpPair, held, worth, signatureData, removal, removals>>
    BY <1>6 DEF onAttemptToApprove, removeForm
  <2>2. IsPermit(new) /\ Fits(new, lpPair, liquidityAmount)
    BY DEF IsPermit, PermitFields, Fits
  <2> HIDE DEF new
  <2>3. liquidityAmount' = liquidityAmount
    BY <2>1 DEF liquidityAmount, share, partOf
  <2>4. PermitsOfPage'
    BY <1>0, <2>1, <2>2, <2>3 DEF PermitsOfPage
  <2>. QED BY <2>1, <2>4, RemovalsUntouched
<1>7. ASSUME NEW q \in signing, Signed(q) PROVE RemoveInv'
  <2>1. /\ signing' = signing \ {q} /\ signatureData' \in {q, signatureData}
        /\ UNCHANGED <<burn, lpPair, held, worth, removal, removals>>
    BY <1>7 DEF Signed, removeForm
  <2>2. PermitsOfPage'
    BY <1>0, <2>1, PermitsUntouched
  <2>. QED BY <2>1, <2>2, RemovalsUntouched
<1>8. ASSUME NEW p \in LpPairs, LpApprovalMined(p) PROVE RemoveInv'
  <2>1. UNCHANGED <<burn, lpPair, held, worth, signing, signatureData, removal, removals>>
    BY <1>8 DEF LpApprovalMined, removeForm
  <2>2. PermitsOfPage'
    BY <1>0, <2>1, PermitsUntouched
  <2>. QED BY <2>1, <2>2, RemovalsUntouched
<1>9. CASE RemoveButton
  <2>1. /\ removal' = [removal EXCEPT !.showConfirm = TRUE, !.since = {}]
        /\ ~removal.showConfirm
        /\ UNCHANGED <<burn, lpPair, held, worth, signing, signatureData, removals>>
    BY <1>9 DEF RemoveButton, removeForm
  <2>2. /\ DOMAIN removal' = RemovalFields /\ removal' = [k \in RemovalFields |-> removal'[k]]
        /\ removal'.txHash = removal.txHash /\ removal'.left = removal.left
    BY <2>1 DEF RemoveInv, RemovalFields
  <2>3. RemovalsOfModal'
    BY <2>1, <2>2 DEF RemoveInv, RemovalsOfModal
  <2>4. PermitsOfPage'
    BY <1>0, <2>1, PermitsUntouched
  <2>. QED BY <2>1, <2>2, <2>3, <2>4 DEF RemoveInv, SignatureFits
<1>10. CASE onRemove
  BY <1>10, RemoveStep
<1>11. CASE handleDismissRemoval
  <2>1. /\ removal' = [removal EXCEPT !.showConfirm = FALSE, !.txHash = 0,
                                      !.since = {}, !.left = @ \/ removals # {}]
        /\ UNCHANGED <<lpPair, held, worth, removals>>
    BY <1>11 DEF handleDismissRemoval, hashAfterDismissal
  <2>2. /\ DOMAIN removal' = RemovalFields /\ removal' = [k \in RemovalFields |-> removal'[k]]
        /\ removal'.txHash = 0 /\ (removal'.left <=> removal.left \/ removals # {})
    BY <2>1 DEF RemoveInv, RemovalFields
  <2>3. RemovalsOfModal'
    BY <2>1, <2>2 DEF RemovalsOfModal
  <2>4. PermitsOfPage'
    <3>1. CASE onBurnInput("PERCENT", 0)
      BY <1>0, <3>1, InputClears DEF BurnFields
    <3>2. CASE signatureData' = unsigned /\ UNCHANGED <<burn, signing>>
      BY <1>0, <2>1, <3>2, PermitsUntouched
    <3>. QED BY <1>11, <3>1, <3>2 DEF handleDismissRemoval
  <2>. QED BY <2>1, <2>2, <2>3, <2>4 DEF RemoveInv, SignatureFits
<1>12. ASSUME NEW r \in removals, RemovalEstimated(r) \/ RemovalAnswered(r)
       PROVE  RemoveInv'
  BY <1>12, RemovalEndsStep
<1>. QED
  <2>1. CASE RemoveNext
    BY <1>2, <1>3, <1>4, <1>5, <1>6, <1>7, <1>8, <1>9, <1>10, <1>11, <1>12, <1>13, <2>1
       DEF RemoveNext
  <2>. QED BY <1>1, <2>1

LEMMA RemoveShows == RemoveInv => SignatureFits /\ RemovalOutcomeShown
  BY DEF RemoveInv, RemovalsOfModal, RemovalOutcomeShown

-----------------------------------------------------------------------------
(* The positions.  Every pool the finder showed is saved, in the order of  *)
(* its tokens, for the chain of its tokens, and stays saved.               *)

IsFinder(f) ==
  \E shown \in BOOLEAN, field \in {0, 1},
     two \in [{1, 2} -> DexTokens \cup {coin, noCurrency}] :
    f = [showSearch |-> shown, activeField |-> field, currency |-> two]

TokenPairs == DexTokens \X DexTokens

PositionsInv ==
  /\ dexChain \in DexChains /\ IsFinder(finder)
  /\ savedPairs \in [DexChains -> SUBSET TokenPairs]
  /\ \A t \in imported :
       t \in TokenPairs /\ sorted(t) = t /\ t \in savedPairs[chainOfToken[t[1]]]

LEMMA NewFinder == IsFinder(newFinder)
<1> DEFINE two == <<coin, noCurrency>>
<1>1. two = [i \in {1, 2} |-> two[i]] /\ \A i \in {1, 2} : two[i] \in {coin, noCurrency}
  OBVIOUS
<1>2. newFinder = [showSearch |-> FALSE, activeField |-> 1, currency |-> two]
  BY DEF newFinder
<1> HIDE DEF two
<1>3. two \in [{1, 2} -> DexTokens \cup {coin, noCurrency}]
  BY <1>1
<1>. QED BY <1>2, <1>3 DEF IsFinder

LEMMA PositionsStart == PositionsInit => PositionsInv
<1>. SUFFICES ASSUME PositionsInit PROVE PositionsInv
  OBVIOUS
<1>. QED BY NewFinder DEF PositionsInit, PositionsInv

(* Sorting a pair of tokens gives a pair, and once is enough.              *)
LEMMA SortedOnce ==
  ASSUME NEW t \in TokenPairs
  PROVE  sorted(t) \in TokenPairs /\ sorted(sorted(t)) = sorted(t)
<1>1. PICK a \in DexTokens, b \in DexTokens : t = <<a, b>>
  BY DEF TokenPairs
<1>2. a \in Nat /\ b \in Nat
  BY PositionsAssumption
<1>3. CASE a < b
  <2>1. sorted(t) = t
    BY <1>1, <1>3 DEF sorted
  <2>. QED BY <2>1
<1>4. CASE ~(a < b)
  <2>1. sorted(t) = <<b, a>>
    BY <1>1, <1>4 DEF sorted
  <2>2. sorted(<<b, a>>) = <<b, a>>
    BY <1>2, <1>4 DEF sorted
  <2>. QED BY <1>1, <2>1, <2>2 DEF TokenPairs
<1>. QED BY <1>3, <1>4

(* The finder asks for pairs of tokens, in their order.                    *)
LEMMA AskedSorted ==
  ASSUME NEW f, IsFinder(f), NEW c \in DexChains, NEW t \in asked(f, c)
  PROVE  t \in TokenPairs /\ sorted(t) = t
<1>1. PICK two \in [{1, 2} -> DexTokens \cup {coin, noCurrency}] : f.currency = two
  BY DEF IsFinder
<1>2. chosen(f) /\ t = sorted(tokensOf(f, c))
  BY DEF asked
<1>3. two[1] \in DexTokens \cup {coin} /\ two[2] \in DexTokens \cup {coin}
  BY <1>1, <1>2 DEF chosen
<1>4. wethOf[c] \in DexTokens
  BY PositionsAssumption
<1>5. tokensOf(f, c) \in TokenPairs
  BY <1>1, <1>3, <1>4 DEF tokensOf, wrappedCurrency, TokenPairs
<1>. QED BY <1>2, <1>5, SortedOnce

LEMMA PositionsUntouched ==
  ASSUME PositionsInv, dexChain' \in DexChains, IsFinder(finder'),
         UNCHANGED <<savedPairs, imported>>
  PROVE  PositionsInv'
  BY DEF PositionsInv

(* A render of the finder saves what it shows.                             *)
LEMMA RendersKeeps ==
  ASSUME PositionsInv, dexChain' \in DexChains, IsFinder(finder'), NEW res,
         RendersFinder(finder', dexChain', res)
  PROVE  PositionsInv'
<1>1. CASE UNCHANGED <<savedPairs, imported>>
  BY <1>1, PositionsUntouched
<1>2. CASE ~throws(finder', dexChain')
  <2> DEFINE S == usePair(finder', dexChain', res)
  <2>1. savedPairs' = addSerializedPair(S) /\ imported' = imported \cup S
    BY <1>2 DEF RendersFinder
  <2>2. \A t \in S : t \in TokenPairs /\ sorted(t) = t
    BY AskedSorted DEF usePair
  <2> HIDE DEF S
  <2>3. savedPairs' = [c \in DexChains |-> savedPairs[c] \cup {t \in S : chainOfToken[t[1]] = c}]
    BY <2>1 DEF addSerializedPair
  <2>4. savedPairs' \in [DexChains -> SUBSET TokenPairs]
    BY <2>2, <2>3 DEF PositionsInv
  <2>5. ASSUME NEW t \in imported'
        PROVE  t \in TokenPairs /\ sorted(t) = t /\ t \in savedPairs'[chainOfToken[t[1]]]
    <3>1. t \in TokenPairs /\ sorted(t) = t
      BY <2>1, <2>2 DEF PositionsInv
    <3>2. chainOfToken[t[1]] \in DexChains
      BY <3>1, PositionsAssumption DEF TokenPairs
    <3>3. t \in savedPairs[chainOfToken[t[1]]] \/ t \in S
      BY <2>1 DEF PositionsInv
    <3>. QED BY <2>3, <3>1, <3>2, <3>3
  <2>. QED BY <2>4, <2>5 DEF PositionsInv
<1>. QED BY <1>1, <1>2 DEF RendersFinder

LEMMA PositionsStepKeeps == PositionsInv /\ [PositionsNext]_posVars => PositionsInv'
<1>. SUFFICES ASSUME PositionsInv, [PositionsNext]_posVars PROVE PositionsInv'
  OBVIOUS
<1>0. dexChain \in DexChains /\ IsFinder(finder)
  BY DEF PositionsInv
<1>1. CASE UNCHANGED posVars
  BY <1>0, <1>1, PositionsUntouched DEF posVars
<1>2. ASSUME NEW i \in {0, 1}, OpenSearch(i) PROVE PositionsInv'
  <2>1. IsFinder(finder')
    <3>1. PICK shown \in BOOLEAN, field \in {0, 1},
               two \in [{1, 2} -> DexTokens \cup {coin, noCurrency}] :
            finder = [showSearch |-> shown, activeField |-> field, currency |-> two]
      BY <1>0 DEF IsFinder
    <3>2. finder' = [showSearch |-> TRUE, activeField |-> i, currency |-> two]
      BY <1>2, <3>1 DEF OpenSearch
    <3>. QED BY <3>2 DEF IsFinder
  <2>. QED BY <1>0, <1>2, <2>1, PositionsUntouched DEF OpenSearch
<1>3. ASSUME NEW x \in DexTokens \cup {coin}, FinderSelects(x) PROVE PositionsInv'
  <2>1. IsFinder(finder')
    <3>1. PICK shown \in BOOLEAN, field \in {0, 1},
               two \in [{1, 2} -> DexTokens \cup {coin, noCurrency}] :
            finder = [showSearch |-> shown, activeField |-> field, currency |-> two]
      BY <1>0 DEF IsFinder
    <3> DEFINE two2 == [two EXCEPT ![field + 1] = x]
    <3>2. finder' = [showSearch |-> FALSE, activeField |-> field, currency |-> two2]
      BY <1>3, <3>1 DEF FinderSelects
    <3>3. two2 \in [{1, 2} -> DexTokens \cup {coin, noCurrency}]
      OBVIOUS
    <3> HIDE DEF two2
    <3>. QED BY <3>2, <3>3 DEF IsFinder
  <2>2. dexChain' = dexChain /\ RendersFinder(finder', dexChain, reserves)
    BY <1>3 DEF FinderSelects
  <2>. QED BY <1>0, <2>1, <2>2, RendersKeeps
<1>4. CASE handleSearchDismiss
  <2>1. IsFinder(finder')
    <3>1. PICK shown \in BOOLEAN, field \in {0, 1},
               two \in [{1, 2} -> DexTokens \cup {coin, noCurrency}] :
            finder = [showSearch |-> shown, activeField |-> field, currency |-> two]
      BY <1>0 DEF IsFinder
    <3>2. finder' = [showSearch |-> FALSE, activeField |-> field, currency |-> two]
      BY <1>4, <3>1 DEF handleSearchDismiss
    <3>. QED BY <3>2 DEF IsFinder
  <2>. QED BY <1>0, <1>4, <2>1, PositionsUntouched DEF handleSearchDismiss
<1>5. CASE GoToPool \/ ReloadDex
  <2>1. finder' = newFinder /\ UNCHANGED <<dexChain, savedPairs, imported>>
    BY <1>5 DEF GoToPool, ReloadDex
  <2>2. IsFinder(finder')
    BY <2>1, NewFinder
  <2>. QED BY <1>0, <2>1, <2>2, PositionsUntouched
<1>6. CASE GoToFinder
  BY <1>0, <1>6, PositionsUntouched DEF GoToFinder
<1>7. ASSUME NEW t \in DexPairs, Reserves(t) PROVE PositionsInv'
  <2>1. UNCHANGED <<dexChain, finder>>
    BY <1>7 DEF Reserves
  <2>2. \/ RendersFinder(finder, dexChain, reserves')
        \/ UNCHANGED <<savedPairs, imported>>
    BY <1>7 DEF Reserves
  <2>3. IsFinder(finder')
    BY <1>0, <2>1
  <2>. QED BY <1>0, <2>1, <2>2, <2>3, RendersKeeps, PositionsUntouched
<1>8. ASSUME NEW t \in DexPairs, useTokenBalances(t) PROVE PositionsInv'
  BY <1>0, <1>8, PositionsUntouched DEF useTokenBalances
<1>9. ASSUME NEW c \in DexChains, SwitchDexChain(c) PROVE PositionsInv'
  <2>1. dexChain' = c /\ UNCHANGED finder
    BY <1>9 DEF SwitchDexChain
  <2>2. RendersFinder(finder, c, reserves) \/ UNCHANGED <<savedPairs, imported>>
    BY <1>9 DEF SwitchDexChain
  <2>3. IsFinder(finder')
    BY <1>0, <2>1
  <2>. QED BY <2>1, <2>2, <2>3, RendersKeeps, PositionsUntouched
<1>10. ASSUME NEW t \in Deployed, ShareChanges(t) PROVE PositionsInv'
  BY <1>0, <1>10, PositionsUntouched DEF ShareChanges
<1>. QED
  <2>1. CASE PositionsNext
    BY <1>2, <1>3, <1>4, <1>5, <1>6, <1>7, <1>8, <1>9, <1>10, <2>1 DEF PositionsNext
  <2>. QED BY <1>1, <2>1

(* Sorted pairs are told apart by what they are, so a saved pool has one   *)
(* card.                                                                   *)
LEMMA PositionsShow == PositionsInv => ImportedOnce
<1>. SUFFICES ASSUME PositionsInv, NEW t \in imported, chainOfToken[t[1]] = dexChain,
                     ~v2IsLoading,
                     shares[dexChain][t] = "some", reserves[dexChain][t] = "exists"
              PROVE  Cardinality({x \in cards : sorted(x) = t}) = 1
  BY DEF ImportedOnce
<1>1. t \in TokenPairs /\ sorted(t) = t /\ t \in savedPairs[dexChain]
  BY DEF PositionsInv
<1>2. t \in cards
  BY <1>1 DEF cards, pooled, useTrackedTokenPairs, dedupe
<1>3. ASSUME NEW x \in cards PROVE sorted(x) = x
  <2>1. PICK y \in savedPairs[dexChain] \cup generatedPairs(dexChain) \cup pinnedPairs(dexChain) :
          x = sorted(y)
    BY <1>3 DEF cards, pooled, useTrackedTokenPairs, dedupe
  <2>2. y \in TokenPairs
    <3>1. dexChain \in DexChains /\ savedPairs[dexChain] \subseteq TokenPairs
      BY DEF PositionsInv
    <3>2. generatedPairs(dexChain) \subseteq TokenPairs
      BY <3>1, PositionsAssumption DEF generatedPairs, TokenPairs
    <3>3. pinnedPairs(dexChain) \subseteq TokenPairs
      BY PositionsAssumption DEF pinnedPairs, TokenPairs
    <3>. QED BY <2>1, <3>1, <3>2, <3>3
  <2>. QED BY <2>1, <2>2, SortedOnce
<1>4. {x \in cards : sorted(x) = t} = {t}
  BY <1>1, <1>2, <1>3
<1>. QED BY <1>4, FS_Singleton

-----------------------------------------------------------------------------
(* The settings.  What is stored is a field's product by a hundred, which  *)
(* opening the modal shows as a percentage that has the same product; and  *)
(* a deadline in the store is whole minutes.                               *)

SettingsFields == {"open", "value", "error", "retyped", "minutes", "deadlineError"}

StoredFromField ==
  /\ userSlippageTolerance \in Tolerances
  /\ timesHundred[overHundred[userSlippageTolerance]] = userSlippageTolerance
  /\ userDeadline \in Int /\ userDeadline % 60 = 0

FieldsAreStored ==
  settings.open =>
    /\ settings.value \in Tolerances \cup {NotANumber}
    /\ validTolerance(rawValue(settings.value)) =>
         rawValue(settings.value) = userSlippageTolerance
    /\ validMinutes(settings.minutes) => settings.minutes * 60 = userDeadline
    /\ validTolerance(rawValue(settings.value)) /\ ~settings.retyped =>
         settings.error = riskOf(userSlippageTolerance)

SettingsInv ==
  /\ DOMAIN settings = SettingsFields /\ settings = [k \in SettingsFields |-> settings[k]]
  /\ StoredFromField /\ FieldsAreStored

(* A whole number of bips, off by less than one, is rounded back to it.    *)
LEMMA QuotientBounds ==
  ASSUME NEW a \in Int, NEW b \in Nat \ {0}
  PROVE  a \div b \in Int /\ b * (a \div b) <= a /\ a < b * (a \div b) + b
  OBVIOUS

LEMMA WholeBips ==
  ASSUME NEW m \in Int, NEW e \in 0 .. 2 PROVE (m * BIP + e) \div BIP = m
<1>1. BIP \in Nat \ {0} /\ BIP > 4
  BY SettingsAssumption
<1> DEFINE a == m * BIP + e
           q == a \div BIP
<1>2. a \in Int
  BY <1>1
<1>3. q \in Int /\ BIP * q <= a /\ a < BIP * q + BIP
  BY <1>1, <1>2, QuotientBounds
<1>4. a = BIP * m + e
  BY <1>1
<1> HIDE DEF a, q
<1>5. BIP * (m - q) = BIP * m - BIP * q
  BY <1>1, <1>3
<1>6. BIP * (m - q) < BIP /\ BIP * (m - q) > -BIP
  BY <1>1, <1>3, <1>4, <1>5
<1>7. m - q < 1 /\ m - q > -1
  BY <1>1, <1>3, <1>6
<1>8. m = q
  BY <1>3, <1>7
<1>. QED BY <1>8 DEF a, q

(* What a valid field's tolerance is used as.                              *)
LEMMA UsedAsShown ==
  ASSUME NEW v \in Tolerances, validTolerance(timesHundred[v]),
         userSlippageTolerance = timesHundred[v]
  PROVE  UsedAs(v)
<1> DEFINE s == timesHundred[v]
           k == (s + 1) \div BIP
<1>1. BIP \in Int /\ BIP > 4 /\ v \in Int /\ s \in Int /\ s - v \in -1 .. 1
  BY SettingsAssumption
<1>2. s > 0
  BY DEF validTolerance
<1>3. k \in Int
  BY <1>1
<1>4. s \div BIP \in {(v + d) \div BIP : d \in -1 .. 1}
  <2>1. s = v + (s - v)
    BY <1>1
  <2>. QED BY <1>1, <2>1
<1>5. calculateSlippageAmount(s) = IF s - k * BIP \in -1 .. 1 THEN k ELSE thrown
  BY DEF calculateSlippageAmount
<1>6. calculateSlippageAmount(s) # thrown => v - calculateSlippageAmount(s) * BIP \in -2 .. 2
  <2>1. SUFFICES ASSUME s - k * BIP \in -1 .. 1 PROVE v - k * BIP \in -2 .. 2
    BY <1>5
  <2> HIDE DEF s, k
  <2>2. k * BIP \in Int
    BY <1>1, <1>3
  <2>. QED BY <1>1, <2>1, <2>2
<1>7. v % BIP = 0 => calculateSlippageAmount(s) # thrown
  <2>1. SUFFICES ASSUME v % BIP = 0 PROVE k \in Int /\ k # thrown /\ s - k * BIP \in -1 .. 1
    BY <1>5
  <2> DEFINE m == v \div BIP
  <2>2. m \in Int /\ v = m * BIP
    BY <1>1, <2>1
  <2>3. s + 1 = m * BIP + (s - v + 1) /\ s - v + 1 \in 0 .. 2
    BY <1>1, <2>2
  <2>4. k = m
    BY <2>2, <2>3, WholeBips
  <2> HIDE DEF s, m, k
  <2>5. s - m * BIP \in -1 .. 1
    BY <1>1, <2>2
  <2>6. m # -1
    <3>1. m = -1 => m * BIP = -BIP
      BY <1>1, <2>2
    <3>. QED BY <1>1, <1>2, <2>2, <3>1
  <2>. QED BY <1>3, <2>4, <2>5, <2>6 DEF thrown
<1>. QED BY <1>4, <1>6, <1>7 DEF UsedAs, basisPointsToPercent

LEMMA SettingsAreShown == SettingsInv => SettingsShown
<1>. SUFFICES ASSUME SettingsInv, settings.open PROVE SettingsShown
  BY DEF SettingsShown
<1>1. FieldsAreStored
  BY DEF SettingsInv
<1>2. ASSUME validTolerance(rawValue(settings.value)) PROVE UsedAs(settings.value)
  <2>1. settings.value # NotANumber
    BY <1>2 DEF rawValue, validTolerance
  <2>2. settings.value \in Tolerances /\ rawValue(settings.value) = timesHundred[settings.value]
    BY <1>1, <2>1 DEF FieldsAreStored, rawValue
  <2>. QED BY <1>1, <1>2, <2>2, UsedAsShown DEF FieldsAreStored
<1>. QED BY <1>1, <1>2 DEF FieldsAreStored, SettingsShown

LEMMA SettingsStart == SettingsInit => SettingsInv
<1>. SUFFICES ASSUME SettingsInit PROVE SettingsInv
  OBVIOUS
<1>1. /\ DOMAIN settings = SettingsFields
      /\ settings = [k \in SettingsFields |-> settings[k]] /\ ~settings.open
  BY DEF SettingsInit, closedSettings, SettingsFields
<1>2. userDeadline \in Int /\ userDeadline % 60 = 0
  BY SettingsAssumption DEF SettingsInit
<1>3. /\ userSlippageTolerance \in Tolerances
      /\ timesHundred[userSlippageTolerance] = userSlippageTolerance
  BY SettingsAssumption DEF SettingsInit
<1>4. timesHundred[overHundred[userSlippageTolerance]] = userSlippageTolerance
  BY <1>3, SettingsAssumption
<1>. QED BY <1>1, <1>2, <1>3, <1>4 DEF SettingsInv, StoredFromField, FieldsAreStored

(* The message of a valid tolerance is its warning, if it has one.         *)
LEMMA WarnedOfRisk ==
  ASSUME NEW v, NEW risk, validTolerance(v) PROVE messageAfter(v, risk) = risk
<1>1. CASE risk = ""
  BY <1>1 DEF messageAfter
<1>2. CASE risk # ""
  BY <1>2 DEF messageAfter
<1>. QED BY <1>1, <1>2

LEMMA OpenSettingsStep ==
  ASSUME SettingsInv, openSettings
  PROVE  SettingsInv'
<1>1. /\ settings' = [open |-> TRUE, value |-> overHundred[userSlippageTolerance],
                      retyped |-> FALSE,
                      error |-> messageAfter(userSlippageTolerance,
                                             riskOf(userSlippageTolerance)),
                      minutes |-> userDeadline \div 60, deadlineError |-> ""]
      /\ UNCHANGED <<userSlippageTolerance, userDeadline>>
  BY DEF openSettings
<1>2. DOMAIN settings' = SettingsFields /\ settings' = [k \in SettingsFields |-> settings'[k]]
  BY <1>1 DEF SettingsFields
<1>3. StoredFromField'
  BY <1>1 DEF SettingsInv, StoredFromField
<1>4. (userDeadline \div 60) * 60 = userDeadline
  BY DEF SettingsInv, StoredFromField
<1>5. /\ settings'.value \in Tolerances
      /\ rawValue(settings'.value) = userSlippageTolerance
  <2>1. userSlippageTolerance \in Tolerances
    BY DEF SettingsInv, StoredFromField
  <2>2. overHundred[userSlippageTolerance] \in Tolerances
    BY <2>1, SettingsAssumption
  <2>3. overHundred[userSlippageTolerance] # NotANumber
    BY <2>2, SettingsAssumption
  <2>. QED BY <1>1, <2>2, <2>3 DEF rawValue, SettingsInv, StoredFromField
<1>6. validTolerance(userSlippageTolerance) =>
        settings'.error = riskOf(userSlippageTolerance)
  BY <1>1, WarnedOfRisk
<1>7. settings'.minutes = userDeadline \div 60
  BY <1>1
<1>8. FieldsAreStored'
  BY <1>1, <1>4, <1>5, <1>6, <1>7 DEF FieldsAreStored
<1>. QED BY <1>2, <1>3, <1>8 DEF SettingsInv

LEMMA ToleranceStep ==
  ASSUME SettingsInv, NEW v \in Tolerances \cup {NotANumber}, setTolerance(v)
  PROVE  SettingsInv'
<1> DEFINE raw == rawValue(v)
           anew == userSlippageTolerance' # userSlippageTolerance
           message == messageAfter(raw, IF anew THEN riskOf(raw) ELSE "")
<1>1. /\ userSlippageTolerance' = IF validTolerance(raw) THEN raw ELSE userSlippageTolerance
      /\ settings' = [settings EXCEPT !.value = v, !.retyped = ~anew /\ validTolerance(raw),
                                      !.error = message]
      /\ UNCHANGED userDeadline /\ settings.open
  BY DEF setTolerance
<1>2. validTolerance(raw) /\ anew => message = riskOf(raw)
  BY WarnedOfRisk
<1>3. validTolerance(raw) =>
        /\ raw \in Tolerances /\ timesHundred[overHundred[raw]] = raw
  <2>1. SUFFICES ASSUME validTolerance(raw)
        PROVE  raw \in Tolerances /\ timesHundred[overHundred[raw]] = raw
    OBVIOUS
  <2>2. v # NotANumber
    BY <2>1 DEF rawValue, validTolerance
  <2>3. v \in Tolerances /\ raw = timesHundred[v]
    BY <2>2 DEF rawValue
  <2>. QED BY <2>3, SettingsAssumption
<1> HIDE DEF message, raw
<1>4. /\ DOMAIN settings' = SettingsFields
      /\ settings' = [k \in SettingsFields |-> settings'[k]]
      /\ settings'.value = v /\ settings'.error = message
      /\ settings'.minutes = settings.minutes
      /\ (settings'.retyped <=> ~anew /\ validTolerance(raw))
  BY <1>1 DEF SettingsInv, SettingsFields
<1>5. StoredFromField'
  BY <1>1, <1>3 DEF SettingsInv, StoredFromField
<1>6. validMinutes(settings'.minutes) => settings'.minutes * 60 = userDeadline'
  BY <1>1, <1>4 DEF SettingsInv, FieldsAreStored
<1>7. rawValue(settings'.value) = raw
  BY <1>4 DEF raw
<1>8. FieldsAreStored'
  BY <1>1, <1>2, <1>4, <1>6, <1>7 DEF FieldsAreStored
<1>. QED BY <1>4, <1>5, <1>8 DEF SettingsInv

LEMMA MinutesStep ==
  ASSUME SettingsInv, NEW v \in TypedMinutes \cup {NotANumber}, setMinutes(v)
  PROVE  SettingsInv'
<1>1. /\ userDeadline' = IF validMinutes(v) THEN v * 60 ELSE userDeadline
      /\ settings' = [settings EXCEPT !.minutes = v,
                        !.deadlineError = IF validMinutes(v) THEN "" ELSE "invalid"]
      /\ UNCHANGED userSlippageTolerance /\ settings.open
  BY DEF setMinutes
<1>2. userDeadline' \in Int /\ userDeadline' % 60 = 0
  <2>1. CASE validMinutes(v)
    <3>1. v \in Int
      BY <2>1, SettingsAssumption DEF validMinutes
    <3>2. (v * 60) % 60 = 0
      BY <3>1
    <3>. QED BY <1>1, <2>1, <3>1, <3>2
  <2>2. CASE ~validMinutes(v)
    BY <1>1, <2>2 DEF SettingsInv, StoredFromField
  <2>. QED BY <2>1, <2>2
<1>3. /\ DOMAIN settings' = SettingsFields
      /\ settings' = [k \in SettingsFields |-> settings'[k]]
      /\ settings'.minutes = v /\ settings'.value = settings.value
      /\ settings'.error = settings.error /\ settings'.retyped = settings.retyped
  BY <1>1 DEF SettingsInv, SettingsFields
<1>4. StoredFromField'
  BY <1>1, <1>2 DEF SettingsInv, StoredFromField
<1>5. validMinutes(v) => v * 60 = userDeadline'
  BY <1>1
<1>6. FieldsAreStored
  BY DEF SettingsInv
<1>7. validMinutes(settings'.minutes) => settings'.minutes * 60 = userDeadline'
  BY <1>3, <1>5
<1>8. FieldsAreStored'
  BY <1>1, <1>3, <1>6, <1>7 DEF FieldsAreStored
<1>. QED BY <1>3, <1>4, <1>8 DEF SettingsInv

LEMMA SettingsStepKeeps == SettingsInv /\ [SettingsNext]_settingsVars => SettingsInv'
<1>. SUFFICES ASSUME SettingsInv, [SettingsNext]_settingsVars PROVE SettingsInv'
  OBVIOUS
<1>1. CASE UNCHANGED settingsVars
  BY <1>1 DEF settingsVars, SettingsInv, StoredFromField, FieldsAreStored
<1>2. CASE openSettings
  BY <1>2, OpenSettingsStep
<1>3. CASE dismissSettings \/ ReloadSettings
  <2>1. settings' = closedSettings /\ UNCHANGED <<userSlippageTolerance, userDeadline>>
    BY <1>3 DEF dismissSettings, ReloadSettings
  <2>2. /\ DOMAIN settings' = SettingsFields
        /\ settings' = [k \in SettingsFields |-> settings'[k]] /\ ~settings'.open
    BY <2>1 DEF closedSettings, SettingsFields
  <2>. QED BY <2>1, <2>2 DEF SettingsInv, StoredFromField, FieldsAreStored
<1>4. ASSUME NEW v \in Tolerances \cup {NotANumber}, setTolerance(v) PROVE SettingsInv'
  BY <1>4, ToleranceStep
<1>5. ASSUME NEW v \in TypedMinutes \cup {NotANumber}, setMinutes(v) PROVE SettingsInv'
  BY <1>5, MinutesStep
<1>. QED BY <1>1, <1>2, <1>3, <1>4, <1>5 DEF SettingsNext

-----------------------------------------------------------------------------
(* The invariants hold together.                                           *)

ExchangeInv == SwapInv /\ AddInv /\ RemoveInv /\ PositionsInv /\ SettingsInv

THEOREM ExchangeKeepsInvariants == Spec => []ExchangeInv
<1>1. Init => ExchangeInv
  BY SwapStarts, AddStarts, RemoveStarts, PositionsStart, SettingsStart DEF Init, ExchangeInv
<1>2. ExchangeInv /\ [Next]_exchangeVars => ExchangeInv'
  BY ExchangeStep, SwapStepKeeps, AddStepKeeps, RemoveStepKeeps, PositionsStepKeeps,
     SettingsStepKeeps DEF ExchangeInv
<1>. QED BY <1>1, <1>2, PTL DEF Spec

(* A swap sent is the trade the user agreed to, a pool is created with the *)
(* amounts typed last, and a permit is sent with the amount and the pair   *)
(* it was signed for, but for what SignatureFits excepts.                  *)
THEOREM SendsAsAgreed == Spec => []SentAsAgreed
<1>1. ExchangeInv => SentAsAgreed
  BY SwapShows, AddShows, RemoveShows DEF ExchangeInv, SentAsAgreed
<1>. QED BY <1>1, ExchangeKeepsInvariants, PTL

(* The transaction or error a confirmation modal shows was confirmed in    *)
(* that modal, unless it overlapped an earlier one.                        *)
THEOREM ShowsItsOutcomes == Spec => []OutcomesShown
<1>1. ExchangeInv => OutcomesShown
  BY SwapShows, AddShows, RemoveShows DEF ExchangeInv, OutcomesShown
<1>. QED BY <1>1, ExchangeKeepsInvariants, PTL

(* A pool the finder found has one card on the Pool page of its chain,     *)
(* whatever else tracks it, after changes of chain and reloads.            *)
THEOREM ImportsAreKept == Spec => []ImportedOnce
<1>1. ExchangeInv => ImportedOnce
  BY PositionsShow DEF ExchangeInv
<1>. QED BY <1>1, ExchangeKeepsInvariants, PTL

(* What the valid fields of the open settings say is what transactions     *)
(* use: swaps the bips it rounds down to, liquidity the nearest, or none   *)
(* when it is no whole number of them, whatever rounding errors (within a  *)
(* unit) the two conversions make.  A risky tolerance is warned of unless  *)
(* it was typed again.                                                     *)
THEOREM SettingsAreInForce == Spec => []SettingsShown
<1>1. ExchangeInv => SettingsShown
  BY SettingsAreShown DEF ExchangeInv
<1>. QED BY <1>1, ExchangeKeepsInvariants, PTL
=============================================================================
