------------------------------ MODULE AddPage ------------------------------
(***************************************************************************)
(* The exchange's page that adds liquidity.  In a pool that has some, the  *)
(* amount of one field follows from the other's at the pool's price; in an *)
(* empty pool both are typed, although state/mint keeps only the field     *)
(* typed last and one other value.  The pool may gain or lose its          *)
(* liquidity, and the address name another, between two inputs and while   *)
(* the confirmation modal is open.                                         *)
(***************************************************************************)
EXTENDS Integers, FiniteSets

CONSTANTS
  Typable,       \* amounts that may be typed
  Prices,        \* a pool's price, 0 for an empty pool
  Holds,         \* what the user holds of each token
  MaxAddMoves,   \* bound: inputs, and changes of pool and price
  MaxSupplies    \* bound: supplies confirmed

ASSUME AddAssumption ==
  /\ Typable \subseteq Nat \ {0} /\ Prices \subseteq Nat /\ Holds \in Nat
  /\ MaxAddMoves \in Nat /\ MaxSupplies \in Nat

VARIABLES
  mint,       \* state.mint
  price,      \* the pool's price; -1 while it is loaded
  addApproval,\* of each field's token: "no", "pending" or "yes"
  addExpert,  \* useIsExpertMode
  addition,   \* the page's state: showConfirm, attemptingTxn, txHash
  supplies,   \* onAdd's promises
  supplyIds,  \* history: the supplies confirmed so far
  typed,      \* history: the amounts the user sees in the fields he typed in
  addMoves    \* inputs, and changes of pool and price so far

addVars == <<mint, price, addApproval, addExpert, addition, supplies, supplyIds, typed, addMoves>>

Fields == {"A", "B"}
dependent(f) == IF f = "A" THEN "B" ELSE "A"
loading == -1

(* "since": history, the supplies confirmed since the modal was opened;    *)
(* "left": history, it was dismissed while one was unanswered.             *)
AddInit ==
  /\ mint = [independentField |-> "A", typedValue |-> 0, otherTypedValue |-> 0]
  /\ price \in Prices
  /\ addApproval \in [Fields -> {"no", "yes"}]
  /\ addExpert \in BOOLEAN
  /\ addition = [showConfirm |-> FALSE, attemptingTxn |-> FALSE, txHash |-> 0,
                 since |-> {}, left |-> FALSE]
  /\ supplies = {} /\ supplyIds = 0 /\ typed = [f \in Fields |-> 0] /\ addMoves = 0

-----------------------------------------------------------------------------
(* useDerivedMintInfo; 0 for an amount that is not there.                  *)
noLiquidity == price = 0
dependentAmount ==
  IF noLiquidity THEN mint.otherTypedValue
  ELSE IF price = loading \/ mint.typedValue = 0 THEN 0 ELSE mint.typedValue + price
parsedAmounts ==
  [f \in Fields |-> IF f = mint.independentField THEN mint.typedValue ELSE dependentAmount]
amountsThere == \A f \in Fields : parsedAmounts[f] > 0
addValid == amountsThere /\ \A f \in Fields : parsedAmounts[f] <= Holds

(* The reducer's typeInput.                                                *)
typeField(f, v) ==
  [independentField |-> f, typedValue |-> v,
   otherTypedValue |-> CASE ~noLiquidity -> 0
                         [] noLiquidity /\ f = mint.independentField -> mint.otherTypedValue
                         [] OTHER -> mint.typedValue]
onFieldInput(f, v) ==
  /\ mint' = typeField(f, v)
  /\ typed' = [g \in Fields |-> IF g = f THEN v ELSE IF noLiquidity THEN typed[g] ELSE 0]

AddMove == addMoves < MaxAddMoves /\ addMoves' = addMoves + 1
TypedAmount ==
  /\ AddMove /\ ~addition.showConfirm
  /\ \E f \in Fields, v \in Typable : onFieldInput(f, v)
  /\ UNCHANGED <<price, addApproval, addExpert, addition, supplies, supplyIds>>

(* Others add and remove liquidity ...                                     *)
PoolChanges ==
  /\ AddMove /\ price # loading /\ price' \in Prices \ {price}
  /\ UNCHANGED <<mint, addApproval, addExpert, addition, supplies, supplyIds, typed>>

(* ... and the address names another pool, which has to be loaded.         *)
handleCurrencySelect ==
  /\ AddMove /\ ~addition.showConfirm /\ price' = loading
  /\ \E f \in Fields, s \in {"no", "yes"} : addApproval' = [addApproval EXCEPT ![f] = s]
  /\ UNCHANGED <<mint, addExpert, addition, supplies, supplyIds, typed>>
PoolLoaded ==
  /\ price = loading /\ price' \in Prices
  /\ UNCHANGED <<mint, addApproval, addExpert, addition, supplies, supplyIds, typed, addMoves>>

approveField(f) ==
  /\ ~addition.showConfirm /\ addValid /\ addApproval[f] = "no"
  /\ addApproval' = [addApproval EXCEPT ![f] = "pending"]
  /\ UNCHANGED <<mint, price, addExpert, addition, supplies, supplyIds, typed, addMoves>>
FieldApprovalMined(f) ==
  /\ addApproval[f] = "pending"
  /\ \E s \in {"no", "yes"} : addApproval' = [addApproval EXCEPT ![f] = s]
  /\ UNCHANGED <<mint, price, addExpert, addition, supplies, supplyIds, typed, addMoves>>

-----------------------------------------------------------------------------
SupplyEnabled == ~addition.showConfirm /\ addValid /\ \A f \in Fields : addApproval[f] = "yes"
SupplyButton ==
  /\ SupplyEnabled /\ ~addExpert
  /\ addition' = [addition EXCEPT !.showConfirm = TRUE, !.since = {}]
  /\ UNCHANGED <<mint, price, addApproval, addExpert, supplies, supplyIds, typed, addMoves>>

(* Only the buttons look at the balances, the modal does not again.        *)
onAdd ==
  /\ amountsThere /\ supplyIds < MaxSupplies /\ supplyIds' = supplyIds + 1
  /\ supplies' = supplies \cup
       {[id |-> supplyIds', amounts |-> parsedAmounts, typed |-> typed,
         creates |-> noLiquidity]}
  /\ addition' = [addition EXCEPT !.attemptingTxn = TRUE, !.since = @ \cup {supplyIds'}]
  /\ UNCHANGED <<mint, price, addApproval, addExpert, typed, addMoves>>
ConfirmSupply ==
  \/ addition.showConfirm /\ ~addition.attemptingTxn /\ addition.txHash = 0 /\ onAdd
  \/ SupplyEnabled /\ addExpert /\ onAdd

(* The estimate and the wallet: sent, or an error of either.               *)
supplyFailed == [addition EXCEPT !.attemptingTxn = FALSE]
SupplyAnswered(s) ==
  /\ supplies' = supplies \ {s}
  /\ addition' \in {supplyFailed, [addition EXCEPT !.attemptingTxn = FALSE, !.txHash = s.id]}
  /\ UNCHANGED <<mint, price, addApproval, addExpert, supplyIds, typed, addMoves>>
SupplyEnds(i) == \E s \in supplies : s.id = i /\ SupplyAnswered(s)

handleDismissSupply ==
  /\ addition.showConfirm
  /\ addition' = [addition EXCEPT !.showConfirm = FALSE, !.txHash = 0, !.since = {},
                                  !.left = @ \/ supplies # {}]
  /\ IF addition.txHash # 0 THEN onFieldInput("A", 0) ELSE UNCHANGED <<mint, typed>>
  /\ UNCHANGED <<price, addApproval, addExpert, supplies, supplyIds, addMoves>>

AddNext ==
  \/ TypedAmount \/ PoolChanges \/ handleCurrencySelect \/ PoolLoaded
  \/ \E f \in Fields : approveField(f) \/ FieldApprovalMined(f)
  \/ SupplyButton \/ ConfirmSupply \/ handleDismissSupply
  \/ \E s \in supplies : SupplyAnswered(s)

-----------------------------------------------------------------------------
(* A pool is created with the two amounts the user typed last, in whatever *)
(* order and for whatever pools he typed them.                             *)
CreatedAsTyped == \A s \in supplies : s.creates => s.amounts = s.typed

(* The transaction the modal shows is of a supply confirmed in it, unless  *)
(* an earlier modal was dismissed before its answer.                       *)
SupplyOutcomeShown ==
  /\ addition.showConfirm /\ ~addition.attemptingTxn /\ addition.txHash # 0 /\ ~addition.left
  => addition.txHash \in addition.since
=============================================================================
