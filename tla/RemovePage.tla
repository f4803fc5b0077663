----------------------------- MODULE RemovePage -----------------------------
(***************************************************************************)
(* The exchange's page that removes liquidity: the amount, typed as a      *)
(* percentage, as liquidity or as one of the tokens it is worth, or set    *)
(* with a slider that reports 100 ms late; a signature (permit) of the     *)
(* amount in place of an approval; and the confirmation modal, which shows *)
(* no spinner before the removal is estimated.                             *)
(***************************************************************************)
EXTENDS Integers, FiniteSets

CurrencyFields == {"CURRENCY_A", "CURRENCY_B"}

CONSTANTS
  LpPairs,        \* the pairs the address may name
  Percents,       \* positions of the slider and its buttons
  LpTyped,        \* amounts of liquidity, or of a token, that may be typed
  LpBalances,     \* what the user may hold of a pair
  Worths,         \* what that may be worth in the pair's two tokens
  MaxRemoveMoves, \* bound: inputs, slides, and changes of pair, balance and worth
  MaxSignatures,  \* bound: signatures asked for at once
  MaxRemovals     \* bound: removals confirmed

ASSUME RemoveAssumption ==
  /\ Percents \subseteq 0 .. 100 /\ LpTyped \subseteq Nat \ {0} /\ LpBalances \subseteq Nat \ {0}
  /\ Worths \subseteq [CurrencyFields -> Nat] /\ MaxRemoveMoves \in Nat
  /\ MaxSignatures \in Nat /\ MaxRemovals \in Nat

VARIABLES
  burn,          \* state.burn
  lpPair,        \* the pair of the address
  held,          \* userLiquidity, the user's balance of it
  worth,         \* liquidityValues: its share of the pair's reserves
  slider,        \* useDebouncedChangeHandler: its inner value and timer
  lpApproval,    \* the pairs approved, "no", "pending" or "yes"
  signatureData, \* the page's state
  signing,       \* signatures asked for
  removal,       \* the page's state: showConfirm, attemptingTxn, txHash
  removals,      \* onRemove's promises
  removalIds,    \* history: the removals confirmed so far
  removeMoves    \* inputs, slides, and changes of pair, balance and worth so far

removeForm == <<burn, lpPair, held, worth, slider>>
removeVars == <<removeForm, lpApproval, signatureData, signing, removal, removals,
                removalIds, removeMoves>>

noTimer == -1
unsigned == [pair |-> 0, amount |-> 0]

(* "since": history, the removals confirmed since the modal was opened;    *)
(* "left": history, it was dismissed while one was unanswered.             *)
RemoveInit ==
  /\ burn = [independentField |-> "PERCENT", typedValue |-> 0]
  /\ lpPair \in LpPairs /\ held \in LpBalances /\ worth \in Worths
  /\ slider = [inner |-> 0, timer |-> noTimer]
  /\ lpApproval = [p \in LpPairs |-> "no"]
  /\ signatureData = unsigned /\ signing = {}
  /\ removal = [showConfirm |-> FALSE, attemptingTxn |-> FALSE, txHash |-> 0,
                since |-> {}, left |-> FALSE]
  /\ removals = {} /\ removalIds = 0 /\ removeMoves = 0

-----------------------------------------------------------------------------
(* useDerivedBurnInfo: the share of the user's liquidity to remove, a      *)
(* fraction, the page's percentage, and the amount.  An amount above the   *)
(* balance, or above what that is worth in its token, is none.             *)
nothingOf == [num |-> 0, den |-> 1]
partOf(whole) ==
  IF burn.typedValue > whole THEN nothingOf ELSE [num |-> burn.typedValue, den |-> whole]
share == CASE burn.independentField = "PERCENT"   -> [num |-> burn.typedValue, den |-> 100]
           [] burn.independentField = "LIQUIDITY" -> partOf(held)
           [] OTHER                               -> partOf(worth[burn.independentField])
percentToRemove == (200 * share.num + share.den) \div (2 * share.den)
liquidityAmount == (share.num * held) \div share.den
removeError == share.num = 0

lpApprovalState ==
  CASE removeError -> "UNKNOWN"
    [] ~removeError /\ lpApproval[lpPair] = "yes" -> "APPROVED"
    [] ~removeError /\ lpApproval[lpPair] = "pending" -> "PENDING"
    [] OTHER -> "NOT_APPROVED"
mayRemove == lpApprovalState = "APPROVED" \/ signatureData # unsigned

(* useDebouncedChangeHandler's effect: a change of the percentage stops    *)
(* the timer and moves the slider.                                         *)
SliderFollows(was) ==
  slider' = IF percentToRemove' # percentToRemove
            THEN [inner |-> percentToRemove', timer |-> noTimer] ELSE was

(* onBurnInput: an input clears the signature.  History: the signatures    *)
(* not answered yet are of an amount that is no more.                      *)
signatureAfterInput == unsigned
onBurnInput(field, v) ==
  /\ burn' = [independentField |-> field, typedValue |-> v]
  /\ signatureData' = signatureAfterInput
  /\ signing' = {[q EXCEPT !.overtaken = TRUE] : q \in signing}

RemoveMove == removeMoves < MaxRemoveMoves /\ removeMoves' = removeMoves + 1
Typed ==
  /\ RemoveMove /\ ~removal.showConfirm
  /\ \/ \E v \in Percents : onBurnInput("PERCENT", v)
     \/ \E v \in LpTyped, f \in {"LIQUIDITY"} \cup CurrencyFields : onBurnInput(f, v)
  /\ UNCHANGED <<lpPair, held, worth, lpApproval, removal, removals, removalIds>>
  /\ SliderFollows(slider)

Slide ==
  /\ RemoveMove /\ ~removal.showConfirm
  /\ \E v \in Percents : slider' = [inner |-> v, timer |-> v]
  /\ UNCHANGED <<burn, lpPair, held, worth, lpApproval, signatureData, signing, removal,
                 removals, removalIds>>

SliderFires ==
  /\ slider.timer # noTimer
  /\ onBurnInput("PERCENT", slider.timer)
  /\ UNCHANGED <<lpPair, held, worth, lpApproval, removal, removals, removalIds,
                 removeMoves>>
  /\ SliderFollows([slider EXCEPT !.timer = noTimer])

(* The address names another pair, or the balance or its worth changes:    *)
(* the signature stays.  History: it is of what the page had before.       *)
Moved(S) == {[q EXCEPT !.moved = TRUE] : q \in S}
PermitsMove ==
  /\ signing' = Moved(signing)
  /\ signatureData' = IF signatureData = unsigned THEN unsigned
                      ELSE [signatureData EXCEPT !.moved = TRUE]

SelectOrReceive ==
  /\ RemoveMove /\ worth' \in Worths
  /\ \/ ~removal.showConfirm /\ lpPair' \in LpPairs \ {lpPair} /\ held' \in LpBalances
     \/ UNCHANGED lpPair /\ held' \in LpBalances \ {held}
  /\ PermitsMove
  /\ UNCHANGED <<burn, lpApproval, removal, removals, removalIds>>
  /\ SliderFollows(slider)

(* The pair trades, or its supply changes: with an amount of a token typed *)
(* the liquidity follows.                                                  *)
ReservesMove ==
  /\ RemoveMove /\ worth' \in Worths \ {worth}
  /\ IF burn.independentField \in CurrencyFields THEN PermitsMove
     ELSE UNCHANGED <<signing, signatureData>>
  /\ UNCHANGED <<burn, lpPair, held, lpApproval, removal, removals, removalIds>>
  /\ SliderFollows(slider)

-----------------------------------------------------------------------------
(* The signature: asked for with the amount and pair of the click; given,  *)
(* refused, or not to be had, when the approval is sent instead.           *)
onAttemptToApprove ==
  /\ ~removal.showConfirm /\ lpApprovalState = "NOT_APPROVED" /\ signatureData = unsigned
  /\ Cardinality(signing) < MaxSignatures
  /\ signing' = signing \cup {[pair |-> lpPair, amount |-> liquidityAmount,
                               overtaken |-> FALSE, moved |-> FALSE]}
  /\ UNCHANGED <<removeForm, lpApproval, signatureData, removal, removals, removalIds, removeMoves>>

Signed(q) ==
  /\ signing' = signing \ {q}
  /\ \/ signatureData' = q /\ UNCHANGED lpApproval
     \/ UNCHANGED <<signatureData, lpApproval>>
     \/ /\ lpApproval[q.pair] = "no" /\ lpApproval' = [lpApproval EXCEPT ![q.pair] = "pending"]
        /\ UNCHANGED signatureData
  /\ UNCHANGED <<removeForm, removal, removals, removalIds, removeMoves>>

LpApprovalMined(p) ==
  /\ lpApproval[p] = "pending"
  /\ \E s \in {"no", "yes"} : lpApproval' = [lpApproval EXCEPT ![p] = s]
  /\ UNCHANGED <<removeForm, signatureData, signing, removal, removals, removalIds, removeMoves>>

-----------------------------------------------------------------------------
RemoveButton ==
  /\ ~removal.showConfirm /\ ~removeError /\ mayRemove
  /\ removal' = [removal EXCEPT !.showConfirm = TRUE, !.since = {}]
  /\ UNCHANGED <<removeForm, lpApproval, signatureData, signing, removals, removalIds, removeMoves>>

(* The modal's Confirm, which is there until the estimates are back.       *)
onRemove ==
  /\ removal.showConfirm /\ ~removal.attemptingTxn /\ removal.txHash = 0
  /\ mayRemove /\ ~removeError
  /\ removalIds < MaxRemovals /\ removalIds' = removalIds + 1
  /\ removals' = removals \cup
       {[id |-> removalIds', pair |-> lpPair, amount |-> liquidityAmount, stage |-> "estimate",
         permit |-> IF lpApprovalState = "APPROVED" THEN unsigned ELSE signatureData]}
  /\ removal' = [removal EXCEPT !.since = @ \cup {removalIds'}]
  /\ UNCHANGED <<removeForm, lpApproval, signatureData, signing, removeMoves>>

RemovalEstimated(r) ==
  /\ r.stage = "estimate"
  /\ \/ /\ removals' = (removals \ {r}) \cup {[r EXCEPT !.stage = "wallet"]}
        /\ removal' = [removal EXCEPT !.attemptingTxn = TRUE]
     \/ removals' = removals \ {r} /\ UNCHANGED removal
  /\ UNCHANGED <<removeForm, lpApproval, signatureData, signing, removalIds, removeMoves>>

removalRejected == [removal EXCEPT !.attemptingTxn = FALSE]
RemovalAnswered(r) ==
  /\ r.stage = "wallet" /\ removals' = removals \ {r}
  /\ removal' \in {removalRejected,
                   [removal EXCEPT !.attemptingTxn = FALSE, !.txHash = r.id]}
  /\ UNCHANGED <<removeForm, lpApproval, signatureData, signing, removalIds, removeMoves>>
RemovalEnds(i) == \E r \in removals : r.id = i /\ (RemovalEstimated(r) \/ RemovalAnswered(r))

hashAfterDismissal_Kept == removal.txHash
hashAfterDismissal == 0
handleDismissRemoval ==
  /\ removal.showConfirm
  /\ removal' = [removal EXCEPT !.showConfirm = FALSE, !.txHash = hashAfterDismissal,
                                !.since = {}, !.left = @ \/ removals # {}]
  /\ IF removal.txHash # 0
     THEN onBurnInput("PERCENT", 0)
     ELSE signatureData' = unsigned /\ UNCHANGED <<burn, signing>>
  /\ UNCHANGED <<lpPair, held, worth, lpApproval, removals, removalIds, removeMoves>>
  /\ SliderFollows(slider)

RemoveNext ==
  \/ Typed \/ Slide \/ SliderFires \/ SelectOrReceive \/ ReservesMove
  \/ onAttemptToApprove \/ \E q \in signing : Signed(q)
  \/ \E p \in LpPairs : LpApprovalMined(p)
  \/ RemoveButton \/ onRemove \/ handleDismissRemoval
  \/ \E r \in removals : RemovalEstimated(r) \/ RemovalAnswered(r)

-----------------------------------------------------------------------------
(* A permit is sent with the amount and pair it was signed for, unless an  *)
(* input overtook its signature, or the pair or the balance has changed    *)
(* since it was asked for, or, of an amount typed in a token, what the     *)
(* balance is worth in it: the page does not notice.                       *)
SignatureFits ==
  \A r \in removals :
    r.permit # unsigned =>
      \/ r.permit.overtaken \/ r.permit.moved
      \/ r.permit.pair = r.pair /\ r.permit.amount = r.amount

(* The transaction the modal shows is of a removal confirmed in it, unless *)
(* an earlier modal was dismissed before its answer.                       *)
RemovalOutcomeShown ==
  /\ removal.showConfirm /\ ~removal.attemptingTxn /\ removal.txHash # 0 /\ ~removal.left
  => removal.txHash \in removal.since
=============================================================================
