---------------------------- MODULE LendingForm ----------------------------
(***************************************************************************)
(* The page of one pool, components/Coin_pool: a wallet approves an amount *)
(* (step 1 of the form) and deposits it (step 2), as a lender or as a      *)
(* borrower.  Between a click and its outcome the user edits the amount,   *)
(* clicks again (components/Button stops a click when it is disabled, not  *)
(* when it is loading), or changes the wallet's chain; what the page knows *)
(* of the pool and of the balances comes from requests answered in any     *)
(* order.                                                                  *)
(*                                                                         *)
(* A JavaScript NaN, and the empty string a balance starts as, are both    *)
(* NaN here: no comparison x > y holds of a NaN on its left.               *)
(***************************************************************************)
EXTENDS Integers, FiniteSets

CONSTANTS
  Chains,           \* chain ids the pool is deployed on
  MainNet,          \* 56, the chain asked about when no wallet is connected
  InitialChains,    \* bound: the chains the wallet may be on at first
  Typed,            \* the amounts a user types
  maxSupply,        \* pool_data.maxSupply
  Funds,            \* the wallet's balance of the token, on each chain
  LoanPerPledge,    \* borrowPrice / lendPrice / collateralization_ratio * 100
  MaxCalls,         \* bound: transactions the user asks for
  MaxSwitches,      \* bound: changes of the wallet's chain
  undefined         \* JavaScript's

ASSUME FormAssumption ==
  /\ InitialChains \subseteq Chains \cup {undefined}
  /\ MainNet \in Chains /\ undefined \notin Chains
  /\ Typed \subseteq Nat \ {0} /\ maxSupply \in Nat /\ Funds \in Nat
  /\ LoanPerPledge \in Nat \ {0} /\ MaxCalls \in Nat /\ MaxSwitches \in Nat

NaN == -1

VARIABLES
  chainId,     \* useActiveWeb3React's chain
  switches,    \* how often it changed
  form,        \* the component's state
  notices,     \* the notifications shown
  infoReqs,    \* <<n, chain>>: the n-th getPoolInfo, unanswered
  answered,    \* the n of the answer that came last
  overtaken,   \* history: an answer came after the answer to a later request
  failed,      \* history: the latest request failed
  reads,       \* the tokens' chains of unanswered balanceOf calls
  calls,       \* transactions the wallet has not finished
  nextCall,    \* how many were asked for
  pool,        \* the pool's phase, and its supply on each chain
  allowance,   \* the allowance the pool has from this wallet
  paid         \* what the wallet has deposited

page == <<form, notices, infoReqs, answered, overtaken, failed, reads>>
chain == <<pool, allowance, paid>>
formVars == <<chainId, switches, page, calls, nextCall, chain>>

-----------------------------------------------------------------------------
(* Conversions.  dealNumber and dealNumber_18 scale by 1e18 and leave out  *)
(* falsy values; toNumber is what a balance is in a comparison.            *)
dealNumber(num) == IF num \in {0, NaN} THEN NaN ELSE num
toNumber(b) == IF b = NaN THEN 0 ELSE b

(* handleOnChange2 and handleOnChange3: a pledge and the loan it secures,  *)
(* NaN while the pool's prices are unknown.                                *)
LoanFor(info, pledge) ==
  IF info = undefined \/ pledge = NaN THEN NaN ELSE pledge * LoanPerPledge
PledgeFor(info, loan) ==
  IF info = undefined \/ loan = NaN THEN NaN ELSE loan \div LoanPerPledge

(* getPoolInfo's row of the pool: what changes of it, as it was asked.     *)
settleTime(info) == IF info = undefined THEN 0 ELSE 1
infoMax(info) == IF info = undefined THEN 0 ELSE maxSupply
infoSupply(info) == IF info = undefined THEN 0 ELSE info.lendSupply
infoFinished(info) == info # undefined /\ info.finished
overTime(info) == settleTime(info) = 0 \/ pool.phase # "match"

(* Whether the wallet's chain gives the page a balance of the token it     *)
(* believes to be the pool's; native is the pledge of the chain's coin.    *)
isNative == form.native /\ form.info # undefined

openNotification(kind, placement) == notices' = notices \cup {<<kind, placement>>}
openNotificationerror(kind) == openNotification(kind, "Error")
openNotificationlend == openNotification("Deposit", "Success")
openNotificationborrow == openNotification("Deposit", "Success")

-----------------------------------------------------------------------------
(* The page mounts: every state hook has its initial value.                *)
useStates(mode, native) ==
  [open |-> TRUE, mode |-> mode, native |-> native, value |-> 0, data |-> 0,
   balance |-> NaN, accountbalance |-> NaN, loadings |-> FALSE,
   warning |-> "", current |-> 0, info |-> undefined, leaving |-> FALSE]

steps == {0, 1}

FormInit ==
  /\ chainId \in InitialChains /\ switches = 0
  /\ \E mode \in {"Lend", "Borrow"}, native \in BOOLEAN :
       form = useStates(mode, native)
  /\ form.native => form.mode = "Borrow"
  /\ notices = {}
  /\ infoReqs = {<<0, IF chainId = undefined THEN MainNet ELSE chainId>>}
  /\ answered = 0 /\ overtaken = FALSE /\ failed = FALSE
  /\ reads = IF form.native /\ chainId # undefined THEN {"account"} ELSE {}
  /\ calls = {} /\ nextCall = 0
  /\ pool = [phase |-> "match", supply |-> [c \in Chains |-> 0]]
  /\ allowance = [c \in Chains |-> 0] /\ paid = [c \in Chains |-> 0]

(* The pool information is asked for on mount and when chainId changes.    *)
AskPoolInfo_OnMountOnly(c) == UNCHANGED infoReqs
AskPoolInfo(c) ==
  infoReqs' = infoReqs \cup {<<switches', IF c = undefined THEN MainNet ELSE c>>}

(* Both effects read the balance of the token of the poolinfo they see; a  *)
(* pledge of the chain's own coin is set from accountbalance at once.      *)
ReadBalance(f, c) ==
  IF c = undefined \/ f.info = undefined THEN [form |-> f, reads |-> {}]
  ELSE IF f.native THEN [form |-> [f EXCEPT !.balance = f.accountbalance], reads |-> {}]
  ELSE [form |-> f, reads |-> {f.info.chain}]

(* useEffect on [chainId].                                                 *)
SwitchChain(c) ==
  /\ switches < MaxSwitches /\ c # chainId
  /\ switches' = switches + 1 /\ chainId' = c
  /\ IF form.open
     THEN LET r == ReadBalance(form, c) IN
          /\ AskPoolInfo(c) /\ failed' = FALSE
          /\ form' = r.form
          /\ reads' = reads \cup r.reads \cup (IF form.native THEN {"account"} ELSE {})
     ELSE UNCHANGED <<infoReqs, failed, form, reads>>
  /\ UNCHANGED <<notices, answered, overtaken, calls, nextCall, chain>>

(* An answer to getPoolInfo, and the effect on [poolinfo].                 *)
getPoolInfo(req) ==
  LET info == [chain |-> req[2], finished |-> pool.phase = "finished",
               lendSupply |-> pool.supply[req[2]]]
      r == ReadBalance([form EXCEPT !.info = info], chainId)
  IN
  /\ infoReqs' = infoReqs \ {req}
  /\ overtaken' = (overtaken \/ req[1] < answered)
  /\ answered' = req[1]
  /\ form' = r.form
  /\ reads' = reads \cup r.reads
  /\ UNCHANGED <<chainId, switches, notices, failed, calls, nextCall, chain>>

(* The request is rejected, which nothing handles, or its answer has a     *)
(* code other than 0: the poolinfo of before stays, and nothing asks again.*)
getPoolInfoFails(req) ==
  /\ infoReqs' = infoReqs \ {req}
  /\ failed' = (failed \/ req[1] = switches)
  /\ UNCHANGED <<chainId, switches, form, notices, answered, overtaken, reads,
                 calls, nextCall, chain>>

(* services.ERC20Server.balanceOf of a token of chain t, asked through the *)
(* wallet: on another chain there is no such token and the call fails, as  *)
(* it may on this one.                                                     *)
balanceOf(t) ==
  /\ t \in reads \cap Chains
  /\ reads' = reads \ {t}
  /\ \/ t = chainId /\ form' = [form EXCEPT !.balance = Funds - paid[t]]
     \/ UNCHANGED form
  /\ UNCHANGED <<chainId, switches, notices, infoReqs, answered, overtaken,
                 failed, calls, nextCall, chain>>

(* The balance of the chain's own coin, which only a pledge of it uses.    *)
getaccountbalance ==
  /\ "account" \in reads /\ chainId # undefined
  /\ reads' = reads \ {"account"}
  /\ \/ form' = [form EXCEPT !.accountbalance = Funds - paid[chainId]]
     \/ UNCHANGED form
  /\ UNCHANGED <<chainId, switches, notices, infoReqs, answered, overtaken,
                 failed, calls, nextCall, chain>>

-----------------------------------------------------------------------------
(* The inputs: lendvalue, or data and borrowvalue (value is the amount     *)
(* lent or borrowed, data the pledge), and the Max button.                 *)
handleOnChange(v) == [form EXCEPT !.value = v]
handleOnChange2(v) == [form EXCEPT !.data = v, !.value = LoanFor(form.info, v)]
handleOnChange3(v) == [form EXCEPT !.value = v, !.data = PledgeFor(form.info, v)]

Edit ==
  /\ form.open
  /\ \E v \in Typed \cup {form.balance} :
       \/ form.mode = "Lend" /\ form' = handleOnChange(v)
       \/ form.mode = "Borrow" /\ form' = handleOnChange2(v)
       \/ form.mode = "Borrow" /\ v \in Typed /\ form' = handleOnChange3(v)
  /\ UNCHANGED <<chainId, switches, notices, infoReqs, answered, overtaken, failed, reads,
                 calls, nextCall, chain>>

(* What the click handlers check, in their order; "" lets the call go out. *)
LendWarning ==
  CASE infoFinished(form.info)                                 -> "finished"
    [] form.value > infoMax(form.info)                         -> "maximum"
    [] overTime(form.info)                                     -> "over time"
    [] form.value > toNumber(form.balance)                     -> "balance"
    [] form.value # NaN /\ form.value + infoSupply(form.info) > infoMax(form.info)
                                                               -> "limit"
    [] OTHER                                                   -> ""
BorrowWarning ==
  CASE form.value > infoMax(form.info)     -> "maximum"
    [] overTime(form.info)                 -> "over time"
    [] form.data > toNumber(form.balance)  -> "balance"
    [] OTHER                               -> ""
Warning == IF form.mode = "Lend" THEN LendWarning ELSE BorrowWarning

Amount == IF form.mode = "Lend" THEN form.value ELSE form.data

(* A transaction goes to the wallet.  Its callbacks keep the step the form *)
(* was at when the button was drawn (next and prev are closures), and the  *)
(* contract's address is the one of the chain then.                        *)
Send(kind) ==
  /\ calls' = calls \cup
       {[id |-> nextCall, kind |-> kind, amount |-> dealNumber(Amount), on |-> chainId,
         token |-> form.info.chain, native |-> isNative, current |-> form.current]}
  /\ nextCall' = nextCall + 1

(* The Approve button of the first step.                                   *)
ClickApprove ==
  /\ form.open /\ form.current < 1 /\ chainId # undefined /\ nextCall < MaxCalls
  /\ Amount # 0
  /\ IF Warning # ""
     THEN /\ form' = [form EXCEPT !.warning = Warning]
          /\ UNCHANGED <<calls, nextCall>>
     ELSE /\ form' = [form EXCEPT !.warning = "", !.loadings = TRUE]
          /\ Send("Approve")
  /\ UNCHANGED <<chainId, switches, notices, infoReqs, answered, overtaken, failed, reads, chain>>

(* The Lend button of the second step.                                     *)
ClickLend ==
  /\ form.open /\ form.mode = "Lend" /\ form.current = 1 /\ nextCall < MaxCalls
  /\ IF LendWarning # ""
     THEN /\ form' = [form EXCEPT !.warning = LendWarning]
          /\ UNCHANGED <<calls, nextCall>>
     ELSE /\ form' = [form EXCEPT !.loadings = TRUE]
          /\ Send("Deposit")
  /\ UNCHANGED <<chainId, switches, notices, infoReqs, answered, overtaken, failed, reads, chain>>

(* The Borrow button of the second step: it shows the spinner, then makes  *)
(* its checks.                                                             *)
ClickBorrow ==
  /\ form.open /\ form.mode = "Borrow" /\ form.current = 1 /\ nextCall < MaxCalls
  /\ IF BorrowWarning # ""
     THEN /\ form' = [form EXCEPT !.loadings = TRUE, !.warning = BorrowWarning]
          /\ UNCHANGED <<calls, nextCall>>
     ELSE /\ form' = [form EXCEPT !.loadings = TRUE]
          /\ Send("Deposit")
  /\ UNCHANGED <<chainId, switches, notices, infoReqs, answered, overtaken, failed, reads, chain>>

-----------------------------------------------------------------------------
(* The callbacks' setCurrent: from the step their closure was made at.     *)
next_Functional(c) == form.current + 1
next(c) == c.current + 1
prev(c) == c.current - 1

(* What the chain does with a transaction: an approve of a token that is   *)
(* not on this chain, or of the chain's own coin, changes nothing.         *)
Deposits(c) ==
  /\ pool.phase = "match" /\ c.amount <= Funds - paid[c.on]
  /\ (c.native /\ c.token = c.on) \/ c.amount <= allowance[c.on]
  /\ form.mode = "Lend" => pool.supply[c.on] + c.amount <= maxSupply

ApproveEffect(c) ==
  /\ allowance' = IF c.token = c.on /\ ~c.native
                  THEN [allowance EXCEPT ![c.on] = c.amount] ELSE allowance
  /\ UNCHANGED <<pool, paid>>

DepositEffect(c) ==
  /\ Deposits(c)
  /\ paid' = [paid EXCEPT ![c.on] = @ + c.amount]
  /\ allowance' = IF c.native THEN allowance
                  ELSE [allowance EXCEPT ![c.on] = @ - c.amount]
  /\ pool' = IF form.mode = "Lend"
             THEN [pool EXCEPT !.supply[c.on] = @ + c.amount] ELSE pool

(* The outcomes of ERC20Server.Approve ...                                 *)
ApproveMined(c) ==
  /\ c \in calls /\ c.kind = "Approve" /\ c.amount # NaN
  /\ ApproveEffect(c)
  /\ IF form.open
     THEN /\ openNotification("Approve", "Success")
          /\ form' = [form EXCEPT !.loadings = FALSE, !.current = next(c)]
     ELSE UNCHANGED <<form, notices>>
  /\ calls' = calls \ {c}
  /\ UNCHANGED <<chainId, switches, infoReqs, answered, overtaken, failed, reads, nextCall>>

(* ... and of depositLend and depositBorrow, which leave the page.         *)
DepositMined(c) ==
  /\ c \in calls /\ c.kind = "Deposit" /\ c.amount # NaN
  /\ DepositEffect(c)
  /\ IF form.open
     THEN /\ IF form.mode = "Lend" THEN openNotificationlend ELSE openNotificationborrow
          /\ form' = [form EXCEPT !.loadings = FALSE, !.current = prev(c), !.leaving = TRUE]
     ELSE UNCHANGED <<form, notices>>
  /\ calls' = calls \ {c}
  /\ UNCHANGED <<chainId, switches, infoReqs, answered, overtaken, failed, reads, nextCall>>

(* window.open(Lend_Borrow, '_self') has replaced the document: the page's *)
(* state is gone, its transactions go on.                                  *)
Unload ==
  /\ form.leaving
  /\ form' = [useStates(form.mode, form.native) EXCEPT !.open = FALSE]
  /\ notices' = {} /\ infoReqs' = {} /\ answered' = 0 /\ overtaken' = FALSE
  /\ failed' = FALSE /\ reads' = {}
  /\ UNCHANGED <<chainId, switches, calls, nextCall, chain>>

(* The wallet refuses, the node reverts, or web3 rejects the arguments:    *)
(* the promise's catch.                                                    *)
afterFailure_StillLoading(c) == form
afterFailure(c) == [form EXCEPT !.loadings = FALSE]

CallFailed(c) ==
  /\ c \in calls
  /\ IF form.open
     THEN /\ openNotificationerror(c.kind)
          /\ form' = afterFailure(c)
     ELSE UNCHANGED <<form, notices>>
  /\ calls' = calls \ {c}
  /\ UNCHANGED <<chainId, switches, infoReqs, answered, overtaken, failed, reads, nextCall, chain>>

-----------------------------------------------------------------------------
(* Other lenders, and the pool's keeper.                                   *)
OthersLend(c) ==
  /\ pool.phase = "match" /\ pool.supply[c] = 0 /\ maxSupply > 0
  /\ pool' = [pool EXCEPT !.supply[c] = 1]
  /\ UNCHANGED <<chainId, switches, page, calls, nextCall, allowance, paid>>

PoolAges ==
  /\ pool.phase # "finished"
  /\ pool' = [pool EXCEPT !.phase = IF @ = "match" THEN "settled" ELSE "finished"]
  /\ UNCHANGED <<chainId, switches, page, calls, nextCall, allowance, paid>>

CallEnds == \E c \in calls : ApproveMined(c) \/ DepositMined(c) \/ CallFailed(c)

FormNext ==
  \/ \E c \in Chains : SwitchChain(c) \/ OthersLend(c) \/ balanceOf(c)
  \/ \E req \in infoReqs : getPoolInfo(req) \/ getPoolInfoFails(req)
  \/ getaccountbalance \/ Edit
  \/ ClickApprove \/ ClickLend \/ ClickBorrow
  \/ CallEnds \/ Unload \/ PoolAges

-----------------------------------------------------------------------------
(* The form is at one of its two steps (steps[current].content has nothing *)
(* to show at a third), and at the second only after an approval of this   *)
(* page was mined: whatever was clicked twice, edited or switched between. *)
StepsFollowApproval ==
  /\ form.current \in steps \/ ~form.open
  /\ form.open /\ form.current = 1 => <<"Approve", "Success">> \in notices

(* A spinner that turns stands for a transaction under way, or for a       *)
(* borrower's click that ended in a warning.                               *)
SpinnerExplained ==
  form.loadings => calls # {} \/ (form.mode = "Borrow" /\ form.warning # "")

(* Once no answer is outstanding the page shows the pool of the wallet's   *)
(* chain, unless an answer overtook another or the latest request failed:  *)
(* an earlier request may fail, and so may any before the chain changed.   *)
InfoOfThisChain ==
  form.open /\ infoReqs = {} /\ ~overtaken /\ ~failed =>
    form.info.chain = IF chainId = undefined THEN MainNet ELSE chainId

(* A lender's spinner stops.                                               *)
SpinnerStops == (form.mode = "Lend" /\ form.loadings) ~> ~form.loadings
=============================================================================
