-------------------------- MODULE LendingAppProofs --------------------------
(***************************************************************************)
(* Theorems about the lending pages, for any chains, pools, amounts and    *)
(* bounds.  The pages share no state, so a step of the application is a    *)
(* step of one page or none of each (PagesStep), and every page has an     *)
(* invariant of its own.                                                   *)
(***************************************************************************)
EXTENDS MCLendingApp, FiniteSetTheorems, SequenceTheorems, TLAPS

LEMMA PagesStep ==
  [Next]_appVars =>
    [FormNext]_formVars /\ [RowNext]_rowVars /\ [HomeNext]_homeVars /\ [ListNext]_listVars
  BY DEF Next, appVars, FormStep, RowStep, HomeStep, ListStep, FaucetStep, ListNext

-----------------------------------------------------------------------------
(* The deposit form.                                                       *)

FormFields == {"open", "mode", "native", "value", "data", "balance",
               "accountbalance", "loadings", "warning", "current", "info", "leaving"}

Wanted == IF chainId = undefined THEN MainNet ELSE chainId

(* The step a transaction's closure was made at: approvals are asked for   *)
(* at the first step, deposits at the second.                              *)
CallsFromSteps ==
  \A c \in calls : \/ c.kind = "Approve" /\ c.current = 0
                   \/ c.kind = "Deposit" /\ c.current = 1

StepsInv ==
  /\ DOMAIN form = FormFields /\ form = [k \in FormFields |-> form[k]]
  /\ form.current \in steps
  /\ form.open /\ form.current = 1 => <<"Approve", "Success">> \in notices
  /\ CallsFromSteps

(* A page that was left spins no more.                                     *)
SpinnerInv ==
  /\ SpinnerExplained
  /\ ~form.open => ~form.loadings

(* Of the requests for the pool the last is for the wallet's chain, and it *)
(* is outstanding, its answer was the last one, or it failed, unless an    *)
(* answer was overtaken.                                                   *)
InfoInv ==
  /\ switches \in Nat /\ answered \in Nat /\ answered <= switches
  /\ \A req \in infoReqs : req[1] \in Nat /\ req[1] <= switches
  /\ form.open =>
       /\ \A req \in infoReqs : req[1] = switches => req[2] = Wanted
       /\ ~overtaken /\ ~failed =>
            \/ <<switches, Wanted>> \in infoReqs
            \/ answered = switches /\ form.info.chain = Wanted

FormInv == StepsInv /\ SpinnerInv /\ InfoInv

LEMMA FormStarts == FormInit => FormInv
<1>. SUFFICES ASSUME FormInit PROVE FormInv
  OBVIOUS
<1>1. PICK mode \in {"Lend", "Borrow"}, native \in BOOLEAN :
        form = useStates(mode, native)
  BY DEF FormInit
<1>2. StepsInv
  <2>1. DOMAIN form = FormFields /\ form = [k \in FormFields |-> form[k]]
    BY <1>1 DEF useStates, FormFields
  <2>2. form.current = 0
    BY <1>1 DEF useStates
  <2>. QED BY <2>1, <2>2 DEF FormInit, StepsInv, steps, CallsFromSteps
<1>3. SpinnerInv
  BY <1>1 DEF useStates, SpinnerInv, SpinnerExplained
<1>4. InfoInv
  BY DEF FormInit, InfoInv, Wanted
<1>. QED BY <1>2, <1>3, <1>4 DEF FormInv

(* Reading balances changes a balance only.                                *)
LEMMA ReadBalanceKeeps ==
  ASSUME NEW f, DOMAIN f = FormFields, f = [k \in FormFields |-> f[k]], NEW c
  PROVE  LET g == ReadBalance(f, c).form
         IN  /\ DOMAIN g = FormFields /\ g = [k \in FormFields |-> g[k]]
             /\ \A k \in FormFields \ {"balance"} : g[k] = f[k]
<1> DEFINE g == ReadBalance(f, c).form
<1>1. g = f \/ g = [f EXCEPT !.balance = f.accountbalance]
  BY DEF ReadBalance
<1>. QED BY <1>1 DEF FormFields

(* A form that changed in none of what the invariant speaks of.            *)
SameForm ==
  /\ DOMAIN form' = FormFields /\ form' = [k \in FormFields |-> form'[k]]
  /\ form'.open = form.open /\ form'.mode = form.mode
  /\ form'.loadings = form.loadings /\ form'.current = form.current

LEMMA StepsKept ==
  ASSUME FormInv, SameForm, form'.warning = form.warning, UNCHANGED <<notices, calls>>
  PROVE  StepsInv' /\ SpinnerInv'
<1>1. StepsInv'
  BY DEF FormInv, StepsInv, SameForm, CallsFromSteps
<1>2. SpinnerInv'
  BY DEF FormInv, SpinnerInv, SpinnerExplained, SameForm
<1>. QED BY <1>1, <1>2

LEMMA InfoKept ==
  ASSUME FormInv, UNCHANGED <<chainId, switches, infoReqs, answered, overtaken, failed>>,
         form'.open => form.open /\ form'.info = form.info
  PROVE  InfoInv'
  BY DEF FormInv, InfoInv, Wanted

LEMMA SwitchChainStep ==
  ASSUME FormInv, NEW c \in Chains, SwitchChain(c)
  PROVE  FormInv'
<1>0. DOMAIN form = FormFields /\ form = [k \in FormFields |-> form[k]]
  BY DEF FormInv, StepsInv
<1>1. /\ DOMAIN form' = FormFields /\ form' = [k \in FormFields |-> form'[k]]
      /\ \A k \in FormFields \ {"balance"} : form'[k] = form[k]
  <2>1. form' = form \/ form' = ReadBalance(form, c).form
    BY DEF SwitchChain
  <2> DEFINE g == ReadBalance(form, c).form
  <2>2. /\ DOMAIN g = FormFields /\ g = [k \in FormFields |-> g[k]]
        /\ \A k \in FormFields \ {"balance"} : g[k] = form[k]
    BY <1>0, ReadBalanceKeeps
  <2> HIDE DEF g
  <2>3. CASE form' = form
    BY <1>0, <2>3
  <2>4. CASE form' = g
    BY <2>2, <2>4
  <2>. QED BY <2>1, <2>3, <2>4 DEF g
<1>2. SameForm /\ form'.warning = form.warning /\ form'.info = form.info
  BY <1>1 DEF SameForm, FormFields
<1>3. StepsInv' /\ SpinnerInv'
  BY <1>2, StepsKept DEF SwitchChain
<1>4. InfoInv'
  <2>1. /\ switches \in Nat /\ answered \in Nat /\ answered <= switches
        /\ switches' = switches + 1 /\ answered' = answered
    BY DEF FormInv, InfoInv, SwitchChain
  <2>2. c # undefined /\ chainId' = c /\ Wanted' = c
    BY FormAssumption DEF SwitchChain, Wanted
  <2>3. CASE form.open
    <3>1. infoReqs' = infoReqs \cup {<<switches', c>>}
      BY <2>2, <2>3 DEF SwitchChain, AskPoolInfo
    <3>2. \A req \in infoReqs' :
            /\ req[1] \in Nat /\ req[1] <= switches'
            /\ req[1] = switches' => req[2] = Wanted'
      BY <2>1, <2>2, <3>1 DEF FormInv, InfoInv
    <3>3. <<switches', Wanted'>> \in infoReqs'
      BY <2>2, <3>1
    <3>4. switches' \in Nat /\ answered' \in Nat /\ answered' <= switches'
      BY <2>1
    <3>. QED BY <3>2, <3>3, <3>4 DEF InfoInv
  <2>4. CASE ~form.open
    <3>1. infoReqs' = infoReqs /\ ~form'.open
      BY <1>2, <2>4 DEF SwitchChain, SameForm
    <3>. QED BY <2>1, <3>1 DEF FormInv, InfoInv
  <2>. QED BY <2>3, <2>4
<1>. QED BY <1>3, <1>4 DEF FormInv

(* An answer that overtakes none is to the latest request answered yet.    *)
LEMMA PoolInfoStep ==
  ASSUME FormInv, NEW req \in infoReqs, getPoolInfo(req)
  PROVE  FormInv'
<1>0. DOMAIN form = FormFields /\ form = [k \in FormFields |-> form[k]]
  BY DEF FormInv, StepsInv
<1> DEFINE info == [chain |-> req[2], finished |-> pool.phase = "finished",
                    lendSupply |-> pool.supply[req[2]]]
           f == [form EXCEPT !.info = info]
<1>1. form' = ReadBalance(f, chainId).form
  BY DEF getPoolInfo
<1>2. info.chain = req[2]
  OBVIOUS
<1> HIDE DEF info
<1>3. /\ DOMAIN f = FormFields /\ f = [k \in FormFields |-> f[k]] /\ f.info = info
      /\ \A k \in FormFields \ {"info"} : f[k] = form[k]
  BY <1>0 DEF FormFields
<1> HIDE DEF f
<1>4. /\ DOMAIN form' = FormFields /\ form' = [k \in FormFields |-> form'[k]]
      /\ \A k \in FormFields \ {"balance"} : form'[k] = f[k]
  BY <1>1, <1>3, ReadBalanceKeeps
<1>5. SameForm /\ form'.warning = form.warning /\ form'.info.chain = req[2]
  BY <1>2, <1>3, <1>4 DEF SameForm, FormFields
<1>6. StepsInv' /\ SpinnerInv'
  BY <1>5, StepsKept DEF getPoolInfo
<1>7. InfoInv'
  <2>1. /\ infoReqs' = infoReqs \ {req} /\ answered' = req[1]
        /\ switches' = switches /\ chainId' = chainId /\ failed' = failed
        /\ overtaken' <=> overtaken \/ req[1] < answered
    BY DEF getPoolInfo
  <2>2. /\ switches \in Nat /\ answered \in Nat /\ answered <= switches
        /\ \A r \in infoReqs : r[1] \in Nat /\ r[1] <= switches
    BY DEF FormInv, InfoInv
  <2>3. Wanted' = Wanted
    BY <2>1 DEF Wanted
  <2>4. ASSUME form'.open
        PROVE  /\ \A r \in infoReqs : r[1] = switches => r[2] = Wanted
               /\ ~overtaken /\ ~failed =>
                    \/ <<switches, Wanted>> \in infoReqs
                    \/ answered = switches /\ form.info.chain = Wanted
    BY <1>5, <2>4 DEF SameForm, FormInv, InfoInv
  <2>5. ASSUME form'.open, ~overtaken', ~failed'
        PROVE  \/ <<switches, Wanted>> \in infoReqs'
               \/ req[1] = switches /\ form'.info.chain = Wanted
    <3>1. ~overtaken /\ ~failed /\ req[1] >= answered
      BY <2>1, <2>2, <2>5
    <3>2. CASE req[1] = switches
      BY <1>5, <2>4, <2>5, <3>2
    <3>3. CASE req[1] # switches
      <4>1. answered # switches /\ <<switches, Wanted>> # req
        BY <2>2, <3>1, <3>3
      <4>. QED BY <2>1, <2>4, <2>5, <3>1, <4>1
    <3>. QED BY <3>2, <3>3
  <2>6. /\ switches' \in Nat /\ answered' \in Nat /\ answered' <= switches'
        /\ \A r \in infoReqs' : r[1] \in Nat /\ r[1] <= switches'
    BY <2>1, <2>2
  <2>7. form'.open => \A r \in infoReqs' : r[1] = switches' => r[2] = Wanted'
    BY <2>1, <2>3, <2>4
  <2>8. form'.open /\ ~overtaken' /\ ~failed' =>
          \/ <<switches', Wanted'>> \in infoReqs'
          \/ answered' = switches' /\ form'.info.chain = Wanted'
    BY <2>1, <2>3, <2>5
  <2>. QED BY <2>6, <2>7, <2>8 DEF InfoInv
<1>. QED BY <1>6, <1>7 DEF FormInv

(* A request that fails was the latest, or is not missed.                  *)
LEMMA PoolInfoFailsStep ==
  ASSUME FormInv, NEW req \in infoReqs, getPoolInfoFails(req)
  PROVE  FormInv'
<1>1. /\ UNCHANGED <<chainId, switches, form, notices, answered, overtaken, calls>>
      /\ infoReqs' = infoReqs \ {req}
      /\ failed' <=> failed \/ req[1] = switches
  BY DEF getPoolInfoFails
<1>2. StepsInv' /\ SpinnerInv'
  BY <1>1 DEF FormInv, StepsInv, CallsFromSteps, SpinnerInv, SpinnerExplained
<1>3. Wanted' = Wanted
  BY <1>1 DEF Wanted
<1>4. ASSUME form.open, ~overtaken, ~failed'
      PROVE  \/ <<switches, Wanted>> \in infoReqs'
             \/ answered = switches /\ form.info.chain = Wanted
  <2>1. ~failed /\ <<switches, Wanted>> # req
    BY <1>1, <1>4
  <2>. QED BY <1>1, <1>4, <2>1 DEF FormInv, InfoInv
<1>5. InfoInv'
  BY <1>1, <1>3, <1>4 DEF FormInv, InfoInv
<1>. QED BY <1>2, <1>5 DEF FormInv

(* Balances, amounts typed, and what happens to the pool.                  *)
LEMMA QuietStep ==
  ASSUME FormInv,
         \/ \E c \in Chains : OthersLend(c) \/ balanceOf(c)
         \/ getaccountbalance \/ Edit \/ PoolAges
  PROVE  FormInv'
<1>0. DOMAIN form = FormFields /\ form = [k \in FormFields |-> form[k]]
  BY DEF FormInv, StepsInv
<1>1. UNCHANGED <<chainId, switches, notices, infoReqs, answered, overtaken, failed, calls>>
  BY DEF OthersLend, balanceOf, getaccountbalance, Edit, PoolAges, page
<1>2. \/ form' = form
      \/ \E b : form' = [form EXCEPT !.balance = b]
      \/ \E b : form' = [form EXCEPT !.accountbalance = b]
      \/ \E v : form' = [form EXCEPT !.value = v]
      \/ \E d, v : form' = [form EXCEPT !.data = d, !.value = v]
      \/ \E d, v : form' = [form EXCEPT !.value = v, !.data = d]
  BY DEF OthersLend, balanceOf, getaccountbalance, Edit, PoolAges, page,
         handleOnChange, handleOnChange2, handleOnChange3
<1>3. SameForm /\ form'.warning = form.warning /\ form'.info = form.info
  BY <1>0, <1>2 DEF SameForm, FormFields
<1>4. StepsInv' /\ SpinnerInv'
  BY <1>1, <1>3, StepsKept
<1>5. InfoInv'
  BY <1>1, <1>3, InfoKept DEF SameForm
<1>. QED BY <1>4, <1>5 DEF FormInv

(* A click that sends a transaction records the step it was made at.       *)
LEMMA ClickStep ==
  ASSUME FormInv, ClickApprove \/ ClickLend \/ ClickBorrow
  PROVE  FormInv'
<1>0. /\ DOMAIN form = FormFields /\ form = [k \in FormFields |-> form[k]]
      /\ form.current \in {0, 1} /\ form.open
  BY DEF FormInv, StepsInv, steps, ClickApprove, ClickLend, ClickBorrow
<1>1. UNCHANGED <<chainId, switches, notices, infoReqs, answered, overtaken, failed>>
  BY DEF ClickApprove, ClickLend, ClickBorrow
<1>2. \E w, l : form' = [form EXCEPT !.warning = w, !.loadings = l]
  <2>1. \/ \E w : form' = [form EXCEPT !.warning = w]
        \/ \E w : form' = [form EXCEPT !.warning = w, !.loadings = TRUE]
        \/ \E w : form' = [form EXCEPT !.loadings = TRUE, !.warning = w]
        \/ form' = [form EXCEPT !.loadings = TRUE]
    BY DEF ClickApprove, ClickLend, ClickBorrow
  <2>2. ASSUME NEW w, form' = [form EXCEPT !.warning = w]
        PROVE  form' = [form EXCEPT !.warning = w, !.loadings = form.loadings]
    BY <1>0, <2>2 DEF FormFields
  <2>3. ASSUME NEW w, form' = [form EXCEPT !.loadings = TRUE, !.warning = w]
        PROVE  form' = [form EXCEPT !.warning = w, !.loadings = TRUE]
    BY <1>0, <2>3 DEF FormFields
  <2>4. ASSUME form' = [form EXCEPT !.loadings = TRUE]
        PROVE  form' = [form EXCEPT !.warning = form.warning, !.loadings = TRUE]
    BY <1>0, <2>4 DEF FormFields
  <2>. QED BY <2>1, <2>2, <2>3, <2>4
<1>3. /\ DOMAIN form' = FormFields /\ form' = [k \in FormFields |-> form'[k]]
      /\ \A k \in FormFields \ {"warning", "loadings"} : form'[k] = form[k]
  BY <1>0, <1>2 DEF FormFields
<1>4. /\ form'.open = form.open /\ form'.mode = form.mode
      /\ form'.current = form.current /\ form'.info = form.info
  BY <1>3 DEF FormFields
<1>5. \A c \in calls' \ calls : \/ c.kind = "Approve" /\ c.current = 0
                                \/ c.kind = "Deposit" /\ c.current = 1
  <2>1. ASSUME NEW kind, Send(kind), NEW c \in calls' \ calls
        PROVE  c.kind = kind /\ c.current = form.current
    BY <2>1 DEF Send
  <2>2. \/ calls' = calls
        \/ Send("Approve") /\ form.current < 1
        \/ Send("Deposit") /\ form.current = 1
    BY DEF ClickApprove, ClickLend, ClickBorrow
  <2>3. form.current < 1 => form.current = 0
    BY <1>0
  <2>. QED BY <2>1, <2>2, <2>3
<1>6. calls \subseteq calls'
  BY DEF ClickApprove, ClickLend, ClickBorrow, Send
<1>7. \/ calls' # {}
      \/ form'.loadings = form.loadings /\ calls' = calls /\ form'.warning # ""
      \/ form'.mode = "Borrow" /\ form'.warning # ""
  <2>1. CASE ClickApprove
    BY <1>0, <2>1 DEF ClickApprove, Send, FormFields
  <2>2. CASE ClickLend
    BY <1>0, <2>2 DEF ClickLend, Send, FormFields
  <2>3. CASE ClickBorrow
    BY <1>0, <2>3 DEF ClickBorrow, Send, FormFields
  <2>. QED BY <2>1, <2>2, <2>3
<1>8. StepsInv'
  BY <1>1, <1>3, <1>4, <1>5, <1>6 DEF FormInv, StepsInv, CallsFromSteps
<1>9. SpinnerInv'
  BY <1>0, <1>4, <1>7 DEF FormInv, SpinnerInv, SpinnerExplained
<1>10. InfoInv'
  BY <1>1, <1>4, InfoKept
<1>. QED BY <1>8, <1>9, <1>10 DEF FormInv

(* An outcome sets the step from the one its closure was made at.          *)
LEMMA OutcomeStep ==
  ASSUME FormInv, NEW c \in calls, ApproveMined(c) \/ DepositMined(c) \/ CallFailed(c)
  PROVE  FormInv'
<1>0. /\ DOMAIN form = FormFields /\ form = [k \in FormFields |-> form[k]]
      /\ form.current \in {0, 1}
  BY DEF FormInv, StepsInv, steps
<1>1. /\ UNCHANGED <<chainId, switches, infoReqs, answered, overtaken, failed>>
      /\ calls' = calls \ {c}
  BY DEF ApproveMined, DepositMined, CallFailed
<1>2. notices \subseteq notices'
  BY DEF ApproveMined, DepositMined, CallFailed, openNotification,
         openNotificationlend, openNotificationborrow, openNotificationerror
<1>3. CASE ~form.open
  <2>1. UNCHANGED <<form, notices>>
    BY <1>3 DEF ApproveMined, DepositMined, CallFailed
  <2>2. StepsInv'
    BY <1>1, <2>1 DEF FormInv, StepsInv, CallsFromSteps
  <2>3. SpinnerInv'
    BY <1>3, <2>1 DEF FormInv, SpinnerInv, SpinnerExplained
  <2>4. InfoInv'
    BY <1>1, <2>1, InfoKept
  <2>. QED BY <2>2, <2>3, <2>4 DEF FormInv
<1>4. CASE form.open
  <2>1. /\ DOMAIN form' = FormFields /\ form' = [k \in FormFields |-> form'[k]]
        /\ form'.open = form.open /\ form'.mode = form.mode /\ form'.info = form.info
        /\ form'.loadings = FALSE
    <3>1. CASE ApproveMined(c)
      BY <1>0, <1>4, <3>1 DEF ApproveMined, FormFields
    <3>2. CASE DepositMined(c)
      BY <1>0, <1>4, <3>2 DEF DepositMined, FormFields
    <3>3. CASE CallFailed(c)
      BY <1>0, <1>4, <3>3 DEF CallFailed, afterFailure, FormFields
    <3>. QED BY <3>1, <3>2, <3>3
  <2>2. \/ form'.current = form.current
        \/ form'.current = 0
        \/ form'.current = 1 /\ <<"Approve", "Success">> \in notices'
    <3>1. CASE ApproveMined(c)
      <4>1. c.kind = "Approve" /\ c.current = 0
        BY <3>1 DEF ApproveMined, FormInv, StepsInv, CallsFromSteps
      <4>2. form'.current = next(c) /\ <<"Approve", "Success">> \in notices'
        BY <1>0, <1>4, <3>1 DEF ApproveMined, openNotification, FormFields
      <4>. QED BY <4>1, <4>2 DEF next
    <3>2. CASE DepositMined(c)
      <4>1. c.kind = "Deposit" /\ c.current = 1
        BY <3>2 DEF DepositMined, FormInv, StepsInv, CallsFromSteps
      <4>2. form'.current = prev(c)
        BY <1>0, <1>4, <3>2 DEF DepositMined, FormFields
      <4>. QED BY <4>1, <4>2 DEF prev
    <3>3. CASE CallFailed(c)
      BY <1>0, <1>4, <3>3 DEF CallFailed, afterFailure, FormFields
    <3>. QED BY <3>1, <3>2, <3>3
  <2>3. StepsInv'
    BY <1>0, <1>1, <1>2, <2>1, <2>2 DEF FormInv, StepsInv, CallsFromSteps, steps
  <2>4. SpinnerInv'
    BY <2>1 DEF SpinnerInv, SpinnerExplained
  <2>5. InfoInv'
    BY <1>1, <2>1, InfoKept
  <2>. QED BY <2>3, <2>4, <2>5 DEF FormInv
<1>. QED BY <1>3, <1>4

LEMMA UnloadStep == ASSUME FormInv, Unload PROVE FormInv'
<1>1. /\ DOMAIN form' = FormFields /\ form' = [k \in FormFields |-> form'[k]]
      /\ ~form'.open /\ ~form'.loadings /\ form'.current = 0
  BY DEF Unload, useStates, FormFields
<1>2. UNCHANGED <<switches, calls>> /\ infoReqs' = {} /\ answered' = 0
  BY DEF Unload
<1>3. StepsInv'
  BY <1>1, <1>2 DEF FormInv, StepsInv, CallsFromSteps, steps
<1>4. SpinnerInv'
  BY <1>1 DEF SpinnerInv, SpinnerExplained
<1>5. InfoInv'
  BY <1>1, <1>2 DEF FormInv, InfoInv
<1>. QED BY <1>3, <1>4, <1>5 DEF FormInv

LEMMA FormStepKeeps == FormInv /\ [FormNext]_formVars => FormInv'
<1>. SUFFICES ASSUME FormInv, [FormNext]_formVars PROVE FormInv'
  OBVIOUS
<1>1. CASE UNCHANGED formVars
  <2>1. UNCHANGED <<chainId, switches, form, notices, infoReqs, answered, overtaken,
                    failed, calls>>
    BY <1>1 DEF formVars, page
  <2>2. StepsInv' /\ SpinnerInv'
    BY <2>1 DEF FormInv, StepsInv, CallsFromSteps, SpinnerInv, SpinnerExplained
  <2>3. InfoInv'
    BY <2>1, InfoKept
  <2>. QED BY <2>2, <2>3 DEF FormInv
<1>2. CASE FormNext
  BY <1>2, SwitchChainStep, PoolInfoStep, PoolInfoFailsStep, QuietStep, ClickStep, OutcomeStep, UnloadStep
  DEF FormNext, CallEnds
<1>. QED BY <1>1, <1>2

-----------------------------------------------------------------------------
(* A row of the order page.                                                *)

RowFields == {"loadings", "hasNoClaim", "num", "over"}

IsUi(u) == DOMAIN u = RowFields /\ u = [f \in RowFields |-> u[f]]

RowInv ==
  /\ row.state \in 0 .. 4
  /\ DOMAIN ui = Components /\ ui = [k \in Components |-> ui[k]]
  /\ \A k \in Components : IsUi(ui[k])
  /\ \A c \in claims : c.from \in Components
  /\ RowSpinnerExplained

LEMMA RowStarts == RowInit => RowInv
<1>. SUFFICES ASSUME RowInit PROVE RowInv
  OBVIOUS
<1>1. ui = useRowStates(row.state) /\ claims = {} /\ row.state \in 0 .. 4
  BY DEF RowInit
<1>2. /\ DOMAIN ui = Components /\ ui = [k \in Components |-> ui[k]]
      /\ \A k \in Components : IsUi(ui[k]) /\ ~ui[k].loadings
  BY <1>1 DEF useRowStates, IsUi, RowFields
<1>. QED BY <1>1, <1>2 DEF RowInv, RowSpinnerExplained

(* A component's new state keeps the spinner, starts it along with a       *)
(* transaction, or stops it.                                               *)
LEMMA Rerendered ==
  ASSUME RowInv, UNCHANGED row, NEW k \in Components, NEW u, IsUi(u),
         ui' = [ui EXCEPT ![k] = u],
         \A c \in claims' : c.from \in Components,
         \A c \in claims \ claims' : c.from = k,
         u.loadings => \/ ui[k].loadings /\ claims \subseteq claims'
                       \/ \E c \in claims' : c.from = k
  PROVE  RowInv'
<1>1. /\ DOMAIN ui' = Components /\ ui' = [j \in Components |-> ui'[j]]
      /\ ui'[k] = u /\ \A j \in Components \ {k} : ui'[j] = ui[j]
  BY DEF RowInv
<1>2. \A j \in Components : IsUi(ui'[j])
  BY <1>1 DEF RowInv
<1>3. RowSpinnerExplained'
  <2>. SUFFICES ASSUME NEW j \in Components, ui'[j].loadings
               PROVE  \E c \in claims' : c.from = j
    BY DEF RowSpinnerExplained
  <2>1. CASE j = k
    BY <1>1, <2>1 DEF RowInv, RowSpinnerExplained
  <2>2. CASE j # k
    <3>1. PICK c \in claims : c.from = j
      BY <1>1, <2>2 DEF RowInv, RowSpinnerExplained
    <3>. QED BY <2>2, <3>1
  <2>. QED BY <2>1, <2>2
<1>. QED BY <1>1, <1>2, <1>3 DEF RowInv

LEMMA RowStepKeeps == RowInv /\ [RowNext]_rowVars => RowInv'
<1>. SUFFICES ASSUME RowInv, [RowNext]_rowVars PROVE RowInv'
  OBVIOUS
<1>0. \A k \in Components : IsUi(ui[k])
  BY DEF RowInv
<1>1. CASE UNCHANGED rowVars
  BY <1>1 DEF rowVars, trade, RowInv, RowSpinnerExplained
<1>2. ASSUME NEW k \in Components, Serve(k) \/ ReadFails(k) PROVE RowInv'
  BY <1>2 DEF Serve, ReadFails, trade, RowInv, RowSpinnerExplained
<1>9. ASSUME NEW w, Reconnect(w) PROVE RowInv'
  BY <1>9 DEF Reconnect, trade, RowInv, RowSpinnerExplained
<1>3. ASSUME NEW k \in Components, RowEffect(k) PROVE RowInv'
  <2>1. PICK a : /\ Becomes(k, [ui[k] EXCEPT !.hasNoClaim = a[2], !.num = 0], {})
                 /\ UNCHANGED <<row, claims>>
    BY <1>3 DEF RowEffect, trade
  <2> DEFINE u == [ui[k] EXCEPT !.hasNoClaim = a[2], !.num = 0]
  <2>2. IsUi(u) /\ u.loadings = ui[k].loadings
    BY <1>0 DEF IsUi, RowFields
  <2>3. ui' = [ui EXCEPT ![k] = u]
    BY <2>1 DEF Becomes
  <2> HIDE DEF u
  <2>. QED BY <2>1, <2>2, <2>3, Rerendered DEF RowInv
<1>4. CASE setNum
  <2> DEFINE k == "ClaimTime"
  <2>1. PICK a : /\ Becomes(k, [ui[k] EXCEPT !.num = a[2]],
                            {[a[1] EXCEPT !.what = "position"]})
                 /\ UNCHANGED <<row, claims>>
    BY <1>4 DEF setNum, trade
  <2> DEFINE u == [ui[k] EXCEPT !.num = a[2]]
  <2>2. IsUi(u) /\ u.loadings = ui[k].loadings
    BY <1>0 DEF IsUi, RowFields, Components
  <2>3. ui' = [ui EXCEPT ![k] = u] /\ k \in Components
    BY <2>1 DEF Becomes, Components
  <2> HIDE DEF u, k
  <2>. QED BY <2>1, <2>2, <2>3, Rerendered DEF RowInv
<1>5. CASE sethasNoClaim
  <2> DEFINE k == "ClaimTime"
  <2>1. PICK a : /\ Becomes(k, [ui[k] EXCEPT !.hasNoClaim = a[1].num = 0], {})
                 /\ UNCHANGED <<row, claims>>
    BY <1>5 DEF sethasNoClaim, trade
  <2> DEFINE u == [ui[k] EXCEPT !.hasNoClaim = a[1].num = 0]
  <2>2. IsUi(u) /\ u.loadings = ui[k].loadings
    BY <1>0 DEF IsUi, RowFields, Components
  <2>3. ui' = [ui EXCEPT ![k] = u] /\ k \in Components
    BY <2>1 DEF Becomes, Components
  <2> HIDE DEF u, k
  <2>. QED BY <2>1, <2>2, <2>3, Rerendered DEF RowInv
<1>6. CASE interval
  <2> DEFINE k == "ClaimTime"
             u == [ui[k] EXCEPT !.over = TRUE]
  <2>1. Becomes(k, u, {}) /\ UNCHANGED <<row, claims>>
    BY <1>6 DEF interval, trade
  <2>2. IsUi(u) /\ u.loadings = ui[k].loadings
    BY <1>0 DEF IsUi, RowFields, Components
  <2>3. ui' = [ui EXCEPT ![k] = u] /\ k \in Components
    BY <2>1 DEF Becomes, Components
  <2> HIDE DEF u, k
  <2>. QED BY <2>1, <2>2, <2>3, Rerendered DEF RowInv
<1>7. ASSUME NEW k \in Components, Claim(k) PROVE RowInv'
  <2> DEFINE u == [ui[k] EXCEPT !.loadings = TRUE]
             new == {[id |-> nextClaim, from |-> k, fn |-> fn, on |-> here,
                      amount |-> closure(ui, k)] : fn \in CallOf(k)}
  <2>1. /\ Becomes(k, u, {}) /\ UNCHANGED row /\ claims' = claims \cup new /\ Enabled(k)
    BY <1>7 DEF Claim
  <2>2. IsUi(u)
    BY <1>0 DEF IsUi, RowFields
  <2>3. ui' = [ui EXCEPT ![k] = u]
    BY <2>1 DEF Becomes
  <2>4. CallOf(k) # {}
    <3>1. CASE k = "AccessTab"
      <4>1. AccessEnabled
        BY <2>1, <3>1 DEF Enabled
      <4>2. row.state \in {1, 2, 3}
        BY <4>1 DEF AccessEnabled, RowInv
      <4>3. CallOf(k) = accessClaim
        BY <3>1 DEF CallOf
      <4>. QED BY <4>2, <4>3 DEF accessClaim
    <3>2. CASE k = "Refund"
      <4>1. CallOf(k) = getRefund
        BY <3>2 DEF CallOf
      <4>. QED BY <4>1 DEF getRefund
    <3>3. CASE k = "ClaimTime"
      <4>1. CallOf(k) = getclaim
        BY <3>3 DEF CallOf
      <4>. QED BY <4>1 DEF getclaim
    <3>. QED BY <3>1, <3>2, <3>3 DEF Components
  <2>5. (\A c \in new : c.from = k) /\ \E c \in new : c.from = k
    <3>1. \A c \in new : c.from = k
      OBVIOUS
    <3>2. PICK fn \in CallOf(k) : TRUE
      BY <2>4
    <3>3. [id |-> nextClaim, from |-> k, fn |-> fn, on |-> here,
           amount |-> closure(ui, k)] \in new
      OBVIOUS
    <3>. QED BY <3>1, <3>3
  <2> HIDE DEF u, new
  <2>. QED BY <2>1, <2>2, <2>3, <2>5, Rerendered DEF RowInv
<1>8. ASSUME NEW c \in claims, ClaimMined(c) \/ ClaimFailed(c) PROVE RowInv'
  <2> DEFINE k == c.from
             u == [ui[k] EXCEPT !.loadings = FALSE]
  <2>1. Becomes(k, u, {}) /\ UNCHANGED row /\ claims' = claims \ {c} /\ k \in Components
    BY <1>8 DEF ClaimMined, ClaimFailed, Settled, RowInv
  <2>2. IsUi(u) /\ u.loadings = FALSE
    BY <1>0, <2>1 DEF IsUi, RowFields
  <2>3. ui' = [ui EXCEPT ![k] = u]
    BY <2>1 DEF Becomes
  <2>4. \A d \in claims \ claims' : d.from = k
    BY <2>1
  <2>5. \A d \in claims' : d.from \in Components
    BY <2>1 DEF RowInv
  <2> HIDE DEF u, k
  <2>. QED BY <2>1, <2>2, <2>3, <2>4, <2>5, Rerendered
<1>. QED BY <1>1, <1>2, <1>3, <1>4, <1>5, <1>6, <1>7, <1>8, <1>9 DEF RowNext, ClaimEnds

-----------------------------------------------------------------------------
(* Header over the market page.                                            *)

(* A promise still to be answered names the chain of its own change of the *)
(* wallet; the name is the wallet's or that of the latest is to come.      *)
HeaderInv ==
  /\ \A a \in switched : a[1] <= changes /\ (a[1] = changes => a[2] = wallet)
  /\ changes \in Nat /\ \A a \in switched : a[1] \in Nat
  /\ ~unseen /\ wallet # Nothing =>
       currency = wallet \/ \E a \in switched : a[1] = changes

LEMMA HomeStarts == HomeInit => HeaderInv
  BY DEF HomeInit, HeaderInv

LEMMA HomeStepKeeps == HeaderInv /\ [HomeNext]_homeVars => HeaderInv'
<1>. SUFFICES ASSUME HeaderInv, [HomeNext]_homeVars PROVE HeaderInv'
  OBVIOUS
<1>1. ASSUME UNCHANGED <<wallet, currency, changes, switched, unseen>> PROVE HeaderInv'
  BY <1>1 DEF HeaderInv
<1>2. CASE UNCHANGED homeVars \/ Timeout \/ content
  BY <1>1, <1>2 DEF homeVars, headerVars, Timeout, content
<1>3. ASSUME NEW c \in Networks,
             \/ getPoolInfoHome(c) \/ getPoolInfoHomeFails(c)
             \/ handleClick(c) \/ Rejected(c)
      PROVE  HeaderInv'
  BY <1>1, <1>3 DEF headerVars, getPoolInfoHome, getPoolInfoHomeFails, handleClick,
                    Rejected, switchRejected
<1>4. ASSUME NEW c \in Networks, Switched(c)
      PROVE  HeaderInv'
  <2>1. /\ wallet' = c /\ changes' = changes + 1
        /\ switched' = switched \cup {<<changes', c>>}
    BY <1>4 DEF Switched
  <2>2. changes \in Nat /\ \A a \in switched : a[1] \in Nat /\ a[1] <= changes
    BY DEF HeaderInv
  <2>3. \A a \in switched' : /\ a[1] \in Nat /\ a[1] <= changes'
                            /\ a[1] = changes' => a[2] = wallet'
    <3>. SUFFICES ASSUME NEW a \in switched'
                  PROVE  /\ a[1] \in Nat /\ a[1] <= changes'
                         /\ a[1] = changes' => a[2] = wallet'
      OBVIOUS
    <3>1. CASE a \in switched
      BY <2>1, <2>2, <3>1
    <3>2. CASE a = <<changes', c>>
      BY <2>1, <2>2, <3>2
    <3>. QED BY <2>1, <3>1, <3>2
  <2>4. \E a \in switched' : a[1] = changes'
    <3>1. <<changes', c>> \in switched' /\ <<changes', c>>[1] = changes'
      BY <2>1
    <3>. QED BY <3>1
  <2>. QED BY <2>1, <2>2, <2>3, <2>4 DEF HeaderInv
<1>5. ASSUME NEW c \in Networks, SwitchSwallowed(c)
      PROVE  HeaderInv'
  BY <1>5 DEF SwitchSwallowed, HeaderInv
<1>6. ASSUME NEW a \in switched, SwitchAnswered(a)
      PROVE  HeaderInv'
  <2>1. /\ switched' = switched \ {a} /\ currency' = a[2]
        /\ unseen' <=> a[1] # changes
        /\ UNCHANGED <<wallet, changes>>
    BY <1>6 DEF SwitchAnswered
  <2>2. a[1] = changes => currency' = wallet'
    BY <2>1 DEF HeaderInv
  <2>. QED BY <2>1, <2>2 DEF HeaderInv
<1>7. ASSUME NEW c \in Networks, ChangedInWallet(c)
      PROVE  HeaderInv'
  <2>1. /\ wallet' = c /\ changes' = changes + 1 /\ switched' = switched
        /\ currentChainId = Nothing => currency' = c
        /\ currentChainId # Nothing => unseen'
    BY <1>7 DEF ChangedInWallet, useHeaderEffect
  <2>. QED BY <2>1 DEF HeaderInv
<1>8. ASSUME NEW tab, menu(tab) PROVE HeaderInv'
  BY <1>1, <1>8 DEF menu, headerVars
<1>9. ASSUME columns PROVE HeaderInv'
  BY <1>1, <1>9 DEF columns, headerVars
<1>. QED BY <1>2, <1>3, <1>4, <1>5, <1>6, <1>7, <1>8, <1>9 DEF HomeNext

LEMMA HeaderShows == HeaderInv => HeaderNamesChain
  BY DEF HeaderInv, HeaderNamesChain

-----------------------------------------------------------------------------
(* The lists of the order page.  A visit to a chain yields one request for *)
(* its pools, that one question for every row, and that the row at most    *)
(* once: the three together never outnumber the visits.                    *)

Listed(m, c, k) == {j \in DOMAIN pid[m] : pid[m][j] = <<c, k>>}
Due(m, c, k) == {q \in users : q[1] = m /\ q[3] = c /\ q[4] = k}
Requested(c) == {q \in infos : q[2] = c}
VisitsTo(c) == {v \in DOMAIN visits : visits[v] = c}

RowCounts ==
  \A m \in Modes, c \in Nets, k \in RowKeys :
    /\ IsFiniteSet(Due(m, c, k))
    /\ Cardinality(Listed(m, c, k)) + Cardinality(Due(m, c, k))
         + Cardinality(Requested(c)) <= Cardinality(VisitsTo(c))

ListTypes ==
  /\ visits \in Seq(Nets)
  /\ IsFiniteSet(infos) /\ \A q \in infos : q[2] \in Nets
  /\ \A q \in users : q[1] \in Modes /\ q[3] \in Nets /\ q[4] \in RowKeys
  /\ pid \in [Modes -> Seq(Nets \X RowKeys)]
  /\ \A m \in Modes : \A i \in DOMAIN pid[m] : pid[m][i] \in Staked[m]

(* A row not drawn yet is drawn by a timer that sets another number.       *)
DrawnSoon ==
  late \/ (\E t \in ticks : t[2] # time) \/ drawn = Draw(pid, data, loaded)

FaucetInv ==
  /\ loading \in [Coins -> BOOLEAN]
  /\ \A f \in faucets : f[2] \in Coins
  /\ FaucetSpinnerExplained

ListInv == ListTypes /\ RowCounts /\ DrawnSoon /\ FaucetInv

LEMMA AddOne ==
  ASSUME NEW S, IsFiniteSet(S), NEW x
  PROVE  /\ IsFiniteSet(S \cup {x}) /\ Cardinality(S) \in Nat
         /\ Cardinality(S \cup {x}) \in Nat
         /\ Cardinality(S \cup {x}) <= Cardinality(S) + 1
         /\ x \notin S => Cardinality(S \cup {x}) = Cardinality(S) + 1
<1>1. Cardinality(S) \in Nat
  BY FS_CardinalityType
<1>2. CASE x \in S
  <2>1. S \cup {x} = S
    BY <1>2
  <2>. QED BY <1>1, <1>2, <2>1
<1>3. CASE x \notin S
  BY <1>1, <1>3, FS_AddElement
<1>. QED BY <1>2, <1>3

LEMMA TakeOne ==
  ASSUME NEW S, IsFiniteSet(S), NEW x \in S
  PROVE  /\ IsFiniteSet(S \ {x}) /\ Cardinality(S) \in Nat
         /\ Cardinality(S \ {x}) \in Nat
         /\ Cardinality(S \ {x}) = Cardinality(S) - 1
  BY FS_CardinalityType, FS_RemoveElement

(* The numbers counted are numbers.                                        *)
LEMMA CountsAreNat ==
  ASSUME ListTypes, RowCounts, NEW m \in Modes, NEW c \in Nets, NEW k \in RowKeys
  PROVE  /\ IsFiniteSet(Listed(m, c, k)) /\ Cardinality(Listed(m, c, k)) \in Nat
         /\ IsFiniteSet(Due(m, c, k)) /\ Cardinality(Due(m, c, k)) \in Nat
         /\ IsFiniteSet(Requested(c)) /\ Cardinality(Requested(c)) \in Nat
         /\ IsFiniteSet(VisitsTo(c)) /\ Cardinality(VisitsTo(c)) \in Nat
<1>1. pid[m] \in Seq(Nets \X RowKeys) /\ visits \in Seq(Nets)
  BY DEF ListTypes
<1>2. IsFiniteSet(DOMAIN pid[m]) /\ IsFiniteSet(DOMAIN visits)
  <2>1. /\ DOMAIN pid[m] = 1 .. Len(pid[m]) /\ Len(pid[m]) \in Nat
        /\ DOMAIN visits = 1 .. Len(visits) /\ Len(visits) \in Nat
    BY <1>1, LenProperties
  <2>. QED BY <2>1, FS_Interval
<1>3. /\ Listed(m, c, k) \subseteq DOMAIN pid[m] /\ VisitsTo(c) \subseteq DOMAIN visits
      /\ Requested(c) \subseteq infos
  BY DEF Listed, VisitsTo, Requested
<1>4. /\ IsFiniteSet(Listed(m, c, k)) /\ IsFiniteSet(Due(m, c, k))
      /\ IsFiniteSet(Requested(c)) /\ IsFiniteSet(VisitsTo(c))
  BY <1>2, <1>3, FS_Subset DEF ListTypes, RowCounts
<1>. QED BY <1>4, FS_CardinalityType

LEMMA ListStarts == ListInit => ListInv
<1>. SUFFICES ASSUME ListInit PROVE ListInv
  OBVIOUS
<1>1. \/ visits = << >> /\ infos = {}
      \/ net \in Nets /\ visits = <<net>> /\ infos = {<<1, net, 0>>}
  BY DEF ListInit
<1>2. visits \in Seq(Nets)
  <2>1. << >> \in Seq(Nets) /\ \A c \in Nets : <<c>> \in Seq(Nets)
    OBVIOUS
  <2>. QED BY <1>1, <2>1, Zenon
<1>3. IsFiniteSet(infos) /\ \A q \in infos : q[2] \in Nets
  <2>1. CASE infos = {}
    BY <2>1, FS_EmptySet
  <2>2. CASE net \in Nets /\ infos = {<<1, net, 0>>}
    <3>1. IsFiniteSet({<<1, net, 0>>})
      BY FS_Singleton
    <3>. QED BY <2>2, <3>1
  <2>. QED BY <1>1, <2>1, <2>2
<1>4. \A m \in Modes : pid[m] = << >> /\ pid \in [Modes -> Seq(Nets \X RowKeys)]
  BY DEF ListInit
<1>5. ListTypes
  BY <1>2, <1>3, <1>4 DEF ListInit, ListTypes
<1>6. RowCounts
  <2>. SUFFICES ASSUME NEW m \in Modes, NEW c \in Nets, NEW k \in RowKeys
               PROVE  /\ IsFiniteSet(Due(m, c, k))
                      /\ Cardinality(Listed(m, c, k)) + Cardinality(Due(m, c, k))
                           + Cardinality(Requested(c)) <= Cardinality(VisitsTo(c))
    BY DEF RowCounts
  <2>1. Listed(m, c, k) = {} /\ Due(m, c, k) = {}
    BY <1>4 DEF ListInit, Listed, Due
  <2>2. /\ IsFiniteSet({}) /\ Cardinality({}) = 0
        /\ \A x : Cardinality({x}) = 1
    BY FS_EmptySet, FS_Singleton
  <2>3. CASE net = c /\ visits = <<net>> /\ infos = {<<1, net, 0>>}
    <3>1. Requested(c) = {<<1, c, 0>>} /\ VisitsTo(c) = {1}
      BY <2>3 DEF Requested, VisitsTo
    <3>2. Cardinality(Requested(c)) = 1 /\ Cardinality(VisitsTo(c)) = 1
      BY <2>2, <3>1
    <3>. QED BY <2>1, <2>2, <3>2
  <2>4. CASE ~ (net = c /\ visits = <<net>> /\ infos = {<<1, net, 0>>})
    <3>1. Requested(c) = {}
      BY <1>1, <2>4 DEF Requested
    <3>2. Cardinality(VisitsTo(c)) \in Nat
      <4>1. DOMAIN visits = 1 .. Len(visits) /\ Len(visits) \in Nat
        BY <1>2, LenProperties
      <4>2. VisitsTo(c) \subseteq DOMAIN visits
        BY DEF VisitsTo
      <4>3. IsFiniteSet(DOMAIN visits)
        BY <4>1, FS_Interval
      <4>. QED BY <4>2, <4>3, FS_Subset, FS_CardinalityType
    <3>. QED BY <2>1, <2>2, <3>1, <3>2
  <2>. QED BY <2>3, <2>4
<1>7. DrawnSoon
  BY DEF ListInit, DrawnSoon, Draw, Modes
<1>8. FaucetInv
  BY DEF ListInit, FaucetInv, FaucetSpinnerExplained
<1>. QED BY <1>5, <1>6, <1>7, <1>8 DEF ListInv

LEMMA ChangeChainStep ==
  ASSUME ListInv, NEW c \in Nets, ChangeChain(c)
  PROVE  ListInv'
<1>1. /\ visits' = Append(visits, c)
      /\ infos' = infos \cup {<<Len(visits'), c, time>>}
      /\ Renders
      /\ UNCHANGED <<users, pid, loading, faucets>>
  BY DEF ChangeChain, faucetVars
<1>2. visits \in Seq(Nets) /\ IsFiniteSet(infos)
  BY DEF ListInv, ListTypes
<1>3. /\ visits' \in Seq(Nets) /\ Len(visits) \in Nat
      /\ DOMAIN visits = 1 .. Len(visits) /\ DOMAIN visits' = 1 .. Len(visits) + 1
      /\ visits'[Len(visits) + 1] = c
      /\ \A v \in 1 .. Len(visits) : visits'[v] = visits[v]
  BY <1>1, <1>2
<1>4. ListTypes'
  <2>1. IsFiniteSet(infos')
    BY <1>1, <1>2, AddOne
  <2>2. \A q \in infos' : q[2] \in Nets
    BY <1>1 DEF ListInv, ListTypes
  <2>. QED BY <1>1, <1>3, <2>1, <2>2 DEF ListInv, ListTypes
<1>5. RowCounts'
  <2>. SUFFICES ASSUME NEW m \in Modes, NEW d \in Nets, NEW k \in RowKeys
               PROVE  /\ IsFiniteSet(Due(m, d, k)')
                      /\ Cardinality(Listed(m, d, k)') + Cardinality(Due(m, d, k)')
                           + Cardinality(Requested(d)') <= Cardinality(VisitsTo(d)')
    BY DEF RowCounts
  <2>1. Listed(m, d, k)' = Listed(m, d, k) /\ Due(m, d, k)' = Due(m, d, k)
    BY <1>1 DEF Listed, Due
  <2>2. /\ IsFiniteSet(Due(m, d, k))
        /\ Cardinality(Listed(m, d, k)) + Cardinality(Due(m, d, k))
             + Cardinality(Requested(d)) <= Cardinality(VisitsTo(d))
    BY DEF ListInv, RowCounts
  <2>3. /\ Cardinality(Listed(m, d, k)) \in Nat /\ Cardinality(Due(m, d, k)) \in Nat
        /\ IsFiniteSet(Requested(d)) /\ Cardinality(Requested(d)) \in Nat
        /\ IsFiniteSet(VisitsTo(d)) /\ Cardinality(VisitsTo(d)) \in Nat
    BY CountsAreNat DEF ListInv
  <2>4. CASE d = c
    <3>1. Requested(d)' = Requested(d) \cup {<<Len(visits'), c, time>>}
      BY <1>1, <2>4 DEF Requested
    <3>2. /\ VisitsTo(d)' = VisitsTo(d) \cup {Len(visits) + 1}
          /\ Len(visits) + 1 \notin VisitsTo(d)
      BY <1>3, <2>4 DEF VisitsTo
    <3>3. Cardinality(VisitsTo(d)') = Cardinality(VisitsTo(d)) + 1
      BY <2>3, <3>2, AddOne
    <3>4. /\ Cardinality(Requested(d)') <= Cardinality(Requested(d)) + 1
          /\ Cardinality(Requested(d)') \in Nat
      BY <2>3, <3>1, AddOne
    <3>. QED BY <2>1, <2>2, <2>3, <3>3, <3>4
  <2>5. CASE d # c
    <3>1. Requested(d)' = Requested(d)
      BY <1>1, <2>5 DEF Requested
    <3>2. VisitsTo(d)' = VisitsTo(d)
      BY <1>3, <2>5 DEF VisitsTo
    <3>. QED BY <2>1, <2>2, <3>1, <3>2
  <2>. QED BY <2>4, <2>5
<1>6. DrawnSoon' /\ FaucetInv'
  BY <1>1 DEF ListInv, Renders, DrawnSoon, FaucetInv, FaucetSpinnerExplained
<1>. QED BY <1>4, <1>5, <1>6 DEF ListInv

LEMMA RowsStep ==
  ASSUME ListInv, NEW q \in infos, getPoolInfoRows(q)
  PROVE  ListInv'
<1>1. /\ infos' = infos \ {q}
      /\ users' = users \cup {<<m, q[1], q[2], k>> : m \in Modes, k \in RowKeys}
      /\ Renders
      /\ UNCHANGED <<visits, pid, loading, faucets>>
  BY DEF getPoolInfoRows, faucetVars
<1>2. q[2] \in Nets /\ IsFiniteSet(infos)
  BY DEF ListInv, ListTypes
<1>3. ListTypes'
  <2>1. \A p \in users' : p[1] \in Modes /\ p[3] \in Nets /\ p[4] \in RowKeys
    BY <1>1, <1>2 DEF ListInv, ListTypes
  <2>. QED BY <1>1, <1>2, <2>1, FS_RemoveElement DEF ListInv, ListTypes
<1>4. RowCounts'
  <2>. SUFFICES ASSUME NEW m \in Modes, NEW c \in Nets, NEW k \in RowKeys
               PROVE  /\ IsFiniteSet(Due(m, c, k)')
                      /\ Cardinality(Listed(m, c, k)') + Cardinality(Due(m, c, k)')
                           + Cardinality(Requested(c)') <= Cardinality(VisitsTo(c)')
    BY DEF RowCounts
  <2>1. Listed(m, c, k)' = Listed(m, c, k) /\ VisitsTo(c)' = VisitsTo(c)
    BY <1>1 DEF Listed, VisitsTo
  <2>2. /\ IsFiniteSet(Due(m, c, k))
        /\ Cardinality(Listed(m, c, k)) + Cardinality(Due(m, c, k))
             + Cardinality(Requested(c)) <= Cardinality(VisitsTo(c))
    BY DEF ListInv, RowCounts
  <2>3. /\ Cardinality(Listed(m, c, k)) \in Nat /\ Cardinality(Due(m, c, k)) \in Nat
        /\ IsFiniteSet(Requested(c)) /\ Cardinality(Requested(c)) \in Nat
        /\ Cardinality(VisitsTo(c)) \in Nat
    BY CountsAreNat DEF ListInv
  <2>4. CASE c = q[2]
    <3>1. Requested(c)' = Requested(c) \ {q} /\ q \in Requested(c)
      BY <1>1, <2>4 DEF Requested
    <3>2. Due(m, c, k)' = Due(m, c, k) \cup {<<m, q[1], c, k>>}
      BY <1>1, <2>4 DEF Due
    <3>3. Cardinality(Requested(c)') = Cardinality(Requested(c)) - 1
      BY <2>3, <3>1, TakeOne
    <3>4. /\ IsFiniteSet(Due(m, c, k)') /\ Cardinality(Due(m, c, k)') \in Nat
          /\ Cardinality(Due(m, c, k)') <= Cardinality(Due(m, c, k)) + 1
      BY <2>2, <3>2, AddOne
    <3>. QED BY <2>1, <2>2, <2>3, <3>3, <3>4
  <2>5. CASE c # q[2]
    <3>1. Requested(c)' = Requested(c)
      BY <1>1, <2>5 DEF Requested
    <3>2. Due(m, c, k)' = Due(m, c, k)
      BY <1>1, <2>5 DEF Due
    <3>. QED BY <2>1, <2>2, <3>1, <3>2
  <2>. QED BY <2>4, <2>5
<1>5. DrawnSoon' /\ FaucetInv'
  BY <1>1 DEF ListInv, Renders, DrawnSoon, FaucetInv, FaucetSpinnerExplained
<1>. QED BY <1>3, <1>4, <1>5 DEF ListInv

LEMMA AnswerStep ==
  ASSUME ListInv, NEW q \in users, getuserInfo(q) \/ userInfoFailed(q)
  PROVE  ListInv'
<1> DEFINE r == <<q[3], q[4]>>
           n == Len(pid[q[1]]) + 1
<1>1. /\ users' = users \ {q}
      /\ \/ pid' = pid
         \/ r \in Staked[q[1]] /\ pid' = [pid EXCEPT ![q[1]] = Append(@, r)]
      /\ UNCHANGED <<visits, infos, loading, faucets>>
  BY DEF getuserInfo, userInfoFailed, hasStake, rowsVars, faucetVars
<1>2. q[1] \in Modes /\ r \in Nets \X RowKeys
  BY DEF ListInv, ListTypes
<1>3. pid \in [Modes -> Seq(Nets \X RowKeys)]
  BY DEF ListInv, ListTypes
<1>4. /\ pid[q[1]] \in Seq(Nets \X RowKeys) /\ Len(pid[q[1]]) \in Nat /\ n \in Nat
      /\ DOMAIN pid[q[1]] = 1 .. Len(pid[q[1]])
  BY <1>2, <1>3
<1> HIDE DEF r
<1>7. DrawnSoon'
  <2>1. CASE getuserInfo(q) /\ data' # data
    BY <2>1 DEF getuserInfo, Renders, DrawnSoon
  <2>2. CASE getuserInfo(q) /\ data' = data
    <3>1. /\ late' <=> late \/ (pid' # pid /\ \A t \in ticks : t[2] = time)
          /\ UNCHANGED <<data, loaded, drawn, time, ticks>>
      BY <2>2 DEF getuserInfo
    <3>. QED BY <3>1 DEF ListInv, DrawnSoon
  <2>3. CASE userInfoFailed(q)
    BY <2>3 DEF ListInv, DrawnSoon, userInfoFailed, rowsVars
  <2>. QED BY <2>1, <2>2, <2>3
<1>5. CASE pid' = pid
  <2>1. ListTypes'
    BY <1>1, <1>5 DEF ListInv, ListTypes
  <2>2. ASSUME NEW m \in Modes, NEW c \in Nets, NEW k \in RowKeys
        PROVE  /\ IsFiniteSet(Due(m, c, k)')
               /\ Cardinality(Listed(m, c, k)') + Cardinality(Due(m, c, k)')
                    + Cardinality(Requested(c)') <= Cardinality(VisitsTo(c)')
    <3>1. /\ Listed(m, c, k)' = Listed(m, c, k) /\ Requested(c)' = Requested(c)
          /\ VisitsTo(c)' = VisitsTo(c)
      BY <1>1, <1>5 DEF Listed, Requested, VisitsTo
    <3>2. /\ IsFiniteSet(Due(m, c, k))
          /\ Cardinality(Listed(m, c, k)) + Cardinality(Due(m, c, k))
               + Cardinality(Requested(c)) <= Cardinality(VisitsTo(c))
      BY DEF ListInv, RowCounts
    <3>3. /\ Cardinality(Listed(m, c, k)) \in Nat /\ Cardinality(Due(m, c, k)) \in Nat
          /\ Cardinality(Requested(c)) \in Nat /\ Cardinality(VisitsTo(c)) \in Nat
      BY CountsAreNat DEF ListInv
    <3>4. Due(m, c, k)' \subseteq Due(m, c, k)
      BY <1>1 DEF Due
    <3>5. /\ IsFiniteSet(Due(m, c, k)') /\ Cardinality(Due(m, c, k)') \in Nat
          /\ Cardinality(Due(m, c, k)') <= Cardinality(Due(m, c, k))
      BY <3>2, <3>4, FS_Subset, FS_CardinalityType
    <3>. QED BY <3>1, <3>2, <3>3, <3>5
  <2>3. RowCounts'
    BY <2>2 DEF RowCounts
  <2>4. FaucetInv'
    BY <1>1 DEF ListInv, FaucetInv, FaucetSpinnerExplained
  <2>. QED BY <1>7, <2>1, <2>3, <2>4 DEF ListInv
<1>6. CASE r \in Staked[q[1]] /\ pid' = [pid EXCEPT ![q[1]] = Append(@, r)]
  <2>1. /\ pid' \in [Modes -> Seq(Nets \X RowKeys)]
        /\ \A m \in Modes \ {q[1]} : pid'[m] = pid[m]
        /\ DOMAIN pid'[q[1]] = DOMAIN pid[q[1]] \cup {n} /\ pid'[q[1]][n] = r
        /\ \A i \in DOMAIN pid[q[1]] : pid'[q[1]][i] = pid[q[1]][i]
    <3>1. pid'[q[1]] = Append(pid[q[1]], r)
      BY <1>2, <1>3, <1>6
    <3>2. pid' \in [Modes -> Seq(Nets \X RowKeys)]
      BY <1>2, <1>3, <1>4, <1>6
    <3>3. \A m \in Modes \ {q[1]} : pid'[m] = pid[m]
      BY <1>2, <1>3, <1>6
    <3>. QED BY <1>2, <1>4, <3>1, <3>2, <3>3
  <2>2. \A m \in Modes : \A i \in DOMAIN pid'[m] : pid'[m][i] \in Staked[m]
    <3>. SUFFICES ASSUME NEW m \in Modes, NEW i \in DOMAIN pid'[m]
                  PROVE  pid'[m][i] \in Staked[m]
      OBVIOUS
    <3>1. \A j \in DOMAIN pid[m] : pid[m][j] \in Staked[m]
      BY DEF ListInv, ListTypes
    <3>2. CASE m = q[1]
      BY <1>6, <2>1, <3>1, <3>2
    <3>3. CASE m # q[1]
      BY <2>1, <3>1, <3>3
    <3>. QED BY <3>2, <3>3
  <2>3. ListTypes'
    <3>1. \A p \in users' : p[1] \in Modes /\ p[3] \in Nets /\ p[4] \in RowKeys
      BY <1>1 DEF ListInv, ListTypes
    <3>. QED BY <1>1, <2>1, <2>2, <3>1 DEF ListInv, ListTypes
  <2>4. ASSUME NEW m \in Modes, NEW c \in Nets, NEW k \in RowKeys
        PROVE  /\ IsFiniteSet(Due(m, c, k)')
               /\ Cardinality(Listed(m, c, k)') + Cardinality(Due(m, c, k)')
                    + Cardinality(Requested(c)') <= Cardinality(VisitsTo(c)')
    <3>1. /\ IsFiniteSet(Due(m, c, k))
          /\ Cardinality(Listed(m, c, k)) + Cardinality(Due(m, c, k))
               + Cardinality(Requested(c)) <= Cardinality(VisitsTo(c))
      BY DEF ListInv, RowCounts
    <3>2. /\ IsFiniteSet(Listed(m, c, k)) /\ Cardinality(Listed(m, c, k)) \in Nat
          /\ Cardinality(Due(m, c, k)) \in Nat
          /\ Cardinality(Requested(c)) \in Nat /\ Cardinality(VisitsTo(c)) \in Nat
      BY CountsAreNat DEF ListInv
    <3>3. Requested(c)' = Requested(c) /\ VisitsTo(c)' = VisitsTo(c)
      BY <1>1 DEF Requested, VisitsTo
    <3>4. CASE m = q[1] /\ r = <<c, k>>
      <4>1. Listed(m, c, k)' = Listed(m, c, k) \cup {n}
        BY <2>1, <3>4 DEF Listed
      <4>2. Due(m, c, k)' = Due(m, c, k) \ {q} /\ q \in Due(m, c, k)
        BY <1>1, <3>4 DEF Due, r
      <4>3. /\ Cardinality(Listed(m, c, k)') \in Nat
            /\ Cardinality(Listed(m, c, k)') <= Cardinality(Listed(m, c, k)) + 1
        BY <3>2, <4>1, AddOne
      <4>4. /\ IsFiniteSet(Due(m, c, k)')
            /\ Cardinality(Due(m, c, k)') = Cardinality(Due(m, c, k)) - 1
        BY <3>1, <4>2, TakeOne
      <4>. QED BY <3>1, <3>2, <3>3, <4>3, <4>4
    <3>5. CASE ~ (m = q[1] /\ r = <<c, k>>)
      <4>1. Listed(m, c, k)' = Listed(m, c, k)
        <5>1. CASE m = q[1]
          BY <2>1, <3>5, <5>1 DEF Listed
        <5>2. CASE m # q[1]
          BY <2>1, <5>2 DEF Listed
        <5>. QED BY <5>1, <5>2
      <4>2. Due(m, c, k)' = Due(m, c, k)
        BY <1>1, <3>5 DEF Due, r
      <4>. QED BY <3>1, <3>3, <4>1, <4>2
    <3>. QED BY <3>4, <3>5
  <2>5. RowCounts'
    BY <2>4 DEF RowCounts
  <2>6. FaucetInv'
    BY <1>1 DEF ListInv, FaucetInv, FaucetSpinnerExplained
  <2>. QED BY <1>7, <2>3, <2>5, <2>6 DEF ListInv
<1>. QED BY <1>1, <1>5, <1>6

(* A step of the faucet or of a timer leaves the lists alone, and a        *)
(* request that fails yields no row.                                       *)
LEMMA ListsUntouched ==
  ASSUME ListTypes, RowCounts, infos' \subseteq infos, UNCHANGED <<visits, users, pid>>
  PROVE  ListTypes' /\ RowCounts'
<1>1. ListTypes'
  <2>1. IsFiniteSet(infos')
    BY FS_Subset DEF ListTypes
  <2>. QED BY <2>1 DEF ListTypes
<1>2. ASSUME NEW m \in Modes, NEW c \in Nets, NEW k \in RowKeys
      PROVE  /\ IsFiniteSet(Due(m, c, k)')
             /\ Cardinality(Listed(m, c, k)') + Cardinality(Due(m, c, k)')
                  + Cardinality(Requested(c)') <= Cardinality(VisitsTo(c)')
  <2>1. /\ Listed(m, c, k)' = Listed(m, c, k) /\ Due(m, c, k)' = Due(m, c, k)
        /\ Requested(c)' \subseteq Requested(c) /\ VisitsTo(c)' = VisitsTo(c)
    BY DEF Listed, Due, Requested, VisitsTo
  <2>2. /\ IsFiniteSet(Due(m, c, k))
        /\ Cardinality(Listed(m, c, k)) + Cardinality(Due(m, c, k))
             + Cardinality(Requested(c)) <= Cardinality(VisitsTo(c))
    BY DEF RowCounts
  <2>3. /\ Cardinality(Listed(m, c, k)) \in Nat /\ Cardinality(Due(m, c, k)) \in Nat
        /\ IsFiniteSet(Requested(c)) /\ Cardinality(Requested(c)) \in Nat
        /\ Cardinality(VisitsTo(c)) \in Nat
    BY CountsAreNat
  <2>4. /\ Cardinality(Requested(c)') \in Nat
        /\ Cardinality(Requested(c)') <= Cardinality(Requested(c))
    BY <2>1, <2>3, FS_Subset, FS_CardinalityType
  <2>. QED BY <2>1, <2>2, <2>3, <2>4
<1>3. RowCounts'
  BY <1>2 DEF RowCounts
<1>. QED BY <1>1, <1>3

LEMMA ListStepKeeps == ListInv /\ [ListNext]_listVars => ListInv'
<1>. SUFFICES ASSUME ListInv, [ListNext]_listVars PROVE ListInv'
  OBVIOUS
<1>1. CASE UNCHANGED listVars
  <2>1. ListTypes' /\ RowCounts'
    BY <1>1, ListsUntouched DEF listVars, rowsVars, ListInv
  <2>2. DrawnSoon' /\ FaucetInv'
    BY <1>1 DEF listVars, rowsVars, faucetVars, ListInv, DrawnSoon, FaucetInv,
                FaucetSpinnerExplained
  <2>. QED BY <2>1, <2>2 DEF ListInv
<1>2. ASSUME NEW c \in Nets, ChangeChain(c) PROVE ListInv'
  BY <1>2, ChangeChainStep
<1>3. ASSUME NEW q \in infos, getPoolInfoRows(q) PROVE ListInv'
  BY <1>3, RowsStep
<1>4. ASSUME NEW q \in users, getuserInfo(q) \/ userInfoFailed(q) PROVE ListInv'
  BY <1>4, AnswerStep
<1>8. ASSUME NEW v \in datas, getData(v) PROVE ListInv'
  <2>1. ListTypes' /\ RowCounts'
    BY <1>8, ListsUntouched DEF getData, ListInv
  <2>2. DrawnSoon' /\ FaucetInv'
    BY <1>8 DEF getData, Renders, faucetVars, ListInv, DrawnSoon, FaucetInv,
                FaucetSpinnerExplained
  <2>. QED BY <2>1, <2>2 DEF ListInv
<1>9. ASSUME \/ \E v \in datas : getDataFails(v)
             \/ \E q \in infos : getPoolInfoRowsFails(q)
      PROVE  ListInv'
  <2>1. /\ infos' \subseteq infos
        /\ UNCHANGED <<visits, users, rowsVars, faucetVars>>
    BY <1>9 DEF getDataFails, getPoolInfoRowsFails
  <2>2. ListTypes' /\ RowCounts'
    BY <2>1, ListsUntouched DEF rowsVars, ListInv
  <2>3. DrawnSoon' /\ FaucetInv'
    BY <2>1 DEF rowsVars, faucetVars, ListInv, DrawnSoon, FaucetInv, FaucetSpinnerExplained
  <2>. QED BY <2>2, <2>3 DEF ListInv
<1>5. CASE settime
  <2>1. ListTypes' /\ RowCounts'
    BY <1>5, ListsUntouched DEF settime, ListInv
  <2>2. DrawnSoon'
    <3>1. PICK t \in ticks : ticks' = ticks \ {t} /\ time' = t[2]
      BY <1>5 DEF settime
    <3>2. CASE time' # time
      BY <1>5, <3>2 DEF settime, Renders, DrawnSoon
    <3>3. CASE time' = time
      <4>1. UNCHANGED <<pid, data, loaded, drawn, late>>
        BY <1>5, <3>3 DEF settime
      <4>2. (\E u \in ticks : u[2] # time) => \E u \in ticks' : u[2] # time'
        BY <3>1, <3>3
      <4>. QED BY <4>1, <4>2 DEF ListInv, DrawnSoon
    <3>. QED BY <3>2, <3>3
  <2>3. FaucetInv'
    BY <1>5 DEF settime, faucetVars, ListInv, FaucetInv, FaucetSpinnerExplained
  <2>. QED BY <2>1, <2>2, <2>3 DEF ListInv
<1>6. ASSUME NEW c \in Coins, getfaucet_transfer(c) PROVE ListInv'
  <2>1. ListTypes' /\ RowCounts'
    BY <1>6, ListsUntouched DEF getfaucet_transfer, rowsVars, ListInv
  <2>2. DrawnSoon'
    BY <1>6 DEF getfaucet_transfer, rowsVars, ListInv, DrawnSoon
  <2>3. /\ loading' = [loading EXCEPT ![c] = TRUE]
        /\ faucets' = faucets \cup {<<nextFaucet, c>>}
    BY <1>6 DEF getfaucet_transfer
  <2>4. loading' \in [Coins -> BOOLEAN] /\ \A f \in faucets' : f[2] \in Coins
    BY <2>3 DEF ListInv, FaucetInv
  <2>5. \A d \in Coins : loading'[d] => \E f \in faucets' : f[2] = d
    <3>1. <<nextFaucet, c>> \in faucets' /\ <<nextFaucet, c>>[2] = c
      BY <2>3
    <3>2. \A d \in Coins \ {c} : loading'[d] <=> loading[d]
      BY <2>3 DEF ListInv, FaucetInv
    <3>. QED BY <2>3, <3>1, <3>2 DEF ListInv, FaucetInv, FaucetSpinnerExplained
  <2>6. FaucetInv'
    BY <2>4, <2>5 DEF FaucetInv, FaucetSpinnerExplained
  <2>. QED BY <2>1, <2>2, <2>6 DEF ListInv
<1>7. ASSUME NEW f \in faucets, FaucetEnds(f) PROVE ListInv'
  <2>1. ListTypes' /\ RowCounts'
    BY <1>7, ListsUntouched DEF FaucetEnds, rowsVars, ListInv
  <2>2. DrawnSoon'
    BY <1>7 DEF FaucetEnds, rowsVars, ListInv, DrawnSoon
  <2>3. loading' = [loading EXCEPT ![f[2]] = FALSE] /\ faucets' = faucets \ {f}
    BY <1>7 DEF FaucetEnds, faucetCallback
  <2>4. FaucetInv'
    BY <2>3 DEF ListInv, FaucetInv, FaucetSpinnerExplained
  <2>. QED BY <2>1, <2>2, <2>4 DEF ListInv
<1>. QED BY <1>1, <1>2, <1>3, <1>4, <1>5, <1>6, <1>7, <1>8, <1>9
         DEF ListNext, OrdersNext, FaucetNext

LEMMA ListShows == ListInv => OrdersShown /\ FaucetSpinnerExplained
<1>. SUFFICES ASSUME ListInv PROVE OrdersShown /\ FaucetSpinnerExplained
  OBVIOUS
<1>1. ASSUME NEW m \in Modes, NEW i \in DOMAIN pid[m]
      PROVE  /\ pid[m][i] \in Staked[m]
             /\ Cardinality({j \in DOMAIN pid[m] : pid[m][j] = pid[m][i]})
                  <= Cardinality({v \in DOMAIN visits : visits[v] = pid[m][i][1]})
  <2>1. pid[m] \in Seq(Nets \X RowKeys)
    BY DEF ListInv, ListTypes
  <2>2. pid[m][i] \in Nets \X RowKeys
    BY <2>1
  <2>3. PICK c \in Nets, k \in RowKeys : pid[m][i] = <<c, k>>
    BY <2>2
  <2>4. /\ Cardinality(Listed(m, c, k)) + Cardinality(Due(m, c, k))
             + Cardinality(Requested(c)) <= Cardinality(VisitsTo(c))
    BY DEF ListInv, RowCounts
  <2>5. /\ Cardinality(Listed(m, c, k)) \in Nat /\ Cardinality(Due(m, c, k)) \in Nat
        /\ Cardinality(Requested(c)) \in Nat /\ Cardinality(VisitsTo(c)) \in Nat
    BY CountsAreNat DEF ListInv
  <2>6. Cardinality(Listed(m, c, k)) <= Cardinality(VisitsTo(c))
    BY <2>4, <2>5
  <2>7. /\ Listed(m, c, k) = {j \in DOMAIN pid[m] : pid[m][j] = pid[m][i]}
        /\ VisitsTo(c) = {v \in DOMAIN visits : visits[v] = pid[m][i][1]}
    BY <2>3 DEF Listed, VisitsTo
  <2>8. pid[m][i] \in Staked[m]
    BY DEF ListInv, ListTypes
  <2>. QED BY <2>6, <2>7, <2>8
<1>2. RowsPerVisit
  BY <1>1 DEF RowsPerVisit
<1>3. AllDrawn
  BY DEF ListInv, DrawnSoon, AllDrawn
<1>4. FaucetSpinnerExplained
  BY DEF ListInv, FaucetInv
<1>. QED BY <1>2, <1>3, <1>4 DEF OrdersShown

-----------------------------------------------------------------------------
(* The invariants hold together.                                           *)

PagesInv == FormInv /\ RowInv /\ HeaderInv /\ ListInv

THEOREM PagesKeepInvariants == Spec => []PagesInv
<1>1. Init => PagesInv
  BY FormStarts, RowStarts, HomeStarts, ListStarts DEF Init, PagesInv
<1>2. PagesInv /\ [Next]_appVars => PagesInv'
  BY PagesStep, FormStepKeeps, RowStepKeeps, HomeStepKeeps, ListStepKeeps DEF PagesInv
<1>. QED BY <1>1, <1>2, PTL DEF Spec

(* The deposit form is at one of its two steps, and at the second only     *)
(* after an approval of the page was mined: whatever was clicked twice,    *)
(* edited, or switched between.                                            *)
THEOREM StepsFollowApproved == Spec => []StepsFollowApproval
<1>1. PagesInv => StepsFollowApproval
  BY DEF PagesInv, FormInv, StepsInv, StepsFollowApproval
<1>. QED BY <1>1, PagesKeepInvariants, PTL

(* A spinner of the form, of a row of the order page or of the faucet      *)
(* turns only while a transaction it waits for is under way.               *)
THEOREM NoSpinnerIsStuck == Spec => []SpinnersExplained
<1>1. PagesInv => SpinnersExplained
  BY ListShows DEF PagesInv, FormInv, SpinnerInv, RowInv, SpinnersExplained
<1>. QED BY <1>1, PagesKeepInvariants, PTL

(* The pool of the deposit form and the name in Header are of the chain    *)
(* the wallet is on, but for overtaken answers, failed requests and        *)
(* changes of chain hidden from Header.                                    *)
THEOREM PagesFollowWallet == Spec => []PagesShowChain
<1>1. PagesInv => PagesShowChain
  BY HeaderShows DEF PagesInv, FormInv, InfoInv, InfoOfThisChain, Wanted, PagesShowChain
<1>. QED BY <1>1, PagesKeepInvariants, PTL

(* The order page shows the wallet's positions, none more than once a      *)
(* visit, and draws every one it has once its timers have fired.           *)
THEOREM OrdersAreShown == Spec => []OrdersShown
<1>1. PagesInv => OrdersShown
  BY ListShows DEF PagesInv
<1>. QED BY <1>1, PagesKeepInvariants, PTL
=============================================================================
