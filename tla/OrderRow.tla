------------------------------ MODULE OrderRow ------------------------------
(***************************************************************************)
(* A pool of the order page and the three components that pay its user     *)
(* out: components/Refund (the unmatched part, or everything when the pool *)
(* is undone), components/AccessTab (the SP or JP tokens) and              *)
(* components/ClaimTime (the redemption), shown by PortfolioList.          *)
(*                                                                         *)
(* Each asks the chain for the user's position after every render, so a    *)
(* change of its state, or of the wallet's chain or account, asks again;   *)
(* the answers come in any order or not at all, and the buttons are drawn  *)
(* from the last one that came.  The row stays when the wallet leaves its  *)
(* chain: it then asks, and sends its transactions to, the pool of the     *)
(* same number on the chain the wallet is on.                              *)
(***************************************************************************)
EXTENDS Integers, FiniteSets

Components == {"Refund", "AccessTab", "ClaimTime"}

CONSTANTS
  Connections,   \* the wallet's <<chain, account>>s
  MaxRowMoves    \* bound: transactions asked for, and changes of chain or account,
                 \* by the component followed

ASSUME RowAssumption == MaxRowMoves \in [Components -> Nat]

(* PortfolioList's names of the pool's states.                             *)
PoolStates == [match |-> 0, running |-> 1, expired |-> 2, liquidation |-> 3, undone |-> 4]

unread == -1     \* useState(''): no answer yet

VARIABLES
  row,       \* props: its chain, the pool's state, whether its supply exceeds the
             \* settled amount; bound: the one component that is followed
  here,      \* the wallet's chain and account
  reconnects,  \* how often they changed
  position,  \* each account's position in the pool of this number on its chain
  ui,        \* the state of each component
  asked,     \* questions the chain has not seen: what was asked, and the chain and
             \* the balance of the render that asked
  answers,   \* answers on their way, with the question
  lost,      \* history: the components with a read that failed since they last asked
  claims,    \* transactions under way
  nextClaim, \* how many were asked for
  doubled    \* history: the components clicked while their transaction was under way

wire == <<asked, answers, lost>>
trade == <<position, claims, nextClaim, doubled>>
rowVars == <<row, here, reconnects, ui, wire, trade>>

-----------------------------------------------------------------------------
(* What a render keeps for its callbacks: ClaimTime's effect compares the  *)
(* balance of its own render (Spnum, Jpnum), not the one just read.        *)
closure(u, k) == IF k = "ClaimTime" THEN u[k].num ELSE unread

(* What the effect of a render asks: Refund and AccessTab for the position *)
(* (getuserLendInfo, getuserBorrowInfo), ClaimTime for the balance of the  *)
(* row's token, and after its answer for the position too.                 *)
question(u, k, w) ==
  [what |-> IF k = "ClaimTime" THEN "balance" ELSE "position",
   chain |-> w[1], num |-> closure(u, k)]

(* A component's state becomes u; React renders again if it is a change,   *)
(* and the effect without a dependency list asks again.                    *)
Becomes_AskedOnMount(k, u, more) ==
  /\ ui' = [ui EXCEPT ![k] = u]
  /\ asked' = [asked EXCEPT ![k] = @ \cup more]
  /\ UNCHANGED lost
Becomes(k, u, more) ==
  /\ ui' = [ui EXCEPT ![k] = u]
  /\ asked' = [asked EXCEPT ![k] =
                @ \cup more \cup IF u = ui[k] THEN {} ELSE {question(ui', k, here)}]
  /\ lost' = IF u = ui[k] THEN lost ELSE lost \ {k}

useRowStates(state) ==
  [k \in Components |->
     [loadings |-> FALSE, hasNoClaim |-> FALSE, num |-> unread,
      over |-> k = "ClaimTime" /\ state = PoolStates.liquidation]]

(* PortfolioList shows ClaimTime in the states expired and liquidation.    *)
Mounted(k) ==
  k = row.followed /\ (k = "ClaimTime" => row.state \notin {0, 1, 4})

fresh == [claimed |-> FALSE, refunded |-> FALSE, tokens |-> 0]
paidOut == [claimed |-> TRUE, refunded |-> TRUE, tokens |-> 1]

MoveLeft == nextClaim + reconnects < MaxRowMoves[row.followed]

(* Bound: the user's other positions are fresh or, if it is not ClaimTime  *)
(* that is followed, paid out, and the tokens claimed are still held.      *)
RowInit ==
  /\ here \in Connections /\ reconnects = 0
  /\ \E state \in 0 .. 4, excess \in BOOLEAN, k \in Components :
       row = [chain |-> here[1], state |-> state, excess |-> excess, followed |-> k]
  /\ \E claimed, refunded \in BOOLEAN, elsewhere \in {fresh, paidOut} :
       /\ position = [w \in Connections |-> IF w # here THEN elsewhere ELSE
                        [claimed |-> claimed, refunded |-> refunded,
                         tokens |-> IF claimed THEN 1 ELSE 0]]
       /\ row.state \in {0, 4} => ~claimed
       /\ row.state = 0 => ~refunded
       /\ row.state \in {0, 4} => row.excess
       /\ refunded => row.followed = "Refund"
       /\ row.followed = "ClaimTime" => elsewhere = fresh
       /\ claimed => row.followed # "Refund"
       /\ row.excess \/ row.followed = "Refund"
  /\ ui = useRowStates(row.state)
  /\ asked = [k \in Components |-> IF Mounted(k) THEN {question(ui, k, here)} ELSE {}]
  /\ answers = [k \in Components |-> {}]
  /\ lost = {} /\ claims = {} /\ nextClaim = 0 /\ doubled = {}

(* The wallet's chain or account changes, and every component renders.     *)
Reconnect(w) ==
  /\ MoveLeft /\ reconnects' = reconnects + 1
  /\ w # here /\ here' = w
  /\ asked' = [k \in Components |->
                asked[k] \cup IF Mounted(k) THEN {question(ui, k, w)} ELSE {}]
  /\ lost' = {}
  /\ UNCHANGED <<row, ui, answers, trade>>

-----------------------------------------------------------------------------
(* A read reaches the chain the wallet is on, as its account there.  The   *)
(* address is the pool's on the chain of the render that asked, or that of *)
(* the row's token: on another chain there is nothing at it.               *)
Answerable(q) == IF q.what = "balance" THEN here[1] = row.chain ELSE here[1] = q.chain

Reads(k) == CASE k = "Refund"    -> position[here].refunded
              [] k = "AccessTab" -> position[here].claimed
              [] k = "ClaimTime" -> position[here].tokens

Serve(k) ==
  /\ \E q \in asked[k] :
       /\ Answerable(q)
       /\ asked' = [asked EXCEPT ![k] = @ \ {q}]
       /\ answers' = [answers EXCEPT ![k] = @ \cup {<<q, Reads(k)>>}]
  /\ UNCHANGED <<row, here, reconnects, ui, lost, trade>>

(* A read fails there, or at the node; nothing handles it, and nothing is  *)
(* asked again before the next render.                                     *)
ReadFails(k) ==
  /\ \E q \in asked[k] :
       /\ asked' = [asked EXCEPT ![k] = @ \ {q}]
       /\ lost' = IF q.chain = here[1] THEN lost \cup {k} ELSE lost
  /\ UNCHANGED <<row, here, reconnects, ui, answers, trade>>

(* Refund's and AccessTab's effects: the flag, and the stake.              *)
RowEffect(k) ==
  /\ k # "ClaimTime"
  /\ \E a \in answers[k] :
       /\ Becomes(k, [ui[k] EXCEPT !.hasNoClaim = a[2], !.num = 0], {})
       /\ answers' = [answers EXCEPT ![k] = @ \ {a}]
  /\ UNCHANGED <<row, here, reconnects, trade>>

(* ClaimTime's effect: the balance is set first, and after a second answer *)
(* hasNoClaim, from the balance the render had.                            *)
setNum ==
  /\ \E a \in answers["ClaimTime"] :
       /\ a[1].what = "balance"
       /\ Becomes("ClaimTime", [ui["ClaimTime"] EXCEPT !.num = a[2]],
                  {[a[1] EXCEPT !.what = "position"]})
       /\ answers' = [answers EXCEPT !["ClaimTime"] = @ \ {a}]
  /\ UNCHANGED <<row, here, reconnects, trade>>

sethasNoClaim ==
  /\ \E a \in answers["ClaimTime"] :
       /\ a[1].what = "position"
       /\ Becomes("ClaimTime", [ui["ClaimTime"] EXCEPT !.hasNoClaim = a[1].num = 0], {})
       /\ answers' = [answers EXCEPT !["ClaimTime"] = @ \ {a}]
  /\ UNCHANGED <<row, here, reconnects, trade>>

(* interval(): of an expired pool the countdown reaches zero at its first  *)
(* tick.                                                                   *)
interval ==
  /\ Mounted("ClaimTime") /\ row.state = PoolStates.expired /\ ~ui["ClaimTime"].over
  /\ Becomes("ClaimTime", [ui["ClaimTime"] EXCEPT !.over = TRUE], {})
  /\ UNCHANGED <<row, here, reconnects, answers, trade>>

-----------------------------------------------------------------------------
(* The buttons.  refundLend and claimAmount are NaN, which is neither 0    *)
(* nor equal to 0, until the stake is read.                                *)
RefundEnabled ==
  /\ row.state # 0 /\ ~ui["Refund"].hasNoClaim
  /\ row.state = 4 \/ row.excess \/ ui["Refund"].num = unread
AccessEnabled == row.state \notin {0, 4} /\ ~ui["AccessTab"].hasNoClaim
ClaimTimeEnabled == ~ui["ClaimTime"].hasNoClaim /\ ui["ClaimTime"].over

Enabled(k) == CASE k = "Refund" -> RefundEnabled
                [] k = "AccessTab" -> AccessEnabled
                [] k = "ClaimTime" -> ClaimTimeEnabled

(* getRefund, accessClaim and getclaim: the contract's function, or none.  *)
getRefund == IF row.state = 4 THEN {"emergencyWithdrawal"} ELSE {"refund"}
accessClaim_NotLiquidated == IF row.state \in {1, 2} THEN {"claim"} ELSE {}
accessClaim == IF row.state \in {1, 2, 3} THEN {"claim"} ELSE {}
getclaim == {"withdraw"}
CallOf(k) == CASE k = "Refund" -> getRefund
               [] k = "AccessTab" -> accessClaim
               [] k = "ClaimTime" -> getclaim

(* A click: setloadings(true), then the call, to the chain and with the    *)
(* account of the moment.                                                  *)
Claim(k) ==
  /\ Mounted(k) /\ Enabled(k) /\ MoveLeft
  /\ Becomes(k, [ui[k] EXCEPT !.loadings = TRUE], {})
  /\ claims' = claims \cup
       {[id |-> nextClaim, from |-> k, fn |-> fn, on |-> here, amount |-> closure(ui, k)]
          : fn \in CallOf(k)}
  /\ nextClaim' = nextClaim + 1
  /\ doubled' = IF \E c \in claims : c.from = k THEN doubled \cup {k} ELSE doubled
  /\ UNCHANGED <<row, here, reconnects, position, answers>>

(* What the pool contract does; it reverts otherwise.  Of the pool of the  *)
(* row's number on another chain, only the user's position is known.       *)
Pays(c) ==
  LET p == position[c.on] IN
  CASE c.fn = "refund"              -> (c.on[1] = row.chain => row.excess) /\ ~p.refunded
    [] c.fn = "emergencyWithdrawal" -> ~p.refunded
    [] c.fn = "claim"               -> ~p.claimed
    [] c.fn = "withdraw"            -> c.amount = 1 /\ p.tokens = 1
Executed(c) ==
  /\ Pays(c)
  /\ position' = [position EXCEPT ![c.on] =
       CASE c.fn \in {"refund", "emergencyWithdrawal"} -> [@ EXCEPT !.refunded = TRUE]
         [] c.fn = "claim"    -> [@ EXCEPT !.claimed = TRUE, !.tokens = 1]
         [] c.fn = "withdraw" -> [@ EXCEPT !.tokens = 0]]

(* Both callbacks of a call notify and stop the spinner.                   *)
Settled(c) == Becomes(c.from, [ui[c.from] EXCEPT !.loadings = FALSE], {})

ClaimMined(c) ==
  /\ Executed(c)
  /\ Settled(c)
  /\ claims' = claims \ {c}
  /\ UNCHANGED <<row, here, reconnects, answers, nextClaim, doubled>>

ClaimFailed(c) ==
  /\ Settled(c)
  /\ claims' = claims \ {c}
  /\ UNCHANGED <<row, here, reconnects, position, answers, nextClaim, doubled>>

ClaimEnds == \E c \in claims : ClaimMined(c) \/ ClaimFailed(c)

RowNext ==
  \/ \E w \in Connections : Reconnect(w)
  \/ \E k \in Components : Serve(k) \/ ReadFails(k) \/ RowEffect(k) \/ Claim(k)
  \/ setNum \/ sethasNoClaim \/ interval
  \/ ClaimEnds

(* A question is answered or fails.                                        *)
ReadEnds(k) == Serve(k) \/ ReadFails(k)

-----------------------------------------------------------------------------
(* A spinner turns only while its own component's transaction is under     *)
(* way: AccessTab starts it before it finds out whether there is a call.   *)
RowSpinnerExplained ==
  \A k \in Components : ui[k].loadings => \E c \in claims : c.from = k

(* Once the chain has paid the wallet's account, the button that asks for  *)
(* it is locked for good, although answers read before the payment, or on  *)
(* another chain, may still come: a component that shows the wrong state   *)
(* asks again.  So is the claim of who has no tokens.  (Not when a read    *)
(* failed that was not asked again, nor after a click while the spinner    *)
(* turned: a callback that finds it stopped already renders nothing, and   *)
(* nothing is asked.)                                                      *)
Locked(k) == ui[k].hasNoClaim \/ k \in doubled \/ k \in lost
Paid(k) == CASE k = "Refund"    -> position[here].refunded
             [] k = "AccessTab" -> position[here].claimed
             [] k = "ClaimTime" -> here[1] = row.chain /\ position[here].tokens = 0
LocksAfterPayment ==
  <>[](Mounted(row.followed) /\ Paid(row.followed)) => <>[]Locked(row.followed)
=============================================================================
