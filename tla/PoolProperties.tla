--------------------------- MODULE PoolProperties ---------------------------
(***************************************************************************)
(* What PledgePool promises.  The Owed operators below say what the pools  *)
(* still have to pay out of the contract's one balance per token.          *)
(***************************************************************************)
EXTENDS PledgePool

Sum(Op(_)) == SumFunction([u \in Users |-> Op(u)])

Created == 1 .. poolCounter

(* The type of every variable, and now within its bound.                   *)
TypeOK ==
  /\ now \in Nat
  /\ poolCounter \in 0 .. MaxPools
  /\ pools \in [PoolIds -> Pool]
  /\ lendInfos \in [PoolIds -> [Users -> LendInfo]]
  /\ borrowInfos \in [PoolIds -> [Users -> BorrowInfo]]
  /\ lenders \in [PoolIds -> [Users -> Nat]]
  /\ borrowers \in [PoolIds -> [Users -> Nat]]
  /\ config \in Config
  /\ balance \in [Tokens -> Nat]
  /\ debt \in [DebtTokens -> [Users -> Nat]]
  /\ price \in PriceFeeds

-----------------------------------------------------------------------------
(* Each participant's share of a settled pool.                             *)

LendRefund(p, u) ==
  Share(pools[p].lendSupply - pools[p].settleAmountLend,
        lendInfos[p][u].amount, pools[p].lendSupply)
SpShare(p, u) ==
  Share(pools[p].settleAmountLend, lendInfos[p][u].amount, pools[p].lendSupply)
PledgeRefund(p, u) ==
  Share(pools[p].borrowSupply - pools[p].settleAmountBorrow,
        borrowInfos[p][u].pledgeAmount, pools[p].borrowSupply)
LoanShare(p, u) ==
  Share(pools[p].settleAmountLend, borrowInfos[p][u].pledgeAmount,
        pools[p].borrowSupply)
JpOf(p, u) ==
  JpShare(pools[p].settleAmountLend, pools[p].pledgeRate,
          borrowInfos[p][u].pledgeAmount, pools[p].borrowSupply)

(* SP and JP tokens that exist or may still be claimed.                    *)
SpOutstanding(p) ==
  Sum(LAMBDA u : debt[pools[p].spToken][u]
                   + IF lendInfos[p][u].claimed THEN 0 ELSE SpShare(p, u))
JpOutstanding(p) ==
  Sum(LAMBDA u : debt[pools[p].jpToken][u]
                   + IF borrowInfos[p][u].settled THEN 0 ELSE JpOf(p, u))

Closed(p) == pools[p].state \in {"FINISH", "LIQUIDATION"}

(* Settle tokens the pool still has to pay: deposits before settlement (or *)
(* after a failed one); afterwards the refunds and loans not taken and,    *)
(* once closed, what the outstanding SP tokens redeem.                     *)
SettleTokenOwed(p) ==
  CASE pools[p].state = "MATCH"  -> pools[p].lendSupply
    [] pools[p].state = "UNDONE" ->
         Sum(LAMBDA u : IF lendInfos[p][u].refunded THEN 0
                        ELSE lendInfos[p][u].amount)
    [] OTHER ->
         Sum(LAMBDA u : (IF lendInfos[p][u].refunded THEN 0 ELSE LendRefund(p, u))
                      + (IF borrowInfos[p][u].settled THEN 0 ELSE LoanShare(p, u)))
         + IF Closed(p) /\ pools[p].settleAmountLend > 0
           THEN Share(LendPot(pools[p]), SpOutstanding(p),
                      pools[p].settleAmountLend)
           ELSE 0

(* Pledge tokens the pool still has to pay.  A borrower who has not acted  *)
(* may take the refund instead of the JP tokens: the refund is reserved    *)
(* out of what settlement left unused, the JP part out of the rest.        *)
PledgeTokenOwed(p) ==
  CASE pools[p].state = "MATCH"  -> pools[p].borrowSupply
    [] pools[p].state = "UNDONE" ->
         Sum(LAMBDA u : IF borrowInfos[p][u].settled THEN 0
                        ELSE borrowInfos[p][u].pledgeAmount)
    [] OTHER ->
         Sum(LAMBDA u : IF borrowInfos[p][u].settled THEN 0 ELSE PledgeRefund(p, u))
         + IF ~Closed(p) THEN pools[p].settleAmountBorrow
           ELSE LET total == TotalJp(pools[p].settleAmountLend, pools[p].pledgeRate)
                IN  IF total = 0 THEN 0
                    ELSE Share(BorrowPot(pools[p]), JpOutstanding(p), total)

Owed(t) ==
  LET owed(p) == (IF pools[p].settleToken = t THEN SettleTokenOwed(p) ELSE 0)
               + (IF pools[p].pledgeToken = t THEN PledgeTokenOwed(p) ELSE 0)
  IN  SumFunction([p \in Created |-> owed(p)])

-----------------------------------------------------------------------------
(* Invariants.                                                             *)

(* No debt token serves twice.  The code does not check this: it is up to  *)
(* the caller of createPoolInfo, and Solvent and ClaimsBacked rest on it.  *)
DebtTokensDedicated ==
  /\ \A p \in Created : pools[p].spToken # pools[p].jpToken
  /\ \A p, q \in Created :
       p # q => {pools[p].spToken, pools[p].jpToken}
                  \cap {pools[q].spToken, pools[q].jpToken} = {}

(* The contract always holds enough of every token to pay what all the     *)
(* pools that share its balance still owe: no sequence of refunds, claims, *)
(* redemptions, sales and fees, in any order and by anyone, lets one party *)
(* take another's money, in spite of the truncated shares.                 *)
Solvent ==
  DebtTokensDedicated => \A t \in Tokens : Owed(t) <= balance[t]

(* Claims are never over-issued: the SP tokens that exist or may be        *)
(* claimed never exceed the matched loan, nor the JP tokens TotalJp, the   *)
(* denominators their redemptions divide by.                               *)
ClaimsBacked ==
  DebtTokensDedicated => \A p \in Created : pools[p].state \in Settled =>
    /\ SpOutstanding(p) <= pools[p].settleAmountLend
    /\ JpOutstanding(p) <= TotalJp(pools[p].settleAmountLend, pools[p].pledgeRate)

(* Whatever the administrator does to the pool's state, the supplies stay  *)
(* the sums of the users' positions, and the two address arrays hold each  *)
(* participant once, so the health factor counts each pledge once.         *)
PositionsAccounted ==
  \A p \in PoolIds :
    /\ pools[p].lendSupply = Sum(LAMBDA u : lendInfos[p][u].amount)
    /\ pools[p].borrowSupply = Sum(LAMBDA u : borrowInfos[p][u].pledgeAmount)
    /\ \A u \in Users :
         /\ lenders[p][u] = IF lendInfos[p][u].amount > 0 THEN 1 ELSE 0
         /\ borrowers[p][u] = IF borrowInfos[p][u].pledgeAmount > 0 THEN 1 ELSE 0

(* Settlement never matches more than was deposited on either side, so the *)
(* unsigned subtractions of the refunds cannot revert.                     *)
SettlementBounded ==
  \A p \in PoolIds :
    /\ pools[p].settleAmountLend <= pools[p].lendSupply
    /\ pools[p].settleAmountBorrow <= pools[p].borrowSupply

(* Both, whichever setters the administrator uses at whatever moment.      *)
BooksKept == PositionsAccounted /\ SettlementBounded

(* A lender who takes the refund, the SP tokens and their redemption from  *)
(* a closed pool gets back the deposit, up to one unit of rounding.        *)
LendersMadeWhole ==
  \A p \in Created, u \in Users :
    Closed(p) /\ pools[p].settleAmountLend > 0 =>
      LendRefund(p, u)
        + Share(LendPot(pools[p]), SpShare(p, u), pools[p].settleAmountLend)
      >= lendInfos[p][u].amount - 1

-----------------------------------------------------------------------------
(* Action properties.                                                      *)

(* Without setPoolState a pool runs once, MATCH to EXECUTION to FINISH or  *)
(* LIQUIDATION, or MATCH to UNDONE; what settlement fixed, and the         *)
(* supplies it divides by, never change again.                             *)
KeepsSettlement(p) ==
  /\ <<pools[p].state, pools'[p].state>> \in
       {<<"MATCH", "EXECUTION">>, <<"MATCH", "UNDONE">>,
        <<"EXECUTION", "FINISH">>, <<"EXECUTION", "LIQUIDATION">>}
       \cup {<<s, s>> : s \in PoolState}
  /\ pools[p].state # "MATCH" =>
       \A f \in {"lendSupply", "borrowSupply", "settleAmountLend",
                 "settleAmountBorrow"} : pools'[p][f] = pools[p][f]

SettlementFinal == [][\A p \in Created : KeepsSettlement(p)]_vars

(* When a pool settles, the matched collateral is worth the matched loan   *)
(* times the pledge rate at the prices of that moment, up to the one unit  *)
(* of collateral the division drops.                                       *)
SettlesCollateralised(p) ==
  pools[p].state = "MATCH" /\ pools'[p].state = "EXECUTION" =>
    pools'[p].settleAmountLend * pools[p].pledgeRate * price[pools[p].settleToken]
      < (pools'[p].settleAmountBorrow + 1) * RATE_BASE * price[pools[p].pledgeToken]

SettlementCollateralised == [][\A p \in Created : SettlesCollateralised(p)]_vars

(* While the contract is paused nobody's position grows and no borrower    *)
(* acts; a token leaves only to lenders of a pool that is closed and lent  *)
(* it, or, as collateral, to repay a loan that is closed by that step.     *)
PauseFreezesBorrowers ==
  [][config.globalPaused =>
       /\ \A p \in Created, u \in Users :
            /\ lendInfos'[p][u].amount = lendInfos[p][u].amount
            /\ borrowInfos'[p][u].settled = borrowInfos[p][u].settled
            /\ borrowInfos'[p][u].pledgeAmount = borrowInfos[p][u].pledgeAmount
       /\ \A t \in Tokens :
            \/ balance'[t] >= balance[t]
            \/ \E p \in Created : pools[p].settleToken = t /\ WithdrawalOpen(pools[p])
            \/ \E p \in Created : /\ pools[p].pledgeToken = t
                                 /\ pools[p].state = "EXECUTION"
                                 /\ pools'[p].state \in {"FINISH", "LIQUIDATION"}]_vars

-----------------------------------------------------------------------------
(* Liveness.                                                               *)

(* When the collateral covers the debt at the router's price, and those    *)
(* concerned make the calls, nothing that is owed stays in the contract:   *)
(* no sequence of calls leaves a refund, a loan, an SP or a JP token that  *)
(* can no longer be paid.                                                  *)
EverythingPaidOut ==
  poolCounter = MaxPools /\ DebtTokensDedicated
    ~> (\A t \in Tokens : Owed(t) = 0)

-----------------------------------------------------------------------------
(* What the project's documents say, and the code does not do.             *)

(* "健康因子 = 质押价值 / 借款金额 ... 自动触发清算当健康因子低于清算阈值"       *)
(* (CHANGELOG.md:42-43): a pool is liquidated only when the value of its   *)
(* collateral over its loan is below the liquidation rate.                 *)
LiquidatedOnlyBelowThreshold ==
  [][\A p \in Created :
       pools[p].state = "EXECUTION" /\ pools'[p].state = "LIQUIDATION" =>
         pools[p].settleAmountBorrow * price[pools[p].pledgeToken] * RATE_BASE
           < pools[p].liquidationRate * pools[p].settleAmountLend
               * price[pools[p].settleToken]]_vars

(* require(!borrowInfo.settled, "PoolLendBorrow: already claimed")         *)
(* (PoolLendBorrow.sol:266): a borrower whose claim is refused with that   *)
(* message has received the share of the loan.                             *)
AlreadyClaimedHasLoan ==
  \A p \in Created, u \in Users :
    pools[p].state \in Settled /\ borrowInfos[p][u].settled =>
      borrowInfos[p][u].borrowAmount = LoanShare(p, u)

(* "到期自动完成 或 触发清算" (pledge-contract/README.md): a loan in         *)
(* execution is completed at maturity or liquidated.                       *)
EveryLoanCloses ==
  \A p \in PoolIds : pools[p].state = "EXECUTION" ~> Closed(p)
=============================================================================
