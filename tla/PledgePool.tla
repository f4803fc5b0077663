----------------------------- MODULE PledgePool -----------------------------
(***************************************************************************)
(* The lending pools of PledgePool.sol and the contracts it inherits,      *)
(* PoolLendBorrow.sol and PoolStorage.sol.                                 *)
(*                                                                         *)
(* Lenders deposit settle tokens and borrowers deposit pledge tokens while *)
(* a pool is in MATCH.  settle fixes how much of each side is matched:     *)
(* lenders take back the unmatched part (refundLend) and a claim on the    *)
(* rest (SP tokens, claimLend), borrowers take the loan and a claim on the *)
(* collateral (JP tokens, claimBorrow) or the excess collateral            *)
(* (refundBorrow).  finish, or liquidate when the collateral has lost      *)
(* value, sells collateral for the repayment; SP and JP holders then burn  *)
(* their tokens for their part.                                            *)
(*                                                                         *)
(* A transaction is atomic, so each external function is one action whose  *)
(* guard is the conjunction of its requires; a call that would revert is   *)
(* not enabled.  The functions behind validCall are called by an address   *)
(* the multi-signature wallet has approved (see MultiSigWallet.tla).       *)
(***************************************************************************)
EXTENDS PoolMath, FiniteSets, Functions

CONSTANTS
  Users,            \* accounts that lend, borrow and hold SP and JP tokens
  Tokens,           \* the ERC20 assets of the pools
  DebtTokens,       \* the DebtToken contracts that serve as SP and JP tokens
  NoToken,          \* address(0) where a debt token is expected
  MaxPools,         \* bound: pools created
  MaxTime,          \* bound: the last value of block.timestamp
  PoolTerms,        \* the arguments createPoolInfo may be called with
  BareTerms,        \* the arguments createPool may be called with directly
  LendAmounts,      \* bound: the amounts of a depositLend
  PledgeAmounts,    \* bound: the amounts of a depositBorrow
  MaxPledge,        \* bound: the borrowSupply of a pool
  MaxRedeem,        \* bound: the SP or JP amount of a withdrawal or transfer
  PriceFeeds,       \* the prices the oracle may report, [Tokens -> Nat]
  RouterQuotes,     \* the exchange rates of the DEX router, [sell, buy]
  InitialConfigs,   \* the configurations in force before the first pool
  AdminCalls,       \* bound: the setters called once pools may exist
  FeeRates,         \* bound: the arguments of setFee
  MinAmounts        \* bound: the arguments of setMinAmount

PoolState == {"MATCH", "EXECUTION", "FINISH", "LIQUIDATION", "UNDONE"}

(* The states in which settlement has matched the two sides.               *)
Settled == {"EXECUTION", "FINISH", "LIQUIDATION"}

PoolIds == 1 .. MaxPools

Config == [oracle: BOOLEAN, swapRouter: BOOLEAN, feeAddress: BOOLEAN,
           lendFee: 0 .. MAX_FEE_RATE, borrowFee: 0 .. MAX_FEE_RATE,
           minAmount: Nat, globalPaused: BOOLEAN]

Terms == [settleToken: Tokens, pledgeToken: Tokens, maxSupply: Nat,
          interestRate: Nat, pledgeRate: Nat, liquidationRate: Nat,
          settleTime: Nat, endTime: Nat,
          spToken: DebtTokens \cup {NoToken}, jpToken: DebtTokens \cup {NoToken}]

ASSUME BoundsAssumption ==
  /\ MaxPools \in Nat /\ MaxTime \in Nat /\ MaxPledge \in Nat
  /\ MaxRedeem \in Nat
  /\ LendAmounts \subseteq Nat /\ PledgeAmounts \subseteq Nat
  /\ FeeRates \subseteq Nat /\ MinAmounts \subseteq Nat

(* There are 2^160 addresses; the sums over users need a finite set.       *)
ASSUME UsersAssumption == IsFiniteSet(Users)

ASSUME InputsAssumption ==
  /\ NoToken \notin DebtTokens
  /\ PoolTerms \subseteq Terms /\ BareTerms \subseteq Terms
  /\ PriceFeeds \subseteq [Tokens -> Nat]
  /\ RouterQuotes \subseteq [sell: Nat \ {0}, buy: Nat \ {0}]
  /\ InitialConfigs \subseteq Config

VARIABLES
  now,          \* block.timestamp
  poolCounter,
  pools,        \* pool id -> Pool
  lendInfos,    \* pool id -> user -> LendInfo
  borrowInfos,  \* pool id -> user -> BorrowInfo
  lenders,      \* pool id -> user -> entries of the user in the array
  borrowers,    \* pool id -> user -> entries of the user in the array
  config,       \* the contract's addresses (set or not), fees and pause flag
  balance,      \* token -> what the pool contract holds of it
  debt,         \* debt token -> user -> balance
  price         \* token -> what oracle.getPrice answers

vars == <<now, poolCounter, pools, lendInfos, borrowInfos, lenders, borrowers,
          config, balance, debt, price>>

positions == <<lendInfos, borrowInfos, lenders, borrowers>>

Pool == [state: PoolState,
         settleToken: Tokens \cup {NoToken}, pledgeToken: Tokens \cup {NoToken},
         spToken: DebtTokens \cup {NoToken}, jpToken: DebtTokens \cup {NoToken},
         maxSupply: Nat, lendSupply: Nat, borrowSupply: Nat,
         interestRate: Nat, pledgeRate: Nat, liquidationRate: Nat,
         settleTime: Nat, endTime: Nat,
         settleAmountLend: Nat, settleAmountBorrow: Nat,
         finishAmountLend: Nat, finishAmountBorrow: Nat,
         liquidationAmountLend: Nat, liquidationAmountBorrow: Nat]

LendInfo   == [amount: Nat, lendAmount: Nat, claimed: BOOLEAN, refunded: BOOLEAN]
BorrowInfo == [pledgeAmount: Nat, borrowAmount: Nat,
               settled: BOOLEAN, liquidated: BOOLEAN]

(* The zero value of the mappings, before createPool writes an entry.      *)
NoPool == [state |-> "MATCH", settleToken |-> NoToken, pledgeToken |-> NoToken,
           spToken |-> NoToken, jpToken |-> NoToken,
           maxSupply |-> 0, lendSupply |-> 0, borrowSupply |-> 0,
           interestRate |-> 0, pledgeRate |-> 0, liquidationRate |-> 0,
           settleTime |-> 0, endTime |-> 0,
           settleAmountLend |-> 0, settleAmountBorrow |-> 0,
           finishAmountLend |-> 0, finishAmountBorrow |-> 0,
           liquidationAmountLend |-> 0, liquidationAmountBorrow |-> 0]
NoLend   == [amount |-> 0, lendAmount |-> 0, claimed |-> FALSE, refunded |-> FALSE]
NoBorrow == [pledgeAmount |-> 0, borrowAmount |-> 0,
             settled |-> FALSE, liquidated |-> FALSE]

Init ==
  /\ now = 1
  /\ poolCounter = 0
  /\ pools       = [p \in PoolIds |-> NoPool]
  /\ lendInfos   = [p \in PoolIds |-> [u \in Users |-> NoLend]]
  /\ borrowInfos = [p \in PoolIds |-> [u \in Users |-> NoBorrow]]
  /\ lenders     = [p \in PoolIds |-> [u \in Users |-> 0]]
  /\ borrowers   = [p \in PoolIds |-> [u \in Users |-> 0]]
  /\ config \in InitialConfigs
  /\ balance     = [t \in Tokens |-> 0]
  /\ debt        = [d \in DebtTokens |-> [u \in Users |-> 0]]
  /\ price \in PriceFeeds

-----------------------------------------------------------------------------
(* Modifiers and token transfers (PoolStorage.sol).                        *)

poolExists(p) == p <= poolCounter
notPaused_Ignored == TRUE
notPaused == ~config.globalPaused
validState_Any(p, expected) == TRUE
validState(p, expected) == pools[p].state = expected

(* _receiveToken and _transferToken for an ERC20: the token reverts a      *)
(* transfer the contract cannot cover.                                     *)
Receive(t, amount)  == balance' = [balance EXCEPT ![t] = @ + amount]
Transfer(t, amount) == /\ amount <= balance[t]
                       /\ balance' = [balance EXCEPT ![t] = @ - amount]

(* DebtToken.mint and DebtToken.burn; the pool is a minter of its tokens.  *)
Mint(d, u, amount) == debt' = [debt EXCEPT ![d][u] = @ + amount]
Burn_Unchecked(d, u, amount) == debt' = [debt EXCEPT ![d][u] = @ - amount]
Burn(d, u, amount) == /\ amount <= debt[d][u]
                      /\ debt' = [debt EXCEPT ![d][u] = @ - amount]

(* A user without a position yet is pushed on the pool's address array.    *)
Enlist_Always(list, p, u, held) == [list EXCEPT ![p][u] = @ + 1]
Enlist_Never(list, p, u, held)  == list
Enlist(list, p, u, held) ==
  IF held = 0 THEN [list EXCEPT ![p][u] = @ + 1] ELSE list

-----------------------------------------------------------------------------
(* Creating pools.                                                         *)

ValidTerms(t) ==
  /\ t.maxSupply > 0
  /\ t.interestRate > 0 /\ t.interestRate <= MAX_INTEREST_RATE
  /\ t.pledgeRate >= MIN_PLEDGE_RATE /\ t.pledgeRate <= MAX_PLEDGE_RATE
  /\ t.liquidationRate > RATE_BASE /\ t.liquidationRate < t.pledgeRate
  /\ t.endTime > now

NewPool(t, settleTime, sp, jp) ==
  [NoPool EXCEPT !.settleToken = t.settleToken, !.pledgeToken = t.pledgeToken,
                 !.maxSupply = t.maxSupply, !.interestRate = t.interestRate,
                 !.pledgeRate = t.pledgeRate,
                 !.liquidationRate = t.liquidationRate,
                 !.endTime = t.endTime, !.settleTime = settleTime,
                 !.spToken = sp, !.jpToken = jp]

AddPool(pool) ==
  /\ poolCounter < MaxPools
  /\ poolCounter' = poolCounter + 1
  /\ pools' = [pools EXCEPT ![poolCounter + 1] = pool]
  /\ UNCHANGED <<now, positions, config, balance, debt, price>>

(* createPool is public: called directly it leaves the settle time 0 and   *)
(* the two debt tokens unset.                                              *)
CreatePool(t) ==
  /\ ValidTerms(t)
  /\ AddPool(NewPool(t, 0, NoToken, NoToken))

CreatePoolInfo(t) ==
  /\ t.endTime > t.settleTime
  /\ t.jpToken # NoToken /\ t.spToken # NoToken
  /\ ValidTerms(t)
  /\ AddPool(NewPool(t, t.settleTime, t.spToken, t.jpToken))

-----------------------------------------------------------------------------
(* The lender's side.                                                      *)

DepositLend(p, u, amount) ==
  LET pool == pools[p] IN
  /\ notPaused /\ poolExists(p)
  /\ validState(p, "MATCH")
  /\ amount > 0
  /\ now < pool.endTime
  /\ amount >= config.minAmount
  /\ pool.lendSupply + amount <= pool.maxSupply
  /\ Receive(pool.settleToken, amount)
  /\ lenders' = Enlist(lenders, p, u, lendInfos[p][u].amount)
  /\ lendInfos' = [lendInfos EXCEPT ![p][u].amount = @ + amount,
                                    ![p][u].claimed = FALSE,
                                    ![p][u].refunded = FALSE]
  /\ pools' = [pools EXCEPT ![p].lendSupply = @ + amount]
  /\ UNCHANGED <<now, poolCounter, borrowInfos, borrowers, config, debt, price>>

MarkRefunded_Never(p, u) == UNCHANGED lendInfos
MarkRefunded(p, u) == lendInfos' = [lendInfos EXCEPT ![p][u].refunded = TRUE]

RefundLend(p, u) ==
  LET pool == pools[p]
      info == lendInfos[p][u]
      refund == Share(pool.lendSupply - pool.settleAmountLend, info.amount,
                      pool.lendSupply) IN
  /\ notPaused /\ poolExists(p)
  /\ pool.state \in Settled
  /\ now >= pool.settleTime
  /\ info.amount > 0
  /\ ~info.refunded
  /\ pool.lendSupply > pool.settleAmountLend
  /\ refund > 0
  /\ MarkRefunded(p, u)
  /\ Transfer(pool.settleToken, refund)
  /\ UNCHANGED <<now, poolCounter, pools, borrowInfos, lenders, borrowers,
                 config, debt, price>>

(* Not pausable, unlike the other user operations except withdrawLend.     *)
ClaimLend(p, u) ==
  LET pool == pools[p]
      info == lendInfos[p][u]
      sp   == Share(pool.settleAmountLend, info.amount, pool.lendSupply) IN
  /\ poolExists(p)
  /\ pool.state \in Settled
  /\ info.amount > 0
  /\ ~info.claimed
  /\ pool.spToken # NoToken
  /\ pool.lendSupply > 0
  /\ Mint(pool.spToken, u, sp)
  /\ lendInfos' = [lendInfos EXCEPT ![p][u].claimed = TRUE,
                                    ![p][u].lendAmount = sp]
  /\ UNCHANGED <<now, poolCounter, pools, borrowInfos, lenders, borrowers,
                 config, balance, price>>

(* Withdrawals open strictly after the end of the pool, or strictly after  *)
(* the settle time of a liquidated one.                                    *)
WithdrawalOpen_FinishOnly(pool) == pool.state = "FINISH" /\ now > pool.endTime
WithdrawalOpen(pool) ==
  \/ pool.state = "FINISH" /\ now > pool.endTime
  \/ pool.state = "LIQUIDATION" /\ now > pool.settleTime

LendPot(pool) == IF pool.state = "FINISH" THEN pool.finishAmountLend
                                          ELSE pool.liquidationAmountLend
BorrowPot(pool) == IF pool.state = "FINISH" THEN pool.finishAmountBorrow
                                            ELSE pool.liquidationAmountBorrow

WithdrawLend(p, u, sp) ==
  LET pool   == pools[p]
      redeem == Share(LendPot(pool), sp, pool.settleAmountLend) IN
  /\ poolExists(p)
  /\ sp > 0
  /\ pool.spToken # NoToken
  /\ Burn(pool.spToken, u, sp)
  /\ WithdrawalOpen(pool)
  /\ pool.settleAmountLend > 0     \* division by zero reverts
  /\ redeem > 0
  /\ Transfer(pool.settleToken, redeem)
  /\ UNCHANGED <<now, poolCounter, pools, positions, config, price>>

EmergencyLendWithdrawal(p, u) ==
  LET info == lendInfos[p][u] IN
  /\ notPaused /\ poolExists(p)
  /\ pools[p].state = "UNDONE"
  /\ pools[p].lendSupply > 0
  /\ info.amount > 0
  /\ ~info.refunded
  /\ MarkRefunded(p, u)
  /\ Transfer(pools[p].settleToken, info.amount)
  /\ UNCHANGED <<now, poolCounter, pools, borrowInfos, lenders, borrowers,
                 config, debt, price>>

-----------------------------------------------------------------------------
(* The borrower's side.                                                    *)

DepositBorrow(p, u, amount) ==
  LET pool == pools[p] IN
  /\ notPaused /\ poolExists(p)
  /\ validState(p, "MATCH")
  /\ now < pool.endTime
  /\ amount > 0
  /\ pool.borrowSupply + amount <= MaxPledge
  /\ Receive(pool.pledgeToken, amount)
  /\ borrowers' = Enlist(borrowers, p, u, borrowInfos[p][u].pledgeAmount)
  /\ borrowInfos' = [borrowInfos EXCEPT ![p][u].pledgeAmount = @ + amount,
                                        ![p][u].settled = FALSE,
                                        ![p][u].liquidated = FALSE]
  /\ pools' = [pools EXCEPT ![p].borrowSupply = @ + amount]
  /\ UNCHANGED <<now, poolCounter, lendInfos, lenders, config, debt, price>>

RefundBorrow(p, u) ==
  LET pool == pools[p]
      info == borrowInfos[p][u]
      refund == Share(pool.borrowSupply - pool.settleAmountBorrow,
                      info.pledgeAmount, pool.borrowSupply) IN
  /\ notPaused /\ poolExists(p)
  /\ info.pledgeAmount > 0
  /\ ~info.settled
  /\ pool.state \in Settled
  /\ pool.borrowSupply > pool.settleAmountBorrow
  /\ now >= pool.settleTime
  /\ refund > 0
  /\ Transfer(pool.pledgeToken, refund)
  /\ borrowInfos' = [borrowInfos EXCEPT ![p][u].settled = TRUE]
  /\ UNCHANGED <<now, poolCounter, pools, lendInfos, lenders, borrowers,
                 config, debt, price>>

ClaimBorrow(p, u) ==
  LET pool == pools[p]
      info == borrowInfos[p][u]
      jp   == JpShare(pool.settleAmountLend, pool.pledgeRate,
                      info.pledgeAmount, pool.borrowSupply)
      loan == Share(pool.settleAmountLend, info.pledgeAmount,
                    pool.borrowSupply) IN
  /\ notPaused /\ poolExists(p)
  /\ info.pledgeAmount > 0
  /\ ~info.settled
  /\ pool.state \in Settled
  /\ now >= pool.settleTime
  /\ pool.borrowSupply > 0         \* division by zero reverts
  /\ IF pool.jpToken # NoToken THEN Mint(pool.jpToken, u, jp)
                               ELSE UNCHANGED debt
  /\ Transfer(pool.settleToken, loan)
  /\ borrowInfos' = [borrowInfos EXCEPT ![p][u].borrowAmount = loan,
                                        ![p][u].settled = TRUE]
  /\ UNCHANGED <<now, poolCounter, pools, lendInfos, lenders, borrowers,
                 config, price>>

WithdrawBorrow(p, u, jp) ==
  LET pool  == pools[p]
      total == TotalJp(pool.settleAmountLend, pool.pledgeRate) IN
  /\ notPaused /\ poolExists(p)
  /\ jp > 0
  /\ IF pool.jpToken # NoToken THEN Burn(pool.jpToken, u, jp)
                               ELSE UNCHANGED debt
  /\ WithdrawalOpen(pool)
  /\ total > 0                     \* division by zero reverts
  /\ Transfer(pool.pledgeToken, Share(BorrowPot(pool), jp, total))
  /\ UNCHANGED <<now, poolCounter, pools, positions, config, price>>

EmergencyBorrowWithdrawal(p, u) ==
  LET info == borrowInfos[p][u] IN
  /\ notPaused /\ poolExists(p)
  /\ pools[p].state = "UNDONE"
  /\ pools[p].borrowSupply > 0
  /\ info.pledgeAmount > 0
  /\ ~info.settled
  /\ borrowInfos' = [borrowInfos EXCEPT ![p][u].settled = TRUE]
  /\ Transfer(pools[p].pledgeToken, info.pledgeAmount)
  /\ UNCHANGED <<now, poolCounter, pools, lendInfos, lenders, borrowers,
                 config, debt, price>>

(* SP and JP tokens are ERC20: their holders may pass them on.             *)
TransferDebt(d, u, v, amount) ==
  /\ u # v
  /\ amount <= debt[d][u]
  /\ debt' = [debt EXCEPT ![d][u] = @ - amount, ![d][v] = @ + amount]
  /\ UNCHANGED <<now, poolCounter, pools, positions, config, balance, price>>

-----------------------------------------------------------------------------
(* Settlement.                                                             *)

SettleMatched(p) ==
  LET pool   == pools[p]
      pledgePrice == price[pool.pledgeToken]
      settlePrice == price[pool.settleToken]
      amounts == SettleAmounts(pool.lendSupply, pool.borrowSupply,
                               pledgePrice, settlePrice, pool.pledgeRate) IN
  /\ poolExists(p)
  /\ now >= pool.settleTime
  /\ pool.state = "MATCH"
  /\ pool.lendSupply > 0 /\ pool.borrowSupply > 0
  /\ config.oracle
  /\ pledgePrice > 0 /\ settlePrice > 0
  /\ pools' = [pools EXCEPT ![p].settleAmountLend = amounts.lend,
                            ![p].settleAmountBorrow = amounts.borrow,
                            ![p].state = "EXECUTION"]
  /\ UNCHANGED <<now, poolCounter, positions, config, balance, debt, price>>

SettleUndone(p) ==
  LET pool == pools[p] IN
  /\ poolExists(p)
  /\ now >= pool.settleTime
  /\ pool.state = "MATCH"
  /\ pool.lendSupply = 0 \/ pool.borrowSupply = 0
  /\ pools' = [pools EXCEPT ![p].settleAmountLend = pool.lendSupply,
                            ![p].settleAmountBorrow = pool.borrowSupply,
                            ![p].state = "UNDONE"]
  /\ UNCHANGED <<now, poolCounter, positions, config, balance, debt, price>>

-----------------------------------------------------------------------------
(* Finish and liquidation.                                                 *)

(* _processSwapAndFees and _redeemFees: collateral is sold for the amount  *)
(* due and the lend fee; what the swap yields above the amount due goes to *)
(* the fee address (or stays in the contract when there is none) and is    *)
(* never the lenders'; the borrow fee is taken from the collateral left.   *)
Sale(pool, duration, q) ==
  LET due  == RepayAmount(pool.settleAmountLend, pool.interestRate, duration)
      deal == SellExactAmount(SaleTarget(due, config.lendFee), q)
      left == pool.settleAmountBorrow - deal.sold
  IN  [due |-> due, sold |-> deal.sold, got |-> deal.got,
       excess |-> deal.got - due, fee |-> RedeemFee(config.borrowFee, left),
       left |-> AfterFee(config.borrowFee, left)]

SaleAllowed(pool, s) ==
  /\ s.sold > 0 => config.swapRouter
  /\ s.got >= s.due
  /\ s.sold <= pool.settleAmountBorrow      \* else the subtraction reverts
  /\ LET feesPaid == IF config.feeAddress THEN s.fee ELSE 0
     IN  s.sold + feesPaid <= balance[pool.pledgeToken]

SettleBalances(pool, s) ==
  LET paid(x) == IF config.feeAddress THEN x ELSE 0
      sold    == [balance EXCEPT ![pool.pledgeToken] = @ - s.sold - paid(s.fee)]
  IN  balance' = [sold EXCEPT ![pool.settleToken] = @ + s.got - paid(s.excess)]

Finish(p, q) ==
  LET pool == pools[p]
      s    == Sale(pool, pool.endTime - pool.settleTime, q) IN
  /\ poolExists(p)
  /\ now >= pool.endTime
  /\ pool.state = "EXECUTION"
  /\ SaleAllowed(pool, s)
  /\ SettleBalances(pool, s)
  /\ pools' = [pools EXCEPT ![p].finishAmountLend = s.got - s.excess,
                            ![p].finishAmountBorrow = s.left,
                            ![p].state = "FINISH"]
  /\ UNCHANGED <<now, poolCounter, positions, config, debt, price>>

(* _calculateTotals: one term per entry of the borrowers array.            *)
CountsInHealth(info) == info.settled /\ ~info.liquidated

TotalPledgeValue(p) ==
  SumFunction([u \in Users |->
    IF CountsInHealth(borrowInfos[p][u])
    THEN borrowers[p][u] * ((borrowInfos[p][u].pledgeAmount
           * price[pools[p].pledgeToken]) \div price[pools[p].settleToken])
    ELSE 0])

TotalBorrowAmount(p) ==
  SumFunction([u \in Users |->
    IF CountsInHealth(borrowInfos[p][u])
    THEN borrowers[p][u] * borrowInfos[p][u].borrowAmount ELSE 0])

(* RATE_BASE for a pool without loans, which is below every liquidation    *)
(* rate createPool accepts.                                                *)
HealthFactor(p) ==
  IF pools[p].state # "EXECUTION" \/ TotalBorrowAmount(p) = 0 THEN RATE_BASE
  ELSE (TotalPledgeValue(p) * RATE_BASE) \div TotalBorrowAmount(p)

(* Anyone may call liquidate, paused or not.                               *)
Liquidate(p, q) ==
  LET pool == pools[p]
      s    == Sale(pool, now - pool.settleTime, q) IN
  /\ poolExists(p)
  /\ pool.state = "EXECUTION"
  /\ now >= pool.settleTime
  /\ config.oracle
  /\ price[pool.pledgeToken] > 0 /\ price[pool.settleToken] > 0
  /\ HealthFactor(p) < pool.liquidationRate
  /\ SaleAllowed(pool, s)
  /\ SettleBalances(pool, s)
  /\ pools' = [pools EXCEPT ![p].liquidationAmountLend = s.got - s.excess,
                            ![p].liquidationAmountBorrow = s.left,
                            ![p].state = "LIQUIDATION"]
  /\ borrowInfos' = [borrowInfos EXCEPT ![p] =
       [u \in Users |-> IF borrowers[p][u] > 0 /\ CountsInHealth(@[u])
                        THEN [@[u] EXCEPT !.liquidated = TRUE] ELSE @[u]]]
  /\ UNCHANGED <<now, poolCounter, lendInfos, lenders, borrowers, config,
                 debt, price>>

-----------------------------------------------------------------------------
(* The setters behind validCall.                                           *)

SetPoolState(p, s) ==
  /\ "setPoolState" \in AdminCalls
  /\ poolExists(p)
  /\ pools' = [pools EXCEPT ![p].state = s]
  /\ UNCHANGED <<now, poolCounter, positions, config, balance, debt, price>>

SetPoolSpToken(p, d) ==
  /\ "setPoolSpToken" \in AdminCalls
  /\ poolExists(p)
  /\ pools' = [pools EXCEPT ![p].spToken = d]
  /\ UNCHANGED <<now, poolCounter, positions, config, balance, debt, price>>

SetPoolJpToken(p, d) ==
  /\ "setPoolJpToken" \in AdminCalls
  /\ poolExists(p)
  /\ pools' = [pools EXCEPT ![p].jpToken = d]
  /\ UNCHANGED <<now, poolCounter, positions, config, balance, debt, price>>

Configure(call, new) ==
  /\ call \in AdminCalls
  /\ config' = new
  /\ UNCHANGED <<now, poolCounter, pools, positions, balance, debt, price>>

SetOracle            == Configure("setOracle", [config EXCEPT !.oracle = TRUE])
SetSwapRouterAddress == Configure("setSwapRouterAddress",
                                  [config EXCEPT !.swapRouter = TRUE])
SetFeeAddress        == Configure("setFeeAddress",
                                  [config EXCEPT !.feeAddress = TRUE])
SetPause             == Configure("setPause", [config EXCEPT !.globalPaused = ~@])
SetMinAmount(amount) == Configure("setMinAmount",
                                  [config EXCEPT !.minAmount = amount])
SetFee(lendFee, borrowFee) ==
  /\ lendFee <= MAX_FEE_RATE /\ borrowFee <= MAX_FEE_RATE
  /\ Configure("setFee", [config EXCEPT !.lendFee = lendFee,
                                        !.borrowFee = borrowFee])

-----------------------------------------------------------------------------
(* The environment: blocks advance and prices move.                        *)

Tick ==
  /\ now < MaxTime
  /\ now' = now + 1
  /\ UNCHANGED <<poolCounter, pools, positions, config, balance, debt, price>>

UpdatePrices ==
  /\ price' \in PriceFeeds
  /\ UNCHANGED <<now, poolCounter, pools, positions, config, balance, debt>>

Lend(p, u) ==
  \/ \E amount \in LendAmounts : DepositLend(p, u, amount)
  \/ RefundLend(p, u)
  \/ ClaimLend(p, u)
  \/ \E sp \in 1 .. MaxRedeem : WithdrawLend(p, u, sp)
  \/ EmergencyLendWithdrawal(p, u)

Borrow(p, u) ==
  \/ \E amount \in PledgeAmounts : DepositBorrow(p, u, amount)
  \/ RefundBorrow(p, u)
  \/ ClaimBorrow(p, u)
  \/ \E jp \in 1 .. MaxRedeem : WithdrawBorrow(p, u, jp)
  \/ EmergencyBorrowWithdrawal(p, u)

Administer ==
  \/ \E t \in BareTerms : CreatePool(t)
  \/ \E t \in PoolTerms : CreatePoolInfo(t)
  \/ \E p \in PoolIds, s \in PoolState : SetPoolState(p, s)
  \/ \E p \in PoolIds, d \in DebtTokens : SetPoolSpToken(p, d)
  \/ \E p \in PoolIds, d \in DebtTokens : SetPoolJpToken(p, d)
  \/ SetOracle \/ SetSwapRouterAddress \/ SetFeeAddress \/ SetPause
  \/ \E amount \in MinAmounts : SetMinAmount(amount)
  \/ \E lendFee, borrowFee \in FeeRates : SetFee(lendFee, borrowFee)

Advance(p) ==
  \/ SettleMatched(p)
  \/ SettleUndone(p)
  \/ \E q \in RouterQuotes : Finish(p, q)
  \/ \E q \in RouterQuotes : Liquidate(p, q)

Next ==
  \/ \E p \in PoolIds, u \in Users : Lend(p, u) \/ Borrow(p, u)
  \/ \E d \in DebtTokens, u, v \in Users, amount \in 1 .. MaxRedeem :
       TransferDebt(d, u, v, amount)
  \/ Administer
  \/ \E p \in PoolIds : Advance(p)
  \/ Tick
  \/ UpdatePrices

Spec == Init /\ [][Next]_vars

(* Every call by which a user takes money or claims out of a pool.         *)
Collect(p) ==
  \E u \in Users :
    \/ RefundLend(p, u) \/ ClaimLend(p, u) \/ EmergencyLendWithdrawal(p, u)
    \/ RefundBorrow(p, u) \/ ClaimBorrow(p, u) \/ EmergencyBorrowWithdrawal(p, u)
    \/ \E a \in 1 .. MaxRedeem : WithdrawLend(p, u, a) \/ WithdrawBorrow(p, u, a)

(* Contracts run only when called.  Progress assumes that blocks are       *)
(* produced, that the administrator who sees checkoutSettle or             *)
(* checkoutFinish answer true makes the call, and that users collect what  *)
(* a call would give them.                                                 *)
FairSpec ==
  /\ Spec
  /\ WF_vars(Tick)
  /\ \A p \in PoolIds : WF_vars(Advance(p)) /\ WF_vars(Collect(p))
=============================================================================
