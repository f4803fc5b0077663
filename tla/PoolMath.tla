------------------------------ MODULE PoolMath ------------------------------
(***************************************************************************)
(* The integer arithmetic of the lending pool (PoolLendBorrow.sol and      *)
(* PledgePool.sol).  Every quotient truncates, as Solidity's / does on     *)
(* uint256; 256-bit overflow is out of reach of token amounts and is not   *)
(* modelled.  Rates are in basis points of RATE_BASE, as in the source;    *)
(* time is in ticks, and SECONDS_PER_YEAR is the number of ticks of a year.*)
(***************************************************************************)
EXTENDS Integers

CONSTANT SECONDS_PER_YEAR

ASSUME YearAssumption == SECONDS_PER_YEAR \in Nat \ {0}

RATE_BASE         == 10000
MAX_INTEREST_RATE == 10000
MIN_PLEDGE_RATE   == 10000
MAX_PLEDGE_RATE   == 50000
MAX_FEE_RATE      == 1000

(* Operators named <definition>_<Change> are slips the runs must detect;   *)
(* no specification uses them.                                             *)

(* The part `amount' of `supply' holds in `total', rounded down: the one   *)
(* formula behind every refund, claim and redemption.                      *)
Share_RoundUp(total, amount, supply) ==
  (total * amount + supply - 1) \div supply

Share(total, amount, supply) == (total * amount) \div supply

(* The smallest number of units of b that makes up a.                      *)
CeilDiv(a, b) == (a + b - 1) \div b

-----------------------------------------------------------------------------
(* Settlement: how much of the lent money is matched and how much of the   *)
(* pledged collateral secures it.                                          *)

(* The loan, in settle tokens, that a pledge can secure at these prices.   *)
BorrowableValue_NoPledgeRate(pledged, pledgePrice, settlePrice, pledgeRate) ==
  (pledged * pledgePrice) \div settlePrice

BorrowableValue(pledged, pledgePrice, settlePrice, pledgeRate) ==
  (((pledged * pledgePrice) \div settlePrice) * RATE_BASE) \div pledgeRate

(* The collateral a loan needs at these prices.                            *)
PledgeNeeded_NoPledgeRate(lent, pledgePrice, settlePrice, pledgeRate) ==
  (lent * settlePrice) \div pledgePrice

PledgeNeeded(lent, pledgePrice, settlePrice, pledgeRate) ==
  (lent * pledgeRate * settlePrice) \div (RATE_BASE * pledgePrice)

SettleAmounts(lent, pledged, pledgePrice, settlePrice, pledgeRate) ==
  LET value == BorrowableValue(pledged, pledgePrice, settlePrice, pledgeRate)
  IN  IF lent > value
      THEN [lend |-> value, borrow |-> pledged]
      ELSE [lend   |-> lent,
            borrow |-> PledgeNeeded(lent, pledgePrice, settlePrice, pledgeRate)]

-----------------------------------------------------------------------------
(* Closing a pool.                                                         *)

(* Principal and simple interest over `duration'; the fraction of a year   *)
(* is truncated to a basis point before it is multiplied.                  *)
RepayAmount_InterestOnly(principal, interestRate, duration) ==
  (((duration * RATE_BASE) \div SECONDS_PER_YEAR) * interestRate * principal)
    \div (RATE_BASE * RATE_BASE)

RepayAmount(principal, interestRate, duration) ==
  LET timeRatio == (duration * RATE_BASE) \div SECONDS_PER_YEAR
  IN  principal
        + (timeRatio * interestRate * principal) \div (RATE_BASE * RATE_BASE)

(* The amount the pool asks the router for: the repayment and the fee.     *)
SaleTarget(due, lendFee) == (due * (RATE_BASE + lendFee)) \div RATE_BASE

(* The router, as _sellExactAmount uses it: the price of the exact output, *)
(* rounded up, then a swap of exactly that input.  A quote sells q.sell    *)
(* pledge tokens for q.buy settle tokens.                                  *)
SellExactAmount(out, q) ==
  IF out = 0 THEN [sold |-> 0, got |-> 0]
  ELSE LET s == CeilDiv(out * q.sell, q.buy)
       IN  [sold |-> s, got |-> (s * q.buy) \div q.sell]

(* _redeemFees: what goes to the fee address, and what it returns.         *)
RedeemFee(feeRatio, amount) == (amount * feeRatio) \div RATE_BASE
AfterFee_Free(feeRatio, amount) == amount
AfterFee(feeRatio, amount) == amount - RedeemFee(feeRatio, amount)

(* All the JP tokens of a settled pool.                                    *)
TotalJp(settledLend, pledgeRate) == (settledLend * pledgeRate) \div RATE_BASE

(* What claimBorrow mints for a pledge.                                    *)
JpShare(settledLend, pledgeRate, pledge, supply) ==
  (settledLend * pledgeRate * pledge) \div (RATE_BASE * supply)

=============================================================================
