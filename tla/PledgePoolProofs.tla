-------------------------- MODULE PledgePoolProofs --------------------------
(***************************************************************************)
(* Theorems about PledgePool, for every set of users, tokens and pools,    *)
(* every terms, price feed and exchange rate.                              *)
(***************************************************************************)
EXTENDS PoolProperties, TLAPS

-----------------------------------------------------------------------------
(* The arithmetic of PoolMath: what its truncated quotients return and how *)
(* they are bounded, whatever the amounts, rates and prices.               *)

LEMMA ProductNat == ASSUME NEW a \in Nat, NEW b \in Nat PROVE a * b \in Nat
  OBVIOUS
LEMMA QuotientNat == ASSUME NEW a \in Nat, NEW b \in Nat \ {0} PROVE a \div b \in Nat
  OBVIOUS
LEMMA QuotientBound ==
  ASSUME NEW a \in Nat, NEW b \in Nat \ {0}, NEW c \in Nat, a <= c * b
  PROVE  a \div b <= c
  OBVIOUS

LEMMA ShareNat ==
  ASSUME NEW total \in Nat, NEW amount \in Nat, NEW supply \in Nat \ {0}
  PROVE  Share(total, amount, supply) \in Nat
  BY ProductNat, QuotientNat DEF Share

LEMMA JpShareNat ==
  ASSUME NEW lent \in Nat, NEW rate \in Nat, NEW pledge \in Nat, NEW supply \in Nat \ {0}
  PROVE  JpShare(lent, rate, pledge, supply) \in Nat
<1>1. lent * rate * pledge \in Nat
  BY ProductNat
<1>2. RATE_BASE * supply \in Nat \ {0}
  BY DEF RATE_BASE
<1>. QED
  BY <1>1, <1>2, QuotientNat DEF JpShare

LEMMA TotalJpNat ==
  ASSUME NEW lent \in Nat, NEW rate \in Nat
  PROVE  TotalJp(lent, rate) \in Nat
<1>1. lent * rate \in Nat
  BY ProductNat
<1>. QED
  BY <1>1, QuotientNat DEF TotalJp, RATE_BASE

LEMMA RedeemFeeBound ==
  ASSUME NEW ratio \in 0 .. MAX_FEE_RATE, NEW amount \in Nat
  PROVE  RedeemFee(ratio, amount) \in 0 .. amount
<1>1. amount * ratio \in Nat
  BY ProductNat DEF MAX_FEE_RATE
<1>2. amount * ratio <= amount * RATE_BASE
  BY DEF MAX_FEE_RATE, RATE_BASE
<1>. QED
  BY <1>1, <1>2, QuotientNat, QuotientBound DEF RedeemFee, RATE_BASE

LEMMA AfterFeeBound ==
  ASSUME NEW ratio \in 0 .. MAX_FEE_RATE, NEW amount \in Nat
  PROVE  AfterFee(ratio, amount) \in 0 .. amount
  BY RedeemFeeBound DEF AfterFee

LEMMA RepayAmountNat ==
  ASSUME NEW principal \in Nat, NEW rate \in Nat, NEW duration \in Nat
  PROVE  RepayAmount(principal, rate, duration) \in Nat
<1> DEFINE timeRatio == (duration * RATE_BASE) \div SECONDS_PER_YEAR
           base == RATE_BASE * RATE_BASE
<1>1. timeRatio \in Nat
  BY ProductNat, QuotientNat, YearAssumption DEF RATE_BASE
<1>2. timeRatio * rate * principal \in Nat
  <2> HIDE DEF timeRatio
  <2>. QED BY <1>1, ProductNat
<1>3. base \in Nat \ {0}
  BY DEF RATE_BASE
<1>4. (timeRatio * rate * principal) \div base \in Nat
  <2> HIDE DEF timeRatio, base
  <2>. QED BY <1>2, <1>3, QuotientNat
<1>. QED
  BY <1>4 DEF RepayAmount

LEMMA SaleTargetNat ==
  ASSUME NEW due \in Nat, NEW fee \in 0 .. MAX_FEE_RATE
  PROVE  SaleTarget(due, fee) \in Nat
<1>1. due * (RATE_BASE + fee) \in Nat
  BY ProductNat DEF RATE_BASE, MAX_FEE_RATE
<1>. QED
  BY <1>1, QuotientNat DEF SaleTarget, RATE_BASE

LEMMA SellExactAmountNat ==
  ASSUME NEW out \in Nat, NEW q \in [sell: Nat \ {0}, buy: Nat \ {0}]
  PROVE  /\ SellExactAmount(out, q).sold \in Nat
         /\ SellExactAmount(out, q).got \in Nat
<1> DEFINE s == CeilDiv(out * q.sell, q.buy)
<1>1. s \in Nat
  <2>1. out * q.sell + q.buy - 1 \in Nat
    BY ProductNat
  <2>. QED BY <2>1, QuotientNat DEF CeilDiv
<1>2. (s * q.buy) \div q.sell \in Nat
  <2> HIDE DEF s
  <2>. QED BY <1>1, ProductNat, QuotientNat
<1> HIDE DEF s
<1>3. CASE out = 0
  BY <1>3 DEF SellExactAmount
<1>4. CASE out # 0
  <2>1. SellExactAmount(out, q) = [sold |-> s, got |-> (s * q.buy) \div q.sell]
    BY <1>4 DEF SellExactAmount, s
  <2>. QED BY <2>1, <1>1, <1>2
<1>. QED BY <1>3, <1>4

-----------------------------------------------------------------------------
(* Settlement.                                                             *)

LEMMA ProductMonotonic ==
  ASSUME NEW a \in Nat, NEW b \in Nat, NEW c \in Nat, a <= b
  PROVE  a * c <= b * c
  OBVIOUS

LEMMA QuotientTimes ==
  ASSUME NEW a \in Nat, NEW b \in Nat \ {0}
  PROVE  /\ (a \div b) * b <= a
         /\ a < ((a \div b) + 1) * b
  OBVIOUS

(* The loan a pledge secures, priced back, is covered by the pledge.       *)
LEMMA BorrowableValueCovered ==
  ASSUME NEW pledged \in Nat, NEW pledgePrice \in Nat \ {0},
         NEW settlePrice \in Nat \ {0}, NEW pledgeRate \in Nat \ {0}
  PROVE  LET value == BorrowableValue(pledged, pledgePrice, settlePrice, pledgeRate)
         IN  /\ value \in Nat
             /\ value * pledgeRate * settlePrice
                  <= pledged * (RATE_BASE * pledgePrice)
<1> DEFINE worth == (pledged * pledgePrice) \div settlePrice
           value == (worth * RATE_BASE) \div pledgeRate
<1>1. /\ worth \in Nat
      /\ worth * settlePrice <= pledged * pledgePrice
  BY ProductNat, QuotientNat, QuotientTimes
<1>2. /\ value \in Nat
      /\ value * pledgeRate <= worth * RATE_BASE
  <2> HIDE DEF worth
  <2>1. worth * RATE_BASE \in Nat
    BY <1>1 DEF RATE_BASE
  <2>. QED BY <2>1, QuotientNat, QuotientTimes
<1>3. (value * pledgeRate) * settlePrice <= (worth * RATE_BASE) * settlePrice
  <2> HIDE DEF worth, value
  <2>. QED BY <1>1, <1>2, ProductNat, ProductMonotonic DEF RATE_BASE
<1>4. (worth * settlePrice) * RATE_BASE <= (pledged * pledgePrice) * RATE_BASE
  <2> HIDE DEF worth
  <2>. QED BY <1>1 DEF RATE_BASE
<1>5. value * pledgeRate * settlePrice <= pledged * (RATE_BASE * pledgePrice)
  <2> HIDE DEF worth, value
  <2>. QED BY <1>1, <1>2, <1>3, <1>4 DEF RATE_BASE
<1>. QED
  BY <1>2, <1>5 DEF BorrowableValue

(* Settlement matches at most what was lent and at most what was pledged,  *)
(* and the matched collateral covers the matched loan at the pledge rate   *)
(* up to the one unit its quotient drops.                                  *)
LEMMA SettleAmountsSound ==
  ASSUME NEW lent \in Nat, NEW pledged \in Nat, NEW pledgePrice \in Nat \ {0},
         NEW settlePrice \in Nat \ {0}, NEW pledgeRate \in Nat \ {0}
  PROVE  LET amounts == SettleAmounts(lent, pledged, pledgePrice, settlePrice,
                                      pledgeRate)
         IN  /\ amounts.lend \in 0 .. lent
             /\ amounts.borrow \in 0 .. pledged
             /\ amounts.lend * pledgeRate * settlePrice
                  < (amounts.borrow + 1) * RATE_BASE * pledgePrice
<1> DEFINE value  == BorrowableValue(pledged, pledgePrice, settlePrice, pledgeRate)
           needed == PledgeNeeded(lent, pledgePrice, settlePrice, pledgeRate)
           unit   == RATE_BASE * pledgePrice
           amounts == SettleAmounts(lent, pledged, pledgePrice, settlePrice,
                                    pledgeRate)
<1>1. /\ value \in Nat
      /\ value * pledgeRate * settlePrice <= pledged * unit
  BY BorrowableValueCovered
<1>2. unit \in Nat \ {0}
  BY DEF RATE_BASE
<1> HIDE DEF value, unit, needed
<1>3. CASE lent > value
  <2>1. amounts = [lend |-> value, borrow |-> pledged]
    BY <1>3 DEF SettleAmounts, value
  <2>2. value * pledgeRate * settlePrice < (pledged + 1) * unit
    <3>1. pledged * unit < (pledged + 1) * unit
      BY <1>2
    <3>2. value * pledgeRate * settlePrice \in Nat
      BY <1>1, ProductNat
    <3>. QED BY <1>1, <1>2, <3>1, <3>2, ProductNat
  <2>3. (pledged + 1) * unit = (pledged + 1) * RATE_BASE * pledgePrice
    BY DEF unit, RATE_BASE
  <2>. QED BY <2>1, <2>2, <2>3, <1>1, <1>3
<1>4. CASE ~(lent > value)
  <2>1. amounts = [lend |-> lent, borrow |-> needed]
    BY <1>4 DEF SettleAmounts, value, needed
  <2>2. lent <= value
    BY <1>1, <1>4
  <2>3. lent * pledgeRate * settlePrice <= pledged * unit
    <3>1. lent * pledgeRate <= value * pledgeRate
      BY <2>2, <1>1, ProductMonotonic
    <3>2. (lent * pledgeRate) * settlePrice <= (value * pledgeRate) * settlePrice
      BY <3>1, <1>1, ProductNat, ProductMonotonic
    <3>. QED BY <3>2, <1>1, <1>2, ProductNat
  <2>4. needed = (lent * pledgeRate * settlePrice) \div unit
    BY DEF needed, PledgeNeeded, unit
  <2>5. lent * pledgeRate * settlePrice \in Nat
    BY ProductNat
  <2>6. needed \in 0 .. pledged
    BY <2>3, <2>4, <2>5, <1>2, QuotientNat, QuotientBound
  <2>7. lent * pledgeRate * settlePrice < (needed + 1) * unit
    BY <2>4, <2>5, <1>2, QuotientTimes
  <2>8. (needed + 1) * unit = (needed + 1) * RATE_BASE * pledgePrice
    BY <2>6 DEF unit, RATE_BASE
  <2>. QED BY <2>1, <2>6, <2>7, <2>8
<1>. QED
  BY <1>3, <1>4

(* A repayment is at least the principal.                                  *)
LEMMA RepayAmountCoversPrincipal ==
  ASSUME NEW principal \in Nat, NEW rate \in Nat, NEW duration \in Nat
  PROVE  RepayAmount(principal, rate, duration) >= principal
<1> DEFINE interest == (((duration * RATE_BASE) \div SECONDS_PER_YEAR) * rate
                          * principal) \div (RATE_BASE * RATE_BASE)
<1>1. interest \in Nat
  <2>1. (duration * RATE_BASE) \div SECONDS_PER_YEAR \in Nat
    BY ProductNat, QuotientNat, YearAssumption DEF RATE_BASE
  <2>2. ((duration * RATE_BASE) \div SECONDS_PER_YEAR) * rate * principal \in Nat
    BY <2>1, ProductNat
  <2>3. RATE_BASE * RATE_BASE \in Nat \ {0}
    BY DEF RATE_BASE
  <2>. QED BY <2>2, <2>3, QuotientNat
<1>2. RepayAmount(principal, rate, duration) = principal + interest
  BY DEF RepayAmount
<1> HIDE DEF interest
<1>. QED BY <1>1, <1>2

(* A share of a pot that is not smaller than what the shares add up to is  *)
(* at least the tokens redeemed.                                           *)
LEMMA ShareOfLargerPot ==
  ASSUME NEW supply \in Nat \ {0}, NEW pot \in Nat, NEW tokens \in Nat,
         supply <= pot
  PROVE  Share(pot, tokens, supply) >= tokens
<1>1. supply * tokens <= pot * tokens
  BY ProductMonotonic
<1> DEFINE a == pot * tokens
           s == a \div supply
<1>2. a \in Nat
  BY ProductNat
<1> HIDE DEF a
<1>3. s \in Nat /\ a < (s + 1) * supply
  BY <1>2, QuotientNat, QuotientTimes
<1> HIDE DEF s
<1>4. tokens * supply < (s + 1) * supply
  BY <1>1, <1>3, <1>2, ProductNat DEF a
<1>5. tokens < s + 1
  <2>1. SUFFICES ASSUME s + 1 <= tokens PROVE FALSE
    BY <1>3
  <2>2. (s + 1) * supply <= tokens * supply
    BY <2>1, <1>3, ProductMonotonic
  <2>. QED BY <2>2, <1>4, <1>3, ProductNat
<1>. QED BY <1>5, <1>3 DEF Share, s, a

(* The matched and the unmatched share of a deposit lose one unit at most. *)
LEMMA SharesOfDeposit ==
  ASSUME NEW supply \in Nat \ {0}, NEW matched \in 0 .. supply, NEW amount \in Nat
  PROVE  Share(supply - matched, amount, supply) + Share(matched, amount, supply)
           >= amount - 1
<1> DEFINE a == (supply - matched) * amount
           b == matched * amount
           x == a \div supply
           y == b \div supply
<1>1. a \in Nat /\ b \in Nat /\ a + b = supply * amount
  <2>1. supply - matched \in Nat /\ matched \in Nat
    OBVIOUS
  <2>2. a + b = ((supply - matched) + matched) * amount
    BY <2>1
  <2>. QED BY <2>1, <2>2, ProductNat
<1> HIDE DEF a, b
<1>2. /\ x \in Nat /\ a < (x + 1) * supply
      /\ y \in Nat /\ b < (y + 1) * supply
  BY <1>1, QuotientNat, QuotientTimes
<1> HIDE DEF x, y
<1>3. amount * supply < (x + y + 2) * supply
  <2>1. (x + 1) * supply + (y + 1) * supply = (x + y + 2) * supply
    BY <1>2
  <2>. QED BY <2>1, <1>1, <1>2, ProductNat
<1>4. amount < x + y + 2
  <2>1. SUFFICES ASSUME x + y + 2 <= amount PROVE FALSE
    BY <1>2
  <2>2. (x + y + 2) * supply <= amount * supply
    BY <2>1, <1>2, ProductMonotonic
  <2>. QED BY <2>2, <1>3, <1>2, ProductNat
<1>. QED BY <1>4, <1>2 DEF Share, x, y, a, b

-----------------------------------------------------------------------------
(* What shares of one pot add up to.                                       *)

LEMMA QuotientAtLeast ==
  ASSUME NEW a \in Nat, NEW n \in Nat \ {0}, NEW c \in Nat, n * c <= a
  PROVE  c <= a \div n
<1> DEFINE s == a \div n
<1>1. s \in Nat /\ a < (s + 1) * n
  BY QuotientNat, QuotientTimes
<1> HIDE DEF s
<1>2. c * n < (s + 1) * n
  BY <1>1, ProductNat
<1>3. c < s + 1
  <2>1. SUFFICES ASSUME s + 1 <= c PROVE FALSE
    BY <1>1
  <2>2. (s + 1) * n <= c * n
    BY <2>1, <1>1, ProductMonotonic
  <2>. QED BY <2>2, <1>1, <1>2, ProductNat
<1>. QED BY <1>1, <1>3 DEF s

LEMMA ProductCancelled ==
  ASSUME NEW n \in Nat \ {0}, NEW a \in Nat, NEW b \in Nat, n * a <= n * b
  PROVE  a <= b
<1>. SUFFICES ASSUME b + 1 <= a PROVE FALSE
  OBVIOUS
<1>1. (b + 1) * n <= a * n
  BY ProductMonotonic
<1>2. (b + 1) * n = n * b + n /\ a * n = n * a
  OBVIOUS
<1>3. n * a \in Nat /\ n * b \in Nat
  BY ProductNat
<1>. QED BY <1>1, <1>2, <1>3

LEMMA ShareTimes ==
  ASSUME NEW pot \in Nat, NEW amount \in Nat, NEW supply \in Nat \ {0}
  PROVE  supply * Share(pot, amount, supply) <= pot * amount
<1> DEFINE a == pot * amount
<1>1. a \in Nat
  BY ProductNat
<1> HIDE DEF a
<1>2. (a \div supply) * supply <= a /\ a \div supply \in Nat
  BY <1>1, QuotientTimes, QuotientNat
<1>. QED BY <1>2 DEF Share, a

LEMMA JpShareTimes ==
  ASSUME NEW lent \in Nat, NEW rate \in Nat, NEW pledge \in Nat, NEW supply \in Nat \ {0}
  PROVE  (RATE_BASE * supply) * JpShare(lent, rate, pledge, supply)
           <= (lent * rate) * pledge
<1> DEFINE a == lent * rate * pledge
           n == RATE_BASE * supply
<1>1. a \in Nat /\ n \in Nat \ {0}
  BY ProductNat DEF RATE_BASE
<1>2. JpShare(lent, rate, pledge, supply) = a \div n
  BY DEF JpShare
<1> HIDE DEF a, n
<1>3. (a \div n) * n <= a /\ a \div n \in Nat
  BY <1>1, QuotientTimes, QuotientNat
<1>4. n * (a \div n) <= a
  BY <1>1, <1>3
<1>. QED BY <1>2, <1>4 DEF a, n

(* Two redemptions never pay more than one of both.                        *)
LEMMA ShareAdded ==
  ASSUME NEW pot \in Nat, NEW x \in Nat, NEW y \in Nat, NEW n \in Nat \ {0}
  PROVE  Share(pot, x, n) + Share(pot, y, n) <= Share(pot, x + y, n)
<1> DEFINE s == Share(pot, x, n)
           t == Share(pot, y, n)
           a == pot * x
           b == pot * y
<1>1. s \in Nat /\ t \in Nat /\ a \in Nat /\ b \in Nat
  BY ShareNat, ProductNat
<1>2. n * s <= a /\ n * t <= b
  BY ShareTimes
<1>3. pot * (x + y) = a + b
  OBVIOUS
<1> HIDE DEF s, t, a, b
<1>4. n * (s + t) = n * s + n * t /\ n * s \in Nat /\ n * t \in Nat
  BY <1>1, ProductNat
<1>5. n * (s + t) <= a + b
  BY <1>1, <1>2, <1>4
<1>6. s + t <= (a + b) \div n
  BY <1>1, <1>5, QuotientAtLeast
<1>. QED BY <1>3, <1>6 DEF Share, s, t

LEMMA ShareMonotonic ==
  ASSUME NEW pot \in Nat, NEW x \in Nat, NEW y \in Nat, NEW n \in Nat \ {0}, x <= y
  PROVE  Share(pot, x, n) <= Share(pot, y, n)
<1>1. y - x \in Nat /\ x + (y - x) = y
  OBVIOUS
<1>2. Share(pot, x, n) + Share(pot, y - x, n) <= Share(pot, y, n)
  BY <1>1, ShareAdded
<1>. QED BY <1>1, <1>2, ShareNat

(* A part of the tokens redeems at most the pot.                           *)
LEMMA ShareOfPart ==
  ASSUME NEW pot \in Nat, NEW n \in Nat \ {0}, NEW x \in 0 .. n
  PROVE  Share(pot, x, n) <= pot
<1>1. x * pot <= n * pot /\ x \in Nat
  BY ProductMonotonic
<1>2. pot * x \in Nat /\ pot * x <= pot * n
  BY <1>1, ProductNat
<1>. QED BY <1>2, QuotientBound DEF Share

-----------------------------------------------------------------------------
(* What the arithmetic needs of the pools that exist: createPool checked   *)
(* the pledge rate and the tokens, createPoolInfo the order of the times.  *)
TermsSane ==
  \A p \in Created :
    /\ pools[p].pledgeRate >= MIN_PLEDGE_RATE
    /\ pools[p].settleTime <= pools[p].endTime
    /\ pools[p].settleToken \in Tokens /\ pools[p].pledgeToken \in Tokens

TInv == TypeOK /\ TermsSane

-----------------------------------------------------------------------------
(* Updates of functions and records keep their types.                      *)

LEMMA Update1 ==
  ASSUME NEW S, NEW T, NEW f \in [S -> T], NEW s, NEW r \in T
  PROVE  [f EXCEPT ![s] = r] \in [S -> T]
  OBVIOUS

LEMMA Update2 ==
  ASSUME NEW S, NEW V, NEW T, NEW f \in [S -> [V -> T]],
         NEW s, NEW v, NEW r \in T
  PROVE  [f EXCEPT ![s][v] = r] \in [S -> [V -> T]]
  OBVIOUS

LEMMA ZeroTypes == NoPool \in Pool /\ NoLend \in LendInfo /\ NoBorrow \in BorrowInfo
  BY DEF Pool, LendInfo, BorrowInfo, NoPool, NoLend, NoBorrow, PoolState

LEMMA LendInfoUpdates ==
  ASSUME NEW info \in LendInfo, NEW x \in Nat
  PROVE  /\ [info EXCEPT !.amount = x, !.claimed = FALSE, !.refunded = FALSE]
              \in LendInfo
         /\ [info EXCEPT !.refunded = TRUE] \in LendInfo
         /\ [info EXCEPT !.claimed = TRUE, !.lendAmount = x] \in LendInfo
  BY DEF LendInfo

LEMMA BorrowInfoUpdates ==
  ASSUME NEW info \in BorrowInfo, NEW x \in Nat
  PROVE  /\ [info EXCEPT !.pledgeAmount = x, !.settled = FALSE,
                         !.liquidated = FALSE] \in BorrowInfo
         /\ [info EXCEPT !.settled = TRUE] \in BorrowInfo
         /\ [info EXCEPT !.borrowAmount = x, !.settled = TRUE] \in BorrowInfo
         /\ [info EXCEPT !.liquidated = TRUE] \in BorrowInfo
  BY DEF BorrowInfo

LEMMA PoolUpdates ==
  ASSUME NEW pool \in Pool, NEW x \in Nat, NEW y \in Nat, NEW s \in PoolState,
         NEW d \in DebtTokens \cup {NoToken}
  PROVE  /\ [pool EXCEPT !.lendSupply = x] \in Pool
         /\ [pool EXCEPT !.borrowSupply = x] \in Pool
         /\ [pool EXCEPT !.settleAmountLend = x, !.settleAmountBorrow = y,
                         !.state = s] \in Pool
         /\ [pool EXCEPT !.finishAmountLend = x, !.finishAmountBorrow = y,
                         !.state = s] \in Pool
         /\ [pool EXCEPT !.liquidationAmountLend = x,
                         !.liquidationAmountBorrow = y, !.state = s] \in Pool
         /\ [pool EXCEPT !.state = s] \in Pool
         /\ [pool EXCEPT !.spToken = d] \in Pool
         /\ [pool EXCEPT !.jpToken = d] \in Pool
<1>1. /\ [pool EXCEPT !.lendSupply = x] \in Pool
      /\ [pool EXCEPT !.borrowSupply = x] \in Pool
  BY DEF Pool
<1>2. [pool EXCEPT !.settleAmountLend = x, !.settleAmountBorrow = y, !.state = s] \in Pool
  BY DEF Pool
<1>3. [pool EXCEPT !.finishAmountLend = x, !.finishAmountBorrow = y, !.state = s] \in Pool
  BY DEF Pool
<1>4. [pool EXCEPT !.liquidationAmountLend = x, !.liquidationAmountBorrow = y,
                   !.state = s] \in Pool
  BY DEF Pool
<1>5. /\ [pool EXCEPT !.state = s] \in Pool
      /\ [pool EXCEPT !.spToken = d] \in Pool
      /\ [pool EXCEPT !.jpToken = d] \in Pool
  BY DEF Pool
<1>. QED BY <1>1, <1>2, <1>3, <1>4, <1>5

LEMMA NewPoolType ==
  ASSUME NEW t \in Terms, NEW time \in Nat,
         NEW sp \in DebtTokens \cup {NoToken}, NEW jp \in DebtTokens \cup {NoToken}
  PROVE  NewPool(t, time, sp, jp) \in Pool
<1>1. /\ t.settleToken \in Tokens /\ t.pledgeToken \in Tokens
      /\ t.maxSupply \in Nat /\ t.interestRate \in Nat /\ t.pledgeRate \in Nat
      /\ t.liquidationRate \in Nat /\ t.endTime \in Nat
  BY DEF Terms
<1>2. NoPool \in Pool
  BY DEF NoPool, Pool, PoolState
<1>. QED BY <1>1, <1>2 DEF NewPool, Pool

LEMMA LendInfosUpdates ==
  ASSUME NEW f \in [PoolIds -> [Users -> LendInfo]],
         NEW p \in PoolIds, NEW u \in Users, NEW x \in Nat
  PROVE  /\ [f EXCEPT ![p][u].amount = @ + x, ![p][u].claimed = FALSE,
                      ![p][u].refunded = FALSE] \in [PoolIds -> [Users -> LendInfo]]
         /\ [f EXCEPT ![p][u].refunded = TRUE] \in [PoolIds -> [Users -> LendInfo]]
         /\ [f EXCEPT ![p][u].claimed = TRUE, ![p][u].lendAmount = x]
              \in [PoolIds -> [Users -> LendInfo]]
<1> DEFINE info == f[p][u]
           sum  == info.amount + x
           r1   == [info EXCEPT !.amount = sum, !.claimed = FALSE, !.refunded = FALSE]
           r2   == [info EXCEPT !.refunded = TRUE]
           r3   == [info EXCEPT !.claimed = TRUE, !.lendAmount = x]
<1>1. info \in LendInfo
  OBVIOUS
<1>2. sum \in Nat
  BY <1>1 DEF LendInfo
<1>3. r1 \in LendInfo /\ r2 \in LendInfo /\ r3 \in LendInfo
  <2> HIDE DEF info, sum
  <2>. QED BY <1>1, <1>2, LendInfoUpdates
<1>4. /\ [f EXCEPT ![p][u].amount = @ + x, ![p][u].claimed = FALSE,
                   ![p][u].refunded = FALSE] = [f EXCEPT ![p][u] = r1]
      /\ [f EXCEPT ![p][u].refunded = TRUE] = [f EXCEPT ![p][u] = r2]
      /\ [f EXCEPT ![p][u].claimed = TRUE, ![p][u].lendAmount = x]
           = [f EXCEPT ![p][u] = r3]
  OBVIOUS
<1> HIDE DEF r1, r2, r3
<1>5. /\ [f EXCEPT ![p][u] = r1] \in [PoolIds -> [Users -> LendInfo]]
      /\ [f EXCEPT ![p][u] = r2] \in [PoolIds -> [Users -> LendInfo]]
      /\ [f EXCEPT ![p][u] = r3] \in [PoolIds -> [Users -> LendInfo]]
  BY <1>3, Update2
<1>. QED BY <1>4, <1>5

LEMMA BorrowInfosUpdates ==
  ASSUME NEW f \in [PoolIds -> [Users -> BorrowInfo]],
         NEW p \in PoolIds, NEW u \in Users, NEW x \in Nat
  PROVE  /\ [f EXCEPT ![p][u].pledgeAmount = @ + x, ![p][u].settled = FALSE,
                      ![p][u].liquidated = FALSE]
              \in [PoolIds -> [Users -> BorrowInfo]]
         /\ [f EXCEPT ![p][u].settled = TRUE] \in [PoolIds -> [Users -> BorrowInfo]]
         /\ [f EXCEPT ![p][u].borrowAmount = x, ![p][u].settled = TRUE]
              \in [PoolIds -> [Users -> BorrowInfo]]
<1> DEFINE info == f[p][u]
           sum  == info.pledgeAmount + x
           r1   == [info EXCEPT !.pledgeAmount = sum, !.settled = FALSE,
                                !.liquidated = FALSE]
           r2   == [info EXCEPT !.settled = TRUE]
           r3   == [info EXCEPT !.borrowAmount = x, !.settled = TRUE]
<1>1. info \in BorrowInfo
  OBVIOUS
<1>2. sum \in Nat
  BY <1>1 DEF BorrowInfo
<1>3. r1 \in BorrowInfo /\ r2 \in BorrowInfo /\ r3 \in BorrowInfo
  <2> HIDE DEF info, sum
  <2>. QED BY <1>1, <1>2, BorrowInfoUpdates
<1>4. /\ [f EXCEPT ![p][u].pledgeAmount = @ + x, ![p][u].settled = FALSE,
                   ![p][u].liquidated = FALSE] = [f EXCEPT ![p][u] = r1]
      /\ [f EXCEPT ![p][u].settled = TRUE] = [f EXCEPT ![p][u] = r2]
      /\ [f EXCEPT ![p][u].borrowAmount = x, ![p][u].settled = TRUE]
           = [f EXCEPT ![p][u] = r3]
  OBVIOUS
<1> HIDE DEF r1, r2, r3
<1>5. /\ [f EXCEPT ![p][u] = r1] \in [PoolIds -> [Users -> BorrowInfo]]
      /\ [f EXCEPT ![p][u] = r2] \in [PoolIds -> [Users -> BorrowInfo]]
      /\ [f EXCEPT ![p][u] = r3] \in [PoolIds -> [Users -> BorrowInfo]]
  BY <1>3, Update2
<1>. QED BY <1>4, <1>5

LEMMA PoolsUpdates ==
  ASSUME NEW f \in [PoolIds -> Pool], NEW p \in PoolIds, NEW x \in Nat,
         NEW y \in Nat, NEW s \in PoolState,
         NEW d \in DebtTokens \cup {NoToken}
  PROVE  /\ [f EXCEPT ![p].lendSupply = @ + x] \in [PoolIds -> Pool]
         /\ [f EXCEPT ![p].borrowSupply = @ + x] \in [PoolIds -> Pool]
         /\ [f EXCEPT ![p].settleAmountLend = x, ![p].settleAmountBorrow = y,
                      ![p].state = s] \in [PoolIds -> Pool]
         /\ [f EXCEPT ![p].finishAmountLend = x, ![p].finishAmountBorrow = y,
                      ![p].state = s] \in [PoolIds -> Pool]
         /\ [f EXCEPT ![p].liquidationAmountLend = x,
                      ![p].liquidationAmountBorrow = y, ![p].state = s]
              \in [PoolIds -> Pool]
         /\ [f EXCEPT ![p].state = s] \in [PoolIds -> Pool]
         /\ [f EXCEPT ![p].spToken = d] \in [PoolIds -> Pool]
         /\ [f EXCEPT ![p].jpToken = d] \in [PoolIds -> Pool]
<1> DEFINE pool == f[p]
           lent == pool.lendSupply + x
           pledged == pool.borrowSupply + x
           r1 == [pool EXCEPT !.lendSupply = lent]
           r2 == [pool EXCEPT !.borrowSupply = pledged]
           r3 == [pool EXCEPT !.settleAmountLend = x, !.settleAmountBorrow = y,
                              !.state = s]
           r4 == [pool EXCEPT !.finishAmountLend = x, !.finishAmountBorrow = y,
                              !.state = s]
           r5 == [pool EXCEPT !.liquidationAmountLend = x,
                              !.liquidationAmountBorrow = y, !.state = s]
           r6 == [pool EXCEPT !.state = s]
           r7 == [pool EXCEPT !.spToken = d]
           r8 == [pool EXCEPT !.jpToken = d]
<1>1. pool \in Pool
  OBVIOUS
<1>2. lent \in Nat /\ pledged \in Nat
  BY <1>1 DEF Pool
<1>3. /\ r1 \in Pool /\ r2 \in Pool /\ r3 \in Pool /\ r4 \in Pool
      /\ r5 \in Pool /\ r6 \in Pool /\ r7 \in Pool /\ r8 \in Pool
  <2> HIDE DEF pool, lent, pledged
  <2>. QED BY <1>1, <1>2, PoolUpdates
<1>4. /\ [f EXCEPT ![p].lendSupply = @ + x] = [f EXCEPT ![p] = r1]
      /\ [f EXCEPT ![p].borrowSupply = @ + x] = [f EXCEPT ![p] = r2]
      /\ [f EXCEPT ![p].settleAmountLend = x, ![p].settleAmountBorrow = y,
                   ![p].state = s] = [f EXCEPT ![p] = r3]
      /\ [f EXCEPT ![p].finishAmountLend = x, ![p].finishAmountBorrow = y,
                   ![p].state = s] = [f EXCEPT ![p] = r4]
      /\ [f EXCEPT ![p].liquidationAmountLend = x,
                   ![p].liquidationAmountBorrow = y, ![p].state = s]
           = [f EXCEPT ![p] = r5]
      /\ [f EXCEPT ![p].state = s] = [f EXCEPT ![p] = r6]
      /\ [f EXCEPT ![p].spToken = d] = [f EXCEPT ![p] = r7]
      /\ [f EXCEPT ![p].jpToken = d] = [f EXCEPT ![p] = r8]
  OBVIOUS
<1> HIDE DEF r1, r2, r3, r4, r5, r6, r7, r8
<1>5. \A r \in Pool : [f EXCEPT ![p] = r] \in [PoolIds -> Pool]
  BY Update1
<1>. QED BY <1>3, <1>4, <1>5

-----------------------------------------------------------------------------
(* Token movements keep balances natural numbers.                          *)

LEMMA ReceiveType ==
  ASSUME balance \in [Tokens -> Nat], NEW t, NEW x \in Nat, Receive(t, x)
  PROVE  balance' \in [Tokens -> Nat]
<1>1. CASE t \in Tokens
  BY <1>1 DEF Receive
<1>2. CASE t \notin Tokens
  <2>1. balance' = balance
    BY <1>2 DEF Receive
  <2>. QED BY <2>1
<1>. QED BY <1>1, <1>2

LEMMA TransferType ==
  ASSUME balance \in [Tokens -> Nat], NEW t, NEW x \in Nat, Transfer(t, x)
  PROVE  balance' \in [Tokens -> Nat]
<1>1. CASE t \in Tokens
  BY <1>1 DEF Transfer
<1>2. CASE t \notin Tokens
  <2>1. balance' = balance
    BY <1>2 DEF Transfer
  <2>. QED BY <2>1
<1>. QED BY <1>1, <1>2

LEMMA MintType ==
  ASSUME debt \in [DebtTokens -> [Users -> Nat]],
         NEW d \in DebtTokens, NEW u \in Users, NEW x \in Nat, Mint(d, u, x)
  PROVE  debt' \in [DebtTokens -> [Users -> Nat]]
  BY DEF Mint

LEMMA BurnType ==
  ASSUME debt \in [DebtTokens -> [Users -> Nat]],
         NEW d \in DebtTokens, NEW u \in Users, NEW x \in Nat, Burn(d, u, x)
  PROVE  debt' \in [DebtTokens -> [Users -> Nat]]
  BY DEF Burn

LEMMA EnlistType ==
  ASSUME NEW f \in [PoolIds -> [Users -> Nat]], NEW p \in PoolIds,
         NEW u \in Users, NEW held
  PROVE  Enlist(f, p, u, held) \in [PoolIds -> [Users -> Nat]]
  BY DEF Enlist

-----------------------------------------------------------------------------
(* Each operation keeps TypeOK.                                            *)

LEMMA InitType == Init => TInv
<1>1. Init => TypeOK
  BY InputsAssumption, BoundsAssumption, ZeroTypes DEF Init, TypeOK, PoolIds
<1>2. Init => TermsSane
  BY DEF Init, TermsSane, Created
<1>. QED BY <1>1, <1>2 DEF TInv

LEMMA PoolFields ==
  ASSUME TypeOK, NEW p \in PoolIds
  PROVE  /\ pools[p] \in Pool
         /\ pools[p].lendSupply \in Nat
         /\ pools[p].borrowSupply \in Nat
         /\ pools[p].settleAmountLend \in Nat
         /\ pools[p].settleAmountBorrow \in Nat
         /\ pools[p].finishAmountLend \in Nat
         /\ pools[p].finishAmountBorrow \in Nat
         /\ pools[p].liquidationAmountLend \in Nat
         /\ pools[p].liquidationAmountBorrow \in Nat
         /\ pools[p].interestRate \in Nat
         /\ pools[p].pledgeRate \in Nat
         /\ pools[p].settleTime \in Nat
         /\ pools[p].endTime \in Nat
         /\ LendPot(pools[p]) \in Nat
         /\ BorrowPot(pools[p]) \in Nat
<1>1. pools[p] \in Pool
  BY DEF TypeOK
<1>. QED BY <1>1 DEF Pool, LendPot, BorrowPot

LEMMA InfoFields ==
  ASSUME TypeOK, NEW p \in PoolIds, NEW u \in Users
  PROVE  /\ lendInfos[p][u].amount \in Nat
         /\ borrowInfos[p][u].pledgeAmount \in Nat
<1>1. lendInfos[p][u] \in LendInfo /\ borrowInfos[p][u] \in BorrowInfo
  BY DEF TypeOK
<1>. QED BY <1>1 DEF LendInfo, BorrowInfo

LEMMA AddPoolType ==
  ASSUME TInv, NEW pool \in Pool, AddPool(pool),
         pool.pledgeRate >= MIN_PLEDGE_RATE, pool.settleTime <= pool.endTime,
         pool.settleToken \in Tokens, pool.pledgeToken \in Tokens
  PROVE  TInv'
<1>1. /\ pools' \in [PoolIds -> Pool]
      /\ poolCounter' \in 0 .. MaxPools
  BY BoundsAssumption, Update1 DEF AddPool, TInv, TypeOK
<1>2. TypeOK'
  BY <1>1 DEF AddPool, TInv, TypeOK, positions
<1>3. ASSUME NEW p \in Created'
      PROVE  /\ pools'[p].pledgeRate >= MIN_PLEDGE_RATE
             /\ pools'[p].settleTime <= pools'[p].endTime
             /\ pools'[p].settleToken \in Tokens
             /\ pools'[p].pledgeToken \in Tokens
  <2>1. p \in PoolIds
    BY <1>1, BoundsAssumption DEF Created, PoolIds
  <2>2. CASE p = poolCounter + 1
    BY <2>1, <2>2 DEF AddPool, TInv, TypeOK
  <2>3. CASE p # poolCounter + 1
    <3>1. p \in Created
      BY <2>3 DEF Created, AddPool, TInv, TypeOK
    <3>2. pools'[p] = pools[p]
      BY <2>1, <2>3 DEF AddPool, TInv, TypeOK
    <3>. QED BY <3>1, <3>2 DEF TInv, TermsSane
  <2>. QED BY <2>2, <2>3
<1>4. TermsSane'
  BY <1>3 DEF TermsSane
<1>. QED BY <1>2, <1>4 DEF TInv

LEMMA CreateType ==
  ASSUME TInv,
         \/ \E t \in BareTerms : CreatePool(t)
         \/ \E t \in PoolTerms : CreatePoolInfo(t)
  PROVE  TInv'
<1>1. ASSUME NEW t \in BareTerms, CreatePool(t) PROVE TInv'
  <2> DEFINE pool == NewPool(t, 0, NoToken, NoToken)
  <2>0. t \in Terms
    BY InputsAssumption
  <2>1. pool \in Pool
    BY <2>0, NewPoolType
  <2>2. pool.pledgeRate = t.pledgeRate /\ pool.settleTime = 0
           /\ pool.endTime = t.endTime
           /\ pool.settleToken = t.settleToken /\ pool.pledgeToken = t.pledgeToken
    BY DEF NewPool, NoPool
  <2>3. /\ t.pledgeRate >= MIN_PLEDGE_RATE /\ t.endTime \in Nat
        /\ t.settleToken \in Tokens /\ t.pledgeToken \in Tokens
    BY <1>1, <2>0 DEF CreatePool, ValidTerms, Terms
  <2>4. AddPool(pool)
    BY <1>1 DEF CreatePool
  <2> HIDE DEF pool
  <2>. QED BY <2>1, <2>2, <2>3, <2>4, AddPoolType
<1>2. ASSUME NEW t \in PoolTerms, CreatePoolInfo(t) PROVE TInv'
  <2> DEFINE pool == NewPool(t, t.settleTime, t.spToken, t.jpToken)
  <2>0. t \in Terms
    BY InputsAssumption
  <2>1. pool \in Pool
    <3>1. /\ t.settleTime \in Nat
          /\ t.spToken \in DebtTokens \cup {NoToken}
          /\ t.jpToken \in DebtTokens \cup {NoToken}
      BY <2>0 DEF Terms
    <3>. QED BY <2>0, <3>1, NewPoolType
  <2>2. pool.pledgeRate = t.pledgeRate /\ pool.settleTime = t.settleTime
           /\ pool.endTime = t.endTime
           /\ pool.settleToken = t.settleToken /\ pool.pledgeToken = t.pledgeToken
    BY DEF NewPool, NoPool
  <2>3. /\ t.pledgeRate >= MIN_PLEDGE_RATE
        /\ t.settleTime <= t.endTime
        /\ t.settleToken \in Tokens /\ t.pledgeToken \in Tokens
    BY <1>2, <2>0 DEF CreatePoolInfo, ValidTerms, Terms
  <2>4. AddPool(pool)
    BY <1>2 DEF CreatePoolInfo
  <2> HIDE DEF pool
  <2>. QED BY <2>1, <2>2, <2>3, <2>4, AddPoolType
<1>. QED BY <1>1, <1>2

LEMMA LendType ==
  ASSUME TInv, NEW p \in PoolIds, NEW u \in Users, Lend(p, u)
  PROVE  TypeOK'
<1>0. TypeOK
  BY DEF TInv
<1>1. ASSUME NEW amount \in LendAmounts, DepositLend(p, u, amount) PROVE TypeOK'
  <2>0. amount \in Nat
    BY BoundsAssumption
  <2>1. lenders' \in [PoolIds -> [Users -> Nat]]
    BY <1>0, <1>1, EnlistType DEF DepositLend, TypeOK
  <2>2. lendInfos' \in [PoolIds -> [Users -> LendInfo]]
    <3>1. lendInfos' = [lendInfos EXCEPT ![p][u].amount = @ + amount,
                                         ![p][u].claimed = FALSE,
                                         ![p][u].refunded = FALSE]
      BY <1>1 DEF DepositLend
    <3>2. lendInfos \in [PoolIds -> [Users -> LendInfo]]
      BY <1>0 DEF TypeOK
    <3>3. [lendInfos EXCEPT ![p][u].amount = @ + amount, ![p][u].claimed = FALSE,
                            ![p][u].refunded = FALSE] \in [PoolIds -> [Users -> LendInfo]]
      BY <2>0, <3>2, LendInfosUpdates
    <3>. QED BY <3>1, <3>3
  <2>3. pools' \in [PoolIds -> Pool]
    <3>1. "MATCH" \in PoolState
      BY DEF PoolState
    <3>2. pools' = [pools EXCEPT ![p].lendSupply = @ + amount]
      BY <1>1 DEF DepositLend
    <3>3. pools \in [PoolIds -> Pool]
      BY <1>0 DEF TypeOK
    <3>. QED BY <2>0, <3>1, <3>2, <3>3, PoolsUpdates
  <2>4. balance' \in [Tokens -> Nat]
    BY <1>0, <1>1, <2>0, ReceiveType DEF DepositLend, TypeOK
  <2>. QED BY <1>0, <1>1, <2>1, <2>2, <2>3, <2>4 DEF DepositLend, TypeOK
<1>2. ASSUME RefundLend(p, u) PROVE TypeOK'
  <2> DEFINE refund == Share(pools[p].lendSupply - pools[p].settleAmountLend,
                             lendInfos[p][u].amount, pools[p].lendSupply)
  <2>1. refund \in Nat
    <3>1. /\ pools[p].lendSupply \in Nat \ {0}
          /\ pools[p].lendSupply - pools[p].settleAmountLend \in Nat
      BY <1>0, <1>2, PoolFields DEF RefundLend
    <3>. QED BY <1>0, <3>1, InfoFields, ShareNat
  <2>2. balance' \in [Tokens -> Nat]
    BY <1>0, <1>2, <2>1, TransferType DEF RefundLend, TypeOK
  <2>3. lendInfos' \in [PoolIds -> [Users -> LendInfo]]
    BY <1>0, <1>2, LendInfosUpdates DEF RefundLend, MarkRefunded, TypeOK
  <2>. QED BY <1>0, <1>2, <2>2, <2>3 DEF RefundLend, TypeOK
<1>3. ASSUME ClaimLend(p, u) PROVE TypeOK'
  <2> DEFINE sp == Share(pools[p].settleAmountLend, lendInfos[p][u].amount,
                         pools[p].lendSupply)
  <2>1. sp \in Nat
    BY <1>0, <1>3, PoolFields, InfoFields, ShareNat DEF ClaimLend
  <2>2. pools[p].spToken \in DebtTokens
    <3>1. pools[p].spToken \in DebtTokens \cup {NoToken}
      BY <1>0, PoolFields DEF Pool
    <3>. QED BY <1>3, <3>1 DEF ClaimLend
  <2>3. debt' \in [DebtTokens -> [Users -> Nat]]
    BY <1>0, <1>3, <2>1, <2>2, MintType DEF ClaimLend, TypeOK
  <2>4. lendInfos' \in [PoolIds -> [Users -> LendInfo]]
    <3>1. lendInfos' = [lendInfos EXCEPT ![p][u].claimed = TRUE,
                                         ![p][u].lendAmount = sp]
      BY <1>3 DEF ClaimLend
    <3>2. lendInfos \in [PoolIds -> [Users -> LendInfo]]
      BY <1>0 DEF TypeOK
    <3> HIDE DEF sp
    <3>. QED BY <2>1, <3>1, <3>2, LendInfosUpdates
  <2>. QED BY <1>0, <1>3, <2>3, <2>4 DEF ClaimLend, TypeOK
<1>4. ASSUME NEW sp \in 1 .. MaxRedeem, WithdrawLend(p, u, sp) PROVE TypeOK'
  <2> DEFINE redeem == Share(LendPot(pools[p]), sp, pools[p].settleAmountLend)
  <2>0. sp \in Nat
    BY BoundsAssumption
  <2>1. redeem \in Nat
    <3>1. /\ pools[p].settleAmountLend \in Nat \ {0}
          /\ LendPot(pools[p]) \in Nat
      BY <1>0, <1>4, PoolFields DEF WithdrawLend
    <3>. QED BY <2>0, <3>1, ShareNat
  <2>2. pools[p].spToken \in DebtTokens
    <3>1. pools[p].spToken \in DebtTokens \cup {NoToken}
      BY <1>0, PoolFields DEF Pool
    <3>. QED BY <1>4, <3>1 DEF WithdrawLend
  <2>3. debt' \in [DebtTokens -> [Users -> Nat]]
    BY <1>0, <1>4, <2>0, <2>2, BurnType DEF WithdrawLend, TypeOK
  <2>4. balance' \in [Tokens -> Nat]
    BY <1>0, <1>4, <2>1, TransferType DEF WithdrawLend, TypeOK
  <2>. QED BY <1>0, <1>4, <2>3, <2>4 DEF WithdrawLend, positions, TypeOK
<1>5. ASSUME EmergencyLendWithdrawal(p, u) PROVE TypeOK'
  <2>1. balance' \in [Tokens -> Nat]
    BY <1>0, <1>5, InfoFields, TransferType DEF EmergencyLendWithdrawal, TypeOK
  <2>2. lendInfos' \in [PoolIds -> [Users -> LendInfo]]
    BY <1>0, <1>5, LendInfosUpdates DEF EmergencyLendWithdrawal, MarkRefunded, TypeOK
  <2>. QED BY <1>0, <1>5, <2>1, <2>2 DEF EmergencyLendWithdrawal, TypeOK
<1>. QED BY <1>1, <1>2, <1>3, <1>4, <1>5 DEF Lend

LEMMA BorrowType ==
  ASSUME TInv, NEW p \in PoolIds, NEW u \in Users, Borrow(p, u)
  PROVE  TypeOK'
<1>0. TypeOK
  BY DEF TInv
<1>1. ASSUME NEW amount \in PledgeAmounts, DepositBorrow(p, u, amount)
      PROVE  TypeOK'
  <2>0. amount \in Nat
    BY BoundsAssumption
  <2>1. borrowers' \in [PoolIds -> [Users -> Nat]]
    BY <1>0, <1>1, EnlistType DEF DepositBorrow, TypeOK
  <2>2. borrowInfos' \in [PoolIds -> [Users -> BorrowInfo]]
    BY <1>0, <1>1, <2>0, BorrowInfosUpdates DEF DepositBorrow, TypeOK
  <2>3. pools' \in [PoolIds -> Pool]
    <3>1. "MATCH" \in PoolState
      BY DEF PoolState
    <3>. QED BY <1>0, <1>1, <2>0, <3>1, PoolsUpdates DEF DepositBorrow, TypeOK
  <2>4. balance' \in [Tokens -> Nat]
    BY <1>0, <1>1, <2>0, ReceiveType DEF DepositBorrow, TypeOK
  <2>. QED BY <1>0, <1>1, <2>1, <2>2, <2>3, <2>4 DEF DepositBorrow, TypeOK
<1>2. ASSUME RefundBorrow(p, u) PROVE TypeOK'
  <2> DEFINE refund == Share(pools[p].borrowSupply - pools[p].settleAmountBorrow,
                             borrowInfos[p][u].pledgeAmount, pools[p].borrowSupply)
  <2>1. refund \in Nat
    <3>1. /\ pools[p].borrowSupply \in Nat \ {0}
          /\ pools[p].borrowSupply - pools[p].settleAmountBorrow \in Nat
      BY <1>0, <1>2, PoolFields DEF RefundBorrow
    <3>. QED BY <1>0, <3>1, InfoFields, ShareNat
  <2>2. balance' \in [Tokens -> Nat]
    BY <1>0, <1>2, <2>1, TransferType DEF RefundBorrow, TypeOK
  <2>3. borrowInfos' \in [PoolIds -> [Users -> BorrowInfo]]
    BY <1>0, <1>2, BorrowInfosUpdates DEF RefundBorrow, TypeOK
  <2>. QED BY <1>0, <1>2, <2>2, <2>3 DEF RefundBorrow, TypeOK
<1>3. ASSUME ClaimBorrow(p, u) PROVE TypeOK'
  <2> DEFINE jp   == JpShare(pools[p].settleAmountLend, pools[p].pledgeRate,
                             borrowInfos[p][u].pledgeAmount, pools[p].borrowSupply)
             loan == Share(pools[p].settleAmountLend,
                           borrowInfos[p][u].pledgeAmount, pools[p].borrowSupply)
  <2>0. pools[p].borrowSupply \in Nat \ {0}
    BY <1>0, <1>3, PoolFields DEF ClaimBorrow
  <2>1. jp \in Nat /\ loan \in Nat
    BY <1>0, <2>0, PoolFields, InfoFields, ShareNat, JpShareNat
  <2>2. debt' \in [DebtTokens -> [Users -> Nat]]
    <3>1. CASE pools[p].jpToken = NoToken
      BY <1>0, <1>3, <3>1 DEF ClaimBorrow, TypeOK
    <3>2. CASE pools[p].jpToken # NoToken
      <4>1. pools[p].jpToken \in DebtTokens
        BY <1>0, <3>2, PoolFields DEF Pool
      <4>2. Mint(pools[p].jpToken, u, jp)
        BY <1>3, <3>2 DEF ClaimBorrow
      <4>. QED BY <1>0, <2>1, <4>1, <4>2, MintType DEF TypeOK
    <3>. QED BY <3>1, <3>2
  <2>3. balance' \in [Tokens -> Nat]
    BY <1>0, <1>3, <2>1, TransferType DEF ClaimBorrow, TypeOK
  <2>4. borrowInfos' \in [PoolIds -> [Users -> BorrowInfo]]
    <3>1. borrowInfos' = [borrowInfos EXCEPT ![p][u].borrowAmount = loan,
                                             ![p][u].settled = TRUE]
      BY <1>3 DEF ClaimBorrow
    <3>2. borrowInfos \in [PoolIds -> [Users -> BorrowInfo]]
      BY <1>0 DEF TypeOK
    <3> HIDE DEF loan
    <3>. QED BY <2>1, <3>1, <3>2, BorrowInfosUpdates
  <2>. QED BY <1>0, <1>3, <2>2, <2>3, <2>4 DEF ClaimBorrow, TypeOK
<1>4. ASSUME NEW jp \in 1 .. MaxRedeem, WithdrawBorrow(p, u, jp) PROVE TypeOK'
  <2> DEFINE total  == TotalJp(pools[p].settleAmountLend, pools[p].pledgeRate)
             redeem == Share(BorrowPot(pools[p]), jp, total)
  <2>0. jp \in Nat
    BY BoundsAssumption
  <2>1. redeem \in Nat
    <3>1. total \in Nat
      BY <1>0, PoolFields, TotalJpNat
    <3>2. total # 0
      BY <1>4 DEF WithdrawBorrow
    <3>3. BorrowPot(pools[p]) \in Nat
      BY <1>0, PoolFields
    <3> HIDE DEF total
    <3>. QED BY <2>0, <3>1, <3>2, <3>3, ShareNat
  <2>2. debt' \in [DebtTokens -> [Users -> Nat]]
    <3>1. CASE pools[p].jpToken = NoToken
      BY <1>0, <1>4, <3>1 DEF WithdrawBorrow, TypeOK
    <3>2. CASE pools[p].jpToken # NoToken
      <4>1. pools[p].jpToken \in DebtTokens
        BY <1>0, <3>2, PoolFields DEF Pool
      <4>2. Burn(pools[p].jpToken, u, jp)
        BY <1>4, <3>2 DEF WithdrawBorrow
      <4>. QED BY <1>0, <2>0, <4>1, <4>2, BurnType DEF TypeOK
    <3>. QED BY <3>1, <3>2
  <2>3. balance' \in [Tokens -> Nat]
    BY <1>0, <1>4, <2>1, TransferType DEF WithdrawBorrow, TypeOK
  <2>. QED BY <1>0, <1>4, <2>2, <2>3 DEF WithdrawBorrow, positions, TypeOK
<1>5. ASSUME EmergencyBorrowWithdrawal(p, u) PROVE TypeOK'
  <2>1. balance' \in [Tokens -> Nat]
    BY <1>0, <1>5, InfoFields, TransferType DEF EmergencyBorrowWithdrawal, TypeOK
  <2>2. borrowInfos' \in [PoolIds -> [Users -> BorrowInfo]]
    BY <1>0, <1>5, BorrowInfosUpdates DEF EmergencyBorrowWithdrawal, TypeOK
  <2>. QED BY <1>0, <1>5, <2>1, <2>2 DEF EmergencyBorrowWithdrawal, TypeOK
<1>. QED BY <1>1, <1>2, <1>3, <1>4, <1>5 DEF Borrow

LEMMA SettleBalancesType ==
  ASSUME balance \in [Tokens -> Nat], NEW pool, NEW s,
         s.sold \in Nat, s.got \in Nat, s.fee \in Nat, s.excess \in 0 .. s.got,
         SaleAllowed(pool, s), SettleBalances(pool, s)
  PROVE  balance' \in [Tokens -> Nat]
<1> DEFINE paid(x) == IF config.feeAddress THEN x ELSE 0
           spent  == s.sold + paid(s.fee)
           gained == s.got - paid(s.excess)
           mid    == [balance EXCEPT ![pool.pledgeToken] = @ - s.sold - paid(s.fee)]
<1>1. spent \in Nat /\ gained \in Nat
  OBVIOUS
<1>2. spent <= balance[pool.pledgeToken]
  BY DEF SaleAllowed
<1>3. mid \in [Tokens -> Nat]
  <2>1. CASE pool.pledgeToken \in Tokens
    <3>1. balance[pool.pledgeToken] - s.sold - paid(s.fee) \in Nat
      BY <1>1, <1>2, <2>1
    <3>. QED BY <3>1
  <2>2. CASE pool.pledgeToken \notin Tokens
    BY <2>2
  <2>. QED BY <2>1, <2>2
<1>4. balance' = [mid EXCEPT ![pool.settleToken] = @ + s.got - paid(s.excess)]
  BY DEF SettleBalances
<1> HIDE DEF mid
<1>5. CASE pool.settleToken \in Tokens
  <2>1. mid[pool.settleToken] + s.got - paid(s.excess) \in Nat
    BY <1>1, <1>3, <1>5
  <2>. QED BY <1>3, <1>4, <2>1
<1>6. CASE pool.settleToken \notin Tokens
  BY <1>3, <1>4, <1>6
<1>. QED BY <1>5, <1>6

(* What a sale that is carried out returns: the lenders get the amount due,*)
(* which is at least the loan, and the fee and the rest come out of the    *)
(* matched collateral.                                                     *)
LEMMA SaleFields ==
  ASSUME TypeOK, NEW p \in PoolIds, NEW duration \in Nat, NEW q \in RouterQuotes,
         SaleAllowed(pools[p], Sale(pools[p], duration, q))
  PROVE  LET s == Sale(pools[p], duration, q)
         IN  /\ s.sold \in Nat /\ s.got \in Nat /\ s.fee \in Nat
             /\ s.excess \in 0 .. s.got
             /\ s.left \in Nat
             /\ s.got - s.excess \in Nat
             /\ s.got - s.excess >= pools[p].settleAmountLend
<1> DEFINE pool == pools[p]
           due  == RepayAmount(pool.settleAmountLend, pool.interestRate, duration)
           deal == SellExactAmount(SaleTarget(due, config.lendFee), q)
           rest == pool.settleAmountBorrow - deal.sold
           s    == Sale(pool, duration, q)
<1>0. /\ config.lendFee \in 0 .. MAX_FEE_RATE
      /\ config.borrowFee \in 0 .. MAX_FEE_RATE
  BY DEF TypeOK, Config
<1>1. due \in Nat /\ due >= pool.settleAmountLend
  BY PoolFields, RepayAmountNat, RepayAmountCoversPrincipal
<1>2. deal.sold \in Nat /\ deal.got \in Nat
  <2>1. SaleTarget(due, config.lendFee) \in Nat
    <3> HIDE DEF due
    <3>. QED BY <1>0, <1>1, SaleTargetNat
  <2>2. q \in [sell: Nat \ {0}, buy: Nat \ {0}]
    BY InputsAssumption
  <2> HIDE DEF due
  <2>. QED BY <2>1, <2>2, SellExactAmountNat
<1>3. /\ s.due = due /\ s.sold = deal.sold /\ s.got = deal.got
      /\ s.excess = deal.got - due
      /\ s.fee = RedeemFee(config.borrowFee, rest)
      /\ s.left = AfterFee(config.borrowFee, rest)
  BY DEF Sale
<1>4. deal.got >= due /\ deal.sold <= pool.settleAmountBorrow
  BY <1>3 DEF SaleAllowed
<1> HIDE DEF due, deal, s
<1>5. rest \in Nat
  BY <1>2, <1>4, PoolFields
<1>6. s.fee \in Nat /\ s.left \in Nat
  <2> HIDE DEF rest
  <2>. QED BY <1>0, <1>3, <1>5, RedeemFeeBound, AfterFeeBound
<1>7. s.excess \in 0 .. s.got /\ s.got - s.excess = due
  BY <1>1, <1>2, <1>3, <1>4
<1>. QED BY <1>1, <1>2, <1>3, <1>6, <1>7 DEF s

LEMMA SettleMatchedFields ==
  ASSUME TInv, NEW p \in PoolIds, SettleMatched(p)
  PROVE  LET pool    == pools[p]
             amounts == SettleAmounts(pool.lendSupply, pool.borrowSupply,
                          price[pool.pledgeToken], price[pool.settleToken],
                          pool.pledgeRate)
         IN  /\ pools' = [pools EXCEPT ![p].settleAmountLend = amounts.lend,
                                       ![p].settleAmountBorrow = amounts.borrow,
                                       ![p].state = "EXECUTION"]
             /\ amounts.lend \in 0 .. pool.lendSupply
             /\ amounts.borrow \in 0 .. pool.borrowSupply
             /\ amounts.lend * pool.pledgeRate * price[pool.settleToken]
                  < (amounts.borrow + 1) * RATE_BASE * price[pool.pledgeToken]
<1> DEFINE pool == pools[p]
           pledgePrice == price[pool.pledgeToken]
           settlePrice == price[pool.settleToken]
           amounts == SettleAmounts(pool.lendSupply, pool.borrowSupply,
                                    pledgePrice, settlePrice, pool.pledgeRate)
<1>1. p \in Created
  BY DEF SettleMatched, poolExists, Created, PoolIds
<1>2. pledgePrice \in Nat \ {0} /\ settlePrice \in Nat \ {0}
  <2>1. price \in [Tokens -> Nat]
    BY InputsAssumption DEF TInv, TypeOK
  <2>2. pool.pledgeToken \in Tokens /\ pool.settleToken \in Tokens
    BY <1>1 DEF TInv, TermsSane
  <2>3. pledgePrice > 0 /\ settlePrice > 0
    BY DEF SettleMatched
  <2>. QED BY <2>1, <2>2, <2>3
<1>3. /\ pool.pledgeRate \in Nat \ {0}
      /\ pool.lendSupply \in Nat /\ pool.borrowSupply \in Nat
  <2>1. TypeOK /\ pool.pledgeRate >= MIN_PLEDGE_RATE
    BY <1>1 DEF TInv, TermsSane
  <2>. QED BY <2>1, PoolFields DEF MIN_PLEDGE_RATE
<1>4. /\ amounts.lend \in 0 .. pool.lendSupply
      /\ amounts.borrow \in 0 .. pool.borrowSupply
      /\ amounts.lend * pool.pledgeRate * settlePrice
           < (amounts.borrow + 1) * RATE_BASE * pledgePrice
  <2> HIDE DEF pool, pledgePrice, settlePrice
  <2>. QED BY <1>2, <1>3, SettleAmountsSound
<1>5. pools' = [pools EXCEPT ![p].settleAmountLend = amounts.lend,
                             ![p].settleAmountBorrow = amounts.borrow,
                             ![p].state = "EXECUTION"]
  BY DEF SettleMatched
<1>. QED BY <1>4, <1>5

LEMMA AdvanceType ==
  ASSUME TInv, NEW p \in PoolIds, Advance(p)
  PROVE  TypeOK'
<1>0. TypeOK
  BY DEF TInv
<1>1. ASSUME SettleMatched(p) PROVE TypeOK'
  <2> DEFINE pool    == pools[p]
             amounts == SettleAmounts(pool.lendSupply, pool.borrowSupply,
                          price[pool.pledgeToken], price[pool.settleToken],
                          pool.pledgeRate)
  <2>1. /\ pools' = [pools EXCEPT ![p].settleAmountLend = amounts.lend,
                                  ![p].settleAmountBorrow = amounts.borrow,
                                  ![p].state = "EXECUTION"]
        /\ amounts.lend \in 0 .. pool.lendSupply
        /\ amounts.borrow \in 0 .. pool.borrowSupply
    BY <1>1, SettleMatchedFields
  <2>2. amounts.lend \in Nat /\ amounts.borrow \in Nat
    BY <1>0, <2>1, PoolFields
  <2>3. pools' \in [PoolIds -> Pool]
    <3>1. pools \in [PoolIds -> Pool] /\ "EXECUTION" \in PoolState
      BY <1>0 DEF TypeOK, PoolState
    <3> HIDE DEF amounts
    <3>. QED BY <2>1, <2>2, <3>1, PoolsUpdates
  <2>. QED BY <1>0, <1>1, <2>3 DEF SettleMatched, positions, TypeOK
<1>2. ASSUME SettleUndone(p) PROVE TypeOK'
  <2>1. pools' \in [PoolIds -> Pool]
    <3>1. "UNDONE" \in PoolState
      BY DEF PoolState
    <3>2. pools \in [PoolIds -> Pool]
      BY <1>0 DEF TypeOK
    <3>3. pools' = [pools EXCEPT ![p].settleAmountLend = pools[p].lendSupply,
                                 ![p].settleAmountBorrow = pools[p].borrowSupply,
                                 ![p].state = "UNDONE"]
      BY <1>2 DEF SettleUndone
    <3>4. pools[p].lendSupply \in Nat /\ pools[p].borrowSupply \in Nat
      BY <1>0, PoolFields
    <3>. QED BY <3>1, <3>2, <3>3, <3>4, PoolsUpdates
  <2>. QED BY <1>0, <1>2, <2>1 DEF SettleUndone, positions, TypeOK
<1>3. ASSUME NEW q \in RouterQuotes, Finish(p, q) PROVE TypeOK'
  <2> DEFINE duration == pools[p].endTime - pools[p].settleTime
             s == Sale(pools[p], duration, q)
  <2>1. duration \in Nat
    <3>1. p \in Created
      BY <1>3 DEF Finish, poolExists, Created, PoolIds
    <3>. QED BY <1>0, <3>1, PoolFields DEF TInv, TermsSane
  <2>2. SaleAllowed(pools[p], s) /\ SettleBalances(pools[p], s)
    BY <1>3 DEF Finish
  <2>3. /\ s.sold \in Nat /\ s.got \in Nat /\ s.fee \in Nat
        /\ s.excess \in 0 .. s.got /\ s.left \in Nat
        /\ s.got - s.excess \in Nat
    BY <1>0, <2>1, <2>2, SaleFields
  <2>4. balance' \in [Tokens -> Nat]
    <3>1. balance \in [Tokens -> Nat]
      BY <1>0 DEF TypeOK
    <3> HIDE DEF s
    <3>. QED BY <2>2, <2>3, <3>1, SettleBalancesType
  <2>5. pools' \in [PoolIds -> Pool]
    <3>1. pools' = [pools EXCEPT ![p].finishAmountLend = s.got - s.excess,
                                 ![p].finishAmountBorrow = s.left,
                                 ![p].state = "FINISH"]
      BY <1>3 DEF Finish
    <3>2. pools \in [PoolIds -> Pool] /\ "FINISH" \in PoolState
      BY <1>0 DEF TypeOK, PoolState
    <3> HIDE DEF s
    <3>. QED BY <2>3, <3>1, <3>2, PoolsUpdates
  <2>. QED BY <1>0, <1>3, <2>4, <2>5 DEF Finish, positions, TypeOK
<1>4. ASSUME NEW q \in RouterQuotes, Liquidate(p, q) PROVE TypeOK'
  <2> DEFINE duration == now - pools[p].settleTime
             s == Sale(pools[p], duration, q)
  <2>1. duration \in Nat
    <3>1. now \in Nat /\ pools[p].settleTime \in Nat /\ now >= pools[p].settleTime
      BY <1>0, <1>4, PoolFields DEF Liquidate, TypeOK
    <3>. QED BY <3>1
  <2>2. SaleAllowed(pools[p], s) /\ SettleBalances(pools[p], s)
    BY <1>4 DEF Liquidate
  <2>3. /\ s.sold \in Nat /\ s.got \in Nat /\ s.fee \in Nat
        /\ s.excess \in 0 .. s.got /\ s.left \in Nat
        /\ s.got - s.excess \in Nat
    BY <1>0, <2>1, <2>2, SaleFields
  <2>4. balance' \in [Tokens -> Nat]
    <3>1. balance \in [Tokens -> Nat]
      BY <1>0 DEF TypeOK
    <3> HIDE DEF s
    <3>. QED BY <2>2, <2>3, <3>1, SettleBalancesType
  <2>5. pools' \in [PoolIds -> Pool]
    <3>1. pools' = [pools EXCEPT ![p].liquidationAmountLend = s.got - s.excess,
                                 ![p].liquidationAmountBorrow = s.left,
                                 ![p].state = "LIQUIDATION"]
      BY <1>4 DEF Liquidate
    <3>2. pools \in [PoolIds -> Pool] /\ "LIQUIDATION" \in PoolState
      BY <1>0 DEF TypeOK, PoolState
    <3> HIDE DEF s
    <3>. QED BY <2>3, <3>1, <3>2, PoolsUpdates
  <2>6. borrowInfos' \in [PoolIds -> [Users -> BorrowInfo]]
    <3> DEFINE infos == [u \in Users |->
                 IF borrowers[p][u] > 0 /\ CountsInHealth(borrowInfos[p][u])
                 THEN [borrowInfos[p][u] EXCEPT !.liquidated = TRUE]
                 ELSE borrowInfos[p][u]]
    <3>1. borrowInfos \in [PoolIds -> [Users -> BorrowInfo]]
      BY <1>0 DEF TypeOK
    <3>2. infos \in [Users -> BorrowInfo]
      <4>1. \A info \in BorrowInfo : [info EXCEPT !.liquidated = TRUE] \in BorrowInfo
        BY BorrowInfoUpdates
      <4>. QED BY <3>1, <4>1
    <3>3. borrowInfos' = [borrowInfos EXCEPT ![p] = infos]
      BY <1>4 DEF Liquidate
    <3> HIDE DEF infos
    <3>. QED BY <3>1, <3>2, <3>3, Update1
  <2>. QED BY <1>0, <1>4, <2>4, <2>5, <2>6 DEF Liquidate, TypeOK
<1>. QED BY <1>1, <1>2, <1>3, <1>4 DEF Advance

LEMMA AdministerType ==
  ASSUME TInv, NEW p \in PoolIds,
         \/ \E s \in PoolState : SetPoolState(p, s)
         \/ \E d \in DebtTokens : SetPoolSpToken(p, d)
         \/ \E d \in DebtTokens : SetPoolJpToken(p, d)
  PROVE  TypeOK'
<1>0. TypeOK
  BY DEF TInv
<1>1. pools' \in [PoolIds -> Pool]
  <2>0. pools \in [PoolIds -> Pool] /\ "MATCH" \in PoolState
    BY <1>0 DEF TypeOK, PoolState
  <2>1. /\ \A s \in PoolState : [pools EXCEPT ![p].state = s] \in [PoolIds -> Pool]
        /\ \A d \in DebtTokens :
          /\ [pools EXCEPT ![p].spToken = d] \in [PoolIds -> Pool]
          /\ [pools EXCEPT ![p].jpToken = d] \in [PoolIds -> Pool]
    BY <2>0, PoolsUpdates
  <2>2. ASSUME NEW s \in PoolState, SetPoolState(p, s)
        PROVE  pools' \in [PoolIds -> Pool]
    BY <2>1, <2>2 DEF SetPoolState
  <2>3. ASSUME NEW d \in DebtTokens, SetPoolSpToken(p, d) \/ SetPoolJpToken(p, d)
        PROVE  pools' \in [PoolIds -> Pool]
    BY <2>1, <2>3 DEF SetPoolSpToken, SetPoolJpToken
  <2>. QED BY <2>2, <2>3
<1>. QED BY <1>0, <1>1 DEF SetPoolState, SetPoolSpToken, SetPoolJpToken,
            positions, TypeOK

LEMMA ConfigureType ==
  ASSUME TInv,
         \/ SetOracle \/ SetSwapRouterAddress \/ SetFeeAddress \/ SetPause
         \/ \E amount \in MinAmounts : SetMinAmount(amount)
         \/ \E lendFee, borrowFee \in FeeRates : SetFee(lendFee, borrowFee)
  PROVE  TypeOK'
<1>0. TypeOK
  BY DEF TInv
<1>1. \A x \in Nat, lf, bf \in 0 .. MAX_FEE_RATE :
        /\ [config EXCEPT !.oracle = TRUE] \in Config
        /\ [config EXCEPT !.swapRouter = TRUE] \in Config
        /\ [config EXCEPT !.feeAddress = TRUE] \in Config
        /\ [config EXCEPT !.minAmount = x] \in Config
        /\ [config EXCEPT !.lendFee = lf, !.borrowFee = bf] \in Config
  BY <1>0 DEF TypeOK, Config
<1>2. [config EXCEPT !.globalPaused = ~@] \in Config
  BY <1>0, Zenon DEF TypeOK, Config
<1>3. config' \in Config
  <2>1. CASE SetOracle \/ SetSwapRouterAddress \/ SetFeeAddress
    <3>1. 0 \in 0 .. MAX_FEE_RATE
      BY DEF MAX_FEE_RATE
    <3>. QED BY <1>1, <2>1, <3>1 DEF SetOracle, SetSwapRouterAddress,
                SetFeeAddress, Configure
  <2>2. CASE SetPause
    BY <1>2, <2>2 DEF SetPause, Configure
  <2>3. ASSUME NEW amount \in MinAmounts, SetMinAmount(amount)
        PROVE  config' \in Config
    <3>1. amount \in Nat /\ 0 \in 0 .. MAX_FEE_RATE
      BY BoundsAssumption DEF MAX_FEE_RATE
    <3>. QED BY <1>1, <2>3, <3>1 DEF SetMinAmount, Configure
  <2>4. ASSUME NEW lendFee \in FeeRates, NEW borrowFee \in FeeRates,
               SetFee(lendFee, borrowFee)
        PROVE  config' \in Config
    <3>1. lendFee \in 0 .. MAX_FEE_RATE /\ borrowFee \in 0 .. MAX_FEE_RATE
      <4>1. lendFee <= MAX_FEE_RATE /\ borrowFee <= MAX_FEE_RATE
        BY <2>4 DEF SetFee
      <4>2. lendFee \in Nat /\ borrowFee \in Nat
        BY BoundsAssumption
      <4>. QED BY <4>1, <4>2 DEF MAX_FEE_RATE
    <3>. QED BY <1>1, <2>4, <3>1 DEF SetFee, Configure
  <2>. QED BY <2>1, <2>2, <2>3, <2>4
<1>. QED BY <1>0, <1>3 DEF SetOracle, SetSwapRouterAddress, SetFeeAddress,
            SetPause, SetMinAmount, SetFee, Configure, positions, TypeOK

-----------------------------------------------------------------------------
(* What one step may do to one existing pool.                              *)

TermsKept(q) ==
  /\ pools'[q].pledgeRate = pools[q].pledgeRate
  /\ pools'[q].settleTime = pools[q].settleTime
  /\ pools'[q].endTime = pools[q].endTime
  /\ pools'[q].settleToken = pools[q].settleToken
  /\ pools'[q].pledgeToken = pools[q].pledgeToken

SuppliesKept(q) ==
  /\ pools'[q].lendSupply = pools[q].lendSupply
  /\ pools'[q].borrowSupply = pools[q].borrowSupply

AmountsKept(q) ==
  /\ pools'[q].settleAmountLend = pools[q].settleAmountLend
  /\ pools'[q].settleAmountBorrow = pools[q].settleAmountBorrow

PotsKept(q) ==
  /\ pools'[q].finishAmountLend = pools[q].finishAmountLend
  /\ pools'[q].liquidationAmountLend = pools[q].liquidationAmountLend

StepDeposit(q) ==
  /\ pools[q].state = "MATCH" /\ pools'[q].state = "MATCH"
  /\ pools'[q].lendSupply >= pools[q].lendSupply
  /\ pools'[q].borrowSupply >= pools[q].borrowSupply
  /\ AmountsKept(q) /\ PotsKept(q)

StepSettle(q) ==
  /\ pools[q].state = "MATCH"
  /\ SuppliesKept(q) /\ PotsKept(q)
  /\ pools'[q].settleAmountLend <= pools[q].lendSupply
  /\ pools'[q].settleAmountBorrow <= pools[q].borrowSupply
  /\ \/ pools'[q].state = "UNDONE"
     \/ /\ pools'[q].state = "EXECUTION"
        /\ pools[q].lendSupply > 0 /\ pools[q].borrowSupply > 0
        /\ pools'[q].settleAmountLend * pools[q].pledgeRate
               * price[pools[q].settleToken]
             < (pools'[q].settleAmountBorrow + 1) * RATE_BASE
                 * price[pools[q].pledgeToken]

StepClose(q) ==
  /\ pools[q].state = "EXECUTION"
  /\ SuppliesKept(q) /\ AmountsKept(q)
  /\ \/ /\ pools'[q].state = "FINISH"
        /\ pools'[q].finishAmountLend >= pools[q].settleAmountLend
     \/ /\ pools'[q].state = "LIQUIDATION"
        /\ pools'[q].liquidationAmountLend >= pools[q].settleAmountLend

(* The debt tokens of a pool and, by setPoolState, its state may also be   *)
(* replaced by the administrator.                                          *)
StepOverride(q) ==
  /\ SuppliesKept(q) /\ AmountsKept(q) /\ PotsKept(q)
  /\ "setPoolState" \notin AdminCalls => pools'[q].state = pools[q].state

PoolStep(q) ==
  /\ TermsKept(q)
  /\ StepDeposit(q) \/ StepSettle(q) \/ StepClose(q) \/ StepOverride(q)

LEMMA UntouchedPool ==
  ASSUME NEW q, pools'[q] = pools[q]
  PROVE  PoolStep(q)
  BY DEF PoolStep, TermsKept, StepOverride, SuppliesKept, AmountsKept, PotsKept

LEMMA DepositStep ==
  ASSUME TInv, NEW p \in PoolIds, NEW x \in Nat, pools[p].state = "MATCH",
         \/ pools' = [pools EXCEPT ![p].lendSupply = @ + x]
         \/ pools' = [pools EXCEPT ![p].borrowSupply = @ + x]
  PROVE  \A q \in PoolIds : PoolStep(q)
<1>0. pools \in [PoolIds -> Pool]
  BY DEF TInv, TypeOK
<1>1. ASSUME NEW q \in PoolIds, q # p PROVE PoolStep(q)
  <2>1. pools'[q] = pools[q]
    BY <1>0, <1>1
  <2>. QED BY <2>1, UntouchedPool
<1>2. PoolStep(p)
  <2>1. pools[p] \in Pool
    BY <1>0
  <2>2. TermsKept(p)
    BY <1>0, <2>1 DEF TermsKept, Pool
  <2>3. StepDeposit(p)
    BY <1>0, <2>1 DEF StepDeposit, AmountsKept, PotsKept, Pool
  <2>. QED BY <2>2, <2>3 DEF PoolStep
<1>. QED BY <1>1, <1>2

LEMMA SettleStep ==
  ASSUME TInv, NEW p \in PoolIds, SettleMatched(p) \/ SettleUndone(p)
  PROVE  \A q \in PoolIds : PoolStep(q)
<1>0. pools \in [PoolIds -> Pool] /\ TypeOK
  BY DEF TInv, TypeOK
<1>1. pools[p] \in Pool /\ pools[p].lendSupply \in Nat /\ pools[p].borrowSupply \in Nat
  BY <1>0, PoolFields
<1>2. CASE SettleMatched(p)
  <2> DEFINE pool    == pools[p]
             amounts == SettleAmounts(pool.lendSupply, pool.borrowSupply,
                          price[pool.pledgeToken], price[pool.settleToken],
                          pool.pledgeRate)
             x == amounts.lend
             y == amounts.borrow
  <2>1. /\ pools' = [pools EXCEPT ![p].settleAmountLend = x,
                                  ![p].settleAmountBorrow = y,
                                  ![p].state = "EXECUTION"]
        /\ x \in 0 .. pool.lendSupply
        /\ y \in 0 .. pool.borrowSupply
        /\ x * pool.pledgeRate * price[pool.settleToken]
             < (y + 1) * RATE_BASE * price[pool.pledgeToken]
    BY <1>2, SettleMatchedFields
  <2>2. pool.state = "MATCH" /\ pool.lendSupply > 0 /\ pool.borrowSupply > 0
    BY <1>2 DEF SettleMatched
  <2> HIDE DEF amounts, x, y
  <2>3. ASSUME NEW q \in PoolIds, q # p PROVE PoolStep(q)
    <3>1. pools'[q] = pools[q]
      BY <1>0, <2>1, <2>3
    <3>. QED BY <3>1, UntouchedPool
  <2>4. /\ pools'[p].settleAmountLend = x /\ pools'[p].settleAmountBorrow = y
        /\ pools'[p].state = "EXECUTION"
        /\ SuppliesKept(p) /\ PotsKept(p) /\ TermsKept(p)
    BY <1>0, <1>1, <2>1 DEF SuppliesKept, PotsKept, TermsKept, Pool
  <2>5. StepSettle(p)
    BY <1>1, <2>1, <2>2, <2>4 DEF StepSettle
  <2>. QED BY <2>3, <2>4, <2>5 DEF PoolStep
<1>3. CASE SettleUndone(p)
  <2>1. /\ pools' = [pools EXCEPT ![p].settleAmountLend = pools[p].lendSupply,
                                  ![p].settleAmountBorrow = pools[p].borrowSupply,
                                  ![p].state = "UNDONE"]
        /\ pools[p].state = "MATCH"
    BY <1>3 DEF SettleUndone
  <2>2. ASSUME NEW q \in PoolIds, q # p PROVE PoolStep(q)
    <3>1. pools'[q] = pools[q]
      BY <1>0, <2>1, <2>2
    <3>. QED BY <3>1, UntouchedPool
  <2>3. /\ pools'[p].settleAmountLend = pools[p].lendSupply
        /\ pools'[p].settleAmountBorrow = pools[p].borrowSupply
        /\ pools'[p].state = "UNDONE"
        /\ SuppliesKept(p) /\ PotsKept(p) /\ TermsKept(p)
    BY <1>0, <1>1, <2>1 DEF SuppliesKept, PotsKept, TermsKept, Pool
  <2>4. StepSettle(p)
    BY <1>1, <2>1, <2>3 DEF StepSettle
  <2>. QED BY <2>2, <2>3, <2>4 DEF PoolStep
<1>. QED BY <1>2, <1>3

LEMMA CloseStep ==
  ASSUME TInv, NEW p \in PoolIds, NEW q0 \in RouterQuotes,
         Finish(p, q0) \/ Liquidate(p, q0)
  PROVE  \A q \in PoolIds : PoolStep(q)
<1>0. pools \in [PoolIds -> Pool] /\ TypeOK
  BY DEF TInv, TypeOK
<1>1. pools[p] \in Pool
  BY <1>0
<1>2. CASE Finish(p, q0)
  <2> DEFINE duration == pools[p].endTime - pools[p].settleTime
             s == Sale(pools[p], duration, q0)
             x == s.got - s.excess
             y == s.left
  <2>1. duration \in Nat
    <3>1. p \in Created
      BY <1>2 DEF Finish, poolExists, Created, PoolIds
    <3>. QED BY <1>0, <3>1, PoolFields DEF TInv, TermsSane
  <2>2. x >= pools[p].settleAmountLend
    <3>1. SaleAllowed(pools[p], s)
      BY <1>2 DEF Finish
    <3>. QED BY <1>0, <2>1, <3>1, SaleFields
  <2>3. /\ pools[p].state = "EXECUTION"
        /\ pools' = [pools EXCEPT ![p].finishAmountLend = x,
                                  ![p].finishAmountBorrow = y,
                                  ![p].state = "FINISH"]
    BY <1>2 DEF Finish
  <2> HIDE DEF s, x, y
  <2>4. ASSUME NEW q \in PoolIds, q # p PROVE PoolStep(q)
    <3>1. pools'[q] = pools[q]
      BY <1>0, <2>3, <2>4
    <3>. QED BY <3>1, UntouchedPool
  <2>5. /\ pools'[p].finishAmountLend = x
        /\ pools'[p].state = "FINISH"
        /\ SuppliesKept(p) /\ AmountsKept(p) /\ TermsKept(p)
    BY <1>0, <1>1, <2>3 DEF SuppliesKept, AmountsKept, TermsKept, Pool
  <2>6. StepClose(p)
    BY <2>2, <2>3, <2>5 DEF StepClose
  <2>. QED BY <2>4, <2>5, <2>6 DEF PoolStep
<1>3. CASE Liquidate(p, q0)
  <2> DEFINE duration == now - pools[p].settleTime
             s == Sale(pools[p], duration, q0)
             x == s.got - s.excess
             y == s.left
  <2>1. duration \in Nat
    <3>1. now \in Nat /\ pools[p].settleTime \in Nat /\ now >= pools[p].settleTime
      BY <1>0, <1>3, PoolFields DEF Liquidate, TypeOK
    <3>. QED BY <3>1
  <2>2. x >= pools[p].settleAmountLend
    <3>1. SaleAllowed(pools[p], s)
      BY <1>3 DEF Liquidate
    <3>. QED BY <1>0, <2>1, <3>1, SaleFields
  <2>3. /\ pools[p].state = "EXECUTION"
        /\ pools' = [pools EXCEPT ![p].liquidationAmountLend = x,
                                  ![p].liquidationAmountBorrow = y,
                                  ![p].state = "LIQUIDATION"]
    BY <1>3 DEF Liquidate
  <2> HIDE DEF s, x, y
  <2>4. ASSUME NEW q \in PoolIds, q # p PROVE PoolStep(q)
    <3>1. pools'[q] = pools[q]
      BY <1>0, <2>3, <2>4
    <3>. QED BY <3>1, UntouchedPool
  <2>5. /\ pools'[p].liquidationAmountLend = x
        /\ pools'[p].state = "LIQUIDATION"
        /\ SuppliesKept(p) /\ AmountsKept(p) /\ TermsKept(p)
    BY <1>0, <1>1, <2>3 DEF SuppliesKept, AmountsKept, TermsKept, Pool
  <2>6. StepClose(p)
    BY <2>2, <2>3, <2>5 DEF StepClose
  <2>. QED BY <2>4, <2>5, <2>6 DEF PoolStep
<1>. QED BY <1>2, <1>3

LEMMA OverrideStep ==
  ASSUME TInv, NEW p \in PoolIds,
         \/ \E s \in PoolState : SetPoolState(p, s)
         \/ \E d \in DebtTokens : SetPoolSpToken(p, d)
         \/ \E d \in DebtTokens : SetPoolJpToken(p, d)
  PROVE  \A q \in PoolIds : PoolStep(q)
<1>0. pools \in [PoolIds -> Pool] /\ pools[p] \in Pool
  BY DEF TInv, TypeOK
<1>1. ASSUME NEW q \in PoolIds, q # p PROVE PoolStep(q)
  <2>1. pools'[q] = pools[q]
    BY <1>0, <1>1 DEF SetPoolState, SetPoolSpToken, SetPoolJpToken
  <2>. QED BY <2>1, UntouchedPool
<1>2. /\ TermsKept(p) /\ SuppliesKept(p) /\ AmountsKept(p) /\ PotsKept(p)
      /\ "setPoolState" \notin AdminCalls => pools'[p].state = pools[p].state
  BY <1>0 DEF SetPoolState, SetPoolSpToken, SetPoolJpToken, TermsKept,
     SuppliesKept, AmountsKept, PotsKept, Pool
<1>. QED BY <1>1, <1>2 DEF PoolStep, StepOverride

Fresh(q) ==
  /\ q \notin Created
  /\ pools'[q].state = "MATCH"
  /\ pools'[q].lendSupply = 0 /\ pools'[q].borrowSupply = 0
  /\ pools'[q].settleAmountLend = 0 /\ pools'[q].settleAmountBorrow = 0

LEMMA CreateStep ==
  ASSUME TInv,
         \/ \E t \in BareTerms : CreatePool(t)
         \/ \E t \in PoolTerms : CreatePoolInfo(t)
  PROVE  \A q \in PoolIds : (PoolStep(q) /\ q # poolCounter + 1) \/ Fresh(q)
<1>1. PICK t, time, sp, jp : AddPool(NewPool(t, time, sp, jp))
  BY DEF CreatePool, CreatePoolInfo
<1>2. /\ pools \in [PoolIds -> Pool] /\ poolCounter \in Nat
      /\ pools' = [pools EXCEPT ![poolCounter + 1] = NewPool(t, time, sp, jp)]
  BY <1>1, BoundsAssumption DEF AddPool, TInv, TypeOK
<1>3. ASSUME NEW q \in PoolIds, q # poolCounter + 1 PROVE PoolStep(q)
  <2>1. pools'[q] = pools[q]
    BY <1>2, <1>3
  <2>. QED BY <2>1, UntouchedPool
<1>4. ASSUME NEW q \in PoolIds, q = poolCounter + 1 PROVE Fresh(q)
  <2>1. pools'[q] = NewPool(t, time, sp, jp)
    BY <1>2, <1>4
  <2>2. q \notin Created
    BY <1>2, <1>4 DEF Created
  <2>. QED BY <2>1, <2>2 DEF Fresh, NewPool, NoPool
<1>. QED BY <1>3, <1>4

(* Every step of the contract, and of its environment, moves each pool by  *)
(* one of the steps above.                                                 *)
LEMMA EveryStep ==
  ASSUME TInv, [Next]_vars
  PROVE  /\ TInv'
         /\ \A q \in PoolIds : PoolStep(q) \/ Fresh(q)
         /\ \A q \in Created' : q \in Created \/ Fresh(q)
<1> DEFINE Kept == /\ TInv' /\ Created' = Created
                   /\ \A q \in PoolIds : PoolStep(q)
<1>0. TypeOK
  BY DEF TInv
<1>1. ASSUME UNCHANGED <<poolCounter, pools>>, TypeOK'
      PROVE  Kept
  <2>1. TermsSane'
    BY <1>1 DEF TInv, TermsSane, Created
  <2>. QED BY <1>1, <2>1, UntouchedPool DEF TInv, Created
<1>2. ASSUME UNCHANGED poolCounter, TypeOK', \A q \in PoolIds : PoolStep(q)
      PROVE  Kept
  <2>1. Created' = Created /\ Created \subseteq PoolIds
    BY <1>0, <1>2, BoundsAssumption DEF Created, PoolIds, TypeOK
  <2>2. \A q \in Created : TermsKept(q)
    BY <1>2, <2>1 DEF PoolStep
  <2>. QED BY <1>2, <2>1, <2>2 DEF TInv, TermsSane, TermsKept
<1>3. ASSUME \/ \E t \in BareTerms : CreatePool(t)
             \/ \E t \in PoolTerms : CreatePoolInfo(t)
      PROVE  /\ TInv'
             /\ \A q \in PoolIds : PoolStep(q) \/ Fresh(q)
             /\ \A q \in Created' : q \in Created \/ Fresh(q)
  <2>1. /\ TInv'
        /\ \A q \in PoolIds : (PoolStep(q) /\ q # poolCounter + 1) \/ Fresh(q)
    BY <1>3, CreateType, CreateStep
  <2>2. poolCounter' = poolCounter + 1
    BY <1>3 DEF CreatePool, CreatePoolInfo, AddPool
  <2>3. \A q \in Created' : q \in PoolIds /\ (q \in Created \/ q = poolCounter + 1)
    BY <1>0, <2>1, <2>2, BoundsAssumption DEF TInv, TypeOK, Created, PoolIds
  <2>. QED BY <2>1, <2>3
<1>5. ASSUME NEW p \in PoolIds, NEW u \in Users, Lend(p, u)
      PROVE  Kept
  <2>1. TypeOK' /\ UNCHANGED poolCounter
    BY <1>5, LendType DEF Lend, DepositLend, RefundLend, ClaimLend, WithdrawLend,
       EmergencyLendWithdrawal
  <2>2. CASE \E amount \in LendAmounts : DepositLend(p, u, amount)
    <3>1. PICK amount \in Nat : DepositLend(p, u, amount)
      BY <2>2, BoundsAssumption
    <3>2. /\ pools[p].state = "MATCH"
          /\ pools' = [pools EXCEPT ![p].lendSupply = @ + amount]
      BY <3>1 DEF DepositLend, validState
    <3>3. \A q \in PoolIds : PoolStep(q)
      BY <3>2, DepositStep
    <3>. QED BY <1>2, <2>1, <3>3
  <2>3. CASE ~\E amount \in LendAmounts : DepositLend(p, u, amount)
    <3>1. UNCHANGED pools
      BY <1>5, <2>3 DEF Lend, RefundLend, ClaimLend, WithdrawLend,
         EmergencyLendWithdrawal
    <3>. QED BY <1>1, <2>1, <3>1
  <2>. QED BY <2>2, <2>3
<1>6. ASSUME NEW p \in PoolIds, NEW u \in Users, Borrow(p, u)
      PROVE  Kept
  <2>1. TypeOK' /\ UNCHANGED poolCounter
    BY <1>6, BorrowType DEF Borrow, DepositBorrow, RefundBorrow, ClaimBorrow,
       WithdrawBorrow, EmergencyBorrowWithdrawal
  <2>2. CASE \E amount \in PledgeAmounts : DepositBorrow(p, u, amount)
    <3>1. PICK amount \in Nat : DepositBorrow(p, u, amount)
      BY <2>2, BoundsAssumption
    <3>2. /\ pools[p].state = "MATCH"
          /\ pools' = [pools EXCEPT ![p].borrowSupply = @ + amount]
      BY <3>1 DEF DepositBorrow, validState
    <3>3. \A q \in PoolIds : PoolStep(q)
      BY <3>2, DepositStep
    <3>. QED BY <1>2, <2>1, <3>3
  <2>3. CASE ~\E amount \in PledgeAmounts : DepositBorrow(p, u, amount)
    <3>1. UNCHANGED pools
      BY <1>6, <2>3 DEF Borrow, RefundBorrow, ClaimBorrow, WithdrawBorrow,
         EmergencyBorrowWithdrawal
    <3>. QED BY <1>1, <2>1, <3>1
  <2>. QED BY <2>2, <2>3
<1>7. ASSUME NEW p \in PoolIds, Advance(p)
      PROVE  Kept
  <2>1. TypeOK' /\ UNCHANGED poolCounter
    BY <1>7, AdvanceType DEF Advance, SettleMatched, SettleUndone, Finish, Liquidate
  <2>2. \A q \in PoolIds : PoolStep(q)
    BY <1>7, SettleStep, CloseStep DEF Advance
  <2>. QED BY <1>2, <2>1, <2>2
<1>8. ASSUME NEW p \in PoolIds,
             \/ \E s \in PoolState : SetPoolState(p, s)
             \/ \E d \in DebtTokens : SetPoolSpToken(p, d)
             \/ \E d \in DebtTokens : SetPoolJpToken(p, d)
      PROVE  Kept
  <2>1. TypeOK' /\ UNCHANGED poolCounter
    BY <1>8, AdministerType DEF SetPoolState, SetPoolSpToken, SetPoolJpToken
  <2>2. \A q \in PoolIds : PoolStep(q)
    BY <1>8, OverrideStep
  <2>. QED BY <1>2, <2>1, <2>2
<1>9. ASSUME \/ SetOracle \/ SetSwapRouterAddress \/ SetFeeAddress \/ SetPause
             \/ \E amount \in MinAmounts : SetMinAmount(amount)
             \/ \E lendFee, borrowFee \in FeeRates : SetFee(lendFee, borrowFee)
      PROVE  Kept
  <2>1. TypeOK'
    BY <1>9, ConfigureType
  <2>2. UNCHANGED <<poolCounter, pools>>
    BY <1>9 DEF SetOracle, SetSwapRouterAddress, SetFeeAddress, SetPause,
       SetMinAmount, SetFee, Configure
  <2>. QED BY <1>1, <2>1, <2>2
<1>10. ASSUME NEW d \in DebtTokens, NEW u \in Users, NEW v \in Users,
              NEW amount \in 1 .. MaxRedeem, TransferDebt(d, u, v, amount)
       PROVE  Kept
  <2>1. debt' \in [DebtTokens -> [Users -> Nat]]
    BY <1>0, <1>10, BoundsAssumption DEF TransferDebt, TypeOK
  <2>2. TypeOK'
    BY <1>0, <1>10, <2>1 DEF TransferDebt, positions, TypeOK
  <2>. QED BY <1>1, <1>10, <2>2 DEF TransferDebt
<1>11. ASSUME Tick PROVE Kept
  <2>1. now' \in Nat
    BY <1>0, <1>11 DEF Tick, TypeOK
  <2>2. TypeOK'
    BY <1>0, <1>11, <2>1 DEF Tick, positions, TypeOK
  <2>. QED BY <1>1, <1>11, <2>2 DEF Tick
<1>12. ASSUME UpdatePrices PROVE Kept
  <2>1. TypeOK'
    BY <1>0, <1>12 DEF UpdatePrices, positions, TypeOK
  <2>. QED BY <1>1, <1>12, <2>1 DEF UpdatePrices
<1>13. ASSUME UNCHANGED vars PROVE Kept
  <2>1. TypeOK'
    BY <1>0, <1>13 DEF vars, TypeOK
  <2>. QED BY <1>1, <1>13, <2>1 DEF vars
<1>14. Kept => /\ TInv'
               /\ \A q \in PoolIds : PoolStep(q) \/ Fresh(q)
               /\ \A q \in Created' : q \in Created \/ Fresh(q)
  OBVIOUS
<1> HIDE DEF Kept
<1>. QED
  BY <1>3, <1>5, <1>6, <1>7, <1>8, <1>9, <1>10, <1>11, <1>12, <1>13, <1>14
  DEF Next, Administer

-----------------------------------------------------------------------------
(* The theorems.                                                           *)

LEMMA Typed == Spec => []TInv
<1>1. TInv /\ [Next]_vars => TInv'
  BY EveryStep
<1>. QED BY InitType, <1>1, PTL DEF Spec

(* Every field, supply, balance and position stays in its type: under the  *)
(* guards of the code no difference goes below zero, the fees and the      *)
(* collateral left by a sale included.                                     *)
THEOREM TypeCorrect == Spec => []TypeOK
<1>1. TInv => TypeOK
  BY DEF TInv
<1>. QED BY Typed, <1>1, PTL

(* Settlement matches at most what each side deposited, in every pool and  *)
(* for good, even when the administrator forces pool states.               *)
THEOREM SettlementStaysBounded == Spec => []SettlementBounded
<1>1. Init => SettlementBounded
  BY DEF Init, SettlementBounded, NoPool
<1>2. TInv /\ SettlementBounded /\ [Next]_vars => SettlementBounded'
  <2>. SUFFICES ASSUME TInv, SettlementBounded, [Next]_vars, NEW q \in PoolIds
                PROVE  /\ pools'[q].settleAmountLend <= pools'[q].lendSupply
                       /\ pools'[q].settleAmountBorrow <= pools'[q].borrowSupply
    BY DEF SettlementBounded
  <2>1. TInv' /\ (PoolStep(q) \/ Fresh(q))
    BY EveryStep
  <2>2. /\ pools[q].settleAmountLend <= pools[q].lendSupply
        /\ pools[q].settleAmountBorrow <= pools[q].borrowSupply
    BY DEF SettlementBounded
  <2>3. /\ pools[q].lendSupply \in Nat /\ pools[q].borrowSupply \in Nat
        /\ pools[q].settleAmountLend \in Nat /\ pools[q].settleAmountBorrow \in Nat
        /\ pools'[q].lendSupply \in Nat /\ pools'[q].borrowSupply \in Nat
    <3>1. pools[q] \in Pool /\ pools'[q] \in Pool
      BY <2>1 DEF TInv, TypeOK
    <3>. QED BY <3>1 DEF Pool
  <2>. QED BY <2>1, <2>2, <2>3 DEF PoolStep, Fresh, StepDeposit, StepSettle,
              StepClose, StepOverride, SuppliesKept, AmountsKept
<1>. QED BY Typed, <1>1, <1>2, PTL DEF Spec

(* Unless the administrator may force pool states, a pool runs its course  *)
(* once and what settlement fixed never changes again.                     *)
THEOREM SettlementNeverReopens ==
  ASSUME "setPoolState" \notin AdminCalls
  PROVE  Spec => SettlementFinal
<1>1. ASSUME TInv, [Next]_vars, NEW q \in Created PROVE KeepsSettlement(q)
  <2>1. q \in PoolIds
    BY <1>1, BoundsAssumption DEF TInv, TypeOK, Created, PoolIds
  <2>2. PoolStep(q)
    BY <1>1, <2>1, EveryStep DEF Fresh
  <2>3. pools[q].state \in PoolState
    BY <1>1, <2>1 DEF TInv, TypeOK, Pool
  <2>4. <<pools[q].state, pools'[q].state>> \in
          {<<"MATCH", "EXECUTION">>, <<"MATCH", "UNDONE">>,
           <<"EXECUTION", "FINISH">>, <<"EXECUTION", "LIQUIDATION">>}
          \cup {<<s, s>> : s \in PoolState}
    BY <2>2, <2>3 DEF PoolStep, StepDeposit, StepSettle, StepClose, StepOverride
  <2>5. pools[q].state # "MATCH" => SuppliesKept(q) /\ AmountsKept(q)
    BY <2>2 DEF PoolStep, StepDeposit, StepSettle, StepClose, StepOverride
  <2>. QED BY <2>4, <2>5 DEF KeepsSettlement, SuppliesKept, AmountsKept
<1>2. TInv /\ [Next]_vars => [\A p \in Created : KeepsSettlement(p)]_vars
  BY <1>1
<1>. QED BY Typed, <1>2, PTL DEF Spec, SettlementFinal

(* Unless the administrator may force pool states, every settlement leaves *)
(* collateral worth the loan times the pledge rate, for every price, rate  *)
(* and supply.                                                             *)
THEOREM SettlementsAreCollateralised ==
  ASSUME "setPoolState" \notin AdminCalls
  PROVE  Spec => SettlementCollateralised
<1>1. ASSUME TInv, [Next]_vars, NEW q \in Created PROVE SettlesCollateralised(q)
  <2>1. q \in PoolIds
    BY <1>1, BoundsAssumption DEF TInv, TypeOK, Created, PoolIds
  <2>2. PoolStep(q)
    BY <1>1, <2>1, EveryStep DEF Fresh
  <2>. QED BY <2>2 DEF SettlesCollateralised, PoolStep, StepDeposit, StepSettle,
              StepClose, StepOverride
<1>2. TInv /\ [Next]_vars => [\A p \in Created : SettlesCollateralised(p)]_vars
  BY <1>1
<1>. QED BY Typed, <1>2, PTL DEF Spec, SettlementCollateralised

(* A settled pool has both sides; a closed one holds, for its lenders, at  *)
(* least the loan they made.                                               *)
PotsCoverLoan ==
  \A p \in Created :
    /\ pools[p].state \in Settled => pools[p].lendSupply > 0 /\ pools[p].borrowSupply > 0
    /\ pools[p].state = "FINISH" =>
         pools[p].finishAmountLend >= pools[p].settleAmountLend
    /\ pools[p].state = "LIQUIDATION" =>
         pools[p].liquidationAmountLend >= pools[p].settleAmountLend

LInv == TInv /\ SettlementBounded /\ PotsCoverLoan

LEMMA LInvEnough == LInv => LendersMadeWhole
<1>. SUFFICES ASSUME LInv, NEW p \in Created, NEW u \in Users,
                     Closed(p), pools[p].settleAmountLend > 0
              PROVE  LendRefund(p, u)
                       + Share(LendPot(pools[p]), SpShare(p, u),
                               pools[p].settleAmountLend)
                       >= lendInfos[p][u].amount - 1
  BY DEF LendersMadeWhole
<1> DEFINE lent == pools[p].lendSupply
           matched == pools[p].settleAmountLend
           pot == LendPot(pools[p])
           amount == lendInfos[p][u].amount
<1>1. TypeOK /\ p \in PoolIds
  BY BoundsAssumption DEF LInv, TInv, TypeOK, Created, PoolIds
<1>2. /\ lent \in Nat /\ matched \in Nat \ {0} /\ pot \in Nat /\ amount \in Nat
      /\ matched <= lent
  BY <1>1, PoolFields, InfoFields DEF LInv, SettlementBounded
<1>3. pot >= matched
  BY DEF LInv, PotsCoverLoan, Closed, LendPot
<1>4. SpShare(p, u) = Share(matched, amount, lent)
      /\ LendRefund(p, u) = Share(lent - matched, amount, lent)
  BY DEF SpShare, LendRefund
<1> HIDE DEF lent, matched, pot, amount
<1>5. /\ lent \in Nat \ {0} /\ matched \in 0 .. lent /\ lent - matched \in Nat
  BY <1>2
<1>6. /\ SpShare(p, u) \in Nat /\ LendRefund(p, u) \in Nat
      /\ LendRefund(p, u) + SpShare(p, u) >= amount - 1
  BY <1>2, <1>4, <1>5, ShareNat, SharesOfDeposit
<1>7. /\ Share(pot, SpShare(p, u), matched) >= SpShare(p, u)
      /\ Share(pot, SpShare(p, u), matched) \in Nat
  BY <1>2, <1>3, <1>6, ShareOfLargerPot, ShareNat
<1>8. LendRefund(p, u) + Share(pot, SpShare(p, u), matched) >= amount - 1
  BY <1>2, <1>6, <1>7
<1>. QED BY <1>8 DEF pot, matched, amount

LEMMA PotsCovered ==
  ASSUME "setPoolState" \notin AdminCalls
  PROVE  Spec => []LInv
<1>1. Init => PotsCoverLoan
  BY DEF Init, PotsCoverLoan, Created
<1>2. ASSUME TInv, SettlementBounded, PotsCoverLoan, [Next]_vars,
             NEW q \in Created'
      PROVE  /\ pools'[q].state \in Settled =>
                  pools'[q].lendSupply > 0 /\ pools'[q].borrowSupply > 0
             /\ pools'[q].state = "FINISH" =>
                  pools'[q].finishAmountLend >= pools'[q].settleAmountLend
             /\ pools'[q].state = "LIQUIDATION" =>
                  pools'[q].liquidationAmountLend >= pools'[q].settleAmountLend
  <2>1. /\ q \in Created \/ Fresh(q)
        /\ q \in Created => PoolStep(q)
    <3>1. /\ TInv'
          /\ \A r \in PoolIds : PoolStep(r) \/ Fresh(r)
          /\ \A r \in Created' : r \in Created \/ Fresh(r)
      BY <1>2, EveryStep
    <3>2. q \in PoolIds
      BY <1>2, <3>1, BoundsAssumption DEF TInv, TypeOK, Created, PoolIds
    <3>. QED BY <1>2, <3>1, <3>2 DEF Fresh
  <2>2. CASE Fresh(q)
    BY <2>2 DEF Fresh, Settled
  <2>3. CASE q \in Created
    <3>1. /\ pools[q].state \in Settled =>
               pools[q].lendSupply > 0 /\ pools[q].borrowSupply > 0
          /\ pools[q].state = "FINISH" =>
               pools[q].finishAmountLend >= pools[q].settleAmountLend
          /\ pools[q].state = "LIQUIDATION" =>
               pools[q].liquidationAmountLend >= pools[q].settleAmountLend
      BY <1>2, <2>3 DEF PotsCoverLoan
    <3>. QED BY <2>1, <2>3, <3>1 DEF PoolStep, StepDeposit, StepSettle, StepClose,
                StepOverride, SuppliesKept, AmountsKept, PotsKept, Settled
  <2>. QED BY <2>1, <2>2, <2>3
<1>3. TInv /\ SettlementBounded /\ PotsCoverLoan /\ [Next]_vars => PotsCoverLoan'
  BY <1>2 DEF PotsCoverLoan
<1>4. TInv /\ SettlementBounded /\ PotsCoverLoan => LInv
  BY DEF LInv
<1>. QED BY Typed, SettlementStaysBounded, <1>1, <1>3, <1>4, PTL DEF Spec

(* A lender of a closed pool gets the deposit back but for one unit of     *)
(* rounding, for every amount, rate, price and fee.                        *)
THEOREM LendersAreMadeWhole ==
  ASSUME "setPoolState" \notin AdminCalls
  PROVE  Spec => []LendersMadeWhole
  BY PotsCovered, LInvEnough, PTL

-----------------------------------------------------------------------------
(* What a pause leaves possible.                                           *)

PositionsStill ==
  \A p \in Created, u \in Users :
    /\ lendInfos'[p][u].amount = lendInfos[p][u].amount
    /\ borrowInfos'[p][u].settled = borrowInfos[p][u].settled
    /\ borrowInfos'[p][u].pledgeAmount = borrowInfos[p][u].pledgeAmount

Leaves(t) ==
  \/ balance'[t] >= balance[t]
  \/ \E p \in Created : pools[p].settleToken = t /\ WithdrawalOpen(pools[p])
  \/ \E p \in Created : /\ pools[p].pledgeToken = t
                       /\ pools[p].state = "EXECUTION"
                       /\ pools'[p].state \in {"FINISH", "LIQUIDATION"}

PauseKept == PositionsStill /\ \A t \in Tokens : Leaves(t)

LEMMA NothingMoves ==
  ASSUME TInv, UNCHANGED <<lendInfos, borrowInfos, balance>>
  PROVE  PauseKept
<1>1. \A t \in Tokens : balance[t] \in Nat
  BY DEF TInv, TypeOK
<1>. QED BY <1>1 DEF PauseKept, PositionsStill, Leaves

(* A sale takes collateral only.                                           *)
LEMMA SaleTakesCollateral ==
  ASSUME balance \in [Tokens -> Nat], NEW pool, NEW s, NEW t \in Tokens,
         s.sold \in Nat, s.got \in Nat, s.fee \in Nat, s.excess \in 0 .. s.got,
         SaleAllowed(pool, s), SettleBalances(pool, s), t # pool.pledgeToken
  PROVE  balance'[t] >= balance[t]
<1> DEFINE paid(x) == IF config.feeAddress THEN x ELSE 0
           mid     == [balance EXCEPT ![pool.pledgeToken] = @ - s.sold - paid(s.fee)]
<1>1. balance' = [mid EXCEPT ![pool.settleToken] = @ + s.got - paid(s.excess)]
  BY DEF SettleBalances
<1>2. mid[t] = balance[t] /\ balance[t] \in Nat /\ DOMAIN mid = Tokens
  OBVIOUS
<1>3. s.got - paid(s.excess) \in Nat
  OBVIOUS
<1> HIDE DEF mid
<1>4. balance'[t] = mid[t] \/ balance'[t] = mid[t] + s.got - paid(s.excess)
  BY <1>1, <1>2
<1> HIDE DEF paid
<1>. QED BY <1>2, <1>3, <1>4

LEMMA ClosingPaused ==
  ASSUME TInv, NEW p \in PoolIds, NEW q0 \in RouterQuotes, Finish(p, q0) \/ Liquidate(p, q0)
  PROVE  PauseKept
<1>0. TypeOK /\ pools \in [PoolIds -> Pool] /\ balance \in [Tokens -> Nat]
  BY DEF TInv, TypeOK
<1>1. p \in Created
  BY DEF Finish, Liquidate, poolExists, Created, PoolIds
<1>2. PICK duration \in Nat :
        /\ SaleAllowed(pools[p], Sale(pools[p], duration, q0))
        /\ SettleBalances(pools[p], Sale(pools[p], duration, q0))
  <2>1. CASE Finish(p, q0)
    <3>1. pools[p].endTime - pools[p].settleTime \in Nat
      BY <1>0, <1>1, PoolFields DEF TInv, TermsSane
    <3>. QED BY <2>1, <3>1 DEF Finish
  <2>2. CASE Liquidate(p, q0)
    <3>1. now - pools[p].settleTime \in Nat
      <4>1. now \in Nat /\ pools[p].settleTime \in Nat /\ now >= pools[p].settleTime
        BY <1>0, <2>2, PoolFields DEF Liquidate, TypeOK
      <4>. QED BY <4>1
    <3>. QED BY <2>2, <3>1 DEF Liquidate
  <2>. QED BY <2>1, <2>2
<1> DEFINE s == Sale(pools[p], duration, q0)
<1>3. /\ s.sold \in Nat /\ s.got \in Nat /\ s.fee \in Nat /\ s.excess \in 0 .. s.got
      /\ SaleAllowed(pools[p], s) /\ SettleBalances(pools[p], s)
  BY <1>0, <1>2, SaleFields
<1> HIDE DEF s
<1>4. ASSUME NEW t \in Tokens PROVE Leaves(t)
  <2>1. CASE t = pools[p].pledgeToken
    <3>0. p \in DOMAIN pools /\ "state" \in DOMAIN pools[p]
      BY <1>0, PoolFields DEF TInv, Pool
    <3>1. pools[p].state = "EXECUTION" /\ pools'[p].state \in {"FINISH", "LIQUIDATION"}
      <4>1. CASE Finish(p, q0)
        <5>1. pools[p].state = "EXECUTION"
          BY <4>1 DEF Finish
        <5>2. PICK x, y : pools' = [pools EXCEPT ![p].finishAmountLend = x,
                                                 ![p].finishAmountBorrow = y,
                                                 ![p].state = "FINISH"]
          BY <4>1 DEF Finish
        <5>. QED BY <3>0, <5>1, <5>2
      <4>2. CASE Liquidate(p, q0)
        <5>1. pools[p].state = "EXECUTION"
          BY <4>2 DEF Liquidate
        <5>2. PICK x, y : pools' = [pools EXCEPT ![p].liquidationAmountLend = x,
                                                 ![p].liquidationAmountBorrow = y,
                                                 ![p].state = "LIQUIDATION"]
          BY <4>2 DEF Liquidate
        <5>. QED BY <3>0, <5>1, <5>2
      <4>. QED BY <4>1, <4>2
    <3>. QED BY <1>1, <2>1, <3>1 DEF Leaves
  <2>2. CASE t # pools[p].pledgeToken
    BY <1>0, <1>3, <2>2, SaleTakesCollateral DEF Leaves
  <2>. QED BY <2>1, <2>2
<1>5. PositionsStill
  <2>1. CASE Finish(p, q0)
    BY <2>1 DEF Finish, positions, PositionsStill
  <2>2. CASE Liquidate(p, q0)
    <3>. SUFFICES ASSUME NEW r \in Created, NEW u \in Users
                  PROVE  /\ borrowInfos'[r][u].settled = borrowInfos[r][u].settled
                         /\ borrowInfos'[r][u].pledgeAmount = borrowInfos[r][u].pledgeAmount
      BY <2>2 DEF Liquidate, PositionsStill
    <3>1. borrowInfos \in [PoolIds -> [Users -> BorrowInfo]] /\ r \in PoolIds
      BY <1>0, BoundsAssumption DEF TypeOK, Created, PoolIds
    <3>2. \/ borrowInfos'[r][u] = borrowInfos[r][u]
          \/ borrowInfos'[r][u] = [borrowInfos[r][u] EXCEPT !.liquidated = TRUE]
      BY <2>2, <3>1 DEF Liquidate
    <3>3. borrowInfos[r][u] \in BorrowInfo
      BY <3>1
    <3>. QED BY <3>2, <3>3 DEF BorrowInfo
  <2>. QED BY <2>1, <2>2
<1>. QED BY <1>4, <1>5 DEF PauseKept

LEMMA LendingPaused ==
  ASSUME TInv, config.globalPaused, NEW p \in PoolIds, NEW u \in Users, Lend(p, u)
  PROVE  PauseKept
<1>0. TypeOK
  BY DEF TInv
<1>1. ClaimLend(p, u) \/ \E sp \in 1 .. MaxRedeem : WithdrawLend(p, u, sp)
  BY DEF Lend, DepositLend, RefundLend, EmergencyLendWithdrawal, notPaused
<1>2. CASE ClaimLend(p, u)
  <2>1. UNCHANGED <<borrowInfos, balance>>
    BY <1>2 DEF ClaimLend
  <2>2. ASSUME NEW r \in Created, NEW v \in Users
        PROVE  lendInfos'[r][v].amount = lendInfos[r][v].amount
    <3>1. lendInfos \in [PoolIds -> [Users -> LendInfo]] /\ r \in PoolIds
      BY <1>0, BoundsAssumption DEF TypeOK, Created, PoolIds
    <3>2. lendInfos[r][v] \in LendInfo
      BY <3>1
    <3>3. PICK sp : lendInfos' = [lendInfos EXCEPT ![p][u].claimed = TRUE,
                                                   ![p][u].lendAmount = sp]
      BY <1>2 DEF ClaimLend
    <3>. QED BY <3>1, <3>2, <3>3 DEF LendInfo
  <2>3. \A t \in Tokens : balance[t] \in Nat
    BY <1>0 DEF TypeOK
  <2>. QED BY <2>1, <2>2, <2>3 DEF PauseKept, PositionsStill, Leaves
<1>3. CASE \E sp \in 1 .. MaxRedeem : WithdrawLend(p, u, sp)
  <2>1. PICK redeem : Transfer(pools[p].settleToken, redeem)
    BY <1>3 DEF WithdrawLend
  <2>2. /\ UNCHANGED <<lendInfos, borrowInfos>> /\ WithdrawalOpen(pools[p]) /\ poolExists(p)
    BY <1>3 DEF WithdrawLend, positions
  <2>3. p \in Created
    BY <2>2 DEF poolExists, Created, PoolIds
  <2>4. ASSUME NEW t \in Tokens PROVE Leaves(t)
    <3>1. CASE t = pools[p].settleToken
      BY <2>2, <2>3, <3>1 DEF Leaves
    <3>2. CASE t # pools[p].settleToken
      <4>1. balance'[t] = balance[t] /\ balance[t] \in Nat
        BY <1>0, <2>1, <3>2 DEF Transfer, TypeOK
      <4>. QED BY <4>1 DEF Leaves
    <3>. QED BY <3>1, <3>2
  <2>. QED BY <2>2, <2>4 DEF PauseKept, PositionsStill
<1>. QED BY <1>1, <1>2, <1>3

(* While the contract is paused no position grows and no borrower acts,    *)
(* and tokens leave only to lenders of closed pools or to repay a loan     *)
(* that is closed, whatever pools there are and however they share tokens. *)
THEOREM PauseFreezes == Spec => PauseFreezesBorrowers
<1>1. ASSUME TInv, config.globalPaused, [Next]_vars PROVE PauseKept
  <2>1. ASSUME NEW p \in PoolIds, NEW u \in Users, Lend(p, u) PROVE PauseKept
    BY <1>1, <2>1, LendingPaused
  <2>2. ASSUME NEW p \in PoolIds, NEW u \in Users, Borrow(p, u) PROVE FALSE
    BY <1>1, <2>2 DEF Borrow, DepositBorrow, RefundBorrow, ClaimBorrow, WithdrawBorrow,
                      EmergencyBorrowWithdrawal, notPaused
  <2>3. ASSUME NEW p \in PoolIds, Advance(p) PROVE PauseKept
    <3>1. CASE SettleMatched(p) \/ SettleUndone(p)
      BY <1>1, <3>1, NothingMoves DEF SettleMatched, SettleUndone, positions
    <3>2. CASE \E q \in RouterQuotes : Finish(p, q) \/ Liquidate(p, q)
      BY <1>1, <3>2, ClosingPaused
    <3>. QED BY <2>3, <3>1, <3>2 DEF Advance
  <2>4. CASE Administer
    <3>1. UNCHANGED <<lendInfos, borrowInfos, balance>>
      BY <2>4 DEF Administer, CreatePool, CreatePoolInfo, AddPool, SetPoolState, SetPoolSpToken,
                  SetPoolJpToken, SetOracle, SetSwapRouterAddress, SetFeeAddress, SetPause,
                  SetMinAmount, SetFee, Configure, positions
    <3>. QED BY <1>1, <3>1, NothingMoves
  <2>5. ASSUME NEW d \in DebtTokens, NEW u \in Users, NEW v \in Users,
               NEW amount \in 1 .. MaxRedeem, TransferDebt(d, u, v, amount)
        PROVE  PauseKept
    BY <1>1, <2>5, NothingMoves DEF TransferDebt, positions
  <2>6. CASE Tick \/ UpdatePrices \/ UNCHANGED vars
    BY <1>1, <2>6, NothingMoves DEF Tick, UpdatePrices, vars, positions
  <2>. QED BY <1>1, <2>1, <2>2, <2>3, <2>4, <2>5, <2>6 DEF Next
<1>2. TInv /\ [Next]_vars =>
        [config.globalPaused =>
           /\ \A p \in Created, u \in Users :
                /\ lendInfos'[p][u].amount = lendInfos[p][u].amount
                /\ borrowInfos'[p][u].settled = borrowInfos[p][u].settled
                /\ borrowInfos'[p][u].pledgeAmount = borrowInfos[p][u].pledgeAmount
           /\ \A t \in Tokens :
                \/ balance'[t] >= balance[t]
                \/ \E p \in Created : pools[p].settleToken = t /\ WithdrawalOpen(pools[p])
                \/ \E p \in Created : /\ pools[p].pledgeToken = t
                                     /\ pools[p].state = "EXECUTION"
                                     /\ pools'[p].state \in {"FINISH", "LIQUIDATION"}]_vars
  BY <1>1 DEF PauseKept, PositionsStill, Leaves
<1>. QED BY Typed, <1>2, PTL DEF Spec, PauseFreezesBorrowers
=============================================================================
