------------------------- MODULE PoolSolvencyProofs -------------------------
(***************************************************************************)
(* The books of PledgePool: that every supply is the sum of the positions, *)
(* that claims are never over-issued, and that the contract holds what all *)
(* the pools owe, for every set of users, pools, tokens, terms and prices. *)
(***************************************************************************)
EXTENDS PledgePoolProofs, SumProofs

-----------------------------------------------------------------------------
(* What one step may do to the positions in one pool.                      *)

LendSideKept(q) ==
  /\ pools'[q].lendSupply = pools[q].lendSupply
  /\ \A u \in Users : /\ lendInfos'[q][u].amount = lendInfos[q][u].amount
                      /\ lenders'[q][u] = lenders[q][u]

BorrowSideKept(q) ==
  /\ pools'[q].borrowSupply = pools[q].borrowSupply
  /\ \A u \in Users :
       /\ borrowInfos'[q][u].pledgeAmount = borrowInfos[q][u].pledgeAmount
       /\ borrowers'[q][u] = borrowers[q][u]

LendAdded(q) ==
  \E u \in Users, x \in Nat \ {0} :
    /\ q \in Created
    /\ pools'[q].lendSupply = pools[q].lendSupply + x
    /\ lendInfos'[q][u].amount = lendInfos[q][u].amount + x
    /\ lenders'[q][u] = IF lendInfos[q][u].amount = 0 THEN lenders[q][u] + 1
                                                      ELSE lenders[q][u]
    /\ \A v \in Users \ {u} : /\ lendInfos'[q][v].amount = lendInfos[q][v].amount
                              /\ lenders'[q][v] = lenders[q][v]

PledgeAdded(q) ==
  \E u \in Users, x \in Nat \ {0} :
    /\ q \in Created
    /\ pools'[q].borrowSupply = pools[q].borrowSupply + x
    /\ borrowInfos'[q][u].pledgeAmount = borrowInfos[q][u].pledgeAmount + x
    /\ borrowers'[q][u] = IF borrowInfos[q][u].pledgeAmount = 0
                          THEN borrowers[q][u] + 1 ELSE borrowers[q][u]
    /\ \A v \in Users \ {u} :
         /\ borrowInfos'[q][v].pledgeAmount = borrowInfos[q][v].pledgeAmount
         /\ borrowers'[q][v] = borrowers[q][v]

PositionStep(q) ==
  /\ LendSideKept(q) \/ LendAdded(q)
  /\ BorrowSideKept(q) \/ PledgeAdded(q)

(* A pool that does not exist has no supply.                               *)
NothingBeforeCreation ==
  \A q \in PoolIds \ Created : pools[q].lendSupply = 0 /\ pools[q].borrowSupply = 0

LEMMA LendPositions ==
  ASSUME TypeOK, NEW p \in PoolIds, NEW u \in Users, Lend(p, u)
  PROVE  \A q \in PoolIds : PositionStep(q)
<1>0. /\ pools \in [PoolIds -> Pool]
      /\ lendInfos \in [PoolIds -> [Users -> LendInfo]]
      /\ lenders \in [PoolIds -> [Users -> Nat]]
  BY DEF TypeOK
<1>1. \A q \in PoolIds : BorrowSideKept(q)
  <2>1. UNCHANGED <<borrowInfos, borrowers>>
    BY DEF Lend, DepositLend, RefundLend, ClaimLend, WithdrawLend,
       EmergencyLendWithdrawal, positions
  <2>2. ASSUME NEW q \in PoolIds PROVE pools'[q].borrowSupply = pools[q].borrowSupply
    <3>1. CASE \E amount \in LendAmounts : DepositLend(p, u, amount)
      BY <1>0, <3>1 DEF DepositLend, Pool
    <3>2. CASE UNCHANGED pools
      BY <3>2
    <3>. QED BY <3>1, <3>2 DEF Lend, RefundLend, ClaimLend, WithdrawLend,
                EmergencyLendWithdrawal
  <2>. QED BY <2>1, <2>2 DEF BorrowSideKept
<1>2. ASSUME NEW amount \in LendAmounts, DepositLend(p, u, amount), NEW q \in PoolIds
      PROVE  LendSideKept(q) \/ LendAdded(q)
  <2>1. amount \in Nat \ {0} /\ p \in Created
    BY <1>2, BoundsAssumption DEF DepositLend, poolExists, Created, PoolIds
  <2>2. /\ pools' = [pools EXCEPT ![p].lendSupply = @ + amount]
        /\ lendInfos' = [lendInfos EXCEPT ![p][u].amount = @ + amount,
                                          ![p][u].claimed = FALSE,
                                          ![p][u].refunded = FALSE]
        /\ lenders' = Enlist(lenders, p, u, lendInfos[p][u].amount)
    BY <1>2 DEF DepositLend
  <2>3. /\ pools'[p].lendSupply = pools[p].lendSupply + amount
        /\ q # p => pools'[q] = pools[q]
    BY <1>0, <2>2 DEF Pool
  <2>4. /\ lendInfos'[p][u].amount = lendInfos[p][u].amount + amount
        /\ \A v \in Users \ {u} : lendInfos'[p][v] = lendInfos[p][v]
        /\ q # p => lendInfos'[q] = lendInfos[q]
    BY <1>0, <2>2 DEF LendInfo
  <2>5. /\ lenders'[p][u] = IF lendInfos[p][u].amount = 0 THEN lenders[p][u] + 1
                                                          ELSE lenders[p][u]
        /\ \A v \in Users \ {u} : lenders'[p][v] = lenders[p][v]
        /\ q # p => lenders'[q] = lenders[q]
    BY <1>0, <2>2 DEF Enlist
  <2>6. CASE q = p
    BY <2>1, <2>3, <2>4, <2>5, <2>6 DEF LendAdded
  <2>7. CASE q # p
    BY <2>3, <2>4, <2>5, <2>7 DEF LendSideKept
  <2>. QED BY <2>6, <2>7
<1>3. ASSUME UNCHANGED <<pools, lenders>>, NEW q \in PoolIds,
             \/ UNCHANGED lendInfos
             \/ lendInfos' = [lendInfos EXCEPT ![p][u].refunded = TRUE]
             \/ \E sp : lendInfos' = [lendInfos EXCEPT ![p][u].claimed = TRUE,
                                                       ![p][u].lendAmount = sp]
      PROVE  LendSideKept(q)
  <2>1. CASE UNCHANGED lendInfos
    BY <1>3, <2>1 DEF LendSideKept
  <2>2. CASE lendInfos' = [lendInfos EXCEPT ![p][u].refunded = TRUE]
    BY <1>0, <1>3, <2>2 DEF LendInfo, LendSideKept
  <2>3. ASSUME NEW sp, lendInfos' = [lendInfos EXCEPT ![p][u].claimed = TRUE,
                                                      ![p][u].lendAmount = sp]
        PROVE  LendSideKept(q)
    BY <1>0, <1>3, <2>3 DEF LendInfo, LendSideKept
  <2>. QED BY <1>3, <2>1, <2>2, <2>3
<1>4. ASSUME \/ RefundLend(p, u) \/ ClaimLend(p, u) \/ EmergencyLendWithdrawal(p, u)
             \/ \E sp \in 1 .. MaxRedeem : WithdrawLend(p, u, sp)
      PROVE  \A q \in PoolIds : LendSideKept(q)
  BY <1>3, <1>4 DEF RefundLend, ClaimLend, EmergencyLendWithdrawal, WithdrawLend,
     MarkRefunded, positions
<1>. QED BY <1>1, <1>2, <1>4 DEF Lend, PositionStep

LEMMA BorrowPositions ==
  ASSUME TypeOK, NEW p \in PoolIds, NEW u \in Users, Borrow(p, u)
  PROVE  \A q \in PoolIds : PositionStep(q)
<1>0. /\ pools \in [PoolIds -> Pool]
      /\ borrowInfos \in [PoolIds -> [Users -> BorrowInfo]]
      /\ borrowers \in [PoolIds -> [Users -> Nat]]
  BY DEF TypeOK
<1>1. \A q \in PoolIds : LendSideKept(q)
  <2>1. UNCHANGED <<lendInfos, lenders>>
    BY DEF Borrow, DepositBorrow, RefundBorrow, ClaimBorrow, WithdrawBorrow,
       EmergencyBorrowWithdrawal, positions
  <2>2. ASSUME NEW q \in PoolIds PROVE pools'[q].lendSupply = pools[q].lendSupply
    <3>1. CASE \E amount \in PledgeAmounts : DepositBorrow(p, u, amount)
      BY <1>0, <3>1 DEF DepositBorrow, Pool
    <3>2. CASE UNCHANGED pools
      BY <3>2
    <3>. QED BY <3>1, <3>2 DEF Borrow, RefundBorrow, ClaimBorrow, WithdrawBorrow,
                EmergencyBorrowWithdrawal
  <2>. QED BY <2>1, <2>2 DEF LendSideKept
<1>2. ASSUME NEW amount \in PledgeAmounts, DepositBorrow(p, u, amount),
             NEW q \in PoolIds
      PROVE  BorrowSideKept(q) \/ PledgeAdded(q)
  <2>1. amount \in Nat \ {0} /\ p \in Created
    BY <1>2, BoundsAssumption DEF DepositBorrow, poolExists, Created, PoolIds
  <2>2. /\ pools' = [pools EXCEPT ![p].borrowSupply = @ + amount]
        /\ borrowInfos' = [borrowInfos EXCEPT ![p][u].pledgeAmount = @ + amount,
                                              ![p][u].settled = FALSE,
                                              ![p][u].liquidated = FALSE]
        /\ borrowers' = Enlist(borrowers, p, u, borrowInfos[p][u].pledgeAmount)
    BY <1>2 DEF DepositBorrow
  <2>3. /\ pools'[p].borrowSupply = pools[p].borrowSupply + amount
        /\ q # p => pools'[q] = pools[q]
    BY <1>0, <2>2 DEF Pool
  <2>4. /\ borrowInfos'[p][u].pledgeAmount = borrowInfos[p][u].pledgeAmount + amount
        /\ \A v \in Users \ {u} : borrowInfos'[p][v] = borrowInfos[p][v]
        /\ q # p => borrowInfos'[q] = borrowInfos[q]
    BY <1>0, <2>2 DEF BorrowInfo
  <2>5. /\ borrowers'[p][u] = IF borrowInfos[p][u].pledgeAmount = 0
                              THEN borrowers[p][u] + 1 ELSE borrowers[p][u]
        /\ \A v \in Users \ {u} : borrowers'[p][v] = borrowers[p][v]
        /\ q # p => borrowers'[q] = borrowers[q]
    BY <1>0, <2>2 DEF Enlist
  <2>6. CASE q = p
    BY <2>1, <2>3, <2>4, <2>5, <2>6 DEF PledgeAdded
  <2>7. CASE q # p
    BY <2>3, <2>4, <2>5, <2>7 DEF BorrowSideKept
  <2>. QED BY <2>6, <2>7
<1>3. ASSUME UNCHANGED <<pools, borrowers>>, NEW q \in PoolIds,
             \/ UNCHANGED borrowInfos
             \/ borrowInfos' = [borrowInfos EXCEPT ![p][u].settled = TRUE]
             \/ \E loan : borrowInfos' = [borrowInfos EXCEPT
                            ![p][u].borrowAmount = loan, ![p][u].settled = TRUE]
      PROVE  BorrowSideKept(q)
  <2>1. CASE UNCHANGED borrowInfos
    BY <1>3, <2>1 DEF BorrowSideKept
  <2>2. CASE borrowInfos' = [borrowInfos EXCEPT ![p][u].settled = TRUE]
    BY <1>0, <1>3, <2>2 DEF BorrowInfo, BorrowSideKept
  <2>3. ASSUME NEW loan,
               borrowInfos' = [borrowInfos EXCEPT ![p][u].borrowAmount = loan,
                                                  ![p][u].settled = TRUE]
        PROVE  BorrowSideKept(q)
    BY <1>0, <1>3, <2>3 DEF BorrowInfo, BorrowSideKept
  <2>. QED BY <1>3, <2>1, <2>2, <2>3
<1>4. ASSUME \/ RefundBorrow(p, u) \/ ClaimBorrow(p, u)
             \/ EmergencyBorrowWithdrawal(p, u)
             \/ \E jp \in 1 .. MaxRedeem : WithdrawBorrow(p, u, jp)
      PROVE  \A q \in PoolIds : BorrowSideKept(q)
  BY <1>3, <1>4 DEF RefundBorrow, ClaimBorrow, EmergencyBorrowWithdrawal,
     WithdrawBorrow, positions
<1>. QED BY <1>1, <1>2, <1>4 DEF Borrow, PositionStep

LEMMA OtherPositions ==
  ASSUME TInv, NothingBeforeCreation,
         Administer \/ (\E p \in PoolIds : Advance(p)) \/ Tick \/ UpdatePrices
           \/ UNCHANGED vars
           \/ \E d \in DebtTokens, u, v \in Users, amount \in 1 .. MaxRedeem :
                TransferDebt(d, u, v, amount)
  PROVE  \A q \in PoolIds : PositionStep(q)
<1>0. TypeOK
  BY DEF TInv
<1>. SUFFICES ASSUME NEW q \in PoolIds PROVE PositionStep(q)
  OBVIOUS
<1>1. /\ UNCHANGED <<lendInfos, lenders, borrowers>>
      /\ \A u \in Users :
           borrowInfos'[q][u].pledgeAmount = borrowInfos[q][u].pledgeAmount
  <2>1. CASE \E p \in PoolIds, r \in RouterQuotes : Liquidate(p, r)
    <3>1. PICK p \in PoolIds, r \in RouterQuotes : Liquidate(p, r)
      BY <2>1
    <3>2. borrowInfos \in [PoolIds -> [Users -> BorrowInfo]]
      BY <1>0 DEF TypeOK
    <3>3. UNCHANGED <<lendInfos, lenders, borrowers>>
      BY <3>1 DEF Liquidate
    <3>4. borrowInfos' = [borrowInfos EXCEPT ![p] =
            [u \in Users |-> IF borrowers[p][u] > 0 /\ CountsInHealth(@[u])
                             THEN [@[u] EXCEPT !.liquidated = TRUE] ELSE @[u]]]
      BY <3>1 DEF Liquidate
    <3>5. \A u \in Users :
            borrowInfos'[q][u].pledgeAmount = borrowInfos[q][u].pledgeAmount
      <4>. SUFFICES ASSUME NEW u \in Users
                    PROVE  borrowInfos'[q][u].pledgeAmount = borrowInfos[q][u].pledgeAmount
        OBVIOUS
      <4>1. \/ borrowInfos'[q][u] = borrowInfos[q][u]
            \/ borrowInfos'[q][u] = [borrowInfos[q][u] EXCEPT !.liquidated = TRUE]
        BY <3>2, <3>4
      <4>2. borrowInfos[q][u] \in BorrowInfo
        BY <3>2
      <4>. QED BY <4>1, <4>2 DEF BorrowInfo
    <3>. QED BY <3>3, <3>5
  <2>2. CASE ~ \E p \in PoolIds, r \in RouterQuotes : Liquidate(p, r)
    <3>1. UNCHANGED positions
      BY <2>2 DEF Administer, Advance, Tick, UpdatePrices, TransferDebt, vars,
         positions, CreatePool, CreatePoolInfo, AddPool, SetPoolState,
         SetPoolSpToken, SetPoolJpToken, SetOracle, SetSwapRouterAddress,
         SetFeeAddress, SetPause, SetMinAmount, SetFee, Configure,
         SettleMatched, SettleUndone, Finish
    <3>. QED BY <3>1 DEF positions
  <2>. QED BY <2>1, <2>2
<1>2. SuppliesKept(q)
  <2>1. CASE \/ \E t \in BareTerms : CreatePool(t)
             \/ \E t \in PoolTerms : CreatePoolInfo(t)
    <3>1. PICK pool : AddPool(pool)
      BY <2>1 DEF CreatePool, CreatePoolInfo
    <3>2. q # poolCounter + 1 => pools'[q] = pools[q]
      BY <1>0, <3>1 DEF AddPool, TypeOK
    <3>3. CASE q # poolCounter + 1
      BY <3>2, <3>3 DEF SuppliesKept
    <3>4. CASE q = poolCounter + 1
      <4>1. Fresh(q)
        BY <2>1, <3>4, CreateStep
      <4>. QED BY <4>1 DEF Fresh, NothingBeforeCreation, SuppliesKept
    <3>. QED BY <3>3, <3>4
  <2>2. CASE \E p \in PoolIds : Advance(p)
    <3>1. PICK p \in PoolIds : Advance(p)
      BY <2>2
    <3>2. pools \in [PoolIds -> Pool]
      BY <1>0 DEF TypeOK
    <3>3. PICK x, y, s :
            \/ pools' = [pools EXCEPT ![p].settleAmountLend = x,
                                      ![p].settleAmountBorrow = y, ![p].state = s]
            \/ pools' = [pools EXCEPT ![p].finishAmountLend = x,
                                      ![p].finishAmountBorrow = y, ![p].state = s]
            \/ pools' = [pools EXCEPT ![p].liquidationAmountLend = x,
                                      ![p].liquidationAmountBorrow = y, ![p].state = s]
      <4>1. CASE SettleMatched(p)
        BY <4>1 DEF SettleMatched
      <4>2. CASE SettleUndone(p)
        BY <4>2 DEF SettleUndone
      <4>3. CASE \E r \in RouterQuotes : Finish(p, r)
        <5>1. PICK r \in RouterQuotes : Finish(p, r)
          BY <4>3
        <5>2. PICK x, y : pools' = [pools EXCEPT ![p].finishAmountLend = x,
                                                 ![p].finishAmountBorrow = y,
                                                 ![p].state = "FINISH"]
          BY <5>1 DEF Finish
        <5>. QED BY <5>2
      <4>4. CASE \E r \in RouterQuotes : Liquidate(p, r)
        <5>1. PICK r \in RouterQuotes : Liquidate(p, r)
          BY <4>4
        <5>2. PICK x, y : pools' = [pools EXCEPT ![p].liquidationAmountLend = x,
                                                 ![p].liquidationAmountBorrow = y,
                                                 ![p].state = "LIQUIDATION"]
          BY <5>1 DEF Liquidate
        <5>. QED BY <5>2
      <4>. QED BY <3>1, <4>1, <4>2, <4>3, <4>4 DEF Advance
    <3>4. q \in PoolIds /\ pools[q] \in Pool
      BY <3>2
    <3>. QED BY <3>2, <3>3, <3>4 DEF SuppliesKept, Pool
  <2>3. CASE \E p \in PoolIds :
               \/ \E s \in PoolState : SetPoolState(p, s)
               \/ \E d \in DebtTokens : SetPoolSpToken(p, d)
               \/ \E d \in DebtTokens : SetPoolJpToken(p, d)
    <3>1. pools \in [PoolIds -> Pool]
      BY <1>0 DEF TypeOK
    <3>. QED BY <2>3, <3>1 DEF SetPoolState, SetPoolSpToken, SetPoolJpToken,
                SuppliesKept, Pool
  <2>4. CASE UNCHANGED pools
    BY <2>4 DEF SuppliesKept
  <2>. QED BY <2>1, <2>2, <2>3, <2>4 DEF Administer, Tick, UpdatePrices, TransferDebt,
              vars, SetOracle, SetSwapRouterAddress, SetFeeAddress, SetPause,
              SetMinAmount, SetFee, Configure
<1>. QED BY <1>1, <1>2 DEF PositionStep, LendSideKept, BorrowSideKept, SuppliesKept

LEMMA EveryPositionStep ==
  ASSUME TInv, NothingBeforeCreation, [Next]_vars
  PROVE  /\ \A q \in PoolIds : PositionStep(q)
         /\ NothingBeforeCreation'
<1>1. \A q \in PoolIds : PositionStep(q)
  BY LendPositions, BorrowPositions, OtherPositions DEF Next, TInv
<1>2. Created \subseteq Created'
  <2>1. poolCounter' = poolCounter \/ poolCounter' = poolCounter + 1
    <3>1. CASE \/ \E t \in BareTerms : CreatePool(t)
               \/ \E t \in PoolTerms : CreatePoolInfo(t)
      BY <3>1 DEF CreatePool, CreatePoolInfo, AddPool
    <3>2. ASSUME NEW p \in PoolIds, NEW u \in Users, Lend(p, u) \/ Borrow(p, u)
          PROVE  UNCHANGED poolCounter
      BY <3>2 DEF Lend, DepositLend, RefundLend, ClaimLend, WithdrawLend,
         EmergencyLendWithdrawal, Borrow, DepositBorrow, RefundBorrow, ClaimBorrow,
         WithdrawBorrow, EmergencyBorrowWithdrawal
    <3>3. ASSUME NEW p \in PoolIds, Advance(p) PROVE UNCHANGED poolCounter
      BY <3>3 DEF Advance, SettleMatched, SettleUndone, Finish, Liquidate
    <3>4. CASE UNCHANGED vars \/ Tick \/ UpdatePrices
      BY <3>4 DEF vars, Tick, UpdatePrices
    <3>. QED BY <3>1, <3>2, <3>3, <3>4 DEF Next, TransferDebt, Administer,
                SetPoolState, SetPoolSpToken, SetPoolJpToken, SetOracle,
                SetSwapRouterAddress, SetFeeAddress, SetPause, SetMinAmount,
                SetFee, Configure
  <2>2. poolCounter \in Nat
    BY DEF TInv, TypeOK
  <2>. QED BY <2>1, <2>2 DEF Created
<1>3. ASSUME NEW q \in PoolIds \ Created'
      PROVE  pools'[q].lendSupply = 0 /\ pools'[q].borrowSupply = 0
  <2>1. q \notin Created
    BY <1>2
  <2>. QED BY <1>1, <2>1 DEF PositionStep, LendAdded, PledgeAdded, LendSideKept,
              BorrowSideKept, NothingBeforeCreation
<1>. QED BY <1>1, <1>3 DEF NothingBeforeCreation

-----------------------------------------------------------------------------
(* The supplies are the sums of the positions.                             *)

(* Amounts that change by x for one user change by x in sum, and the user  *)
(* is counted once.                                                        *)
Accounted(supply, amount, entries) ==
  /\ supply = SumFunction(amount)
  /\ \A u \in Users : entries[u] = IF amount[u] > 0 THEN 1 ELSE 0

LEMMA AccountedAfter ==
  ASSUME NEW supply \in Nat, NEW amount \in [Users -> Nat], NEW entries,
         Accounted(supply, amount, entries),
         NEW amount2 \in [Users -> Nat], NEW entries2,
         NEW u \in Users, NEW x \in Nat \ {0}, amount2[u] = amount[u] + x,
         entries2[u] = IF amount[u] = 0 THEN entries[u] + 1 ELSE entries[u],
         \A v \in Users \ {u} : amount2[v] = amount[v] /\ entries2[v] = entries[v]
  PROVE  Accounted(supply + x, amount2, entries2)
<1>1. amount \in [Users -> Int] /\ amount2 \in [Users -> Int]
  OBVIOUS
<1>2. \A v \in Users : v # u => amount2[v] = amount[v]
  OBVIOUS
<1>3. SumFunction(amount2) = SumFunction(amount) - amount[u] + amount2[u]
  BY <1>1, <1>2, UsersAssumption, SumChanged
<1>4. supply + x = SumFunction(amount2)
  <2>1. supply = SumFunction(amount) /\ amount[u] \in Nat
    BY DEF Accounted
  <2>. QED BY <1>3, <2>1
<1>5. ASSUME NEW v \in Users PROVE entries2[v] = IF amount2[v] > 0 THEN 1 ELSE 0
  <2>1. entries[v] = (IF amount[v] > 0 THEN 1 ELSE 0) /\ amount[v] \in Nat
    BY DEF Accounted
  <2>. QED BY <2>1
<1>. QED BY <1>4, <1>5 DEF Accounted

LentBy(q)    == [u \in Users |-> lendInfos[q][u].amount]
PledgedBy(q) == [u \in Users |-> borrowInfos[q][u].pledgeAmount]

LEMMA PositionsAsAccounts ==
  /\ PositionsAccounted <=> \A q \in PoolIds :
       /\ Accounted(pools[q].lendSupply, LentBy(q), lenders[q])
       /\ Accounted(pools[q].borrowSupply, PledgedBy(q), borrowers[q])
  /\ PositionsAccounted' <=> \A q \in PoolIds :
       /\ Accounted(pools'[q].lendSupply, LentBy(q)', lenders'[q])
       /\ Accounted(pools'[q].borrowSupply, PledgedBy(q)', borrowers'[q])
  BY DEF PositionsAccounted, Sum, Accounted, LentBy, PledgedBy

LEMMA AccountTypes ==
  ASSUME TypeOK, NEW q \in PoolIds
  PROVE  /\ LentBy(q) \in [Users -> Nat] /\ PledgedBy(q) \in [Users -> Nat]
         /\ pools[q].lendSupply \in Nat /\ pools[q].borrowSupply \in Nat
  BY PoolFields, InfoFields DEF LentBy, PledgedBy

LEMMA PositionsKeepAccounted ==
  ASSUME TypeOK, TypeOK', PositionsAccounted, NEW q \in PoolIds, PositionStep(q)
  PROVE  /\ Accounted(pools'[q].lendSupply, LentBy(q)', lenders'[q])
         /\ Accounted(pools'[q].borrowSupply, PledgedBy(q)', borrowers'[q])
<1>1. /\ LentBy(q) \in [Users -> Nat] /\ PledgedBy(q) \in [Users -> Nat]
      /\ pools[q].lendSupply \in Nat /\ pools[q].borrowSupply \in Nat
      /\ LentBy(q)' \in [Users -> Nat] /\ PledgedBy(q)' \in [Users -> Nat]
  <2>1. LentBy(q)' \in [Users -> Nat] /\ PledgedBy(q)' \in [Users -> Nat]
    <3>1. \A u \in Users : lendInfos'[q][u] \in LendInfo /\ borrowInfos'[q][u] \in BorrowInfo
      BY DEF TypeOK
    <3>. QED BY <3>1 DEF LentBy, PledgedBy, LendInfo, BorrowInfo
  <2>. QED BY <2>1, AccountTypes
<1>2. /\ Accounted(pools[q].lendSupply, LentBy(q), lenders[q])
      /\ Accounted(pools[q].borrowSupply, PledgedBy(q), borrowers[q])
  BY PositionsAsAccounts
<1>3. /\ \A u \in Users : LentBy(q)[u] = lendInfos[q][u].amount
      /\ \A u \in Users : PledgedBy(q)[u] = borrowInfos[q][u].pledgeAmount
      /\ \A u \in Users : LentBy(q)'[u] = lendInfos'[q][u].amount
      /\ \A u \in Users : PledgedBy(q)'[u] = borrowInfos'[q][u].pledgeAmount
  BY DEF LentBy, PledgedBy
<1>4. Accounted(pools'[q].lendSupply, LentBy(q)', lenders'[q])
  <2>1. CASE LendSideKept(q)
    <3>1. LentBy(q)' = LentBy(q)
      BY <2>1 DEF LendSideKept, LentBy
    <3>. QED BY <1>2, <2>1, <3>1 DEF LendSideKept, Accounted
  <2>2. CASE LendAdded(q)
    <3>1. PICK u \in Users, x \in Nat \ {0} :
            /\ pools'[q].lendSupply = pools[q].lendSupply + x
            /\ LentBy(q)'[u] = LentBy(q)[u] + x
            /\ lenders'[q][u] = IF LentBy(q)[u] = 0 THEN lenders[q][u] + 1
                                                    ELSE lenders[q][u]
            /\ \A v \in Users \ {u} : /\ LentBy(q)'[v] = LentBy(q)[v]
                                      /\ lenders'[q][v] = lenders[q][v]
      BY <1>3, <2>2 DEF LendAdded
    <3> DEFINE amount == LentBy(q)
               amount2 == LentBy(q)'
               entries == lenders[q]
               entries2 == lenders'[q]
               supply == pools[q].lendSupply
    <3>2. /\ supply \in Nat /\ amount \in [Users -> Nat] /\ amount2 \in [Users -> Nat]
          /\ Accounted(supply, amount, entries) /\ amount2[u] = amount[u] + x
          /\ entries2[u] = IF amount[u] = 0 THEN entries[u] + 1 ELSE entries[u]
          /\ \A v \in Users \ {u} : amount2[v] = amount[v] /\ entries2[v] = entries[v]
      BY <1>1, <1>2, <3>1
    <3> HIDE DEF amount, amount2, entries, entries2, supply
    <3>3. Accounted(supply + x, amount2, entries2)
      BY <3>2, AccountedAfter
    <3>. QED BY <3>1, <3>3 DEF amount2, entries2, supply
  <2>. QED BY <2>1, <2>2 DEF PositionStep
<1>5. Accounted(pools'[q].borrowSupply, PledgedBy(q)', borrowers'[q])
  <2>1. CASE BorrowSideKept(q)
    <3>1. PledgedBy(q)' = PledgedBy(q)
      BY <2>1 DEF BorrowSideKept, PledgedBy
    <3>. QED BY <1>2, <2>1, <3>1 DEF BorrowSideKept, Accounted
  <2>2. CASE PledgeAdded(q)
    <3>1. PICK u \in Users, x \in Nat \ {0} :
            /\ pools'[q].borrowSupply = pools[q].borrowSupply + x
            /\ PledgedBy(q)'[u] = PledgedBy(q)[u] + x
            /\ borrowers'[q][u] = IF PledgedBy(q)[u] = 0 THEN borrowers[q][u] + 1
                                                         ELSE borrowers[q][u]
            /\ \A v \in Users \ {u} : /\ PledgedBy(q)'[v] = PledgedBy(q)[v]
                                      /\ borrowers'[q][v] = borrowers[q][v]
      BY <1>3, <2>2 DEF PledgeAdded
    <3> DEFINE amount == PledgedBy(q)
               amount2 == PledgedBy(q)'
               entries == borrowers[q]
               entries2 == borrowers'[q]
               supply == pools[q].borrowSupply
    <3>2. /\ supply \in Nat /\ amount \in [Users -> Nat] /\ amount2 \in [Users -> Nat]
          /\ Accounted(supply, amount, entries) /\ amount2[u] = amount[u] + x
          /\ entries2[u] = IF amount[u] = 0 THEN entries[u] + 1 ELSE entries[u]
          /\ \A v \in Users \ {u} : amount2[v] = amount[v] /\ entries2[v] = entries[v]
      BY <1>1, <1>2, <3>1
    <3> HIDE DEF amount, amount2, entries, entries2, supply
    <3>3. Accounted(supply + x, amount2, entries2)
      BY <3>2, AccountedAfter
    <3>. QED BY <3>1, <3>3 DEF amount2, entries2, supply
  <2>. QED BY <2>1, <2>2 DEF PositionStep
<1>. QED BY <1>4, <1>5

LEMMA InitPositions == Init => NothingBeforeCreation /\ PositionsAccounted
<1>. SUFFICES ASSUME Init PROVE NothingBeforeCreation /\ PositionsAccounted
  OBVIOUS
<1>1. NothingBeforeCreation
  BY DEF Init, NothingBeforeCreation, NoPool
<1>2. ASSUME NEW q \in PoolIds
      PROVE  /\ Accounted(pools[q].lendSupply, LentBy(q), lenders[q])
             /\ Accounted(pools[q].borrowSupply, PledgedBy(q), borrowers[q])
  <2> DEFINE z == [u \in Users |-> 0]
  <2>1. LentBy(q) = z /\ PledgedBy(q) = z /\ lenders[q] = z /\ borrowers[q] = z
    BY <1>2 DEF Init, LentBy, PledgedBy, NoLend, NoBorrow
  <2>2. z \in [Users -> Int] /\ \A u \in Users : z[u] = 0
    OBVIOUS
  <2> HIDE DEF z
  <2>3. SumFunction(z) = 0
    BY <2>2, UsersAssumption, SumOfZeros
  <2>4. pools[q].lendSupply = 0 /\ pools[q].borrowSupply = 0
    BY <1>2 DEF Init, NoPool
  <2>. QED BY <2>1, <2>2, <2>3, <2>4 DEF Accounted
<1>3. PositionsAccounted
  BY <1>2, PositionsAsAccounts
<1>. QED BY <1>1, <1>3

LEMMA Accounting == Spec => [](NothingBeforeCreation /\ PositionsAccounted)
<1>1. ASSUME TInv, NothingBeforeCreation, PositionsAccounted, [Next]_vars
      PROVE  NothingBeforeCreation' /\ PositionsAccounted'
  <2>1. TypeOK /\ TypeOK'
    BY <1>1, EveryStep DEF TInv
  <2>2. NothingBeforeCreation' /\ \A q \in PoolIds : PositionStep(q)
    BY <1>1, EveryPositionStep
  <2>3. \A q \in PoolIds :
          /\ Accounted(pools'[q].lendSupply, LentBy(q)', lenders'[q])
          /\ Accounted(pools'[q].borrowSupply, PledgedBy(q)', borrowers'[q])
    BY <1>1, <2>1, <2>2, PositionsKeepAccounted
  <2>. QED BY <2>2, <2>3, PositionsAsAccounts
<1>. QED BY Typed, InitPositions, <1>1, PTL DEF Spec

(* Every supply is the sum of the users' amounts and each participant is   *)
(* listed once, in every pool and for good, whichever setters are called.  *)
THEOREM SuppliesAreSums == Spec => []PositionsAccounted
  BY Accounting, PTL

(* With the settlement bound, which also survives every setter.            *)
THEOREM TheBooksAreKept == Spec => []BooksKept
<1>1. PositionsAccounted /\ SettlementBounded => BooksKept
  BY DEF BooksKept
<1>. QED BY SuppliesAreSums, SettlementStaysBounded, <1>1, PTL
-----------------------------------------------------------------------------
(* One pool's account: its terms and amounts, its users' positions and its *)
(* SP and JP tokens.  What a pool owes depends on its account only.        *)

Account(p) == [pool |-> pools[p], lend |-> lendInfos[p], borrow |-> borrowInfos[p],
               sp |-> debt[pools[p].spToken], jp |-> debt[pools[p].jpToken]]

Accounts == [pool: Pool, lend: [Users -> LendInfo], borrow: [Users -> BorrowInfo],
             sp: [Users -> Nat], jp: [Users -> Nat]]

Lent(a)    == [u \in Users |-> a.lend[u].amount]
Pledged(a) == [u \in Users |-> a.borrow[u].pledgeAmount]

Deposits(a) == [u \in Users |-> IF a.lend[u].refunded THEN 0 ELSE a.lend[u].amount]
Pledges(a)  == [u \in Users |-> IF a.borrow[u].settled THEN 0
                                ELSE a.borrow[u].pledgeAmount]

LendRefundOf(a, u) ==
  Share(a.pool.lendSupply - a.pool.settleAmountLend, a.lend[u].amount,
        a.pool.lendSupply)
SpShareOf(a, u) ==
  Share(a.pool.settleAmountLend, a.lend[u].amount, a.pool.lendSupply)
PledgeRefundOf(a, u) ==
  Share(a.pool.borrowSupply - a.pool.settleAmountBorrow,
        a.borrow[u].pledgeAmount, a.pool.borrowSupply)
LoanShareOf(a, u) ==
  Share(a.pool.settleAmountLend, a.borrow[u].pledgeAmount, a.pool.borrowSupply)
JpShareOf(a, u) ==
  JpShare(a.pool.settleAmountLend, a.pool.pledgeRate, a.borrow[u].pledgeAmount,
          a.pool.borrowSupply)

LendRefunds(a) ==
  [u \in Users |-> IF a.lend[u].refunded THEN 0 ELSE LendRefundOf(a, u)]
Loans(a) ==
  [u \in Users |-> IF a.borrow[u].settled THEN 0 ELSE LoanShareOf(a, u)]
PledgeRefunds(a) ==
  [u \in Users |-> IF a.borrow[u].settled THEN 0 ELSE PledgeRefundOf(a, u)]
SpClaims(a) ==
  [u \in Users |-> a.sp[u] + IF a.lend[u].claimed THEN 0 ELSE SpShareOf(a, u)]
JpClaims(a) ==
  [u \in Users |-> a.jp[u] + IF a.borrow[u].settled THEN 0 ELSE JpShareOf(a, u)]

IsClosed(a) == a.pool.state \in {"FINISH", "LIQUIDATION"}
AllJp(a)    == TotalJp(a.pool.settleAmountLend, a.pool.pledgeRate)

SpRedeemable(a) ==
  IF IsClosed(a) /\ a.pool.settleAmountLend > 0
  THEN Share(LendPot(a.pool), SumFunction(SpClaims(a)), a.pool.settleAmountLend)
  ELSE 0

Collateral(a) ==
  IF ~IsClosed(a) THEN a.pool.settleAmountBorrow
  ELSE IF AllJp(a) = 0 THEN 0
       ELSE Share(BorrowPot(a.pool), SumFunction(JpClaims(a)), AllJp(a))

SettleDue(a) ==
  CASE a.pool.state = "MATCH"  -> a.pool.lendSupply
    [] a.pool.state = "UNDONE" -> SumFunction(Deposits(a))
    [] OTHER -> SumFunction(LendRefunds(a)) + SumFunction(Loans(a)) + SpRedeemable(a)

PledgeDue(a) ==
  CASE a.pool.state = "MATCH"  -> a.pool.borrowSupply
    [] a.pool.state = "UNDONE" -> SumFunction(Pledges(a))
    [] OTHER -> SumFunction(PledgeRefunds(a)) + Collateral(a)

(* The books of an account agree with each other ...                       *)
Kept(a) ==
  /\ a \in Accounts
  /\ a.pool.settleAmountLend <= a.pool.lendSupply
  /\ a.pool.settleAmountBorrow <= a.pool.borrowSupply
  /\ a.pool.lendSupply = SumFunction(Lent(a))
  /\ a.pool.borrowSupply = SumFunction(Pledged(a))
  /\ a.pool.state \in Settled => a.pool.lendSupply > 0 /\ a.pool.borrowSupply > 0

(* ... and its SP and JP tokens are at most what they are redeemed by.     *)
Backed(a) ==
  /\ a.pool.state = "MATCH" => \A u \in Users : a.sp[u] = 0 /\ a.jp[u] = 0
  /\ a.pool.state \in Settled =>
       /\ SumFunction(SpClaims(a)) <= a.pool.settleAmountLend
       /\ SumFunction(JpClaims(a)) <= AllJp(a)

LEMMA KeptTypes ==
  ASSUME NEW a, Kept(a)
  PROVE  /\ a.pool.lendSupply \in Nat /\ a.pool.borrowSupply \in Nat
         /\ a.pool.settleAmountLend \in 0 .. a.pool.lendSupply
         /\ a.pool.settleAmountBorrow \in 0 .. a.pool.borrowSupply
         /\ a.pool.pledgeRate \in Nat
         /\ a.pool.state \in PoolState
         /\ LendPot(a.pool) \in Nat /\ BorrowPot(a.pool) \in Nat
         /\ AllJp(a) \in Nat
         /\ Lent(a) \in [Users -> Nat] /\ Pledged(a) \in [Users -> Nat]
         /\ Deposits(a) \in [Users -> Nat] /\ Pledges(a) \in [Users -> Nat]
<1>1. a.pool \in Pool /\ a.lend \in [Users -> LendInfo]
      /\ a.borrow \in [Users -> BorrowInfo]
  BY DEF Kept, Accounts
<1>2. \A u \in Users : a.lend[u].amount \in Nat /\ a.borrow[u].pledgeAmount \in Nat
  BY <1>1 DEF LendInfo, BorrowInfo
<1>3. /\ a.pool.lendSupply \in Nat /\ a.pool.borrowSupply \in Nat
      /\ a.pool.settleAmountLend \in Nat /\ a.pool.settleAmountBorrow \in Nat
      /\ a.pool.pledgeRate \in Nat /\ a.pool.state \in PoolState
      /\ LendPot(a.pool) \in Nat /\ BorrowPot(a.pool) \in Nat
  BY <1>1 DEF Pool, LendPot, BorrowPot
<1>4. AllJp(a) \in Nat
  BY <1>3, TotalJpNat DEF AllJp
<1>5. /\ Lent(a) \in [Users -> Nat] /\ Pledged(a) \in [Users -> Nat]
      /\ Deposits(a) \in [Users -> Nat] /\ Pledges(a) \in [Users -> Nat]
  BY <1>2 DEF Lent, Pledged, Deposits, Pledges
<1>. QED BY <1>3, <1>4, <1>5 DEF Kept

(* Each participant's shares of a settled pool.                            *)
LEMMA ShareTypes ==
  ASSUME NEW a, Kept(a), a.pool.state \in Settled
  PROVE  /\ \A u \in Users :
              /\ LendRefundOf(a, u) \in Nat /\ SpShareOf(a, u) \in Nat
              /\ PledgeRefundOf(a, u) \in Nat /\ LoanShareOf(a, u) \in Nat
              /\ JpShareOf(a, u) \in Nat
         /\ LendRefunds(a) \in [Users -> Nat] /\ Loans(a) \in [Users -> Nat]
         /\ PledgeRefunds(a) \in [Users -> Nat]
         /\ SpClaims(a) \in [Users -> Nat] /\ JpClaims(a) \in [Users -> Nat]
<1>1. /\ a.pool.lendSupply \in Nat \ {0} /\ a.pool.borrowSupply \in Nat \ {0}
      /\ a.pool.settleAmountLend \in Nat /\ a.pool.pledgeRate \in Nat
      /\ a.pool.lendSupply - a.pool.settleAmountLend \in Nat
      /\ a.pool.borrowSupply - a.pool.settleAmountBorrow \in Nat
  BY KeptTypes DEF Kept
<1>2. \A u \in Users : /\ a.lend[u].amount \in Nat /\ a.borrow[u].pledgeAmount \in Nat
                       /\ a.sp[u] \in Nat /\ a.jp[u] \in Nat
  BY DEF Kept, Accounts, LendInfo, BorrowInfo
<1>3. \A u \in Users :
        /\ LendRefundOf(a, u) \in Nat /\ SpShareOf(a, u) \in Nat
        /\ PledgeRefundOf(a, u) \in Nat /\ LoanShareOf(a, u) \in Nat
        /\ JpShareOf(a, u) \in Nat
  BY <1>1, <1>2, ShareNat, JpShareNat
  DEF LendRefundOf, SpShareOf, PledgeRefundOf, LoanShareOf, JpShareOf
<1>. QED BY <1>2, <1>3 DEF LendRefunds, Loans, PledgeRefunds, SpClaims, JpClaims

LEMMA SumTypes ==
  ASSUME NEW a, Kept(a)
  PROVE  /\ SumFunction(Deposits(a)) \in Nat /\ SumFunction(Pledges(a)) \in Nat
         /\ a.pool.state \in Settled =>
              /\ SumFunction(LendRefunds(a)) \in Nat /\ SumFunction(Loans(a)) \in Nat
              /\ SumFunction(PledgeRefunds(a)) \in Nat
              /\ SumFunction(SpClaims(a)) \in Nat /\ SumFunction(JpClaims(a)) \in Nat
              /\ SpRedeemable(a) \in Nat /\ Collateral(a) \in Nat
<1>1. SumFunction(Deposits(a)) \in Nat /\ SumFunction(Pledges(a)) \in Nat
  BY KeptTypes, UsersAssumption, SumNat
<1>2. ASSUME a.pool.state \in Settled
      PROVE  /\ SumFunction(LendRefunds(a)) \in Nat /\ SumFunction(Loans(a)) \in Nat
             /\ SumFunction(PledgeRefunds(a)) \in Nat
             /\ SumFunction(SpClaims(a)) \in Nat /\ SumFunction(JpClaims(a)) \in Nat
  BY <1>2, ShareTypes, UsersAssumption, SumNat
<1>3. ASSUME a.pool.state \in Settled
      PROVE  SpRedeemable(a) \in Nat /\ Collateral(a) \in Nat
  <2>1. SpRedeemable(a) \in Nat
    <3> DEFINE pot == LendPot(a.pool)
               tokens == SumFunction(SpClaims(a))
               all == a.pool.settleAmountLend
    <3>1. pot \in Nat /\ tokens \in Nat /\ all \in Nat
      BY <1>2, <1>3, KeptTypes
    <3>2. SpRedeemable(a) = IF IsClosed(a) /\ all > 0 THEN Share(pot, tokens, all) ELSE 0
      BY DEF SpRedeemable
    <3> HIDE DEF pot, tokens, all
    <3>. QED BY <3>1, <3>2, ShareNat
  <2>2. Collateral(a) \in Nat
    <3> DEFINE pot == BorrowPot(a.pool)
               tokens == SumFunction(JpClaims(a))
               all == AllJp(a)
               matched == a.pool.settleAmountBorrow
    <3>1. pot \in Nat /\ tokens \in Nat /\ all \in Nat /\ matched \in Nat
      BY <1>2, <1>3, KeptTypes
    <3>2. Collateral(a) = IF ~IsClosed(a) THEN matched
                          ELSE IF all = 0 THEN 0 ELSE Share(pot, tokens, all)
      BY DEF Collateral
    <3> HIDE DEF pot, tokens, all, matched
    <3>. QED BY <3>1, <3>2, ShareNat
  <2>. QED BY <2>1, <2>2
<1>. QED BY <1>1, <1>2, <1>3

LEMMA DueTypes ==
  ASSUME NEW a, Kept(a)
  PROVE  SettleDue(a) \in Nat /\ PledgeDue(a) \in Nat
<1>1. a.pool.state \in {"MATCH", "UNDONE"} \/ a.pool.state \in Settled
  BY KeptTypes DEF PoolState, Settled
<1>2. CASE a.pool.state = "MATCH"
  BY <1>2, KeptTypes DEF SettleDue, PledgeDue
<1>3. CASE a.pool.state = "UNDONE"
  BY <1>3, SumTypes DEF SettleDue, PledgeDue
<1>4. CASE a.pool.state \in Settled
  BY <1>4, SumTypes DEF SettleDue, PledgeDue, Settled
<1>. QED BY <1>1, <1>2, <1>3, <1>4

(* The same, for a settled pool.                                           *)
LEMMA SettledDues ==
  ASSUME NEW a, a.pool.state \in Settled
  PROVE  /\ SettleDue(a) = SumFunction(LendRefunds(a)) + SumFunction(Loans(a))
                             + SpRedeemable(a)
         /\ PledgeDue(a) = SumFunction(PledgeRefunds(a)) + Collateral(a)
  BY DEF SettleDue, PledgeDue, Settled

-----------------------------------------------------------------------------
(* What one operation does to the account it is about: the account stays   *)
(* backed, and what it owes falls by what it pays.                         *)

Moves(a, b, x, y) ==
  /\ Backed(b)
  /\ SettleDue(b) + x <= SettleDue(a)
  /\ PledgeDue(b) + y <= PledgeDue(a)

(* Truncated shares of k add up to k at most.                              *)
LEMMA SharesBounded ==
  ASSUME NEW amount \in [Users -> Nat], NEW supply \in Nat \ {0},
         supply = SumFunction(amount), NEW k \in Nat, NEW f \in [Users -> Nat],
         \A u \in Users : f[u] <= Share(k, amount[u], supply)
  PROVE  SumFunction(f) <= k
<1>1. ASSUME NEW u \in Users PROVE supply * f[u] <= k * amount[u]
  <2> DEFINE s == Share(k, amount[u], supply)
  <2>1. s \in Nat /\ f[u] \in Nat /\ f[u] <= s
    BY ShareNat
  <2>2. supply * s <= k * amount[u] /\ k * amount[u] \in Nat /\ supply * s \in Nat
    BY <2>1, ShareTimes, ProductNat
  <2> HIDE DEF s
  <2>3. f[u] * supply <= s * supply /\ f[u] * supply = supply * f[u]
           /\ s * supply = supply * s
    BY <2>1, ProductMonotonic
  <2>4. supply * f[u] \in Nat
    BY <2>1, ProductNat
  <2>. QED BY <2>2, <2>3, <2>4
<1>2. supply * SumFunction(f) <= k * SumFunction(amount)
  BY <1>1, UsersAssumption, SumOfShares
<1>3. SumFunction(f) \in Nat
  BY UsersAssumption, SumNat
<1> DEFINE total == SumFunction(f)
<1>4. supply * total <= k * supply /\ k * supply = supply * k
  BY <1>2
<1> HIDE DEF total
<1>5. supply * total <= supply * k
  BY <1>4
<1>6. total \in Nat
  BY <1>3 DEF total
<1>7. total <= k
  BY <1>5, <1>6, ProductCancelled
<1>. QED BY <1>7 DEF total

LEMMA JpSharesBounded ==
  ASSUME NEW amount \in [Users -> Nat], NEW supply \in Nat \ {0},
         supply = SumFunction(amount), NEW lent \in Nat, NEW rate \in Nat,
         NEW f \in [Users -> Nat],
         \A u \in Users : f[u] <= JpShare(lent, rate, amount[u], supply)
  PROVE  SumFunction(f) <= TotalJp(lent, rate)
<1> DEFINE d == RATE_BASE * supply
           k == lent * rate
           total == SumFunction(f)
<1>0. d \in Nat /\ k \in Nat /\ total \in Nat
  BY ProductNat, UsersAssumption, SumNat DEF RATE_BASE
<1>1. ASSUME NEW u \in Users PROVE d * f[u] <= k * amount[u]
  <2> DEFINE s == JpShare(lent, rate, amount[u], supply)
  <2>1. s \in Nat /\ f[u] \in Nat /\ f[u] <= s /\ amount[u] \in Nat
    BY JpShareNat
  <2>2. d * s <= k * amount[u]
    BY <2>1, JpShareTimes
  <2> HIDE DEF s, d, k
  <2>3. f[u] * d <= s * d /\ f[u] * d = d * f[u] /\ s * d = d * s
    BY <1>0, <2>1, ProductMonotonic
  <2>4. d * f[u] \in Nat /\ d * s \in Nat /\ k * amount[u] \in Nat
    BY <1>0, <2>1, ProductNat
  <2>. QED BY <2>2, <2>3, <2>4
<1>2. d * total <= k * SumFunction(amount)
  <2> HIDE DEF d, k
  <2>. QED BY <1>0, <1>1, UsersAssumption, SumOfShares
<1> HIDE DEF total
<1>3. d * total <= k * supply
  BY <1>2
<1>4. d * total = supply * (RATE_BASE * total) /\ k * supply = supply * k
  <2> HIDE DEF k
  <2>. QED BY <1>0 DEF RATE_BASE
<1>5. RATE_BASE * total \in Nat
  BY <1>0 DEF RATE_BASE
<1>6. RATE_BASE * total <= k
  <2> DEFINE r == RATE_BASE * total
  <2>1. supply * r <= supply * k
    BY <1>3, <1>4
  <2> HIDE DEF r, k
  <2>2. r \in Nat
    BY <1>5 DEF r
  <2>3. r <= k
    BY <1>0, <2>1, <2>2, ProductCancelled
  <2>. QED BY <2>3 DEF r
<1>7. total <= k \div RATE_BASE
  <2> HIDE DEF k
  <2>. QED BY <1>0, <1>6, QuotientAtLeast DEF RATE_BASE
<1>. QED BY <1>7 DEF TotalJp, total

LEMMA DepositMove ==
  ASSUME NEW a, NEW b, Kept(a), Kept(b), Backed(a),
         a.pool.state = "MATCH", b.pool.state = "MATCH",
         b.sp = a.sp, b.jp = a.jp
  PROVE  Moves(a, b, a.pool.lendSupply - b.pool.lendSupply,
                     a.pool.borrowSupply - b.pool.borrowSupply)
<1>1. Backed(b)
  BY DEF Backed, Settled
<1>2. /\ SettleDue(a) = a.pool.lendSupply /\ SettleDue(b) = b.pool.lendSupply
      /\ PledgeDue(a) = a.pool.borrowSupply /\ PledgeDue(b) = b.pool.borrowSupply
  BY DEF SettleDue, PledgeDue
<1>3. /\ a.pool.lendSupply \in Nat /\ b.pool.lendSupply \in Nat
      /\ a.pool.borrowSupply \in Nat /\ b.pool.borrowSupply \in Nat
  BY KeptTypes
<1>. QED BY <1>1, <1>2, <1>3 DEF Moves

(* A failed match owes each side its deposits.                             *)
LEMMA UndoneMove ==
  ASSUME NEW a, NEW b, Kept(a), Kept(b), Backed(a),
         a.pool.state = "MATCH", b.pool.state = "UNDONE",
         b.lend = a.lend, b.borrow = a.borrow
  PROVE  Moves(a, b, 0, 0)
<1>1. Backed(b)
  BY DEF Backed, Settled
<1>2. /\ SettleDue(a) = SumFunction(Lent(a)) /\ SettleDue(b) = SumFunction(Deposits(b))
      /\ PledgeDue(a) = SumFunction(Pledged(a)) /\ PledgeDue(b) = SumFunction(Pledges(b))
  BY DEF SettleDue, PledgeDue, Kept
<1>3. \A u \in Users : /\ a.lend[u].amount \in Nat /\ a.borrow[u].pledgeAmount \in Nat
                       /\ b.lend[u].amount \in Nat /\ b.borrow[u].pledgeAmount \in Nat
  BY DEF Kept, Accounts, LendInfo, BorrowInfo
<1>4. \A u \in Users : Deposits(b)[u] <= Lent(a)[u] /\ Pledges(b)[u] <= Pledged(a)[u]
  BY <1>3 DEF Deposits, Pledges, Lent, Pledged
<1>5. /\ Lent(a) \in [Users -> Int] /\ Pledged(a) \in [Users -> Int]
      /\ Deposits(b) \in [Users -> Int] /\ Pledges(b) \in [Users -> Int]
  BY <1>3 DEF Deposits, Pledges, Lent, Pledged
<1>6. /\ SumFunction(Deposits(b)) <= SumFunction(Lent(a))
      /\ SumFunction(Pledges(b)) <= SumFunction(Pledged(a))
  BY <1>4, <1>5, UsersAssumption, SumMonotonic
<1>. QED BY <1>1, <1>2, <1>6, SumTypes DEF Moves

(* A settled pool owes each side the unmatched part, the borrowers the     *)
(* loan, and keeps the matched collateral: together what was deposited.    *)
LEMMA SettleMove ==
  ASSUME NEW a, NEW b, Kept(a), Kept(b), Backed(a),
         a.pool.state = "MATCH", b.pool.state = "EXECUTION",
         b.pool.lendSupply = a.pool.lendSupply,
         b.pool.borrowSupply = a.pool.borrowSupply,
         b.lend = a.lend, b.borrow = a.borrow, b.sp = a.sp, b.jp = a.jp
  PROVE  Moves(a, b, 0, 0)
<1> DEFINE lent == b.pool.lendSupply
           pledged == b.pool.borrowSupply
           loan == b.pool.settleAmountLend
           secured == b.pool.settleAmountBorrow
<1>0. b.pool.state \in Settled
  BY DEF Settled
<1>1. /\ lent \in Nat \ {0} /\ pledged \in Nat \ {0}
      /\ loan \in Nat /\ lent - loan \in Nat
      /\ secured \in Nat /\ pledged - secured \in Nat
      /\ b.pool.pledgeRate \in Nat
      /\ Lent(b) \in [Users -> Nat] /\ Pledged(b) \in [Users -> Nat]
      /\ lent = SumFunction(Lent(b)) /\ pledged = SumFunction(Pledged(b))
  <2>1. /\ lent \in Nat /\ pledged \in Nat /\ loan \in 0 .. lent
        /\ secured \in 0 .. pledged /\ b.pool.pledgeRate \in Nat
        /\ Lent(b) \in [Users -> Nat] /\ Pledged(b) \in [Users -> Nat]
    BY KeptTypes
  <2>2. /\ lent > 0 /\ pledged > 0
        /\ lent = SumFunction(Lent(b)) /\ pledged = SumFunction(Pledged(b))
    BY <1>0 DEF Kept
  <2> HIDE DEF lent, pledged, loan, secured
  <2>. QED BY <2>1, <2>2
<1>2. /\ LendRefunds(b) \in [Users -> Nat] /\ Loans(b) \in [Users -> Nat]
      /\ PledgeRefunds(b) \in [Users -> Nat]
      /\ SpClaims(b) \in [Users -> Nat] /\ JpClaims(b) \in [Users -> Nat]
  BY <1>0, ShareTypes
<1>3. ASSUME NEW u \in Users
      PROVE  /\ LendRefunds(b)[u] <= Share(lent - loan, Lent(b)[u], lent)
             /\ Loans(b)[u] <= Share(loan, Pledged(b)[u], pledged)
             /\ PledgeRefunds(b)[u] <= Share(pledged - secured, Pledged(b)[u], pledged)
             /\ SpClaims(b)[u] <= Share(loan, Lent(b)[u], lent)
             /\ JpClaims(b)[u] <= JpShare(loan, b.pool.pledgeRate, Pledged(b)[u], pledged)
  <2>1. b.sp[u] = 0 /\ b.jp[u] = 0
    BY DEF Backed
  <2>2. /\ LendRefundOf(b, u) = Share(lent - loan, Lent(b)[u], lent)
        /\ LoanShareOf(b, u) = Share(loan, Pledged(b)[u], pledged)
        /\ PledgeRefundOf(b, u) = Share(pledged - secured, Pledged(b)[u], pledged)
        /\ SpShareOf(b, u) = Share(loan, Lent(b)[u], lent)
        /\ JpShareOf(b, u) = JpShare(loan, b.pool.pledgeRate, Pledged(b)[u], pledged)
    BY DEF LendRefundOf, LoanShareOf, PledgeRefundOf, SpShareOf, JpShareOf, Lent, Pledged
  <2>3. /\ LendRefundOf(b, u) \in Nat /\ LoanShareOf(b, u) \in Nat
        /\ PledgeRefundOf(b, u) \in Nat /\ SpShareOf(b, u) \in Nat
        /\ JpShareOf(b, u) \in Nat
    BY <1>0, ShareTypes
  <2>4. /\ LendRefunds(b)[u] <= LendRefundOf(b, u) /\ Loans(b)[u] <= LoanShareOf(b, u)
        /\ PledgeRefunds(b)[u] <= PledgeRefundOf(b, u)
        /\ SpClaims(b)[u] <= SpShareOf(b, u) /\ JpClaims(b)[u] <= JpShareOf(b, u)
    BY <2>1, <2>3 DEF LendRefunds, Loans, PledgeRefunds, SpClaims, JpClaims
  <2>. QED BY <2>2, <2>4
<1> HIDE DEF lent, pledged, loan, secured
<1>4. SumFunction(LendRefunds(b)) <= lent - loan
  BY <1>1, <1>2, <1>3, SharesBounded
<1>5. SumFunction(Loans(b)) <= loan
  BY <1>1, <1>2, <1>3, SharesBounded
<1>6. SumFunction(PledgeRefunds(b)) <= pledged - secured
  BY <1>1, <1>2, <1>3, SharesBounded
<1>7. SumFunction(SpClaims(b)) <= loan
  BY <1>1, <1>2, <1>3, SharesBounded
<1>8. SumFunction(JpClaims(b)) <= TotalJp(loan, b.pool.pledgeRate)
  BY <1>1, <1>2, <1>3, JpSharesBounded
<1>9. /\ SettleDue(b) = SumFunction(LendRefunds(b)) + SumFunction(Loans(b)) + 0
      /\ PledgeDue(b) = SumFunction(PledgeRefunds(b)) + secured
      /\ SettleDue(a) = lent /\ PledgeDue(a) = pledged
  BY <1>0, SettledDues DEF SpRedeemable, Collateral, IsClosed, SettleDue, PledgeDue,
     lent, pledged, secured
<1>10. Backed(b)
  BY <1>7, <1>8 DEF Backed, AllJp, loan
<1>11. /\ SumFunction(LendRefunds(b)) \in Nat /\ SumFunction(Loans(b)) \in Nat
       /\ SumFunction(PledgeRefunds(b)) \in Nat
  BY <1>0, SumTypes
<1>. QED BY <1>1, <1>4, <1>5, <1>6, <1>9, <1>10, <1>11 DEF Moves

-----------------------------------------------------------------------------
(* Payments out of a failed match.                                         *)

LEMMA UserSum ==
  ASSUME NEW f \in [Users -> Nat], NEW g \in [Users -> Nat], NEW u \in Users,
         \A v \in Users \ {u} : g[v] = f[v]
  PROVE  /\ SumFunction(f) \in Nat /\ SumFunction(g) \in Nat
         /\ SumFunction(g) = SumFunction(f) - f[u] + g[u]
<1>1. /\ f \in [Users -> Int] /\ g \in [Users -> Int]
      /\ \A v \in Users : v # u => g[v] = f[v]
  OBVIOUS
<1>. QED BY <1>1, UsersAssumption, SumChanged, SumNat

LEMMA LenderRepaid ==
  ASSUME NEW a, NEW b, Kept(a), Kept(b),
         a.pool.state = "UNDONE", b.pool.state = "UNDONE", b.borrow = a.borrow,
         NEW u \in Users, ~a.lend[u].refunded, b.lend[u].refunded,
         \A v \in Users \ {u} : b.lend[v] = a.lend[v]
  PROVE  Moves(a, b, a.lend[u].amount, 0)
<1>1. /\ Deposits(a) \in [Users -> Nat] /\ Deposits(b) \in [Users -> Nat]
      /\ Deposits(a)[u] = a.lend[u].amount /\ Deposits(b)[u] = 0
      /\ \A v \in Users \ {u} : Deposits(b)[v] = Deposits(a)[v]
  <2>1. Deposits(a) \in [Users -> Nat] /\ Deposits(b) \in [Users -> Nat]
    BY KeptTypes
  <2>. QED BY <2>1 DEF Deposits
<1>2. Pledges(b) = Pledges(a)
  BY DEF Pledges
<1>3. /\ SettleDue(a) = SumFunction(Deposits(a)) /\ SettleDue(b) = SumFunction(Deposits(b))
      /\ PledgeDue(a) = SumFunction(Pledges(a)) /\ PledgeDue(b) = SumFunction(Pledges(b))
  BY DEF SettleDue, PledgeDue
<1>4. SumFunction(Deposits(b)) = SumFunction(Deposits(a)) - a.lend[u].amount + 0
  BY <1>1, UserSum
<1>5. a.lend[u].amount \in Nat
  BY <1>1
<1>6. Backed(b)
  BY DEF Backed, Settled
<1>7. SumFunction(Deposits(a)) \in Nat /\ SumFunction(Pledges(a)) \in Nat
  BY SumTypes
<1>. QED BY <1>2, <1>3, <1>4, <1>5, <1>6, <1>7 DEF Moves

LEMMA BorrowerRepaid ==
  ASSUME NEW a, NEW b, Kept(a), Kept(b),
         a.pool.state = "UNDONE", b.pool.state = "UNDONE", b.lend = a.lend,
         NEW u \in Users, ~a.borrow[u].settled, b.borrow[u].settled,
         \A v \in Users \ {u} : b.borrow[v] = a.borrow[v]
  PROVE  Moves(a, b, 0, a.borrow[u].pledgeAmount)
<1>1. /\ Pledges(a) \in [Users -> Nat] /\ Pledges(b) \in [Users -> Nat]
      /\ Pledges(a)[u] = a.borrow[u].pledgeAmount /\ Pledges(b)[u] = 0
      /\ \A v \in Users \ {u} : Pledges(b)[v] = Pledges(a)[v]
  <2>1. Pledges(a) \in [Users -> Nat] /\ Pledges(b) \in [Users -> Nat]
    BY KeptTypes
  <2>. QED BY <2>1 DEF Pledges
<1>2. Deposits(b) = Deposits(a)
  BY DEF Deposits
<1>3. /\ SettleDue(a) = SumFunction(Deposits(a)) /\ SettleDue(b) = SumFunction(Deposits(b))
      /\ PledgeDue(a) = SumFunction(Pledges(a)) /\ PledgeDue(b) = SumFunction(Pledges(b))
  BY DEF SettleDue, PledgeDue
<1>4. SumFunction(Pledges(b)) = SumFunction(Pledges(a)) - a.borrow[u].pledgeAmount + 0
  BY <1>1, UserSum
<1>5. a.borrow[u].pledgeAmount \in Nat
  BY <1>1
<1>6. Backed(b)
  BY DEF Backed, Settled
<1>7. SumFunction(Deposits(a)) \in Nat /\ SumFunction(Pledges(a)) \in Nat
  BY SumTypes
<1>. QED BY <1>2, <1>3, <1>4, <1>5, <1>6, <1>7 DEF Moves

-----------------------------------------------------------------------------
(* Payments out of a settled pool.                                         *)

SameTerms(a, b) ==
  /\ b.pool = a.pool
  /\ \A u \in Users : /\ b.lend[u].amount = a.lend[u].amount
                      /\ b.borrow[u].pledgeAmount = a.borrow[u].pledgeAmount

LEMMA SameShares ==
  ASSUME NEW a, NEW b, SameTerms(a, b)
  PROVE  /\ \A u \in Users :
              /\ LendRefundOf(b, u) = LendRefundOf(a, u)
              /\ SpShareOf(b, u) = SpShareOf(a, u)
              /\ PledgeRefundOf(b, u) = PledgeRefundOf(a, u)
              /\ LoanShareOf(b, u) = LoanShareOf(a, u)
              /\ JpShareOf(b, u) = JpShareOf(a, u)
         /\ AllJp(b) = AllJp(a) /\ (IsClosed(b) <=> IsClosed(a))
  BY DEF SameTerms, LendRefundOf, SpShareOf, PledgeRefundOf, LoanShareOf, JpShareOf,
     AllJp, IsClosed

(* Redeeming x of the SP tokens, or of the JP tokens, lowers what the rest *)
(* redeem by at least what it pays.                                        *)
LEMMA SpRedeemedFor ==
  ASSUME NEW a, NEW b, Kept(a), Kept(b), a.pool.state \in Settled, b.pool = a.pool,
         NEW x \in Nat, SumFunction(SpClaims(b)) + x <= SumFunction(SpClaims(a))
  PROVE  /\ SpRedeemable(b) <= SpRedeemable(a)
         /\ IsClosed(a) /\ a.pool.settleAmountLend > 0 =>
              SpRedeemable(b) + Share(LendPot(a.pool), x, a.pool.settleAmountLend)
                <= SpRedeemable(a)
<1> DEFINE pot == LendPot(a.pool)
           s == SumFunction(SpClaims(a))
           t == SumFunction(SpClaims(b))
           all == a.pool.settleAmountLend
           open == IsClosed(a)
<1>1. /\ pot \in Nat /\ s \in Nat /\ t \in Nat /\ all \in Nat /\ t + x <= s
  BY KeptTypes, SumTypes
<1>2. /\ SpRedeemable(a) = IF open /\ all > 0 THEN Share(pot, s, all) ELSE 0
      /\ SpRedeemable(b) = IF open /\ all > 0 THEN Share(pot, t, all) ELSE 0
  BY DEF SpRedeemable, IsClosed
<1> HIDE DEF pot, s, t, all, open
<1>3. CASE open /\ all > 0
  <2>1. all \in Nat \ {0} /\ t + x \in Nat
    BY <1>1, <1>3
  <2>2. /\ Share(pot, t, all) \in Nat /\ Share(pot, x, all) \in Nat
        /\ Share(pot, t, all) + Share(pot, x, all) <= Share(pot, t + x, all)
        /\ Share(pot, t + x, all) <= Share(pot, s, all)
        /\ Share(pot, t + x, all) \in Nat /\ Share(pot, s, all) \in Nat
    BY <1>1, <2>1, ShareAdded, ShareMonotonic, ShareNat
  <2>3. /\ Share(pot, t, all) <= Share(pot, s, all)
        /\ Share(pot, t, all) + Share(pot, x, all) <= Share(pot, s, all)
    BY <2>2
  <2>. QED BY <1>2, <1>3, <2>3 DEF pot, all
<1>4. CASE ~(open /\ all > 0)
  BY <1>2, <1>4 DEF open, all
<1>. QED BY <1>3, <1>4

LEMMA JpRedeemedFor ==
  ASSUME NEW a, NEW b, Kept(a), Kept(b), a.pool.state \in Settled, b.pool = a.pool,
         NEW x \in Nat, SumFunction(JpClaims(b)) + x <= SumFunction(JpClaims(a))
  PROVE  /\ Collateral(b) <= Collateral(a)
         /\ IsClosed(a) /\ AllJp(a) > 0 =>
              Collateral(b) + Share(BorrowPot(a.pool), x, AllJp(a)) <= Collateral(a)
<1> DEFINE pot == BorrowPot(a.pool)
           s == SumFunction(JpClaims(a))
           t == SumFunction(JpClaims(b))
           all == AllJp(a)
           matched == a.pool.settleAmountBorrow
           open == IsClosed(a)
<1>1. /\ pot \in Nat /\ s \in Nat /\ t \in Nat /\ all \in Nat /\ t + x <= s
      /\ matched \in Nat
  BY KeptTypes, SumTypes
<1>2. /\ Collateral(a) = IF ~open THEN matched
                         ELSE IF all = 0 THEN 0 ELSE Share(pot, s, all)
      /\ Collateral(b) = IF ~open THEN matched
                         ELSE IF all = 0 THEN 0 ELSE Share(pot, t, all)
  BY DEF Collateral, IsClosed, AllJp
<1> HIDE DEF pot, s, t, all, matched, open
<1>3. CASE open /\ all > 0
  <2>1. all \in Nat \ {0} /\ t + x \in Nat
    BY <1>1, <1>3
  <2>2. /\ Share(pot, t, all) \in Nat /\ Share(pot, x, all) \in Nat
        /\ Share(pot, t, all) + Share(pot, x, all) <= Share(pot, t + x, all)
        /\ Share(pot, t + x, all) <= Share(pot, s, all)
        /\ Share(pot, t + x, all) \in Nat /\ Share(pot, s, all) \in Nat
    BY <1>1, <2>1, ShareAdded, ShareMonotonic, ShareNat
  <2>3. /\ Share(pot, t, all) <= Share(pot, s, all)
        /\ Share(pot, t, all) + Share(pot, x, all) <= Share(pot, s, all)
    BY <2>2
  <2>. QED BY <1>2, <1>3, <2>1, <2>3 DEF pot, all
<1>4. CASE ~(open /\ all > 0)
  <2>1. Collateral(b) = Collateral(a) /\ Collateral(a) \in Nat
    BY <1>1, <1>2, <1>4
  <2>. QED BY <1>4, <2>1 DEF open, all
<1>. QED BY <1>3, <1>4

LEMMA LenderRefunded ==
  ASSUME NEW a, NEW b, Kept(a), Kept(b), Backed(a), a.pool.state \in Settled,
         SameTerms(a, b), b.borrow = a.borrow, b.sp = a.sp, b.jp = a.jp,
         NEW u \in Users, ~a.lend[u].refunded, b.lend[u].refunded,
         b.lend[u].claimed = a.lend[u].claimed,
         \A v \in Users \ {u} : b.lend[v] = a.lend[v]
  PROVE  Moves(a, b, LendRefundOf(a, u), 0)
<1>0. b.pool = a.pool /\ b.pool.state \in Settled
  BY DEF SameTerms
<1>1. /\ Loans(b) = Loans(a) /\ PledgeRefunds(b) = PledgeRefunds(a)
      /\ SpClaims(b) = SpClaims(a) /\ JpClaims(b) = JpClaims(a)
  BY SameShares DEF Loans, PledgeRefunds, SpClaims, JpClaims
<1>2. SpRedeemable(b) = SpRedeemable(a) /\ Collateral(b) = Collateral(a)
  BY <1>0, <1>1 DEF SpRedeemable, Collateral, IsClosed, AllJp
<1>3. SumFunction(LendRefunds(b)) = SumFunction(LendRefunds(a)) - LendRefundOf(a, u) + 0
  <2>1. LendRefunds(a) \in [Users -> Nat] /\ LendRefunds(b) \in [Users -> Nat]
    BY <1>0, ShareTypes
  <2>2. /\ LendRefunds(a)[u] = LendRefundOf(a, u) /\ LendRefunds(b)[u] = 0
        /\ \A v \in Users \ {u} : LendRefunds(b)[v] = LendRefunds(a)[v]
    BY SameShares DEF LendRefunds
  <2>. QED BY <2>1, <2>2, UserSum
<1>4. Backed(b)
  BY <1>0, <1>1 DEF Backed, AllJp, Settled
<1>5. /\ LendRefundOf(a, u) \in Nat /\ SumFunction(LendRefunds(a)) \in Nat
      /\ SumFunction(Loans(a)) \in Nat /\ SumFunction(PledgeRefunds(a)) \in Nat
      /\ SpRedeemable(a) \in Nat /\ Collateral(a) \in Nat
  BY ShareTypes, SumTypes
<1>. QED BY <1>0, <1>1, <1>2, <1>3, <1>4, <1>5, SettledDues DEF Moves

LEMMA SpClaimed ==
  ASSUME NEW a, NEW b, Kept(a), Kept(b), Backed(a), a.pool.state \in Settled,
         SameTerms(a, b), b.borrow = a.borrow, b.jp = a.jp,
         NEW u \in Users, ~a.lend[u].claimed, b.lend[u].claimed,
         b.lend[u].refunded = a.lend[u].refunded,
         b.sp[u] = a.sp[u] + SpShareOf(a, u),
         \A v \in Users \ {u} : b.lend[v] = a.lend[v] /\ b.sp[v] = a.sp[v]
  PROVE  Moves(a, b, 0, 0)
<1>0. b.pool = a.pool /\ b.pool.state \in Settled
  BY DEF SameTerms
<1>1. /\ Loans(b) = Loans(a) /\ PledgeRefunds(b) = PledgeRefunds(a)
      /\ LendRefunds(b) = LendRefunds(a) /\ JpClaims(b) = JpClaims(a)
  BY SameShares DEF Loans, PledgeRefunds, LendRefunds, JpClaims
<1>2. SpClaims(b) = SpClaims(a)
  <2>1. SpShareOf(a, u) \in Nat /\ a.sp[u] \in Nat
    BY ShareTypes DEF Kept, Accounts
  <2>2. ASSUME NEW v \in Users PROVE SpClaims(b)[v] = SpClaims(a)[v]
    BY <2>1, SameShares DEF SpClaims
  <2>. QED BY <2>2 DEF SpClaims
<1>3. SpRedeemable(b) = SpRedeemable(a) /\ Collateral(b) = Collateral(a)
  BY <1>0, <1>1, <1>2 DEF SpRedeemable, Collateral, IsClosed, AllJp
<1>4. Backed(b)
  BY <1>0, <1>1, <1>2 DEF Backed, AllJp, Settled
<1>5. SettleDue(a) \in Nat /\ PledgeDue(a) \in Nat
  BY DueTypes
<1>6. SettleDue(b) = SettleDue(a) /\ PledgeDue(b) = PledgeDue(a)
  BY <1>0, <1>1, <1>3, SettledDues
<1>. QED BY <1>4, <1>5, <1>6 DEF Moves

LEMMA SpRedeemed ==
  ASSUME NEW a, NEW b, Kept(a), Kept(b), Backed(a), IsClosed(a),
         b.pool = a.pool, b.lend = a.lend, b.borrow = a.borrow, b.jp = a.jp,
         a.pool.settleAmountLend > 0,
         NEW u \in Users, NEW x \in Nat, b.sp[u] = a.sp[u] - x,
         \A v \in Users \ {u} : b.sp[v] = a.sp[v]
  PROVE  Moves(a, b, Share(LendPot(a.pool), x, a.pool.settleAmountLend), 0)
<1>0. a.pool.state \in Settled /\ b.pool.state \in Settled
  BY DEF IsClosed, Settled
<1>1. /\ Loans(b) = Loans(a) /\ PledgeRefunds(b) = PledgeRefunds(a)
      /\ LendRefunds(b) = LendRefunds(a) /\ JpClaims(b) = JpClaims(a)
      /\ Collateral(b) = Collateral(a)
      /\ \A v \in Users : SpShareOf(b, v) = SpShareOf(a, v)
  BY DEF Loans, LoanShareOf, PledgeRefunds, PledgeRefundOf, LendRefunds, LendRefundOf,
     JpClaims, JpShareOf, Collateral, IsClosed, AllJp, SpShareOf
<1>2. SumFunction(SpClaims(b)) + x <= SumFunction(SpClaims(a))
  <2>1. SpClaims(a) \in [Users -> Nat] /\ SpClaims(b) \in [Users -> Nat]
    BY <1>0, ShareTypes
  <2>2. a.sp[u] \in Nat /\ SpShareOf(a, u) \in Nat
    BY <1>0, ShareTypes DEF Kept, Accounts
  <2>3. /\ SpClaims(b)[u] = SpClaims(a)[u] - x
        /\ \A v \in Users \ {u} : SpClaims(b)[v] = SpClaims(a)[v]
    BY <1>1, <2>2 DEF SpClaims
  <2>. QED BY <2>1, <2>3, UserSum
<1> DEFINE pays == Share(LendPot(a.pool), x, a.pool.settleAmountLend)
<1>3. SpRedeemable(b) + pays <= SpRedeemable(a)
  BY <1>0, <1>2, SpRedeemedFor
<1>4. pays \in Nat
  BY KeptTypes, ShareNat
<1> HIDE DEF pays
<1>5. Backed(b)
  <2>1. SumFunction(SpClaims(b)) <= SumFunction(SpClaims(a))
    BY <1>0, <1>2, SumTypes
  <2>2. SumFunction(SpClaims(b)) <= a.pool.settleAmountLend
    BY <1>0, <2>1, SumTypes, KeptTypes DEF Backed
  <2>. QED BY <1>0, <1>1, <2>2 DEF Backed, AllJp, Settled
<1>6. /\ SumFunction(LendRefunds(a)) \in Nat
      /\ SumFunction(Loans(a)) \in Nat /\ SumFunction(PledgeRefunds(a)) \in Nat
      /\ SpRedeemable(a) \in Nat /\ Collateral(a) \in Nat /\ SpRedeemable(b) \in Nat
  BY <1>0, SumTypes
<1>7. SettleDue(b) + pays <= SettleDue(a) /\ PledgeDue(b) + 0 <= PledgeDue(a)
  BY <1>0, <1>1, <1>3, <1>4, <1>6, SettledDues
<1>. QED BY <1>5, <1>7 DEF Moves, pays

(* A borrower takes the refund: the share of the loan and the JP tokens    *)
(* are no longer due.                                                      *)
LEMMA PledgeRefunded ==
  ASSUME NEW a, NEW b, Kept(a), Kept(b), Backed(a), a.pool.state \in Settled,
         SameTerms(a, b), b.lend = a.lend, b.sp = a.sp, b.jp = a.jp,
         NEW u \in Users, ~a.borrow[u].settled, b.borrow[u].settled,
         \A v \in Users \ {u} : b.borrow[v] = a.borrow[v]
  PROVE  Moves(a, b, 0, PledgeRefundOf(a, u))
<1>0. b.pool = a.pool /\ b.pool.state \in Settled
  BY DEF SameTerms
<1>1. LendRefunds(b) = LendRefunds(a) /\ SpClaims(b) = SpClaims(a)
  BY SameShares DEF LendRefunds, SpClaims
<1>2. SpRedeemable(b) = SpRedeemable(a)
  BY <1>0, <1>1 DEF SpRedeemable, IsClosed
<1>3. /\ SumFunction(PledgeRefunds(b)) = SumFunction(PledgeRefunds(a)) - PledgeRefundOf(a, u) + 0
      /\ SumFunction(Loans(b)) = SumFunction(Loans(a)) - LoanShareOf(a, u) + 0
      /\ SumFunction(JpClaims(b)) = SumFunction(JpClaims(a)) - JpClaims(a)[u] + JpClaims(b)[u]
      /\ JpClaims(b)[u] = JpClaims(a)[u] - JpShareOf(a, u)
  <2>1. /\ PledgeRefunds(a) \in [Users -> Nat] /\ PledgeRefunds(b) \in [Users -> Nat]
        /\ Loans(a) \in [Users -> Nat] /\ Loans(b) \in [Users -> Nat]
        /\ JpClaims(a) \in [Users -> Nat] /\ JpClaims(b) \in [Users -> Nat]
    BY <1>0, ShareTypes
  <2>2. /\ PledgeRefunds(a)[u] = PledgeRefundOf(a, u) /\ PledgeRefunds(b)[u] = 0
        /\ Loans(a)[u] = LoanShareOf(a, u) /\ Loans(b)[u] = 0
        /\ \A v \in Users \ {u} : /\ PledgeRefunds(b)[v] = PledgeRefunds(a)[v]
                                  /\ Loans(b)[v] = Loans(a)[v]
                                  /\ JpClaims(b)[v] = JpClaims(a)[v]
    BY SameShares DEF PledgeRefunds, Loans, JpClaims
  <2>3. JpClaims(b)[u] = JpClaims(a)[u] - JpShareOf(a, u)
    <3>1. a.jp[u] \in Nat /\ JpShareOf(a, u) \in Nat
      BY ShareTypes DEF Kept, Accounts
    <3>. QED BY <3>1 DEF JpClaims
  <2>4. SumFunction(PledgeRefunds(b)) = SumFunction(PledgeRefunds(a)) - PledgeRefundOf(a, u) + 0
    BY <2>1, <2>2, UserSum
  <2>5. SumFunction(Loans(b)) = SumFunction(Loans(a)) - LoanShareOf(a, u) + 0
    BY <2>1, <2>2, UserSum
  <2>6. SumFunction(JpClaims(b)) = SumFunction(JpClaims(a)) - JpClaims(a)[u] + JpClaims(b)[u]
    BY <2>1, <2>2, UserSum
  <2>. QED BY <2>3, <2>4, <2>5, <2>6
<1>4. /\ PledgeRefundOf(a, u) \in Nat /\ LoanShareOf(a, u) \in Nat
      /\ JpShareOf(a, u) \in Nat /\ JpClaims(a)[u] \in Nat
      /\ SumFunction(LendRefunds(a)) \in Nat /\ SumFunction(SpClaims(a)) \in Nat
      /\ SumFunction(Loans(a)) \in Nat /\ SumFunction(PledgeRefunds(a)) \in Nat
      /\ SumFunction(JpClaims(a)) \in Nat /\ SumFunction(JpClaims(b)) \in Nat
      /\ SpRedeemable(a) \in Nat /\ Collateral(a) \in Nat /\ Collateral(b) \in Nat
  BY <1>0, ShareTypes, SumTypes
<1>5. SumFunction(JpClaims(b)) + JpShareOf(a, u) <= SumFunction(JpClaims(a))
  BY <1>3, <1>4
<1>6. Collateral(b) <= Collateral(a)
  BY <1>0, <1>4, <1>5, JpRedeemedFor
<1>7. Backed(b)
  <2>1. SumFunction(JpClaims(b)) <= SumFunction(JpClaims(a))
    BY <1>4, <1>5
  <2>2. AllJp(b) = AllJp(a) /\ AllJp(a) \in Nat
    BY SameShares, KeptTypes
  <2>3. SumFunction(JpClaims(b)) <= AllJp(b)
    <3>1. SumFunction(JpClaims(a)) <= AllJp(a)
      BY DEF Backed
    <3>. QED BY <1>4, <2>1, <2>2, <3>1
  <2>. QED BY <1>0, <1>1, <2>3 DEF Backed, Settled
<1>8. /\ SettleDue(b) + 0 <= SettleDue(a)
      /\ PledgeDue(b) + PledgeRefundOf(a, u) <= PledgeDue(a)
  BY <1>0, <1>1, <1>2, <1>3, <1>4, <1>6, SettledDues
<1>. QED BY <1>7, <1>8 DEF Moves

(* A borrower takes the loan: the JP tokens minted are those that were due,*)
(* and the refund is no longer.                                            *)
LEMMA LoanClaimed ==
  ASSUME NEW a, NEW b, Kept(a), Kept(b), Backed(a), a.pool.state \in Settled,
         SameTerms(a, b), b.lend = a.lend, b.sp = a.sp,
         NEW u \in Users, ~a.borrow[u].settled, b.borrow[u].settled,
         b.jp[u] = a.jp[u] + JpShareOf(a, u),
         \A v \in Users \ {u} : b.borrow[v] = a.borrow[v] /\ b.jp[v] = a.jp[v]
  PROVE  Moves(a, b, LoanShareOf(a, u), 0)
<1>0. b.pool = a.pool /\ b.pool.state \in Settled
  BY DEF SameTerms
<1>1. LendRefunds(b) = LendRefunds(a) /\ SpClaims(b) = SpClaims(a)
  BY SameShares DEF LendRefunds, SpClaims
<1>2. JpClaims(b) = JpClaims(a)
  <2>1. JpShareOf(a, u) \in Nat /\ a.jp[u] \in Nat
    BY ShareTypes DEF Kept, Accounts
  <2>2. ASSUME NEW v \in Users PROVE JpClaims(b)[v] = JpClaims(a)[v]
    BY <2>1, SameShares DEF JpClaims
  <2>. QED BY <2>2 DEF JpClaims
<1>3. SpRedeemable(b) = SpRedeemable(a) /\ Collateral(b) = Collateral(a)
  BY <1>0, <1>1, <1>2 DEF SpRedeemable, Collateral, IsClosed, AllJp
<1>4. /\ SumFunction(PledgeRefunds(b)) = SumFunction(PledgeRefunds(a)) - PledgeRefundOf(a, u) + 0
      /\ SumFunction(Loans(b)) = SumFunction(Loans(a)) - LoanShareOf(a, u) + 0
  <2>1. /\ PledgeRefunds(a) \in [Users -> Nat] /\ PledgeRefunds(b) \in [Users -> Nat]
        /\ Loans(a) \in [Users -> Nat] /\ Loans(b) \in [Users -> Nat]
    BY <1>0, ShareTypes
  <2>2. /\ PledgeRefunds(a)[u] = PledgeRefundOf(a, u) /\ PledgeRefunds(b)[u] = 0
        /\ Loans(a)[u] = LoanShareOf(a, u) /\ Loans(b)[u] = 0
        /\ \A v \in Users \ {u} : /\ PledgeRefunds(b)[v] = PledgeRefunds(a)[v]
                                  /\ Loans(b)[v] = Loans(a)[v]
    BY SameShares DEF PledgeRefunds, Loans
  <2>3. SumFunction(PledgeRefunds(b)) = SumFunction(PledgeRefunds(a)) - PledgeRefundOf(a, u) + 0
    BY <2>1, <2>2, UserSum
  <2>4. SumFunction(Loans(b)) = SumFunction(Loans(a)) - LoanShareOf(a, u) + 0
    BY <2>1, <2>2, UserSum
  <2>. QED BY <2>3, <2>4
<1>5. Backed(b)
  BY <1>0, <1>1, <1>2 DEF Backed, AllJp, Settled
<1>6. /\ PledgeRefundOf(a, u) \in Nat /\ LoanShareOf(a, u) \in Nat
      /\ SumFunction(LendRefunds(a)) \in Nat
      /\ SumFunction(Loans(a)) \in Nat /\ SumFunction(PledgeRefunds(a)) \in Nat
      /\ SpRedeemable(a) \in Nat /\ Collateral(a) \in Nat
  BY ShareTypes, SumTypes
<1>7. /\ SettleDue(b) + LoanShareOf(a, u) <= SettleDue(a)
      /\ PledgeDue(b) + 0 <= PledgeDue(a)
  BY <1>0, <1>1, <1>3, <1>4, <1>6, SettledDues
<1>. QED BY <1>5, <1>7 DEF Moves

LEMMA JpRedeemed ==
  ASSUME NEW a, NEW b, Kept(a), Kept(b), Backed(a), IsClosed(a),
         b.pool = a.pool, b.lend = a.lend, b.borrow = a.borrow, b.sp = a.sp,
         AllJp(a) > 0,
         NEW u \in Users, NEW x \in Nat, b.jp[u] = a.jp[u] - x,
         \A v \in Users \ {u} : b.jp[v] = a.jp[v]
  PROVE  Moves(a, b, 0, Share(BorrowPot(a.pool), x, AllJp(a)))
<1>0. a.pool.state \in Settled /\ b.pool.state \in Settled
  BY DEF IsClosed, Settled
<1>1. /\ Loans(b) = Loans(a) /\ PledgeRefunds(b) = PledgeRefunds(a)
      /\ LendRefunds(b) = LendRefunds(a) /\ SpClaims(b) = SpClaims(a)
      /\ SpRedeemable(b) = SpRedeemable(a) /\ AllJp(b) = AllJp(a)
      /\ \A v \in Users : JpShareOf(b, v) = JpShareOf(a, v)
  BY DEF Loans, LoanShareOf, PledgeRefunds, PledgeRefundOf, LendRefunds, LendRefundOf,
     JpShareOf, SpClaims, SpRedeemable, IsClosed, AllJp, SpShareOf
<1>2. SumFunction(JpClaims(b)) + x <= SumFunction(JpClaims(a))
  <2>1. JpClaims(a) \in [Users -> Nat] /\ JpClaims(b) \in [Users -> Nat]
    BY <1>0, ShareTypes
  <2>2. a.jp[u] \in Nat /\ JpShareOf(a, u) \in Nat
    BY <1>0, ShareTypes DEF Kept, Accounts
  <2>3. /\ JpClaims(b)[u] = JpClaims(a)[u] - x
        /\ \A v \in Users \ {u} : JpClaims(b)[v] = JpClaims(a)[v]
    BY <1>1, <2>2 DEF JpClaims
  <2>. QED BY <2>1, <2>3, UserSum
<1> DEFINE pays == Share(BorrowPot(a.pool), x, AllJp(a))
<1>3. Collateral(b) + pays <= Collateral(a)
  BY <1>0, <1>2, JpRedeemedFor
<1>4. pays \in Nat
  BY KeptTypes, ShareNat
<1> HIDE DEF pays
<1>5. Backed(b)
  <2>1. SumFunction(JpClaims(b)) <= SumFunction(JpClaims(a))
    BY <1>0, <1>2, SumTypes
  <2>2. SumFunction(JpClaims(b)) <= AllJp(b)
    BY <1>0, <1>1, <2>1, SumTypes, KeptTypes DEF Backed
  <2>. QED BY <1>0, <1>1, <2>2 DEF Backed, Settled
<1>6. /\ SumFunction(LendRefunds(a)) \in Nat
      /\ SumFunction(Loans(a)) \in Nat /\ SumFunction(PledgeRefunds(a)) \in Nat
      /\ SpRedeemable(a) \in Nat /\ Collateral(a) \in Nat /\ Collateral(b) \in Nat
  BY <1>0, SumTypes
<1>7. SettleDue(b) + 0 <= SettleDue(a) /\ PledgeDue(b) + pays <= PledgeDue(a)
  BY <1>0, <1>1, <1>3, <1>4, <1>6, SettledDues
<1>. QED BY <1>5, <1>7 DEF Moves, pays

(* Closing a pool puts the repayment in the lenders' pot, and what the     *)
(* sale left of the collateral in the borrowers': the tokens, which are    *)
(* never more than all of them, redeem no more than the pots.              *)
LEMMA CloseMove ==
  ASSUME NEW a, NEW b, Kept(a), Kept(b), Backed(a),
         a.pool.state = "EXECUTION", IsClosed(b),
         \A f \in {"lendSupply", "borrowSupply", "settleAmountLend",
                   "settleAmountBorrow", "pledgeRate"} : b.pool[f] = a.pool[f],
         b.lend = a.lend, b.sp = a.sp, b.jp = a.jp,
         \A u \in Users : /\ b.borrow[u].pledgeAmount = a.borrow[u].pledgeAmount
                          /\ b.borrow[u].settled = a.borrow[u].settled
  PROVE  Moves(a, b, 0 - LendPot(b.pool),
               a.pool.settleAmountBorrow - BorrowPot(b.pool))
<1>0. a.pool.state \in Settled /\ b.pool.state \in Settled /\ ~IsClosed(a)
  BY DEF IsClosed, Settled
<1>1. /\ \A u \in Users :
           /\ LendRefundOf(b, u) = LendRefundOf(a, u)
           /\ SpShareOf(b, u) = SpShareOf(a, u)
           /\ PledgeRefundOf(b, u) = PledgeRefundOf(a, u)
           /\ LoanShareOf(b, u) = LoanShareOf(a, u)
           /\ JpShareOf(b, u) = JpShareOf(a, u)
      /\ AllJp(b) = AllJp(a)
  BY DEF LendRefundOf, SpShareOf, PledgeRefundOf, LoanShareOf, JpShareOf, AllJp
<1>2. /\ Loans(b) = Loans(a) /\ PledgeRefunds(b) = PledgeRefunds(a)
      /\ LendRefunds(b) = LendRefunds(a) /\ SpClaims(b) = SpClaims(a)
      /\ JpClaims(b) = JpClaims(a)
  BY <1>1 DEF Loans, PledgeRefunds, LendRefunds, SpClaims, JpClaims
<1>3. Backed(b)
  BY <1>0, <1>1, <1>2 DEF Backed, Settled
<1> DEFINE s == SumFunction(SpClaims(b))
           t == SumFunction(JpClaims(b))
           loan == b.pool.settleAmountLend
           all == AllJp(b)
           lp == LendPot(b.pool)
           bp == BorrowPot(b.pool)
<1>4. /\ s \in Nat /\ t \in Nat /\ loan \in Nat /\ all \in Nat /\ lp \in Nat /\ bp \in Nat
      /\ s <= loan /\ t <= all
  BY <1>0, <1>3, SumTypes, KeptTypes DEF Backed
<1>5. /\ SpRedeemable(b) = IF loan > 0 THEN Share(lp, s, loan) ELSE 0
      /\ Collateral(b) = IF all = 0 THEN 0 ELSE Share(bp, t, all)
      /\ SpRedeemable(a) = 0 /\ Collateral(a) = a.pool.settleAmountBorrow
  BY <1>0 DEF SpRedeemable, Collateral
<1>6. SpRedeemable(b) <= lp /\ Collateral(b) <= bp
  <2> HIDE DEF s, t, loan, all, lp, bp
  <2>. QED BY <1>4, <1>5, ShareOfPart
<1>7. /\ SumFunction(LendRefunds(a)) \in Nat
      /\ SumFunction(Loans(a)) \in Nat /\ SumFunction(PledgeRefunds(a)) \in Nat
      /\ SpRedeemable(b) \in Nat /\ Collateral(b) \in Nat
      /\ a.pool.settleAmountBorrow \in Nat
  BY <1>0, SumTypes, KeptTypes
<1> HIDE DEF lp, bp
<1>8. /\ SettleDue(b) + (0 - lp) <= SettleDue(a)
      /\ PledgeDue(b) + (a.pool.settleAmountBorrow - bp) <= PledgeDue(a)
  BY <1>0, <1>2, <1>4, <1>5, <1>6, <1>7, SettledDues
<1>. QED BY <1>3, <1>8 DEF Moves, lp, bp

(* SP or JP tokens that change hands.                                      *)
LEMMA TokensMoved ==
  ASSUME NEW f \in [Users -> Nat], NEW g \in [Users -> Nat], NEW u \in Users,
         NEW v \in Users, u # v, NEW x \in Nat,
         g[u] = f[u] - x, g[v] = f[v] + x, \A w \in Users \ {u, v} : g[w] = f[w]
  PROVE  SumFunction(g) = SumFunction(f)
<1> DEFINE h == [f EXCEPT ![u] = @ - x]
<1>1. /\ h \in [Users -> Nat] /\ h[u] = f[u] - x /\ h[v] = f[v]
      /\ \A w \in Users \ {u} : h[w] = f[w]
      /\ \A w \in Users \ {v} : g[w] = h[w]
  <2>1. f[u] - x \in Nat
    <3>1. g[u] \in Nat
      OBVIOUS
    <3>. QED BY <3>1
  <2>. QED BY <2>1
<1> HIDE DEF h
<1>2. SumFunction(h) = SumFunction(f) - f[u] + h[u]
  BY <1>1, UserSum
<1>3. SumFunction(g) = SumFunction(h) - h[v] + g[v]
  BY <1>1, UserSum
<1>4. SumFunction(f) \in Nat /\ f[u] \in Nat /\ f[v] \in Nat
  BY UsersAssumption, SumNat
<1>. QED BY <1>1, <1>2, <1>3, <1>4

Swapped(f, g) ==
  \/ g = f
  \/ \E u, v \in Users, x \in Nat :
       /\ u # v
       /\ g[u] = f[u] - x /\ g[v] = f[v] + x
       /\ \A w \in Users \ {u, v} : g[w] = f[w]

LEMMA TokensSwapped ==
  ASSUME NEW a, NEW b, Kept(a), Kept(b), Backed(a), a.pool.state \in Settled,
         b.pool = a.pool, b.lend = a.lend, b.borrow = a.borrow,
         Swapped(a.sp, b.sp), Swapped(a.jp, b.jp)
  PROVE  Moves(a, b, 0, 0)
<1>0. b.pool.state \in Settled
  OBVIOUS
<1>1. /\ Loans(b) = Loans(a) /\ PledgeRefunds(b) = PledgeRefunds(a)
      /\ LendRefunds(b) = LendRefunds(a) /\ AllJp(b) = AllJp(a)
      /\ \A v \in Users : SpShareOf(b, v) = SpShareOf(a, v)
      /\ \A v \in Users : JpShareOf(b, v) = JpShareOf(a, v)
  BY DEF Loans, LoanShareOf, PledgeRefunds, PledgeRefundOf, LendRefunds, LendRefundOf,
     JpShareOf, AllJp, SpShareOf
<1>2. /\ \A v \in Users : /\ a.sp[v] \in Nat /\ b.sp[v] \in Nat
                          /\ a.jp[v] \in Nat /\ b.jp[v] \in Nat
                          /\ SpShareOf(a, v) \in Nat /\ JpShareOf(a, v) \in Nat
      /\ SpClaims(a) \in [Users -> Nat] /\ JpClaims(a) \in [Users -> Nat]
      /\ SpClaims(b) \in [Users -> Nat] /\ JpClaims(b) \in [Users -> Nat]
  BY <1>0, ShareTypes DEF Kept, Accounts
<1>3. SumFunction(SpClaims(b)) = SumFunction(SpClaims(a))
  <2>1. CASE b.sp = a.sp
    <3>1. SpClaims(b) = SpClaims(a)
      BY <1>1, <2>1 DEF SpClaims
    <3>. QED BY <3>1
  <2>2. ASSUME NEW u \in Users, NEW v \in Users, NEW x \in Nat, u # v,
               b.sp[u] = a.sp[u] - x, b.sp[v] = a.sp[v] + x,
               \A w \in Users \ {u, v} : b.sp[w] = a.sp[w]
        PROVE  SumFunction(SpClaims(b)) = SumFunction(SpClaims(a))
    <3>1. /\ SpClaims(b)[u] = SpClaims(a)[u] - x /\ SpClaims(b)[v] = SpClaims(a)[v] + x
          /\ \A w \in Users \ {u, v} : SpClaims(b)[w] = SpClaims(a)[w]
      BY <1>1, <1>2, <2>2 DEF SpClaims
    <3> DEFINE f == SpClaims(a)
               g == SpClaims(b)
    <3>2. /\ f \in [Users -> Nat] /\ g \in [Users -> Nat]
          /\ g[u] = f[u] - x /\ g[v] = f[v] + x
          /\ \A w \in Users \ {u, v} : g[w] = f[w]
      BY <1>2, <3>1
    <3> HIDE DEF f, g
    <3>3. SumFunction(g) = SumFunction(f)
      BY <2>2, <3>2, TokensMoved
    <3>. QED BY <3>3 DEF f, g
  <2>. QED BY <2>1, <2>2 DEF Swapped
<1>4. SumFunction(JpClaims(b)) = SumFunction(JpClaims(a))
  <2>1. CASE b.jp = a.jp
    <3>1. JpClaims(b) = JpClaims(a)
      BY <1>1, <2>1 DEF JpClaims
    <3>. QED BY <3>1
  <2>2. ASSUME NEW u \in Users, NEW v \in Users, NEW x \in Nat, u # v,
               b.jp[u] = a.jp[u] - x, b.jp[v] = a.jp[v] + x,
               \A w \in Users \ {u, v} : b.jp[w] = a.jp[w]
        PROVE  SumFunction(JpClaims(b)) = SumFunction(JpClaims(a))
    <3>1. /\ JpClaims(b)[u] = JpClaims(a)[u] - x /\ JpClaims(b)[v] = JpClaims(a)[v] + x
          /\ \A w \in Users \ {u, v} : JpClaims(b)[w] = JpClaims(a)[w]
      BY <1>1, <1>2, <2>2 DEF JpClaims
    <3> DEFINE f == JpClaims(a)
               g == JpClaims(b)
    <3>2. /\ f \in [Users -> Nat] /\ g \in [Users -> Nat]
          /\ g[u] = f[u] - x /\ g[v] = f[v] + x
          /\ \A w \in Users \ {u, v} : g[w] = f[w]
      BY <1>2, <3>1
    <3> HIDE DEF f, g
    <3>3. SumFunction(g) = SumFunction(f)
      BY <2>2, <3>2, TokensMoved
    <3>. QED BY <3>3 DEF f, g
  <2>. QED BY <2>1, <2>2 DEF Swapped
<1>5. SpRedeemable(b) = SpRedeemable(a) /\ Collateral(b) = Collateral(a)
  BY <1>1, <1>3, <1>4 DEF SpRedeemable, Collateral, IsClosed
<1>6. SettleDue(b) = SettleDue(a) /\ PledgeDue(b) = PledgeDue(a)
  BY <1>0, <1>1, <1>5, SettledDues
<1>7. Backed(b)
  BY <1>0, <1>1, <1>3, <1>4 DEF Backed, Settled
<1>. QED BY <1>6, <1>7, DueTypes DEF Moves

-----------------------------------------------------------------------------
(* The accounts of the pools that exist.                                   *)

(* createPool sets neither debt token, createPoolInfo both.                *)
TokensTogether ==
  \A q \in Created : pools[q].spToken = NoToken <=> pools[q].jpToken = NoToken

(* The sum SettlePledge owes in token t for pool p, by its account.        *)
DueIn(p, t) ==
  (IF pools[p].settleToken = t THEN SettleDue(Account(p)) ELSE 0)
    + (IF pools[p].pledgeToken = t THEN PledgeDue(Account(p)) ELSE 0)

Dues(t) == [p \in Created |-> DueIn(p, t)]

AllKept == \A p \in Created : Kept(Account(p))

AllOwed == \A t \in Tokens : Owed(t) = SumFunction(Dues(t))

AllClaims ==
  \A p \in Created : /\ SpOutstanding(p) = SumFunction(SpClaims(Account(p)))
                     /\ JpOutstanding(p) = SumFunction(JpClaims(Account(p)))

BooksInv == LInv /\ PositionsAccounted /\ TokensTogether

LEMMA CreatedPools ==
  ASSUME TypeOK
  PROVE  Created \subseteq PoolIds /\ IsFiniteSet(Created) /\ poolCounter \in Nat
  BY BoundsAssumption, FS_Interval DEF TypeOK, Created, PoolIds

LEMMA DebtTokensUsed ==
  ASSUME TypeOK, TokensTogether, DebtTokensDedicated, NEW p \in Created
  PROVE  pools[p].spToken \in DebtTokens /\ pools[p].jpToken \in DebtTokens
<1>1. pools[p] \in Pool
  BY CreatedPools DEF TypeOK
<1>2. /\ pools[p].spToken \in DebtTokens \cup {NoToken}
      /\ pools[p].jpToken \in DebtTokens \cup {NoToken}
  BY <1>1 DEF Pool
<1>. QED BY <1>2 DEF TokensTogether, DebtTokensDedicated

LEMMA AccountFields ==
  ASSUME NEW p
  PROVE  /\ Account(p).pool = pools[p] /\ Account(p).lend = lendInfos[p]
         /\ Account(p).borrow = borrowInfos[p]
         /\ Account(p).sp = debt[pools[p].spToken]
         /\ Account(p).jp = debt[pools[p].jpToken]
         /\ Account(p)'.pool = pools'[p] /\ Account(p)'.lend = lendInfos'[p]
         /\ Account(p)'.borrow = borrowInfos'[p]
         /\ Account(p)'.sp = debt'[pools'[p].spToken]
         /\ Account(p)'.jp = debt'[pools'[p].jpToken]
  BY DEF Account

LEMMA AccountsKept == BooksInv /\ DebtTokensDedicated => AllKept
<1>. SUFFICES ASSUME BooksInv, DebtTokensDedicated, NEW p \in Created
              PROVE  Kept(Account(p))
  BY DEF AllKept
<1>1. /\ TypeOK /\ p \in PoolIds /\ SettlementBounded /\ PotsCoverLoan
      /\ PositionsAccounted /\ TokensTogether
  BY CreatedPools DEF BooksInv, LInv, TInv
<1>2. Account(p) \in Accounts
  <2>1. pools[p].spToken \in DebtTokens /\ pools[p].jpToken \in DebtTokens
    BY <1>1, DebtTokensUsed
  <2>. QED BY <1>1, <2>1 DEF Account, Accounts, TypeOK
<1>3. /\ Lent(Account(p)) = LentBy(p) /\ Pledged(Account(p)) = PledgedBy(p)
  BY DEF Lent, Pledged, LentBy, PledgedBy, Account
<1>4. /\ pools[p].lendSupply = SumFunction(LentBy(p))
      /\ pools[p].borrowSupply = SumFunction(PledgedBy(p))
  BY <1>1, PositionsAsAccounts DEF Accounted
<1>5. /\ pools[p].settleAmountLend <= pools[p].lendSupply
      /\ pools[p].settleAmountBorrow <= pools[p].borrowSupply
      /\ pools[p].state \in Settled => pools[p].lendSupply > 0 /\ pools[p].borrowSupply > 0
  BY <1>1 DEF SettlementBounded, PotsCoverLoan
<1>6. Account(p).pool = pools[p]
  BY DEF Account
<1>. QED BY <1>2, <1>3, <1>4, <1>5, <1>6 DEF Kept

LEMMA ClaimsAreAccounts == AllClaims
<1>. SUFFICES ASSUME NEW p \in Created
              PROVE  /\ SpOutstanding(p) = SumFunction(SpClaims(Account(p)))
                     /\ JpOutstanding(p) = SumFunction(JpClaims(Account(p)))
  BY DEF AllClaims
<1>1. SpOutstanding(p) = SumFunction(SpClaims(Account(p)))
  BY DEF SpOutstanding, Sum, SpShare, SpClaims, SpShareOf, Account
<1>2. JpOutstanding(p) = SumFunction(JpClaims(Account(p)))
  BY DEF JpOutstanding, Sum, JpOf, JpClaims, JpShareOf, Account
<1>. QED BY <1>1, <1>2

LEMMA OwedByAccounts == AllKept /\ TypeOK => AllOwed
<1>. SUFFICES ASSUME AllKept, TypeOK, NEW t \in Tokens
              PROVE  Owed(t) = SumFunction(Dues(t))
  BY DEF AllOwed
<1>1. ASSUME NEW p \in Created
      PROVE  /\ SettleTokenOwed(p) = SettleDue(Account(p))
             /\ PledgeTokenOwed(p) = PledgeDue(Account(p))
  <2> DEFINE a == Account(p)
  <2>1. Kept(a)
    BY DEF AllKept
  <2>2. /\ a.pool = pools[p] /\ a.lend = lendInfos[p] /\ a.borrow = borrowInfos[p]
        /\ a.sp = debt[pools[p].spToken] /\ a.jp = debt[pools[p].jpToken]
    BY DEF Account
  <2>3. /\ SpOutstanding(p) = SumFunction(SpClaims(a))
        /\ JpOutstanding(p) = SumFunction(JpClaims(a))
    BY ClaimsAreAccounts DEF AllClaims
  <2>4. a.pool.state \in {"MATCH", "UNDONE"} \/ a.pool.state \in Settled
    BY <2>1, KeptTypes DEF PoolState, Settled
  <2>5. CASE a.pool.state = "MATCH"
    BY <2>2, <2>5 DEF SettleTokenOwed, PledgeTokenOwed, SettleDue, PledgeDue
  <2>6. CASE a.pool.state = "UNDONE"
    <3>1. /\ Deposits(a) = [u \in Users |-> IF lendInfos[p][u].refunded THEN 0
                                            ELSE lendInfos[p][u].amount]
          /\ Pledges(a) = [u \in Users |-> IF borrowInfos[p][u].settled THEN 0
                                           ELSE borrowInfos[p][u].pledgeAmount]
      BY <2>2 DEF Deposits, Pledges
    <3>2. SettleDue(a) = SumFunction(Deposits(a)) /\ PledgeDue(a) = SumFunction(Pledges(a))
      BY <2>6 DEF SettleDue, PledgeDue
    <3>3. SettleTokenOwed(p) = SumFunction(Deposits(a))
      <4>1. SettleTokenOwed(p) = Sum(LAMBDA u : IF lendInfos[p][u].refunded THEN 0
                                                ELSE lendInfos[p][u].amount)
        BY <2>2, <2>6 DEF SettleTokenOwed
      <4>. QED BY <3>1, <4>1 DEF Sum
    <3>4. PledgeTokenOwed(p) = SumFunction(Pledges(a))
      <4>1. PledgeTokenOwed(p) = Sum(LAMBDA u : IF borrowInfos[p][u].settled THEN 0
                                                ELSE borrowInfos[p][u].pledgeAmount)
        BY <2>2, <2>6 DEF PledgeTokenOwed
      <4>. QED BY <3>1, <4>1 DEF Sum
    <3>. QED BY <3>2, <3>3, <3>4
  <2>7. CASE a.pool.state \in Settled
    <3> DEFINE both == [u \in Users |->
                  (IF lendInfos[p][u].refunded THEN 0 ELSE LendRefund(p, u))
                    + (IF borrowInfos[p][u].settled THEN 0 ELSE LoanShare(p, u))]
    <3>1. /\ \A u \in Users : LendRefundOf(a, u) = LendRefund(p, u)
          /\ \A u \in Users : LoanShareOf(a, u) = LoanShare(p, u)
          /\ \A u \in Users : PledgeRefundOf(a, u) = PledgeRefund(p, u)
      BY <2>2 DEF LendRefundOf, LendRefund, LoanShareOf, LoanShare, PledgeRefundOf,
         PledgeRefund
    <3>2. SumFunction(both) = SumFunction(LendRefunds(a)) + SumFunction(Loans(a))
      <4>1. /\ LendRefunds(a) \in [Users -> Nat] /\ Loans(a) \in [Users -> Nat]
        BY <2>1, <2>7, ShareTypes
      <4>2. \A u \in Users : both[u] = LendRefunds(a)[u] + Loans(a)[u]
        BY <2>2, <3>1 DEF LendRefunds, Loans
      <4>3. /\ LendRefunds(a) \in [Users -> Int] /\ Loans(a) \in [Users -> Int]
            /\ both \in [Users -> Int]
        <5>1. \A u \in Users : both[u] \in Int
          BY <4>1, <4>2
        <5>. QED BY <4>1, <5>1
      <4> HIDE DEF a, both
      <4>. QED BY <4>2, <4>3, UsersAssumption, SumAdded
    <3>3. PledgeRefunds(a) = [u \in Users |-> IF borrowInfos[p][u].settled THEN 0
                                              ELSE PledgeRefund(p, u)]
      BY <2>2, <3>1 DEF PledgeRefunds
    <3>4. pools[p].state \notin {"MATCH", "UNDONE"}
      BY <2>2, <2>7 DEF Settled
    <3>5. SettleTokenOwed(p) = SumFunction(both) + SpRedeemable(a)
      <4> HIDE DEF a
      <4>. QED BY <2>2, <2>3, <3>4 DEF SettleTokenOwed, Sum, SpRedeemable, IsClosed, Closed
    <3>6. PledgeTokenOwed(p) = SumFunction(PledgeRefunds(a)) + Collateral(a)
      <4> HIDE DEF a
      <4>. QED BY <2>2, <2>3, <3>3, <3>4 DEF PledgeTokenOwed, Sum, Collateral, IsClosed,
                  Closed, AllJp
    <3>. QED BY <2>7, <3>2, <3>5, <3>6, SettledDues
  <2>. QED BY <2>4, <2>5, <2>6, <2>7
<1>2. Owed(t) = SumFunction([p \in Created |->
                  (IF pools[p].settleToken = t THEN SettleTokenOwed(p) ELSE 0)
                    + (IF pools[p].pledgeToken = t THEN PledgeTokenOwed(p) ELSE 0)])
  BY DEF Owed
<1>3. [p \in Created |->
         (IF pools[p].settleToken = t THEN SettleTokenOwed(p) ELSE 0)
           + (IF pools[p].pledgeToken = t THEN PledgeTokenOwed(p) ELSE 0)] = Dues(t)
  BY <1>1 DEF Dues, DueIn
<1>. QED BY <1>2, <1>3

LEMMA DuesTypes ==
  ASSUME AllKept, NEW t \in Tokens
  PROVE  Dues(t) \in [Created -> Nat]
  BY DueTypes DEF Dues, DueIn, AllKept

-----------------------------------------------------------------------------
(* The contract as a whole: every account is backed, the balance of every  *)
(* token covers the dues of all the pools, and a debt token no pool has    *)
(* taken has no holders.                                                   *)
AllBacked == \A p \in Created : Backed(Account(p))

Balanced == \A t \in Tokens : SumFunction(Dues(t)) <= balance[t]

UnusedEmpty ==
  \A d \in DebtTokens :
    (\A p \in Created : d # pools[p].spToken /\ d # pools[p].jpToken) =>
      \A u \in Users : debt[d][u] = 0

Safe == AllBacked /\ Balanced /\ UnusedEmpty

(* What every step below starts from.                                      *)
Ready ==
  /\ TInv /\ TypeOK' /\ TokensTogether /\ DebtTokensDedicated
  /\ AllKept /\ AllKept' /\ Safe

(* A step that is about pool p alone, and pays at most x of its settle and *)
(* y of its pledge token.                                                  *)
OnlyPool(p) ==
  /\ p \in Created /\ poolCounter' = poolCounter
  /\ \A q \in Created \ {p} : /\ pools'[q] = pools[q]
                              /\ lendInfos'[q] = lendInfos[q]
                              /\ borrowInfos'[q] = borrowInfos[q]
  /\ pools'[p].spToken = pools[p].spToken
  /\ pools'[p].jpToken = pools[p].jpToken
  /\ pools'[p].settleToken = pools[p].settleToken
  /\ pools'[p].pledgeToken = pools[p].pledgeToken
  /\ \A d \in DebtTokens :
       d # pools[p].spToken /\ d # pools[p].jpToken => debt'[d] = debt[d]

Pays(p, x, y) ==
  \A t \in Tokens :
    balance'[t] >= balance[t] - (IF pools[p].settleToken = t THEN x ELSE 0)
                              - (IF pools[p].pledgeToken = t THEN y ELSE 0)

LEMMA OnePoolStep ==
  ASSUME Ready, NEW p, NEW x \in Int, NEW y \in Int, OnlyPool(p), Pays(p, x, y),
         Moves(Account(p), Account(p)', x, y)
  PROVE  Safe'
<1>0. /\ TypeOK /\ TypeOK' /\ AllKept /\ AllKept' /\ p \in Created
      /\ Created' = Created /\ IsFiniteSet(Created) /\ Created \subseteq PoolIds
  BY CreatedPools DEF Ready, TInv, OnlyPool, Created
<1>1. ASSUME NEW q \in Created \ {p}
      PROVE  Account(q)' = Account(q)
  <2>1. /\ pools[q].spToken \in DebtTokens /\ pools[q].jpToken \in DebtTokens
    BY <1>0, DebtTokensUsed DEF Ready
  <2>2. {pools[p].spToken, pools[p].jpToken}
          \cap {pools[q].spToken, pools[q].jpToken} = {}
    BY <1>0 DEF Ready, DebtTokensDedicated
  <2>3. /\ debt'[pools[q].spToken] = debt[pools[q].spToken]
        /\ debt'[pools[q].jpToken] = debt[pools[q].jpToken]
    BY <2>1, <2>2 DEF OnlyPool
  <2>4. pools'[q] = pools[q] /\ lendInfos'[q] = lendInfos[q] /\ borrowInfos'[q] = borrowInfos[q]
    BY DEF OnlyPool
  <2>. QED BY <2>3, <2>4 DEF Account
<1>2. AllBacked'
  BY <1>0, <1>1 DEF AllBacked, Moves, Ready, Safe
<1>3. ASSUME NEW t \in Tokens
      PROVE  SumFunction(Dues(t)') <= balance'[t]
  <2> DEFINE f == Dues(t)
             g == Dues(t)'
             before == SumFunction(f)
             paid == (IF pools[p].settleToken = t THEN x ELSE 0)
                       + (IF pools[p].pledgeToken = t THEN y ELSE 0)
  <2>1. f \in [Created -> Nat] /\ g \in [Created -> Nat]
    <3>1. Dues(t) \in [Created -> Nat]
      BY <1>0, DuesTypes
    <3>2. Dues(t)' \in [Created -> Nat]
      <4>1. \A q \in Created : SettleDue(Account(q)') \in Nat /\ PledgeDue(Account(q)') \in Nat
        BY <1>0, DueTypes DEF AllKept
      <4>. QED BY <1>0, <4>1 DEF Dues, DueIn
    <3>. QED BY <3>1, <3>2
  <2>2. \A q \in Created : q # p => g[q] = f[q]
    BY <1>0, <1>1 DEF Dues, DueIn, OnlyPool
  <2>3. g[p] + paid <= f[p]
    <3>1. /\ SettleDue(Account(p)') \in Nat /\ PledgeDue(Account(p)') \in Nat
          /\ SettleDue(Account(p)) \in Nat /\ PledgeDue(Account(p)) \in Nat
      BY <1>0, DueTypes DEF AllKept
    <3>2. /\ f[p] = (IF pools[p].settleToken = t THEN SettleDue(Account(p)) ELSE 0)
                      + (IF pools[p].pledgeToken = t THEN PledgeDue(Account(p)) ELSE 0)
          /\ g[p] = (IF pools[p].settleToken = t THEN SettleDue(Account(p)') ELSE 0)
                      + (IF pools[p].pledgeToken = t THEN PledgeDue(Account(p)') ELSE 0)
      BY <1>0 DEF Dues, DueIn, OnlyPool
    <3>3. /\ SettleDue(Account(p)') + x <= SettleDue(Account(p))
          /\ PledgeDue(Account(p)') + y <= PledgeDue(Account(p))
      BY DEF Moves
    <3> DEFINE sa == SettleDue(Account(p))
               sb == SettleDue(Account(p)')
               pa == PledgeDue(Account(p))
               pb == PledgeDue(Account(p)')
    <3>4. /\ sa \in Nat /\ sb \in Nat /\ pa \in Nat /\ pb \in Nat
          /\ sb + x <= sa /\ pb + y <= pa
          /\ f[p] = (IF pools[p].settleToken = t THEN sa ELSE 0)
                      + (IF pools[p].pledgeToken = t THEN pa ELSE 0)
          /\ g[p] = (IF pools[p].settleToken = t THEN sb ELSE 0)
                      + (IF pools[p].pledgeToken = t THEN pb ELSE 0)
      BY <3>1, <3>2, <3>3
    <3> HIDE DEF sa, sb, pa, pb, f, g
    <3>. QED BY <3>4
  <2>4. before <= balance[t]
    BY DEF Ready, Safe, Balanced
  <2>5. balance'[t] >= balance[t] - paid /\ paid \in Int
    <3>1. balance[t] \in Nat /\ balance'[t] \in Nat
      BY <1>0 DEF TypeOK
    <3>2. balance'[t] >= balance[t] - (IF pools[p].settleToken = t THEN x ELSE 0)
                              - (IF pools[p].pledgeToken = t THEN y ELSE 0)
      BY DEF Pays
    <3>. QED BY <3>1, <3>2
  <2>6. balance[t] \in Nat /\ balance'[t] \in Nat
    BY <1>0 DEF TypeOK
  <2> HIDE DEF f, g, paid
  <2>7. f \in [Created -> Int] /\ g \in [Created -> Int]
    BY <2>1
  <2>8. SumFunction(g) = before - f[p] + g[p] /\ before \in Int
    BY <1>0, <2>2, <2>7, SumChanged, SumType
  <2>9. f[p] \in Nat /\ g[p] \in Nat
    BY <1>0, <2>1
  <2> HIDE DEF before
  <2>10. SumFunction(g) <= balance'[t]
    BY <2>3, <2>4, <2>5, <2>6, <2>8, <2>9
  <2>. QED BY <2>10 DEF g
<1>4. Balanced'
  BY <1>3 DEF Balanced
<1>5. UnusedEmpty'
  <2>. SUFFICES ASSUME NEW d \in DebtTokens,
                       \A q \in Created : d # pools'[q].spToken /\ d # pools'[q].jpToken,
                       NEW u \in Users
                PROVE  debt'[d][u] = 0
    BY <1>0 DEF UnusedEmpty
  <2>1. \A q \in Created : d # pools[q].spToken /\ d # pools[q].jpToken
    BY DEF OnlyPool
  <2>. QED BY <1>0, <2>1 DEF OnlyPool, Ready, Safe, UnusedEmpty
<1>. QED BY <1>2, <1>4, <1>5 DEF Safe

-----------------------------------------------------------------------------
(* Each operation of a pool is such a step.                                *)

LEMMA TokensOf ==
  ASSUME Ready, NEW p \in PoolIds, poolExists(p)
  PROVE  /\ p \in Created /\ Kept(Account(p)) /\ Backed(Account(p))
         /\ pools[p].settleToken \in Tokens /\ pools[p].pledgeToken \in Tokens
         /\ pools[p].spToken \in DebtTokens /\ pools[p].jpToken \in DebtTokens
         /\ pools[p].spToken # NoToken /\ pools[p].jpToken # NoToken
         /\ pools[p].spToken # pools[p].jpToken
<1>1. p \in Created
  BY DEF poolExists, Created, PoolIds
<1>2. pools[p].settleToken \in Tokens /\ pools[p].pledgeToken \in Tokens
  BY <1>1 DEF Ready, TInv, TermsSane
<1>3. pools[p].spToken \in DebtTokens /\ pools[p].jpToken \in DebtTokens
  BY <1>1, DebtTokensUsed DEF Ready, TInv
<1>. QED BY <1>1, <1>2, <1>3, InputsAssumption
         DEF Ready, AllKept, Safe, AllBacked, DebtTokensDedicated

LEMMA KeptAfter ==
  ASSUME Ready, NEW p, OnlyPool(p)
  PROVE  Kept(Account(p)')
<1>1. Created' = Created /\ p \in Created /\ AllKept'
  BY DEF OnlyPool, Created, Ready
<1>. QED BY <1>1 DEF AllKept

LEMMA SettlePaid ==
  ASSUME balance \in [Tokens -> Nat], NEW p, NEW x \in Nat,
         pools[p].settleToken \in Tokens, Transfer(pools[p].settleToken, x)
  PROVE  Pays(p, x, 0)
  BY DEF Transfer, Pays

LEMMA PledgePaid ==
  ASSUME balance \in [Tokens -> Nat], NEW p, NEW x \in Nat,
         pools[p].pledgeToken \in Tokens, Transfer(pools[p].pledgeToken, x)
  PROVE  Pays(p, 0, x)
  BY DEF Transfer, Pays

LEMMA SettleReceived ==
  ASSUME balance \in [Tokens -> Nat], NEW p, NEW x \in Nat,
         pools[p].settleToken \in Tokens, Receive(pools[p].settleToken, x)
  PROVE  Pays(p, 0 - x, 0)
  BY DEF Receive, Pays

LEMMA PledgeReceived ==
  ASSUME balance \in [Tokens -> Nat], NEW p, NEW x \in Nat,
         pools[p].pledgeToken \in Tokens, Receive(pools[p].pledgeToken, x)
  PROVE  Pays(p, 0, 0 - x)
  BY DEF Receive, Pays

LEMMA NothingPaid ==
  ASSUME balance \in [Tokens -> Nat], NEW p, UNCHANGED balance
  PROVE  Pays(p, 0, 0)
  BY DEF Pays

LEMMA DepositLendSafe ==
  ASSUME Ready, NEW p \in PoolIds, NEW u \in Users, NEW x \in Nat, DepositLend(p, u, x)
  PROVE  Safe'
<1>0. /\ TypeOK /\ balance \in [Tokens -> Nat] /\ pools \in [PoolIds -> Pool]
      /\ Created \subseteq PoolIds
      /\ lendInfos \in [PoolIds -> [Users -> LendInfo]] /\ pools[p] \in Pool
  BY CreatedPools DEF Ready, TInv, TypeOK
<1>1. /\ poolExists(p) /\ pools[p].state = "MATCH"
      /\ Receive(pools[p].settleToken, x)
      /\ lendInfos' = [lendInfos EXCEPT ![p][u].amount = @ + x,
                                        ![p][u].claimed = FALSE,
                                        ![p][u].refunded = FALSE]
      /\ pools' = [pools EXCEPT ![p].lendSupply = @ + x]
      /\ UNCHANGED <<poolCounter, borrowInfos, debt>>
  BY DEF DepositLend, validState
<1>2. /\ p \in Created /\ Kept(Account(p)) /\ Backed(Account(p))
      /\ pools[p].settleToken \in Tokens
  BY <1>1, TokensOf
<1>3. /\ pools'[p] = [pools[p] EXCEPT !.lendSupply = pools[p].lendSupply + x]
      /\ \A q \in Created \ {p} : pools'[q] = pools[q] /\ lendInfos'[q] = lendInfos[q]
  BY <1>0, <1>1
<1>4. /\ pools'[p].state = "MATCH" /\ pools'[p].lendSupply = pools[p].lendSupply + x
      /\ pools'[p].borrowSupply = pools[p].borrowSupply
      /\ pools'[p].spToken = pools[p].spToken
      /\ pools'[p].jpToken = pools[p].jpToken
      /\ pools'[p].settleToken = pools[p].settleToken
      /\ pools'[p].pledgeToken = pools[p].pledgeToken
  BY <1>0, <1>1, <1>3 DEF Pool
<1>5. OnlyPool(p)
  BY <1>1, <1>2, <1>3, <1>4 DEF OnlyPool
<1>6. Pays(p, 0 - x, 0)
  BY <1>0, <1>1, <1>2, SettleReceived
<1>7. Kept(Account(p)')
  BY <1>5, KeptAfter
<1>8. Moves(Account(p), Account(p)', pools[p].lendSupply - pools'[p].lendSupply,
                                     pools[p].borrowSupply - pools'[p].borrowSupply)
  <2> DEFINE a == Account(p)
             b == Account(p)'
  <2>1. /\ a.pool = pools[p] /\ b.pool = pools'[p] /\ b.sp = a.sp /\ b.jp = a.jp
        /\ Kept(a) /\ Kept(b) /\ Backed(a)
    BY <1>1, <1>2, <1>4, <1>7 DEF Account
  <2> HIDE DEF a, b
  <2>2. Moves(a, b, a.pool.lendSupply - b.pool.lendSupply,
                    a.pool.borrowSupply - b.pool.borrowSupply)
    BY <1>1, <1>4, <2>1, DepositMove
  <2>. QED BY <2>1, <2>2 DEF a, b
<1>9. /\ pools[p].lendSupply - pools'[p].lendSupply = 0 - x
      /\ pools[p].borrowSupply - pools'[p].borrowSupply = 0
  BY <1>0, <1>4, PoolFields
<1>. QED BY <1>5, <1>6, <1>8, <1>9, OnePoolStep

LEMMA DepositBorrowSafe ==
  ASSUME Ready, NEW p \in PoolIds, NEW u \in Users, NEW x \in Nat, DepositBorrow(p, u, x)
  PROVE  Safe'
<1>0. /\ TypeOK /\ balance \in [Tokens -> Nat] /\ pools \in [PoolIds -> Pool]
      /\ Created \subseteq PoolIds
      /\ borrowInfos \in [PoolIds -> [Users -> BorrowInfo]] /\ pools[p] \in Pool
  BY CreatedPools DEF Ready, TInv, TypeOK
<1>1. /\ poolExists(p) /\ pools[p].state = "MATCH"
      /\ Receive(pools[p].pledgeToken, x)
      /\ borrowInfos' = [borrowInfos EXCEPT ![p][u].pledgeAmount = @ + x,
                                            ![p][u].settled = FALSE,
                                            ![p][u].liquidated = FALSE]
      /\ pools' = [pools EXCEPT ![p].borrowSupply = @ + x]
      /\ UNCHANGED <<poolCounter, lendInfos, debt>>
  BY DEF DepositBorrow, validState
<1>2. /\ p \in Created /\ Kept(Account(p)) /\ Backed(Account(p))
      /\ pools[p].pledgeToken \in Tokens
  BY <1>1, TokensOf
<1>3. /\ pools'[p] = [pools[p] EXCEPT !.borrowSupply = pools[p].borrowSupply + x]
      /\ \A q \in Created \ {p} : pools'[q] = pools[q] /\ borrowInfos'[q] = borrowInfos[q]
  BY <1>0, <1>1
<1>4. /\ pools'[p].state = "MATCH" /\ pools'[p].borrowSupply = pools[p].borrowSupply + x
      /\ pools'[p].lendSupply = pools[p].lendSupply
      /\ pools'[p].spToken = pools[p].spToken
      /\ pools'[p].jpToken = pools[p].jpToken
      /\ pools'[p].settleToken = pools[p].settleToken
      /\ pools'[p].pledgeToken = pools[p].pledgeToken
  BY <1>0, <1>1, <1>3 DEF Pool
<1>5. OnlyPool(p)
  BY <1>1, <1>2, <1>3, <1>4 DEF OnlyPool
<1>6. Pays(p, 0, 0 - x)
  BY <1>0, <1>1, <1>2, PledgeReceived
<1>7. Kept(Account(p)')
  BY <1>5, KeptAfter
<1>8. Moves(Account(p), Account(p)', pools[p].lendSupply - pools'[p].lendSupply,
                                     pools[p].borrowSupply - pools'[p].borrowSupply)
  <2> DEFINE a == Account(p)
             b == Account(p)'
  <2>1. /\ a.pool = pools[p] /\ b.pool = pools'[p] /\ b.sp = a.sp /\ b.jp = a.jp
        /\ Kept(a) /\ Kept(b) /\ Backed(a)
    BY <1>1, <1>2, <1>4, <1>7 DEF Account
  <2> HIDE DEF a, b
  <2>2. Moves(a, b, a.pool.lendSupply - b.pool.lendSupply,
                    a.pool.borrowSupply - b.pool.borrowSupply)
    BY <1>1, <1>4, <2>1, DepositMove
  <2>. QED BY <2>1, <2>2 DEF a, b
<1>9. /\ pools[p].borrowSupply - pools'[p].borrowSupply = 0 - x
      /\ pools[p].lendSupply - pools'[p].lendSupply = 0
  BY <1>0, <1>4, PoolFields
<1>. QED BY <1>5, <1>6, <1>8, <1>9, OnePoolStep


(* What the updates of one position leave alone.                           *)
OtherLends(p, u) ==
  /\ \A q \in Created \ {p} : lendInfos'[q] = lendInfos[q]
  /\ \A v \in Users \ {u} : lendInfos'[p][v] = lendInfos[p][v]
  /\ \A v \in Users : lendInfos'[p][v].amount = lendInfos[p][v].amount

OtherBorrows(p, u) ==
  /\ \A q \in Created \ {p} : borrowInfos'[q] = borrowInfos[q]
  /\ \A v \in Users \ {u} : borrowInfos'[p][v] = borrowInfos[p][v]
  /\ \A v \in Users : borrowInfos'[p][v].pledgeAmount = borrowInfos[p][v].pledgeAmount

LEMMA LendMarked ==
  ASSUME TypeOK, NEW p \in PoolIds, NEW u \in Users, NEW x
  PROVE  /\ lendInfos' = [lendInfos EXCEPT ![p][u].refunded = TRUE] =>
              /\ lendInfos'[p][u].refunded
              /\ lendInfos'[p][u].claimed = lendInfos[p][u].claimed
              /\ OtherLends(p, u)
         /\ lendInfos' = [lendInfos EXCEPT ![p][u].claimed = TRUE,
                                           ![p][u].lendAmount = x] =>
              /\ lendInfos'[p][u].claimed
              /\ lendInfos'[p][u].refunded = lendInfos[p][u].refunded
              /\ OtherLends(p, u)
<1>0. lendInfos \in [PoolIds -> [Users -> LendInfo]] /\ Created \subseteq PoolIds
  BY CreatedPools DEF TypeOK
<1>1. ASSUME lendInfos' = [lendInfos EXCEPT ![p][u].refunded = TRUE]
      PROVE  /\ lendInfos'[p][u].refunded
             /\ lendInfos'[p][u].claimed = lendInfos[p][u].claimed
             /\ OtherLends(p, u)
  BY <1>0, <1>1 DEF LendInfo, OtherLends
<1>2. ASSUME lendInfos' = [lendInfos EXCEPT ![p][u].claimed = TRUE,
                                            ![p][u].lendAmount = x]
      PROVE  /\ lendInfos'[p][u].claimed
             /\ lendInfos'[p][u].refunded = lendInfos[p][u].refunded
             /\ OtherLends(p, u)
  BY <1>0, <1>2 DEF LendInfo, OtherLends
<1>. QED BY <1>1, <1>2

LEMMA BorrowMarked ==
  ASSUME TypeOK, NEW p \in PoolIds, NEW u \in Users, NEW x,
         \/ borrowInfos' = [borrowInfos EXCEPT ![p][u].settled = TRUE]
         \/ borrowInfos' = [borrowInfos EXCEPT ![p][u].borrowAmount = x,
                                               ![p][u].settled = TRUE]
  PROVE  borrowInfos'[p][u].settled /\ OtherBorrows(p, u)
<1>0. borrowInfos \in [PoolIds -> [Users -> BorrowInfo]] /\ Created \subseteq PoolIds
  BY CreatedPools DEF TypeOK
<1>1. CASE borrowInfos' = [borrowInfos EXCEPT ![p][u].settled = TRUE]
  BY <1>0, <1>1 DEF BorrowInfo, OtherBorrows
<1>2. CASE borrowInfos' = [borrowInfos EXCEPT ![p][u].borrowAmount = x,
                                              ![p][u].settled = TRUE]
  BY <1>0, <1>2 DEF BorrowInfo, OtherBorrows
<1>. QED BY <1>1, <1>2

LEMMA LenderPaidSafe ==
  ASSUME Ready, NEW p \in PoolIds, NEW u \in Users,
         RefundLend(p, u) \/ EmergencyLendWithdrawal(p, u)
  PROVE  Safe'
<1> DEFINE a == Account(p)
           b == Account(p)'
<1>0. TypeOK /\ balance \in [Tokens -> Nat]
  BY DEF Ready, TInv, TypeOK
<1>1. /\ poolExists(p) /\ ~lendInfos[p][u].refunded
      /\ lendInfos' = [lendInfos EXCEPT ![p][u].refunded = TRUE]
      /\ UNCHANGED <<poolCounter, pools, borrowInfos, debt>>
  BY DEF RefundLend, EmergencyLendWithdrawal, MarkRefunded
<1>2. /\ p \in Created /\ Kept(a) /\ Backed(a) /\ pools[p].settleToken \in Tokens
  BY <1>1, TokensOf
<1>3. /\ lendInfos'[p][u].refunded
      /\ lendInfos'[p][u].claimed = lendInfos[p][u].claimed /\ OtherLends(p, u)
  BY <1>0, <1>1, LendMarked
<1>4. OnlyPool(p)
  BY <1>1, <1>2, <1>3 DEF OnlyPool, OtherLends
<1>5. Kept(b)
  BY <1>4, KeptAfter
<1>6. /\ a.pool = pools[p] /\ b.pool = a.pool /\ b.borrow = a.borrow
      /\ b.sp = a.sp /\ b.jp = a.jp /\ a.lend = lendInfos[p] /\ b.lend = lendInfos'[p]
      /\ a.borrow = borrowInfos[p]
  BY <1>1 DEF Account
<1> HIDE DEF a, b
<1>7. SameTerms(a, b)
  BY <1>3, <1>6 DEF SameTerms, OtherLends
<1>8. CASE RefundLend(p, u)
  <2> DEFINE x == LendRefundOf(a, u)
  <2>1. pools[p].state \in Settled /\ Transfer(pools[p].settleToken, x)
    BY <1>6, <1>8 DEF RefundLend, LendRefundOf
  <2>2. x \in Nat
    BY <1>2, <1>6, <2>1, ShareTypes
  <2>3. Moves(a, b, x, 0)
    BY <1>1, <1>2, <1>3, <1>5, <1>6, <1>7, <2>1, LenderRefunded DEF OtherLends
  <2> HIDE DEF x
  <2>4. Pays(p, x, 0)
    BY <1>0, <1>2, <2>1, <2>2, SettlePaid
  <2>. QED BY <1>4, <2>2, <2>3, <2>4, OnePoolStep DEF a, b
<1>9. CASE EmergencyLendWithdrawal(p, u)
  <2> DEFINE x == a.lend[u].amount
  <2>1. pools[p].state = "UNDONE" /\ Transfer(pools[p].settleToken, x)
    BY <1>6, <1>9 DEF EmergencyLendWithdrawal
  <2>2. x \in Nat
    BY <1>0, <1>6, InfoFields
  <2>3. /\ a.pool.state = "UNDONE" /\ b.pool.state = "UNDONE" /\ b.borrow = a.borrow
        /\ ~a.lend[u].refunded /\ b.lend[u].refunded
        /\ \A v \in Users \ {u} : b.lend[v] = a.lend[v]
    BY <1>1, <1>3, <1>6, <2>1 DEF OtherLends
  <2>4. Moves(a, b, x, 0)
    BY <1>2, <1>5, <2>3, LenderRepaid
  <2> HIDE DEF x
  <2>5. Pays(p, x, 0)
    BY <1>0, <1>2, <2>1, <2>2, SettlePaid
  <2>. QED BY <1>4, <2>2, <2>4, <2>5, OnePoolStep DEF a, b
<1>. QED BY <1>8, <1>9

LEMMA ClaimLendSafe ==
  ASSUME Ready, NEW p \in PoolIds, NEW u \in Users, ClaimLend(p, u)
  PROVE  Safe'
<1> DEFINE a == Account(p)
           b == Account(p)'
           sp == pools[p].spToken
           jp == pools[p].jpToken
<1>0. /\ TypeOK /\ balance \in [Tokens -> Nat]
      /\ debt \in [DebtTokens -> [Users -> Nat]]
  BY DEF Ready, TInv, TypeOK
<1>1. /\ poolExists(p) /\ ~lendInfos[p][u].claimed /\ pools[p].state \in Settled
      /\ \E x : lendInfos' = [lendInfos EXCEPT ![p][u].claimed = TRUE,
                                               ![p][u].lendAmount = x]
      /\ Mint(sp, u, SpShareOf(a, u))
      /\ UNCHANGED <<poolCounter, pools, borrowInfos, balance>>
  BY DEF ClaimLend, SpShareOf, Account
<1>2. /\ p \in Created /\ Kept(a) /\ Backed(a)
      /\ sp \in DebtTokens /\ jp \in DebtTokens /\ sp # jp
  BY <1>1, TokensOf
<1>3. /\ lendInfos'[p][u].claimed
      /\ lendInfos'[p][u].refunded = lendInfos[p][u].refunded /\ OtherLends(p, u)
  BY <1>0, <1>1, LendMarked
<1>4. /\ debt'[sp][u] = debt[sp][u] + SpShareOf(a, u)
      /\ \A v \in Users \ {u} : debt'[sp][v] = debt[sp][v]
      /\ \A d \in DebtTokens : d # sp => debt'[d] = debt[d]
  <2> DEFINE x == SpShareOf(a, u)
  <2>1. debt' = [debt EXCEPT ![sp][u] = @ + x]
    BY <1>1 DEF Mint
  <2> HIDE DEF x, sp, jp, a
  <2>2. /\ debt'[sp][u] = debt[sp][u] + x
        /\ \A v \in Users \ {u} : debt'[sp][v] = debt[sp][v]
        /\ \A d \in DebtTokens : d # sp => debt'[d] = debt[d]
    BY <1>0, <1>2, <2>1
  <2>. QED BY <2>2 DEF x
<1>5. OnlyPool(p)
  BY <1>1, <1>2, <1>3, <1>4 DEF OnlyPool, OtherLends
<1>6. Kept(b)
  BY <1>5, KeptAfter
<1>7. /\ a.pool = pools[p] /\ b.pool = a.pool /\ b.borrow = a.borrow
      /\ b.jp = a.jp /\ a.lend = lendInfos[p] /\ b.lend = lendInfos'[p]
      /\ a.borrow = borrowInfos[p] /\ a.sp = debt[sp] /\ b.sp = debt'[sp]
  BY <1>1, <1>2, <1>4 DEF Account
<1> HIDE DEF a, b, sp, jp
<1>8. SameTerms(a, b)
  BY <1>3, <1>7 DEF SameTerms, OtherLends
<1>9. Moves(a, b, 0, 0)
  <2>1. /\ a.pool.state \in Settled /\ ~a.lend[u].claimed /\ b.lend[u].claimed
        /\ b.lend[u].refunded = a.lend[u].refunded
        /\ b.sp[u] = a.sp[u] + SpShareOf(a, u)
        /\ \A v \in Users \ {u} : b.lend[v] = a.lend[v] /\ b.sp[v] = a.sp[v]
    BY <1>1, <1>3, <1>4, <1>7 DEF OtherLends
  <2>. QED BY <1>2, <1>6, <1>7, <1>8, <2>1, SpClaimed
<1>10. Pays(p, 0, 0)
  BY <1>0, <1>1, NothingPaid
<1>. QED BY <1>5, <1>9, <1>10, OnePoolStep DEF a, b

LEMMA WithdrawLendSafe ==
  ASSUME Ready, NEW p \in PoolIds, NEW u \in Users, NEW x \in Nat, WithdrawLend(p, u, x)
  PROVE  Safe'
<1> DEFINE a == Account(p)
           b == Account(p)'
           sp == pools[p].spToken
           jp == pools[p].jpToken
           pay == Share(LendPot(a.pool), x, a.pool.settleAmountLend)
<1>0. /\ TypeOK /\ balance \in [Tokens -> Nat]
      /\ debt \in [DebtTokens -> [Users -> Nat]]
  BY DEF Ready, TInv, TypeOK
<1>1. /\ a.pool = pools[p] /\ a.lend = lendInfos[p] /\ a.borrow = borrowInfos[p]
      /\ a.sp = debt[sp] /\ a.jp = debt[jp]
  BY DEF Account
<1>2. /\ poolExists(p) /\ IsClosed(a) /\ a.pool.settleAmountLend > 0
      /\ debt' = [debt EXCEPT ![sp][u] = @ - x]
      /\ Transfer(pools[p].settleToken, pay)
      /\ UNCHANGED <<poolCounter, pools, lendInfos, borrowInfos>>
  BY <1>1 DEF WithdrawLend, Burn, WithdrawalOpen, IsClosed, positions
<1>3. /\ p \in Created /\ Kept(a) /\ Backed(a) /\ pools[p].settleToken \in Tokens
      /\ sp \in DebtTokens /\ jp \in DebtTokens /\ sp # jp
  BY <1>2, TokensOf
<1> HIDE DEF sp, jp, pay
<1>4. /\ debt'[sp][u] = debt[sp][u] - x
      /\ \A v \in Users \ {u} : debt'[sp][v] = debt[sp][v]
      /\ \A d \in DebtTokens : d # sp => debt'[d] = debt[d]
  BY <1>0, <1>2, <1>3
<1>5. OnlyPool(p)
  BY <1>2, <1>3, <1>4 DEF OnlyPool, sp
<1>6. Kept(b)
  BY <1>5, KeptAfter
<1>7. /\ b.pool = a.pool /\ b.borrow = a.borrow /\ b.lend = a.lend
      /\ b.jp = a.jp /\ b.sp = debt'[sp]
  BY <1>2, <1>3, <1>4 DEF Account, sp, jp
<1>8. pay \in Nat
  <2>1. LendPot(a.pool) \in Nat /\ a.pool.settleAmountLend \in Nat
    BY <1>3, KeptTypes
  <2>. QED BY <1>2, <2>1, ShareNat DEF pay
<1> HIDE DEF a, b
<1>9. Moves(a, b, pay, 0)
  BY <1>1, <1>2, <1>3, <1>4, <1>6, <1>7, SpRedeemed DEF pay
<1>10. Pays(p, pay, 0)
  BY <1>0, <1>2, <1>3, <1>8, SettlePaid
<1>. QED BY <1>5, <1>8, <1>9, <1>10, OnePoolStep DEF a, b


LEMMA BorrowerPaidSafe ==
  ASSUME Ready, NEW p \in PoolIds, NEW u \in Users,
         RefundBorrow(p, u) \/ EmergencyBorrowWithdrawal(p, u)
  PROVE  Safe'
<1> DEFINE a == Account(p)
           b == Account(p)'
<1>0. TypeOK /\ balance \in [Tokens -> Nat]
  BY DEF Ready, TInv, TypeOK
<1>1. /\ poolExists(p) /\ ~borrowInfos[p][u].settled
      /\ borrowInfos' = [borrowInfos EXCEPT ![p][u].settled = TRUE]
      /\ UNCHANGED <<poolCounter, pools, lendInfos, debt>>
  BY DEF RefundBorrow, EmergencyBorrowWithdrawal
<1>2. /\ p \in Created /\ Kept(a) /\ Backed(a) /\ pools[p].pledgeToken \in Tokens
  BY <1>1, TokensOf
<1>3. borrowInfos'[p][u].settled /\ OtherBorrows(p, u)
  BY <1>0, <1>1, BorrowMarked
<1>4. OnlyPool(p)
  BY <1>1, <1>2, <1>3 DEF OnlyPool, OtherBorrows
<1>5. Kept(b)
  BY <1>4, KeptAfter
<1>6. /\ a.pool = pools[p] /\ b.pool = a.pool /\ b.lend = a.lend
      /\ b.sp = a.sp /\ b.jp = a.jp /\ a.borrow = borrowInfos[p]
      /\ b.borrow = borrowInfos'[p] /\ a.lend = lendInfos[p]
  BY <1>1 DEF Account
<1> HIDE DEF a, b
<1>7. SameTerms(a, b)
  BY <1>3, <1>6 DEF SameTerms, OtherBorrows
<1>8. /\ ~a.borrow[u].settled /\ b.borrow[u].settled
      /\ \A v \in Users \ {u} : b.borrow[v] = a.borrow[v]
  BY <1>1, <1>3, <1>6 DEF OtherBorrows
<1>9. CASE RefundBorrow(p, u)
  <2> DEFINE x == PledgeRefundOf(a, u)
  <2>1. a.pool.state \in Settled /\ Transfer(pools[p].pledgeToken, x)
    BY <1>6, <1>9 DEF RefundBorrow, PledgeRefundOf
  <2>2. x \in Nat
    BY <1>2, <2>1, ShareTypes
  <2>3. Moves(a, b, 0, x)
    BY <1>2, <1>5, <1>6, <1>7, <1>8, <2>1, PledgeRefunded
  <2> HIDE DEF x
  <2>4. Pays(p, 0, x)
    BY <1>0, <1>2, <2>1, <2>2, PledgePaid
  <2>. QED BY <1>4, <2>2, <2>3, <2>4, OnePoolStep DEF a, b
<1>10. CASE EmergencyBorrowWithdrawal(p, u)
  <2> DEFINE x == a.borrow[u].pledgeAmount
  <2>1. a.pool.state = "UNDONE" /\ b.pool.state = "UNDONE"
        /\ Transfer(pools[p].pledgeToken, x)
    BY <1>6, <1>10 DEF EmergencyBorrowWithdrawal
  <2>2. x \in Nat
    BY <1>0, <1>6, InfoFields
  <2>3. Moves(a, b, 0, x)
    BY <1>2, <1>5, <1>6, <1>8, <2>1, BorrowerRepaid
  <2> HIDE DEF x
  <2>4. Pays(p, 0, x)
    BY <1>0, <1>2, <2>1, <2>2, PledgePaid
  <2>. QED BY <1>4, <2>2, <2>3, <2>4, OnePoolStep DEF a, b
<1>. QED BY <1>9, <1>10

LEMMA ClaimBorrowSafe ==
  ASSUME Ready, NEW p \in PoolIds, NEW u \in Users, ClaimBorrow(p, u)
  PROVE  Safe'
<1> DEFINE a == Account(p)
           b == Account(p)'
           sp == pools[p].spToken
           jp == pools[p].jpToken
           loan == LoanShareOf(a, u)
           mint == JpShareOf(a, u)
<1>0. /\ TypeOK /\ balance \in [Tokens -> Nat]
      /\ debt \in [DebtTokens -> [Users -> Nat]]
  BY DEF Ready, TInv, TypeOK
<1>1. poolExists(p)
  BY DEF ClaimBorrow
<1>2. /\ p \in Created /\ Kept(a) /\ Backed(a) /\ pools[p].settleToken \in Tokens
      /\ sp \in DebtTokens /\ jp \in DebtTokens /\ sp # jp /\ jp # NoToken
  BY <1>1, TokensOf
<1>3. /\ ~borrowInfos[p][u].settled /\ pools[p].state \in Settled
      /\ \E x : borrowInfos' = [borrowInfos EXCEPT ![p][u].borrowAmount = x,
                                                   ![p][u].settled = TRUE]
      /\ debt' = [debt EXCEPT ![jp][u] = @ + mint]
      /\ Transfer(pools[p].settleToken, loan)
      /\ UNCHANGED <<poolCounter, pools, lendInfos>>
  BY <1>2 DEF ClaimBorrow, Mint, LoanShareOf, JpShareOf, Account
<1>4. borrowInfos'[p][u].settled /\ OtherBorrows(p, u)
  BY <1>0, <1>3, BorrowMarked
<1> HIDE DEF sp, jp, mint, loan
<1>5. /\ debt'[jp][u] = debt[jp][u] + mint
      /\ \A v \in Users \ {u} : debt'[jp][v] = debt[jp][v]
      /\ \A d \in DebtTokens : d # jp => debt'[d] = debt[d]
  BY <1>0, <1>2, <1>3
<1>6. OnlyPool(p)
  BY <1>2, <1>3, <1>4, <1>5 DEF OnlyPool, OtherBorrows, jp
<1>7. Kept(b)
  BY <1>6, KeptAfter
<1>8. /\ a.pool = pools[p] /\ b.pool = a.pool /\ b.lend = a.lend
      /\ b.sp = a.sp /\ a.borrow = borrowInfos[p] /\ b.borrow = borrowInfos'[p]
      /\ a.lend = lendInfos[p] /\ a.jp = debt[jp] /\ b.jp = debt'[jp]
  BY <1>2, <1>3, <1>5 DEF Account, sp, jp
<1> HIDE DEF a, b
<1>9. SameTerms(a, b)
  BY <1>4, <1>8 DEF SameTerms, OtherBorrows
<1>10. /\ a.pool.state \in Settled /\ ~a.borrow[u].settled /\ b.borrow[u].settled
       /\ b.jp[u] = a.jp[u] + JpShareOf(a, u)
       /\ \A v \in Users \ {u} : b.borrow[v] = a.borrow[v] /\ b.jp[v] = a.jp[v]
  BY <1>3, <1>4, <1>5, <1>8 DEF OtherBorrows, mint
<1>11. Moves(a, b, loan, 0)
  BY <1>2, <1>7, <1>8, <1>9, <1>10, LoanClaimed DEF loan
<1>12. loan \in Nat
  BY <1>2, <1>10, ShareTypes DEF loan
<1>13. Pays(p, loan, 0)
  BY <1>0, <1>2, <1>3, <1>12, SettlePaid
<1>. QED BY <1>6, <1>11, <1>12, <1>13, OnePoolStep DEF a, b

LEMMA WithdrawBorrowSafe ==
  ASSUME Ready, NEW p \in PoolIds, NEW u \in Users, NEW x \in Nat,
         WithdrawBorrow(p, u, x)
  PROVE  Safe'
<1> DEFINE a == Account(p)
           b == Account(p)'
           sp == pools[p].spToken
           jp == pools[p].jpToken
           pay == Share(BorrowPot(a.pool), x, AllJp(a))
<1>0. /\ TypeOK /\ balance \in [Tokens -> Nat]
      /\ debt \in [DebtTokens -> [Users -> Nat]]
  BY DEF Ready, TInv, TypeOK
<1>1. /\ a.pool = pools[p] /\ a.lend = lendInfos[p] /\ a.borrow = borrowInfos[p]
      /\ a.sp = debt[sp] /\ a.jp = debt[jp]
  BY DEF Account
<1>2. poolExists(p)
  BY DEF WithdrawBorrow
<1>3. /\ p \in Created /\ Kept(a) /\ Backed(a) /\ pools[p].pledgeToken \in Tokens
      /\ sp \in DebtTokens /\ jp \in DebtTokens /\ sp # jp /\ jp # NoToken
  BY <1>2, TokensOf
<1>4. /\ IsClosed(a) /\ AllJp(a) > 0
      /\ debt' = [debt EXCEPT ![jp][u] = @ - x]
      /\ Transfer(pools[p].pledgeToken, pay)
      /\ UNCHANGED <<poolCounter, pools, lendInfos, borrowInfos>>
  BY <1>1, <1>3 DEF WithdrawBorrow, Burn, WithdrawalOpen, IsClosed, AllJp, positions
<1> HIDE DEF sp, jp, pay
<1>5. /\ debt'[jp][u] = debt[jp][u] - x
      /\ \A v \in Users \ {u} : debt'[jp][v] = debt[jp][v]
      /\ \A d \in DebtTokens : d # jp => debt'[d] = debt[d]
  BY <1>0, <1>3, <1>4
<1>6. OnlyPool(p)
  BY <1>3, <1>4, <1>5 DEF OnlyPool, jp
<1>7. Kept(b)
  BY <1>6, KeptAfter
<1>8. /\ b.pool = a.pool /\ b.borrow = a.borrow /\ b.lend = a.lend
      /\ b.sp = a.sp /\ b.jp = debt'[jp]
  BY <1>3, <1>4, <1>5 DEF Account, sp, jp
<1>9. pay \in Nat
  <2>1. BorrowPot(a.pool) \in Nat /\ AllJp(a) \in Nat
    BY <1>3, KeptTypes
  <2>. QED BY <1>4, <2>1, ShareNat DEF pay
<1> HIDE DEF a, b
<1>10. Moves(a, b, 0, pay)
  BY <1>1, <1>3, <1>4, <1>5, <1>7, <1>8, JpRedeemed DEF pay
<1>11. Pays(p, 0, pay)
  BY <1>0, <1>3, <1>4, <1>9, PledgePaid
<1>. QED BY <1>6, <1>9, <1>10, <1>11, OnePoolStep DEF a, b


LEMMA SettleSafe ==
  ASSUME Ready, NEW p \in PoolIds, SettleMatched(p) \/ SettleUndone(p)
  PROVE  Safe'
<1> DEFINE a == Account(p)
           b == Account(p)'
<1>0. /\ TypeOK /\ balance \in [Tokens -> Nat] /\ pools \in [PoolIds -> Pool]
      /\ pools[p] \in Pool /\ Created \subseteq PoolIds
  BY CreatedPools DEF Ready, TInv, TypeOK
<1>1. /\ poolExists(p) /\ pools[p].state = "MATCH"
      /\ UNCHANGED <<poolCounter, lendInfos, borrowInfos, balance, debt>>
      /\ \E x, y, s : /\ pools' = [pools EXCEPT ![p].settleAmountLend = x,
                                     ![p].settleAmountBorrow = y, ![p].state = s]
                      /\ s = (IF SettleMatched(p) THEN "EXECUTION" ELSE "UNDONE")
  <2>1. CASE SettleMatched(p)
    BY <2>1 DEF SettleMatched, positions
  <2>2. CASE SettleUndone(p) /\ ~SettleMatched(p)
    BY <2>2 DEF SettleUndone, positions
  <2>. QED BY <2>1, <2>2
<1>2. /\ p \in Created /\ Kept(a) /\ Backed(a)
  BY <1>1, TokensOf
<1>3. /\ \A q \in Created \ {p} : pools'[q] = pools[q]
      /\ pools'[p].lendSupply = pools[p].lendSupply
      /\ pools'[p].borrowSupply = pools[p].borrowSupply
      /\ pools'[p].spToken = pools[p].spToken
      /\ pools'[p].jpToken = pools[p].jpToken
      /\ pools'[p].settleToken = pools[p].settleToken
      /\ pools'[p].pledgeToken = pools[p].pledgeToken
      /\ pools'[p].state = (IF SettleMatched(p) THEN "EXECUTION" ELSE "UNDONE")
  <2>1. PICK x, y, s : /\ pools' = [pools EXCEPT ![p].settleAmountLend = x,
                                      ![p].settleAmountBorrow = y, ![p].state = s]
                       /\ s = (IF SettleMatched(p) THEN "EXECUTION" ELSE "UNDONE")
    BY <1>1
  <2>. QED BY <1>0, <2>1 DEF Pool
<1>4. OnlyPool(p)
  BY <1>1, <1>2, <1>3 DEF OnlyPool
<1>5. Kept(b)
  BY <1>4, KeptAfter
<1>6. /\ a.pool = pools[p] /\ b.pool = pools'[p] /\ b.lend = a.lend
      /\ b.borrow = a.borrow /\ b.sp = a.sp /\ b.jp = a.jp
  BY <1>1, <1>3 DEF Account
<1> HIDE DEF a, b
<1>7. Moves(a, b, 0, 0)
  <2>1. CASE SettleMatched(p)
    BY <1>1, <1>2, <1>3, <1>5, <1>6, <2>1, SettleMove
  <2>2. CASE ~SettleMatched(p)
    BY <1>1, <1>2, <1>3, <1>5, <1>6, <2>2, UndoneMove
  <2>. QED BY <2>1, <2>2
<1>8. Pays(p, 0, 0)
  BY <1>0, <1>1, NothingPaid
<1>. QED BY <1>4, <1>7, <1>8, OnePoolStep DEF a, b

(* The sale pays the lenders' pot into the contract and takes the rest of  *)
(* the matched collateral out of it: never more.                           *)
LEMMA SalePays ==
  ASSUME TypeOK, NEW p \in PoolIds, pools[p].settleToken \in Tokens,
         pools[p].pledgeToken \in Tokens, NEW duration \in Nat, NEW q \in RouterQuotes,
         SaleAllowed(pools[p], Sale(pools[p], duration, q)),
         SettleBalances(pools[p], Sale(pools[p], duration, q))
  PROVE  LET s == Sale(pools[p], duration, q)
         IN  Pays(p, 0 - (s.got - s.excess), pools[p].settleAmountBorrow - s.left)
<1> DEFINE s == Sale(pools[p], duration, q)
           paid(x) == IF config.feeAddress THEN x ELSE 0
           out == s.sold + paid(s.fee)
           in == s.got - paid(s.excess)
           st == pools[p].settleToken
           pt == pools[p].pledgeToken
           x == 0 - (s.got - s.excess)
           y == pools[p].settleAmountBorrow - s.left
<1>1. /\ s.sold \in Nat /\ s.got \in Nat /\ s.fee \in Nat /\ s.excess \in 0 .. s.got
      /\ s.left \in Nat /\ pools[p].settleAmountBorrow \in Nat
  BY SaleFields, PoolFields
<1>2. s.left = pools[p].settleAmountBorrow - s.sold - s.fee
  BY DEF Sale, AfterFee
<1>3. balance' = [[balance EXCEPT ![pt] = @ - s.sold - paid(s.fee)]
                    EXCEPT ![st] = @ + s.got - paid(s.excess)]
  BY DEF SettleBalances
<1>4. balance \in [Tokens -> Nat] /\ config.feeAddress \in BOOLEAN
  BY DEF TypeOK, Config
<1> HIDE DEF s
<1>5. out \in Nat /\ in \in Int /\ out <= y /\ 0 - in <= x /\ x \in Int /\ y \in Int
  BY <1>1, <1>2, <1>4
<1>6. balance' = [[balance EXCEPT ![pt] = @ - out] EXCEPT ![st] = @ + in]
  <2>1. balance[pt] \in Nat
    BY <1>4
  <2>2. balance[pt] - s.sold - paid(s.fee) = balance[pt] - out
    BY <1>1, <1>4, <2>1
  <2>3. [balance EXCEPT ![pt] = @ - s.sold - paid(s.fee)] = [balance EXCEPT ![pt] = @ - out]
    BY <2>2
  <2> DEFINE mid == [balance EXCEPT ![pt] = @ - out]
  <2>4. mid[st] \in Int
    <3> HIDE DEF out
    <3>. QED BY <1>4, <1>5
  <2>5. balance' = [mid EXCEPT ![st] = @ + s.got - paid(s.excess)]
    BY <1>3, <2>3
  <2> HIDE DEF mid
  <2>6. mid[st] + s.got - paid(s.excess) = mid[st] + in
    BY <1>1, <1>4, <2>4
  <2>. QED BY <2>5, <2>6 DEF mid
<1> HIDE DEF out, in, x, y
<1>7. Pays(p, x, y)
  <2>. SUFFICES ASSUME NEW t \in Tokens
                PROVE  balance'[t] >= balance[t] - (IF st = t THEN x ELSE 0)
                                                 - (IF pt = t THEN y ELSE 0)
    BY DEF Pays
  <2>1. balance[t] \in Nat
    BY <1>4
  <2>2. balance'[t] = balance[t] + (IF st = t THEN in ELSE 0) - (IF pt = t THEN out ELSE 0)
    BY <1>4, <1>5, <1>6
  <2>. QED BY <1>5, <2>1, <2>2
<1>. QED BY <1>7 DEF x, y, s

LEMMA CloseSafe ==
  ASSUME Ready, NEW p \in PoolIds, NEW q \in RouterQuotes,
         Finish(p, q) \/ Liquidate(p, q)
  PROVE  Safe'
<1> DEFINE a == Account(p)
           b == Account(p)'
           time == IF Finish(p, q) THEN pools[p].endTime - pools[p].settleTime
                   ELSE now - pools[p].settleTime
           s == Sale(pools[p], time, q)
           x == 0 - (s.got - s.excess)
           y == pools[p].settleAmountBorrow - s.left
<1>0. /\ TypeOK /\ balance \in [Tokens -> Nat] /\ pools \in [PoolIds -> Pool]
      /\ borrowInfos \in [PoolIds -> [Users -> BorrowInfo]] /\ now \in Nat
      /\ pools[p] \in Pool /\ Created \subseteq PoolIds
  BY CreatedPools DEF Ready, TInv, TypeOK
<1>1. /\ poolExists(p) /\ pools[p].state = "EXECUTION"
      /\ SaleAllowed(pools[p], s) /\ SettleBalances(pools[p], s)
      /\ UNCHANGED <<poolCounter, lendInfos, debt>>
      /\ now >= (IF Finish(p, q) THEN pools[p].endTime ELSE pools[p].settleTime)
  BY DEF Finish, Liquidate, positions
<1>2. /\ p \in Created /\ Kept(a) /\ Backed(a)
      /\ pools[p].settleToken \in Tokens /\ pools[p].pledgeToken \in Tokens
  BY <1>1, TokensOf
<1>3. time \in Nat
  <2>1. pools[p].settleTime <= pools[p].endTime
    BY <1>2 DEF Ready, TInv, TermsSane
  <2>. QED BY <1>0, <1>1, <2>1, PoolFields
<1> HIDE DEF time
<1>4. /\ s.got \in Nat /\ s.excess \in 0 .. s.got /\ s.left \in Nat
      /\ s.got - s.excess \in Nat
  BY <1>0, <1>1, <1>3, SaleFields
<1>5. Pays(p, x, y)
  BY <1>0, <1>1, <1>2, <1>3, SalePays
<1> HIDE DEF s
<1>6. /\ \A r \in Created \ {p} : pools'[r] = pools[r]
      /\ \A f \in {"lendSupply", "borrowSupply", "settleAmountLend",
                   "settleAmountBorrow", "pledgeRate", "spToken", "jpToken",
                   "settleToken", "pledgeToken"} : pools'[p][f] = pools[p][f]
      /\ pools'[p].state \in {"FINISH", "LIQUIDATION"}
      /\ LendPot(pools'[p]) = s.got - s.excess /\ BorrowPot(pools'[p]) = s.left
  <2>1. CASE Finish(p, q)
    <3>1. pools' = [pools EXCEPT ![p].finishAmountLend = s.got - s.excess,
                            ![p].finishAmountBorrow = s.left, ![p].state = "FINISH"]
      BY <2>1 DEF Finish, s, time
    <3>. QED BY <1>0, <3>1 DEF Pool, LendPot, BorrowPot
  <2>2. CASE Liquidate(p, q) /\ ~Finish(p, q)
    <3>1. pools' = [pools EXCEPT ![p].liquidationAmountLend = s.got - s.excess,
                            ![p].liquidationAmountBorrow = s.left,
                            ![p].state = "LIQUIDATION"]
      BY <2>2 DEF Liquidate, s, time
    <3>. QED BY <1>0, <3>1 DEF Pool, LendPot, BorrowPot
  <2>. QED BY <2>1, <2>2
<1>7. /\ \A r \in Created \ {p} : borrowInfos'[r] = borrowInfos[r]
      /\ \A u \in Users :
           /\ borrowInfos'[p][u].pledgeAmount = borrowInfos[p][u].pledgeAmount
           /\ borrowInfos'[p][u].settled = borrowInfos[p][u].settled
  <2>1. CASE Finish(p, q)
    BY <2>1 DEF Finish, positions
  <2>2. CASE Liquidate(p, q)
    <3>1. borrowInfos' = [borrowInfos EXCEPT ![p] =
            [u \in Users |-> IF borrowers[p][u] > 0 /\ CountsInHealth(@[u])
                             THEN [@[u] EXCEPT !.liquidated = TRUE] ELSE @[u]]]
      BY <2>2 DEF Liquidate
    <3>. QED BY <1>0, <3>1 DEF BorrowInfo
  <2>. QED BY <2>1, <2>2
<1>8. OnlyPool(p)
  BY <1>1, <1>2, <1>6, <1>7 DEF OnlyPool
<1>9. Kept(b)
  BY <1>8, KeptAfter
<1>10. /\ a.pool = pools[p] /\ b.pool = pools'[p] /\ b.lend = a.lend
       /\ a.borrow = borrowInfos[p] /\ b.borrow = borrowInfos'[p]
       /\ b.sp = a.sp /\ b.jp = a.jp
  BY <1>1, <1>6 DEF Account
<1> HIDE DEF a, b
<1>11. Moves(a, b, 0 - LendPot(b.pool), a.pool.settleAmountBorrow - BorrowPot(b.pool))
  <2>1. /\ a.pool.state = "EXECUTION" /\ IsClosed(b)
        /\ \A f \in {"lendSupply", "borrowSupply", "settleAmountLend",
                     "settleAmountBorrow", "pledgeRate"} : b.pool[f] = a.pool[f]
        /\ \A u \in Users : /\ b.borrow[u].pledgeAmount = a.borrow[u].pledgeAmount
                            /\ b.borrow[u].settled = a.borrow[u].settled
    BY <1>1, <1>6, <1>7, <1>10 DEF IsClosed
  <2>. QED BY <1>2, <1>9, <1>10, <2>1, CloseMove
<1>12. Moves(a, b, x, y)
  BY <1>6, <1>10, <1>11
<1>13. x \in Int /\ y \in Int
  BY <1>0, <1>4, PoolFields
<1> HIDE DEF x, y
<1>. QED BY <1>5, <1>8, <1>12, <1>13, OnePoolStep DEF a, b


-----------------------------------------------------------------------------
(* Steps that are about no pool, or about the holders of debt tokens.      *)

LEMMA CalmSafe ==
  ASSUME Safe,
         UNCHANGED <<poolCounter, pools, lendInfos, borrowInfos, balance, debt>>
  PROVE  Safe'
  BY DEF Safe, AllBacked, Balanced, UnusedEmpty, Dues, DueIn, Account, Created

LEMMA TransferSafe ==
  ASSUME Ready, NEW d \in DebtTokens, NEW u \in Users, NEW v \in Users,
         NEW x \in 1 .. MaxRedeem, TransferDebt(d, u, v, x)
  PROVE  Safe'
<1>0. /\ TypeOK /\ balance \in [Tokens -> Nat] /\ pools \in [PoolIds -> Pool]
      /\ debt \in [DebtTokens -> [Users -> Nat]]
      /\ Created \subseteq PoolIds /\ IsFiniteSet(Created) /\ AllKept /\ AllKept'
      /\ x \in Nat /\ x > 0
  BY CreatedPools, BoundsAssumption DEF Ready, TInv, TypeOK
<1>1. /\ u # v /\ debt[d][u] >= x
      /\ debt' = [debt EXCEPT ![d][u] = @ - x, ![d][v] = @ + x]
      /\ UNCHANGED <<poolCounter, pools, lendInfos, borrowInfos, balance>>
      /\ Created' = Created
  BY DEF TransferDebt, positions, Created
<1>2. /\ Swapped(debt[d], debt'[d])
      /\ \A e \in DebtTokens : e # d => debt'[e] = debt[e]
  <2>1. /\ debt'[d][u] = debt[d][u] - x /\ debt'[d][v] = debt[d][v] + x
        /\ \A w \in Users \ {u, v} : debt'[d][w] = debt[d][w]
        /\ \A e \in DebtTokens : e # d => debt'[e] = debt[e]
    BY <1>0, <1>1
  <2>. QED BY <1>0, <1>1, <2>1 DEF Swapped
<1>3. ASSUME NEW q \in Created
      PROVE  Moves(Account(q), Account(q)', 0, 0)
  <2> DEFINE a == Account(q)
             b == Account(q)'
             sp == pools[q].spToken
             jp == pools[q].jpToken
  <2>1. /\ Kept(a) /\ Kept(b) /\ Backed(a)
    BY <1>0, <1>1 DEF AllKept, Ready, Safe, AllBacked
  <2>2. sp \in DebtTokens /\ jp \in DebtTokens
    BY <1>0, DebtTokensUsed DEF Ready
  <2>3. /\ b.pool = a.pool /\ b.lend = a.lend /\ b.borrow = a.borrow
        /\ a.sp = debt[sp] /\ a.jp = debt[jp] /\ b.sp = debt'[sp] /\ b.jp = debt'[jp]
    BY <1>1 DEF Account
  <2> HIDE DEF a, b, sp, jp
  <2>4. Swapped(a.sp, b.sp) /\ Swapped(a.jp, b.jp)
    BY <1>2, <2>2, <2>3 DEF Swapped
  <2>5. Moves(a, b, 0, 0)
    <3>1. CASE a.pool.state = "MATCH"
      <4>1. sp # d /\ jp # d
        BY <1>0, <1>1, <2>1, <2>3, <3>1 DEF Backed
      <4>2. b.sp = a.sp /\ b.jp = a.jp
        BY <1>2, <2>2, <2>3, <4>1
      <4>3. Moves(a, b, a.pool.lendSupply - b.pool.lendSupply,
                        a.pool.borrowSupply - b.pool.borrowSupply)
        BY <2>1, <2>3, <3>1, <4>2, DepositMove
      <4>4. /\ a.pool.lendSupply - b.pool.lendSupply = 0
            /\ a.pool.borrowSupply - b.pool.borrowSupply = 0
        BY <2>1, <2>3, KeptTypes
      <4>. QED BY <4>3, <4>4
    <3>2. CASE a.pool.state = "UNDONE"
      <4>1. Backed(b)
        BY <2>3, <3>2 DEF Backed, Settled
      <4>2. SettleDue(b) = SettleDue(a) /\ PledgeDue(b) = PledgeDue(a)
        BY <2>3, <3>2 DEF SettleDue, PledgeDue, Deposits, Pledges
      <4>3. SettleDue(a) \in Nat /\ PledgeDue(a) \in Nat
        BY <2>1, DueTypes
      <4>. QED BY <4>1, <4>2, <4>3 DEF Moves
    <3>3. CASE a.pool.state \in Settled
      BY <2>1, <2>3, <2>4, <3>3, TokensSwapped
    <3>4. a.pool.state \in {"MATCH", "UNDONE"} \/ a.pool.state \in Settled
      BY <2>1, KeptTypes DEF PoolState, Settled
    <3>. QED BY <3>1, <3>2, <3>3, <3>4
  <2>. QED BY <2>5 DEF a, b
<1>4. AllBacked'
  BY <1>1, <1>3 DEF AllBacked, Moves
<1>5. ASSUME NEW t \in Tokens
      PROVE  SumFunction(Dues(t)') <= balance'[t]
  <2> DEFINE f == Dues(t)
             g == Dues(t)'
  <2>1. /\ \A q \in Created : /\ SettleDue(Account(q)') \in Nat
                              /\ PledgeDue(Account(q)') \in Nat
                              /\ SettleDue(Account(q)) \in Nat
                              /\ PledgeDue(Account(q)) \in Nat
    BY <1>0, <1>1, DueTypes DEF AllKept
  <2>2. \A q \in Created : /\ SettleDue(Account(q)') <= SettleDue(Account(q))
                           /\ PledgeDue(Account(q)') <= PledgeDue(Account(q))
    BY <1>3, <2>1 DEF Moves
  <2>3. /\ f \in [Created -> Int] /\ g \in [Created -> Int]
        /\ \A q \in Created : g[q] <= f[q]
    BY <1>1, <2>1, <2>2 DEF Dues, DueIn
  <2>4. SumFunction(f) <= balance[t] /\ balance[t] \in Nat
    BY <1>0 DEF Ready, Safe, Balanced
  <2> HIDE DEF f, g
  <2>5. SumFunction(g) <= SumFunction(f) /\ SumFunction(f) \in Int /\ SumFunction(g) \in Int
    BY <1>0, <2>3, SumMonotonic, SumType
  <2>6. SumFunction(g) <= balance'[t]
    BY <1>1, <2>4, <2>5
  <2>. QED BY <2>6 DEF g
<1>6. Balanced'
  BY <1>5 DEF Balanced
<1>7. UnusedEmpty'
  <2>. SUFFICES ASSUME NEW e \in DebtTokens,
                       \A q \in Created : e # pools[q].spToken /\ e # pools[q].jpToken,
                       NEW w \in Users
                PROVE  debt'[e][w] = 0
    BY <1>1 DEF UnusedEmpty
  <2>1. \A z \in Users : debt[e][z] = 0
    BY DEF Ready, Safe, UnusedEmpty
  <2>2. e # d
    BY <1>0, <1>1, <2>1
  <2>. QED BY <1>2, <2>1, <2>2
<1>. QED BY <1>4, <1>6, <1>7 DEF Safe


-----------------------------------------------------------------------------
(* A new pool owes nothing and takes debt tokens nobody holds.             *)
LEMMA CreateSafe ==
  ASSUME Ready, DebtTokensDedicated', NEW pool \in Pool, AddPool(pool),
         pool.state = "MATCH", pool.lendSupply = 0, pool.borrowSupply = 0,
         pool.spToken \in DebtTokens, pool.jpToken \in DebtTokens
  PROVE  Safe'
<1>0. /\ TypeOK /\ balance \in [Tokens -> Nat] /\ pools \in [PoolIds -> Pool]
      /\ Created \subseteq PoolIds /\ IsFiniteSet(Created) /\ AllKept /\ AllKept'
      /\ poolCounter \in Nat
  BY CreatedPools DEF Ready, TInv, TypeOK
<1>1. PICK n \in PoolIds :
        /\ n \notin Created /\ Created' = Created \cup {n}
        /\ pools'[n] = pool /\ \A q \in Created : pools'[q] = pools[q]
        /\ UNCHANGED <<lendInfos, borrowInfos, balance, debt>>
  <2>1. LET n == poolCounter + 1
        IN  /\ n \in PoolIds /\ n \notin Created /\ Created' = Created \cup {n}
            /\ pools'[n] = pool /\ \A q \in Created : pools'[q] = pools[q]
            /\ UNCHANGED <<lendInfos, borrowInfos, balance, debt>>
    BY <1>0, BoundsAssumption DEF AddPool, PoolIds, Created, positions
  <2>. QED BY <2>1
<1>2. \A q \in Created : Account(q)' = Account(q)
  BY <1>1 DEF Account
<1>3. /\ Account(n)'.pool = pool
      /\ Account(n)'.sp = debt[pool.spToken] /\ Account(n)'.jp = debt[pool.jpToken]
  BY <1>1 DEF Account
<1>4. \A u \in Users : debt[pool.spToken][u] = 0 /\ debt[pool.jpToken][u] = 0
  <2>1. \A q \in Created : {pool.spToken, pool.jpToken}
                             \cap {pools[q].spToken, pools[q].jpToken} = {}
    BY <1>1 DEF DebtTokensDedicated
  <2>. QED BY <2>1 DEF Ready, Safe, UnusedEmpty
<1>5. Backed(Account(n)')
  BY <1>3, <1>4 DEF Backed, Settled
<1>6. AllBacked'
  BY <1>1, <1>2, <1>5 DEF AllBacked, Ready, Safe
<1>7. SettleDue(Account(n)') = 0 /\ PledgeDue(Account(n)') = 0
  BY <1>3 DEF SettleDue, PledgeDue
<1>8. ASSUME NEW t \in Tokens
      PROVE  SumFunction(Dues(t)') <= balance'[t]
  <2> DEFINE f == Dues(t)
             g == Dues(t)'
  <2>1. \A q \in Created : /\ SettleDue(Account(q)) \in Nat
                           /\ PledgeDue(Account(q)) \in Nat
    BY <1>0, DueTypes DEF AllKept
  <2>2. /\ f \in [Created -> Int] /\ \A q \in Created : g[q] = f[q]
        /\ g[n] = 0
    BY <1>1, <1>2, <1>7, <2>1 DEF Dues, DueIn
  <2>3. g \in [Created \cup {n} -> Int]
    <3>1. \A q \in Created \cup {n} : g[q] \in Int
      BY <2>2
    <3>2. g = [q \in Created \cup {n} |-> DueIn(q, t)']
      BY <1>1 DEF Dues
    <3> HIDE DEF g
    <3>. QED BY <3>1, <3>2
  <2>4. SumFunction(f) <= balance[t] /\ balance[t] \in Nat
    BY <1>0 DEF Ready, Safe, Balanced
  <2> HIDE DEF f, g
  <2>5. SumFunction(g) = SumFunction(f) + g[n] /\ SumFunction(f) \in Int
    <3>1. n \notin Created /\ IsFiniteSet(Created) /\ f \in [Created -> Int]
      BY <1>0, <1>1, <2>2
    <3>2. SumFunction(g) = SumFunction(f) + g[n]
      BY <2>2, <2>3, <3>1, SumExtended
    <3>. QED BY <3>1, <3>2, SumType
  <2>6. SumFunction(g) <= balance'[t]
    BY <1>1, <2>2, <2>4, <2>5
  <2>. QED BY <2>6 DEF g
<1>9. Balanced'
  BY <1>8 DEF Balanced
<1>10. UnusedEmpty'
  BY <1>1 DEF UnusedEmpty, Ready, Safe
<1>. QED BY <1>6, <1>9, <1>10 DEF Safe

-----------------------------------------------------------------------------
(* Without the setters of a pool's state and tokens, its tokens stay.       *)

PoolSetters == {"setPoolState", "setPoolSpToken", "setPoolJpToken"}

LEMMA TokensStay ==
  ASSUME PoolSetters \cap AdminCalls = {}, TypeOK, [Next]_vars
  PROVE  /\ \A q \in Created : /\ q \in Created'
                               /\ pools'[q].spToken = pools[q].spToken
                               /\ pools'[q].jpToken = pools[q].jpToken
         /\ TokensTogether => TokensTogether'
<1> DEFINE Stay == /\ Created' = Created
                   /\ \A q \in Created : /\ pools'[q].spToken = pools[q].spToken
                                         /\ pools'[q].jpToken = pools[q].jpToken
<1>0. /\ pools \in [PoolIds -> Pool] /\ Created \subseteq PoolIds
      /\ poolCounter \in Nat
  BY CreatedPools DEF TypeOK
<1>1. ASSUME UNCHANGED <<pools, poolCounter>>
      PROVE  Stay
  BY <1>1 DEF Created
<1>2. ASSUME NEW p \in PoolIds, NEW u \in Users, Lend(p, u) \/ Borrow(p, u)
      PROVE  Stay
  <2>1. UNCHANGED poolCounter
    BY <1>2 DEF Lend, DepositLend, RefundLend, ClaimLend, WithdrawLend,
       EmergencyLendWithdrawal, Borrow, DepositBorrow, RefundBorrow, ClaimBorrow,
       WithdrawBorrow, EmergencyBorrowWithdrawal
  <2>2. \/ UNCHANGED pools
        \/ \E x : pools' = [pools EXCEPT ![p].lendSupply = x]
        \/ \E x : pools' = [pools EXCEPT ![p].borrowSupply = x]
    BY <1>2 DEF Lend, DepositLend, RefundLend, ClaimLend, WithdrawLend,
       EmergencyLendWithdrawal, Borrow, DepositBorrow, RefundBorrow, ClaimBorrow,
       WithdrawBorrow, EmergencyBorrowWithdrawal
  <2>. QED BY <1>0, <2>1, <2>2 DEF Created, Pool
<1>3. ASSUME NEW p \in PoolIds, Advance(p)
      PROVE  Stay
  <2>1. \E x, y : \/ pools' = [pools EXCEPT ![p].settleAmountLend = x,
                                 ![p].settleAmountBorrow = y, ![p].state = "EXECUTION"]
                  \/ pools' = [pools EXCEPT ![p].settleAmountLend = x,
                                 ![p].settleAmountBorrow = y, ![p].state = "UNDONE"]
                  \/ pools' = [pools EXCEPT ![p].finishAmountLend = x,
                                 ![p].finishAmountBorrow = y, ![p].state = "FINISH"]
                  \/ pools' = [pools EXCEPT ![p].liquidationAmountLend = x,
                                 ![p].liquidationAmountBorrow = y,
                                 ![p].state = "LIQUIDATION"]
    BY <1>3 DEF Advance, SettleMatched, SettleUndone, Finish, Liquidate
  <2>2. UNCHANGED poolCounter
    BY <1>3 DEF Advance, SettleMatched, SettleUndone, Finish, Liquidate
  <2>. QED BY <1>0, <2>1, <2>2 DEF Created, Pool
<1>4. ASSUME Stay PROVE TokensTogether => TokensTogether'
  BY <1>4 DEF TokensTogether
<1>5. ASSUME NEW pool, AddPool(pool), pool.spToken = NoToken <=> pool.jpToken = NoToken
      PROVE  /\ \A q \in Created : q \in Created' /\ pools'[q] = pools[q]
             /\ TokensTogether => TokensTogether'
  <2>1. /\ Created' = Created \cup {poolCounter + 1}
        /\ poolCounter + 1 \in PoolIds
        /\ pools' = [pools EXCEPT ![poolCounter + 1] = pool]
        /\ poolCounter + 1 \notin Created
    BY <1>0, <1>5, BoundsAssumption DEF AddPool, Created, PoolIds
  <2>. QED BY <1>0, <1>5, <2>1 DEF TokensTogether
<1>6. CASE \/ \E t \in BareTerms : CreatePool(t)
           \/ \E t \in PoolTerms : CreatePoolInfo(t)
  <2>1. \E pool : AddPool(pool) /\ (pool.spToken = NoToken <=> pool.jpToken = NoToken)
    <3>1. CASE \E t \in BareTerms : CreatePool(t)
      <4>1. PICK t \in BareTerms : CreatePool(t)
        BY <3>1
      <4>2. /\ NewPool(t, 0, NoToken, NoToken).spToken = NoToken
            /\ NewPool(t, 0, NoToken, NoToken).jpToken = NoToken
        BY DEF NewPool, NoPool
      <4>. QED BY <4>1, <4>2 DEF CreatePool
    <3>2. CASE \E t \in PoolTerms : CreatePoolInfo(t)
      <4>1. PICK t \in PoolTerms : CreatePoolInfo(t)
        BY <3>2
      <4>2. /\ NewPool(t, t.settleTime, t.spToken, t.jpToken).spToken = t.spToken
            /\ NewPool(t, t.settleTime, t.spToken, t.jpToken).jpToken = t.jpToken
        BY DEF NewPool, NoPool
      <4>. QED BY <4>1, <4>2 DEF CreatePoolInfo
    <3>. QED BY <1>6, <3>1, <3>2
  <2>. QED BY <2>1, <1>5
<1>7. CASE UNCHANGED <<pools, poolCounter>>
  BY <1>1, <1>4, <1>7
<1>8. CASE ~ \/ \E t \in BareTerms : CreatePool(t)
             \/ \E t \in PoolTerms : CreatePoolInfo(t)
  <2>1. CASE \E p \in PoolIds, u \in Users : Lend(p, u) \/ Borrow(p, u)
    BY <1>2, <1>4, <2>1
  <2>2. CASE \E p \in PoolIds : Advance(p)
    BY <1>3, <1>4, <2>2
  <2>3. CASE Administer
    <3>1. UNCHANGED <<pools, poolCounter>>
      BY <1>8, <2>3 DEF Administer, SetPoolState, SetPoolSpToken, SetPoolJpToken,
         SetOracle, SetSwapRouterAddress, SetFeeAddress, SetPause, SetMinAmount,
         SetFee, Configure, PoolSetters
    <3>. QED BY <1>7, <3>1
  <2>4. CASE \/ Tick \/ UpdatePrices \/ UNCHANGED vars
             \/ \E d \in DebtTokens, u, v \in Users, amount \in 1 .. MaxRedeem :
                  TransferDebt(d, u, v, amount)
    BY <1>7, <2>4 DEF Tick, UpdatePrices, vars, TransferDebt
  <2>. QED BY <2>1, <2>2, <2>3, <2>4 DEF Next
<1>. QED BY <1>6, <1>8

LEMMA DedicatedBefore ==
  ASSUME PoolSetters \cap AdminCalls = {}, TypeOK, [Next]_vars, DebtTokensDedicated'
  PROVE  DebtTokensDedicated
  BY TokensStay DEF DebtTokensDedicated

LEMMA EveryStepSafe ==
  ASSUME PoolSetters \cap AdminCalls = {}, Ready, DebtTokensDedicated', [Next]_vars
  PROVE  Safe'
<1>1. ASSUME NEW p \in PoolIds, NEW u \in Users, Lend(p, u)
      PROVE  Safe'
  <2>1. /\ \A x \in LendAmounts : x \in Nat
        /\ \A x \in 1 .. MaxRedeem : x \in Nat
    BY BoundsAssumption
  <2>. QED BY <1>1, <2>1, DepositLendSafe, LenderPaidSafe, ClaimLendSafe, WithdrawLendSafe
           DEF Lend
<1>2. ASSUME NEW p \in PoolIds, NEW u \in Users, Borrow(p, u)
      PROVE  Safe'
  <2>1. /\ \A x \in PledgeAmounts : x \in Nat
        /\ \A x \in 1 .. MaxRedeem : x \in Nat
    BY BoundsAssumption
  <2>. QED BY <1>2, <2>1, DepositBorrowSafe, BorrowerPaidSafe, ClaimBorrowSafe,
              WithdrawBorrowSafe
           DEF Borrow
<1>3. ASSUME NEW p \in PoolIds, Advance(p)
      PROVE  Safe'
  BY <1>3, SettleSafe, CloseSafe DEF Advance
<1>4. CASE \E d \in DebtTokens, u, v \in Users, amount \in 1 .. MaxRedeem :
             TransferDebt(d, u, v, amount)
  BY <1>4, TransferSafe
<1>5. CASE \E t \in BareTerms : CreatePool(t)
  <2>1. PICK t \in BareTerms : CreatePool(t)
    BY <1>5
  <2> DEFINE pool == NewPool(t, 0, NoToken, NoToken)
             n == poolCounter + 1
  <2>2. AddPool(pool) /\ pool.spToken = pool.jpToken
    BY <2>1 DEF CreatePool, NewPool, NoPool
  <2> HIDE DEF pool
  <2>3. pools \in [PoolIds -> Pool] /\ poolCounter \in Nat
    BY DEF Ready, TInv, TypeOK
  <2>4. n \in Created' /\ pools'[n] = pool
    BY <2>2, <2>3, BoundsAssumption DEF AddPool, Created, PoolIds
  <2>. QED BY <2>2, <2>4 DEF DebtTokensDedicated
<1>6. CASE \E t \in PoolTerms : CreatePoolInfo(t)
  <2>1. PICK t \in PoolTerms : CreatePoolInfo(t)
    BY <1>6
  <2>2. t \in Terms
    BY InputsAssumption
  <2> DEFINE pool == NewPool(t, t.settleTime, t.spToken, t.jpToken)
  <2>3. pool \in Pool
    <3>1. /\ t.settleTime \in Nat /\ t.spToken \in DebtTokens \cup {NoToken}
          /\ t.jpToken \in DebtTokens \cup {NoToken}
      BY <2>2 DEF Terms
    <3>. QED BY <2>2, <3>1, NewPoolType
  <2>4. /\ AddPool(pool) /\ pool.state = "MATCH" /\ pool.lendSupply = 0
        /\ pool.borrowSupply = 0 /\ pool.spToken = t.spToken /\ pool.jpToken = t.jpToken
    BY <2>1 DEF CreatePoolInfo, NewPool, NoPool
  <2>5. t.spToken \in DebtTokens /\ t.jpToken \in DebtTokens
    BY <2>1, <2>2 DEF CreatePoolInfo, Terms
  <2> HIDE DEF pool
  <2>. QED BY <2>3, <2>4, <2>5, CreateSafe
<1>7. CASE UNCHANGED <<poolCounter, pools, lendInfos, borrowInfos, balance, debt>>
  BY <1>7, CalmSafe DEF Ready
<1>8. CASE Administer
  <2>1. \/ \E t \in BareTerms : CreatePool(t)
        \/ \E t \in PoolTerms : CreatePoolInfo(t)
        \/ UNCHANGED <<poolCounter, pools, lendInfos, borrowInfos, balance, debt>>
    BY <1>8 DEF Administer, SetPoolState, SetPoolSpToken, SetPoolJpToken, SetOracle,
       SetSwapRouterAddress, SetFeeAddress, SetPause, SetMinAmount, SetFee, Configure,
       PoolSetters, positions
  <2>. QED BY <1>5, <1>6, <1>7, <2>1
<1>9. CASE Tick \/ UpdatePrices \/ UNCHANGED vars
  BY <1>7, <1>9 DEF Tick, UpdatePrices, vars, positions
<1>. QED BY <1>1, <1>2, <1>3, <1>4, <1>8, <1>9 DEF Next


-----------------------------------------------------------------------------
(* The inductive invariant: the books agree, and where no debt token       *)
(* serves twice the contract is safe.                                      *)
SolvencyInv == BooksInv /\ (DebtTokensDedicated => Safe)

LEMMA InitSafe == Init => TokensTogether /\ Safe
<1>. SUFFICES ASSUME Init PROVE TokensTogether /\ Safe
  OBVIOUS
<1>1. Created = {}
  BY DEF Init, Created
<1>2. ASSUME NEW t \in Tokens PROVE SumFunction(Dues(t)) <= balance[t]
  <2> DEFINE f == Dues(t)
  <2>1. f \in [{} -> Int] /\ IsFiniteSet({}) /\ \A x \in {} : f[x] = 0
    BY <1>1, FS_EmptySet DEF Dues
  <2> HIDE DEF f
  <2>2. SumFunction(f) = 0
    BY <2>1, SumOfZeros
  <2>3. balance[t] = 0
    BY DEF Init
  <2>. QED BY <2>2, <2>3 DEF f
<1>3. TokensTogether /\ AllBacked
  BY <1>1 DEF TokensTogether, AllBacked
<1>4. UnusedEmpty
  BY DEF Init, UnusedEmpty
<1>. QED BY <1>2, <1>3, <1>4 DEF Safe, Balanced

LEMMA StaysSafe ==
  ASSUME PoolSetters \cap AdminCalls = {}
  PROVE  Spec => []SolvencyInv
<1>1. "setPoolState" \notin AdminCalls
  BY DEF PoolSetters
<1>2. Spec => [](LInv /\ PositionsAccounted)
  BY <1>1, PotsCovered, SuppliesAreSums, PTL
<1>3. Spec => []TokensTogether
  <2>1. Init => TokensTogether
    BY InitSafe
  <2>2. TInv /\ TokensTogether /\ [Next]_vars => TokensTogether'
    BY TokensStay DEF TInv
  <2>. QED BY Typed, <2>1, <2>2, PTL DEF Spec
<1>4. Spec => []BooksInv
  <2>1. LInv /\ PositionsAccounted /\ TokensTogether => BooksInv
    BY DEF BooksInv
  <2>. QED BY <1>2, <1>3, <2>1, PTL
<1>5. BooksInv' /\ DebtTokensDedicated' => AllKept'
  BY AccountsKept, PTL
<1>6. /\ BooksInv /\ BooksInv' /\ (DebtTokensDedicated => Safe) /\ [Next]_vars
      => (DebtTokensDedicated => Safe)'
  <2>. SUFFICES ASSUME BooksInv, BooksInv', DebtTokensDedicated => Safe, [Next]_vars,
                       DebtTokensDedicated'
                PROVE  Safe'
    OBVIOUS
  <2>1. TInv /\ TypeOK /\ TypeOK' /\ TokensTogether
    BY DEF BooksInv, LInv, TInv
  <2>2. DebtTokensDedicated
    BY <2>1, DedicatedBefore
  <2>3. AllKept /\ AllKept'
    BY <1>5, <2>2, AccountsKept
  <2>4. Ready
    BY <2>1, <2>2, <2>3 DEF Ready
  <2>. QED BY <2>4, EveryStepSafe
<1>7. Init => (DebtTokensDedicated => Safe)
  BY InitSafe
<1>8. BooksInv /\ (DebtTokensDedicated => Safe) => SolvencyInv
  BY DEF SolvencyInv
<1>. QED BY <1>4, <1>6, <1>7, <1>8, PTL DEF Spec

LEMMA SafeEnough == SolvencyInv => Solvent /\ ClaimsBacked
<1>. SUFFICES ASSUME SolvencyInv, DebtTokensDedicated
              PROVE  /\ \A t \in Tokens : Owed(t) <= balance[t]
                     /\ \A p \in Created : pools[p].state \in Settled =>
                          /\ SpOutstanding(p) <= pools[p].settleAmountLend
                          /\ JpOutstanding(p) <= TotalJp(pools[p].settleAmountLend,
                                                         pools[p].pledgeRate)
  BY DEF Solvent, ClaimsBacked
<1>1. AllKept /\ TypeOK /\ Safe
  BY AccountsKept DEF SolvencyInv, BooksInv, LInv, TInv
<1>2. \A t \in Tokens : Owed(t) <= balance[t]
  BY <1>1, OwedByAccounts DEF AllOwed, Safe, Balanced
<1>3. ASSUME NEW p \in Created, pools[p].state \in Settled
      PROVE  /\ SpOutstanding(p) <= pools[p].settleAmountLend
             /\ JpOutstanding(p) <= TotalJp(pools[p].settleAmountLend,
                                            pools[p].pledgeRate)
  <2>1. /\ SpOutstanding(p) = SumFunction(SpClaims(Account(p)))
        /\ JpOutstanding(p) = SumFunction(JpClaims(Account(p)))
    BY ClaimsAreAccounts DEF AllClaims
  <2>2. Backed(Account(p)) /\ Account(p).pool = pools[p]
    BY <1>1 DEF Safe, AllBacked, Account
  <2>. QED BY <1>3, <2>1, <2>2 DEF Backed, AllJp
<1>. QED BY <1>2, <1>3

(* The contract can always pay everyone: for any number of users, pools    *)
(* and tokens, any terms, prices, quotes and fees and any order of calls,  *)
(* as long as no debt token serves twice and the administrator leaves the  *)
(* state and the debt tokens of the pools alone.                           *)
THEOREM PoolsStaySolvent ==
  ASSUME {"setPoolState", "setPoolSpToken", "setPoolJpToken"} \cap AdminCalls = {}
  PROVE  Spec => []Solvent
<1>1. Spec => []SolvencyInv
  BY StaysSafe DEF PoolSetters
<1>. QED BY <1>1, SafeEnough, PTL

(* Under the same conditions SP and JP tokens are never over-issued.       *)
THEOREM ClaimsStayBacked ==
  ASSUME {"setPoolState", "setPoolSpToken", "setPoolJpToken"} \cap AdminCalls = {}
  PROVE  Spec => []ClaimsBacked
<1>1. Spec => []SolvencyInv
  BY StaysSafe DEF PoolSetters
<1>. QED BY <1>1, SafeEnough, PTL
=============================================================================
