------------------------ MODULE MultiSignatureProofs ------------------------
(***************************************************************************)
(* Theorems about MultiSignature, for every finite set of owners, every    *)
(* number of confirmations required and any nesting of calls.              *)
(*                                                                         *)
(* A failed call brings back an earlier state of the wallet, so what is    *)
(* said of the current state must be said of the saved ones too: Sound is  *)
(* a predicate of the two mappings, and the inductive invariant states it  *)
(* of the current ones and of every saved pair.                            *)
(***************************************************************************)
EXTENDS MultiSignature, SumProofs, SequenceTheorems

By(conf, t) == {o \in Owners : conf[t][o]}

Sound(txs, conf) ==
  /\ txs \in Seq(Transaction)
  /\ Len(txs) <= MaxTransactions
  /\ conf \in [TxIds -> [Accounts -> BOOLEAN]]
  /\ \A t \in 1 .. Len(txs) :
       /\ txs[t].numConfirmations = Cardinality(By(conf, t))
       /\ txs[t].executed => txs[t].numConfirmations >= required
  /\ \A t \in TxIds : t > Len(txs) => By(conf, t) = {}

(* No saved state has an executed transaction that a later one lacks.      *)
Chained ==
  \A i \in 1 .. Len(calls) :
    /\ FinalIn(calls[i].transactions, transactions)
    /\ \A j \in i .. Len(calls) :
         FinalIn(calls[i].transactions, calls[j].transactions)

IInv ==
  /\ Sound(transactions, isConfirmed)
  /\ ether \in Nat /\ received \in Nat
  /\ calls \in Seq(StorageType)
  /\ \A i \in 1 .. Len(calls) :
       Sound(calls[i].transactions, calls[i].isConfirmed)
  /\ Chained

LEMMA FiniteConfirmers ==
  ASSUME NEW conf, NEW t
  PROVE  IsFiniteSet(By(conf, t)) /\ Cardinality(By(conf, t)) \in Nat
<1>1. By(conf, t) \in SUBSET Owners
  BY DEF By
<1>. QED BY <1>1, OwnersAssumption, FS_Subset, FS_CardinalityType

-----------------------------------------------------------------------------
(* The operations on a pair of mappings.                                   *)

LEMMA SubmitSound ==
  ASSUME NEW txs, NEW conf, Sound(txs, conf), Len(txs) < MaxTransactions,
         NEW value \in Values
  PROVE  LET new == Append(txs, [executed |-> FALSE, value |-> value,
                                 numConfirmations |-> 0])
         IN  Sound(new, conf) /\ FinalIn(txs, new)
<1> DEFINE tx  == [executed |-> FALSE, value |-> value, numConfirmations |-> 0]
           new == Append(txs, tx)
<1>1. tx \in Transaction /\ tx.numConfirmations = 0 /\ tx.executed = FALSE
  BY BoundsAssumption DEF Transaction
<1>2. txs \in Seq(Transaction) /\ Len(txs) \in Nat
  BY DEF Sound
<1> HIDE DEF tx
<1>3. /\ new \in Seq(Transaction)
      /\ Len(new) = Len(txs) + 1
      /\ \A t \in 1 .. Len(txs) : new[t] = txs[t]
      /\ new[Len(txs) + 1] = tx
  BY <1>1, <1>2
<1>4. By(conf, Len(txs) + 1) = {}
  BY <1>2, BoundsAssumption DEF Sound, TxIds
<1> HIDE DEF new
<1>5. ASSUME NEW t \in 1 .. Len(new)
      PROVE  /\ new[t].numConfirmations = Cardinality(By(conf, t))
             /\ new[t].executed => new[t].numConfirmations >= required
  <2>1. CASE t \in 1 .. Len(txs)
    BY <1>3, <2>1 DEF Sound
  <2>2. CASE t = Len(txs) + 1
    BY <1>1, <1>3, <1>4, <2>2, FS_EmptySet
  <2>. QED BY <1>2, <1>3, <2>1, <2>2
<1>6. Sound(new, conf)
  <2>1. Len(new) <= MaxTransactions
    BY <1>2, <1>3, BoundsAssumption
  <2>2. \A t \in TxIds : t > Len(new) => By(conf, t) = {}
    BY <1>2, <1>3, BoundsAssumption DEF Sound, TxIds
  <2>3. conf \in [TxIds -> [Accounts -> BOOLEAN]]
    BY DEF Sound
  <2>. QED BY <1>3, <1>5, <2>1, <2>2, <2>3 DEF Sound
<1>7. FinalIn(txs, new)
  BY <1>2, <1>3 DEF FinalIn
<1>. QED BY <1>6, <1>7 DEF new, tx

LEMMA ConfirmSound ==
  ASSUME NEW txs, NEW conf, Sound(txs, conf), NEW t \in 1 .. Len(txs),
         NEW u \in Owners, ~txs[t].executed, ~conf[t][u]
  PROVE  LET new == [txs EXCEPT ![t].numConfirmations = @ + 1]
         IN  /\ Sound(new, [conf EXCEPT ![t][u] = TRUE])
             /\ FinalIn(txs, new)
<1> DEFINE n    == txs[t].numConfirmations + 1
           tx   == [txs[t] EXCEPT !.numConfirmations = n]
           new  == [txs EXCEPT ![t].numConfirmations = @ + 1]
           cnew == [conf EXCEPT ![t][u] = TRUE]
<1>0. /\ txs \in Seq(Transaction) /\ txs[t] \in Transaction
      /\ conf \in [TxIds -> [Accounts -> BOOLEAN]] /\ u \in Accounts /\ t \in TxIds
  BY OwnersAssumption, BoundsAssumption DEF Sound, TxIds
<1>1. n \in Nat /\ n = Cardinality(By(conf, t)) + 1
  BY <1>0 DEF Sound, Transaction
<1>2. new = [txs EXCEPT ![t] = tx]
  BY <1>0
<1>3. tx \in Transaction /\ tx.numConfirmations = n /\ tx.executed = txs[t].executed
  <2> HIDE DEF n
  <2>. QED BY <1>0, <1>1 DEF Transaction
<1> HIDE DEF tx, n, new
<1>4. /\ new \in Seq(Transaction) /\ Len(new) = Len(txs) /\ new[t] = tx
      /\ \A s \in 1 .. Len(txs) : s # t => new[s] = txs[s]
      /\ FinalIn(txs, new)
  <2>1. /\ new \in Seq(Transaction) /\ Len(new) = Len(txs)
        /\ \A s \in 1 .. Len(txs) : new[s] = IF s = t THEN tx ELSE txs[s]
    BY <1>0, <1>2, <1>3, ExceptSeq
  <2>2. FinalIn(txs, new)
    BY <2>1 DEF FinalIn
  <2>. QED BY <2>1, <2>2
<1>5. /\ cnew \in [TxIds -> [Accounts -> BOOLEAN]]
      /\ By(cnew, t) = By(conf, t) \cup {u}
      /\ \A s \in TxIds : s # t => By(cnew, s) = By(conf, s)
  BY <1>0, OwnersAssumption DEF By
<1>6. Cardinality(By(cnew, t)) = n
  <2>1. u \notin By(conf, t)
    BY DEF By
  <2>. QED BY <1>1, <1>5, <2>1, FiniteConfirmers, FS_AddElement
<1> HIDE DEF cnew
<1>7. ASSUME NEW s \in 1 .. Len(new)
      PROVE  /\ new[s].numConfirmations = Cardinality(By(cnew, s))
             /\ new[s].executed => new[s].numConfirmations >= required
  <2>1. CASE s = t
    BY <1>3, <1>4, <1>6, <2>1
  <2>2. CASE s # t
    <3>1. s \in TxIds
      BY <1>4, BoundsAssumption DEF Sound, TxIds
    <3>. QED BY <1>4, <1>5, <2>2, <3>1 DEF Sound
  <2>. QED BY <2>1, <2>2
<1>8. Sound(new, cnew)
  BY <1>4, <1>5, <1>7 DEF Sound
<1>. QED BY <1>4, <1>8 DEF new, cnew

LEMMA RevokeSound ==
  ASSUME NEW txs, NEW conf, Sound(txs, conf), NEW t \in 1 .. Len(txs),
         NEW u \in Owners, ~txs[t].executed, conf[t][u]
  PROVE  LET new == [txs EXCEPT ![t].numConfirmations = @ - 1]
         IN  /\ Sound(new, [conf EXCEPT ![t][u] = FALSE])
             /\ FinalIn(txs, new)
<1> DEFINE n    == txs[t].numConfirmations - 1
           tx   == [txs[t] EXCEPT !.numConfirmations = n]
           new  == [txs EXCEPT ![t].numConfirmations = @ - 1]
           cnew == [conf EXCEPT ![t][u] = FALSE]
<1>0. /\ txs \in Seq(Transaction) /\ txs[t] \in Transaction
      /\ conf \in [TxIds -> [Accounts -> BOOLEAN]] /\ u \in Accounts /\ t \in TxIds
  BY OwnersAssumption, BoundsAssumption DEF Sound, TxIds
<1>1. u \in By(conf, t) /\ By(conf, t) \ {u} \in SUBSET Owners
  BY DEF By
<1>2. n = Cardinality(By(conf, t) \ {u}) /\ n \in Nat
  <2>1. Cardinality(By(conf, t) \ {u}) = Cardinality(By(conf, t)) - 1
    BY <1>1, FiniteConfirmers, FS_RemoveElement
  <2>2. Cardinality(By(conf, t) \ {u}) \in Nat
    BY <1>1, OwnersAssumption, FS_Subset, FS_CardinalityType
  <2>. QED BY <2>1, <2>2 DEF Sound
<1>3. new = [txs EXCEPT ![t] = tx]
  BY <1>0
<1>4. tx \in Transaction /\ tx.numConfirmations = n /\ tx.executed = txs[t].executed
  <2> HIDE DEF n
  <2>. QED BY <1>0, <1>2 DEF Transaction
<1> HIDE DEF tx, n, new
<1>5. /\ new \in Seq(Transaction) /\ Len(new) = Len(txs) /\ new[t] = tx
      /\ \A s \in 1 .. Len(txs) : s # t => new[s] = txs[s]
      /\ FinalIn(txs, new)
  <2>1. /\ new \in Seq(Transaction) /\ Len(new) = Len(txs)
        /\ \A s \in 1 .. Len(txs) : new[s] = IF s = t THEN tx ELSE txs[s]
    BY <1>0, <1>3, <1>4, ExceptSeq
  <2>2. FinalIn(txs, new)
    BY <2>1 DEF FinalIn
  <2>. QED BY <2>1, <2>2
<1>6. /\ cnew \in [TxIds -> [Accounts -> BOOLEAN]]
      /\ By(cnew, t) = By(conf, t) \ {u}
      /\ \A s \in TxIds : s # t => By(cnew, s) = By(conf, s)
  BY <1>0, OwnersAssumption DEF By
<1> HIDE DEF cnew
<1>7. ASSUME NEW s \in 1 .. Len(new)
      PROVE  /\ new[s].numConfirmations = Cardinality(By(cnew, s))
             /\ new[s].executed => new[s].numConfirmations >= required
  <2>1. CASE s = t
    BY <1>2, <1>4, <1>5, <1>6, <2>1
  <2>2. CASE s # t
    <3>1. s \in TxIds
      BY <1>5, BoundsAssumption DEF Sound, TxIds
    <3>. QED BY <1>5, <1>6, <2>2, <3>1 DEF Sound
  <2>. QED BY <2>1, <2>2
<1>8. Sound(new, cnew)
  BY <1>5, <1>6, <1>7 DEF Sound
<1>. QED BY <1>5, <1>8 DEF new, cnew

LEMMA ExecuteSound ==
  ASSUME NEW txs, NEW conf, Sound(txs, conf), NEW t \in 1 .. Len(txs),
         ~txs[t].executed, txs[t].numConfirmations >= required
  PROVE  LET new == [txs EXCEPT ![t].executed = TRUE]
         IN  Sound(new, conf) /\ FinalIn(txs, new)
<1> DEFINE tx   == [txs[t] EXCEPT !.executed = TRUE]
           new  == [txs EXCEPT ![t].executed = TRUE]
<1>0. txs \in Seq(Transaction) /\ txs[t] \in Transaction
  BY DEF Sound
<1>1. new = [txs EXCEPT ![t] = tx]
  BY <1>0
<1>2. tx \in Transaction /\ tx.numConfirmations = txs[t].numConfirmations
  BY <1>0 DEF Transaction
<1> HIDE DEF tx, new
<1>3. /\ new \in Seq(Transaction) /\ Len(new) = Len(txs) /\ new[t] = tx
      /\ \A s \in 1 .. Len(txs) : s # t => new[s] = txs[s]
      /\ FinalIn(txs, new)
  <2>1. /\ new \in Seq(Transaction) /\ Len(new) = Len(txs)
        /\ \A s \in 1 .. Len(txs) : new[s] = IF s = t THEN tx ELSE txs[s]
    BY <1>0, <1>1, <1>2, ExceptSeq
  <2>2. FinalIn(txs, new)
    BY <2>1 DEF FinalIn
  <2>. QED BY <2>1, <2>2
<1>4. \A s \in 1 .. Len(new) :
        /\ new[s].numConfirmations = Cardinality(By(conf, s))
        /\ new[s].executed => new[s].numConfirmations >= required
  BY <1>2, <1>3 DEF Sound
<1>5. Sound(new, conf)
  BY <1>3, <1>4 DEF Sound
<1>. QED BY <1>3, <1>5 DEF new

LEMMA FinalTransitive ==
  ASSUME NEW a \in Seq(Transaction), NEW b \in Seq(Transaction),
         NEW c \in Seq(Transaction), FinalIn(a, b), FinalIn(b, c)
  PROVE  FinalIn(a, c)
  BY DEF FinalIn

LEMMA FinalReflexive == ASSUME NEW a PROVE FinalIn(a, a)
  BY DEF FinalIn

-----------------------------------------------------------------------------
(* The actions.                                                            *)

LEMMA InitIInv == Init => IInv
<1>. SUFFICES ASSUME Init PROVE IInv
  OBVIOUS
<1>1. transactions \in Seq(Transaction) /\ Len(transactions) = 0
  BY DEF Init
<1>2. calls \in Seq(StorageType) /\ Len(calls) = 0
  BY DEF Init
<1>3. Sound(transactions, isConfirmed)
  BY <1>1, BoundsAssumption, OwnersAssumption DEF Init, Sound, By
<1>. QED BY <1>2, <1>3 DEF IInv, Chained, Init

(* A step that leaves the calls in progress alone.                         *)
LEMMA StorageMove ==
  ASSUME IInv, UNCHANGED calls, FinalIn(transactions, transactions'),
         Sound(transactions', isConfirmed'), ether' \in Nat, received' \in Nat
  PROVE  IInv' /\ FinalIn(Committed, Committed')
<1>1. transactions \in Seq(Transaction) /\ transactions' \in Seq(Transaction)
  BY DEF IInv, Sound
<1>2. \A i \in 1 .. Len(calls) : calls[i].transactions \in Seq(Transaction)
  BY DEF IInv, Sound
<1>3. Chained'
  <2>. SUFFICES ASSUME NEW i \in 1 .. Len(calls)
               PROVE  FinalIn(calls[i].transactions, transactions')
    BY DEF IInv, Chained
  <2>1. FinalIn(calls[i].transactions, transactions)
    BY DEF IInv, Chained
  <2>. QED BY <1>1, <1>2, <2>1, FinalTransitive
<1>4. IInv'
  BY <1>3 DEF IInv
<1>5. FinalIn(Committed, Committed')
  BY FinalReflexive DEF Committed
<1>. QED BY <1>4, <1>5

LEMMA SubmitStep ==
  ASSUME IInv, NEW u \in Accounts, NEW value \in Values, submit(u, value)
  PROVE  IInv' /\ FinalIn(Committed, Committed')
<1>1. Sound(transactions', isConfirmed') /\ FinalIn(transactions, transactions')
  BY SubmitSound DEF IInv, submit
<1>. QED BY <1>1, StorageMove DEF IInv, submit

LEMMA ConfirmStep ==
  ASSUME IInv, NEW u \in Accounts, NEW t \in TxIds, confirm(u, t)
  PROVE  IInv' /\ FinalIn(Committed, Committed')
<1>1. /\ u \in Owners /\ t \in 1 .. Len(transactions)
      /\ ~transactions[t].executed /\ ~isConfirmed[t][u]
  BY DEF confirm, onlyOwner, txExists, notExecuted, IInv, Sound
<1>2. Sound(transactions', isConfirmed') /\ FinalIn(transactions, transactions')
  BY <1>1, ConfirmSound DEF IInv, confirm
<1>. QED BY <1>2, StorageMove DEF IInv, confirm

LEMMA RevokeStep ==
  ASSUME IInv, NEW u \in Accounts, NEW t \in TxIds, revoke(u, t)
  PROVE  IInv' /\ FinalIn(Committed, Committed')
<1>1. /\ u \in Owners /\ t \in 1 .. Len(transactions)
      /\ ~transactions[t].executed /\ isConfirmed[t][u]
  BY DEF revoke, onlyOwner, txExists, notExecuted, IInv, Sound
<1>2. Sound(transactions', isConfirmed') /\ FinalIn(transactions, transactions')
  BY <1>1, RevokeSound DEF IInv, revoke
<1>. QED BY <1>2, StorageMove DEF IInv, revoke

LEMMA ReceiveStep ==
  ASSUME IInv, NEW amount \in Values \ {0}, receive(amount)
  PROVE  IInv' /\ FinalIn(Committed, Committed')
<1>1. FinalIn(transactions, transactions')
  BY FinalReflexive DEF receive
<1>2. ether' \in Nat /\ received' \in Nat
  BY BoundsAssumption DEF receive, IInv
<1>3. Sound(transactions', isConfirmed')
  BY DEF receive, IInv
<1>. QED BY <1>1, <1>2, <1>3, StorageMove DEF receive

(* The state execute saves is the one a failing call comes back to.        *)
LEMMA ExecuteStep ==
  ASSUME IInv, NEW u \in Accounts, NEW t \in TxIds, execute(u, t)
  PROVE  IInv' /\ FinalIn(Committed, Committed')
<1>1. /\ t \in 1 .. Len(transactions) /\ ~transactions[t].executed
      /\ transactions[t].numConfirmations >= required
  BY DEF execute, txExists, notExecuted, IInv, Sound
<1>2. /\ transactions' = [transactions EXCEPT ![t].executed = TRUE]
      /\ isConfirmed' = isConfirmed
  BY DEF execute, MarkExecuted
<1>3. Sound(transactions', isConfirmed') /\ FinalIn(transactions, transactions')
  BY <1>1, <1>2, ExecuteSound DEF IInv
<1>4. ether' \in Nat /\ received' \in Nat
  <2>1. transactions[t].value \in Nat
    <3>1. transactions \in Seq(Transaction)
      BY DEF IInv, Sound
    <3>2. transactions[t] \in Transaction
      BY <1>1, <3>1
    <3>. QED BY <3>2 DEF Transaction
  <2>. QED BY <2>1 DEF execute, IInv
<1>5. Storage \in StorageType /\ Storage.transactions = transactions
      /\ Storage.isConfirmed = isConfirmed
  BY DEF IInv, Sound, Storage, StorageType
<1>6. /\ calls' \in Seq(StorageType) /\ Len(calls') = Len(calls) + 1
      /\ \A i \in 1 .. Len(calls) : calls'[i] = calls[i]
      /\ calls'[Len(calls) + 1] = Storage
  <2> HIDE DEF StorageType, Storage
  <2>. QED BY <1>5 DEF execute, IInv
<1>7. Len(calls) \in Nat
  BY DEF IInv
<1>8. \A i \in 1 .. Len(calls) :
        /\ Sound(calls[i].transactions, calls[i].isConfirmed)
        /\ FinalIn(calls[i].transactions, transactions)
        /\ FinalIn(calls[i].transactions, transactions')
  <2>1. \A i \in 1 .. Len(calls) :
          /\ Sound(calls[i].transactions, calls[i].isConfirmed)
          /\ FinalIn(calls[i].transactions, transactions)
          /\ calls[i].transactions \in Seq(Transaction)
    BY DEF IInv, Chained, Sound
  <2>2. transactions \in Seq(Transaction) /\ transactions' \in Seq(Transaction)
    BY <1>3 DEF IInv, Sound
  <2>. QED BY <1>3, <2>1, <2>2, FinalTransitive
<1>9. \A i \in 1 .. Len(calls') :
        /\ Sound(calls'[i].transactions, calls'[i].isConfirmed)
        /\ FinalIn(calls'[i].transactions, transactions')
  <2>. SUFFICES ASSUME NEW i \in 1 .. Len(calls')
               PROVE  /\ Sound(calls'[i].transactions, calls'[i].isConfirmed)
                      /\ FinalIn(calls'[i].transactions, transactions')
    OBVIOUS
  <2>1. CASE i \in 1 .. Len(calls)
    BY <1>6, <1>8, <2>1
  <2>2. CASE i = Len(calls) + 1
    BY <1>3, <1>5, <1>6, <2>2 DEF IInv
  <2>. QED BY <1>6, <1>7, <2>1, <2>2
<1>10. ASSUME NEW i \in 1 .. Len(calls'), NEW j \in i .. Len(calls')
       PROVE  FinalIn(calls'[i].transactions, calls'[j].transactions)
  <2>1. CASE j \in 1 .. Len(calls)
    <3>1. i \in 1 .. Len(calls) /\ j \in i .. Len(calls)
      BY <1>6, <1>7, <2>1
    <3>. QED BY <1>6, <2>1, <3>1 DEF IInv, Chained
  <2>2. CASE j = Len(calls) + 1 /\ i \in 1 .. Len(calls)
    BY <1>5, <1>6, <1>8, <2>2
  <2>3. CASE j = Len(calls) + 1 /\ i = Len(calls) + 1
    BY <2>3, FinalReflexive
  <2>. QED BY <1>6, <1>7, <2>1, <2>2, <2>3
<1>11. IInv'
  <2>1. Chained'
    BY <1>9, <1>10 DEF Chained
  <2>. QED BY <1>3, <1>4, <1>6, <1>9, <2>1 DEF IInv
<1>12. Committed' = Committed
  <2>1. calls' # << >>
    BY <1>6, <1>7
  <2>2. CASE calls = << >>
    <3>1. Len(calls) = 0
      BY <2>2
    <3>. QED BY <1>5, <1>6, <2>1, <2>2, <3>1 DEF Committed
  <2>3. CASE calls # << >>
    <3>1. 1 \in 1 .. Len(calls)
      BY <1>7, <2>3, EmptySeq DEF IInv
    <3>. QED BY <1>6, <2>1, <2>3, <3>1 DEF Committed
  <2>. QED BY <2>2, <2>3
<1>. QED BY <1>11, <1>12, FinalReflexive

(* The call that ends is the innermost one.                                *)
LEMMA CallsShrink ==
  ASSUME IInv, calls # << >>, calls' = SubSeq(calls, 1, Len(calls) - 1)
  PROVE  /\ Len(calls) \in Nat \ {0}
         /\ calls' \in Seq(StorageType) /\ Len(calls') = Len(calls) - 1
         /\ \A i \in 1 .. Len(calls) - 1 : calls'[i] = calls[i]
         /\ calls' = << >> <=> Len(calls) = 1
<1> HIDE DEF StorageType
<1>1. calls \in Seq(StorageType) /\ Len(calls) \in Nat
  BY DEF IInv
<1>2. Len(calls) # 0
  BY <1>1, EmptySeq
<1>3. /\ calls' \in Seq(StorageType) /\ Len(calls') = Len(calls) - 1
      /\ \A i \in 1 .. Len(calls) - 1 : calls'[i] = calls[i]
  <2> DEFINE n == Len(calls) - 1
  <2>1. n \in Nat /\ 1 \in Int /\ n \in Int
    BY <1>1, <1>2
  <2>2. \A i \in 1 .. n : calls[i] \in StorageType
    BY <1>1
  <2>3. /\ SubSeq(calls, 1, n) \in Seq(StorageType)
        /\ Len(SubSeq(calls, 1, n)) = IF 1 <= n THEN n - 1 + 1 ELSE 0
        /\ \A i \in 1 .. n - 1 + 1 : SubSeq(calls, 1, n)[i] = calls[1 + i - 1]
    <3> HIDE DEF n
    <3>. QED BY <2>1, <2>2, SubSeqProperties
  <2>4. calls' = SubSeq(calls, 1, n)
    OBVIOUS
  <2> HIDE DEF n
  <2>5. calls' \in Seq(StorageType) /\ Len(calls') = n
    BY <2>1, <2>3, <2>4
  <2>6. \A i \in 1 .. n : calls'[i] = calls[i]
    BY <2>1, <2>3, <2>4
  <2>. QED BY <2>5, <2>6 DEF n
<1>4. calls' = << >> <=> Len(calls') = 0
  BY <1>3, EmptySeq
<1>5. Len(calls') = 0 <=> Len(calls) = 1
  BY <1>1, <1>3
<1>. QED BY <1>1, <1>2, <1>3, <1>4, <1>5

LEMMA ReturnStep ==
  ASSUME IInv, Return
  PROVE  IInv' /\ FinalIn(Committed, Committed')
<1>1. /\ Len(calls) \in Nat \ {0}
      /\ calls' \in Seq(StorageType) /\ Len(calls') = Len(calls) - 1
      /\ \A i \in 1 .. Len(calls) - 1 : calls'[i] = calls[i]
      /\ calls' = << >> <=> Len(calls) = 1
  BY CallsShrink DEF Return
<1>2. Chained'
  BY <1>1 DEF IInv, Chained, Return
<1>3. IInv'
  BY <1>1, <1>2 DEF IInv, Return
<1>4. CASE Len(calls) = 1
  <2>1. FinalIn(calls[1].transactions, transactions)
    BY <1>4 DEF IInv, Chained
  <2>. QED BY <1>1, <1>3, <1>4, <2>1 DEF Committed, Return
<1>5. CASE Len(calls) # 1
  <2>1. Committed' = Committed
    BY <1>1, <1>5 DEF Committed, Return
  <2>. QED BY <1>3, <2>1, FinalReflexive
<1>. QED BY <1>4, <1>5

LEMMA FailStep ==
  ASSUME IInv, Fail
  PROVE  IInv' /\ FinalIn(Committed, Committed')
<1>1. /\ Len(calls) \in Nat \ {0}
      /\ calls' \in Seq(StorageType) /\ Len(calls') = Len(calls) - 1
      /\ \A i \in 1 .. Len(calls) - 1 : calls'[i] = calls[i]
      /\ calls' = << >> <=> Len(calls) = 1
  BY CallsShrink DEF Fail
<1>2. /\ transactions' = calls[Len(calls)].transactions
      /\ isConfirmed' = calls[Len(calls)].isConfirmed
      /\ ether' = calls[Len(calls)].ether
      /\ received' = calls[Len(calls)].received
  BY DEF Fail
<1>3. Chained'
  <2>. SUFFICES ASSUME NEW i \in 1 .. Len(calls')
                PROVE  /\ FinalIn(calls'[i].transactions, transactions')
                       /\ \A j \in i .. Len(calls') :
                            FinalIn(calls'[i].transactions, calls'[j].transactions)
    BY DEF Chained
  <2>1. i \in 1 .. Len(calls) - 1 /\ i \in 1 .. Len(calls)
        /\ Len(calls) \in i .. Len(calls) /\ calls'[i] = calls[i]
    BY <1>1
  <2>2. \A j \in i .. Len(calls) : FinalIn(calls[i].transactions, calls[j].transactions)
    BY <2>1 DEF IInv, Chained
  <2>3. FinalIn(calls'[i].transactions, transactions')
    BY <1>2, <2>1, <2>2
  <2>4. ASSUME NEW j \in i .. Len(calls')
        PROVE  FinalIn(calls'[i].transactions, calls'[j].transactions)
    <3>1. j \in 1 .. Len(calls) - 1 /\ j \in i .. Len(calls)
      BY <1>1, <2>1
    <3>. QED BY <1>1, <2>1, <2>2, <3>1
  <2>. QED BY <2>3, <2>4
<1>4. ether' \in Nat /\ received' \in Nat
  <2>1. calls[Len(calls)] \in StorageType
    BY <1>1 DEF IInv
  <2>. QED BY <1>2, <2>1 DEF StorageType
<1>5. IInv'
  BY <1>1, <1>2, <1>3, <1>4 DEF IInv
<1>6. CASE Len(calls) = 1
  <2>1. Committed = transactions' /\ Committed' = transactions'
    BY <1>1, <1>2, <1>6 DEF Committed, Fail
  <2>. QED BY <1>5, <2>1, FinalReflexive
<1>7. CASE Len(calls) # 1
  <2>1. Committed' = Committed
    BY <1>1, <1>7 DEF Committed, Fail
  <2>. QED BY <1>5, <2>1, FinalReflexive
<1>. QED BY <1>6, <1>7

LEMMA EveryStep ==
  ASSUME IInv, [Next]_vars
  PROVE  IInv' /\ FinalIn(Committed, Committed')
<1>1. CASE UNCHANGED vars
  <2>1. UNCHANGED <<transactions, isConfirmed, ether, calls, received>>
    BY <1>1 DEF vars
  <2>2. IInv'
    BY <2>1 DEF IInv, Chained
  <2>. QED BY <2>1, <2>2, FinalReflexive DEF Committed
<1>2. CASE Next
  BY <1>2, SubmitStep, ConfirmStep, RevokeStep, ExecuteStep, ReturnStep,
     FailStep, ReceiveStep DEF Next
<1>. QED BY <1>1, <1>2

-----------------------------------------------------------------------------
(* The theorems.                                                           *)

LEMMA Invariance == Spec => []IInv
<1>1. IInv /\ [Next]_vars => IInv'
  BY EveryStep
<1>. QED BY <1>1, InitIInv, PTL DEF Spec

(* submit, confirm, revoke and execute keep the types of the storage, the  *)
(* saved ones included: no confirmation count and no balance goes below 0. *)
THEOREM WalletTypeCorrect == Spec => []TypeOK
<1>1. IInv => TypeOK
  BY DEF IInv, Sound, TypeOK
<1>. QED BY <1>1, Invariance, PTL

(* numConfirmations is always the number of owners recorded as confirming, *)
(* through any nesting of execute and any revert.                          *)
THEOREM CountersAgree == Spec => []ConfirmationsCounted
<1>1. IInv => ConfirmationsCounted
  <2>. SUFFICES ASSUME IInv PROVE ConfirmationsCounted
    OBVIOUS
  <2>1. DOMAIN transactions = 1 .. Len(transactions)
    BY DEF IInv, Sound
  <2>. QED BY <2>1 DEF IInv, Sound, ConfirmationsCounted, Confirmers, By
<1>. QED BY <1>1, Invariance, PTL

(* No execution without a quorum, and none that loses it later.            *)
THEOREM QuorumOnExecution == Spec => []ExecutedByQuorum
<1>1. IInv => ExecutedByQuorum
  BY OwnersAssumption DEF IInv, Sound, ExecutedByQuorum, Confirmers, By
<1>. QED BY <1>1, Invariance, PTL

(* An executed transaction is never executed again, changed or dropped     *)
(* once the outermost call is over.                                        *)
THEOREM ExecutionsAreFinal == Spec => ExecutedIsFinal
<1>1. IInv /\ [Next]_vars => [FinalIn(Committed, Committed')]_vars
  BY EveryStep
<1>. QED BY <1>1, Invariance, PTL DEF Spec, ExecutedIsFinal

-----------------------------------------------------------------------------
(* What is paid.  Paid adds the executed values up from the first          *)
(* transaction on: totals[n] is the sum of the first n.                    *)

ValuePaid(txs, n) == IF txs[n].executed THEN txs[n].value ELSE 0

Totals(txs, g) ==
  /\ g \in [0 .. Len(txs) -> Nat]
  /\ g[0] = 0
  /\ \A n \in 1 .. Len(txs) : g[n] = g[n - 1] + ValuePaid(txs, n)

PaidUpTo(txs, g, n) == IF n = 0 THEN 0 ELSE g[n - 1] + ValuePaid(txs, n)

LEMMA ValuePaidType ==
  ASSUME NEW txs \in Seq(Transaction), NEW n \in 1 .. Len(txs)
  PROVE  ValuePaid(txs, n) \in Nat
<1>1. txs[n] \in Transaction
  OBVIOUS
<1>. QED BY <1>1 DEF ValuePaid, Transaction

LEMMA TotalsExist ==
  ASSUME NEW txs, NEW len \in Nat
  PROVE  \E g : g = [n \in 0 .. len |-> PaidUpTo(txs, g, n)]
<1> DEFINE Defined(k) == \E g : g = [n \in 0 .. k |-> PaidUpTo(txs, g, n)]
           B == {k \in Nat : Defined(k)}
<1>1. 0 \in B
  <2> DEFINE g == [n \in 0 .. 0 |-> 0]
  <2>1. g = [n \in 0 .. 0 |-> PaidUpTo(txs, g, n)]
    BY DEF PaidUpTo
  <2>2. Defined(0)
    BY <2>1
  <2>. QED BY <2>2
<1>2. ASSUME NEW k \in B PROVE k + 1 \in B
  <2>1. k \in Nat /\ Defined(k)
    OBVIOUS
  <2>2. PICK g : g = [n \in 0 .. k |-> PaidUpTo(txs, g, n)]
    BY <2>1
  <2> DEFINE h == [n \in 0 .. k + 1 |-> IF n \in 0 .. k THEN g[n]
                                        ELSE PaidUpTo(txs, g, n)]
  <2>3. ASSUME NEW n \in 0 .. k + 1
        PROVE  h[n] = PaidUpTo(txs, h, n)
    <3>1. n # 0 => n - 1 \in 0 .. k /\ n - 1 \in 0 .. k + 1
      BY <2>1
    <3>2. n # 0 => h[n - 1] = g[n - 1]
      BY <3>1
    <3>3. PaidUpTo(txs, h, n) = PaidUpTo(txs, g, n)
      <4> HIDE DEF h
      <4>. QED BY <3>2 DEF PaidUpTo
    <3>4. n \in 0 .. k => g[n] = PaidUpTo(txs, g, n)
      BY <2>2
    <3>. QED BY <3>3, <3>4
  <2>4. h = [n \in 0 .. k + 1 |-> PaidUpTo(txs, h, n)]
    BY <2>3
  <2>5. Defined(k + 1)
    <3> HIDE DEF h
    <3>. QED BY <2>4
  <2>. QED BY <2>1, <2>5
<1>3. B = Nat
  <2> HIDE DEF Defined
  <2>. QED BY <1>1, <1>2, EveryNat
<1>. QED BY <1>3

LEMMA PaidIsTotal ==
  ASSUME NEW txs \in Seq(Transaction)
  PROVE  \E g : Totals(txs, g) /\ Paid(txs) = g[Len(txs)]
<1> DEFINE len == Len(txs)
           g == CHOOSE h : h = [n \in 0 .. len |-> PaidUpTo(txs, h, n)]
<1>1. len \in Nat
  OBVIOUS
<1>2. Paid(txs) = g[len]
  BY DEF Paid, PaidUpTo, ValuePaid
<1>3. g = [n \in 0 .. len |-> PaidUpTo(txs, g, n)]
  <2>1. \E h : h = [n \in 0 .. len |-> PaidUpTo(txs, h, n)]
    BY <1>1, TotalsExist
  <2>. QED BY <2>1
<1> HIDE DEF g
<1>4. g[0] = 0 /\ \A n \in 1 .. len : g[n] = g[n - 1] + ValuePaid(txs, n)
  BY <1>1, <1>3 DEF PaidUpTo
<1>5. \A n \in 0 .. len : g[n] \in Nat
  <2> DEFINE B == {n \in Nat : n <= len => g[n] \in Nat}
  <2>1. 0 \in B
    BY <1>4
  <2>2. ASSUME NEW n \in B PROVE n + 1 \in B
    <3>. SUFFICES ASSUME n + 1 <= len PROVE g[n + 1] \in Nat
      OBVIOUS
    <3>1. n + 1 \in 1 .. len /\ n + 1 - 1 = n /\ g[n] \in Nat
      BY <1>1
    <3>2. ValuePaid(txs, n + 1) \in Nat
      BY <3>1, ValuePaidType
    <3>3. g[n + 1] = g[n] + ValuePaid(txs, n + 1)
      BY <1>4, <3>1
    <3>. QED BY <3>1, <3>2, <3>3
  <2>3. B = Nat
    <3> HIDE DEF B
    <3>1. B \in SUBSET Nat
      BY DEF B
    <3>. QED BY <2>1, <2>2, <3>1, EveryNat
  <2>. QED BY <1>1, <2>3
<1>. QED BY <1>2, <1>3, <1>4, <1>5 DEF Totals

PaidMoreAt(a, b, t, x, k) ==
  \A n \in 1 .. k : ValuePaid(b, n) = ValuePaid(a, n) + IF n = t THEN x ELSE 0

(* Two arrays whose payments differ by x at t only have totals that differ *)
(* by x from t on.                                                         *)
LEMMA TotalsCompared ==
  ASSUME NEW a \in Seq(Transaction), NEW b \in Seq(Transaction),
         NEW g, NEW h, Totals(a, g), Totals(b, h),
         NEW t \in Nat \ {0}, NEW x \in Int, NEW k \in Nat, k <= Len(a), k <= Len(b),
         PaidMoreAt(a, b, t, x, k)
  PROVE  h[k] = g[k] + IF t <= k THEN x ELSE 0
<1> DEFINE Off(n) == IF t <= n THEN x ELSE 0
           B == {n \in Nat : n <= k => h[n] = g[n] + Off(n)}
<1>1. 0 \in B
  BY DEF Totals
<1>2. ASSUME NEW n \in B PROVE n + 1 \in B
  <2>. SUFFICES ASSUME n + 1 <= k PROVE h[n + 1] = g[n + 1] + Off(n + 1)
    OBVIOUS
  <2> DEFINE m == n + 1
  <2>1. /\ m \in 1 .. k /\ m \in 1 .. Len(a) /\ m \in 1 .. Len(b) /\ m - 1 = n
        /\ n \in 0 .. Len(a) /\ n \in 0 .. Len(b)
    OBVIOUS
  <2>2. h[n] = g[n] + Off(n)
    OBVIOUS
  <2>3. g[m] = g[n] + ValuePaid(a, m) /\ h[m] = h[n] + ValuePaid(b, m)
    BY <2>1 DEF Totals
  <2>4. ValuePaid(a, m) \in Nat /\ ValuePaid(b, m) \in Nat
    BY <2>1, ValuePaidType
  <2>5. g[n] \in Nat /\ h[n] \in Nat
    BY <2>1 DEF Totals
  <2>6. ValuePaid(b, m) = ValuePaid(a, m) + IF m = t THEN x ELSE 0
    BY <2>1 DEF PaidMoreAt
  <2>7. Off(m) = Off(n) + (IF m = t THEN x ELSE 0) /\ Off(n) \in Int
    OBVIOUS
  <2> DEFINE more == IF m = t THEN x ELSE 0
  <2>8. more \in Int /\ ValuePaid(b, m) = ValuePaid(a, m) + more /\ Off(m) = Off(n) + more
    BY <2>6, <2>7
  <2> HIDE DEF m, Off, more
  <2>9. h[m] = g[m] + Off(m)
    BY <2>2, <2>3, <2>4, <2>5, <2>7, <2>8
  <2>. QED BY <2>9 DEF m
<1>3. B = Nat
  <2> HIDE DEF B
  <2>1. B \in SUBSET Nat
    BY DEF B
  <2>. QED BY <1>1, <1>2, <2>1, EveryNat
<1>. QED BY <1>3

LEMMA PaidType ==
  ASSUME NEW txs \in Seq(Transaction)
  PROVE  Paid(txs) \in Nat
<1>1. PICK g : Totals(txs, g) /\ Paid(txs) = g[Len(txs)]
  BY PaidIsTotal
<1>. QED BY <1>1 DEF Totals

LEMMA PaidChanged ==
  ASSUME NEW a \in Seq(Transaction), NEW b \in Seq(Transaction), Len(b) = Len(a),
         NEW t \in 1 .. Len(a), NEW x \in Int, PaidMoreAt(a, b, t, x, Len(a))
  PROVE  Paid(b) = Paid(a) + x
<1>1. PICK g : Totals(a, g) /\ Paid(a) = g[Len(a)]
  BY PaidIsTotal
<1>2. PICK h : Totals(b, h) /\ Paid(b) = h[Len(b)]
  BY PaidIsTotal
<1>3. h[Len(a)] = g[Len(a)] + IF t <= Len(a) THEN x ELSE 0
  <2> DEFINE k == Len(a)
  <2>1. k \in Nat /\ k <= Len(a) /\ k <= Len(b) /\ t \in Nat \ {0}
    OBVIOUS
  <2>2. PaidMoreAt(a, b, t, x, k)
    OBVIOUS
  <2> HIDE DEF k
  <2>3. h[k] = g[k] + IF t <= k THEN x ELSE 0
    BY <1>1, <1>2, <2>1, <2>2, TotalsCompared
  <2>. QED BY <2>3 DEF k
<1>. QED BY <1>1, <1>2, <1>3

LEMMA PaidAppended ==
  ASSUME NEW txs \in Seq(Transaction), NEW tx \in Transaction, ~tx.executed
  PROVE  Paid(Append(txs, tx)) = Paid(txs)
<1> DEFINE b == Append(txs, tx)
           k == Len(txs)
<1>1. /\ b \in Seq(Transaction) /\ k \in Nat /\ Len(b) = k + 1
      /\ b[k + 1] = tx /\ \A n \in 1 .. k : b[n] = txs[n]
  OBVIOUS
<1> HIDE DEF b
<1>2. PICK g : Totals(txs, g) /\ Paid(txs) = g[k]
  BY PaidIsTotal
<1>3. PICK h : Totals(b, h) /\ Paid(b) = h[k + 1]
  BY <1>1, PaidIsTotal
<1>4. h[k] = g[k] + IF k + 1 <= k THEN 0 ELSE 0
  <2>1. k <= Len(txs) /\ k <= Len(b) /\ k + 1 \in Nat \ {0}
    BY <1>1
  <2>2. PaidMoreAt(txs, b, k + 1, 0, k)
    <3>. SUFFICES ASSUME NEW n \in 1 .. k
                 PROVE  ValuePaid(b, n) = ValuePaid(txs, n) /\ ValuePaid(txs, n) \in Nat
      BY DEF PaidMoreAt
    <3>1. ValuePaid(txs, n) \in Nat
      BY ValuePaidType
    <3>. QED BY <1>1, <3>1 DEF ValuePaid
  <2> HIDE DEF k
  <2> DEFINE t == k + 1
             x == 0
  <2>4. t \in Nat \ {0} /\ x \in Int /\ PaidMoreAt(txs, b, t, x, k)
    BY <2>1, <2>2
  <2> HIDE DEF t, x
  <2>5. h[k] = g[k] + IF t <= k THEN x ELSE 0
    BY <1>1, <1>2, <1>3, <2>1, <2>4, TotalsCompared
  <2>. QED BY <2>5 DEF t, x
<1>5. h[k + 1] = h[k] + ValuePaid(b, k + 1)
  <2>1. k + 1 \in 1 .. Len(b) /\ (k + 1) - 1 = k
    BY <1>1
  <2>. QED BY <1>3, <2>1 DEF Totals
<1>6. ValuePaid(b, k + 1) = 0
  BY <1>1 DEF ValuePaid
<1>7. g[k] \in Nat
  BY <1>1, <1>2 DEF Totals
<1>. QED BY <1>2, <1>3, <1>4, <1>5, <1>6, <1>7 DEF b

(* Confirming or revoking pays nothing; marking executed pays the value.   *)
LEMMA PaidUpdated ==
  ASSUME NEW txs \in Seq(Transaction), NEW t \in 1 .. Len(txs),
         NEW tx \in Transaction, tx.value = txs[t].value, ~txs[t].executed
  PROVE  Paid([txs EXCEPT ![t] = tx])
           = Paid(txs) + IF tx.executed THEN txs[t].value ELSE 0
<1> DEFINE b == [txs EXCEPT ![t] = tx]
           x == IF tx.executed THEN txs[t].value ELSE 0
<1>1. /\ b \in Seq(Transaction) /\ Len(b) = Len(txs)
      /\ \A n \in 1 .. Len(txs) : b[n] = IF n = t THEN tx ELSE txs[n]
  BY ExceptSeq
<1>2. txs[t] \in Transaction
  OBVIOUS
<1>3. x \in Int
  BY <1>2 DEF Transaction
<1> HIDE DEF b
<1>4. PaidMoreAt(txs, b, t, x, Len(txs))
  <2>. SUFFICES ASSUME NEW n \in 1 .. Len(txs)
               PROVE  ValuePaid(b, n) = ValuePaid(txs, n) + IF n = t THEN x ELSE 0
    BY DEF PaidMoreAt
  <2>1. CASE n = t
    BY <1>1, <1>3, <2>1 DEF ValuePaid
  <2>2. CASE n # t
    <3>1. ValuePaid(txs, n) \in Nat
      BY ValuePaidType
    <3>. QED BY <1>1, <2>2, <3>1 DEF ValuePaid
  <2>. QED BY <2>1, <2>2
<1> HIDE DEF x
<1>5. Paid(b) = Paid(txs) + x
  BY <1>1, <1>3, <1>4, PaidChanged
<1>. QED BY <1>5 DEF b, x

(* The balance, and every balance a failing call would bring back, is what *)
(* was received by then less what was paid by then.                        *)
PaidInv ==
  /\ PaidOnce
  /\ \A i \in 1 .. Len(calls) :
       calls[i].ether + Paid(calls[i].transactions) = calls[i].received

LEMMA InitPaid == Init => PaidInv
<1>. SUFFICES ASSUME Init PROVE PaidInv
  OBVIOUS
<1>1. transactions \in Seq(Transaction) /\ Len(transactions) = 0
  BY DEF Init
<1>2. PICK g : Totals(transactions, g) /\ Paid(transactions) = g[0]
  BY <1>1, PaidIsTotal
<1>3. Paid(transactions) = 0
  BY <1>2 DEF Totals
<1>. QED BY <1>3 DEF Init, PaidInv, PaidOnce

LEMMA PaidStep == IInv /\ PaidInv /\ [Next]_vars => PaidInv'
<1>. SUFFICES ASSUME IInv, PaidInv, [Next]_vars PROVE PaidInv'
  OBVIOUS
<1>0. /\ transactions \in Seq(Transaction) /\ ether \in Nat /\ received \in Nat
      /\ ether + Paid(transactions) = received /\ Paid(transactions) \in Nat
  BY PaidType DEF IInv, Sound, PaidInv, PaidOnce
<1>1. ASSUME NEW u \in Accounts, NEW value \in Values, submit(u, value)
      PROVE  PaidInv'
  <2> DEFINE tx == [executed |-> FALSE, value |-> value, numConfirmations |-> 0]
  <2>1. tx \in Transaction /\ ~tx.executed
    BY BoundsAssumption DEF Transaction
  <2>2. transactions' = Append(transactions, tx) /\ UNCHANGED <<ether, calls, received>>
    BY <1>1 DEF submit
  <2> HIDE DEF tx
  <2>3. Paid(transactions') = Paid(transactions)
    BY <1>0, <2>1, <2>2, PaidAppended
  <2>. QED BY <2>2, <2>3 DEF PaidInv, PaidOnce
<1>2. ASSUME NEW u \in Accounts, NEW t \in TxIds, confirm(u, t) \/ revoke(u, t)
      PROVE  PaidInv'
  <2>1. t \in 1 .. Len(transactions) /\ ~transactions[t].executed
    BY <1>0, <1>2 DEF confirm, revoke, txExists, notExecuted
  <2>2. IInv'
    BY <1>2, ConfirmStep, RevokeStep
  <2>3. transactions' \in Seq(Transaction) /\ Len(transactions') = Len(transactions)
    BY <1>0, <1>2, <2>2 DEF confirm, revoke, IInv, Sound
  <2>4. \E n \in Int : transactions' = [transactions EXCEPT ![t].numConfirmations = n]
    <3>1. transactions[t] \in Transaction
      BY <1>0, <2>1
    <3>2. transactions[t].numConfirmations + 1 \in Int
          /\ transactions[t].numConfirmations - 1 \in Int
      BY <3>1 DEF Transaction
    <3>. QED BY <1>2, <3>2 DEF confirm, revoke
  <2>5. PICK n \in Int : transactions' = [transactions EXCEPT ![t].numConfirmations = n]
    BY <2>4
  <2> DEFINE tx == [transactions[t] EXCEPT !.numConfirmations = n]
  <2>6. transactions[t] \in Transaction /\ transactions' = [transactions EXCEPT ![t] = tx]
    BY <1>0, <2>1, <2>5
  <2>7. /\ tx.value = transactions[t].value
        /\ tx.executed = transactions[t].executed
    BY <2>6 DEF Transaction
  <2>8. tx \in Transaction
    <3>1. transactions'[t] = tx /\ transactions'[t] \in Transaction
      BY <1>0, <2>1, <2>3, <2>6
    <3>. QED BY <3>1
  <2> HIDE DEF tx
  <2>9. Paid(transactions')
          = Paid(transactions) + IF tx.executed THEN transactions[t].value ELSE 0
    BY <1>0, <2>1, <2>6, <2>7, <2>8, PaidUpdated
  <2>10. Paid(transactions') = Paid(transactions)
    BY <1>0, <2>1, <2>7, <2>9
  <2>11. UNCHANGED <<ether, calls, received>>
    BY <1>2 DEF confirm, revoke
  <2>. QED BY <2>10, <2>11 DEF PaidInv, PaidOnce
<1>3. ASSUME NEW u \in Accounts, NEW t \in TxIds, execute(u, t)
      PROVE  PaidInv'
  <2>1. t \in 1 .. Len(transactions) /\ ~transactions[t].executed
    BY <1>0, <1>3 DEF execute, txExists, notExecuted
  <2> DEFINE tx == [transactions[t] EXCEPT !.executed = TRUE]
  <2>2. transactions[t] \in Transaction /\ transactions' = [transactions EXCEPT ![t] = tx]
    BY <1>0, <1>3, <2>1 DEF execute, MarkExecuted
  <2>3. /\ tx.value = transactions[t].value /\ tx.executed /\ tx \in Transaction
        /\ transactions[t].value \in Nat
    BY <2>2 DEF Transaction
  <2> HIDE DEF tx
  <2>4. Paid(transactions') = Paid(transactions) + transactions[t].value
    BY <1>0, <2>1, <2>2, <2>3, PaidUpdated
  <2>5. /\ ether' = ether - transactions[t].value /\ received' = received
        /\ calls' = Append(calls, Storage)
    BY <1>3 DEF execute
  <2>6. ether' + Paid(transactions') = received'
    BY <1>0, <2>3, <2>4, <2>5
  <2>7. \A i \in 1 .. Len(calls') :
          calls'[i].ether + Paid(calls'[i].transactions) = calls'[i].received
    <3>1. /\ Storage \in StorageType /\ Storage.transactions = transactions
          /\ Storage.ether = ether /\ Storage.received = received
      BY DEF IInv, Sound, Storage, StorageType
    <3>2. /\ Len(calls') = Len(calls) + 1 /\ Len(calls) \in Nat
          /\ \A i \in 1 .. Len(calls) : calls'[i] = calls[i]
          /\ calls'[Len(calls) + 1] = Storage
      <4> HIDE DEF StorageType, Storage
      <4>. QED BY <2>5, <3>1 DEF IInv
    <3>. SUFFICES ASSUME NEW i \in 1 .. Len(calls')
                 PROVE  calls'[i].ether + Paid(calls'[i].transactions) = calls'[i].received
      OBVIOUS
    <3>3. CASE i \in 1 .. Len(calls)
      BY <3>2, <3>3 DEF PaidInv
    <3>4. CASE i = Len(calls) + 1
      BY <1>0, <3>1, <3>2, <3>4
    <3>. QED BY <3>2, <3>3, <3>4
  <2>. QED BY <2>6, <2>7 DEF PaidInv, PaidOnce
<1>4. CASE Return
  BY <1>4, CallsShrink DEF Return, PaidInv, PaidOnce
<1>5. CASE Fail
  BY <1>5, CallsShrink DEF Fail, PaidInv, PaidOnce
<1>6. ASSUME NEW amount \in Values \ {0}, receive(amount)
      PROVE  PaidInv'
  <2>1. amount \in Nat
    BY BoundsAssumption
  <2>. QED BY <1>0, <1>6, <2>1 DEF receive, PaidInv, PaidOnce
<1>7. CASE UNCHANGED vars
  BY <1>7 DEF vars, PaidInv, PaidOnce
<1>. QED BY <1>1, <1>2, <1>3, <1>4, <1>5, <1>6, <1>7 DEF Next

(* The wallet's ether is always what it was sent less the values of the    *)
(* executed transactions: no re-entrant call, failure or revert pays a     *)
(* transaction twice or takes a payment back that stays recorded.          *)
THEOREM EtherIsPaidOnce == Spec => []PaidOnce
<1>1. PaidInv => PaidOnce
  BY DEF PaidInv
<1>. QED BY <1>1, InitPaid, PaidStep, Invariance, PTL DEF Spec
=============================================================================
