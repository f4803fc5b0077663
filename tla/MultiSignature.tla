--------------------------- MODULE MultiSignature ---------------------------
(***************************************************************************)
(* The wallet of MultiSignature.sol: owners submit transactions, confirm   *)
(* or revoke them, and any owner executes one that has enough              *)
(* confirmations.  execute calls the transaction's target, a contract that *)
(* may call the wallet back before it returns, and that may fail: then     *)
(* execute reverts, and everything done since it began is undone.  calls   *)
(* is the stack of executions in progress, each with the state to restore. *)
(*                                                                         *)
(* A transaction is reduced to its value: the target and the data only     *)
(* matter by what the callee does, which is left open.                     *)
(***************************************************************************)
EXTENDS Integers, Sequences, FiniteSets

CONSTANTS
  Accounts,        \* the addresses that call the wallet
  Owners,          \* those for which isOwner is true
  ContractOwners,  \* the owners that are contracts: a callee may be one
  required,        \* the confirmations an execution needs
  Values,          \* bound: the ether a transaction may send
  MaxTransactions, \* bound: transactions submitted
  MaxReceived,     \* bound: ether the wallet is sent
  MaxDepth         \* bound: executions nested in one another

ASSUME OwnersAssumption ==
  /\ Owners \subseteq Accounts /\ ContractOwners \subseteq Owners
  /\ IsFiniteSet(Owners)
  /\ required \in 1 .. Cardinality(Owners)

ASSUME BoundsAssumption ==
  /\ Values \subseteq Nat
  /\ MaxTransactions \in Nat /\ MaxReceived \in Nat /\ MaxDepth \in Nat

VARIABLES
  transactions,  \* the array; ids count from 1 here, from 0 in the contract
  isConfirmed,   \* transaction id -> account -> whether it has confirmed
  ether,         \* the wallet's balance
  calls,         \* the executions whose call has not returned yet
  received       \* history: the ether the wallet was ever sent

vars == <<transactions, isConfirmed, ether, calls, received>>

Transaction == [executed: BOOLEAN, value: Nat, numConfirmations: Nat]

TxIds == 1 .. MaxTransactions

(* What a revert restores.                                                 *)
Storage == [transactions |-> transactions, isConfirmed |-> isConfirmed,
            ether |-> ether, received |-> received]

Init ==
  /\ transactions = << >>
  /\ isConfirmed = [t \in TxIds |-> [u \in Accounts |-> FALSE]]
  /\ ether = 0
  /\ calls = << >>
  /\ received = 0

-----------------------------------------------------------------------------
(* While a call is in progress only contracts can act.                     *)
MayAct(u) == calls = << >> \/ u \in ContractOwners

onlyOwner_Anyone(u) == TRUE
onlyOwner(u) == u \in Owners
txExists(t) == t \in DOMAIN transactions
notExecuted_Ignored(t) == TRUE
notExecuted(t) == ~transactions[t].executed

submit(u, value) ==
  /\ MayAct(u) /\ onlyOwner(u)
  /\ Len(transactions) < MaxTransactions
  /\ transactions' = Append(transactions, [executed |-> FALSE, value |-> value,
                                          numConfirmations |-> 0])
  /\ UNCHANGED <<isConfirmed, ether, calls, received>>

confirm(u, t) ==
  /\ MayAct(u) /\ onlyOwner(u)
  /\ txExists(t) /\ notExecuted(t)
  /\ ~isConfirmed[t][u]
  /\ isConfirmed' = [isConfirmed EXCEPT ![t][u] = TRUE]
  /\ transactions' = [transactions EXCEPT ![t].numConfirmations = @ + 1]
  /\ UNCHANGED <<ether, calls, received>>

revoke_Unchecked(u, t) ==
  /\ MayAct(u) /\ onlyOwner(u)
  /\ txExists(t) /\ notExecuted(t)
  /\ isConfirmed' = [isConfirmed EXCEPT ![t][u] = FALSE]
  /\ transactions' = [transactions EXCEPT ![t].numConfirmations = @ - 1]
  /\ UNCHANGED <<ether, calls, received>>
revoke(u, t) ==
  /\ MayAct(u) /\ onlyOwner(u)
  /\ txExists(t) /\ notExecuted(t)
  /\ isConfirmed[t][u]
  /\ isConfirmed' = [isConfirmed EXCEPT ![t][u] = FALSE]
  /\ transactions' = [transactions EXCEPT ![t].numConfirmations = @ - 1]
  /\ UNCHANGED <<ether, calls, received>>

MarkExecuted_Never(t) == transactions
MarkExecuted(t) == [transactions EXCEPT ![t].executed = TRUE]

(* execute up to its call, which moves the value; a value the wallet does  *)
(* not have makes the call fail at once.                                   *)
execute(u, t) ==
  /\ MayAct(u) /\ onlyOwner(u)
  /\ txExists(t) /\ notExecuted(t)
  /\ transactions[t].numConfirmations >= required
  /\ transactions[t].value <= ether
  /\ Len(calls) < MaxDepth
  /\ calls' = Append(calls, Storage)
  /\ transactions' = MarkExecuted(t)
  /\ ether' = ether - transactions[t].value
  /\ UNCHANGED <<isConfirmed, received>>

Return ==
  /\ calls # << >>
  /\ calls' = SubSeq(calls, 1, Len(calls) - 1)
  /\ UNCHANGED <<transactions, isConfirmed, ether, received>>

(* require(success): the state from before execute is restored.            *)
Fail ==
  LET saved == calls[Len(calls)] IN
  /\ calls # << >>
  /\ calls' = SubSeq(calls, 1, Len(calls) - 1)
  /\ transactions' = saved.transactions
  /\ isConfirmed' = saved.isConfirmed
  /\ ether' = saved.ether
  /\ received' = saved.received

(* receive(), open to everyone, a callee included.                         *)
receive(amount) ==
  /\ received + amount <= MaxReceived
  /\ received' = received + amount
  /\ ether' = ether + amount
  /\ UNCHANGED <<transactions, isConfirmed, calls>>

Next ==
  \/ \E u \in Accounts, value \in Values : submit(u, value)
  \/ \E u \in Accounts, t \in TxIds :
       confirm(u, t) \/ revoke(u, t) \/ execute(u, t)
  \/ Return
  \/ Fail
  \/ \E amount \in Values \ {0} : receive(amount)

Spec == Init /\ [][Next]_vars

-----------------------------------------------------------------------------
(* Properties.                                                             *)

StorageType ==
  [transactions: Seq(Transaction), isConfirmed: [TxIds -> [Accounts -> BOOLEAN]],
   ether: Nat, received: Nat]

(* The type of every variable.                                             *)
TypeOK ==
  /\ transactions \in Seq(Transaction)
  /\ isConfirmed \in [TxIds -> [Accounts -> BOOLEAN]]
  /\ ether \in Nat
  /\ calls \in Seq(StorageType)
  /\ received \in Nat

Confirmers(t) == {o \in Owners : isConfirmed[t][o]}

(* The counter and the mapping agree: confirmations and revocations by     *)
(* several owners, nested in calls or undone by reverts, never drift apart.*)
ConfirmationsCounted ==
  \A t \in DOMAIN transactions :
    transactions[t].numConfirmations = Cardinality(Confirmers(t))

(* A transaction that has been executed carries the confirmations of at    *)
(* least `required' owners, and keeps them.                                *)
ExecutedByQuorum ==
  \A t \in DOMAIN transactions : transactions[t].executed =>
    Cardinality(Confirmers(t)) >= required

Paid(txs) ==
  LET paid[n \in 0 .. Len(txs)] ==
        IF n = 0 THEN 0
        ELSE paid[n - 1] + IF txs[n].executed THEN txs[n].value ELSE 0
  IN  paid[Len(txs)]

(* Every transaction sends its value once: the wallet holds what it was    *)
(* sent less the values of the executed transactions, whatever the callees *)
(* call back and however their calls end.                                  *)
PaidOnce == ether + Paid(transactions) = received

(* The transactions as they would be if every call in progress failed.     *)
Committed == IF calls = << >> THEN transactions ELSE calls[1].transactions

(* Executed is final: once the outermost call has returned nothing touches *)
(* the transaction again.                                                  *)
FinalIn(txs, next) ==
  \A t \in DOMAIN txs : txs[t].executed => t \in DOMAIN next /\ next[t] = txs[t]

ExecutedIsFinal == [][FinalIn(Committed, Committed')]_vars
=============================================================================
