-------------------------- MODULE MultiSigApproval --------------------------
(***************************************************************************)
(* What MultiSigWallet promises to the contracts that ask it: a key, which *)
(* stands for a caller and a contract, is approved while at least          *)
(* threshold different accounts stand behind it, each of which was an      *)
(* owner when it signed.  Nobody is counted twice, only an owner can take  *)
(* a signature back, and only its own; a change of owners approves and     *)
(* withdraws nothing.                                                      *)
(***************************************************************************)
EXTENDS Integers, FiniteSets

CONSTANTS
  Addresses,  \* the addresses there are
  Keys,       \* what is approved
  threshold   \* the signatures an approval needs

VARIABLES
  owners,    \* the set of owners
  open,      \* the keys somebody has applied for
  signers,   \* key -> the accounts that stand behind it
  approved   \* the keys the wallet says are approved

vars == <<owners, open, signers, approved>>

Quorate(sets) == {k \in Keys : Cardinality(sets[k]) >= threshold}

Init ==
  /\ owners \in SUBSET Addresses
  /\ open = {}
  /\ signers = [k \in Keys |-> {}]
  /\ approved = {}

Open(k) ==
  /\ open' = open \cup {k}
  /\ UNCHANGED <<owners, signers, approved>>

Sign(o, k) ==
  /\ o \in owners /\ k \in open /\ o \notin signers[k]
  /\ signers' = [signers EXCEPT ![k] = @ \cup {o}]
  /\ approved' = Quorate(signers')
  /\ UNCHANGED <<owners, open>>

Withdraw(o, k) ==
  /\ o \in owners /\ o \in signers[k]
  /\ signers' = [signers EXCEPT ![k] = @ \ {o}]
  /\ approved' = Quorate(signers')
  /\ UNCHANGED <<owners, open>>

(* One seat passes to another address; its old holder may have others.     *)
PassSeat(old, new) ==
  /\ old \in owners
  /\ owners' \in {(owners \ {old}) \cup {new}, owners \cup {new}}
  /\ UNCHANGED <<open, signers, approved>>

Next ==
  \/ \E k \in Keys : Open(k)
  \/ \E o \in Addresses, k \in Keys : Sign(o, k) \/ Withdraw(o, k)
  \/ \E old, new \in Addresses : PassSeat(old, new)

Spec == Init /\ [][Next]_vars
=============================================================================
