--------------------------- MODULE MultiSigWallet ---------------------------
(***************************************************************************)
(* MultiSigWallet.sol, the wallet of multiSignatureV2, and the question    *)
(* MultiSigClient's validCall puts to it.  Anybody applies for a pair of   *)
(* itself and a contract; owners sign the pair's first application or take *)
(* their signature back; the contract accepts calls of the applicant while *)
(* some application of the pair has threshold signatures.                  *)
(*                                                                         *)
(* The keccak256 of a pair is the pair; an application's index counts from *)
(* 1 here.                                                                 *)
(***************************************************************************)
EXTENDS Integers, SequencesExt

CONSTANTS
  Accounts,        \* the addresses that send transactions
  ZeroAddress,     \* address(0), which never does
  Applicants,      \* the accounts that call createApplication
  Targets,         \* the contracts they apply for
  InitialOwners,   \* the constructor's owners
  threshold,       \* the constructor's limitedSignNum
  MaxApplications  \* bound: the applications of one pair

Addresses == Accounts \cup {ZeroAddress}

ASSUME AddressesAssumption ==
  ZeroAddress \notin Accounts /\ Applicants \subseteq Accounts

(* The requirements of the constructor.                                    *)
ASSUME ConstructorAssumption ==
  /\ InitialOwners \in Seq(Accounts) /\ IsInjective(InitialOwners)
  /\ threshold \in 1 .. Len(InitialOwners)

ASSUME BoundAssumption == MaxApplications \in Nat

VARIABLES
  signatureOwners,  \* the list of owners
  signatureMap      \* hash -> its applications

vars == <<signatureOwners, signatureMap>>

Hashes == Applicants \X Targets

getApplicationHash(from, to) == <<from, to>>

SignatureInfo == [applicant: Accounts, signatures: Seq(Accounts)]

Init ==
  /\ signatureOwners = InitialOwners
  /\ signatureMap = [hash \in Hashes |-> << >>]

-----------------------------------------------------------------------------
(* AddressArrayLib, and the modifiers.                                     *)
Holds(list, addr) == \E i \in DOMAIN list : list[i] = addr

(* The last element takes the place of the first occurrence of addr.       *)
removeAddress_LosesLast(list, addr) == Front(list)
removeAddress(list, addr) ==
  LET at == SelectInSeq(list, LAMBDA a : a = addr)
  IN  IF at = 0 THEN list ELSE Front([list EXCEPT ![at] = Last(list)])

onlyOwner(u) == Holds(signatureOwners, u)

DEFAULT_INDEX == 1

validIndex(hash, index) == index \in DOMAIN signatureMap[hash]

-----------------------------------------------------------------------------
transferOwner(u, index, newOwner) ==
  /\ onlyOwner(u)
  /\ index \in DOMAIN signatureOwners
  /\ signatureOwners' = [signatureOwners EXCEPT ![index] = newOwner]
  /\ UNCHANGED signatureMap

createApplication(u, to) ==
  LET hash == getApplicationHash(u, to) IN
  /\ Len(signatureMap[hash]) < MaxApplications
  /\ signatureMap' = [signatureMap EXCEPT ![hash] =
                        Append(@, [applicant |-> u, signatures |-> << >>])]
  /\ UNCHANGED signatureOwners

signApplication_Repeatedly(u, hash) ==
  /\ onlyOwner(u) /\ validIndex(hash, DEFAULT_INDEX)
  /\ Len(signatureMap[hash][DEFAULT_INDEX].signatures) < 3
  /\ signatureMap' =
       [signatureMap EXCEPT ![hash][DEFAULT_INDEX].signatures = Append(@, u)]
  /\ UNCHANGED signatureOwners
signApplication(u, hash) ==
  /\ onlyOwner(u) /\ validIndex(hash, DEFAULT_INDEX)
  /\ ~Holds(signatureMap[hash][DEFAULT_INDEX].signatures, u)
  /\ signatureMap' =
       [signatureMap EXCEPT ![hash][DEFAULT_INDEX].signatures = Append(@, u)]
  /\ UNCHANGED signatureOwners

revokeSignApplication(u, hash) ==
  /\ onlyOwner(u) /\ validIndex(hash, DEFAULT_INDEX)
  /\ Holds(signatureMap[hash][DEFAULT_INDEX].signatures, u)
  /\ signatureMap' =
       [signatureMap EXCEPT ![hash][DEFAULT_INDEX].signatures = removeAddress(@, u)]
  /\ UNCHANGED signatureOwners

(* The first application from lastIndex on with enough signatures, or 0.   *)
getValidSignature(hash, lastIndex) ==
  LET found == {i \in DOMAIN signatureMap[hash] :
                  /\ i >= lastIndex
                  /\ Len(signatureMap[hash][i].signatures) >= threshold}
  IN  IF found = {} THEN 0
      ELSE CHOOSE i \in found : \A j \in found : i <= j

validCall(u, target) ==
  getValidSignature(getApplicationHash(u, target), DEFAULT_INDEX) > 0

Next ==
  \/ \E u \in Accounts, index \in DOMAIN InitialOwners, newOwner \in Addresses :
       transferOwner(u, index, newOwner)
  \/ \E u \in Applicants, to \in Targets : createApplication(u, to)
  \/ \E u \in Accounts, hash \in Hashes :
       signApplication(u, hash) \/ revokeSignApplication(u, hash)

Spec == Init /\ [][Next]_vars

-----------------------------------------------------------------------------
(* Properties.                                                             *)

(* Owners are addresses, zero included; a signature list names no account  *)
(* twice, whatever the order of signatures, revocations and transfers.     *)
TypeOK ==
  /\ signatureOwners \in [DOMAIN InitialOwners -> Addresses]
  /\ \A hash \in Hashes : signatureMap[hash] \in Seq(SignatureInfo)
  /\ \A hash \in Hashes : \A i \in DOMAIN signatureMap[hash] :
       IsInjective(signatureMap[hash][i].signatures)

Signers(hash) ==
  IF signatureMap[hash] = << >> THEN {}
  ELSE ToSet(signatureMap[hash][DEFAULT_INDEX].signatures)

(* The lists behave as the sets they stand for: validCall accepts exactly  *)
(* the pairs MultiSigApproval approves, although it counts list entries,   *)
(* and a revocation, which moves entries about, withdraws no other         *)
(* account's signature.                                                    *)
Approval == INSTANCE MultiSigApproval WITH
  Keys     <- Hashes,
  owners   <- ToSet(signatureOwners),
  open     <- {hash \in Hashes : signatureMap[hash] # << >>},
  signers  <- [hash \in Hashes |-> Signers(hash)],
  approved <- {hash \in Hashes : validCall(hash[1], hash[2])}

KeepsPromise == Approval!Spec
=============================================================================
