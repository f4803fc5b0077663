------------------------ MODULE MultiSigWalletProofs ------------------------
(***************************************************************************)
(* Theorems about MultiSigWallet, for any accounts, any list of owners and *)
(* any threshold the constructor accepts: the wallet keeps the promise of  *)
(* MultiSigApproval.                                                       *)
(*                                                                         *)
(* The wallet counts the entries of a list, the promise the members of a   *)
(* set.  The two agree while no list has an entry twice, which removal by  *)
(* moving the last entry has to preserve (RemoveKeeps), and while nobody   *)
(* signs any application of a pair but the first.                          *)
(***************************************************************************)
EXTENDS MultiSigWallet, FiniteSetTheorems, SequenceTheorems,
        WellFoundedInduction, TLAPS

(* A list without repetitions.                                             *)
List(l) == l \in Seq(Accounts) /\ IsInjective(l)

WalletInv ==
  /\ signatureOwners \in [DOMAIN InitialOwners -> Addresses]
  /\ signatureMap \in [Hashes -> Seq(SignatureInfo)]
  /\ \A hash \in Hashes : \A i \in 1 .. Len(signatureMap[hash]) :
       /\ List(signatureMap[hash][i].signatures)
       /\ i # DEFAULT_INDEX => signatureMap[hash][i].signatures = << >>

LEMMA LeastOfNat ==
  ASSUME NEW S \in SUBSET Nat, S # {}
  PROVE  \E n \in S : \A m \in S : n <= m
<1>1. PICK n \in S : \A m \in S : ~ (<<m, n>> \in OpToRel(<, Nat))
  BY WFMin, NatLessThanWellFounded
<1>2. ASSUME NEW m \in S PROVE n <= m
  <2>1. <<m, n>> \in Nat \X Nat => <<m, n>>[1] = m /\ <<m, n>>[2] = n
    OBVIOUS
  <2>2. ~ (m < n)
    BY <1>1, <2>1 DEF OpToRel
  <2>. QED BY <2>2
<1>. QED BY <1>2

-----------------------------------------------------------------------------
(* Lists.                                                                  *)

LEMMA EmptyList == List(<< >>) /\ ToSet(<< >>) = {}
  BY DEF List, IsInjective, ToSet

LEMMA HoldsIsMember ==
  ASSUME NEW l, NEW a
  PROVE  Holds(l, a) <=> a \in ToSet(l)
  BY DEF Holds, ToSet

(* A list without repetitions has as many entries as members.              *)
LEMMA ListCounts ==
  ASSUME NEW l, List(l)
  PROVE  IsFiniteSet(ToSet(l)) /\ Cardinality(ToSet(l)) = Len(l)
<1>1. Len(l) \in Nat /\ DOMAIN l = 1 .. Len(l) /\ l \in [1 .. Len(l) -> Accounts]
  BY DEF List
<1>2. l \in Bijection(1 .. Len(l), ToSet(l))
  BY <1>1 DEF List, IsInjective, ToSet, Bijection, Injection, Surjection
<1>3. ExistsBijection(1 .. Len(l), ToSet(l))
  BY <1>2 DEF ExistsBijection
<1>. QED BY <1>1, <1>3, FS_NatBijection, FS_CountingElements

LEMMA AppendKeeps ==
  ASSUME NEW l, List(l), NEW a \in Accounts, ~Holds(l, a)
  PROVE  List(Append(l, a)) /\ ToSet(Append(l, a)) = ToSet(l) \cup {a}
<1> DEFINE new == Append(l, a)
<1>1. /\ Len(l) \in Nat /\ DOMAIN l = 1 .. Len(l) /\ new \in Seq(Accounts)
      /\ DOMAIN new = 1 .. Len(l) + 1 /\ new[Len(l) + 1] = a
      /\ \A i \in 1 .. Len(l) : new[i] = l[i]
  BY DEF List
<1> HIDE DEF new
<1>2. IsInjective(new)
  BY <1>1 DEF List, IsInjective, Holds
<1>3. ToSet(new) = ToSet(l) \cup {a}
  BY <1>1 DEF ToSet
<1>. QED BY <1>1, <1>2, <1>3 DEF List, new

(* Moving the last entry over the removed one loses no other entry.        *)
LEMMA RemoveKeeps ==
  ASSUME NEW l, List(l), NEW a, Holds(l, a)
  PROVE  List(removeAddress(l, a)) /\ ToSet(removeAddress(l, a)) = ToSet(l) \ {a}
<1> DEFINE n == Len(l)
           I == {i \in 1 .. n : l[i] = a}
           at == Min(I)
           moved == [l EXCEPT ![at] = Last(l)]
           new == SubSeq(moved, 1, n - 1)
<1>1. n \in Nat /\ n = Len(l) /\ DOMAIN l = 1 .. n /\ l \in Seq(Accounts)
  BY DEF List
<1> HIDE DEF n
<1>2. I \in SUBSET Nat /\ I # {}
  BY <1>1 DEF Holds
<1>3. at \in I
  <2> HIDE DEF I
  <2>. QED BY <1>2, LeastOfNat DEF Min
<1>4. at \in 1 .. n /\ l[at] = a
  BY <1>3
<1>5. removeAddress(l, a) = Front(moved)
  <2>1. SelectInSeq(l, LAMBDA b : b = a) = at
    <3>1. SelectInSeq(l, LAMBDA b : b = a) = IF I # {} THEN Min(I) ELSE 0
      BY <1>1 DEF SelectInSeq
    <3>. QED BY <1>2, <3>1
  <2> HIDE DEF at
  <2>2. at # 0
    BY <1>4
  <2>. QED BY <2>1, <2>2 DEF removeAddress
<1> HIDE DEF at, I
<1>6. /\ moved \in Seq(Accounts) /\ Len(moved) = n
      /\ \A j \in 1 .. n : moved[j] = IF j = at THEN l[n] ELSE l[j]
  <2> DEFINE e == Last(l)
  <2>1. e = l[n] /\ e \in Accounts /\ at \in 1 .. Len(l)
    BY <1>1, <1>4 DEF Last
  <2> HIDE DEF e
  <2>2. /\ [l EXCEPT ![at] = e] \in Seq(Accounts)
        /\ Len([l EXCEPT ![at] = e]) = Len(l)
        /\ \A j \in 1 .. Len(l) : [l EXCEPT ![at] = e][j] = IF j = at THEN e ELSE l[j]
    BY <1>1, <2>1, ExceptSeq
  <2>. QED BY <1>1, <2>1, <2>2 DEF e
<1> HIDE DEF moved
<1>7. removeAddress(l, a) = new
  BY <1>5, <1>6 DEF Front
<1>8. /\ new \in Seq(Accounts) /\ Len(new) = n - 1 /\ DOMAIN new = 1 .. n - 1
      /\ \A i \in 1 .. n - 1 : new[i] = moved[i]
  <2> DEFINE m == n - 1
  <2>1. 1 \in Int /\ m \in Nat /\ m \in Int /\ \A i \in 1 .. m : moved[i] \in Accounts
    BY <1>1, <1>4, <1>6
  <2> HIDE DEF m
  <2>2. /\ SubSeq(moved, 1, m) \in Seq(Accounts)
        /\ Len(SubSeq(moved, 1, m)) = IF 1 <= m THEN m - 1 + 1 ELSE 0
        /\ \A i \in 1 .. m - 1 + 1 : SubSeq(moved, 1, m)[i] = moved[1 + i - 1]
    BY <2>1, SubSeqProperties
  <2> DEFINE s == SubSeq(moved, 1, m)
  <2>3. s \in Seq(Accounts) /\ Len(s) = m /\ \A i \in 1 .. m : s[i] = moved[i]
    <3> HIDE DEF s
    <3>1. /\ s \in Seq(Accounts) /\ Len(s) = IF 1 <= m THEN m - 1 + 1 ELSE 0
          /\ \A i \in 1 .. m - 1 + 1 : s[i] = moved[1 + i - 1]
      BY <2>2 DEF s
    <3>2. Len(s) = m /\ m - 1 + 1 = m /\ \A i \in 1 .. m : 1 + i - 1 = i
      BY <2>1, <3>1
    <3>. QED BY <3>1, <3>2
  <2>4. DOMAIN s = 1 .. m
    BY <2>3, LenProperties
  <2>. QED BY <2>3, <2>4 DEF m
<1> HIDE DEF new
<1>9. \A i \in 1 .. n - 1 : new[i] = IF i = at THEN l[n] ELSE l[i]
  BY <1>6, <1>8
<1>10. IsInjective(new)
  BY <1>1, <1>4, <1>8, <1>9 DEF List, IsInjective
<1>11. ToSet(new) = ToSet(l) \ {a}
  <2>1. ASSUME NEW x \in ToSet(new) PROVE x \in ToSet(l) \ {a}
    <3>1. PICK i \in 1 .. n - 1 : new[i] = x
      BY <1>8, <2>1 DEF ToSet
    <3>2. CASE i = at
      <4>1. x = l[n] /\ at # n
        BY <1>1, <1>9, <3>1, <3>2
      <4>. QED BY <1>1, <1>4, <4>1 DEF ToSet, List, IsInjective
    <3>3. CASE i # at
      <4>1. x = l[i] /\ i \in 1 .. n
        BY <1>1, <1>9, <3>1, <3>3
      <4>. QED BY <1>1, <1>4, <3>3, <4>1 DEF ToSet, List, IsInjective
    <3>. QED BY <3>2, <3>3
  <2>2. ASSUME NEW x \in ToSet(l) \ {a} PROVE x \in ToSet(new)
    <3>1. PICK i \in 1 .. n : l[i] = x
      BY <1>1, <2>2 DEF ToSet
    <3>2. i # at
      BY <1>4, <2>2, <3>1
    <3>3. CASE i = n
      <4>1. at \in 1 .. n - 1
        BY <1>1, <1>4, <3>2, <3>3
      <4>. QED BY <1>8, <1>9, <3>1, <3>3, <4>1 DEF ToSet
    <3>4. CASE i # n
      <4>1. i \in 1 .. n - 1
        BY <1>1, <3>4
      <4>. QED BY <1>8, <1>9, <3>1, <3>2, <4>1 DEF ToSet
    <3>. QED BY <3>3, <3>4
  <2>. QED BY <2>1, <2>2
<1>. QED BY <1>7, <1>8, <1>10, <1>11 DEF List

-----------------------------------------------------------------------------
(* The sets the lists stand for.                                           *)

LEMMA InitWallet == Init => WalletInv
<1>. SUFFICES ASSUME Init PROVE WalletInv
  OBVIOUS
<1>1. signatureOwners \in [DOMAIN InitialOwners -> Addresses]
  BY ConstructorAssumption DEF Init, Addresses
<1>2. \A hash \in Hashes : signatureMap[hash] = << >>
  BY DEF Init
<1>3. signatureMap \in [Hashes -> Seq(SignatureInfo)]
  BY DEF Init
<1>. QED BY <1>1, <1>2, <1>3 DEF WalletInv

(* validCall, which searches all the applications of a pair for one with a *)
(* long enough list, answers whether enough accounts signed the first one. *)
LEMMA ValidCallCounts ==
  ASSUME WalletInv, NEW hash \in Hashes
  PROVE  validCall(hash[1], hash[2]) <=> Cardinality(Signers(hash)) >= threshold
<1> DEFINE apps == signatureMap[hash]
           found == {i \in DOMAIN apps : /\ i >= DEFAULT_INDEX
                                         /\ Len(apps[i].signatures) >= threshold}
<1>1. getApplicationHash(hash[1], hash[2]) = hash
  BY DEF getApplicationHash, Hashes
<1>2. apps \in Seq(SignatureInfo) /\ Len(apps) \in Nat /\ DOMAIN apps = 1 .. Len(apps)
  BY DEF WalletInv
<1>3. threshold \in Nat \ {0}
  BY ConstructorAssumption
<1>4. validCall(hash[1], hash[2]) <=> found # {}
  <2>1. found \in SUBSET (Nat \ {0})
    BY <1>2
  <2>2. found # {} => \E i \in found : \A j \in found : i <= j
    <3> HIDE DEF found
    <3>. QED BY <2>1, LeastOfNat
  <2>3. getValidSignature(hash, DEFAULT_INDEX)
          = IF found = {} THEN 0 ELSE CHOOSE i \in found : \A j \in found : i <= j
    BY DEF getValidSignature
  <2>4. validCall(hash[1], hash[2]) <=> getValidSignature(hash, DEFAULT_INDEX) > 0
    BY <1>1 DEF validCall
  <2> DEFINE first == CHOOSE i \in found : \A j \in found : i <= j
  <2> HIDE DEF found
  <2>5. found # {} => first \in found
    BY <2>2
  <2>6. getValidSignature(hash, DEFAULT_INDEX) = IF found = {} THEN 0 ELSE first
    BY <2>3
  <2> DEFINE v == getValidSignature(hash, DEFAULT_INDEX)
  <2>7. v > 0 <=> found # {}
    <3> HIDE DEF first
    <3>1. CASE found = {}
      <4>1. v = 0
        BY <2>6, <3>1
      <4>. QED BY <3>1, <4>1
    <3>2. CASE found # {}
      <4>1. v = first /\ first \in Nat \ {0}
        BY <2>1, <2>5, <2>6, <3>2
      <4> HIDE DEF v
      <4>. QED BY <3>2, <4>1
    <3>. QED BY <3>1, <3>2
  <2>. QED BY <2>4, <2>7
<1>5. found # {} <=> /\ 1 \in 1 .. Len(apps)
                     /\ Len(apps[1].signatures) >= threshold
  <2>1. ASSUME NEW i \in found PROVE i = 1
    <3>1. i \in 1 .. Len(apps) /\ Len(apps[i].signatures) >= threshold
      BY <1>2
    <3>2. apps[i].signatures # << >>
      BY <1>3, <3>1, EmptySeq
    <3>. QED BY <3>1, <3>2 DEF WalletInv, DEFAULT_INDEX
  <2>. QED BY <1>2, <2>1 DEF DEFAULT_INDEX
<1>6. CASE apps = << >>
  BY <1>3, <1>4, <1>5, <1>6, FS_EmptySet DEF Signers
<1>7. CASE apps # << >>
  <2>1. 1 \in 1 .. Len(apps)
    BY <1>2, <1>7, EmptySeq
  <2>2. List(apps[1].signatures)
    BY <2>1 DEF WalletInv
  <2>3. Signers(hash) = ToSet(apps[1].signatures)
    BY <1>7 DEF Signers, DEFAULT_INDEX
  <2>. QED BY <1>4, <1>5, <2>1, <2>2, <2>3, ListCounts
<1>. QED BY <1>6, <1>7

(* The variables of the promise, as operators.                             *)
OwnerSet == ToSet(signatureOwners)
OpenKeys == {hash \in Hashes : signatureMap[hash] # << >>}
SignerSets == [hash \in Hashes |-> Signers(hash)]
Approved == {hash \in Hashes : validCall(hash[1], hash[2])}

LEMMA SameCardinality == \A S : Approval!Cardinality(S) = Cardinality(S)
  BY DEF Approval!Cardinality, Cardinality

ApprovedCounted == Approved = Approval!Quorate(SignerSets)

LEMMA ApprovedIsQuorate == WalletInv => ApprovedCounted
  BY ValidCallCounts, SameCardinality
  DEF ApprovedCounted, Approved, SignerSets, Approval!Quorate

LEMMA ApprovedStaysQuorate ==
  WalletInv' => Approved' = Approval!Quorate(SignerSets')
<1>1. WalletInv' => ApprovedCounted'
  BY ApprovedIsQuorate, PTL
<1>. QED BY <1>1 DEF ApprovedCounted, Approval!Quorate

LEMMA InitPromised == Init => Approval!Init
<1>. SUFFICES ASSUME Init PROVE Approval!Init
  OBVIOUS
<1>1. WalletInv
  BY InitWallet
<1>2. OwnerSet \in SUBSET Addresses
  BY <1>1 DEF WalletInv, OwnerSet, ToSet
<1>3. OpenKeys = {}
  BY DEF Init, OpenKeys
<1>4. SignerSets = [hash \in Hashes |-> {}]
  BY DEF Init, SignerSets, Signers
<1>5. Approved = {}
  <2>1. \A hash \in Hashes : SignerSets[hash] = {}
    BY <1>4
  <2>2. Cardinality({}) = 0 /\ ~ (0 >= threshold)
    BY FS_EmptySet, ConstructorAssumption
  <2>3. Approval!Quorate(SignerSets) = {}
    BY <2>1, <2>2, SameCardinality DEF Approval!Quorate
  <2>. QED BY <1>1, <2>3, ApprovedIsQuorate DEF ApprovedCounted
<1>. QED BY <1>2, <1>3, <1>4, <1>5
     DEF Approval!Init, OwnerSet, OpenKeys, SignerSets, Approved

-----------------------------------------------------------------------------
(* The steps.                                                              *)

(* The promise's step, or none, that each step of the wallet is.           *)
Promised == [Approval!Next]_<<OwnerSet, OpenKeys, SignerSets, Approved>>

(* What signing and revoking have in common: another list of signatures.   *)
LEMMA ListReplaced ==
  ASSUME WalletInv, NEW hash \in Hashes, validIndex(hash, DEFAULT_INDEX),
         NEW list, List(list), UNCHANGED signatureOwners,
         signatureMap' =
           [signatureMap EXCEPT ![hash][DEFAULT_INDEX].signatures = list]
  PROVE  /\ WalletInv'
         /\ OwnerSet' = OwnerSet /\ OpenKeys' = OpenKeys
         /\ SignerSets' = [SignerSets EXCEPT ![hash] = ToSet(list)]
         /\ Approved' = Approval!Quorate(SignerSets')
         /\ hash \in OpenKeys
         /\ SignerSets[hash] = ToSet(signatureMap[hash][DEFAULT_INDEX].signatures)
         /\ List(signatureMap[hash][DEFAULT_INDEX].signatures)
<1> DEFINE apps == signatureMap[hash]
           info == [apps[1] EXCEPT !.signatures = list]
           new  == [apps EXCEPT ![1] = info]
<1>1. apps \in Seq(SignatureInfo) /\ Len(apps) \in Nat /\ 1 \in 1 .. Len(apps)
  BY DEF WalletInv, validIndex, DEFAULT_INDEX
<1>2. apps[1] \in SignatureInfo
  BY <1>1
<1>3. info \in SignatureInfo /\ info.signatures = list
  BY <1>2 DEF SignatureInfo, List
<1>4. signatureMap' = [signatureMap EXCEPT ![hash] = new]
  BY <1>1, <1>2 DEF WalletInv, DEFAULT_INDEX, SignatureInfo
<1> HIDE DEF info
<1>5. /\ new \in Seq(SignatureInfo) /\ Len(new) = Len(apps) /\ new[1] = info
      /\ \A i \in 1 .. Len(apps) : i # 1 => new[i] = apps[i]
  BY <1>1, <1>3, ExceptSeq
<1> HIDE DEF new
<1>6. /\ signatureMap' \in [Hashes -> Seq(SignatureInfo)]
      /\ signatureMap'[hash] = new
      /\ \A h \in Hashes : h # hash => signatureMap'[h] = signatureMap[h]
  BY <1>4, <1>5 DEF WalletInv
<1>7. WalletInv'
  <2>1. ASSUME NEW h \in Hashes, NEW i \in 1 .. Len(signatureMap'[h])
        PROVE  /\ List(signatureMap'[h][i].signatures)
               /\ i # DEFAULT_INDEX => signatureMap'[h][i].signatures = << >>
    <3>1. CASE h # hash
      BY <1>6, <3>1 DEF WalletInv
    <3>2. CASE h = hash /\ i = 1
      BY <1>3, <1>5, <1>6, <3>2 DEF DEFAULT_INDEX
    <3>3. CASE h = hash /\ i # 1
      BY <1>5, <1>6, <3>3 DEF WalletInv, DEFAULT_INDEX
    <3>. QED BY <3>1, <3>2, <3>3
  <2>. QED BY <1>6, <2>1 DEF WalletInv
<1>8. apps # << >> /\ new # << >>
  BY <1>1, <1>5, EmptySeq
<1>9. OpenKeys' = OpenKeys /\ hash \in OpenKeys
  BY <1>6, <1>8 DEF OpenKeys
<1>10. Signers(hash)' = ToSet(list) /\ Signers(hash) = ToSet(apps[1].signatures)
  BY <1>3, <1>5, <1>6, <1>8 DEF Signers, DEFAULT_INDEX
<1>11. SignerSets' = [SignerSets EXCEPT ![hash] = ToSet(list)]
  BY <1>6, <1>10 DEF SignerSets, Signers
<1>12. Approved' = Approval!Quorate(SignerSets')
  BY <1>7, ApprovedStaysQuorate
<1>13. List(apps[1].signatures)
  BY <1>1 DEF WalletInv
<1>. QED BY <1>7, <1>9, <1>10, <1>11, <1>12, <1>13
     DEF OwnerSet, SignerSets, DEFAULT_INDEX

LEMMA SignStep ==
  ASSUME WalletInv, NEW u \in Accounts, NEW hash \in Hashes, signApplication(u, hash)
  PROVE  WalletInv' /\ Promised
<1> DEFINE old == signatureMap[hash][DEFAULT_INDEX].signatures
           list == Append(old, u)
<1>1. /\ onlyOwner(u) /\ validIndex(hash, DEFAULT_INDEX) /\ ~Holds(old, u)
      /\ signatureMap' =
           [signatureMap EXCEPT ![hash][DEFAULT_INDEX].signatures = list]
      /\ UNCHANGED signatureOwners
  BY DEF signApplication
<1>2. List(old)
  <2>1. signatureMap[hash] \in Seq(SignatureInfo)
    BY DEF WalletInv
  <2>2. 1 \in 1 .. Len(signatureMap[hash])
    BY <1>1, <2>1 DEF validIndex, DEFAULT_INDEX
  <2>. QED BY <2>2 DEF WalletInv, DEFAULT_INDEX
<1>3. List(list) /\ ToSet(list) = ToSet(old) \cup {u} /\ u \notin ToSet(old)
  BY <1>1, <1>2, AppendKeeps, HoldsIsMember
<1> HIDE DEF list
<1>4. /\ WalletInv'
      /\ OwnerSet' = OwnerSet /\ OpenKeys' = OpenKeys
      /\ SignerSets' = [SignerSets EXCEPT ![hash] = ToSet(list)]
      /\ Approved' = Approval!Quorate(SignerSets')
      /\ hash \in OpenKeys /\ SignerSets[hash] = ToSet(old)
  BY <1>1, <1>3, ListReplaced
<1>5. u \in OwnerSet /\ u \in Addresses
  BY <1>1, HoldsIsMember DEF onlyOwner, OwnerSet, Addresses
<1>6. Approval!Sign(u, hash)
  <2> HIDE DEF old
  <2>. QED BY <1>3, <1>4, <1>5
           DEF Approval!Sign, OwnerSet, OpenKeys, SignerSets, Approved
<1>. QED BY <1>4, <1>5, <1>6 DEF Promised, Approval!Next

LEMMA RevokeStep ==
  ASSUME WalletInv, NEW u \in Accounts, NEW hash \in Hashes,
         revokeSignApplication(u, hash)
  PROVE  WalletInv' /\ Promised
<1> DEFINE old == signatureMap[hash][DEFAULT_INDEX].signatures
           list == removeAddress(old, u)
<1>1. /\ onlyOwner(u) /\ validIndex(hash, DEFAULT_INDEX) /\ Holds(old, u)
      /\ signatureMap' =
           [signatureMap EXCEPT ![hash][DEFAULT_INDEX].signatures = list]
      /\ UNCHANGED signatureOwners
  BY DEF revokeSignApplication
<1>2. List(old)
  <2>1. signatureMap[hash] \in Seq(SignatureInfo)
    BY DEF WalletInv
  <2>2. 1 \in 1 .. Len(signatureMap[hash])
    BY <1>1, <2>1 DEF validIndex, DEFAULT_INDEX
  <2>. QED BY <2>2 DEF WalletInv, DEFAULT_INDEX
<1>3. List(list) /\ ToSet(list) = ToSet(old) \ {u} /\ u \in ToSet(old)
  BY <1>1, <1>2, RemoveKeeps, HoldsIsMember
<1> HIDE DEF list
<1>4. /\ WalletInv'
      /\ OwnerSet' = OwnerSet /\ OpenKeys' = OpenKeys
      /\ SignerSets' = [SignerSets EXCEPT ![hash] = ToSet(list)]
      /\ Approved' = Approval!Quorate(SignerSets')
      /\ SignerSets[hash] = ToSet(old)
  BY <1>1, <1>3, ListReplaced
<1>5. u \in OwnerSet /\ u \in Addresses
  BY <1>1, HoldsIsMember DEF onlyOwner, OwnerSet, Addresses
<1>6. Approval!Withdraw(u, hash)
  <2> HIDE DEF old
  <2>. QED BY <1>3, <1>4, <1>5
           DEF Approval!Withdraw, OwnerSet, OpenKeys, SignerSets, Approved
<1>. QED BY <1>4, <1>5, <1>6 DEF Promised, Approval!Next

(* A new application opens its pair, or is one more nobody will sign.      *)
LEMMA CreateStep ==
  ASSUME WalletInv, NEW u \in Applicants, NEW to \in Targets, createApplication(u, to)
  PROVE  WalletInv' /\ Promised
<1> DEFINE hash == getApplicationHash(u, to)
           apps == signatureMap[hash]
           info == [applicant |-> u, signatures |-> << >>]
           new  == Append(apps, info)
<1>1. hash \in Hashes
  BY DEF getApplicationHash, Hashes
<1> HIDE DEF hash
<1>2. apps \in Seq(SignatureInfo) /\ Len(apps) \in Nat
  BY <1>1 DEF WalletInv
<1>3. info \in SignatureInfo /\ info.signatures = << >> /\ List(<< >>)
  BY AddressesAssumption, EmptyList DEF SignatureInfo
<1>4. signatureMap' = [signatureMap EXCEPT ![hash] = new] /\ UNCHANGED signatureOwners
  BY <1>1 DEF createApplication, hash, WalletInv
<1> HIDE DEF info
<1>5. /\ new \in Seq(SignatureInfo) /\ Len(new) = Len(apps) + 1
      /\ \A i \in 1 .. Len(apps) : new[i] = apps[i]
      /\ new[Len(apps) + 1] = info /\ new # << >>
  BY <1>2, <1>3, AppendProperties
<1> HIDE DEF new
<1>6. /\ signatureMap' \in [Hashes -> Seq(SignatureInfo)]
      /\ signatureMap'[hash] = new
      /\ \A h \in Hashes : h # hash => signatureMap'[h] = signatureMap[h]
  BY <1>1, <1>4, <1>5 DEF WalletInv
<1>7. WalletInv'
  <2>1. ASSUME NEW h \in Hashes, NEW i \in 1 .. Len(signatureMap'[h])
        PROVE  /\ List(signatureMap'[h][i].signatures)
               /\ i # DEFAULT_INDEX => signatureMap'[h][i].signatures = << >>
    <3>1. CASE h # hash
      BY <1>6, <3>1 DEF WalletInv
    <3>2. CASE h = hash /\ i \in 1 .. Len(apps)
      BY <1>5, <1>6, <3>2 DEF WalletInv
    <3>3. CASE h = hash /\ i = Len(apps) + 1
      BY <1>3, <1>5, <1>6, <3>3
    <3>4. h = hash => i \in 1 .. Len(apps) \/ i = Len(apps) + 1
      BY <1>2, <1>5, <1>6
    <3>. QED BY <3>1, <3>2, <3>3, <3>4
  <2>. QED BY <1>4, <1>6, <2>1 DEF WalletInv
<1>8. OpenKeys' = OpenKeys \cup {hash}
  BY <1>1, <1>5, <1>6 DEF OpenKeys
<1>9. Signers(hash)' = Signers(hash)
  <2>1. CASE apps = << >>
    <3>1. Len(apps) = 0
      BY <2>1
    <3>. QED BY <1>3, <1>5, <1>6, <2>1, <3>1, EmptyList DEF Signers, DEFAULT_INDEX
  <2>2. CASE apps # << >>
    <3>1. 1 \in 1 .. Len(apps)
      BY <1>2, <2>2, EmptySeq
    <3>. QED BY <1>5, <1>6, <2>2, <3>1 DEF Signers, DEFAULT_INDEX
  <2>. QED BY <2>1, <2>2
<1>10. SignerSets' = SignerSets
  BY <1>6, <1>9 DEF SignerSets, Signers
<1>11. Approved' = Approved
  BY <1>7, <1>10, ApprovedIsQuorate, ApprovedStaysQuorate DEF ApprovedCounted
<1>12. Approval!Open(hash)
  BY <1>4, <1>8, <1>10, <1>11
  DEF Approval!Open, OwnerSet, OpenKeys, SignerSets, Approved
<1>. QED BY <1>1, <1>7, <1>12 DEF Promised, Approval!Next

(* The holder of a seat leaves the set of owners unless it has another.    *)
LEMMA TransferStep ==
  ASSUME WalletInv, NEW u \in Accounts, NEW index \in DOMAIN InitialOwners,
         NEW newOwner \in Addresses, transferOwner(u, index, newOwner)
  PROVE  WalletInv' /\ Promised
<1> DEFINE old == signatureOwners[index]
<1>1. /\ signatureOwners \in [DOMAIN InitialOwners -> Addresses]
      /\ signatureOwners' = [signatureOwners EXCEPT ![index] = newOwner]
      /\ UNCHANGED signatureMap
  BY DEF WalletInv, transferOwner
<1>2. WalletInv'
  BY <1>1 DEF WalletInv
<1>3. OwnerSet' \in {(OwnerSet \ {old}) \cup {newOwner}, OwnerSet \cup {newOwner}}
  <2> DEFINE others == {signatureOwners[i] : i \in DOMAIN InitialOwners \ {index}}
  <2>1. OwnerSet' = others \cup {newOwner}
    BY <1>1 DEF OwnerSet, ToSet
  <2>2. OwnerSet = others \cup {old}
    BY <1>1 DEF OwnerSet, ToSet
  <2> HIDE DEF others, old
  <2>3. CASE old \in others
    BY <2>1, <2>2, <2>3
  <2>4. CASE old \notin others
    BY <2>1, <2>2, <2>4
  <2>. QED BY <2>3, <2>4
<1>4. OpenKeys' = OpenKeys /\ SignerSets' = SignerSets
  BY <1>1 DEF OpenKeys, SignerSets, Signers
<1>5. Approved' = Approved
  BY <1>2, <1>4, ApprovedIsQuorate, ApprovedStaysQuorate DEF ApprovedCounted
<1>6. old \in OwnerSet /\ old \in Addresses
  BY <1>1 DEF OwnerSet, ToSet
<1>7. Approval!PassSeat(old, newOwner)
  <2> HIDE DEF old
  <2>. QED BY <1>3, <1>4, <1>5, <1>6
           DEF Approval!PassSeat, OwnerSet, OpenKeys, SignerSets, Approved
<1>. QED BY <1>2, <1>6, <1>7 DEF Promised, Approval!Next

LEMMA EveryStep == WalletInv /\ [Next]_vars => WalletInv' /\ Promised
<1>. SUFFICES ASSUME WalletInv, [Next]_vars PROVE WalletInv' /\ Promised
  OBVIOUS
<1>1. CASE UNCHANGED vars
  <2>1. UNCHANGED <<signatureOwners, signatureMap>>
    BY <1>1 DEF vars
  <2>2. WalletInv' /\ UNCHANGED <<OwnerSet, OpenKeys, SignerSets>>
    BY <2>1 DEF WalletInv, OwnerSet, OpenKeys, SignerSets, Signers
  <2>3. Approved' = Approved
    BY <2>2, ApprovedIsQuorate, ApprovedStaysQuorate DEF ApprovedCounted
  <2>. QED BY <2>2, <2>3 DEF Promised
<1>2. CASE Next
  BY <1>2, TransferStep, CreateStep, SignStep, RevokeStep DEF Next
<1>. QED BY <1>1, <1>2

-----------------------------------------------------------------------------
(* The theorems.                                                           *)

LEMMA WalletInvariance == Spec => []WalletInv
  BY InitWallet, EveryStep, PTL DEF Spec

(* createApplication, signApplication, revokeSignApplication and           *)
(* transferOwner keep the types, and never put an account twice on a list. *)
THEOREM ListsStayWellFormed == Spec => []TypeOK
<1>1. WalletInv => TypeOK
  BY DEF WalletInv, TypeOK, List
<1>. QED BY <1>1, WalletInvariance, PTL

(* validCall accepts exactly the pairs for which threshold different       *)
(* accounts stand, each an owner when it signed and none of which has      *)
(* taken its signature back: the wallet implements MultiSigApproval.       *)
THEOREM WalletKeepsPromise == Spec => KeepsPromise
<1>1. [Approval!Next]_Approval!vars <=> Promised
  BY DEF Promised, Approval!vars, OwnerSet, OpenKeys, SignerSets, Approved
<1>2. WalletInv /\ [Next]_vars => [Approval!Next]_Approval!vars
  BY <1>1, EveryStep
<1>. QED BY <1>2, InitPromised, WalletInvariance, PTL
     DEF Spec, KeepsPromise, Approval!Spec
=============================================================================
