-------------------------- MODULE MCMultiSignature --------------------------
(***************************************************************************)
(* Three owners, two of them contracts, and a stranger; two of the owners  *)
(* must confirm.                                                           *)
(***************************************************************************)
EXTENDS MultiSignature, TLC

CONSTANTS alice, bob, carol, eve

MCSymmetry == Permutations({alice, bob})
=============================================================================
