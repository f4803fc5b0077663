-------------------------- MODULE MCMultiSigWallet --------------------------
(***************************************************************************)
(* Two owners of three accounts, both of whom must sign, and two contracts *)
(* that ask the wallet about one administrator.                            *)
(***************************************************************************)
EXTENDS MultiSigWallet, TLC

CONSTANTS alice, bob, carol, pool, oracle

MCInitialOwners == <<alice, bob>>
=============================================================================
