----------------------------- MODULE BlockFeed -----------------------------
(***************************************************************************)
(* What state/application promises to whatever polls the chain with the    *)
(* block number (useBlockNumber): the number of each chain only rises, and *)
(* is the number of a block that chain has.                                *)
(***************************************************************************)
EXTENDS Naturals

CONSTANT FeedChains
VARIABLES tip, number   \* the last block of each chain, and the one recorded

feedVars == <<tip, number>>

FeedInit == /\ tip \in [FeedChains -> Nat]
            /\ number = [c \in FeedChains |-> 0]

Mined == /\ \E c \in FeedChains : tip' = [tip EXCEPT ![c] = @ + 1]
         /\ UNCHANGED number

Learned == /\ \E c \in FeedChains : \E n \in number[c] + 1 .. tip[c] :
                number' = [number EXCEPT ![c] = n]
           /\ UNCHANGED tip

(* A page that is loaded again knows no block.                             *)
Forgotten == number' = [c \in FeedChains |-> 0] /\ UNCHANGED tip

FeedSpec == FeedInit /\ [][Mined \/ Learned \/ Forgotten]_feedVars
=============================================================================
