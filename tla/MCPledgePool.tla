---------------------------- MODULE MCPledgePool ----------------------------
(***************************************************************************)
(* Small instances of PledgePool for TLC.  A year is two ticks and a pool  *)
(* runs from tick 2 to tick 3, so a loan earns half a year of interest.    *)
(***************************************************************************)
EXTENDS PoolProperties, TLC

CONSTANTS u1, u2, usd, btc, sp1, jp1, sp2, jp2

Terms1 == [settleToken |-> usd, pledgeToken |-> btc, maxSupply |-> 3,
           interestRate |-> 10000, pledgeRate |-> 15000,
           liquidationRate |-> 13000, settleTime |-> 2, endTime |-> 3,
           spToken |-> sp1, jpToken |-> jp1]

(* A pool the other way round: its loans are paid in the pledge token of   *)
(* the first one, out of the same contract balance.                        *)
Terms2 == [Terms1 EXCEPT !.settleToken = btc, !.pledgeToken = usd,
                         !.spToken = sp2, !.jpToken = jp2]

MCTerms  == {Terms1}
MCNone   == {}

MCParity == {[t \in {usd, btc} |-> 1]}

(* A settle token is worth two or four pledge tokens: a pledge is then     *)
(* large enough for a fee of 10% on what the sale leaves of it.            *)
MCPrices == {[t \in {usd, btc} |-> IF t = btc THEN x ELSE 4] : x \in {1, 2}}

(* The DEX price need not be the oracle's: it is the same, or so high that *)
(* the proceeds exceed what is due.                                        *)
MCPar    == {[sell |-> 1, buy |-> 1]}
MCQuotes == {[sell |-> 4, buy |-> 1], [sell |-> 1, buy |-> 2]}

(* The pledge token has lost half its value.                               *)
MCFallen == {[sell |-> 2, buy |-> 1]}

Deployed(lendFee, borrowFee) ==
  [oracle |-> TRUE, swapRouter |-> TRUE, feeAddress |-> TRUE,
   lendFee |-> lendFee, borrowFee |-> borrowFee, minAmount |-> 0,
   globalPaused |-> FALSE]
MCConfigs == {Deployed(1000, 1000)}
MCFree    == {Deployed(0, 0)}

(* A contract just constructed, and then given its swap router.            *)
MCConstructed == {[oracle |-> FALSE, swapRouter |-> TRUE, feeAddress |-> FALSE,
                   lendFee |-> 0, borrowFee |-> 0, minAmount |-> 0,
                   globalPaused |-> FALSE]}

MCTwoPools == {Terms1, Terms2}

MCSetters == {"setPoolState", "setPoolSpToken", "setPoolJpToken", "setOracle",
              "setSwapRouterAddress", "setFeeAddress", "setPause",
              "setMinAmount", "setFee"}

MCSymmetry == Permutations({u1, u2})
=============================================================================
