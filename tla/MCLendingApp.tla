---------------------------- MODULE MCLendingApp ----------------------------
(***************************************************************************)
(* The lending side of the frontend: the router mounts one page at a time, *)
(* and a page starts from the initial state of its hooks whatever was      *)
(* shown before.  So each page is explored from its own initial states,    *)
(* with the others at rest: the deposit form, a row of the order page, the *)
(* order page's lists, its faucet, and the market page under the header.   *)
(***************************************************************************)
EXTENDS LendingForm, OrderRow, HomePage, OrderList

CONSTANTS bsc, testnet

VARIABLE route   \* the page shown

Routes == {"form", "row", "home", "list", "faucet"}
appVars == <<route, formVars, rowVars, homeVars, listVars>>

MCstateOf == [c \in Networks |-> [k \in PoolKeys |-> IF c = bsc THEN 0 ELSE 1]]
MCStaked == [m \in Modes |-> {<<bsc, 1>>} \cup IF m = "Lend" THEN {<<testnet, 1>>} ELSE {}]
MCConnections == {<<bsc, "a">>, <<testnet, "a">>}
MCRowMoves == [k \in Components |-> IF k = "ClaimTime" THEN 1 ELSE 3]

(* A page that is not shown rests in one of its initial states.            *)
AtRest(r) ==
  CASE r = "form" -> chainId = undefined /\ form = useStates("Lend", FALSE)
    [] r = "row"  -> /\ row = [chain |-> bsc, state |-> 0, excess |-> TRUE,
                                followed |-> "Refund"]
                     /\ position = [w \in Connections |-> fresh]
    [] r = "home" -> wallet = Nothing
    [] r = "list" -> net = NoChain
    [] OTHER      -> TRUE

Init ==
  /\ route \in Routes
  /\ FormInit /\ RowInit /\ HomeInit /\ ListInit
  /\ here = <<bsc, "a">>
  /\ \A r \in Routes \ {route} : AtRest(r)

FormStep == route = "form" /\ FormNext /\ UNCHANGED <<route, rowVars, homeVars, listVars>>
RowStep  == route = "row" /\ RowNext /\ UNCHANGED <<route, formVars, homeVars, listVars>>
HomeStep == route = "home" /\ HomeNext /\ UNCHANGED <<route, formVars, rowVars, listVars>>
ListStep == route = "list" /\ OrdersNext /\ UNCHANGED <<route, formVars, rowVars, homeVars>>
FaucetStep == route = "faucet" /\ FaucetNext /\ UNCHANGED <<route, formVars, rowVars, homeVars>>

Next == FormStep \/ RowStep \/ HomeStep \/ ListStep \/ FaucetStep

(* Requests are answered, timers fire, and the wallet and the chain finish *)
(* what they were given.                                                   *)
Fairness ==
  /\ WF_formVars(route = "form" /\ CallEnds)
  /\ WF_rowVars(route = "row" /\ ClaimEnds)
  /\ WF_rowVars(route = "row" /\ ReadEnds(row.followed))
  /\ WF_rowVars(route = "row" /\ (RowEffect(row.followed) \/ setNum \/ sethasNoClaim))
  /\ \A c \in Networks : SF_homeVars(route = "home" /\ getPoolInfoHome(c))
  /\ WF_homeVars(route = "home" /\ Timeout)

Spec == Init /\ [][Next]_appVars /\ Fairness

(* No page's spinner turns without a reason.                               *)
SpinnersExplained == SpinnerExplained /\ RowSpinnerExplained /\ FaucetSpinnerExplained

(* The deposit form's pool and Header's name are of the wallet's chain,    *)
(* whatever it was switched to meanwhile, unless answers overtook each     *)
(* other, the form's last request failed, or the chain changed where       *)
(* Header did not see it.                                                  *)
PagesShowChain == InfoOfThisChain /\ HeaderNamesChain

(* However answers of two chains overtake each other, the market page ends *)
(* up with the pools of the wallet's chain.                                *)
HomeShownChain == route = "home" => HomeShowsChain
=============================================================================
