------------------------------ MODULE HomePage ------------------------------
(***************************************************************************)
(* The market page, pages/Dapp/Home, under components/Header.  Home asks   *)
(* for the pools one second after every render, of the chain its state Id  *)
(* had at that render, and every answer renders it again.  Header switches *)
(* the wallet's chain through services/PoolServer, which hides some of the *)
(* wallet's errors, and names a chain of its own (the recoil atom          *)
(* currency).                                                              *)
(***************************************************************************)
EXTENDS Integers, FiniteSets

CONSTANTS
  Networks,      \* the chains of currencyInfos
  Mainnet,       \* 56, BSC_Mainnet
  Nothing,       \* JavaScript's undefined
  PoolKeys,      \* keys of a chain's rows, 1, 2, ...
  stateOf,       \* chain -> key -> pool_data.state
  MaxMoves       \* bound: changes of the wallet's chain, and requests for one

ASSUME HomeAssumption ==
  /\ Mainnet \in Networks /\ Nothing \notin Networks
  /\ MaxMoves \in Nat /\ PoolKeys \subseteq Nat \ {0}
  /\ stateOf \in [Networks -> [PoolKeys -> 0 .. 4]]

VARIABLES
  wallet,      \* the wallet's chain
  moves,       \* how often it was asked to change, or changed
  home,        \* Home's state: Id, data, datastate, tab, and whether a row's popover is open
  timers,      \* <<Id, chainId>> of the renders whose timeout has not fired
  requests,    \* chains whose pools were asked for
  currency,    \* the chain Header names
  currentChainId,  \* the first chain Header saw
  prompts,     \* chains switchNetwork has asked the wallet for
  changes,     \* how often the wallet's chain changed
  switched,    \* promises of granted requests: <<the change it made, chain>>
  unseen,      \* history: the wallet's chain and Header's parted unnoticed
  stopped      \* history: a request failed with no timer and no other request left

headerVars == <<currency, currentChainId, prompts, changes, switched, unseen>>
homeVars == <<wallet, moves, home, timers, requests, headerVars, stopped>>

-----------------------------------------------------------------------------
(* The rows the page has: those of the chain the last answer was about.    *)
RowsOf(data) == IF data = Nothing THEN {} ELSE {<<data, k>> : k \in PoolKeys}
stateOfRow(r) == stateOf[r[1]][r[2]]

(* The three entries of the menu.                                          *)
Filter(rows, tab) ==
  CASE tab = "Live"     -> {r \in rows : stateOfRow(r) < 1}
    [] tab = "All"      -> rows
    [] tab = "Finished" -> {r \in rows : stateOfRow(r) >= 1}

HomeInit ==
  /\ wallet \in Networks \cup {Nothing} /\ moves = 0
  /\ home = [Id |-> Mainnet, data |-> Nothing, datastate |-> {}, tab |-> "Live",
             visible |-> FALSE]
  /\ timers = {<<Mainnet, wallet>>}
  /\ requests = {}
  /\ currency = IF wallet = Nothing THEN Mainnet ELSE wallet
  /\ currentChainId = wallet
  /\ prompts = {} /\ changes = 0 /\ switched = {}
  /\ unseen = FALSE /\ stopped = FALSE

(* A render runs the effect again: getPoolInfo is a new function each time.*)
Rendered_OnMountOnly(h, w) == UNCHANGED <<timers, stopped>>
Rendered(h, w) == timers' = timers \cup {<<h.Id, w>>} /\ stopped' = FALSE

-----------------------------------------------------------------------------
(* The timeout of a render: setId(chainId), and getPoolInfo of that        *)
(* render's Id.                                                            *)
Timeout ==
  /\ \E t \in timers :
       LET h == [home EXCEPT !.Id = t[2]] IN
       /\ home' = h
       /\ requests' = requests \cup {IF t[1] = Nothing THEN Mainnet ELSE t[1]}
       /\ timers' = (timers \ {t}) \cup (IF h = home THEN {} ELSE {<<h.Id, wallet>>})
  /\ UNCHANGED <<wallet, moves, headerVars, stopped>>

(* getPoolInfo's answer: the list, and its live part whatever the tab.     *)
getPoolInfoHome(c) ==
  /\ c \in requests
  /\ requests' = requests \ {c}
  /\ home' = [home EXCEPT !.data = c, !.datastate = Filter(RowsOf(c), "Live")]
  /\ Rendered(home', wallet)
  /\ UNCHANGED <<wallet, moves, headerVars>>

(* It failed, or was answered without data: the catch renders nothing, so  *)
(* without another render the page asks no more.                           *)
getPoolInfoHomeFails(c) ==
  /\ c \in requests
  /\ requests' = requests \ {c}
  /\ stopped' = (timers = {} /\ requests' = {})
  /\ UNCHANGED <<wallet, moves, home, timers, headerVars>>

(* settab and setdatastate.                                                *)
menu(tab) ==
  /\ home' = [home EXCEPT !.tab = tab, !.datastate = Filter(RowsOf(home.data), tab)]
  /\ home' # home
  /\ Rendered(home', wallet)
  /\ UNCHANGED <<wallet, moves, requests, headerVars>>

(* Detail on a row of the table: both handlers of the click, the button's  *)
(* and the popover's (handleVisibleChange).  Which row's popover it is     *)
(* (coin, show, pid) is left out: a click on another row renders as well.  *)
columns ==
  /\ home.datastate # {}
  /\ home.visible => Cardinality(home.datastate) > 1
  /\ home' = [home EXCEPT !.visible = TRUE]
  /\ Rendered(home', wallet)
  /\ UNCHANGED <<wallet, moves, requests, headerVars>>

(* The popover's close button.                                             *)
content ==
  /\ home.visible
  /\ home' = [home EXCEPT !.visible = FALSE]
  /\ Rendered(home', wallet)
  /\ UNCHANGED <<wallet, moves, requests, headerVars>>

-----------------------------------------------------------------------------
(* Header's effect on [chainId], which only takes the first chain it sees, *)
(* and Home's render.                                                      *)
useHeaderEffect(c) ==
  /\ IF currentChainId = Nothing
     THEN currentChainId' = c /\ currency' = c
     ELSE UNCHANGED <<currentChainId, currency>>
  /\ Rendered(home, c)

(* handleClick: wallet_switchEthereumChain for an entry of the menu.       *)
handleClick(c) ==
  /\ moves < MaxMoves /\ moves' = moves + 1
  /\ c \notin prompts /\ prompts' = prompts \cup {c}
  /\ UNCHANGED <<wallet, home, timers, requests, currency, currentChainId, changes,
                 switched, unseen, stopped>>

(* switchNetwork: the wallet switches, which the page sees ...             *)
Switched(c) ==
  /\ c \in prompts /\ prompts' = prompts \ {c}
  /\ wallet' = c /\ changes' = changes + 1
  /\ switched' = switched \cup {<<changes', c>>}
  /\ IF c = wallet THEN UNCHANGED <<timers, stopped, currency, currentChainId>>
     ELSE useHeaderEffect(c)
  /\ UNCHANGED <<moves, home, requests, unseen>>

(* ... and the promise is answered, when the chain may have changed again: *)
(* handleClick's then.                                                     *)
SwitchAnswered(a) ==
  /\ a \in switched /\ switched' = switched \ {a}
  /\ currency' = a[2]
  /\ unseen' = (a[1] # changes)
  /\ UNCHANGED <<wallet, moves, home, timers, requests, currentChainId, prompts, changes,
                 stopped>>

(* Or the user refuses (4001): the second request, without parameters, is  *)
(* rejected, and the menu keeps its entry ...                              *)
switchRejected(c) == UNCHANGED currency
Rejected(c) ==
  /\ c \in prompts /\ prompts' = prompts \ {c}
  /\ switchRejected(c)
  /\ UNCHANGED <<wallet, moves, home, timers, requests, currentChainId, changes, switched,
                 unseen, stopped>>

(* ... or it fails otherwise, or does not know the chain and is not made   *)
(* to add it (4902): swallowed, and Header names the chain all the same.   *)
SwitchSwallowed(c) ==
  /\ c \in prompts /\ prompts' = prompts \ {c}
  /\ currency' = c
  /\ unseen' = TRUE
  /\ UNCHANGED <<wallet, moves, home, timers, requests, currentChainId, changes, switched,
                 stopped>>

(* The user changes the chain in the wallet, or connects it.               *)
ChangedInWallet(c) ==
  /\ moves < MaxMoves /\ moves' = moves + 1
  /\ c # wallet /\ wallet' = c /\ changes' = changes + 1
  /\ useHeaderEffect(c)
  /\ unseen' = (unseen \/ currentChainId # Nothing)
  /\ UNCHANGED <<home, requests, prompts, switched>>

HomeNext ==
  \/ Timeout
  \/ \E c \in Networks : \/ getPoolInfoHome(c) \/ getPoolInfoHomeFails(c)
                         \/ handleClick(c) \/ Switched(c) \/ Rejected(c)
                         \/ SwitchSwallowed(c) \/ ChangedInWallet(c)
  \/ \E a \in switched : SwitchAnswered(a)
  \/ \E tab \in {"Live", "All", "Finished"} : menu(tab)
  \/ columns \/ content

-----------------------------------------------------------------------------
(* However answers of two chains overtake each other, and whatever fails,  *)
(* the page comes to show the pools of the wallet's chain and keeps        *)
(* showing them, unless a failed request was its last.                     *)
HomeShowsChain ==
  <>[](stopped \/ home.data = IF wallet = Nothing THEN Mainnet ELSE wallet)

(* Header names the wallet's chain once the promises are answered: also    *)
(* when answers came in another order than the switches, if the latest     *)
(* came last.  Not after an error of the wallet was hidden from it, the    *)
(* chain changed elsewhere, or an answer was overtaken by a later one.     *)
HeaderNamesChain ==
  switched = {} /\ ~unseen /\ wallet # Nothing => currency = wallet
=============================================================================
