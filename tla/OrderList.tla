----------------------------- MODULE OrderList -----------------------------
(***************************************************************************)
(* The order page, pages/Dapp/Market_Mode: the pools a wallet has lent to  *)
(* or borrowed from, on the chain it is connected to, and the faucet that  *)
(* takes the page's place in mode Provide (components/TestnetTokens).      *)
(*                                                                         *)
(* pidlend and pidborrow are one array each for the life of the page:      *)
(* answers push rows onto them, setdatalend and setdataborrow always get   *)
(* the same array, so React renders a push only along with something else, *)
(* and a change of chain leaves the rows of the chain before.  A timer of  *)
(* each visit renders by setting time to the number of that visit's render *)
(* plus one, which changes nothing when another visit's has set it.        *)
(***************************************************************************)
EXTENDS Integers, Sequences, FiniteSets

CONSTANTS
  Nets,        \* the chains
  NoChain,     \* JavaScript's undefined
  RowKeys,        \* keys of a chain's pools
  Staked,      \* Staked[mode]: the <<chain, key>> whose stakeAmount is not '0'
  Coins,       \* the faucet's tokens
  MaxVisits,   \* bound: chains the page is shown on, one after the other
  MaxLate,     \* bound: requests unanswered when the chain changes
  MaxFaucets   \* bound: clicks of the faucet

ASSUME ListAssumption == MaxVisits \in Nat /\ MaxLate \in Nat /\ MaxFaucets \in Nat

Modes == {"Lend", "Borrow"}

VARIABLES
  net,        \* the wallet's chain
  visits,     \* the chains it has been on
  infos,      \* unanswered getpoolBaseInfo: <<visit, chain, time of its render>>
  datas,      \* visits whose getpoolDataInfo is unanswered
  users,      \* unanswered getuserLendInfo and getuserBorrowInfo
  pid,        \* pidlend and pidborrow
  data,       \* datalend and databorrow are still [], or that array
  loaded,     \* which of datainfo1 and datastate have been set
  drawn,      \* the rows of the last render
  time,       \* the number the timers set
  ticks,      \* one-second timers running: <<visit, number>>
  late,       \* history: a row came when no timer was left to draw it, and
              \* nothing has rendered since
  loading,    \* the faucet's spinners
  faucets,    \* faucet transactions under way
  nextFaucet  \* how many were asked for

rowsVars == <<pid, data, loaded, drawn, time, ticks, late>>
faucetVars == <<loading, faucets, nextFaucet>>
listVars == <<net, visits, infos, datas, users, rowsVars, faucetVars>>

-----------------------------------------------------------------------------
(* What a render shows: datalend and databorrow, as long as they are now,  *)
(* and nothing before both of the pools' lists are there.                  *)
Draw(p, d, l) ==
  [m \in Modes |-> IF d[m] = "pid" /\ l = {"datainfo1", "datastate"} THEN p[m] ELSE << >>]
Renders == drawn' = Draw(pid', data', loaded') /\ late' = FALSE

ListInit ==
  /\ net \in Nets \cup {NoChain}
  /\ visits = IF net = NoChain THEN << >> ELSE <<net>>
  /\ infos = IF net = NoChain THEN {} ELSE {<<1, net, 0>>}
  /\ datas = IF net = NoChain THEN {} ELSE {1}
  /\ users = {}
  /\ pid = [m \in Modes |-> << >>] /\ data = [m \in Modes |-> "[]"]
  /\ loaded = {} /\ drawn = [m \in Modes |-> << >>]
  /\ time = 0 /\ ticks = {} /\ late = FALSE
  /\ loading = [c \in Coins |-> FALSE] /\ faucets = {} /\ nextFaucet = 0

(* The effect on [chainId]: nothing is asked without a chain.              *)
ChangeChain(c) ==
  /\ Len(visits) < MaxVisits /\ c # net
  /\ Cardinality(infos) + Cardinality(datas) + Cardinality(users) <= MaxLate
  /\ net' = c /\ visits' = Append(visits, c)
  /\ infos' = infos \cup {<<Len(visits'), c, time>>}
  /\ datas' = datas \cup {Len(visits')}
  /\ UNCHANGED <<users, pid, data, loaded, time, ticks, faucetVars>>
  /\ Renders

(* getData: setdatainfo1 renders, of an answer with another code without   *)
(* data too; an error is swallowed.                                        *)
getData(v) ==
  /\ v \in datas /\ datas' = datas \ {v}
  /\ loaded' \in {loaded \cup {"datainfo1"}, loaded \ {"datainfo1"}}
  /\ UNCHANGED <<net, visits, infos, users, pid, data, time, ticks, faucetVars>>
  /\ Renders

getDataFails(v) ==
  /\ v \in datas /\ datas' = datas \ {v}
  /\ UNCHANGED <<net, visits, infos, users, rowsVars, faucetVars>>

(* getPoolInfo of Market_Mode: both questions for every pool, the timer,   *)
(* and setdatastate, which renders; an error is swallowed.                 *)
getPoolInfoRows(q) ==
  /\ q \in infos /\ infos' = infos \ {q}
  /\ users' = users \cup {<<m, q[1], q[2], k>> : m \in Modes, k \in RowKeys}
  /\ ticks' = ticks \cup {<<q[1], q[3] + 1>>}
  /\ loaded' = loaded \cup {"datastate"}
  /\ UNCHANGED <<net, visits, datas, pid, data, time, faucetVars>>
  /\ Renders

getPoolInfoRowsFails(q) ==
  /\ q \in infos /\ infos' = infos \ {q}
  /\ UNCHANGED <<net, visits, datas, users, rowsVars, faucetVars>>

hasStake_Any(m, r) == TRUE
hasStake(m, r) == r \in Staked[m]

(* stakeAmount '0' is left out; the list is set all the same, and rendered *)
(* the first time.                                                         *)
getuserInfo(q) ==
  LET m == q[1] r == <<q[3], q[4]>> IN
  /\ q \in users /\ users' = users \ {q}
  /\ pid' = IF hasStake(m, r) THEN [pid EXCEPT ![m] = Append(@, r)] ELSE pid
  /\ data' = [data EXCEPT ![m] = "pid"]
  /\ UNCHANGED <<net, visits, infos, datas, loaded, time, ticks, faucetVars>>
  /\ IF data' # data THEN Renders
     ELSE /\ late' = (late \/ (pid' # pid /\ \A t \in ticks : t[2] = time))
          /\ UNCHANGED drawn

(* The call failed: console.error.                                         *)
userInfoFailed(q) ==
  /\ q \in users /\ users' = users \ {q}
  /\ UNCHANGED <<net, visits, infos, datas, rowsVars, faucetVars>>

(* settime(time += 1), with the time of the render the timer was made at:  *)
(* React renders if that is another number than now.                       *)
settime ==
  /\ \E t \in ticks : ticks' = ticks \ {t} /\ time' = t[2]
  /\ UNCHANGED <<net, visits, infos, datas, users, pid, data, loaded, faucetVars>>
  /\ IF time' # time THEN Renders ELSE UNCHANGED <<drawn, late>>

-----------------------------------------------------------------------------
(* TestnetTokens: one button and one spinner per token.                    *)
getfaucet_transfer(c) ==
  /\ nextFaucet < MaxFaucets /\ nextFaucet' = nextFaucet + 1
  /\ loading' = [loading EXCEPT ![c] = TRUE]
  /\ faucets' = faucets \cup {<<nextFaucet, c>>}
  /\ UNCHANGED <<net, visits, infos, datas, users, rowsVars>>

(* Success or error: a notification, and the token's own spinner stops.    *)
faucetCallback(c) == [loading EXCEPT ![c] = FALSE]

FaucetEnds(f) ==
  /\ f \in faucets /\ faucets' = faucets \ {f}
  /\ loading' = faucetCallback(f[2])
  /\ UNCHANGED <<net, visits, infos, datas, users, rowsVars, nextFaucet>>

OrdersNext ==
  \/ \E c \in Nets : ChangeChain(c)
  \/ \E v \in datas : getData(v) \/ getDataFails(v)
  \/ \E q \in infos : getPoolInfoRows(q) \/ getPoolInfoRowsFails(q)
  \/ \E q \in users : getuserInfo(q) \/ userInfoFailed(q)
  \/ settime

FaucetNext ==
  \/ \E c \in Coins : getfaucet_transfer(c)
  \/ \E f \in faucets : FaucetEnds(f)

ListNext == OrdersNext \/ FaucetNext

-----------------------------------------------------------------------------
(* A pool the wallet has a stake in appears at most once for every time    *)
(* the page was shown on its chain, and never one without a stake.         *)
RowsPerVisit ==
  \A m \in Modes : \A i \in DOMAIN pid[m] :
    /\ pid[m][i] \in Staked[m]
    /\ Cardinality({j \in DOMAIN pid[m] : pid[m][j] = pid[m][i]})
         <= Cardinality({v \in DOMAIN visits : visits[v] = pid[m][i][1]})

(* Once its timers have fired, the page draws every row it has that came   *)
(* before the last of them, the last, that is, that still set another      *)
(* number; later rows wait for the next render.                            *)
AllDrawn == ticks = {} /\ ~late => drawn = Draw(pid, data, loaded)

(* Whatever order the answers of several visits and chains come in, the    *)
(* list has the wallet's rows, each no more than once a visit, and draws   *)
(* those that come while a timer is left to draw them.                     *)
OrdersShown == RowsPerVisit /\ AllDrawn

(* A token's spinner turns only while a transfer of that token is under    *)
(* way.                                                                    *)
FaucetSpinnerExplained ==
  \A c \in Coins : loading[c] => \E f \in faucets : f[2] = c
=============================================================================
