---------------------------- MODULE TokenMirror ----------------------------
(***************************************************************************)
(* What the backend knows of a token: its price, symbol and logo, in one   *)
(* Redis record and one row of MySQL's token_info.  Three jobs each fetch  *)
(* one of them, compare it with the record, write the record back and then *)
(* the row; the pool job reads the record, fills it from the row when      *)
(* Redis has none, and creates the row.  The jobs run side by side, and    *)
(* nothing makes a reading and a writing of the record one step.  The      *)
(* price job is started every minute whether or not it has ended, so runs  *)
(* of it overlap; the symbol and logo jobs have two hours.                 *)
(*                                                                         *)
(* Redis always answers; a statement of MySQL may fail.  The oracle's      *)
(* prices are numbered in the order it had them.                           *)
(***************************************************************************)
EXTENDS Integers, FiniteSets

CONSTANTS
  contractSymbol,   \* symbol() of the token's contract
  logoOfList,       \* what the logo list says of it ...
  symbolOfList,
  absent,           \* no record, no row
  PriceRuns,        \* bound: runs of the price job at a time
  ScheduledPrice,   \* the one that is started again and again
  MaxAlongside,     \* bound: other jobs running at a time
  MaxPrices,        \* bound: the oracle's prices are 1 .. MaxPrices
  MaxTokenFaults    \* bound: failures and restarts

SymbolRun == "UpdateContractSymbol"
LogoRun == "UpdateTokenLogo"
PoolRun == "GetTokenInfo"
Jobs == PriceRuns \cup {SymbolRun, LogoRun}
TokenRuns == Jobs \cup {PoolRun}

ASSUME TokenMirrorAssumption ==
  /\ MaxPrices \in Nat \ {0} /\ MaxTokenFaults \in Nat /\ MaxAlongside \in Nat
  /\ ScheduledPrice \in PriceRuns /\ PriceRuns \cap {SymbolRun, LogoRun, PoolRun} = {}

VARIABLES
  oracle,       \* the oracle's price of the token
  redisToken,   \* the record token_info:chain:token
  tokenRow,     \* its row of token_info
  tokenRuns,    \* each run's place and local variables
  missed,       \* history: a price could not be saved
  overwritten,  \* history: the price saved last is older than the one it replaced
  tokenFaults
history == <<missed, overwritten>>
tokenVars == <<oracle, redisToken, tokenRow, tokenRuns, history, tokenFaults>>

resting == [at |-> "idle"]
empty == [price |-> 0, symbol |-> "", logo |-> ""]   \* price '': 0

TokenInit ==
  /\ oracle = 1 /\ redisToken = absent /\ tokenRow = absent
  /\ tokenRuns = [r \in TokenRuns |-> resting]
  /\ missed = FALSE /\ overwritten = FALSE /\ tokenFaults = 0

(* What a job fetches, and the fields it sets.                             *)
with(record, r, value) ==
  CASE r = SymbolRun -> [record EXCEPT !.symbol = value]
    [] r = LogoRun   -> [record EXCEPT !.logo = value, !.symbol = symbolOfList]
    [] OTHER         -> [record EXCEPT !.price = value]

(* The field by which CheckPriceData, CheckSymbolData and CheckLogoData    *)
(* see whether there is something new.                                     *)
known(record, r) ==
  CASE r = SymbolRun -> record.symbol
    [] r = LogoRun   -> record.logo
    [] OTHER         -> record.price

Alongside == {r \in Jobs \ {ScheduledPrice} : tokenRuns[r] # resting}
Fault == tokenFaults < MaxTokenFaults /\ tokenFaults' = tokenFaults + 1
ends(r) == tokenRuns' = [tokenRuns EXCEPT ![r] = resting]
-----------------------------------------------------------------------------
(* The price and symbol jobs go through the rows there are, the logo job   *)
(* through its lists.                                                      *)
Fetch(r) ==
  /\ tokenRuns[r].at = "idle"
  /\ r = ScheduledPrice \/ Cardinality(Alongside) < MaxAlongside
  /\ r = LogoRun \/ tokenRow # absent
  /\ tokenRuns' = [tokenRuns EXCEPT ![r] =
       [at |-> "check",
        value |-> CASE r = SymbolRun -> contractSymbol [] r = LogoRun -> logoOfList
                    [] OTHER -> oracle]]
  /\ UNCHANGED <<oracle, redisToken, tokenRow, history, tokenFaults>>

CheckUnknown_CachesOnly(r) ==
  /\ tokenRuns[r].at = "check" /\ redisToken = absent
  /\ redisToken' = with(empty, r, tokenRuns[r].value)
  /\ ends(r)
  /\ UNCHANGED <<oracle, tokenRow, history, tokenFaults>>

(* No record: CheckTokenInfo creates the row if there is none (that it     *)
(* fails is logged), and the record will have this job's fields only.      *)
CheckUnknown(r) ==
  /\ tokenRuns[r].at = "check" /\ redisToken = absent
  /\ \/ tokenRow' = (IF tokenRow = absent THEN empty ELSE tokenRow) /\ UNCHANGED tokenFaults
     \/ tokenRow = absent /\ Fault /\ UNCHANGED tokenRow
  /\ tokenRuns' = [tokenRuns EXCEPT ![r] =
       [at |-> "set", value |-> @.value, record |-> with(empty, r, @.value)]]
  /\ UNCHANGED <<oracle, redisToken, history>>

CheckKnown(r) ==
  /\ tokenRuns[r].at = "check" /\ redisToken # absent
  /\ tokenRuns' = [tokenRuns EXCEPT ![r] =
       IF known(redisToken, r) = @.value THEN resting
       ELSE [at |-> "set", value |-> @.value, record |-> with(redisToken, r, @.value)]]
  /\ UNCHANGED <<oracle, redisToken, tokenRow, history, tokenFaults>>

SetRecord(r) ==
  /\ tokenRuns[r].at = "set"
  /\ redisToken' = tokenRuns[r].record
  /\ IF r = PoolRun THEN ends(r)
     ELSE tokenRuns' = [tokenRuns EXCEPT ![r] = [at |-> "save", value |-> @.value]]
  /\ UNCHANGED <<oracle, tokenRow, history, tokenFaults>>

(* SavePriceData, SaveSymbolData, SaveLogoData: an update of no row is no  *)
(* error.                                                                  *)
Save(r) ==
  /\ tokenRuns[r].at = "save"
  /\ tokenRow' = IF tokenRow = absent THEN absent ELSE with(tokenRow, r, tokenRuns[r].value)
  /\ overwritten' = IF r \in PriceRuns /\ tokenRow # absent
                    THEN tokenRuns[r].value < tokenRow.price ELSE overwritten
  /\ ends(r)
  /\ UNCHANGED <<oracle, redisToken, missed, tokenFaults>>

SaveFails(r) ==
  /\ tokenRuns[r].at = "save" /\ Fault
  /\ ends(r)
  /\ missed' = (r \in PriceRuns)
  /\ UNCHANGED <<oracle, redisToken, tokenRow, overwritten>>

(* The pool job: without a record it will keep the row's as one.           *)
GetTokenInfo ==
  /\ tokenRuns[PoolRun].at = "idle"
  /\ redisToken = absent /\ tokenRow # absent
  /\ tokenRuns' = [tokenRuns EXCEPT ![PoolRun] = [at |-> "set", record |-> tokenRow]]
  /\ UNCHANGED <<oracle, redisToken, tokenRow, history, tokenFaults>>

(* ... and in SavePoolBase it creates the row.                             *)
SaveTokenInfo ==
  /\ tokenRow = absent
  /\ tokenRow' = empty
  /\ UNCHANGED <<oracle, redisToken, tokenRuns, history, tokenFaults>>

PriceMoves ==
  /\ oracle < MaxPrices /\ oracle' = oracle + 1
  /\ UNCHANGED <<redisToken, tokenRow, tokenRuns, history, tokenFaults>>

(* The process ends, and Task starts with RedisFlushDB.                    *)
RestartJobs ==
  /\ Fault
  /\ redisToken' = absent
  /\ tokenRuns' = [r \in TokenRuns |-> resting]
  /\ UNCHANGED <<oracle, tokenRow, history>>

JobGoesOn(r) == CheckUnknown(r) \/ CheckKnown(r) \/ SetRecord(r) \/ Save(r)

(* Bound: once a price was missed, nothing more is followed.               *)
TokenNext ==
  /\ ~missed
  /\ \/ \E r \in Jobs : Fetch(r) \/ JobGoesOn(r) \/ SaveFails(r)
     \/ GetTokenInfo \/ SetRecord(PoolRun) \/ SaveTokenInfo
     \/ PriceMoves \/ RestartJobs

-----------------------------------------------------------------------------
(* The database's price of a token the pools use comes to be the oracle's, *)
(* although other jobs write the record back with the price they had read, *)
(* fill it from the row, or find it gone, and runs overtake each other.    *)
(* Not when a price could not be saved, or a run saved the price it had    *)
(* read over the later one of another: neither is tried again.             *)
TokenPriceMirrored ==
  <>[](missed \/ overwritten \/ (tokenRow # absent /\ tokenRow.price = oracle))
=============================================================================
