----------------------------- MODULE PoolMirror -----------------------------
(***************************************************************************)
(* The backend's job UpdatePoolInfo: it reads a pool from its contract and *)
(* writes the tables poolbases and pooldata, which the frontend is served  *)
(* from, when a digest of what it read differs from the one Redis keeps    *)
(* for half an hour.  Runs of the job overlap, for a slow node does not    *)
(* delay the next; statements fail, which is logged only; and a restart    *)
(* flushes Redis.                                                          *)
(*                                                                         *)
(* A digest is taken of the structure PoolBase.  SavePoolBase stamps that  *)
(* structure with the time, and the digest of the pool's data is taken of  *)
(* it too, so after a save it equals no other digest.  (It also replaces   *)
(* the structure's two symbols by token_info's; they are not told apart    *)
(* from the record's here.)                                                *)
(***************************************************************************)
EXTENDS Integers

CONSTANTS
  PoolRuns,        \* runs of the job that may overlap
  Scheduled,       \* the one the scheduler is sure to start again
  none,            \* no record, no row
  stamped,         \* a structure with the time in it
  MaxMirrorMoves,  \* bound: changes of the pool and of its token's information
  MaxPoolFaults    \* bound: failures and restarts

ASSUME PoolMirrorAssumption ==
  /\ Scheduled \in PoolRuns /\ none # stamped
  /\ MaxMirrorMoves \in Nat /\ MaxPoolFaults \in Nat

VARIABLES
  onChain,     \* the contract's PoolBaseInfo and PoolDataInfo, as versions
  token,       \* version of what GetTokenInfo answers for the pool's tokens
  digests,     \* Redis: base_info:pool_ and data_info:pool_
  poolbases,   \* MySQL: the pool's row, none or what it was made of
  pooldata,    \* none or a version of PoolDataInfo
  poolRuns,    \* each run's place and local variables
  poolMoves, poolFaults
mirrorVars == <<onChain, token, digests, poolbases, pooldata, poolRuns, poolMoves, poolFaults>>

idle == [at |-> "idle"]

RedisSet_ForEver(key, digest, aliveSeconds) ==
  digests' = [digests EXCEPT ![key] = [digest |-> digest, expires |-> FALSE]]

(* db.RedisSet with a number of seconds, or for ever with 0.               *)
RedisSet(key, digest, aliveSeconds) ==
  digests' = [digests EXCEPT ![key] = [digest |-> digest, expires |-> aliveSeconds > 0]]

(* Only a digest without a time in it is ever found again.                 *)
hasNewData(key, digest) ==
  digests[key] = none \/ digests[key].digest # digest \/ digest = stamped

goto(r, place) == poolRuns' = [poolRuns EXCEPT ![r].at = place]

MirrorInit ==
  /\ onChain = [base |-> 0, data |-> 0] /\ token = 0
  /\ digests = [base |-> none, data |-> none]
  /\ poolbases = none /\ pooldata = none
  /\ poolRuns = [r \in PoolRuns |-> idle]
  /\ poolMoves = 0 /\ poolFaults = 0

-----------------------------------------------------------------------------
PoolBaseInfo(r) ==
  /\ poolRuns[r].at = "idle"
  /\ poolRuns' = [poolRuns EXCEPT ![r] = [at |-> "token", base |-> onChain.base]]
  /\ UNCHANGED <<onChain, token, digests, poolbases, pooldata, poolMoves, poolFaults>>

(* GetTokenInfo of both tokens: the structure is complete.                 *)
TokenInfo(r) ==
  /\ poolRuns[r].at = "token"
  /\ poolRuns' = [poolRuns EXCEPT ![r] =
       [at |-> "checkBase", poolBase |-> <<poolRuns[r].base, token>>]]
  /\ UNCHANGED <<onChain, token, digests, poolbases, pooldata, poolMoves, poolFaults>>

CheckBase(r) ==
  /\ poolRuns[r].at = "checkBase"
  /\ goto(r, IF hasNewData("base", poolRuns[r].poolBase) THEN "saveBase" ELSE "readData")
  /\ UNCHANGED <<onChain, token, digests, poolbases, pooldata, poolMoves, poolFaults>>

(* The digest to keep is the one taken before the save.                    *)
afterSave(run, stamp) ==
  [at |-> "keepBase", digest |-> run.poolBase,
   poolBase |-> IF stamp THEN stamped ELSE run.poolBase]

SavePoolBase(r) ==
  /\ poolRuns[r].at = "saveBase"
  /\ poolbases' = poolRuns[r].poolBase
  /\ poolRuns' = [poolRuns EXCEPT ![r] = afterSave(poolRuns[r], TRUE)]
  /\ UNCHANGED <<onChain, token, digests, pooldata, poolMoves, poolFaults>>

(* It fails in SaveTokenInfo or the selection, before the structure is     *)
(* stamped, in Create or Updates, after, or in Updates after Create.       *)
SavePoolBaseFails(r) ==
  /\ poolRuns[r].at = "saveBase"
  /\ poolFaults < MaxPoolFaults /\ poolFaults' = poolFaults + 1
  /\ \E stamp \in BOOLEAN :
       /\ poolRuns' = [poolRuns EXCEPT ![r] = afterSave(poolRuns[r], stamp)]
       /\ \/ UNCHANGED poolbases
          \/ stamp /\ poolbases = none /\ poolbases' = poolRuns[r].poolBase
  /\ UNCHANGED <<onChain, token, digests, pooldata, poolMoves>>

KeepBaseDigest(r) ==
  /\ poolRuns[r].at = "keepBase"
  /\ RedisSet("base", poolRuns[r].digest, 60 * 30)
  /\ poolRuns' = [poolRuns EXCEPT ![r] = [at |-> "readData", poolBase |-> poolRuns[r].poolBase]]
  /\ UNCHANGED <<onChain, token, poolbases, pooldata, poolMoves, poolFaults>>

PoolDataInfo(r) ==
  /\ poolRuns[r].at = "readData"
  /\ poolRuns' = [poolRuns EXCEPT ![r] =
       [at |-> "checkData", poolBase |-> poolRuns[r].poolBase, dataInfo |-> onChain.data]]
  /\ UNCHANGED <<onChain, token, digests, poolbases, pooldata, poolMoves, poolFaults>>

CheckData(r) ==
  /\ poolRuns[r].at = "checkData"
  /\ IF hasNewData("data", poolRuns[r].poolBase)
     THEN goto(r, "saveData")
     ELSE poolRuns' = [poolRuns EXCEPT ![r] = idle]
  /\ UNCHANGED <<onChain, token, digests, poolbases, pooldata, poolMoves, poolFaults>>

SavePoolData(r) ==
  /\ poolRuns[r].at = "saveData"
  /\ pooldata' = poolRuns[r].dataInfo
  /\ goto(r, "keepData")
  /\ UNCHANGED <<onChain, token, digests, poolbases, poolMoves, poolFaults>>

SavePoolDataFails(r) ==
  /\ poolRuns[r].at = "saveData"
  /\ poolFaults < MaxPoolFaults /\ poolFaults' = poolFaults + 1
  /\ UNCHANGED pooldata \/ (pooldata = none /\ pooldata' = poolRuns[r].dataInfo)
  /\ goto(r, "keepData")
  /\ UNCHANGED <<onChain, token, digests, poolbases, poolMoves>>

KeepDataDigest(r) ==
  /\ poolRuns[r].at = "keepData"
  /\ RedisSet("data", poolRuns[r].poolBase, 60 * 30)
  /\ poolRuns' = [poolRuns EXCEPT ![r] = idle]
  /\ UNCHANGED <<onChain, token, poolbases, pooldata, poolMoves, poolFaults>>

(* The node does not answer: the loop goes on with the next pool.          *)
PoolDataInfoFails(r) ==
  /\ poolRuns[r].at = "readData"
  /\ poolFaults < MaxPoolFaults /\ poolFaults' = poolFaults + 1
  /\ poolRuns' = [poolRuns EXCEPT ![r] = idle]
  /\ UNCHANGED <<onChain, token, digests, poolbases, pooldata, poolMoves>>

Progress(r) ==
  \/ TokenInfo(r) \/ CheckBase(r) \/ SavePoolBase(r) \/ KeepBaseDigest(r)
  \/ PoolDataInfo(r) \/ CheckData(r) \/ SavePoolData(r) \/ KeepDataDigest(r)
-----------------------------------------------------------------------------
(* Redis drops a record whose time is over.                                *)
Expire(key) ==
  /\ digests[key] # none /\ digests[key].expires
  /\ digests' = [digests EXCEPT ![key] = none]
  /\ UNCHANGED <<onChain, token, poolbases, pooldata, poolRuns, poolMoves, poolFaults>>

(* A transaction of the pool: every one changes the base information, and  *)
(* a settlement or a close the data too.                                   *)
PoolChanges ==
  /\ poolMoves < MaxMirrorMoves /\ poolMoves' = poolMoves + 1
  /\ \E d \in {onChain.data, onChain.data + 1} :
       onChain' = [base |-> onChain.base + 1, data |-> d]
  /\ UNCHANGED <<token, digests, poolbases, pooldata, poolRuns, poolFaults>>

TokenChanges ==
  /\ poolMoves < MaxMirrorMoves /\ poolMoves' = poolMoves + 1
  /\ token' = token + 1
  /\ UNCHANGED <<onChain, digests, poolbases, pooldata, poolRuns, poolFaults>>

(* The process ends, and Task starts with RedisFlushDB.                    *)
RestartSchedule ==
  /\ poolFaults < MaxPoolFaults /\ poolFaults' = poolFaults + 1
  /\ digests' = [base |-> none, data |-> none]
  /\ poolRuns' = [r \in PoolRuns |-> idle]
  /\ UNCHANGED <<onChain, token, poolbases, pooldata, poolMoves>>

MirrorNext ==
  \/ \E r \in PoolRuns :
       \/ PoolBaseInfo(r) \/ Progress(r)
       \/ SavePoolBaseFails(r) \/ SavePoolDataFails(r) \/ PoolDataInfoFails(r)
  \/ \E key \in {"base", "data"} : Expire(key)
  \/ PoolChanges \/ TokenChanges \/ RestartSchedule

-----------------------------------------------------------------------------
(* Once the pool rests, the tables come to hold it and go on holding it,   *)
(* whatever failed, overlapped or was restarted before: a digest kept for  *)
(* something that was not saved, or was overwritten by an older run,       *)
(* expires.                                                                *)
PoolRowsMirrored ==
  <>[](poolbases = <<onChain.base, token>> /\ pooldata = onChain.data)
=============================================================================
