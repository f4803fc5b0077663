------------------------------ MODULE Settings ------------------------------
(***************************************************************************)
(* The settings of the exchange: the slippage tolerance and the deadline   *)
(* of state/user, which the localStorage keeps, the modal that changes     *)
(* them while they are typed and warns of a risky tolerance, and the bips  *)
(* that transactions make of it.                                           *)
(*                                                                         *)
(* The field is a percentage and the store a number of bips, both floating *)
(* point.  Here both are counted in units, BIP to a bip, one of which      *)
(* stands for an error of rounding: 0.29 times 100 is 28.999999999999996,  *)
(* one unit short of 29 bips.                                              *)
(***************************************************************************)
EXTENDS Integers

CONSTANTS
  NotANumber,          \* what parseFloat and parseInt make of an empty field
  BIP,                 \* units to a bip
  Tolerances,          \* the numbers of the field and the store
  timesHundred, overHundred,  \* the field's as bips, and the store's as a percentage
  TypedMinutes,
  INITIAL_ALLOWED_SLIPPAGE, DEFAULT_DEADLINE_FROM_NOW,
  MAX_SLIPPAGE, RISKY_SLIPPAGE_LOW, RISKY_SLIPPAGE_HIGH

predefinedValues == {10 * BIP, 50 * BIP, 100 * BIP}

(* A product is off by no more than a unit, and dividing a stored one and  *)
(* multiplying again yields it.                                            *)
ASSUME SettingsAssumption ==
  /\ BIP \in Nat /\ BIP > 4
  /\ predefinedValues \cup {INITIAL_ALLOWED_SLIPPAGE * BIP} \subseteq Tolerances
  /\ Tolerances \subseteq Int /\ TypedMinutes \subseteq Int /\ NotANumber \notin Int
  /\ timesHundred \in [Tolerances -> Tolerances] /\ overHundred \in [Tolerances -> Tolerances]
  /\ \A v \in Tolerances : /\ timesHundred[v] - v \in -1 .. 1
                           /\ timesHundred[overHundred[timesHundred[v]]] = timesHundred[v]
  /\ timesHundred[INITIAL_ALLOWED_SLIPPAGE * BIP] = INITIAL_ALLOWED_SLIPPAGE * BIP
  /\ 0 < RISKY_SLIPPAGE_LOW /\ RISKY_SLIPPAGE_LOW < RISKY_SLIPPAGE_HIGH
  /\ RISKY_SLIPPAGE_HIGH < MAX_SLIPPAGE
  /\ INITIAL_ALLOWED_SLIPPAGE \in RISKY_SLIPPAGE_LOW .. RISKY_SLIPPAGE_HIGH
  /\ DEFAULT_DEADLINE_FROM_NOW \in Nat \ {0} /\ DEFAULT_DEADLINE_FROM_NOW % 60 = 0

VARIABLES
  userSlippageTolerance, userDeadline,  \* state.user's
  settings  \* the modal's useStates; "retyped": history, the tolerance stored
            \* became the field's value again after an invalid one

settingsVars == <<userSlippageTolerance, userDeadline, settings>>

closedSettings ==
  [open |-> FALSE, value |-> NotANumber, error |-> "", retyped |-> FALSE,
   minutes |-> NotANumber, deadlineError |-> ""]

SettingsInit ==
  /\ userSlippageTolerance = INITIAL_ALLOWED_SLIPPAGE * BIP
  /\ userDeadline = DEFAULT_DEADLINE_FROM_NOW
  /\ settings = closedSettings

-----------------------------------------------------------------------------
rawValue(v) == IF v = NotANumber THEN NotANumber ELSE timesHundred[v]
validTolerance(raw) == raw # NotANumber /\ raw > 0 /\ raw < MAX_SLIPPAGE * BIP
validMinutes(v) == v # NotANumber /\ v * 60 > 0

riskOf(tolerance) ==
  CASE tolerance < RISKY_SLIPPAGE_LOW * BIP  -> "may fail"
    [] tolerance > RISKY_SLIPPAGE_HIGH * BIP -> "may be frontrun"
    [] OTHER -> ""

(* The two effects, in their order: the first stores a valid value and     *)
(* clears the message; the second, when the tolerance in the store is      *)
(* another one or the modal just opened, sets the warning of a risky one.  *)
messageAfter_WarningFirst(raw, risk) == IF validTolerance(raw) THEN "" ELSE "invalid"
messageAfter(raw, risk) ==
  CASE risk # "" -> risk
    [] risk = "" /\ validTolerance(raw) -> ""
    [] OTHER -> "invalid"

openSettings ==
  /\ ~settings.open
  /\ settings' = [open |-> TRUE, value |-> overHundred[userSlippageTolerance],
                  retyped |-> FALSE,
                  error |-> messageAfter(userSlippageTolerance, riskOf(userSlippageTolerance)),
                  minutes |-> userDeadline \div 60, deadlineError |-> ""]
  /\ UNCHANGED <<userSlippageTolerance, userDeadline>>

(* The same value renders nothing, and no effect runs.                     *)
setTolerance(v) ==
  LET raw == rawValue(v) IN
  /\ settings.open /\ v # settings.value
  /\ userSlippageTolerance' = IF validTolerance(raw) THEN raw ELSE userSlippageTolerance
  /\ LET anew == userSlippageTolerance' # userSlippageTolerance IN
     settings' = [settings EXCEPT
       !.value = v, !.retyped = ~anew /\ validTolerance(raw),
       !.error = messageAfter(raw, IF anew THEN riskOf(raw) ELSE "")]
  /\ UNCHANGED userDeadline

setMinutes(v) ==
  /\ settings.open /\ v # settings.minutes
  /\ userDeadline' = IF validMinutes(v) THEN v * 60 ELSE userDeadline
  /\ settings' = [settings EXCEPT !.minutes = v,
                    !.deadlineError = IF validMinutes(v) THEN "" ELSE "invalid"]
  /\ UNCHANGED userSlippageTolerance

dismissSettings ==
  /\ settings.open /\ settings' = closedSettings
  /\ UNCHANGED <<userSlippageTolerance, userDeadline>>

(* A reload keeps the store, in which updateVersion finds two numbers.     *)
ReloadSettings ==
  /\ settings' = closedSettings /\ UNCHANGED <<userSlippageTolerance, userDeadline>>

SettingsNext ==
  \/ openSettings \/ dismissSettings \/ ReloadSettings
  \/ \E v \in Tolerances \cup {NotANumber} : setTolerance(v)
  \/ \E v \in TypedMinutes \cup {NotANumber} : setMinutes(v)

-----------------------------------------------------------------------------
(* The bips of a stored tolerance: swaps round it down, and the pages of   *)
(* liquidity throw unless 10000 plus or minus it is a whole number, as it  *)
(* is when the tolerance is but an error of rounding off one.              *)
basisPointsToPercent(tolerance) == tolerance \div BIP
thrown == -1
calculateSlippageAmount(tolerance) ==
  LET bips == (tolerance + 1) \div BIP IN
  IF tolerance - bips * BIP \in -1 .. 1 THEN bips ELSE thrown

(* Swaps use the bips of the field, rounded down as its product is; so do  *)
(* the pages of liquidity, but rounded to the nearest, and they only fail  *)
(* when the field says no whole number of them.                            *)
UsedAs(v) ==
  LET liquidity == calculateSlippageAmount(userSlippageTolerance) IN
  /\ basisPointsToPercent(userSlippageTolerance) \in {(v + d) \div BIP : d \in -1 .. 1}
  /\ liquidity # thrown => v - liquidity * BIP \in -2 .. 2
  /\ liquidity = thrown => v % BIP # 0

(* While the modal is open, what its valid fields say is what transactions *)
(* use, to a bip, and a risky tolerance is warned of, whatever was typed   *)
(* before: but for a risky one that was typed, cleared and typed again,    *)
(* whose warning the first effect takes away and the second does not set   *)
(* again.                                                                  *)
SettingsShown ==
  settings.open =>
    /\ validTolerance(rawValue(settings.value)) => UsedAs(settings.value)
    /\ validMinutes(settings.minutes) => settings.minutes * 60 = userDeadline
    /\ validTolerance(rawValue(settings.value)) /\ ~settings.retyped =>
         settings.error = riskOf(userSlippageTolerance)
=============================================================================
