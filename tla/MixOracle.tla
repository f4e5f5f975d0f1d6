----------------------------- MODULE MixOracle ------------------------------
(***************************************************************************)
(* The price of a token that only a liquidity pool knows                   *)
(* (contracts/oracles/MixOracle): the MixOracle asks the TarotPriceOracle  *)
(* of the pool for an average of the pool's price, and DebitaPyth for the  *)
(* price of the other token of the pair.                                   *)
(*                                                                         *)
(* The TarotPriceOracle keeps two slots, each a time and the cumulative    *)
(* price read from the pool at that time.  An answer is the difference of  *)
(* the cumulative price to that of one slot, divided by the time since; a  *)
(* call writes the other slot when the latest one is MIN_T old.  The pool  *)
(* accumulates its reserve, not its price (Pool.sol): the code adds the    *)
(* price, times the time since the last trade, to the sum of reserve0      *)
(* times time.                                                             *)
(*                                                                         *)
(* The module describes one token, its pair and its TarotPriceOracle.      *)
(* Timestamps are below 2^32, as they are until the year 2106.             *)
(***************************************************************************)
EXTENDS Integers

CONSTANTS
  Callers,
  deployer,        \* of the MixOracle
  deployedAt,
  MIN_T,           \* 1200 seconds
  MultisigPeriod,  \* six hours
  Q112,            \* 2^112, the unit of prices
  AttachedUnit,    \* 10^decimals of the attached token
  \* bounds
  Times,           \* block timestamps
  Reserves,        \* what a trade may leave in the pool
  AttachedPrices   \* answers of DebitaPyth; 0 if it reverts

(* A reserve of the pool that is not empty.                                *)
UInt112 == 1 .. (Q112 - 1)

ASSUME MixOracleAssumption ==
  /\ deployer \in Callers
  /\ MIN_T \in Nat \ {0}
  /\ Q112 \in Nat \ {0} /\ AttachedUnit \in Nat \ {0}
  /\ Times \subseteq Nat /\ deployedAt \in Times
  /\ \A t \in Times : t >= deployedAt
  /\ Reserves \subseteq UInt112 \X UInt112
  /\ AttachedPrices \subseteq Nat

PairSlots == {"A", "B"}
Other(s) == IF s = "A" THEN "B" ELSE "A"

VARIABLES
  now,                      \* block.timestamp
  \* the pool
  reserve0, reserve1, reserve0CumulativeLast, blockTimestampLast,
  \* the TarotPriceOracle
  initialized, priceCumulative, lastUpdate, latest,
  \* the MixOracle
  multisig, isSenderAManager, isPaused, isFeedAvailable,
  attachedTokenPrice,       \* what DebitaPyth answers now
  \* history
  initializedAt,
  quiet                     \* no trade since the slot was written

poolVars == <<reserve0, reserve1, reserve0CumulativeLast, blockTimestampLast>>
slotVars == <<priceCumulative, lastUpdate, latest, quiet>>
roles == <<multisig, isSenderAManager>>
switches == <<isPaused, isFeedAvailable>>
oracleVars == <<now, poolVars, initialized, slotVars, roles, switches,
                attachedTokenPrice, initializedAt>>

-----------------------------------------------------------------------------
PriceLatest == (reserve1 * Q112) \div reserve0

getPriceCumulativeCurrent ==
  reserve0CumulativeLast + PriceLatest * (now - blockTimestampLast)

Renewable == now - lastUpdate[latest] >= MIN_T

(* Mutant: the latest slot, however young.                                 *)
Reference_Latest == latest

(* The slot that an answer is computed from.                               *)
Reference == IF Renewable THEN latest ELSE Other(latest)

(* Mutant: always the time since the latest slot was written.              *)
Elapsed_Latest == now - lastUpdate[latest]

Elapsed == now - lastUpdate[Reference]

(* The subtraction of the cumulative prices is checked, whatever the       *)
(* comment on it says.                                                     *)
Answers ==
  /\ initialized
  /\ Elapsed >= MIN_T
  /\ getPriceCumulativeCurrent >= priceCumulative[Reference]

(* toUint224 drops the upper bits.                                         *)
TwapPrice ==
  ((getPriceCumulativeCurrent - priceCumulative[Reference]) \div Elapsed) % (Q112 * Q112)

(* The slot that is not the reference becomes the latest.                  *)
RenewSlots ==
  IF Renewable
    THEN LET s == Other(latest) IN
         /\ priceCumulative' =
              [priceCumulative EXCEPT ![s] = getPriceCumulativeCurrent]
         /\ lastUpdate' = [lastUpdate EXCEPT ![s] = now]
         /\ latest' = s
         /\ quiet' = [quiet EXCEPT ![s] = TRUE]
    ELSE UNCHANGED slotVars

-----------------------------------------------------------------------------
OracleInit ==
  /\ now = deployedAt
  /\ \E r \in Reserves : reserve0 = r[1] /\ reserve1 = r[2]
  /\ reserve0CumulativeLast = 0 /\ blockTimestampLast = deployedAt
  /\ initialized = FALSE
  /\ priceCumulative = [s \in PairSlots |-> 0]
  /\ lastUpdate = [s \in PairSlots |-> deployedAt]
  /\ latest = "A"
  /\ multisig = deployer
  /\ isSenderAManager = {deployer}
  /\ isPaused = FALSE /\ isFeedAvailable = FALSE
  /\ attachedTokenPrice \in AttachedPrices
  /\ initializedAt = deployedAt
  /\ quiet = [s \in PairSlots |-> TRUE]

(* Pool._update, at the end of every trade.                                *)
Trade(r) ==
  /\ reserve0CumulativeLast' =
       reserve0CumulativeLast + reserve0 * (now - blockTimestampLast)
  /\ reserve0' = r[1] /\ reserve1' = r[2]
  /\ blockTimestampLast' = now
  /\ quiet' = [s \in PairSlots |-> FALSE]
  /\ UNCHANGED <<now, initialized, priceCumulative, lastUpdate, latest, roles,
                 switches, attachedTokenPrice, initializedAt>>

(* TarotPriceOracle.getResult, which anybody may call.                     *)
getResult ==
  /\ Answers
  /\ RenewSlots
  /\ UNCHANGED <<now, poolVars, initialized, roles, switches,
                 attachedTokenPrice, initializedAt>>

(* The amount of the attached token for one token, and its price.          *)
AmountOfAttached == (Q112 * AttachedUnit) \div TwapPrice
Price == (AmountOfAttached * attachedTokenPrice) \div AttachedUnit

(* MixOracle.getThePrice: when DebitaPyth reverts the slots stay as well.  *)
getThePrice ==
  /\ initialized /\ ~isPaused /\ isFeedAvailable
  /\ Answers
  /\ attachedTokenPrice > 0
  /\ TwapPrice > 0
  /\ Price > 0
  /\ RenewSlots
  /\ UNCHANGED <<now, poolVars, initialized, roles, switches,
                 attachedTokenPrice, initializedAt>>

(* A new TarotPriceOracle, initialized with both slots alike.              *)
setAttachedTarotPriceOracle(u) ==
  /\ u = multisig
  /\ ~initialized
  /\ initialized' = TRUE
  /\ priceCumulative' = [s \in PairSlots |-> getPriceCumulativeCurrent]
  /\ lastUpdate' = [s \in PairSlots |-> now]
  /\ latest' = "A"
  /\ isFeedAvailable' = TRUE
  /\ initializedAt' = now
  /\ quiet' = [s \in PairSlots |-> TRUE]
  /\ UNCHANGED <<now, poolVars, roles, isPaused, attachedTokenPrice>>

setManager(u, manager, status) ==
  /\ u = multisig
  /\ isSenderAManager' = IF status THEN isSenderAManager \cup {manager}
                         ELSE isSenderAManager \ {manager}
  /\ UNCHANGED <<now, poolVars, initialized, slotVars, multisig, switches,
                 attachedTokenPrice, initializedAt>>

changeMultisig(u, v) ==
  /\ u = multisig
  /\ now < deployedAt + MultisigPeriod
  /\ multisig' = v
  /\ UNCHANGED <<now, poolVars, initialized, slotVars, isSenderAManager, switches,
                 attachedTokenPrice, initializedAt>>

(* Managers switch off, only the multisig switches on.                     *)
pauseContract(u) ==
  /\ u \in isSenderAManager
  /\ isPaused' = TRUE
  /\ UNCHANGED <<now, poolVars, initialized, slotVars, roles, isFeedAvailable,
                 attachedTokenPrice, initializedAt>>

reactivateContract(u) ==
  /\ u = multisig
  /\ isPaused' = FALSE
  /\ UNCHANGED <<now, poolVars, initialized, slotVars, roles, isFeedAvailable,
                 attachedTokenPrice, initializedAt>>

pauseStatusPriceId(u) ==
  /\ u \in isSenderAManager
  /\ isFeedAvailable' = FALSE
  /\ UNCHANGED <<now, poolVars, initialized, slotVars, roles, isPaused,
                 attachedTokenPrice, initializedAt>>

reactivateStatusPriceId(u) ==
  /\ u = multisig
  /\ isFeedAvailable' = TRUE
  /\ UNCHANGED <<now, poolVars, initialized, slotVars, roles, isPaused,
                 attachedTokenPrice, initializedAt>>

MovePyth ==
  /\ attachedTokenPrice' \in AttachedPrices
  /\ UNCHANGED <<now, poolVars, initialized, slotVars, roles, switches,
                 initializedAt>>

Tick ==
  /\ now' \in {t \in Times : t > now}
  /\ UNCHANGED <<poolVars, initialized, slotVars, roles, switches,
                 attachedTokenPrice, initializedAt>>

OracleNext ==
  \/ \E r \in Reserves : Trade(r)
  \/ getResult
  \/ getThePrice
  \/ \E u \in Callers : setAttachedTarotPriceOracle(u)
  \/ \E u, manager \in Callers, status \in BOOLEAN : setManager(u, manager, status)
  \/ \E u, v \in Callers : changeMultisig(u, v)
  \/ \E u \in Callers : pauseContract(u) \/ reactivateContract(u)
  \/ \E u \in Callers : pauseStatusPriceId(u) \/ reactivateStatusPriceId(u)
  \/ MovePyth
  \/ Tick

OracleSpec == OracleInit /\ [][OracleNext]_oracleVars

-----------------------------------------------------------------------------
(* Properties                                                              *)

(* getResult says NOT_READY only to a pair that has just been initialized, *)
(* as the comment in the code has it: the slot that is read is MIN_T old   *)
(* once MIN_T has passed, however often and whenever the slots are renewed.*)
NotReadyOnlyAtStart ==
  initialized /\ now >= initializedAt + MIN_T => Elapsed >= MIN_T

(* When nobody has traded since the slot that is read was written, a call  *)
(* is answered, and with the price of the pool.  (After a trade the answer *)
(* mixes a sum of reserves with a sum of prices, and may be no price that  *)
(* the pool ever had, or the call reverts.)                                *)
SpotWhenQuiet ==
  initialized /\ now >= initializedAt + MIN_T /\ quiet[Reference] =>
    Answers /\ TwapPrice = PriceLatest

-----------------------------------------------------------------------------
(* The inductive invariant of the proofs: the other slot is as old as the  *)
(* pair or at least MIN_T older than the latest, and a quiet slot lies on  *)
(* the line along which the pool's cumulative price has grown since.       *)
OracleInv ==
  /\ now \in Times
  /\ reserve0 \in UInt112 /\ reserve1 \in UInt112
  /\ reserve0CumulativeLast \in Nat
  /\ blockTimestampLast \in Nat /\ blockTimestampLast <= now
  /\ initializedAt \in Nat /\ initializedAt <= now
  /\ priceCumulative \in [PairSlots -> Nat] /\ quiet \in [PairSlots -> BOOLEAN]
  /\ lastUpdate \in [PairSlots -> Nat] /\ latest \in PairSlots
  /\ \A s \in PairSlots : lastUpdate[s] <= now
  /\ \/ lastUpdate[Other(latest)] = initializedAt
     \/ lastUpdate[Other(latest)] + MIN_T <= lastUpdate[latest]
  /\ \A s \in PairSlots : quiet[s] =>
       /\ blockTimestampLast <= lastUpdate[s]
       /\ priceCumulative[s] = reserve0CumulativeLast
                                 + PriceLatest * (lastUpdate[s] - blockTimestampLast)
=============================================================================
