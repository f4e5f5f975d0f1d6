---------------------------- MODULE MCPeriphery -----------------------------
(***************************************************************************)
(* The buy orders and the mix oracle, which share no state and do not call *)
(* each other: in every behaviour one of them moves and the other rests in *)
(* one initial state.                                                      *)
(*                                                                         *)
(* Three buy orders and three receipts.  At ratios of 7 and 10 tenths the  *)
(* receipts cost nothing, 144 (144.9 rounded down) or 207, and 210 or 300: *)
(* an order of 210 is sold out exactly by the third receipt; one of 400    *)
(* buys two receipts at different fees.                                    *)
(*                                                                         *)
(* A multisig and another wallet; MIN_T is two units of time, so that the  *)
(* slots of the oracle are renewed up to three times, late or right at     *)
(* MIN_T, and read in between.                                             *)
(***************************************************************************)
EXTENDS BuyOrders, MixOracle, TLC

CONSTANTS alice, bob, b1, b2, b3, r1, r2, r3

MCUsers == {alice, bob}
MCOrders == {b1, b2, b3}
MCReceipts == {r1, r2, r3}
MCLocked == r1 :> 1 @@ r2 :> 207 @@ r3 :> 300
MCDeposits == {210, 400}
MCRatios == {7, 10}
MCFees == {100, 500}
Symmetry == Permutations(MCOrders)

CONSTANTS safe, keeper

MCCallers == {safe, keeper}
MCTimes == {0, 1, 2, 4, 5, 6}
MCReserves == {<<1, 2>>, <<2, 1>>}
MCAttachedPrices == {0, 3}

VARIABLE moving   \* the part that moves

AtRest ==
  /\ moving = "oracle" => receiptOwner = [r \in Receipts |-> alice]
  /\ moving = "orders" => <<reserve0, reserve1>> = <<1, 2>> /\ attachedTokenPrice = 0

PeripheryInit ==
  /\ moving \in {"orders", "oracle"}
  /\ Init /\ OracleInit
  /\ AtRest

PeripheryNext ==
  \/ moving = "orders" /\ Next /\ UNCHANGED <<moving, oracleVars>>
  \/ moving = "oracle" /\ OracleNext /\ UNCHANGED <<moving, vars>>

PeripherySpec == PeripheryInit /\ [][PeripheryNext]_<<moving, vars, oracleVars>>
=============================================================================
