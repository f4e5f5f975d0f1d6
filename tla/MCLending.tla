----------------------------- MODULE MCLending ------------------------------
(***************************************************************************)
(* The lend orders and the matches.  Each module keeps its own part of a   *)
(* lend order, so that they share no state: in every behaviour one of them *)
(* moves and the other rests in one initial state.                         *)
(*                                                                         *)
(* LendOffers: lend orders of one owner.  Two orders exercise the deletion *)
(* of the last order of the index, of another one, of one that was moved   *)
(* and of the only one; two deletions of an order show what a repeated one *)
(* does.                                                                   *)
(*                                                                         *)
(* Aggregator: two lend orders and one borrow order of tokens or of a      *)
(* receipt, with fixed ratios and with oracles, for one principle or two.  *)
(* The amounts and ratios are chosen so that the quotients leave           *)
(* remainders, and so that some matches fall just inside and just outside  *)
(* the margin of 2%.  A receipt of one unit admits a match that takes      *)
(* nothing.                                                                *)
(***************************************************************************)
EXTENDS LendOffers, Aggregator

CONSTANTS alice, o1, o2, t1, t2

MCUsers == {alice}
MCOrders == {o1, o2}
MCTerms == {t1, t2}
MCTimes == {10, 11, 12}

CONSTANTS l1, l2, b1, dai, wbtc, gold, receipt

MCLendOrders == {l1, l2}
MCBorrowOrders == {b1}
MCPrinciples == {dai, wbtc}
MCAssets == {gold}

Fixed(n) == [oracle |-> FALSE, value |-> n]
ByOracle(ltv) == [oracle |-> TRUE, value |-> ltv]

LendOrder(principle, apr, limit, longest, lonely) ==
  [principle |-> principle, apr |-> apr, funds |-> 4000,
   maxRatio |-> [c \in {gold, receipt} |-> limit],
   minDuration |-> 3, maxDuration |-> longest, lonelyLender |-> lonely]

MCLendTerms == {
  LendOrder(dai, 1001, Fixed(138), 20, FALSE),
  LendOrder(dai, 3100, ByOracle(6970), 50, FALSE),
  LendOrder(dai, 2000, Fixed(142), 50, TRUE),
  LendOrder(wbtc, 1500, Fixed(14), 50, FALSE)}

BorrowOrder(collateral, isNFT, start, duration, limit, useOracle) ==
  [asset |-> gold, collateral |-> collateral, isNFT |-> isNFT, start |-> start,
   duration |-> duration, maxApr |-> 2050, oracle |-> useOracle,
   ratio |-> [t \in {dai, wbtc} |-> IF t = dai THEN limit ELSE Fixed(14)]]

MCBorrowTerms == {
  BorrowOrder(gold, FALSE, 2381, 5, Fixed(139), FALSE),
  BorrowOrder(gold, FALSE, 2381, 40, ByOracle(6950), TRUE),
  BorrowOrder(receipt, TRUE, 220, 15, Fixed(138), FALSE),
  BorrowOrder(receipt, TRUE, 1, 15, Fixed(138), FALSE)}

MCUnit == [t \in {dai, wbtc, gold} |-> IF t = gold THEN 10 ELSE 100]
MCPrices == {[t \in {dai, wbtc, gold} |-> IF t = gold THEN 2 ELSE 1],
             [t \in {dai, wbtc, gold} |-> IF t = gold THEN 5 ELSE 3]}
MCAmounts == {1000, 3000}
MCPercents == {9900, 12000}
MCSlates == {<<>>, <<dai>>, <<dai, wbtc>>, <<dai, dai>>}
LendOrderSymmetry == Permutations(MCLendOrders)
MCRates == {10, 50, 2000}

VARIABLE moving   \* the part that moves

AtRest ==
  /\ moving = "matches" => now = 10 /\ terms = [l \in Orders |-> t1]
  /\ moving = "orders" =>
       /\ lendTerms = [l \in LendOrders |-> LendOrder(dai, 1001, Fixed(138), 20, FALSE)]
       /\ borrowTerms = [b \in BorrowOrders |->
                           BorrowOrder(gold, FALSE, 2381, 5, Fixed(139), FALSE)]
       /\ price = [t \in {dai, wbtc, gold} |-> IF t = gold THEN 2 ELSE 1]

LendingInit ==
  /\ moving \in {"orders", "matches"}
  /\ Init /\ MatchInit
  /\ AtRest

LendingNext ==
  \/ moving = "orders" /\ Next /\ UNCHANGED <<moving, matchVars>>
  \/ moving = "matches" /\ MatchNext /\ UNCHANGED <<moving, vars>>

LendingSpec == LendingInit /\ [][LendingNext]_<<moving, vars, matchVars>>
=============================================================================
