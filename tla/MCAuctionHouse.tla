--------------------------- MODULE MCAuctionHouse ---------------------------
(***************************************************************************)
(* One auction over many timestamps and amounts that do not divide evenly, *)
(* and three auctions whose buyers and owners call each other's.           *)
(***************************************************************************)
EXTENDS AuctionHouse

CONSTANTS alice, loan, a1, a2, a3

MCUsers == {alice}
MCLoans == {loan}
MCAuctions == {a1, a2, a3}
MCAmounts == {0, 20, 57, 100}
MCDurations == {0, 3, 7}
MCRates == {100, 400, 500, 5000}
MCTimes == 1 .. 12

(* Bound: the prices, the clock and the settings vary while a1 is the only *)
(* auction; several auctions start in the first block at one price.        *)
OnePricedAuction ==
  \/ Created \subseteq {a1}
  \/ /\ now = 1
     /\ <<FloorPricePercentage, auctionFee, publicAuctionFee>> = <<1500, 200, 50>>
     /\ \A a \in Created :
          /\ initAmount[a] = 20 * Scale
          /\ duration[a] = IF isLiquidation(a) THEN LiquidationDuration ELSE 3
          /\ isLiquidation(a) \/ floorAmount[a] = initAmount[a]
=============================================================================
