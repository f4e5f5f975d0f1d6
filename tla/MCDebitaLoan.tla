---------------------------- MODULE MCDebitaLoan ----------------------------
(***************************************************************************)
(* Two accepted offers with different deadlines, APRs and ratios, out of   *)
(* two lend orders of the same lender; one borrower.  A year has 10 units  *)
(* of time, so that the interests of a loan of 10 units, extended to 14 or *)
(* 30, differ at every timestamp of the instances.                         *)
(***************************************************************************)
EXTENDS DebitaLoan

CONSTANTS alice, bob, order1, order2

MCUsers == {alice, bob}
MCOffers == {1, 2}
MCLendOrders == {order1, order2}
MCLendOffer == [o \in Offers |-> IF o = 1 THEN order1 ELSE order2]
MCLendOwner == [l \in LendOrders |-> bob]
MCPrincipleAmount == [o \in Offers |-> IF o = 1 THEN 100 ELSE 70]
MCApr == [o \in Offers |-> IF o = 1 THEN 5000 ELSE 3000]
MCRatio == [o \in Offers |-> IF o = 1 THEN 30 ELSE 25]
MCPrecision == 10
MCCollateralUsed == [o \in Offers |-> IF o = 1 THEN 33 ELSE 28]
MCValuableCollateralUsed == 61
MCMaxDeadline == [o \in Offers |-> IF o = 1 THEN 130 ELSE 114]

(* Before and after the 10% that must pass to extend, the middle of offer  *)
(* 2's term after which extendLoan reverts, and each deadline with its     *)
(* next block.                                                             *)
MCTimes == {101, 107, 110, 111, 114, 115, 131}
MCTimesShort == {104, 110, 111, 114, 115, 131}
MCSaleAmounts == {20, 43}

(* As deployed.                                                            *)
MCOneSetting == {[feePerDay |-> 4, minFEE |-> 20, maxFEE |-> 80]}

(* Before the initial deadline and after all others, both offers out of    *)
(* one lend order, and settings under which the fee of a match for 11      *)
(* units of time is within the limits and above the maximum.               *)
MCTimesLive == {104, 131}
MCOneOrder == {order1}
MCOneLendOffer == [o \in Offers |-> order1]
MCFeeSettings ==
  {[feePerDay |-> f, minFEE |-> 10, maxFEE |-> 100] : f \in {1, 10}}
=============================================================================
