--------------------------- MODULE MCBorrowOffers ---------------------------
(***************************************************************************)
(* Two borrow orders of one owner.  A start of 2000 leaves a rest of 2 (10 *)
(* basis points, completed) or 3 (15, still listed) after one acceptance;  *)
(* a receipt that locks nothing can be offered and not accepted.           *)
(***************************************************************************)
EXTENDS BorrowOffers

CONSTANTS alice, b1, b2, t1, t2

MCUsers == {alice}
MCOrders == {b1, b2}
MCTerms == {t1, t2}
MCTimes == {10, 11, 12}
MCDeposits == {2000}
MCLocked == {0, 500}
MCAmounts == {900, 1997, 1998}
=============================================================================
