----------------------------- MODULE LoanPromise ----------------------------
(***************************************************************************)
(* What a Debita loan promises its parties, with time, money and ownership *)
(* tokens left out.  Every accepted offer is either repaid or, once the    *)
(* loan has defaulted, seized, and never both; a repaid offer releases its *)
(* part of the collateral to the borrower and its debt to the lender's     *)
(* side, once each; default is final: nothing is repaid after it.          *)
(***************************************************************************)
CONSTANT Offers

VARIABLES
  defaulted,   \* a deadline was missed with something left to pay
  repaid,      \* offers the borrower has paid
  debtTaken,   \* repaid offers whose money went to the lender's side
  seized,      \* unpaid offers whose collateral the lender has claimed
  released     \* repaid offers whose collateral the borrower has claimed

promiseVars == <<defaulted, repaid, debtTaken, seized, released>>

PromiseInit ==
  /\ defaulted = FALSE
  /\ repaid = {} /\ debtTaken = {} /\ seized = {} /\ released = {}

(* T: the offers whose payment goes straight to a perpetual lend order.    *)
Repay(S, T) ==
  /\ ~defaulted
  /\ S \subseteq Offers \ repaid
  /\ T \subseteq S
  /\ repaid' = repaid \cup S
  /\ debtTaken' = debtTaken \cup T
  /\ UNCHANGED <<defaulted, seized, released>>

Default ==
  /\ ~defaulted
  /\ repaid # Offers
  /\ defaulted' = TRUE
  /\ UNCHANGED <<repaid, debtTaken, seized, released>>

TakeDebt(o) ==
  /\ o \in repaid \ debtTaken
  /\ debtTaken' = debtTaken \cup {o}
  /\ UNCHANGED <<defaulted, repaid, seized, released>>

Seize(o) ==
  /\ defaulted
  /\ o \in Offers \ (repaid \cup seized)
  /\ seized' = seized \cup {o}
  /\ UNCHANGED <<defaulted, repaid, debtTaken, released>>

Release(S) ==
  /\ S \subseteq repaid \ released
  /\ released' = released \cup S
  /\ UNCHANGED <<defaulted, repaid, debtTaken, seized>>

PromiseNext ==
  \/ \E S \in SUBSET Offers : \E T \in SUBSET S : Repay(S, T)
  \/ Default
  \/ \E o \in Offers : TakeDebt(o) \/ Seize(o)
  \/ \E S \in SUBSET Offers : Release(S)

PromiseSpec == PromiseInit /\ [][PromiseNext]_promiseVars
=============================================================================
