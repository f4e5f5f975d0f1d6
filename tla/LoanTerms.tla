------------------------------ MODULE LoanTerms ------------------------------
(***************************************************************************)
(* The terms with which DebitaV3Aggregator.matchOffersV3 initialises a     *)
(* DebitaV3Loan, as far as the loan relies on them: what DebitaLoan        *)
(* assumes, and Aggregator establishes.  The operator takes a record of    *)
(* the terms; its fields with an entry per accepted offer are functions on *)
(* t.offers.                                                               *)
(***************************************************************************)
EXTENDS Integers, FiniteSets, FiniteSetsExt

(* matchOffersV3 requires borrowInfo.duration <= lendInfo.maxDuration and  *)
(* stores maxDeadline = lendInfo.maxDuration + block.timestamp, and        *)
(* collateralUsed is the same quotient that the claims compute again; it   *)
(* passes their sum as valuableCollateralUsed.                             *)
MatchedTerms(t) ==
  /\ IsFiniteSet(t.offers) /\ t.offers # {}
  /\ t.startedAt \in Nat /\ t.initialDuration \in Nat
  /\ t.lendOffer \in [t.offers -> t.lendOrders]
  /\ t.principleAmount \in [t.offers -> Nat]
  /\ t.apr \in [t.offers -> Nat]
  /\ t.ratio \in [t.offers -> Nat \ {0}]
  /\ t.collateralUsed \in [t.offers -> Nat]
  /\ t.maxDeadline \in [t.offers -> Nat]
  /\ t.precision \in Nat \ {0}
  /\ t.valuableCollateralUsed \in Nat \ {0}
  /\ t.valuableCollateralUsed = SumFunctionOnSet(t.collateralUsed, t.offers)
  /\ \A o \in t.offers :
       /\ t.startedAt + t.initialDuration <= t.maxDeadline[o]
       /\ t.collateralUsed[o] = (t.principleAmount[o] * t.precision) \div t.ratio[o]
=============================================================================
