-------------------------- MODULE DebitaLoanProofs --------------------------
(***************************************************************************)
(* Theorems about DebitaLoan, for every set of users and offers, all       *)
(* amounts, rates and deadlines and all block timestamps.                  *)
(***************************************************************************)
EXTENDS DebitaLoan, Functions, FiniteSetTheorems, TLAPS

INSTANCE ProofLemmas WITH Orders <- {}, NoOrder <- 0, Capacity <- 0

-----------------------------------------------------------------------------
(* The assumption, with the terms of the match spelled out.                *)
LEMMA LoanFacts ==
  /\ IsFiniteSet(Offers) /\ Offers # {}
  /\ borrowerID \notin Offers
  /\ NoUser \notin Users
  /\ Collaterals \subseteq {"ERC20", "NFT"}
  /\ startedAt \in Nat \ {0} /\ initialDuration \in Nat
  /\ feeLender \in Nat /\ feeLender <= 10000
  /\ lendOffer \in [Offers -> LendOrders]
  /\ lendOwner \in [LendOrders -> Users]
  /\ firstBorrower \in Users
  /\ principleAmount \in [Offers -> Nat]
  /\ apr \in [Offers -> Nat]
  /\ ratio \in [Offers -> Nat \ {0}]
  /\ collateralUsed \in [Offers -> Nat]
  /\ maxDeadline \in [Offers -> Nat]
  /\ \A o \in Offers : startedAt + initialDuration <= maxDeadline[o]
  /\ Precision \in Nat \ {0} /\ Year \in Nat \ {0}
  /\ valuableCollateralUsed \in Nat \ {0}
  /\ valuableCollateralUsed = SumFunctionOnSet(collateralUsed, Offers)
  /\ \A o \in Offers :
       collateralUsed[o] = (principleAmount[o] * Precision) \div ratio[o]
  /\ Times \subseteq Nat
  /\ SaleAmounts \subseteq Nat
  /\ MaxIndexes \in Nat
<1>1. MatchedTerms(Terms)
  BY LoanAssumption
<1>2. startedAt \in Nat /\ Day \in Nat \ {0} /\ startedAt >= 100 * Day
  BY <1>1, LoanAssumption DEF MatchedTerms, Terms
<1>3. startedAt \in Nat \ {0}
  BY <1>2
<1>4. \A o \in Offers :
        /\ startedAt + initialDuration <= maxDeadline[o]
        /\ collateralUsed[o] = (principleAmount[o] * Precision) \div ratio[o]
  BY <1>1 DEF MatchedTerms, Terms
<1>. QED
  BY <1>1, <1>3, <1>4, LoanAssumption DEF MatchedTerms, Terms

-----------------------------------------------------------------------------
(* The operators the actions read                                          *)

(* Every unpaid offer's deadline is at or after the next deadline, which   *)
(* is never before the initial one as long as something is unpaid.         *)
LEMMA DeadlineBounds ==
  ASSUME TypeOK
  PROVE  /\ NextDeadline \in Nat
         /\ \A o \in Unpaid : /\ maxDeadline[o] \in Nat
                              /\ NextDeadline <= maxDeadline[o]
         /\ Unpaid # {} => NextDeadline >= startedAt + initialDuration
         /\ Unpaid # {} /\ extended => \E o \in Unpaid : NextDeadline = maxDeadline[o]
<1> DEFINE D == {maxDeadline[o] : o \in Unpaid}
<1>1. \A o \in Unpaid : /\ maxDeadline[o] \in Nat
                        /\ maxDeadline[o] >= startedAt + initialDuration
  BY LoanFacts DEF Unpaid
<1>2. startedAt + initialDuration \in Nat
  BY LoanFacts
<1>3. CASE ~extended
  BY <1>1, <1>2, <1>3 DEF NextDeadline
<1>4. CASE extended /\ Unpaid = {}
  BY <1>4 DEF NextDeadline
<1>5. CASE extended /\ Unpaid # {}
  <2>1. D \in SUBSET Nat /\ D # {}
    BY <1>1, <1>5
  <2>2. NextDeadline = Min(D)
    BY <1>5 DEF NextDeadline
  <2>3. Min(D) \in D /\ \A x \in D : Min(D) <= x
    BY <2>1, MinOfNaturals
  <2> QED  BY <1>1, <1>5, <2>1, <2>2, <2>3
<1> QED  BY <1>3, <1>4, <1>5 DEF TypeOK

(* The time that bears interest, in a state whose clock reads t.           *)
LEMMA ActiveTimeBounds ==
  ASSUME NEW o \in Offers, now \in Nat, Started
  PROVE  ActiveTime(o) \in Nat
<1>1. MinimalDuration \in Nat
  BY LoanFacts, DivNat, initialDuration * 1000 \in Nat, 10000 \in Nat \ {0}
     DEF MinimalDuration
<1>2. maxDeadline[o] - startedAt \in Nat /\ now - startedAt \in Nat
  BY LoanFacts DEF Started
<1> QED  BY <1>1, <1>2 DEF ActiveTime

(* The 10% that is always charged is not longer than the longest term.     *)
LEMMA MinimalWithinTerm ==
  ASSUME NEW o \in Offers
  PROVE  /\ MinimalDuration \in Nat
         /\ maxDeadline[o] - startedAt \in Nat
         /\ MinimalDuration <= maxDeadline[o] - startedAt
<1>1. MinimalDuration \in Nat /\ MinimalDuration <= initialDuration
  <2>1. initialDuration \in Nat /\ 1000 \in Nat /\ 1000 <= 10000
    BY LoanFacts
  <2> QED  BY <2>1, FeeBound DEF MinimalDuration
<1> QED  BY <1>1, LoanFacts

LEMMA AccruedNat ==
  ASSUME NEW o \in Offers, now \in Nat, Started
  PROVE  Accrued(o) \in Nat
<1> DEFINE annual == (principleAmount[o] * apr[o]) \div 10000
<1>1. annual \in Nat
  <2>1. principleAmount[o] * apr[o] \in Nat
    BY LoanFacts
  <2> QED  BY <2>1, DivNat, 10000 \in Nat \ {0}
<1>2. annual * ActiveTime(o) \in Nat
  BY <1>1, ActiveTimeBounds, MulMonotone
<1> HIDE DEF annual
<1>3. Year \in Nat \ {0}
  BY LoanFacts
<1>4. (annual * ActiveTime(o)) \div Year \in Nat
  BY <1>2, <1>3, DivNat
<1> QED  BY <1>4 DEF Accrued, annual

(* Interest only grows with the clock.                                     *)
LEMMA AccruedMonotone ==
  ASSUME NEW o \in Offers, now \in Nat, Started, NEW t \in Nat, now' = t, t >= now
  PROVE  Accrued(o)' \in Nat /\ Accrued(o) <= Accrued(o)'
<1> DEFINE annual == (principleAmount[o] * apr[o]) \div 10000
<1>1. annual \in Nat
  <2>1. principleAmount[o] * apr[o] \in Nat
    BY LoanFacts
  <2> QED  BY <2>1, DivNat, 10000 \in Nat \ {0}
<1>2. ActiveTime(o) \in Nat /\ ActiveTime(o)' \in Nat /\ ActiveTime(o) <= ActiveTime(o)'
  <2> DEFINE minimal == MinimalDuration
             term == maxDeadline[o] - startedAt
  <2>1. minimal \in Nat /\ term \in Nat /\ minimal <= term
    BY MinimalWithinTerm
  <2>2. minimal' = minimal /\ term' = term
    BY DEF MinimalDuration
  <2>3. startedAt \in Nat
    BY LoanFacts
  <2> DEFINE a == now - startedAt
             b == t - startedAt
             Clamp(x) == IF x > term THEN term ELSE IF x < minimal THEN minimal ELSE x
  <2>4. a \in Nat /\ b \in Nat /\ a <= b
    BY <2>3 DEF Started
  <2>5. ActiveTime(o) = Clamp(a) /\ ActiveTime(o)' = Clamp(b)
    BY <2>2 DEF ActiveTime
  <2> HIDE DEF minimal, term, a, b
  <2>6. Clamp(a) \in Nat /\ Clamp(b) \in Nat /\ Clamp(a) <= Clamp(b)
    BY <2>1, <2>4
  <2> QED  BY <2>5, <2>6
<1> HIDE DEF annual
<1>3. /\ annual * ActiveTime(o) \in Nat /\ annual * ActiveTime(o)' \in Nat
      /\ annual * ActiveTime(o) <= annual * ActiveTime(o)'
  BY <1>1, <1>2, MulMonotone
<1>4. (annual * ActiveTime(o)) \div Year <= (annual * ActiveTime(o)') \div Year
  BY <1>3, DivMonotone, LoanFacts
<1>5. (annual * ActiveTime(o)') \div Year \in Nat
  BY <1>3, DivNat, LoanFacts
<1> QED  BY <1>4, <1>5 DEF Accrued, annual

(* What reaches the lender's side is at most the interest paid.            *)
LEMMA NetInterestBounds ==
  ASSUME NEW o \in Offers, now \in Nat, Started, interestPaid[o] \in Nat,
         InterestDefined(o)
  PROVE  /\ InterestDue(o) \in Nat
         /\ NetInterest(o) \in Nat /\ NetInterest(o) <= InterestDue(o)
         /\ interestPaid[o] + InterestDue(o) = Accrued(o)
<1>1. InterestDue(o) \in Nat
  BY AccruedNat DEF InterestDue, InterestDefined
<1> DEFINE fee == (InterestDue(o) * feeLender) \div 10000
<1>2. feeLender \in Nat /\ feeLender <= 10000
  BY LoanFacts
<1>3. fee \in Nat /\ fee <= InterestDue(o)
  BY <1>1, <1>2, FeeBound
<1>4. NetInterest(o) = InterestDue(o) - fee
  BY DEF NetInterest
<1>5. interestPaid[o] + InterestDue(o) = Accrued(o)
  BY AccruedNat DEF InterestDue
<1> HIDE DEF fee
<1> QED  BY <1>1, <1>3, <1>4, <1>5

LEMMA CollateralShareIsUsed ==
  ASSUME NEW o \in Offers
  PROVE  CollateralShare(o) = collateralUsed[o] /\ collateralUsed[o] \in Nat
  BY LoanFacts DEF CollateralShare

LEMMA SaleShareNat ==
  ASSUME NEW o \in Offers, tokenPerCollateralUsed \in Nat
  PROVE  SaleShare(o) \in Nat
<1>1. tokenPerCollateralUsed * collateralUsed[o] \in Nat
  BY LoanFacts
<1> QED  BY <1>1, DivNat, LoanFacts DEF SaleShare

-----------------------------------------------------------------------------
(* One lemma per action: it preserves the inductive invariant              *)

LEMMA SubsetFinite ==
  ASSUME NEW S \in SUBSET Offers
  PROVE  IsFiniteSet(S) /\ Cardinality(S) \in Nat
  BY LoanFacts, FS_Subset, FS_CardinalityType

LEMMA InitIInv == Init => IInv
<1> SUFFICES ASSUME Init PROVE IInv
  OBVIOUS
<1>1. TypeOK
  <2>1. collateralEscrow \in [Offers -> Nat]
    BY LoanFacts DEF Init
  <2>2. ownerOf \in [Tokens -> Users \cup {NoUser}]
    BY LoanFacts DEF Init, Tokens
  <2>3. nftHolder \in {"none", "loan", "auction", "buyer", "lender", "borrower"}
    BY DEF Init
  <2>4. now \in Nat /\ perpetual \subseteq LendOrders
    BY LoanFacts DEF Init
  <2>5. /\ interestToClaim \in [Offers -> Nat] /\ interestPaid \in [Offers -> Nat]
        /\ escrow \in [Offers -> Nat] /\ delivered \in [Offers -> Nat]
    BY DEF Init
  <2> QED  BY <2>1, <2>2, <2>3, <2>4, <2>5 DEF Init, TypeOK
<1>2. Started
  BY LoanFacts DEF Init, Started
<1>3. EscrowCoversDebt
  BY DEF Init, EscrowCoversDebt, Claimable
<1>4. CollateralAccounted /\ SeizedOnlyInDefault
  BY DEF Init, CollateralAccounted, SeizedOnlyInDefault
<1>5. PrincipalDeliveredOnce /\ DeliveredFromInterest
  BY DEF Init, PrincipalDeliveredOnce, DeliveredFromInterest
<1>6. InterestWithinAccrual
  BY <1>1, <1>2, AccruedNat DEF Init, InterestWithinAccrual, TypeOK
<1>7. CountMatches
  BY FS_EmptySet DEF Init, CountMatches
<1>8. PositionHeld
  BY LoanFacts DEF Init, PositionHeld, Tokens
<1>9. ClaimCountMatches
  BY FS_EmptySet, {} \cap {} = {} DEF Init, ClaimCountMatches
<1>10. BorrowerTokenOutlivesLoan
  BY LoanFacts DEF Init, BorrowerTokenOutlivesLoan, Tokens
<1> QED
  BY <1>1, <1>2, <1>3, <1>4, <1>5, <1>6, <1>7, <1>8, <1>9, <1>10 DEF IInv

(* payDebt cannot run in default, so it neither revives a seized offer nor *)
(* moves the deadline of a defaulted loan.                                 *)
LEMMA payDebtInv ==
  ASSUME IInv, NEW u \in Users, NEW S \in SUBSET Offers, payDebt(u, S)
  PROVE  IInv'
<1> DEFINE toOrder == {o \in S : GoesToLendOrder(o)}
<1> USE DEF IInv
<1>1. /\ S \subseteq Unpaid
      /\ paid' = paid \cup S
      /\ now' = now /\ extended' = extended
      /\ collateralClaimed' = collateralClaimed
      /\ debtClaimed' = debtClaimed \cup toOrder
  BY DEF payDebt, Payable, MarkSentOn
<1>2. \A o \in S : /\ InterestDue(o) \in Nat
                   /\ NetInterest(o) \in Nat /\ NetInterest(o) <= InterestDue(o)
                   /\ interestPaid[o] + InterestDue(o) = Accrued(o)
                   /\ principleAmount[o] \in Nat
  BY LoanFacts, NetInterestBounds DEF payDebt, Payable, TypeOK
<1>3. collateralClaimed \ paid = {}
  BY DeadlineBounds DEF payDebt, InTimeToPay, SeizedOnlyInDefault, Defaulted, TypeOK
<1>4. TypeOK'
  <2>1. /\ interestToClaim' \in [Offers -> Nat] /\ interestPaid' \in [Offers -> Nat]
        /\ escrow' \in [Offers -> Nat] /\ delivered' \in [Offers -> Nat]
    BY <1>2 DEF payDebt, TypeOK
  <2>2. paid' \subseteq Offers /\ debtClaimed' \subseteq paid'
    BY <1>1 DEF TypeOK
  <2>3. totalCountPaid' \in Nat
    BY SubsetFinite DEF payDebt, TypeOK
  <2> QED  BY <2>1, <2>2, <2>3 DEF payDebt, TypeOK, auctionVars
<1>5. Started'
  BY <1>1 DEF Started
<1>6. EscrowCoversDebt'
  <2> SUFFICES ASSUME NEW o \in Offers PROVE escrow'[o] >= Claimable(o)'
    BY DEF EscrowCoversDebt
  <2>1. CASE o \in toOrder
    BY <2>1, <1>1, <1>4 DEF Claimable, TypeOK, payDebt, EscrowCoversDebt
  <2>2. CASE o \in S \ toOrder
    BY <2>2, <1>1, <1>2 DEF Claimable, TypeOK, payDebt, EscrowCoversDebt, Unpaid
  <2>3. CASE o \notin S
    BY <2>3, <1>1 DEF Claimable, TypeOK, payDebt, EscrowCoversDebt
  <2> QED  BY <2>1, <2>2, <2>3
<1>7. CollateralAccounted'
  BY <1>1 DEF CollateralAccounted, isCollateralNFT, payDebt
<1>8. SeizedOnlyInDefault'
  BY <1>1, <1>3 DEF SeizedOnlyInDefault
<1>9. PrincipalDeliveredOnce'
  <2> SUFFICES ASSUME NEW o \in Offers
               PROVE  LET p == IF o \in debtClaimed' THEN principleAmount[o] ELSE 0 IN
                      /\ delivered'[o] >= p
                      /\ delivered'[o] <= p + interestPaid'[o]
    BY DEF PrincipalDeliveredOnce
  <2>1. CASE o \in toOrder
    BY <2>1, <1>1, <1>2 DEF Unpaid, TypeOK, payDebt, PrincipalDeliveredOnce
  <2>2. CASE o \in S \ toOrder
    BY <2>2, <1>1, <1>2 DEF Unpaid, TypeOK, payDebt, PrincipalDeliveredOnce
  <2>3. CASE o \notin S
    BY <2>3, <1>1 DEF TypeOK, payDebt, PrincipalDeliveredOnce
  <2> QED  BY <2>1, <2>2, <2>3
<1>10. DeliveredFromInterest'
  <2> SUFFICES ASSUME NEW o \in Offers, o \notin debtClaimed'
               PROVE  delivered'[o] + interestToClaim'[o] <= interestPaid'[o]
    BY DEF DeliveredFromInterest
  <2>1. o \notin toOrder /\ o \notin debtClaimed
    BY <1>1
  <2>2. delivered[o] + interestToClaim[o] <= interestPaid[o]
    BY <2>1 DEF DeliveredFromInterest
  <2>3. CASE o \in S
    BY <2>1, <2>2, <2>3, <1>2 DEF TypeOK, payDebt
  <2>4. CASE o \notin S
    BY <2>1, <2>2, <2>4 DEF TypeOK, payDebt
  <2> QED  BY <2>3, <2>4
<1>11. InterestWithinAccrual'
  <2> SUFFICES ASSUME NEW o \in Offers PROVE interestPaid'[o] <= Accrued(o)'
    BY DEF InterestWithinAccrual
  <2>1. Accrued(o)' = Accrued(o)
    BY <1>1 DEF Accrued, ActiveTime, MinimalDuration
  <2>2. Accrued(o) \in Nat
    BY AccruedNat DEF TypeOK
  <2> QED  BY <2>1, <2>2, <1>2 DEF payDebt, InterestWithinAccrual
<1>12. CountMatches'
  <2>1. paid \cap S = {} /\ IsFiniteSet(paid) /\ IsFiniteSet(S)
    BY <1>1, SubsetFinite DEF Unpaid, TypeOK
  <2>2. Cardinality(paid \cup S) = Cardinality(paid) + Cardinality(S)
    BY <2>1, CardinalityDisjoint
  <2> QED  BY <1>1, <2>2 DEF payDebt, CountMatches
<1>13. PositionHeld'
  BY <1>1, <1>3 DEF PositionHeld, payDebt
<1>14. ClaimCountMatches'
  <2>1. collateralClaimed' \cap paid' = collateralClaimed \cap paid
    BY <1>1, <1>3
  <2>2. paid = Offers => paid' = Offers
    BY <1>1 DEF Unpaid
  <2> QED  BY <1>1, <2>1, <2>2 DEF ClaimCountMatches, payDebt
<1>15. BorrowerTokenOutlivesLoan'
  BY <1>1 DEF BorrowerTokenOutlivesLoan, payDebt, Unpaid
<1> QED
  BY <1>4, <1>5, <1>6, <1>7, <1>8, <1>9, <1>10, <1>11, <1>12, <1>13, <1>14, <1>15

LEMMA claimPaidDebtInv ==
  ASSUME IInv, NEW u \in Users, NEW o \in Offers, claimPaidDebt(u, o)
  PROVE  IInv'
<1> DEFINE amount == interestToClaim[o] + principleAmount[o]
<1> USE DEF IInv
<1>1. /\ o \in paid /\ o \notin debtClaimed
      /\ debtClaimed' = debtClaimed \cup {o}
      /\ ownerOf' = [ownerOf EXCEPT ![o] = NoUser]
      /\ escrow' = [escrow EXCEPT ![o] = escrow[o] - amount]
      /\ delivered' = [delivered EXCEPT ![o] = delivered[o] + amount]
      /\ UNCHANGED <<now, paid, collateralClaimed, interestToClaim, interestPaid,
                     totalCountPaid, extended, auctionVars,
                     offersCollateralClaimed_Borrower, collateralEscrow,
                     liquidationBalance, nftHolder, perpetual>>
  BY DEF claimPaidDebt, DebtPending, Burn
<1>2. amount \in Nat /\ escrow[o] - amount \in Nat
  <2>1. interestToClaim[o] \in Nat /\ principleAmount[o] \in Nat /\ escrow[o] \in Nat
    BY LoanFacts DEF TypeOK
  <2>2. escrow[o] >= amount
    BY <1>1 DEF EscrowCoversDebt, Claimable
  <2> QED  BY <2>1, <2>2
<1> HIDE DEF amount
<1>3. TypeOK'
  BY <1>1, <1>2 DEF TypeOK, Tokens, auctionVars
<1>4. Started' /\ CollateralAccounted' /\ SeizedOnlyInDefault' /\ CountMatches'
  BY <1>1 DEF Started, CollateralAccounted, isCollateralNFT, SeizedOnlyInDefault, Defaulted,
              Unpaid, NextDeadline, CountMatches
<1>5. EscrowCoversDebt'
  <2> SUFFICES ASSUME NEW p \in Offers PROVE escrow'[p] >= Claimable(p)'
    BY DEF EscrowCoversDebt
  <2>1. CASE p = o
    BY <2>1, <1>1, <1>2 DEF Claimable, TypeOK
  <2>2. CASE p # o
    BY <2>2, <1>1 DEF Claimable, TypeOK, EscrowCoversDebt
  <2> QED  BY <2>1, <2>2
<1>6. PrincipalDeliveredOnce'
  <2>1. delivered[o] + interestToClaim[o] <= interestPaid[o]
    BY <1>1 DEF DeliveredFromInterest
  <2>2. /\ delivered'[o] = delivered[o] + interestToClaim[o] + principleAmount[o]
        /\ principleAmount[o] \in Nat
    <3>1. interestToClaim[o] \in Nat /\ principleAmount[o] \in Nat /\ delivered[o] \in Nat
      BY LoanFacts DEF TypeOK
    <3>2. delivered'[o] = delivered[o] + amount
      BY <1>1 DEF TypeOK
    <3> QED  BY <3>1, <3>2 DEF amount
  <2> QED  BY <2>1, <2>2, <1>1 DEF PrincipalDeliveredOnce, TypeOK
<1>7. DeliveredFromInterest'
  BY <1>1 DEF DeliveredFromInterest, TypeOK
<1>8. InterestWithinAccrual'
  BY <1>1 DEF InterestWithinAccrual, Accrued, ActiveTime, MinimalDuration
<1>9. PositionHeld'
  BY <1>1 DEF PositionHeld, TypeOK, Tokens
<1>10. ClaimCountMatches' /\ BorrowerTokenOutlivesLoan'
  BY <1>1, LoanFacts
     DEF ClaimCountMatches, BorrowerTokenOutlivesLoan, TypeOK, Tokens
<1> QED
  BY <1>3, <1>4, <1>5, <1>6, <1>7, <1>8, <1>9, <1>10

LEMMA claimInterestInv ==
  ASSUME IInv, NEW u \in Users, NEW o \in Offers, claimInterest(u, o)
  PROVE  IInv'
<1> USE DEF IInv
<1>1. o \notin paid /\ o \notin debtClaimed /\ escrow[o] - interestToClaim[o] \in Nat
  BY DEF claimInterest, EscrowCoversDebt, Claimable, TypeOK
<1>2. TypeOK'
  BY <1>1 DEF claimInterest, TypeOK, auctionVars
<1>3. Started' /\ CollateralAccounted' /\ SeizedOnlyInDefault' /\ CountMatches'
  BY DEF claimInterest, Started, CollateralAccounted, isCollateralNFT, SeizedOnlyInDefault, Defaulted,
         Unpaid, NextDeadline, CountMatches
<1>4. EscrowCoversDebt'
  <2> SUFFICES ASSUME NEW p \in Offers PROVE escrow'[p] >= Claimable(p)'
    BY DEF EscrowCoversDebt
  <2>1. CASE p = o
    BY <2>1, <1>1 DEF claimInterest, Claimable, TypeOK
  <2>2. CASE p # o
    BY <2>2 DEF claimInterest, Claimable, TypeOK, EscrowCoversDebt
  <2> QED  BY <2>1, <2>2
<1>5. DeliveredFromInterest'
  BY <1>1 DEF claimInterest, DeliveredFromInterest, TypeOK
<1>6. PrincipalDeliveredOnce'
  BY <1>1 DEF claimInterest, PrincipalDeliveredOnce, DeliveredFromInterest, TypeOK
<1>7. InterestWithinAccrual'
  BY DEF claimInterest, InterestWithinAccrual, Accrued, ActiveTime, MinimalDuration
<1>8. PositionHeld' /\ ClaimCountMatches' /\ BorrowerTokenOutlivesLoan'
  BY DEF claimInterest, PositionHeld, ClaimCountMatches, BorrowerTokenOutlivesLoan
<1> QED
  BY <1>2, <1>3, <1>4, <1>5, <1>6, <1>7, <1>8

(* A seizure needs the deadline of an unpaid offer to have passed, and     *)
(* changes nothing that the deadline depends on.                           *)
LEMMA claimCollateralAsLenderInv ==
  ASSUME IInv, NEW u \in Users, NEW o \in Offers, claimCollateralAsLender(u, o)
  PROVE  IInv'
<1> USE DEF IInv
<1>1. /\ o \notin paid /\ o \notin collateralClaimed
      /\ collateralClaimed' = collateralClaimed \cup {o}
      /\ ownerOf' = [ownerOf EXCEPT ![o] = NoUser]
      /\ NextDeadline < now
      /\ UNCHANGED <<now, paid, debtClaimed, interestToClaim, interestPaid,
                     totalCountPaid, extended, auctionVars,
                     offersCollateralClaimed_Borrower, escrow, perpetual, delivered>>
  BY DEF claimCollateralAsLender, SeizableNow, Burn
<1>2. /\ collateralEscrow' \in [Offers -> Nat]
      /\ CollateralAccounted'
  <2>1. CASE SeizeERC20(o)
    <3>1. collateralEscrow[o] - CollateralShare(o) = 0
      BY <2>1, <1>1, CollateralShareIsUsed DEF SeizeERC20, CollateralAccounted
    <3> QED  BY <3>1, <2>1, <1>1 DEF SeizeERC20, CollateralAccounted, isCollateralNFT, TypeOK
  <2>2. CASE SeizeProceeds(o) \/ SeizeNFT \/ SeizeNothing
    BY <2>2 DEF SeizeProceeds, SeizeNFT, SeizeNothing, CollateralAccounted, isCollateralNFT, TypeOK
  <2> QED  BY <2>1, <2>2 DEF claimCollateralAsLender
<1>3. /\ liquidationBalance' \in Nat
      /\ nftHolder' \in {"none", "loan", "auction", "buyer", "lender", "borrower"}
  BY DEF claimCollateralAsLender, SeizeERC20, SeizeProceeds, SeizeNFT, SeizeNothing,
         Covers, TypeOK
<1>4. TypeOK'
  BY <1>1, <1>2, <1>3 DEF TypeOK, Tokens, auctionVars
<1>5. Started' /\ EscrowCoversDebt' /\ PrincipalDeliveredOnce' /\ CountMatches'
  BY <1>1 DEF Started, EscrowCoversDebt, Claimable, PrincipalDeliveredOnce, CountMatches
<1>6. DeliveredFromInterest'
  BY <1>1 DEF DeliveredFromInterest
<1>7. SeizedOnlyInDefault'
  BY <1>1 DEF SeizedOnlyInDefault, Defaulted, Unpaid, NextDeadline
<1>8. InterestWithinAccrual'
  BY <1>1 DEF InterestWithinAccrual, Accrued, ActiveTime, MinimalDuration
<1>9. PositionHeld'
  BY <1>1 DEF PositionHeld, TypeOK, Tokens
<1>10. ClaimCountMatches'
  <2>1. collateralClaimed' \cap paid' = collateralClaimed \cap paid
    BY <1>1
  <2> QED  BY <1>1, <2>1 DEF ClaimCountMatches
<1>11. BorrowerTokenOutlivesLoan'
  BY <1>1, LoanFacts DEF BorrowerTokenOutlivesLoan, TypeOK, Tokens
<1> QED
  BY <1>2, <1>4, <1>5, <1>6, <1>7, <1>8, <1>9, <1>10, <1>11

LEMMA createAuctionForCollateralInv ==
  ASSUME IInv, NEW u \in Users, NEW o \in Offers, createAuctionForCollateral(u, o)
  PROVE  IInv'
<1> USE DEF IInv
<1>1. TypeOK'
  BY DEF createAuctionForCollateral, TypeOK, offerVars
<1>2. /\ Started' /\ EscrowCoversDebt' /\ CollateralAccounted' /\ CountMatches'
      /\ PrincipalDeliveredOnce' /\ DeliveredFromInterest'
  BY DEF createAuctionForCollateral, offerVars, Started, EscrowCoversDebt, Claimable,
         CollateralAccounted, isCollateralNFT, CountMatches, PrincipalDeliveredOnce, DeliveredFromInterest
<1>3. SeizedOnlyInDefault' /\ InterestWithinAccrual'
  BY DEF createAuctionForCollateral, offerVars, SeizedOnlyInDefault, Defaulted, Unpaid,
         NextDeadline, InterestWithinAccrual, Accrued, ActiveTime, MinimalDuration
<1>4. PositionHeld' /\ ClaimCountMatches' /\ BorrowerTokenOutlivesLoan'
  BY DEF createAuctionForCollateral, offerVars, PositionHeld, ClaimCountMatches,
         BorrowerTokenOutlivesLoan
<1> QED
  BY <1>1, <1>2, <1>3, <1>4

LEMMA handleAuctionSellInv ==
  ASSUME IInv, NEW amount \in SaleAmounts, handleAuctionSell(amount)
  PROVE  IInv'
<1> USE DEF IInv
<1>1. tokenPerCollateralUsed' \in Nat /\ liquidationBalance' \in Nat
  <2>1. amount * Precision \in Nat /\ amount \in Nat
    BY LoanFacts
  <2>2. valuableCollateralUsed \in Nat \ {0}
    BY LoanFacts
  <2>3. (amount * Precision) \div valuableCollateralUsed \in Nat
    BY <2>1, <2>2, DivNat
  <2> QED  BY <2>1, <2>3 DEF handleAuctionSell, TypeOK
<1>2. TypeOK'
  BY <1>1 DEF handleAuctionSell, TypeOK, offerVars
<1>3. /\ Started' /\ EscrowCoversDebt' /\ CollateralAccounted' /\ CountMatches'
      /\ PrincipalDeliveredOnce' /\ DeliveredFromInterest'
  BY DEF handleAuctionSell, offerVars, Started, EscrowCoversDebt, Claimable,
         CollateralAccounted, isCollateralNFT, CountMatches, PrincipalDeliveredOnce, DeliveredFromInterest
<1>4. SeizedOnlyInDefault' /\ InterestWithinAccrual'
  BY DEF handleAuctionSell, offerVars, SeizedOnlyInDefault, Defaulted, Unpaid,
         NextDeadline, InterestWithinAccrual, Accrued, ActiveTime, MinimalDuration
<1>5. PositionHeld' /\ ClaimCountMatches' /\ BorrowerTokenOutlivesLoan'
  BY DEF handleAuctionSell, offerVars, PositionHeld, ClaimCountMatches,
         BorrowerTokenOutlivesLoan
<1> QED
  BY <1>2, <1>3, <1>4, <1>5

(* The tail shared by the borrower's claims of ERC20 collateral and of     *)
(* proceeds: S is a set of paid offers not yet claimed, and is counted.    *)
LEMMA CountedClaim ==
  ASSUME IInv, NEW S \in SUBSET Offers, S \subseteq paid \ collateralClaimed,
         collateralClaimed' = collateralClaimed \cup S,
         CountBorrowerClaim(Cardinality(S)),
         collateralEscrow' \in [Offers -> Nat], CollateralAccounted',
         liquidationBalance' \in Nat, nftHolder' = nftHolder
  PROVE  IInv'
<1> USE DEF IInv
<1>1. UNCHANGED <<now, paid, debtClaimed, interestToClaim, interestPaid,
                  totalCountPaid, extended, auctionVars, escrow, perpetual, delivered>>
  BY DEF CountBorrowerClaim
<1>2. /\ offersCollateralClaimed_Borrower'
           = offersCollateralClaimed_Borrower + Cardinality(S)
      /\ Cardinality(S) \in Nat
  BY SubsetFinite DEF CountBorrowerClaim
<1>3. \/ ownerOf' = ownerOf
      \/ /\ ownerOf' = [ownerOf EXCEPT ![borrowerID] = NoUser]
         /\ offersCollateralClaimed_Borrower' = Cardinality(Offers)
  BY <1>2 DEF CountBorrowerClaim, ClosesLoan, Burn
<1>4. TypeOK'
  <2>1. collateralClaimed' \subseteq Offers
    BY DEF TypeOK
  <2>2. ownerOf' \in [Tokens -> Users \cup {NoUser}]
    BY <1>3 DEF TypeOK, Tokens
  <2>3. offersCollateralClaimed_Borrower' \in Nat
    BY <1>2 DEF TypeOK
  <2>4. liquidationBalance' \in Nat /\ nftHolder' = nftHolder
    OBVIOUS
  <2>5. collateralEscrow' \in [Offers -> Nat]
    OBVIOUS
  <2> QED  BY <1>1, <2>1, <2>2, <2>3, <2>4, <2>5 DEF TypeOK, auctionVars
<1>5. /\ Started' /\ EscrowCoversDebt' /\ PrincipalDeliveredOnce'
      /\ DeliveredFromInterest' /\ CountMatches'
  BY <1>1 DEF Started, EscrowCoversDebt, Claimable, PrincipalDeliveredOnce,
              DeliveredFromInterest, CountMatches
<1>6. SeizedOnlyInDefault'
  <2>1. collateralClaimed' \ paid' = collateralClaimed \ paid
    BY <1>1
  <2> QED  BY <2>1, <1>1 DEF SeizedOnlyInDefault, Defaulted, Unpaid, NextDeadline
<1>7. InterestWithinAccrual'
  BY <1>1 DEF InterestWithinAccrual, Accrued, ActiveTime, MinimalDuration
<1>8. PositionHeld'
  BY <1>1, <1>3, LoanFacts DEF PositionHeld, TypeOK, Tokens
<1>9. ClaimCountMatches'
  <2>1. CASE paid = Offers /\ collateralClaimed = Offers
    BY <2>1, <1>1 DEF ClaimCountMatches
  <2>2. CASE offersCollateralClaimed_Borrower = Cardinality(collateralClaimed \cap paid)
    <3>1. collateralClaimed' \cap paid' = (collateralClaimed \cap paid) \cup S
      BY <1>1
    <3>2. /\ IsFiniteSet(collateralClaimed \cap paid) /\ IsFiniteSet(S)
          /\ (collateralClaimed \cap paid) \cap S = {}
      BY SubsetFinite DEF TypeOK
    <3>3. Cardinality((collateralClaimed \cap paid) \cup S)
            = Cardinality(collateralClaimed \cap paid) + Cardinality(S)
      BY <3>2, CardinalityDisjoint
    <3> QED  BY <2>2, <3>1, <3>3, <1>2 DEF ClaimCountMatches
  <2> QED  BY <2>1, <2>2 DEF ClaimCountMatches
<1>10. BorrowerTokenOutlivesLoan'
  <2>1. CASE ownerOf' = ownerOf
    BY <2>1, <1>1 DEF BorrowerTokenOutlivesLoan, TypeOK
  <2>2. CASE offersCollateralClaimed_Borrower' = Cardinality(Offers)
    <3>1. CASE paid' = Offers /\ collateralClaimed' = Offers
      BY <3>1 DEF BorrowerTokenOutlivesLoan
    <3>2. CASE Cardinality(Offers) = Cardinality(collateralClaimed' \cap paid')
      <4>1. collateralClaimed' \cap paid' \in SUBSET Offers
        BY <1>1 DEF TypeOK
      <4>2. Offers = collateralClaimed' \cap paid'
        BY <3>2, <4>1, FS_Subset, LoanFacts
      <4>3. collateralClaimed' \subseteq Offers /\ paid' \subseteq Offers
        BY <1>1 DEF TypeOK
      <4> QED  BY <4>2, <4>3 DEF BorrowerTokenOutlivesLoan
    <3> QED  BY <2>2, <3>1, <3>2, <1>9 DEF ClaimCountMatches
  <2> QED  BY <2>1, <2>2, <1>3
<1> QED
  BY <1>4, <1>5, <1>6, <1>7, <1>8, <1>9, <1>10

LEMMA ReleaseERC20Inv ==
  ASSUME IInv, NEW S \in SUBSET Offers, ReleaseERC20(S)
  PROVE  IInv'
<1>1. S \subseteq paid \ collateralClaimed /\ collateralClaimed' = collateralClaimed \cup S
  BY DEF ReleaseERC20, Releasable
<1>2. \A o \in S : collateralEscrow[o] - CollateralShare(o) = 0
  BY <1>1, CollateralShareIsUsed DEF ReleaseERC20, Releasable, IInv, CollateralAccounted
<1>3. collateralEscrow' \in [Offers -> Nat] /\ CollateralAccounted'
  BY <1>1, <1>2 DEF ReleaseERC20, Releasable, IInv, CollateralAccounted, isCollateralNFT, TypeOK
<1>4. CountBorrowerClaim(Cardinality(S)) /\ liquidationBalance' \in Nat /\ nftHolder' = nftHolder
  BY DEF ReleaseERC20, Releasable, IInv, TypeOK
<1> QED  BY <1>1, <1>3, <1>4, CountedClaim

LEMMA ReleaseProceedsInv ==
  ASSUME IInv, NEW S \in SUBSET Offers, ReleaseProceeds(S)
  PROVE  IInv'
<1>1. S \subseteq paid \ collateralClaimed /\ collateralClaimed' = collateralClaimed \cup S
  BY DEF ReleaseProceeds, Releasable
<1>2. collateralEscrow' \in [Offers -> Nat] /\ CollateralAccounted'
  BY <1>1 DEF ReleaseProceeds, Releasable, IInv, CollateralAccounted, isCollateralNFT, TypeOK
<1>3. CountBorrowerClaim(Cardinality(S)) /\ liquidationBalance' \in Nat /\ nftHolder' = nftHolder
  BY DEF ReleaseProceeds, Releasable, Covers
<1> QED  BY <1>1, <1>2, <1>3, CountedClaim

LEMMA ReleaseNFTInv ==
  ASSUME IInv, NEW k \in 0..MaxIndexes, ReleaseNFT(k)
  PROVE  IInv'
<1> USE DEF IInv
<1>1. /\ Unpaid = {} /\ collateralClaimed' = Offers
      /\ UNCHANGED <<now, paid, debtClaimed, interestToClaim, interestPaid,
                     totalCountPaid, extended, auctionVars, escrow, perpetual, delivered,
                     collateralEscrow, liquidationBalance>>
      /\ isCollateralNFT /\ nftHolder' = "borrower"
  BY DEF ReleaseNFT, CountBorrowerClaim
<1>2. paid = Offers
  BY <1>1 DEF Unpaid, TypeOK
<1>3. ownerOf' = ownerOf \/ ownerOf' = [ownerOf EXCEPT ![borrowerID] = NoUser]
  BY DEF ReleaseNFT, CountBorrowerClaim, Burn
<1>4. offersCollateralClaimed_Borrower' \in Nat
  BY LoanFacts DEF ReleaseNFT, CountBorrowerClaim, TypeOK
<1>5. ownerOf' \in [Tokens -> Users \cup {NoUser}]
  BY <1>3 DEF TypeOK, Tokens
<1>6. TypeOK'
  BY <1>1, <1>4, <1>5 DEF TypeOK, auctionVars
<1>7. /\ Started' /\ EscrowCoversDebt' /\ PrincipalDeliveredOnce'
      /\ DeliveredFromInterest' /\ CountMatches'
  BY <1>1 DEF Started, EscrowCoversDebt, Claimable, PrincipalDeliveredOnce,
              DeliveredFromInterest, CountMatches
<1>8. CollateralAccounted' /\ SeizedOnlyInDefault' /\ ClaimCountMatches'
  BY <1>1, <1>2 DEF CollateralAccounted, SeizedOnlyInDefault, ClaimCountMatches
<1>9. InterestWithinAccrual'
  BY <1>1 DEF InterestWithinAccrual, Accrued, ActiveTime, MinimalDuration
<1>10. PositionHeld'
  <2>1. \A o \in Offers : ownerOf'[o] = NoUser => o \in debtClaimed
    <3>1. collateralClaimed = {}
      BY DEF ReleaseNFT
    <3> QED  BY <1>3, <3>1, LoanFacts DEF PositionHeld, TypeOK, Tokens
  <2> QED  BY <2>1, <1>1 DEF PositionHeld
<1>11. BorrowerTokenOutlivesLoan'
  BY <1>1, <1>2 DEF BorrowerTokenOutlivesLoan
<1> QED
  BY <1>6, <1>7, <1>8, <1>9, <1>10, <1>11

(* The extension happens before the deadline, hence never in default; the  *)
(* interest of the time used is charged once.                              *)
LEMMA extendLoanInv ==
  ASSUME IInv, NEW u \in Users, extendLoan(u)
  PROVE  IInv'
<1> DEFINE toOrder == {o \in Unpaid : GoesToLendOrder(o)}
<1> USE DEF IInv
<1>1. UNCHANGED <<now, paid, collateralClaimed, debtClaimed, totalCountPaid,
                  auctionVars, offersCollateralClaimed_Borrower, collateralEscrow,
                  liquidationBalance, nftHolder, ownerOf, perpetual>>
  BY DEF extendLoan
<1>2. \A o \in Unpaid : /\ InterestDue(o) \in Nat
                        /\ NetInterest(o) \in Nat /\ NetInterest(o) <= InterestDue(o)
                        /\ interestPaid[o] + InterestDue(o) = Accrued(o)
                        /\ o \notin debtClaimed
  BY NetInterestBounds DEF extendLoan, Extensible, Unpaid, TypeOK
<1>3. collateralClaimed \ paid = {}
  BY DeadlineBounds DEF extendLoan, SeizedOnlyInDefault, Defaulted, TypeOK
<1>4. TypeOK'
  <2>1. /\ interestToClaim' \in [Offers -> Nat] /\ interestPaid' \in [Offers -> Nat]
        /\ escrow' \in [Offers -> Nat] /\ delivered' \in [Offers -> Nat]
    BY <1>2 DEF extendLoan, TypeOK
  <2>2. extended' = TRUE
    BY DEF extendLoan
  <2> QED  BY <1>1, <2>1, <2>2 DEF TypeOK, auctionVars
<1>5. Started' /\ CollateralAccounted' /\ SeizedOnlyInDefault' /\ CountMatches'
  BY <1>1, <1>3 DEF Started, CollateralAccounted, isCollateralNFT, SeizedOnlyInDefault, CountMatches
<1>6. EscrowCoversDebt'
  <2> SUFFICES ASSUME NEW o \in Offers PROVE escrow'[o] >= Claimable(o)'
    BY DEF EscrowCoversDebt
  <2>1. CASE o \in Unpaid \ toOrder
    BY <2>1, <1>1, <1>2 DEF Claimable, TypeOK, extendLoan, EscrowCoversDebt, Unpaid
  <2>2. CASE o \notin Unpaid \ toOrder
    BY <2>2, <1>1 DEF Claimable, TypeOK, extendLoan, EscrowCoversDebt
  <2> QED  BY <2>1, <2>2
<1>7. DeliveredFromInterest'
  <2> SUFFICES ASSUME NEW o \in Offers, o \notin debtClaimed'
               PROVE  delivered'[o] + interestToClaim'[o] <= interestPaid'[o]
    BY DEF DeliveredFromInterest
  <2>1. delivered[o] + interestToClaim[o] <= interestPaid[o]
    BY <1>1 DEF DeliveredFromInterest
  <2>2. CASE o \in Unpaid
    BY <2>1, <2>2, <1>2 DEF TypeOK, extendLoan
  <2>3. CASE o \notin Unpaid
    BY <2>1, <2>3 DEF TypeOK, extendLoan
  <2> QED  BY <2>2, <2>3
<1>8. PrincipalDeliveredOnce'
  <2> SUFFICES ASSUME NEW o \in Offers
               PROVE  LET p == IF o \in debtClaimed THEN principleAmount[o] ELSE 0 IN
                      /\ delivered'[o] >= p
                      /\ delivered'[o] <= p + interestPaid'[o]
    BY <1>1 DEF PrincipalDeliveredOnce
  <2>1. CASE o \in Unpaid
    BY <2>1, <1>2 DEF TypeOK, extendLoan, PrincipalDeliveredOnce
  <2>2. CASE o \notin Unpaid
    BY <2>2 DEF TypeOK, extendLoan, PrincipalDeliveredOnce
  <2> QED  BY <2>1, <2>2
<1>9. InterestWithinAccrual'
  <2> SUFFICES ASSUME NEW o \in Offers PROVE interestPaid'[o] <= Accrued(o)'
    BY DEF InterestWithinAccrual
  <2>1. Accrued(o)' = Accrued(o)
    BY <1>1 DEF Accrued, ActiveTime, MinimalDuration
  <2>2. Accrued(o) \in Nat
    BY AccruedNat DEF TypeOK
  <2> QED  BY <2>1, <2>2, <1>2 DEF extendLoan, InterestWithinAccrual
<1>10. PositionHeld' /\ ClaimCountMatches' /\ BorrowerTokenOutlivesLoan'
  BY <1>1 DEF PositionHeld, ClaimCountMatches, BorrowerTokenOutlivesLoan
<1> QED
  BY <1>4, <1>5, <1>6, <1>7, <1>8, <1>9, <1>10

LEMMA TickInv ==
  ASSUME IInv, Tick
  PROVE  IInv'
<1> USE DEF IInv
<1>1. PICK t \in Nat : now' = t /\ t > now
  BY LoanFacts DEF Tick
<1>2. UNCHANGED <<offerVars, totalCountPaid, extended, auctionVars,
                  offersCollateralClaimed_Borrower, assetVars, ownerOf, perpetual,
                  delivered>>
  BY DEF Tick
<1>3. TypeOK'
  BY <1>1, <1>2 DEF TypeOK, offerVars, auctionVars, assetVars
<1>4. Started'
  BY <1>1, LoanFacts DEF Started, TypeOK
<1>5. /\ EscrowCoversDebt' /\ CollateralAccounted' /\ CountMatches'
      /\ PrincipalDeliveredOnce' /\ DeliveredFromInterest'
  BY <1>2 DEF offerVars, assetVars, EscrowCoversDebt, Claimable, CollateralAccounted, isCollateralNFT,
              CountMatches, PrincipalDeliveredOnce, DeliveredFromInterest
<1>6. SeizedOnlyInDefault'
  <2>1. NextDeadline' = NextDeadline /\ Unpaid' = Unpaid
    BY <1>2 DEF NextDeadline, Unpaid, offerVars
  <2>2. NextDeadline \in Nat
    BY DeadlineBounds
  <2> QED  BY <1>1, <1>2, <2>1, <2>2 DEF SeizedOnlyInDefault, Defaulted, offerVars, TypeOK
<1>7. InterestWithinAccrual'
  <2> SUFFICES ASSUME NEW o \in Offers PROVE interestPaid'[o] <= Accrued(o)'
    BY DEF InterestWithinAccrual
  <2>1. Accrued(o) <= Accrued(o)'
    BY <1>1, AccruedMonotone DEF TypeOK
  <2>2. interestPaid'[o] = interestPaid[o] /\ interestPaid[o] <= Accrued(o)
    BY <1>2 DEF offerVars, InterestWithinAccrual
  <2>3. Accrued(o)' \in Nat
    BY <1>1, AccruedMonotone DEF TypeOK
  <2>4. PICK a \in Nat : a = Accrued(o)'
    BY <2>3
  <2>5. Accrued(o) \in Nat /\ interestPaid[o] \in Nat
    BY AccruedNat DEF TypeOK
  <2> QED  BY <2>1, <2>2, <2>4, <2>5
<1>8. PositionHeld' /\ ClaimCountMatches' /\ BorrowerTokenOutlivesLoan'
  BY <1>2 DEF offerVars, PositionHeld, ClaimCountMatches, BorrowerTokenOutlivesLoan
<1> QED
  BY <1>3, <1>4, <1>5, <1>6, <1>7, <1>8

(* Trading a token, switching a lend order to or from perpetual, the       *)
(* settings of the fee, and the steps of other contracts.                  *)
LEMMA EnvironmentInv ==
  ASSUME IInv,
         \/ \E t \in Tokens, u \in Users : TransferOwnership(t, u)
         \/ \E l \in LendOrders : ChangePerpetual(l)
         \/ \E settings \in FeeSettings : SetFees(settings)
         \/ UNCHANGED vars
  PROVE  IInv'
<1> USE DEF IInv
<1>1. UNCHANGED <<now, offerVars, totalCountPaid, extended, auctionVars,
                  offersCollateralClaimed_Borrower, assetVars, delivered>>
  BY DEF TransferOwnership, ChangePerpetual, SetFees, vars
<1>2. perpetual' \subseteq LendOrders
  BY DEF TransferOwnership, ChangePerpetual, SetFees, vars, TypeOK
<1>3. /\ ownerOf' \in [Tokens -> Users \cup {NoUser}]
      /\ \A t \in Tokens : ownerOf'[t] = NoUser => ownerOf[t] = NoUser
  BY LoanFacts DEF TransferOwnership, ChangePerpetual, SetFees, vars, TypeOK
<1>4. TypeOK'
  BY <1>1, <1>2, <1>3 DEF TypeOK, offerVars, auctionVars, assetVars
<1>5. /\ Started' /\ EscrowCoversDebt' /\ CollateralAccounted' /\ CountMatches'
      /\ PrincipalDeliveredOnce' /\ DeliveredFromInterest' /\ ClaimCountMatches'
  BY <1>1 DEF offerVars, assetVars, Started, EscrowCoversDebt, Claimable,
              CollateralAccounted, isCollateralNFT, CountMatches, PrincipalDeliveredOnce,
              DeliveredFromInterest, ClaimCountMatches
<1>6. SeizedOnlyInDefault' /\ InterestWithinAccrual'
  BY <1>1 DEF offerVars, SeizedOnlyInDefault, Defaulted, Unpaid, NextDeadline,
              InterestWithinAccrual, Accrued, ActiveTime, MinimalDuration
<1>7. PositionHeld' /\ BorrowerTokenOutlivesLoan'
  BY <1>1, <1>3 DEF offerVars, PositionHeld, BorrowerTokenOutlivesLoan, Tokens
<1> QED
  BY <1>4, <1>5, <1>6, <1>7

LEMMA NextIInv ==
  ASSUME IInv, [Next]_vars
  PROVE  IInv'
<1>1. CASE \E u \in Users, S \in SUBSET Offers : payDebt(u, S)
  BY <1>1, payDebtInv
<1>2. CASE \E u \in Users, o \in Offers : claimDebt(u, o)
  BY <1>2, claimPaidDebtInv, claimInterestInv DEF claimDebt
<1>3. CASE \E u \in Users, o \in Offers : claimCollateralAsLender(u, o)
  BY <1>3, claimCollateralAsLenderInv
<1>4. CASE \E u \in Users, o \in Offers : createAuctionForCollateral(u, o)
  BY <1>4, createAuctionForCollateralInv
<1>5. CASE \E amount \in SaleAmounts : handleAuctionSell(amount)
  BY <1>5, handleAuctionSellInv
<1>6. CASE \E u \in Users : claimCollateralAsBorrower(u)
  BY <1>6, ReleaseERC20Inv, ReleaseProceedsInv, ReleaseNFTInv
     DEF claimCollateralAsBorrower
<1>7. CASE \E u \in Users : extendLoan(u)
  BY <1>7, extendLoanInv
<1>8. CASE Tick
  BY <1>8, TickInv
<1>9. CASE \/ \E t \in Tokens, u \in Users : TransferOwnership(t, u)
           \/ \E l \in LendOrders : ChangePerpetual(l)
           \/ \E settings \in FeeSettings : SetFees(settings)
           \/ UNCHANGED vars
  BY <1>9, EnvironmentInv
<1> QED
  BY <1>1, <1>2, <1>3, <1>4, <1>5, <1>6, <1>7, <1>8, <1>9 DEF Next

-----------------------------------------------------------------------------
(* Theorems                                                                *)

(* The inductive invariant holds of every loan.                            *)
THEOREM InductiveInvariant == Spec => []IInv
<1>1. Init => IInv
  BY InitIInv
<1>2. IInv /\ [Next]_vars => IInv'
  BY NextIInv
<1> QED
  BY <1>1, <1>2, PTL DEF Spec

(* The types of the contract's state: in particular no account of the      *)
(* contract is ever overdrawn and no unsigned subtraction wraps.           *)
THEOREM TypeCorrect == Spec => []TypeOK
<1>1. IInv => TypeOK
  BY DEF IInv
<1> QED
  BY <1>1, InductiveInvariant, PTL

(* A lender seizes collateral of an unpaid offer only in default.          *)
THEOREM SeizureSafe == Spec => []SeizedOnlyInDefault
<1>1. IInv => SeizedOnlyInDefault
  BY DEF IInv
<1> QED
  BY <1>1, InductiveInvariant, PTL

(* What lenders may claim with claimDebt is in the contract.               *)
THEOREM LendersCovered == Spec => []EscrowCoversDebt
<1>1. IInv => EscrowCoversDebt
  BY DEF IInv
<1> QED
  BY <1>1, InductiveInvariant, PTL

(* The lender's side gets the principal once, and on top of it no more     *)
(* than the interest the borrower paid.                                    *)
THEOREM DeliveredOnce == Spec => []PrincipalDeliveredOnce
<1>1. IInv => PrincipalDeliveredOnce
  BY DEF IInv
<1> QED
  BY <1>1, InductiveInvariant, PTL

(* Each offer's collateral leaves the contract once.                       *)
THEOREM CollateralSafe == Spec => []CollateralAccounted
<1>1. IInv => CollateralAccounted
  BY DEF IInv
<1> QED
  BY <1>1, InductiveInvariant, PTL

(* Ownership tokens are burned only when the position they stand for is    *)
(* settled, the borrower's only when the whole loan is.                    *)
THEOREM TokensOutlivePositions == Spec => [](PositionHeld /\ BorrowerTokenOutlivesLoan)
<1>1. IInv => PositionHeld /\ BorrowerTokenOutlivesLoan
  BY DEF IInv
<1> QED
  BY <1>1, InductiveInvariant, PTL

(* The borrower is never charged more interest than has accrued.           *)
THEOREM InterestSafe == Spec => []InterestWithinAccrual
<1>1. IInv => InterestWithinAccrual
  BY DEF IInv
<1> QED
  BY <1>1, InductiveInvariant, PTL

(* totalCountPaid, on which the auction and the return of an NFT depend,   *)
(* is the number of offers whose paid flag is set.                         *)
THEOREM CountsAgree == Spec => []CountMatches
<1>1. IInv => CountMatches
  BY DEF IInv
<1> QED
  BY <1>1, InductiveInvariant, PTL

-----------------------------------------------------------------------------
(* Default is final                                                        *)

(* The calls that move a deadline or pay an offer are closed in default.   *)
LEMMA DefaultStep ==
  ASSUME TypeOK, Defaulted, [Next]_vars
  PROVE  Defaulted' /\ paid' = paid
<1>1. /\ ~ \E u \in Users, S \in SUBSET Offers : payDebt(u, S)
      /\ ~ \E u \in Users : extendLoan(u)
  <2>1. ~(NextDeadline >= now) /\ ~(NextDeadline > now)
    BY DeadlineBounds DEF Defaulted, TypeOK
  <2> QED  BY <2>1 DEF payDebt, extendLoan, InTimeToPay
<1>2. CASE Tick
  <2>1. PICK t \in Nat : now' = t /\ t > now
    BY <1>2, LoanFacts DEF Tick
  <2>2. paid' = paid /\ NextDeadline' = NextDeadline /\ Unpaid' = Unpaid
    BY <1>2 DEF Tick, offerVars, NextDeadline, Unpaid
  <2> QED  BY <2>1, <2>2, DeadlineBounds DEF Defaulted, TypeOK
<1>3. CASE UNCHANGED <<now, paid, extended>>
  BY <1>3 DEF Defaulted, Unpaid, NextDeadline
<1>4. CASE \/ \E u \in Users, o \in Offers : claimDebt(u, o)
           \/ \E u \in Users, o \in Offers : claimCollateralAsLender(u, o)
  BY <1>3, <1>4 DEF claimDebt, claimPaidDebt, claimInterest, claimCollateralAsLender
<1>5. CASE \/ \E u \in Users, o \in Offers : createAuctionForCollateral(u, o)
           \/ \E amount \in SaleAmounts : handleAuctionSell(amount)
  BY <1>3, <1>5 DEF createAuctionForCollateral, handleAuctionSell, offerVars
<1>6. CASE \E u \in Users : claimCollateralAsBorrower(u)
  BY <1>3, <1>6 DEF claimCollateralAsBorrower, ReleaseERC20, Releasable, ReleaseProceeds,
                    ReleaseNFT, CountBorrowerClaim
<1>7. CASE \/ \E t \in Tokens, u \in Users : TransferOwnership(t, u)
           \/ \E l \in LendOrders : ChangePerpetual(l)
           \/ \E settings \in FeeSettings : SetFees(settings)
           \/ UNCHANGED vars
  BY <1>3, <1>7 DEF TransferOwnership, ChangePerpetual, SetFees, offerVars, vars
<1> QED
  BY <1>1, <1>2, <1>4, <1>5, <1>6, <1>7 DEF Next

(* Nothing is paid and no deadline moves once a deadline was missed.       *)
THEOREM DefaultFinal == Spec => DefaultIsFinal
<1>1. TypeOK /\ [Next]_vars => [Defaulted => Defaulted' /\ paid' = paid]_vars
  BY DefaultStep
<1> QED
  BY <1>1, TypeCorrect, PTL DEF Spec, DefaultIsFinal

-----------------------------------------------------------------------------
(* The NFT goes to one side                                                *)

(* The NFT leaves the loan in three ways.  An auction and a lender need a  *)
(* default, for which the auction relies on the count of paid offers; the  *)
(* borrower needs every offer paid.  Neither condition ever ends.          *)
LEMMA OneSideStep ==
  ASSUME TypeOK, CountMatches, NFTGoesToOneSide, [Next]_vars
  PROVE  NFTGoesToOneSide'
<1>1. Defaulted => Defaulted'
  BY DefaultStep
<1>2. ASSUME nftHolder' = nftHolder, paid = Offers => paid' = Offers
      PROVE  NFTGoesToOneSide'
  BY <1>1, <1>2 DEF NFTGoesToOneSide
<1>3. ASSUME NEW u \in Users, NEW S \in SUBSET Offers, payDebt(u, S)
      PROVE  NFTGoesToOneSide'
  <2>1. nftHolder' = nftHolder /\ paid' = paid \cup S
    BY <1>3 DEF payDebt
  <2> QED  BY <2>1, <1>2
<1>4. ASSUME NEW u \in Users, NEW o \in Offers, claimDebt(u, o)
      PROVE  NFTGoesToOneSide'
  BY <1>2, <1>4 DEF claimDebt, claimPaidDebt, claimInterest
<1>5. ASSUME NEW u \in Users, NEW o \in Offers, claimCollateralAsLender(u, o)
      PROVE  NFTGoesToOneSide'
  <2>1. paid' = paid /\ Defaulted
    BY <1>5 DEF claimCollateralAsLender, SeizableNow, Defaulted, Unpaid
  <2>2. nftHolder' = nftHolder \/ nftHolder' = "lender"
    BY <1>5 DEF claimCollateralAsLender, SeizeERC20, SeizeProceeds, SeizeNFT,
                SeizeNothing
  <2> QED  BY <2>1, <2>2, <1>1, <1>2 DEF NFTGoesToOneSide
<1>6. ASSUME NEW u \in Users, NEW o \in Offers, createAuctionForCollateral(u, o)
      PROVE  NFTGoesToOneSide'
  <2>1. paid # Offers /\ paid \subseteq Offers
    BY <1>6 DEF createAuctionForCollateral, CountMatches, TypeOK
  <2>2. Defaulted /\ nftHolder' = "auction"
    BY <1>6, <2>1 DEF createAuctionForCollateral, AuctionableNow, Defaulted, Unpaid
  <2> QED  BY <2>2, <1>1 DEF NFTGoesToOneSide
<1>7. ASSUME NEW amount \in SaleAmounts, handleAuctionSell(amount)
      PROVE  NFTGoesToOneSide'
  <2>1. Defaulted /\ nftHolder' = "buyer"
    BY <1>7 DEF handleAuctionSell, NFTGoesToOneSide
  <2> QED  BY <2>1, <1>1 DEF NFTGoesToOneSide
<1>8. ASSUME NEW u \in Users, claimCollateralAsBorrower(u)
      PROVE  NFTGoesToOneSide'
  <2>1. ASSUME NEW S \in SUBSET Offers, ReleaseERC20(S) \/ ReleaseProceeds(S)
        PROVE  NFTGoesToOneSide'
    BY <2>1, <1>2 DEF ReleaseERC20, ReleaseProceeds, CountBorrowerClaim
  <2>2. ASSUME NEW k \in 0..MaxIndexes, ReleaseNFT(k)
        PROVE  NFTGoesToOneSide'
    <3>1. paid' = Offers /\ nftHolder' = "borrower"
      BY <2>2 DEF ReleaseNFT, CountBorrowerClaim, Unpaid, TypeOK
    <3> QED  BY <3>1 DEF NFTGoesToOneSide
  <2> QED  BY <1>8, <2>1, <2>2 DEF claimCollateralAsBorrower
<1>9. ASSUME NEW u \in Users, extendLoan(u)
      PROVE  NFTGoesToOneSide'
  BY <1>2, <1>9 DEF extendLoan
<1>10. CASE \/ Tick
            \/ \E t \in Tokens, u \in Users : TransferOwnership(t, u)
            \/ \E l \in LendOrders : ChangePerpetual(l)
            \/ \E settings \in FeeSettings : SetFees(settings)
            \/ UNCHANGED vars
  BY <1>2, <1>10 DEF Tick, TransferOwnership, ChangePerpetual, SetFees, offerVars, assetVars, vars
<1> QED
  BY <1>3, <1>4, <1>5, <1>6, <1>7, <1>8, <1>9, <1>10 DEF Next

(* The NFT is returned only when all is paid, and auctioned or seized only *)
(* in default, for any number of offers, one included.                     *)
THEOREM NFTOnOneSide == Spec => []NFTGoesToOneSide
<1>1. Init => NFTGoesToOneSide
  BY DEF Init, NFTGoesToOneSide
<1>2. IInv /\ NFTGoesToOneSide /\ [Next]_vars => NFTGoesToOneSide'
  BY OneSideStep DEF IInv
<1> QED
  BY <1>1, <1>2, InductiveInvariant, PTL DEF Spec

-----------------------------------------------------------------------------
(* The borrower's fee                                                      *)

(* What the setters of the Aggregator allow, one setting at a time.        *)
LEMMA SettingsInRange ==
  ASSUME NEW s \in FeeSettings
  PROVE  /\ s.feePerDay \in 1 .. 10
         /\ s.minFEE \in 10 .. 50
         /\ s.maxFEE \in 50 .. 100
<1>1. s \in [feePerDay : 1 .. 10, minFEE : 10 .. 50, maxFEE : 50 .. 100]
  BY LoanAssumption
<1> QED  BY <1>1

(* The fee of a duration before it is clamped.                             *)
LEMMA FeeForNat ==
  ASSUME fees \in FeeSettings, NEW d \in Nat
  PROVE  FeeFor(d) \in Nat
<1>1. d * fees.feePerDay \in Nat
  BY SettingsInRange
<1>2. Day \in Nat \ {0}
  BY LoanAssumption
<1>3. (d * fees.feePerDay) \div Day \in Nat
  BY <1>1, <1>2, DivNat
<1> QED  BY <1>3 DEF FeeFor

(* A timestamp is so many days that its fee is at the highest maximum.     *)
LEMMA FeeForTimestamp ==
  ASSUME fees \in FeeSettings, NEW t \in Nat, t >= startedAt
  PROVE  FeeFor(t) >= 100
<1> DEFINE f == fees.feePerDay
<1>1. f \in Nat /\ 1 <= f
  BY SettingsInRange
<1>2. Day \in Nat \ {0} /\ 100 * Day <= t
  BY LoanAssumption, LoanFacts
<1>3. t * 1 \in Nat /\ t * f \in Nat /\ t * 1 <= t * f
  BY <1>1, MulMonotone, 1 \in Nat
<1>4. 100 * Day \in Nat /\ 100 * Day <= t * f
  BY <1>2, <1>3
<1> HIDE DEF f
<1>5. (100 * Day) \div Day <= (t * f) \div Day
  <2> DEFINE p == t * f
  <2>1. p \in Nat /\ 100 * Day \in Nat /\ 100 * Day <= p
    BY <1>3, <1>4
  <2> HIDE DEF p
  <2>2. (100 * Day) \div Day <= p \div Day
    BY <2>1, <1>2, DivMonotone
  <2> QED  BY <2>2 DEF p
<1>6. (100 * Day) \div Day = 100
  BY <1>2, DivOfProduct, 100 \in Nat
<1>7. (t * f) \div Day \in Nat
  <2> DEFINE p == t * f
  <2>1. p \in Nat
    BY <1>3
  <2> HIDE DEF p
  <2>2. p \div Day \in Nat
    BY <2>1, <1>2, DivNat
  <2> QED  BY <2>2 DEF p
<1>8. (t * f) \div Day >= 100
  <2> DEFINE q == (t * f) \div Day
             r == (100 * Day) \div Day
  <2>1. r <= q /\ r = 100 /\ q \in Nat
    BY <1>5, <1>6, <1>7
  <2> HIDE DEF q, r
  <2>2. q >= 100
    BY <2>1
  <2> QED  BY <2>2 DEF q
<1> QED  BY <1>8 DEF FeeFor, f

(* The fee of the match is between the minimum and the maximum.            *)
LEMMA MatchFeeInRange ==
  ASSUME fees \in FeeSettings
  PROVE  /\ PorcentageOfFeePaid \in Nat
         /\ fees.minFEE <= PorcentageOfFeePaid
         /\ PorcentageOfFeePaid <= fees.maxFEE
<1>1. FeeFor(initialDuration) \in Nat
  BY FeeForNat, LoanFacts
<1>2. /\ fees.minFEE \in 10 .. 50
      /\ fees.maxFEE \in 50 .. 100
  BY SettingsInRange
<1> QED  BY <1>1, <1>2 DEF PorcentageOfFeePaid, Clamped

(* maxDeadline is a timestamp, so the extension charges all that the match *)
(* left of the maximum, and its subtraction does not revert.               *)
LEMMA MissingFee ==
  ASSUME fees \in FeeSettings, NEW o \in Offers
  PROVE  /\ misingBorrowFee(o) = fees.maxFEE - PorcentageOfFeePaid
         /\ misingBorrowFee(o) \in 0 .. 90
<1>1. /\ fees.feePerDay \in 1 .. 10
      /\ fees.minFEE \in 10 .. 50
      /\ fees.maxFEE \in 50 .. 100
  BY SettingsInRange
<1>2. maxDeadline[o] \in Nat /\ maxDeadline[o] >= startedAt
  BY LoanFacts
<1>3. FeeFor(maxDeadline[o]) \in Nat /\ FeeFor(maxDeadline[o]) >= 100
  BY <1>2, FeeForNat, FeeForTimestamp
<1>4. feeOfMaxDeadline(o) = fees.maxFEE
  BY <1>1, <1>3 DEF feeOfMaxDeadline, Clamped
<1> QED  BY <1>1, <1>4, MatchFeeInRange DEF misingBorrowFee

(* Only the extension charges, once, and only the setters change settings. *)
LEMMA FeeStep ==
  ASSUME TypeOK, FeeInv, [Next]_vars
  PROVE  FeeInv'
<1>1. CASE UNCHANGED feeVars /\ extended' = extended
  BY <1>1 DEF feeVars, FeeInv, FeesBounded
<1>2. ASSUME NEW u \in Users, extendLoan(u)
      PROVE  FeeInv'
  <2>1. \A o \in Offers : feeCharged[o] \in Nat /\ feeCharged[o] <= 100
    BY <1>2 DEF extendLoan, FeeInv, FeesBounded
  <2>2. \A o \in Offers : misingBorrowFee(o) \in 0 .. 90
    BY MissingFee DEF FeeInv
  <2>3. /\ feeCharged' = [o \in Offers |->
             IF o \in Unpaid THEN feeCharged[o] + misingBorrowFee(o) ELSE feeCharged[o]]
        /\ extended' /\ fees' = fees
    BY <1>2 DEF extendLoan
  <2>4. \A o \in Offers : feeCharged'[o] \in Nat /\ feeCharged'[o] <= 190
    BY <2>1, <2>2, <2>3
  <2>5. feeCharged' \in [Offers -> Nat]
    BY <2>1, <2>2, <2>3
  <2> QED  BY <2>3, <2>4, <2>5 DEF FeeInv, FeesBounded
<1>3. ASSUME NEW settings \in FeeSettings, SetFees(settings)
      PROVE  FeeInv'
  BY <1>3 DEF SetFees, FeeInv, FeesBounded
<1>4. CASE \/ \E u \in Users, S \in SUBSET Offers : payDebt(u, S)
           \/ \E u \in Users, o \in Offers : claimDebt(u, o)
           \/ \E u \in Users, o \in Offers : claimCollateralAsLender(u, o)
  BY <1>1, <1>4 DEF payDebt, claimDebt, claimPaidDebt, claimInterest,
                    claimCollateralAsLender
<1>5. CASE \/ \E u \in Users, o \in Offers : createAuctionForCollateral(u, o)
           \/ \E amount \in SaleAmounts : handleAuctionSell(amount)
           \/ \E u \in Users : claimCollateralAsBorrower(u)
  BY <1>1, <1>5 DEF createAuctionForCollateral, handleAuctionSell,
                    claimCollateralAsBorrower, ReleaseERC20, ReleaseProceeds,
                    ReleaseNFT, CountBorrowerClaim
<1>6. CASE \/ Tick
           \/ \E t \in Tokens, u \in Users : TransferOwnership(t, u)
           \/ \E l \in LendOrders : ChangePerpetual(l)
           \/ UNCHANGED vars
  BY <1>1, <1>6 DEF Tick, TransferOwnership, ChangePerpetual, vars
<1> QED
  BY <1>2, <1>3, <1>4, <1>5, <1>6 DEF Next

(* The settings stay in the range of the setters, and the fees in theirs.  *)
LEMMA FeeInvariant == Spec => []FeeInv
<1>1. Init => FeeInv
  <2> SUFFICES ASSUME Init
               PROVE  FeeInv
    OBVIOUS
  <2>1. fees \in FeeSettings /\ ~extended
        /\ feeCharged = [o \in Offers |-> PorcentageOfFeePaid]
    BY DEF Init
  <2>2. PorcentageOfFeePaid \in Nat /\ PorcentageOfFeePaid <= fees.maxFEE
    BY <2>1, MatchFeeInRange
  <2>3. fees.maxFEE \in 50 .. 100
    BY <2>1, SettingsInRange
  <2> QED  BY <2>1, <2>2, <2>3 DEF FeeInv, FeesBounded
<1>2. TypeOK /\ FeeInv /\ [Next]_vars => FeeInv'
  BY FeeStep
<1> QED
  BY <1>1, <1>2, TypeCorrect, PTL DEF Spec

(* The borrower never pays more than 1% at the match and 1.9% in all,      *)
(* whatever the owner of the Aggregator sets in between.                   *)
THEOREM FeesStayBounded == Spec => []FeesBounded
<1>1. FeeInv => FeesBounded
  BY DEF FeeInv
<1> QED
  BY <1>1, FeeInvariant, PTL

(* In the first half of every term the checked arithmetic of extendLoan    *)
(* lets the borrower pass, whatever the settings have become: it needs     *)
(* that no more interest is paid than has accrued, and that the fee of the *)
(* extension, of a timestamp, is always the maximum.                       *)
THEOREM ExtensionUnhinderedAlways == Spec => []ExtensionUnhindered
<1>1. IInv /\ FeeInv => ExtensionUnhindered
  <2> SUFFICES ASSUME IInv, FeeInv, NEW o \in Unpaid,
                      2 * (now - startedAt) <= maxDeadline[o] - startedAt
               PROVE  Extensible(o)
    BY DEF ExtensionUnhindered
  <2>1. o \in Offers /\ now \in Nat /\ startedAt \in Nat /\ maxDeadline[o] \in Nat
    BY LoanFacts DEF Unpaid, IInv, TypeOK
  <2>2. maxDeadline[o] - (now - startedAt) - now >= 0
    BY <2>1
  <2>3. InterestDefined(o)
    <3>1. Accrued(o) \in Nat /\ interestPaid[o] \in Nat /\ interestPaid[o] <= Accrued(o)
      BY <2>1, AccruedNat DEF IInv, TypeOK, Started, InterestWithinAccrual
    <3> QED  BY <3>1 DEF InterestDefined, InterestDue
  <2>4. misingBorrowFee(o) >= 0
    BY <2>1, MissingFee DEF FeeInv
  <2> QED  BY <2>2, <2>3, <2>4 DEF Extensible
<1> QED
  BY <1>1, InductiveInvariant, FeeInvariant, PTL

-----------------------------------------------------------------------------
(* The proceeds of the auction cover every share                           *)

(* The shares of a set of offers, and of a part of it.                     *)
LEMMA SaleSharesNat ==
  ASSUME tokenPerCollateralUsed \in Nat, NEW S \in SUBSET Offers
  PROVE  SaleShares(S) \in Nat
<1>. DEFINE f == [o \in S |-> SaleShare(o)]
<1>1. \A o \in S : f[o] \in Nat
  BY SaleShareNat
<1>2. IsFiniteSet(S)
  BY SubsetFinite
<1>. HIDE DEF f
<1>3. SumFunctionOnSet(f, S) \in Nat
  BY <1>1, <1>2, SumNat
<1>. QED
  BY <1>3 DEF SaleShares, f

(* The share of one offer.                                                 *)
LEMMA ShareOfOne ==
  ASSUME tokenPerCollateralUsed \in Nat, NEW o \in Offers
  PROVE  SaleShares({o}) = SaleShare(o)
<1>. DEFINE f == [p \in {o} |-> SaleShare(p)]
<1>1. f[o] = SaleShare(o) /\ f[o] \in Int
  BY SaleShareNat
<1>. HIDE DEF f
<1>2. SumFunctionOnSet(f, {o}) = f[o]
  BY <1>1, SumSingleton
<1>. QED
  BY <1>1, <1>2 DEF SaleShares, f

LEMMA SaleSharesSplit ==
  ASSUME tokenPerCollateralUsed \in Nat, NEW S \in SUBSET Offers, NEW T \in SUBSET S
  PROVE  SaleShares(S) = SaleShares(T) + SaleShares(S \ T)
<1>. DEFINE R == S \ T
            f == [o \in Offers |-> SaleShare(o)]
            whole == [o \in S |-> SaleShare(o)]
            taken == [o \in T |-> SaleShare(o)]
            rest == [o \in R |-> SaleShare(o)]
<1>1. IsFiniteSet(S) /\ IsFiniteSet(T) /\ IsFiniteSet(R)
  BY SubsetFinite
<1>2. T \cup R = S /\ T \cap R = {}
  OBVIOUS
<1>3. \A o \in S : f[o] \in Int
  <2>. TAKE o \in S
  <2>1. f[o] = SaleShare(o) /\ SaleShare(o) \in Nat
    BY SaleShareNat
  <2>. QED
    BY <2>1
<1>4. /\ \A o \in S : whole[o] = f[o]
      /\ \A o \in T : taken[o] = f[o]
      /\ \A o \in R : rest[o] = f[o]
  OBVIOUS
<1>. HIDE DEF R, f, whole, taken, rest
<1>5. /\ SumFunctionOnSet(whole, S) = SumFunctionOnSet(f, S)
      /\ SumFunctionOnSet(taken, T) = SumFunctionOnSet(f, T)
      /\ SumFunctionOnSet(rest, R) = SumFunctionOnSet(f, R)
  BY <1>1, <1>4, SumSame
<1>6. \A o \in T \cup R : f[o] \in Int
  BY <1>2, <1>3
<1>7. SumFunctionOnSet(f, T \cup R) = SumFunctionOnSet(f, T) + SumFunctionOnSet(f, R)
  BY <1>1, <1>2, <1>6, SumDisjoint
<1>8. SumFunctionOnSet(whole, S) = SumFunctionOnSet(taken, T) + SumFunctionOnSet(rest, R)
  BY <1>2, <1>5, <1>7
<1>. QED
  BY <1>8 DEF SaleShares, R, whole, taken, rest

(* f gives every offer its share when a unit of collateral is worth t.     *)
SharesAt(f, t) == \A o \in Offers : f[o] = (t * collateralUsed[o]) \div Precision

(* The shares of all offers, each rounded down, are within the proceeds.   *)
LEMMA SharesWithinSale ==
  ASSUME NEW amount \in Nat, NEW t, t = (amount * Precision) \div valuableCollateralUsed,
         NEW f, SharesAt(f, t)
  PROVE  /\ \A o \in Offers : f[o] \in Nat
         /\ SumFunctionOnSet(f, Offers) <= amount
<1>. DEFINE p == amount * Precision
            v == valuableCollateralUsed
            total == SumFunctionOnSet(f, Offers)
<1>1. p \in Nat /\ v \in Nat \ {0} /\ Precision \in Nat \ {0}
  BY LoanFacts
<1>2. t \in Nat /\ t * v <= p
  <2>1. t = p \div v
    OBVIOUS
  <2>. HIDE DEF p, v
  <2>. QED
    BY <1>1, <2>1, DivNat
<1>3. ASSUME NEW o \in Offers
      PROVE  /\ f[o] \in Nat /\ collateralUsed[o] \in Nat
             /\ Precision * f[o] <= t * collateralUsed[o]
  <2>. DEFINE c == collateralUsed[o]
              x == t * c
              q == f[o]
  <2>1. c \in Nat /\ q = x \div Precision
    BY LoanFacts DEF SharesAt
  <2>2. x \in Nat
    BY <1>2, <2>1
  <2>. HIDE DEF x, q
  <2>3. q \in Nat /\ q * Precision <= x
    BY <1>1, <2>1, <2>2, DivNat
  <2>4. q * Precision = Precision * q
    BY <1>1, <2>3
  <2>. QED
    BY <2>1, <2>3, <2>4 DEF x, q
<1>4. Outweighs(t, collateralUsed, Precision, f, Offers)
  BY <1>3 DEF Outweighs
<1>5. t \in Int /\ Precision \in Int /\ IsFiniteSet(Offers)
  BY <1>1, <1>2, LoanFacts
<1>6. v = SumFunctionOnSet(collateralUsed, Offers)
  BY LoanFacts
<1>7. total \in Int
  BY <1>3, <1>5, SumInt
<1>. HIDE DEF p, v
<1>8. Precision * total <= t * SumFunctionOnSet(collateralUsed, Offers)
  BY ONLY <1>4, <1>5, SumWeighted
<1>. HIDE DEF total
<1>9. Precision * total <= t * v
  BY <1>6, <1>8
<1>10. Precision * total <= amount * Precision
  BY <1>1, <1>2, <1>7, <1>9 DEF p
<1>11. total <= amount
  BY <1>1, <1>7, <1>10
<1>. QED
  BY <1>3, <1>11 DEF total

(* What a claim takes out of the proceeds is the share of what it claims.  *)
LEMMA SaleStep ==
  ASSUME TypeOK, SaleInv, [Next]_vars
  PROVE  SaleInv'
<1>1. ASSUME UNCHANGED <<auctionVars, nftHolder, liquidationBalance, collateralClaimed>>
      PROVE  SaleInv'
  BY <1>1 DEF SaleInv, ProceedsCoverShares, SaleShares, SaleShare, auctionVars
<1>2. ASSUME ~alreadySold, ~alreadySold', nftHolder' # "buyer",
             nftHolder' = "auction" => auctionInitialized'
      PROVE  SaleInv'
  BY <1>2 DEF SaleInv, ProceedsCoverShares
<1>3. ASSUME NEW S \in SUBSET Offers, S \cap collateralClaimed = {}, alreadySold,
             collateralClaimed' = collateralClaimed \cup S,
             liquidationBalance' = liquidationBalance - SaleShares(S),
             UNCHANGED <<auctionVars, nftHolder>>
      PROVE  SaleInv'
  <2>. DEFINE left == Offers \ collateralClaimed
  <2>1. SaleShares(left) = SaleShares(S) + SaleShares(left \ S)
    BY <1>3, SaleSharesSplit DEF TypeOK
  <2>2. SaleShares(left \ S) = SaleShares(Offers \ collateralClaimed')
    <3>1. left \ S = Offers \ collateralClaimed'
      BY <1>3
    <3>. QED
      BY <3>1
  <2>3. SaleShares(S) \in Nat /\ SaleShares(left \ S) \in Nat
    BY SaleSharesNat DEF TypeOK
  <2>4. liquidationBalance \in Nat /\ liquidationBalance >= SaleShares(left)
    BY <1>3 DEF SaleInv, ProceedsCoverShares, TypeOK
  <2>. HIDE DEF left
  <2>5. liquidationBalance' >= SaleShares(Offers \ collateralClaimed')
    BY <1>3, <2>1, <2>2, <2>3, <2>4
  <2>6. SaleShares(Offers \ collateralClaimed)' = SaleShares(Offers \ collateralClaimed')
    BY <1>3 DEF SaleShares, SaleShare, auctionVars
  <2>. QED
    BY <1>3, <2>5, <2>6 DEF SaleInv, ProceedsCoverShares, auctionVars
<1>4. ASSUME NEW u \in Users, NEW o \in Offers, claimCollateralAsLender(u, o)
      PROVE  SaleInv'
  <2>1. /\ o \notin collateralClaimed /\ collateralClaimed' = collateralClaimed \cup {o}
        /\ UNCHANGED auctionVars
    BY <1>4 DEF claimCollateralAsLender
  <2>2. CASE SeizeProceeds(o)
    <3>1. SaleShares({o}) = SaleShare(o)
      BY ShareOfOne DEF TypeOK
    <3>. QED
      BY <1>3, <2>1, <2>2, <3>1 DEF SeizeProceeds
  <2>3. CASE SeizeERC20(o) \/ SeizeNFT \/ SeizeNothing
    <3>1. ~alreadySold /\ ~alreadySold'
      BY <2>1, <2>3 DEF SeizeERC20, SeizeNFT, SeizeNothing, SaleInv, isCollateralNFT, auctionVars
    <3>2. nftHolder' \notin {"auction", "buyer"} \/ nftHolder' = nftHolder
      BY <2>3 DEF SeizeERC20, SeizeNFT, SeizeNothing
    <3>. QED
      BY <2>1, <3>1, <3>2 DEF SaleInv, ProceedsCoverShares, auctionVars
  <2>. QED
    BY <1>4, <2>2, <2>3 DEF claimCollateralAsLender
<1>5. ASSUME NEW u \in Users, NEW o \in Offers, createAuctionForCollateral(u, o)
      PROVE  SaleInv'
  BY <1>5 DEF createAuctionForCollateral, SaleInv, ProceedsCoverShares
<1>6. ASSUME NEW amount \in SaleAmounts, handleAuctionSell(amount)
      PROVE  SaleInv'
  <2>1. /\ amount \in Nat /\ liquidationBalance \in Nat /\ collateralClaimed \subseteq Offers
        /\ nftHolder' = "buyer" /\ auctionInitialized' = auctionInitialized
        /\ auctionInitialized /\ collateralClaimed' = collateralClaimed
        /\ tokenPerCollateralUsed' = (amount * Precision) \div valuableCollateralUsed
        /\ liquidationBalance' = liquidationBalance + amount
    BY <1>6, LoanFacts DEF handleAuctionSell, TypeOK, SaleInv, offerVars
  <2>. DEFINE left == Offers \ collateralClaimed
              t == tokenPerCollateralUsed'
              f == [o \in Offers |-> SaleShare(o)']
              g == [o \in left |-> SaleShare(o)']
  <2>2. SharesAt(f, t) /\ t = (amount * Precision) \div valuableCollateralUsed
    BY <2>1 DEF SharesAt, SaleShare
  <2>3. left \subseteq Offers /\ IsFiniteSet(left) /\ IsFiniteSet(Offers)
    BY SubsetFinite
  <2>4. \A o \in left : g[o] = f[o]
    OBVIOUS
  <2>. HIDE DEF left, t, f, g
  <2>5. (\A o \in Offers : f[o] \in Nat) /\ SumFunctionOnSet(f, Offers) <= amount
    BY ONLY <2>1, <2>2, SharesWithinSale
  <2>6. SumFunctionOnSet(f, left) \in Nat /\ SumFunctionOnSet(f, left) <= SumFunctionOnSet(f, Offers)
    BY ONLY <2>3, <2>5, SumSubset
  <2>7. SumFunctionOnSet(g, left) = SumFunctionOnSet(f, left)
    BY ONLY <2>3, <2>4, SumSame
  <2>8. SumFunctionOnSet(f, Offers) \in Nat
    BY ONLY <2>3, <2>5, SumNat
  <2>9. liquidationBalance' >= SumFunctionOnSet(g, left)
    BY <2>1, <2>5, <2>6, <2>7, <2>8
  <2>10. SaleShares(Offers \ collateralClaimed)' = SumFunctionOnSet(g, left)
    BY <2>1 DEF SaleShares, g, left
  <2>. QED
    BY <2>1, <2>9, <2>10 DEF SaleInv, ProceedsCoverShares
<1>7. ASSUME NEW S \in SUBSET Offers, ReleaseERC20(S)
      PROVE  SaleInv'
  BY <1>7 DEF ReleaseERC20, CountBorrowerClaim, isCollateralNFT, SaleInv, ProceedsCoverShares,
              auctionVars
<1>8. ASSUME NEW S \in SUBSET Offers, ReleaseProceeds(S)
      PROVE  SaleInv'
  BY <1>3, <1>8 DEF ReleaseProceeds, Releasable, CountBorrowerClaim
<1>9. ASSUME NEW k \in 0 .. MaxIndexes, ReleaseNFT(k)
      PROVE  SaleInv'
  BY <1>2, <1>9 DEF ReleaseNFT, CountBorrowerClaim, auctionVars
<1>10. CASE \/ \E u \in Users, S \in SUBSET Offers : payDebt(u, S)
            \/ \E u \in Users, o \in Offers : claimDebt(u, o)
            \/ \E u \in Users : extendLoan(u)
            \/ Tick
            \/ \E t \in Tokens, u \in Users : TransferOwnership(t, u)
            \/ \E l \in LendOrders : ChangePerpetual(l)
            \/ \E settings \in FeeSettings : SetFees(settings)
            \/ UNCHANGED vars
  BY <1>1, <1>10 DEF payDebt, claimDebt, claimPaidDebt, claimInterest, extendLoan, Tick,
                     TransferOwnership, ChangePerpetual, SetFees, offerVars, assetVars, vars
<1>. QED
  BY <1>4, <1>5, <1>6, <1>7, <1>8, <1>9, <1>10 DEF Next, claimCollateralAsBorrower

LEMMA SaleInvariant == Spec => []SaleInv
<1>1. Init => SaleInv
  BY DEF Init, SaleInv, ProceedsCoverShares
<1>2. IInv /\ SaleInv /\ [Next]_vars => SaleInv'
  BY SaleStep DEF IInv
<1> QED
  BY <1>1, <1>2, InductiveInvariant, PTL DEF Spec

(* What is left of the proceeds of an auction pays the share of every      *)
(* offer that nobody has claimed yet, whatever the amounts and in whatever *)
(* order the lenders and the borrower come.                                *)
THEOREM ProceedsAlwaysCover == Spec => []ProceedsCoverShares
<1>1. SaleInv => ProceedsCoverShares
  BY DEF SaleInv
<1> QED
  BY <1>1, SaleInvariant, PTL

-----------------------------------------------------------------------------
(* Nothing owed is out of reach                                            *)

(* Before the sale the borrower of an NFT loan claims no part of the       *)
(* collateral, and with the NFT it claims all of it.                       *)
LEMMA ReturnStep ==
  ASSUME TypeOK, SeizedOnlyInDefault, SaleInv, ReturnInv, [Next]_vars
  PROVE  ReturnInv'
<1>1. ASSUME UNCHANGED <<paid, collateralClaimed, nftHolder, alreadySold>>
      PROVE  ReturnInv'
  BY <1>1 DEF ReturnInv, isCollateralNFT
<1>2. ASSUME NEW u \in Users, NEW S \in SUBSET Offers, payDebt(u, S)
      PROVE  ReturnInv'
  <2>1. ~Defaulted
    BY <1>2, DeadlineBounds DEF payDebt, InTimeToPay, Defaulted, TypeOK
  <2>2. collateralClaimed \subseteq paid
    BY <2>1 DEF SeizedOnlyInDefault
  <2>3. /\ paid' = paid \cup S
        /\ UNCHANGED <<collateralClaimed, nftHolder, alreadySold>>
    BY <1>2 DEF payDebt, auctionVars
  <2> QED  BY <2>2, <2>3 DEF ReturnInv, isCollateralNFT
<1>3. ASSUME NEW u \in Users, NEW o \in Offers, claimCollateralAsLender(u, o)
      PROVE  ReturnInv'
  <2>1. /\ o \notin paid /\ o \notin collateralClaimed /\ paid' = paid
        /\ collateralClaimed' = collateralClaimed \cup {o}
        /\ alreadySold' = alreadySold
    BY <1>3 DEF claimCollateralAsLender, auctionVars
  <2>2. nftHolder' = nftHolder \/ (nftHolder = "loan" /\ nftHolder' = "lender")
    <3>1. SeizeERC20(o) \/ SeizeProceeds(o) \/ SeizeNFT \/ SeizeNothing
      BY <1>3 DEF claimCollateralAsLender
    <3> QED  BY <3>1 DEF SeizeERC20, SeizeProceeds, SeizeNFT, SeizeNothing
  <2>3. collateralClaimed # Offers /\ collateralClaimed' \cap paid' = collateralClaimed \cap paid
    BY <2>1
  <2> QED  BY <2>1, <2>2, <2>3 DEF ReturnInv, isCollateralNFT
<1>4. ASSUME NEW u \in Users, NEW o \in Offers, createAuctionForCollateral(u, o)
      PROVE  ReturnInv'
  BY <1>4 DEF createAuctionForCollateral, offerVars, SaleInv, ReturnInv, isCollateralNFT
<1>5. ASSUME NEW amount \in SaleAmounts, handleAuctionSell(amount)
      PROVE  ReturnInv'
  BY <1>5 DEF handleAuctionSell, ReturnInv
<1>6. ASSUME NEW S \in SUBSET Offers, ReleaseERC20(S) \/ ReleaseProceeds(S)
      PROVE  ReturnInv'
  <2>1. /\ ~isCollateralNFT \/ alreadySold
        /\ paid' = paid /\ alreadySold' = alreadySold /\ nftHolder' = nftHolder
        /\ nftHolder = "borrower" => collateralClaimed' = collateralClaimed \cup S
    BY <1>6 DEF ReleaseERC20, ReleaseProceeds, CountBorrowerClaim, auctionVars
  <2> QED  BY <2>1 DEF ReturnInv, isCollateralNFT
<1>7. ASSUME NEW k \in 0 .. MaxIndexes, ReleaseNFT(k)
      PROVE  ReturnInv'
  BY <1>7 DEF ReleaseNFT, ReturnInv
<1>8. CASE \/ \E u \in Users, o \in Offers : claimDebt(u, o)
           \/ \E u \in Users : extendLoan(u)
           \/ Tick
           \/ \E t \in Tokens, u \in Users : TransferOwnership(t, u)
           \/ \E l \in LendOrders : ChangePerpetual(l)
           \/ \E settings \in FeeSettings : SetFees(settings)
           \/ UNCHANGED vars
  BY <1>1, <1>8 DEF claimDebt, claimPaidDebt, claimInterest, extendLoan, Tick,
                    TransferOwnership, ChangePerpetual, SetFees, offerVars, auctionVars,
                    assetVars, vars
<1> QED
  BY <1>2, <1>3, <1>4, <1>5, <1>6, <1>7, <1>8 DEF Next, claimCollateralAsBorrower

LEMMA ReturnInvariant == Spec => []ReturnInv
<1>1. Init => ReturnInv
  BY DEF Init, ReturnInv
<1>2. IInv /\ SaleInv /\ ReturnInv /\ [Next]_vars => ReturnInv'
  BY ReturnStep DEF IInv
<1> QED
  BY <1>1, <1>2, InductiveInvariant, SaleInvariant, PTL DEF Spec

(* What is held for one offer covers its share, on either kind of          *)
(* collateral.                                                             *)
LEMMA ShareCovered ==
  ASSUME IInv, SaleInv, NEW o \in Offers \ collateralClaimed
  PROVE  ShareUnhindered(o)
<1>1. ASSUME ~isCollateralNFT
      PROVE  Covers(collateralEscrow[o], CollateralShare(o))
  <2>1. collateralEscrow[o] = collateralUsed[o] /\ collateralUsed[o] = CollateralShare(o)
    BY <1>1, LoanFacts DEF IInv, CollateralAccounted, CollateralShare
  <2>2. collateralUsed[o] \in Nat
    BY LoanFacts
  <2> QED  BY <2>1, <2>2 DEF Covers
<1>2. ASSUME alreadySold
      PROVE  auctionInitialized /\ Covers(liquidationBalance, SaleShare(o))
  <2> DEFINE left == Offers \ collateralClaimed
  <2>1. tokenPerCollateralUsed \in Nat /\ liquidationBalance \in Nat
    BY DEF IInv, TypeOK
  <2>2. SaleShares(left) = SaleShares({o}) + SaleShares(left \ {o})
    BY <2>1, SaleSharesSplit
  <2>3. SaleShares({o}) = SaleShare(o) /\ SaleShare(o) \in Nat
    BY <2>1, ShareOfOne, SaleShareNat
  <2>4. SaleShares(left \ {o}) \in Nat
    BY <2>1, SaleSharesNat
  <2>5. auctionInitialized /\ liquidationBalance >= SaleShares(left)
    BY <1>2 DEF SaleInv, ProceedsCoverShares
  <2> HIDE DEF left
  <2> QED  BY <2>1, <2>2, <2>3, <2>4, <2>5 DEF Covers
<1> QED  BY <1>1, <1>2 DEF ShareUnhindered

(* A lender that was not repaid still has its position, and its guard is   *)
(* open as long as the default lasts, which is for ever.                   *)
LEMMA SeizureOpen ==
  ASSUME IInv, SaleInv, NEW o \in Offers
  PROVE  SeizureUnhindered(o)
<1> SUFFICES ASSUME o \notin paid, o \notin collateralClaimed, Defaulted
             PROVE  ownerOf[o] \in Users /\ SeizableNow /\ ShareUnhindered(o)
  BY DEF SeizureUnhindered
<1>1. ownerOf[o] \in Users
  BY DEF IInv, TypeOK, PositionHeld, Tokens
<1>2. NextDeadline \in Nat /\ NextDeadline >= startedAt + initialDuration
  BY DeadlineBounds DEF IInv, Defaulted
<1>3. NextDeadline # 0
  BY <1>2, LoanFacts
<1> QED  BY <1>1, <1>3, ShareCovered DEF SeizableNow, Defaulted

(* The borrower of a paid offer finds its share, and the borrower of a     *)
(* loan paid in full finds the NFT untouched.                              *)
LEMMA ReturnOpen ==
  ASSUME IInv, SaleInv, ReturnInv, NFTGoesToOneSide, NEW o \in Offers
  PROVE  ReturnUnhindered(o)
<1> SUFFICES ASSUME o \in paid, o \notin collateralClaimed
             PROVE  /\ ownerOf[borrowerID] \in Users
                    /\ ShareUnhindered(o)
                    /\ isCollateralNFT /\ paid = Offers =>
                         /\ nftHolder = "loan" /\ ~alreadySold /\ collateralClaimed = {}
                         /\ totalCountPaid = Cardinality(Offers)
  BY DEF ReturnUnhindered
<1>1. ownerOf[borrowerID] \in Users
  BY DEF IInv, TypeOK, BorrowerTokenOutlivesLoan, Tokens
<1>2. ASSUME isCollateralNFT, paid = Offers
      PROVE  /\ nftHolder = "loan" /\ ~alreadySold /\ collateralClaimed = {}
             /\ totalCountPaid = Cardinality(Offers)
  <2>1. nftHolder \notin {"auction", "buyer", "lender"}
    BY <1>2 DEF NFTGoesToOneSide, Defaulted, Unpaid
  <2>2. nftHolder # "borrower" /\ nftHolder # "none"
    BY <1>2 DEF ReturnInv, isCollateralNFT
  <2>3. nftHolder = "loan" /\ ~alreadySold
    BY <2>1, <2>2 DEF IInv, TypeOK, SaleInv
  <2>4. collateralClaimed = {}
    BY <1>2, <2>3 DEF ReturnInv, IInv, TypeOK
  <2> QED  BY <1>2, <2>3, <2>4 DEF IInv, CountMatches
<1> QED  BY <1>1, <1>2, ShareCovered

(* Nothing but time ever keeps a lender or the borrower from what it is    *)
(* owed, whatever the others did and in whatever order: the token that     *)
(* proves the claim exists, the guards hold and the balances suffice.      *)
THEOREM NothingHindersClaims == Spec => []ClaimsUnhindered
<1>1. IInv /\ SaleInv /\ ReturnInv /\ NFTGoesToOneSide => ClaimsUnhindered
  <2> SUFFICES ASSUME IInv, SaleInv, ReturnInv, NFTGoesToOneSide, NEW o \in Offers
               PROVE  DebtUnhindered(o) /\ SeizureUnhindered(o) /\ ReturnUnhindered(o)
    BY DEF ClaimsUnhindered
  <2>1. DebtUnhindered(o)
    <3> SUFFICES ASSUME o \in paid, o \notin debtClaimed
                 PROVE  /\ ownerOf[o] \in Users
                        /\ Covers(escrow[o], interestToClaim[o] + principleAmount[o])
      BY DEF DebtUnhindered
    <3>1. ownerOf[o] \in Users
      BY DEF IInv, TypeOK, PositionHeld, Tokens
    <3>2. /\ escrow[o] \in Nat /\ interestToClaim[o] \in Nat /\ principleAmount[o] \in Nat
          /\ escrow[o] >= interestToClaim[o] + principleAmount[o]
      BY LoanFacts DEF IInv, TypeOK, EscrowCoversDebt, Claimable
    <3> QED  BY <3>1, <3>2 DEF Covers
  <2> QED  BY <2>1, SeizureOpen, ReturnOpen
<1> QED
  BY <1>1, InductiveInvariant, SaleInvariant, ReturnInvariant, NFTOnOneSide, PTL

-----------------------------------------------------------------------------
(* The loan implements LoanPromise                                         *)

(* Neither paying nor extending before the deadline puts the loan in       *)
(* default: the next deadline is still to come afterwards.                 *)
LEMMA StillInTime ==
  ASSUME TypeOK, NextDeadline >= now, now' = now, NEW S \in SUBSET Unpaid,
         \/ paid' = paid \cup S /\ extended' = extended
         \/ paid' = paid /\ extended' = TRUE
  PROVE  ~Defaulted /\ ~Defaulted' /\ UNCHANGED Defaulted
<1>1. ~Defaulted
  BY DeadlineBounds DEF Defaulted, TypeOK
<1> SUFFICES ASSUME Unpaid' # {} PROVE ~(NextDeadline' < now)
  BY <1>1 DEF Defaulted
<1>2. Unpaid' \subseteq Unpaid
  BY DEF Unpaid
<1>3. \A o \in Unpaid' : maxDeadline[o] \in Nat /\ maxDeadline[o] >= now
  BY <1>2, DeadlineBounds DEF TypeOK
<1>4. CASE ~extended'
  BY <1>4, DeadlineBounds DEF NextDeadline, TypeOK
<1>5. CASE extended'
  <2> DEFINE D == {maxDeadline[o] : o \in Unpaid'}
  <2>1. NextDeadline' = Min(D)
    BY <1>5 DEF NextDeadline
  <2>2. D \in SUBSET Nat /\ D # {}
    BY <1>3
  <2>3. Min(D) \in D
    BY <2>2, MinOfNaturals
  <2>4. PICK o \in Unpaid' : Min(D) = maxDeadline[o]
    BY <2>3
  <2> QED  BY <2>1, <2>4, <1>3 DEF TypeOK
<1> QED  BY <1>4, <1>5

(* A step that leaves these alone is a stutter of the promise.             *)
LEMMA PromiseStutter ==
  ASSUME UNCHANGED <<now, paid, collateralClaimed, debtClaimed, extended>>
  PROVE  UNCHANGED Promise!promiseVars
  BY DEF Promise!promiseVars, Defaulted, Unpaid, NextDeadline

LEMMA PromiseStep ==
  ASSUME IInv, [Next]_vars
  PROVE  [Promise!PromiseNext]_(Promise!promiseVars)
<1> USE DEF IInv
<1>1. ASSUME NEW u \in Users, NEW S \in SUBSET Offers, payDebt(u, S)
      PROVE  Promise!PromiseNext
  <2> DEFINE T == {o \in S : GoesToLendOrder(o)}
  <2>1. /\ S \subseteq Offers \ paid /\ T \subseteq S
        /\ paid' = paid \cup S /\ debtClaimed' = debtClaimed \cup T
        /\ UNCHANGED <<now, extended, collateralClaimed>>
        /\ NextDeadline >= now
    BY <1>1 DEF payDebt, Payable, MarkSentOn, InTimeToPay, Unpaid
  <2>2. ~Defaulted /\ UNCHANGED Defaulted
    BY <2>1, StillInTime DEF Unpaid
  <2>3. collateralClaimed \ paid = {}
    BY <2>2 DEF SeizedOnlyInDefault
  <2>4. UNCHANGED <<collateralClaimed \ paid, collateralClaimed \cap paid>>
    BY <2>1, <2>3
  <2> HIDE DEF T
  <2>5. Promise!Repay(S, T)
    BY <2>1, <2>2, <2>4 DEF Promise!Repay
  <2> QED  BY <2>1, <2>5 DEF Promise!PromiseNext
<1>2. ASSUME NEW u \in Users, NEW o \in Offers, claimPaidDebt(u, o)
      PROVE  Promise!PromiseNext
  <2>1. /\ o \in paid \ debtClaimed /\ debtClaimed' = debtClaimed \cup {o}
        /\ UNCHANGED <<now, paid, collateralClaimed, extended>>
    BY <1>2 DEF claimPaidDebt, DebtPending
  <2>2. Promise!TakeDebt(o)
    BY <2>1 DEF Promise!TakeDebt, Defaulted, Unpaid, NextDeadline
  <2> QED  BY <2>2 DEF Promise!PromiseNext
<1>3. ASSUME NEW u \in Users, NEW o \in Offers, claimInterest(u, o)
      PROVE  UNCHANGED Promise!promiseVars
  BY <1>3, PromiseStutter DEF claimInterest
<1>4. ASSUME NEW u \in Users, NEW o \in Offers, claimCollateralAsLender(u, o)
      PROVE  Promise!PromiseNext
  <2>1. /\ o \notin paid /\ o \notin collateralClaimed /\ NextDeadline < now
        /\ collateralClaimed' = collateralClaimed \cup {o}
        /\ UNCHANGED <<now, paid, debtClaimed, extended>>
    BY <1>4 DEF claimCollateralAsLender, SeizableNow
  <2>2. Defaulted /\ Defaulted'
    BY <2>1 DEF Defaulted, Unpaid, NextDeadline
  <2>3. Promise!Seize(o)
    BY <2>1, <2>2 DEF Promise!Seize
  <2> QED  BY <2>3 DEF Promise!PromiseNext
<1>5. CASE \/ \E u \in Users, o \in Offers : createAuctionForCollateral(u, o)
           \/ \E amount \in SaleAmounts : handleAuctionSell(amount)
  BY <1>5, PromiseStutter DEF createAuctionForCollateral, handleAuctionSell, offerVars
<1>6. ASSUME NEW S \in SUBSET Offers, S \subseteq paid \ collateralClaimed,
             collateralClaimed' = collateralClaimed \cup S,
             UNCHANGED <<now, paid, debtClaimed, extended>>
      PROVE  Promise!PromiseNext
  <2>1. UNCHANGED Defaulted
    BY <1>6 DEF Defaulted, Unpaid, NextDeadline
  <2>2. Promise!Release(S)
    BY <1>6, <2>1 DEF Promise!Release
  <2> QED  BY <2>2 DEF Promise!PromiseNext
<1>7. CASE \E u \in Users : claimCollateralAsBorrower(u)
  <2>1. ASSUME NEW S \in SUBSET Offers, ReleaseERC20(S) \/ ReleaseProceeds(S)
        PROVE  Promise!PromiseNext
    BY <2>1, <1>6 DEF ReleaseERC20, Releasable, ReleaseProceeds, CountBorrowerClaim
  <2>2. ASSUME NEW k \in 0..MaxIndexes, ReleaseNFT(k)
        PROVE  Promise!PromiseNext
    <3>1. /\ Offers \subseteq paid \ collateralClaimed
          /\ collateralClaimed' = collateralClaimed \cup Offers
          /\ UNCHANGED <<now, paid, debtClaimed, extended>>
      BY <2>2 DEF ReleaseNFT, CountBorrowerClaim, Unpaid
    <3> QED  BY <3>1, <1>6
  <2> QED  BY <1>7, <2>1, <2>2 DEF claimCollateralAsBorrower
<1>8. ASSUME NEW u \in Users, extendLoan(u)
      PROVE  UNCHANGED Promise!promiseVars
  <2>1. /\ UNCHANGED <<now, paid, collateralClaimed, debtClaimed>>
        /\ extended' = TRUE
    BY <1>8 DEF extendLoan
  <2>2. NextDeadline >= now
    BY <1>8, DeadlineBounds DEF extendLoan, TypeOK
  <2>3. UNCHANGED Defaulted
    BY <2>1, <2>2, StillInTime
  <2> QED  BY <2>1, <2>3 DEF Promise!promiseVars
<1>9. CASE Tick
  <2>1. UNCHANGED <<paid, collateralClaimed, debtClaimed>>
    BY <1>9 DEF Tick, offerVars
  <2>2. Defaulted => Defaulted'
    BY <1>9, DefaultStep DEF Next
  <2>3. CASE Defaulted' = Defaulted
    BY <2>1, <2>3 DEF Promise!promiseVars
  <2>4. CASE ~Defaulted /\ Defaulted'
    <3>1. paid # Offers
      BY <2>1, <2>4 DEF Defaulted, Unpaid
    <3>2. Promise!Default
      BY <2>1, <2>4, <3>1 DEF Promise!Default
    <3> QED  BY <3>2 DEF Promise!PromiseNext
  <2> QED  BY <2>2, <2>3, <2>4 DEF Defaulted
<1>10. CASE \/ \E t \in Tokens, u \in Users : TransferOwnership(t, u)
            \/ \E l \in LendOrders : ChangePerpetual(l)
            \/ \E settings \in FeeSettings : SetFees(settings)
            \/ UNCHANGED vars
  BY <1>10, PromiseStutter DEF TransferOwnership, ChangePerpetual, SetFees, offerVars, vars
<1> QED
  BY <1>1, <1>2, <1>3, <1>4, <1>5, <1>7, <1>8, <1>9, <1>10 DEF Next, claimDebt

(* Every behaviour of the contract is a behaviour of LoanPromise: an offer *)
(* is repaid or seized but not both, each side's claim succeeds at most    *)
(* once, and default ends repayment.                                       *)
THEOREM LoanKeepsPromise == Spec => ImplementsPromise
<1>1. Init => Promise!PromiseInit
  <2> SUFFICES ASSUME Init PROVE Promise!PromiseInit
    OBVIOUS
  <2>1. ~Defaulted
    BY LoanFacts DEF Init, Defaulted, NextDeadline
  <2> QED  BY <2>1 DEF Init, Promise!PromiseInit, Defaulted
<1>2. IInv /\ [Next]_vars => [Promise!PromiseNext]_(Promise!promiseVars)
  BY PromiseStep
<1> QED
  BY <1>1, <1>2, InductiveInvariant, PTL
     DEF Spec, ImplementsPromise, Promise!PromiseSpec
=============================================================================
