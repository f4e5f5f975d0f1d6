----------------------------- MODULE DebitaLoan -----------------------------
(***************************************************************************)
(* One deployed DebitaV3Loan contract (contracts/DebitaV3Loan.sol): the    *)
(* life of a loan from the state the Aggregator initialises it in, through *)
(* repayment, extension, default, seizure or auction of the collateral, to *)
(* the claims of the lenders and of the borrower.                          *)
(*                                                                         *)
(* A transaction is atomic, so every external function is one action; a    *)
(* revert is an action that is not enabled.  msg.sender is the parameter   *)
(* u, and the calls of all users interleave.  Block timestamps advance     *)
(* through the finite set Times.                                           *)
(*                                                                         *)
(* The lender ownership token of offer o (offer.lenderID) is named o; the  *)
(* borrower's is borrowerID.  The ERC20 balances of the contract are kept  *)
(* as one account per offer, so that no action has to add up a set: the    *)
(* balance of the contract is the sum of the accounts.                     *)
(***************************************************************************)
EXTENDS LoanTerms

CONSTANTS
  Users,            \* externally owned accounts
  NoUser,           \* "no owner": the token was burned
  borrowerID,       \* the borrower's ownership token
  LendOrders,       \* lend orders the accepted offers came from
  \* LoanData, fixed by initialize
  Offers,           \* indexes of loanData._acceptedOffers
  Collaterals,      \* kinds of collateral the loan may have: ERC20, NFT
  startedAt,
  initialDuration,
  valuableCollateralUsed,
  feeLender,        \* basis points of the interest
  \* infoOfOffers, fixed by initialize: functions on Offers
  lendOffer, principleAmount, apr, ratio, collateralUsed, maxDeadline,
  \* the environment
  lendOwner,        \* owner of each lend order (LendInfo.owner)
  firstBorrower,    \* borrowInfo.owner, to whom borrowerID is minted
  FeeSettings,      \* what feePerDay, minFEE and maxFEE of the Aggregator may be
  Day,              \* 86400 seconds
  Precision,        \* 10 ** decimals of the collateral asset
  Year,             \* 31536000 seconds in the code; scaled down with Times
  \* bounds
  Times,            \* block timestamps that occur
  SaleAmounts,      \* net proceeds an auction may report
  MaxIndexes        \* longest index array a caller passes

Tokens == Offers \cup {borrowerID}

(* The loan as matchOffersV3 initialises it.                               *)
Terms ==
  [offers |-> Offers, startedAt |-> startedAt, initialDuration |-> initialDuration,
   lendOrders |-> LendOrders, lendOffer |-> lendOffer,
   principleAmount |-> principleAmount, apr |-> apr, ratio |-> ratio,
   collateralUsed |-> collateralUsed, maxDeadline |-> maxDeadline,
   precision |-> Precision, valuableCollateralUsed |-> valuableCollateralUsed]

(* The terms are those of a match.  The setters of the Aggregator bound    *)
(* the fees, and every loan starts more than 100 days after 1970.          *)
ASSUME LoanAssumption ==
  /\ MatchedTerms(Terms)
  /\ borrowerID \notin Offers
  /\ NoUser \notin Users
  /\ Collaterals \subseteq {"ERC20", "NFT"}
  /\ lendOwner \in [LendOrders -> Users]
  /\ firstBorrower \in Users
  /\ feeLender \in Nat /\ feeLender <= 10000
  /\ FeeSettings \subseteq [feePerDay : 1 .. 10, minFEE : 10 .. 50, maxFEE : 50 .. 100]
  /\ Day \in Nat \ {0} /\ startedAt >= 100 * Day
  /\ Year \in Nat \ {0}
  /\ Times \subseteq Nat
  /\ SaleAmounts \subseteq Nat
  /\ MaxIndexes \in Nat

VARIABLES
  now,                     \* block.timestamp
  \* the flags and amounts of infoOfOffers: sets of offers, and functions
  paid, collateralClaimed, debtClaimed, interestToClaim, interestPaid,
  \* LoanData, AuctionData and the borrower's claim counter
  totalCountPaid, extended, auctionInitialized, alreadySold,
  tokenPerCollateralUsed, offersCollateralClaimed_Borrower,
  \* assets held by the contract
  escrow,                  \* principle tokens, per offer
  collateralEscrow,        \* ERC20 collateral, per offer
  liquidationBalance,      \* auction proceeds
  nftHolder,               \* where the NFT collateral is
  \* the other contracts the loan reads and writes
  ownerOf,                 \* DebitaLoanOwnerships
  perpetual,               \* lend orders whose perpetual flag is set
  fees,                    \* the Aggregator's settings of the borrower's fee
  \* history
  delivered,               \* principle handed to the lender's side, per offer
  feeCharged               \* fee charged to the borrower, in basis points, per offer

offerVars == <<paid, collateralClaimed, debtClaimed, interestToClaim, interestPaid>>
auctionVars == <<auctionInitialized, alreadySold, tokenPerCollateralUsed>>
assetVars == <<escrow, collateralEscrow, liquidationBalance, nftHolder>>
feeVars == <<fees, feeCharged>>
vars == <<now, offerVars, totalCountPaid, extended, auctionVars,
          offersCollateralClaimed_Borrower, assetVars, ownerOf, perpetual,
          delivered, feeVars>>

-----------------------------------------------------------------------------
(* Reads                                                                   *)

(* isCollateralNFT, fixed by initialize: there is an NFT, wherever it is.  *)
isCollateralNFT == nftHolder # "none"

Unpaid == Offers \ paid

(* Mutant: the running minimum starts at zero and stays there.             *)
NextDeadline_ZeroSeed ==
  IF extended THEN 0 ELSE startedAt + initialDuration

NextDeadline ==
  IF extended
    THEN IF Unpaid = {} THEN 0 ELSE Min({maxDeadline[o] : o \in Unpaid})
    ELSE startedAt + initialDuration

MinimalDuration == (initialDuration * 1000) \div 10000

(* Interest accrued on offer o since the loan started.                     *)
ActiveTime(o) ==
  LET active == now - startedAt
      maxDuration == maxDeadline[o] - startedAt
  IN  IF active > maxDuration THEN maxDuration
      ELSE IF active < MinimalDuration THEN MinimalDuration ELSE active

Accrued(o) ==
  (((principleAmount[o] * apr[o]) \div 10000) * ActiveTime(o)) \div Year

(* Mutant: what the extension already collected is charged again.          *)
InterestDue_Twice(o) == Accrued(o)

(* calculateInterestToPay: the code's subtraction reverts below zero.      *)
InterestDue(o) == Accrued(o) - interestPaid[o]
InterestDefined(o) == InterestDue(o) >= 0

NetInterest(o) == InterestDue(o) - (InterestDue(o) * feeLender) \div 10000

(* The lender still holds the position and lends perpetually: what the     *)
(* borrower pays goes back to the lend order instead of waiting here.      *)
GoesToLendOrder(o) ==
  /\ lendOffer[o] \in perpetual
  /\ lendOwner[lendOffer[o]] = ownerOf[o]

(* Mutant: the share is rounded up.                                        *)
CollateralShare_RoundUp(o) ==
  (principleAmount[o] * Precision + ratio[o] - 1) \div ratio[o]

CollateralShare(o) == (principleAmount[o] * Precision) \div ratio[o]

(* Mutant: the share is rounded up.                                        *)
SaleShare_RoundUp(o) ==
  (tokenPerCollateralUsed * collateralUsed[o] + Precision - 1) \div Precision

SaleShare(o) == (tokenPerCollateralUsed * collateralUsed[o]) \div Precision

(* What the claims of the offers in S take out of the proceeds.            *)
SaleShares(S) == SumFunctionOnSet([o \in S |-> SaleShare(o)], S)

(* The three readings of the deadline: to pay, to seize, and to auction.   *)
(* Mutants: pay on each offer's own deadline only; seize one block early;  *)
(* auction without waiting.                                                *)
InTimeToPay_Ignored == TRUE
InTimeToPay == NextDeadline >= now

SeizableNow_Early == NextDeadline <= now /\ NextDeadline # 0
SeizableNow == NextDeadline < now /\ NextDeadline # 0

AuctionableNow_Anytime == TRUE
AuctionableNow == NextDeadline < now

(* A call pays unpaid offers only.                                         *)
Payable(S) ==
  /\ S \subseteq Unpaid
  /\ \A o \in S : maxDeadline[o] > now /\ InterestDefined(o)

(* Payments sent on to the lend order count as claimed.  Mutant: not.      *)
MarkSentOn_Forgotten(T) == T \subseteq Offers /\ UNCHANGED debtClaimed
MarkSentOn(T) == debtClaimed' = debtClaimed \cup T

(* The debt of o waits for its lender.  Mutant: only paid is checked.      *)
DebtPending_PaidOnly(o) == o \in paid
DebtPending(o) == o \in paid /\ o \notin debtClaimed

(* The borrower's claim count closes the loan.  Mutant: as soon as every   *)
(* offer paid so far is claimed.                                           *)
ClosesLoan_PaidSoFar(n) == n = Cardinality(paid)
ClosesLoan(n) == n = Cardinality(Offers)

(* The borrower's fee, in basis points.                                    *)
Clamped(x, low, high) == IF x > high THEN high ELSE IF x < low THEN low ELSE x

FeeFor(duration) == (duration * fees.feePerDay) \div Day

(* The fee of the match, as the settings are now.  Mutant: no maximum.     *)
PorcentageOfFeePaid_Unlimited ==
  IF FeeFor(initialDuration) < fees.minFEE THEN fees.minFEE ELSE FeeFor(initialDuration)
PorcentageOfFeePaid == Clamped(FeeFor(initialDuration), fees.minFEE, fees.maxFEE)

(* Mutant: no maximum.                                                     *)
feeOfMaxDeadline_Unlimited(o) == FeeFor(maxDeadline[o])

(* maxDeadline is a timestamp, not a duration.                             *)
feeOfMaxDeadline(o) ==
  Clamped(FeeFor(maxDeadline[o]), fees.feePerDay, fees.maxFEE)

(* The code's subtraction reverts below zero.                              *)
misingBorrowFee(o) ==
  IF PorcentageOfFeePaid = fees.maxFEE THEN 0
  ELSE feeOfMaxDeadline(o) - PorcentageOfFeePaid

(* An ERC20 transfer reverts when the balance does not cover it.           *)
Covers(balance, amount) == balance - amount \in Nat

Burn(t) == ownerOf' = [ownerOf EXCEPT ![t] = NoUser]

-----------------------------------------------------------------------------
Init ==
  /\ now = startedAt
  /\ paid = {} /\ collateralClaimed = {} /\ debtClaimed = {}
  /\ interestToClaim = [o \in Offers |-> 0]
  /\ interestPaid = [o \in Offers |-> 0]
  /\ totalCountPaid = 0
  /\ extended = FALSE
  /\ auctionInitialized = FALSE /\ alreadySold = FALSE
  /\ tokenPerCollateralUsed = 0
  /\ offersCollateralClaimed_Borrower = 0
  /\ escrow = [o \in Offers |-> 0]
  /\ \E kind \in Collaterals :
       nftHolder = IF kind = "NFT" THEN "loan" ELSE "none"
  /\ collateralEscrow =
       [o \in Offers |-> IF isCollateralNFT THEN 0 ELSE collateralUsed[o]]
  /\ liquidationBalance = 0
  /\ ownerOf = [t \in Tokens |-> IF t = borrowerID THEN firstBorrower
                                 ELSE lendOwner[lendOffer[t]]]
  /\ perpetual \in SUBSET LendOrders
  /\ delivered = [o \in Offers |-> 0]
  /\ fees \in FeeSettings
  /\ feeCharged = [o \in Offers |-> PorcentageOfFeePaid]

(* The borrower pays the offers in S in full.  A repeated index finds the  *)
(* offer already paid and reverts the whole call, so S is a set.           *)
payDebt(u, S) ==
  LET toOrder == {o \in S : GoesToLendOrder(o)}
      received(o) == principleAmount[o] + NetInterest(o)
  IN
  /\ ownerOf[borrowerID] = u
  /\ InTimeToPay
  /\ Payable(S)
  /\ paid' = paid \cup S
  /\ MarkSentOn(toOrder)
  /\ interestToClaim' = [o \in Offers |->
       IF o \in S \ toOrder THEN NetInterest(o) ELSE interestToClaim[o]]
  /\ interestPaid' = [o \in Offers |->
       IF o \in S THEN interestPaid[o] + InterestDue(o) ELSE interestPaid[o]]
  /\ escrow' = [o \in Offers |->
       IF o \in S \ toOrder THEN escrow[o] + received(o) ELSE escrow[o]]
  /\ delivered' = [o \in Offers |->
       IF o \in toOrder THEN delivered[o] + received(o) ELSE delivered[o]]
  /\ totalCountPaid' = totalCountPaid + Cardinality(S)
  /\ UNCHANGED <<now, collateralClaimed, extended, auctionVars,
                 offersCollateralClaimed_Borrower, collateralEscrow,
                 liquidationBalance, nftHolder, ownerOf, perpetual,
                 feeVars>>

(* claimDebt on a paid offer: _claimDebt.  interestToClaim is reset in the *)
(* memory copy only.                                                       *)
claimPaidDebt(u, o) ==
  LET amount == interestToClaim[o] + principleAmount[o] IN
  /\ ownerOf[o] = u
  /\ DebtPending(o)
  /\ debtClaimed' = debtClaimed \cup {o}
  /\ Burn(o)
  /\ escrow' = [escrow EXCEPT ![o] = @ - amount]
  /\ delivered' = [delivered EXCEPT ![o] = @ + amount]
  /\ UNCHANGED <<now, paid, collateralClaimed, interestToClaim, interestPaid,
                 totalCountPaid, extended, auctionVars,
                 offersCollateralClaimed_Borrower, collateralEscrow,
                 liquidationBalance, nftHolder, perpetual, feeVars>>

(* claimDebt on an unpaid offer: claimInterest.                            *)
claimInterest(u, o) ==
  /\ ownerOf[o] = u
  /\ o \notin paid
  /\ interestToClaim[o] > 0
  /\ interestToClaim' = [interestToClaim EXCEPT ![o] = 0]
  /\ escrow' = [escrow EXCEPT ![o] = @ - interestToClaim[o]]
  /\ delivered' = [delivered EXCEPT ![o] = @ + interestToClaim[o]]
  /\ UNCHANGED <<now, paid, collateralClaimed, debtClaimed, interestPaid,
                 totalCountPaid, extended, auctionVars,
                 offersCollateralClaimed_Borrower, collateralEscrow,
                 liquidationBalance, nftHolder, ownerOf, perpetual,
                 feeVars>>

claimDebt(u, o) == claimPaidDebt(u, o) \/ claimInterest(u, o)

-----------------------------------------------------------------------------
(* Default: the lender of one offer takes its part of the collateral.      *)

SeizeERC20(o) ==
  /\ ~isCollateralNFT
  /\ collateralEscrow' = [collateralEscrow EXCEPT ![o] = @ - CollateralShare(o)]
  /\ UNCHANGED <<liquidationBalance, nftHolder>>

SeizeProceeds(o) ==
  /\ isCollateralNFT /\ auctionInitialized /\ alreadySold
  /\ Covers(liquidationBalance, SaleShare(o))
  /\ liquidationBalance' = liquidationBalance - SaleShare(o)
  /\ UNCHANGED <<collateralEscrow, nftHolder>>

SeizeNFT ==
  /\ isCollateralNFT /\ ~auctionInitialized
  /\ Cardinality(Offers) = 1
  /\ nftHolder = "loan"
  /\ nftHolder' = "lender"
  /\ UNCHANGED <<collateralEscrow, liquidationBalance>>

(* Several offers and no auction yet: claimCollateralAsNFTLender returns   *)
(* false, which the caller ignores, and nothing is transferred.            *)
SeizeNothing ==
  /\ isCollateralNFT /\ ~auctionInitialized
  /\ Cardinality(Offers) # 1
  /\ UNCHANGED <<collateralEscrow, liquidationBalance, nftHolder>>

claimCollateralAsLender(u, o) ==
  /\ ownerOf[o] = u
  /\ Burn(o)
  /\ o \notin paid
  /\ SeizableNow
  /\ o \notin collateralClaimed
  /\ collateralClaimed' = collateralClaimed \cup {o}
  /\ SeizeERC20(o) \/ SeizeProceeds(o) \/ SeizeNFT \/ SeizeNothing
  /\ UNCHANGED <<now, paid, debtClaimed, interestToClaim, interestPaid,
                 totalCountPaid, extended, auctionVars,
                 offersCollateralClaimed_Borrower, escrow, perpetual, delivered,
                 feeVars>>

(* A lender of an unpaid offer, or the borrower of several offers, sends   *)
(* the NFT to a liquidation auction.                                       *)
createAuctionForCollateral(u, o) ==
  /\ isCollateralNFT
  /\ totalCountPaid # Cardinality(Offers)
  /\ AuctionableNow
  /\ ~auctionInitialized
  /\ \/ ownerOf[o] = u /\ o \notin paid
     \/ ownerOf[borrowerID] = u /\ Cardinality(Offers) > 1
  /\ nftHolder = "loan"
  /\ auctionInitialized' = TRUE
  /\ alreadySold' = FALSE
  /\ tokenPerCollateralUsed' = 0
  /\ nftHolder' = "auction"
  /\ UNCHANGED <<now, offerVars, totalCountPaid, extended,
                 offersCollateralClaimed_Borrower, escrow, collateralEscrow,
                 liquidationBalance, ownerOf, perpetual, delivered, feeVars>>

(* Auction.buyNFT pays the loan, reports the net price, and hands the NFT  *)
(* to the buyer in one transaction.                                        *)
handleAuctionSell(amount) ==
  /\ nftHolder = "auction"
  /\ ~alreadySold
  /\ alreadySold' = TRUE
  /\ tokenPerCollateralUsed' = (amount * Precision) \div valuableCollateralUsed
  /\ liquidationBalance' = liquidationBalance + amount
  /\ nftHolder' = "buyer"
  /\ UNCHANGED <<now, offerVars, totalCountPaid, extended, auctionInitialized,
                 offersCollateralClaimed_Borrower, escrow, collateralEscrow,
                 ownerOf, perpetual, delivered, feeVars>>

-----------------------------------------------------------------------------
(* claimCollateralAsBorrower: three ways to release collateral, and the    *)
(* shared tail that counts the indexes passed, whatever they were, and     *)
(* burns the borrower's token when the count reaches the number of offers. *)

CountBorrowerClaim(k) ==
  /\ offersCollateralClaimed_Borrower' = offersCollateralClaimed_Borrower + k
  /\ IF ClosesLoan(offersCollateralClaimed_Borrower + k)
       THEN Burn(borrowerID)
       ELSE UNCHANGED ownerOf
  /\ UNCHANGED <<now, paid, debtClaimed, interestToClaim, interestPaid,
                 totalCountPaid, extended, auctionVars, escrow, perpetual,
                 delivered, feeVars>>

(* Mutant: a borrower that comes late is refused.                          *)
Releasable_OnTime(S) == S \subseteq paid \ collateralClaimed /\ NextDeadline >= now
Releasable(S) == S \subseteq paid \ collateralClaimed

ReleaseERC20(S) ==
  /\ ~isCollateralNFT
  /\ Releasable(S)
  /\ collateralClaimed' = collateralClaimed \cup S
  /\ collateralEscrow' = [o \in Offers |->
       IF o \in S THEN collateralEscrow[o] - CollateralShare(o)
                  ELSE collateralEscrow[o]]
  /\ CountBorrowerClaim(Cardinality(S))
  /\ UNCHANGED <<liquidationBalance, nftHolder>>

ReleaseProceeds(S) ==
  /\ isCollateralNFT /\ alreadySold
  /\ Releasable(S)
  /\ collateralClaimed' = collateralClaimed \cup S
  /\ Covers(liquidationBalance, SaleShares(S))
  /\ liquidationBalance' = liquidationBalance - SaleShares(S)
  /\ CountBorrowerClaim(Cardinality(S))
  /\ UNCHANGED <<collateralEscrow, nftHolder>>

ReleaseNFT(k) ==
  /\ isCollateralNFT /\ ~alreadySold
  /\ totalCountPaid = Cardinality(Offers)
  /\ Unpaid = {}
  /\ collateralClaimed = {}
  /\ collateralClaimed' = Offers
  /\ nftHolder = "loan"
  /\ nftHolder' = "borrower"
  /\ CountBorrowerClaim(k)
  /\ UNCHANGED <<collateralEscrow, liquidationBalance>>

claimCollateralAsBorrower(u) ==
  /\ ownerOf[borrowerID] = u
  /\ \/ \E S \in SUBSET Offers : ReleaseERC20(S) \/ ReleaseProceeds(S)
     \/ \E k \in 0..MaxIndexes : ReleaseNFT(k)

-----------------------------------------------------------------------------
(* The borrower trades the initial deadline for the offers' own deadlines  *)
(* and pays the interest of the time used and the missing fee.             *)
(* extendedTime, the interest and the missing fee are computed with        *)
(* checked arithmetic: the call reverts once the time used exceeds the     *)
(* time left to some unpaid offer's deadline.                              *)
Extensible(o) ==
  /\ maxDeadline[o] - (now - startedAt) - now >= 0
  /\ InterestDefined(o)
  /\ misingBorrowFee(o) >= 0

extendLoan(u) ==
  LET toOrder == {o \in Unpaid : GoesToLendOrder(o)} IN
  /\ ownerOf[borrowerID] = u
  /\ NextDeadline > now
  /\ ~extended
  /\ now - startedAt > MinimalDuration
  /\ \A o \in Unpaid : Extensible(o)
  /\ feeCharged' = [o \in Offers |->
       IF o \in Unpaid THEN feeCharged[o] + misingBorrowFee(o) ELSE feeCharged[o]]
  /\ extended' = TRUE
  /\ interestToClaim' = [o \in Offers |->
       IF o \in Unpaid \ toOrder THEN interestToClaim[o] + NetInterest(o)
                                 ELSE interestToClaim[o]]
  /\ interestPaid' = [o \in Offers |->
       IF o \in Unpaid THEN interestPaid[o] + InterestDue(o) ELSE interestPaid[o]]
  /\ escrow' = [o \in Offers |->
       IF o \in Unpaid \ toOrder THEN escrow[o] + NetInterest(o) ELSE escrow[o]]
  /\ delivered' = [o \in Offers |->
       IF o \in toOrder THEN delivered[o] + NetInterest(o) ELSE delivered[o]]
  /\ UNCHANGED <<now, paid, collateralClaimed, debtClaimed, totalCountPaid,
                 auctionVars, offersCollateralClaimed_Borrower,
                 collateralEscrow, liquidationBalance, nftHolder, ownerOf,
                 perpetual, fees>>

-----------------------------------------------------------------------------
(* The environment: block time, the ERC721 market for ownership tokens,    *)
(* and the owners of the lend orders and of the Aggregator.                *)

Tick ==
  /\ now' \in {t \in Times : t > now}
  /\ UNCHANGED <<offerVars, totalCountPaid, extended, auctionVars,
                 offersCollateralClaimed_Borrower, assetVars, ownerOf,
                 perpetual, delivered, feeVars>>

TransferOwnership(t, u) ==
  /\ ownerOf[t] # NoUser
  /\ ownerOf[t] # u
  /\ ownerOf' = [ownerOf EXCEPT ![t] = u]
  /\ UNCHANGED <<now, offerVars, totalCountPaid, extended, auctionVars,
                 offersCollateralClaimed_Borrower, assetVars, perpetual,
                 delivered, feeVars>>

ChangePerpetual(l) ==
  /\ perpetual' = IF l \in perpetual THEN perpetual \ {l} ELSE perpetual \cup {l}
  /\ UNCHANGED <<now, offerVars, totalCountPaid, extended, auctionVars,
                 offersCollateralClaimed_Borrower, assetVars, ownerOf,
                 delivered, feeVars>>

(* setNewFee, setNewMaxFee and setNewMinFee, in any number and order.      *)
SetFees(settings) ==
  /\ settings # fees
  /\ fees' = settings
  /\ UNCHANGED <<now, offerVars, totalCountPaid, extended, auctionVars,
                 offersCollateralClaimed_Borrower, assetVars, ownerOf,
                 perpetual, delivered, feeCharged>>

Next ==
  \/ \E u \in Users, S \in SUBSET Offers : payDebt(u, S)
  \/ \E u \in Users, o \in Offers : claimDebt(u, o)
  \/ \E u \in Users, o \in Offers : claimCollateralAsLender(u, o)
  \/ \E u \in Users, o \in Offers : createAuctionForCollateral(u, o)
  \/ \E amount \in SaleAmounts : handleAuctionSell(amount)
  \/ \E u \in Users : claimCollateralAsBorrower(u)
  \/ \E u \in Users : extendLoan(u)
  \/ Tick
  \/ \E t \in Tokens, u \in Users : TransferOwnership(t, u)
  \/ \E l \in LendOrders : ChangePerpetual(l)
  \/ \E settings \in FeeSettings : SetFees(settings)

Spec == Init /\ [][Next]_vars

(* Blocks keep coming, and each side keeps asking for what it is owed: a   *)
(* lender for the debt or the collateral of its offer, the borrower for    *)
(* the collateral of a paid offer.  Nobody is forced to pay, to extend or  *)
(* to trade.                                                               *)
Fairness ==
  /\ WF_vars(Tick)
  /\ \A o \in Offers : /\ WF_vars(\E u \in Users : claimDebt(u, o))
                       /\ WF_vars(\E u \in Users : claimCollateralAsLender(u, o))
  /\ WF_vars(\E u \in Users : /\ ownerOf[borrowerID] = u
                              /\ ReleaseERC20(paid \ collateralClaimed)
                              /\ paid \ collateralClaimed # {})

LiveSpec == Spec /\ Fairness

-----------------------------------------------------------------------------
(* Properties                                                              *)

TypeOK ==
  /\ now \in Nat
  /\ paid \subseteq Offers
  /\ collateralClaimed \subseteq Offers
  /\ debtClaimed \subseteq paid
  /\ interestToClaim \in [Offers -> Nat]
  /\ interestPaid \in [Offers -> Nat]
  /\ totalCountPaid \in Nat
  /\ extended \in BOOLEAN
  /\ auctionInitialized \in BOOLEAN
  /\ alreadySold \in BOOLEAN
  /\ tokenPerCollateralUsed \in Nat
  /\ offersCollateralClaimed_Borrower \in Nat
  /\ escrow \in [Offers -> Nat]
  /\ collateralEscrow \in [Offers -> Nat]
  /\ liquidationBalance \in Nat
  /\ nftHolder \in {"none", "loan", "auction", "buyer", "lender", "borrower"}
  /\ ownerOf \in [Tokens -> Users \cup {NoUser}]
  /\ perpetual \subseteq LendOrders
  /\ delivered \in [Offers -> Nat]

(* The loan has missed a deadline with an offer still to pay.              *)
Defaulted == Unpaid # {} /\ NextDeadline < now

(* A lender takes collateral of an offer it was not repaid for only while  *)
(* the loan is in default, and the loan never comes out of that default    *)
(* (the deadline read by claimCollateralAsLender, against payDebt and      *)
(* extendLoan, which move it).                                             *)
SeizedOnlyInDefault == collateralClaimed \ paid # {} => Defaulted

(* Default is final: after a missed deadline no call pays an offer, moves  *)
(* the deadline or changes what is owed.                                   *)
DefaultIsFinal == [][Defaulted => Defaulted' /\ paid' = paid]_vars

(* What the lender of o may still claim from the loan with claimDebt.      *)
Claimable(o) ==
  IF o \in debtClaimed THEN 0
  ELSE interestToClaim[o] + (IF o \in paid THEN principleAmount[o] ELSE 0)

(* The principle tokens the loan holds cover all that lenders may claim,   *)
(* whatever the mix of extensions, payments sent on to perpetual lend      *)
(* orders, and claims.                                                     *)
EscrowCoversDebt == \A o \in Offers : escrow[o] >= Claimable(o)

(* The lender's side gets the principal of an offer exactly once if it is  *)
(* repaid and claimed, never if it is seized, and never more on top than   *)
(* the interest the borrower paid.                                         *)
PrincipalDeliveredOnce ==
  \A o \in Offers :
    LET principal == IF o \in debtClaimed THEN principleAmount[o] ELSE 0 IN
    /\ delivered[o] >= principal
    /\ delivered[o] <= principal + interestPaid[o]

(* The collateral of an offer stays in the loan until one side claims it,  *)
(* and leaves it whole and once: the quotient computed by the two claim    *)
(* paths is the one the Aggregator transferred in.                         *)
CollateralAccounted ==
  \A o \in Offers : collateralEscrow[o] =
    IF isCollateralNFT \/ o \in collateralClaimed THEN 0 ELSE collateralUsed[o]

(* A lender's token exists as long as its position is open, whoever trades *)
(* it: it is burned only by the claim of the debt or of the collateral.    *)
PositionHeld ==
  \A o \in Offers :
    ownerOf[o] = NoUser => o \in debtClaimed \/ o \in collateralClaimed \ paid

(* The borrower's token is burned only when every offer is paid and all    *)
(* the collateral is claimed, although the code decides it on a count of   *)
(* the indexes callers passed.                                             *)
BorrowerTokenOutlivesLoan ==
  ownerOf[borrowerID] = NoUser => paid = Offers /\ collateralClaimed = Offers

(* The interest charged so far never exceeds the interest accrued, so      *)
(* calculateInterestToPay's subtraction never reverts and no one pays for  *)
(* the same time twice, with the 10% minimum and the cap at maxDeadline.   *)
InterestWithinAccrual == \A o \in Offers : interestPaid[o] <= Accrued(o)

(* The cached count of paid offers, read by createAuctionForCollateral and *)
(* the NFT claim, agrees with the flags.                                   *)
CountMatches == totalCountPaid = Cardinality(paid)

(* The NFT leaves the loan to the borrower only when everything is paid,   *)
(* and to an auction or a lender only in default.                          *)
NFTGoesToOneSide ==
  /\ nftHolder = "borrower" => paid = Offers
  /\ nftHolder \in {"auction", "buyer", "lender"} => Defaulted

(* After the sale the proceeds cover the share of every offer that neither *)
(* side has claimed yet: rounding never leaves the last claimant short.    *)
ProceedsCoverShares ==
  alreadySold =>
    liquidationBalance >= SaleShares(Offers \ collateralClaimed)

(* Apart from time nothing ever stands between a party and what it is      *)
(* owed, in whatever order all the others acted: its token exists, the     *)
(* guards of its claim hold and the balances cover it.  A lender gets the  *)
(* debt of a paid offer; in default its share of ERC20 collateral or of    *)
(* the proceeds; the borrower that of a paid offer, or the NFT once all    *)
(* offers are paid.                                                        *)
DebtUnhindered(o) ==
  o \in paid \ debtClaimed =>
    /\ ownerOf[o] \in Users
    /\ Covers(escrow[o], interestToClaim[o] + principleAmount[o])

ShareUnhindered(o) ==
  /\ ~isCollateralNFT => Covers(collateralEscrow[o], CollateralShare(o))
  /\ alreadySold => auctionInitialized /\ Covers(liquidationBalance, SaleShare(o))

SeizureUnhindered(o) ==
  o \notin paid \cup collateralClaimed /\ Defaulted =>
    ownerOf[o] \in Users /\ SeizableNow /\ ShareUnhindered(o)

ReturnUnhindered(o) ==
  o \in paid \ collateralClaimed =>
    /\ ownerOf[borrowerID] \in Users
    /\ ShareUnhindered(o)
    /\ isCollateralNFT /\ paid = Offers =>
         /\ nftHolder = "loan" /\ ~alreadySold /\ collateralClaimed = {}
         /\ totalCountPaid = Cardinality(Offers)

ClaimsUnhindered ==
  \A o \in Offers : DebtUnhindered(o) /\ SeizureUnhindered(o) /\ ReturnUnhindered(o)

(* The borrower's fee stays below 1% until the loan is extended and below  *)
(* 1.9% after that, although the match and the extension each read the     *)
(* settings of their time, and the second guesses what the first charged.  *)
FeesBounded ==
  \A o \in Offers : feeCharged[o] <= IF extended THEN 190 ELSE 100

(* Of the reverts of extendLoan that are no `require`, none meets a        *)
(* borrower in the first half of the terms: whatever was set since the     *)
(* match, the fee of the extension is not below the fee then recomputed    *)
(* for the match, and the interest is not below the one paid.              *)
ExtensionUnhindered ==
  ~extended =>
    \A o \in Unpaid :
      2 * (now - startedAt) <= maxDeadline[o] - startedAt => Extensible(o)

(* The loan implements the promise made to its parties.                    *)
Promise == INSTANCE LoanPromise WITH
  defaulted <- Defaulted,
  repaid <- paid,
  debtTaken <- debtClaimed,
  seized <- collateralClaimed \ paid,
  released <- collateralClaimed \cap paid

ImplementsPromise == Promise!PromiseSpec

(* Every lender of an ERC20 loan ends up with the debt or the collateral.  *)
LenderSettled ==
  \A o \in Offers : <>(o \in debtClaimed \/ o \in collateralClaimed \ paid)

(* A borrower that paid an offer gets that part of the collateral back.    *)
CollateralReturned ==
  \A o \in Offers : o \in paid ~> o \in collateralClaimed

-----------------------------------------------------------------------------
(* The inductive invariant of the proofs                                   *)

(* Time has not gone back before the loan.                                 *)
Started == now >= startedAt

(* Before the debt of o is claimed, what the lender's side has received    *)
(* and what it may still claim as interest come out of the interest paid.  *)
DeliveredFromInterest ==
  \A o \in Offers : o \notin debtClaimed =>
    delivered[o] + interestToClaim[o] <= interestPaid[o]

(* The borrower's counter counts the paid offers whose collateral it has   *)
(* claimed, except after the claim of an unsold NFT, whose array of        *)
(* indexes has any length.                                                 *)
ClaimCountMatches ==
  \/ offersCollateralClaimed_Borrower = Cardinality(collateralClaimed \cap paid)
  \/ paid = Offers /\ collateralClaimed = Offers

(* All the safety properties of one loan, with what makes them inductive.  *)
IInv ==
  /\ TypeOK
  /\ Started
  /\ EscrowCoversDebt
  /\ CollateralAccounted
  /\ SeizedOnlyInDefault
  /\ PrincipalDeliveredOnce
  /\ DeliveredFromInterest
  /\ InterestWithinAccrual
  /\ CountMatches
  /\ PositionHeld
  /\ ClaimCountMatches
  /\ BorrowerTokenOutlivesLoan

(* An NFT is sold once, by the auction; then it stays with the buyer, and  *)
(* the price of a unit of collateral stays what the sale made it.          *)
SaleInv ==
  /\ nftHolder \in {"auction", "buyer"} => auctionInitialized
  /\ alreadySold => nftHolder = "buyer"
  /\ ProceedsCoverShares

(* The borrower claims collateral of an NFT loan after the sale, or all of *)
(* it at once with the NFT.                                                *)
ReturnInv ==
  /\ nftHolder = "borrower" => collateralClaimed = Offers
  /\ isCollateralNFT /\ collateralClaimed \cap paid # {} =>
       alreadySold \/ collateralClaimed = Offers

(* The settings and the fees, of which the rest of the loan is independent. *)
FeeInv ==
  /\ fees \in FeeSettings
  /\ feeCharged \in [Offers -> Nat]
  /\ FeesBounded

-----------------------------------------------------------------------------
(* What the comments of the source say of the program                      *)

(* infoOfOffers.interestToClaim, "available interest to claim": what the   *)
(* loan holds for an offer can be claimed.                                 *)
NothingStranded == \A o \in Offers : escrow[o] <= Claimable(o)

(* "Function to claim the collateral as lender, only in case of default":  *)
(* a lender that gives its position up for collateral receives some.       *)
SeizureDelivers ==
  [][collateralClaimed' \ paid # collateralClaimed \ paid =>
       \/ collateralEscrow' # collateralEscrow
       \/ liquidationBalance' # liquidationBalance
       \/ nftHolder' # nftHolder]_vars

(* extendLoan's comment: "calculate difference from fee paid for the       *)
(* initialDuration vs the extra fee they should pay because of the extras  *)
(* days of extending the loan".  In all, the borrower is charged no more   *)
(* than the fee of the whole term.                                         *)
ExtraDaysOnly ==
  [][~extended /\ extended' =>
       \A o \in Unpaid :
         feeCharged'[o] <= Clamped(FeeFor(maxDeadline[o] - startedAt),
                                   feeCharged[o], fees.maxFEE)]_vars
=============================================================================
