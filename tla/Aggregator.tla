----------------------------- MODULE Aggregator -----------------------------
(***************************************************************************)
(* The Aggregator (DebitaV3Aggregator.sol): matchOffersV3, which takes     *)
(* principle tokens out of lend orders and collateral out of one borrow    *)
(* order for a new loan, its prices and its settings.                      *)
(*                                                                         *)
(* Of the orders, the module keeps the terms and the amounts that a match  *)
(* reads and writes; their flags, indexes, cooldowns and updates are the   *)
(* subject of LendOffers and BorrowOffers.  Of the loans, it keeps what    *)
(* they are initialised with, the assumption of DebitaLoan.  Deadlines     *)
(* count from the start of the loan.  A call m of matchOffersV3 is a       *)
(* record [borrow, principles, picks]; a pick is an entry of its arrays,   *)
(* [order, amount, percent, slot], where slot is the position of the       *)
(* order's principle in principles.                                        *)
(***************************************************************************)
EXTENDS LoanTerms, Sequences, SequencesExt

CONSTANTS
  LendOrders, BorrowOrders, Principles,
  Assets,        \* what collaterals are worth: tokens, or underlying a receipt
  LendTerms,     \* terms and funds a lend order may be created with
  BorrowTerms,   \* the same of a borrow order
  Unit,          \* 10 ** decimals of each token
  Shift,         \* 10 ** 8
  Day,           \* 86400 seconds
  OfferLimit,    \* 30, of DebitaV3Loan.initialize
  \* bounds
  Prices,        \* the price functions that occur
  Amounts, Percents, Slates, MaxPicks,   \* what callers ask for
  Rates,         \* values the owner gives the fees
  MaxLoans,
  MaxChanges     \* changes of settings and prices

Limits == [oracle : BOOLEAN, value : Nat]

ASSUME AggregatorAssumption ==
  /\ IsFiniteSet(LendOrders) /\ IsFiniteSet(BorrowOrders) /\ IsFiniteSet(Principles)
  /\ Prices \subseteq [Principles \cup Assets -> Nat]
  /\ Unit \in [Principles \cup Assets -> Nat \ {0}]
  /\ Shift \in Nat \ {0} /\ Day \in Nat \ {0} /\ OfferLimit \in Nat
  /\ Amounts \subseteq Nat /\ Percents \subseteq Nat /\ Rates \subseteq Nat
  /\ Slates \subseteq Seq(Principles)
  /\ MaxPicks \in Nat /\ MaxLoans \in Nat /\ MaxChanges \in Nat
  /\ \A t \in LendTerms :
       /\ t.principle \in Principles
       /\ \A c \in DOMAIN t.maxRatio : t.maxRatio[c] \in Limits
       /\ {t.apr, t.minDuration, t.maxDuration, t.funds} \subseteq Nat
       /\ t.lonelyLender \in BOOLEAN
  /\ \A t \in BorrowTerms :
       /\ t.asset \in Assets
       /\ \A p \in DOMAIN t.ratio : p \in Principles /\ t.ratio[p] \in Limits
       /\ {t.maxApr, t.duration, t.start} \subseteq Nat
       /\ t.isNFT \in BOOLEAN /\ t.oracle \in BOOLEAN

VARIABLES
  lendTerms, borrowTerms,  \* terms of each order
  available,               \* principle tokens left in each lend order
  offered,                 \* collateral left in each borrow order
  price,                   \* what the oracles answer
  feePerDay, maxFEE, minFEE, feeCONNECTOR,
  isPaused,
  isCollateralAValidReceipt,  \* the whitelisted receipt contracts
  oracleEnabled,
  held,                    \* principle tokens the Aggregator keeps
  loans,                   \* the loans by loanID, as initialised
  minted,                  \* ownership tokens minted so far
  \* history
  toProtocol, toConnectors, toBorrowers,   \* principle tokens paid out
  refunded,                \* collateral sent back to each borrower
  changes                  \* changes of settings and prices so far

orderVars == <<available, offered, refunded>>
feeVars == <<feePerDay, maxFEE, minFEE, feeCONNECTOR>>
switchVars == <<isPaused, isCollateralAValidReceipt, oracleEnabled>>
payVars == <<held, toProtocol, toConnectors, toBorrowers>>
matchVars == <<lendTerms, borrowTerms, orderVars, price, feeVars, switchVars,
               payVars, loans, minted, changes>>

Receipts == {t.collateral : t \in {s \in BorrowTerms : s.isNFT}}

MatchInit ==
  /\ lendTerms \in [LendOrders -> LendTerms]
  /\ borrowTerms \in [BorrowOrders -> BorrowTerms]
  /\ available = [l \in LendOrders |-> lendTerms[l].funds]
  /\ offered = [b \in BorrowOrders |->
                  IF borrowTerms[b].isNFT THEN 1 ELSE borrowTerms[b].start]
  /\ price \in Prices
  /\ feePerDay = 4 /\ maxFEE = 80 /\ minFEE = 20 /\ feeCONNECTOR = 1500
  /\ isPaused = FALSE
  /\ isCollateralAValidReceipt = {}
  /\ oracleEnabled = FALSE
  /\ loans = <<>> /\ minted = 0
  /\ held = [p \in Principles |-> 0] /\ toProtocol = held
  /\ toConnectors = held /\ toBorrowers = held
  /\ refunded = [b \in BorrowOrders |-> 0]
  /\ changes = 0

-----------------------------------------------------------------------------
(* Prices and ratios                                                       *)

(* The code of getPriceFrom and of the division by the principle's price.  *)
Quotable(limit, p) == limit.oracle => oracleEnabled /\ price[p] > 0

(* Tokens of p per token of the collateral, at a loan-to-value of ltv.     *)
RatioFromPrice(ltv, asset, p) ==
  LET fullRatio == (price[asset] * Shift) \div price[p]
  IN  (((fullRatio * ltv) \div 10000) * Unit[p]) \div Shift

RatioOf(limit, asset, p) ==
  IF limit.oracle THEN RatioFromPrice(limit.value, asset, p) ELSE limit.value

(* The most a lend order gives against the collateral of b.                *)
MaxRatio(b, l) ==
  LET t == lendTerms[l]
  IN  RatioOf(t.maxRatio[borrowTerms[b].collateral], borrowTerms[b].asset, t.principle)

OfferRatio(b, k) == (MaxRatio(b, k.order) * k.percent) \div 10000

(* userUsedCollateral                                                      *)
UsedCollateral(b, k) ==
  (k.amount * Unit[borrowTerms[b].asset]) \div OfferRatio(b, k)

-----------------------------------------------------------------------------
(* The lenders' side of a match                                            *)

(* Mutant: the longest duration a lender accepts is not compared.          *)
DurationFits_MinOnly(b, l) == borrowTerms[b].duration >= lendTerms[l].minDuration

DurationFits(b, l) ==
  /\ borrowTerms[b].duration >= lendTerms[l].minDuration
  /\ borrowTerms[b].duration <= lendTerms[l].maxDuration

(* Mutant: any positive percentage of the ratio is accepted.               *)
PercentValid_Positive(percent) == percent > 0

PercentValid(percent) == percent <= 10000 /\ percent > 0

LenderAgrees(m, k) ==
  LET t == lendTerms[k.order]
      c == borrowTerms[m.borrow].collateral
  IN  /\ t.lonelyLender => Len(m.picks) = 1
      /\ PercentValid(k.percent)
      /\ c \in DOMAIN t.maxRatio
      /\ t.principle = m.principles[k.slot]
      /\ DurationFits(m.borrow, k.order)
      /\ Quotable(t.maxRatio[c], t.principle)
      /\ OfferRatio(m.borrow, k) > 0
      /\ k.amount > 0

(* What the picks of the set S take from lend order l.                     *)
TakenFrom(m, l) ==
  SumFunctionOnSet([i \in DOMAIN m.picks |-> m.picks[i].amount],
                   {i \in DOMAIN m.picks : m.picks[i].order = l})

(* Mutant: each order overwrites the average of those before.              *)
Weighted_Overwritten(average, weight, x, w) == x

(* The average with one more value, both quotients truncated.              *)
Weighted(average, weight, x, w) ==
  (x * w) \div (weight + w) + (average * weight) \div (weight + w)

(* One round of the loop over the lend orders.                             *)
AddPick(b, acc, k) ==
  LET i == k.slot
      used == UsedCollateral(b, k)
  IN  [ratio |-> [acc.ratio EXCEPT ![i] =
                    Weighted(@, acc.collateral[i], OfferRatio(b, k), used)],
       apr |-> [acc.apr EXCEPT ![i] =
                  Weighted(@, acc.amount[i], lendTerms[k.order].apr, k.amount)],
       collateral |-> [acc.collateral EXCEPT ![i] = @ + used],
       amount |-> [acc.amount EXCEPT ![i] = @ + k.amount]]

(* weightedAverageRatio, weightedAverageAPR, amountCollateralPerPrinciple  *)
(* and amountPerPrinciple after each round, and at the end of the loop.    *)
Rounds(m) ==
  LET zero == [i \in DOMAIN m.principles |-> 0]
      after[n \in 0 .. Len(m.picks)] ==
        IF n = 0 THEN [ratio |-> zero, apr |-> zero, collateral |-> zero, amount |-> zero]
        ELSE AddPick(m.borrow, after[n - 1], m.picks[n])
  IN  after

Totals(m) == Rounds(m)[Len(m.picks)]

(* The average of the ratios has something to divide by: the first order   *)
(* of each principle uses some collateral.                                 *)
Weighable(m) ==
  \A i \in DOMAIN m.picks : \E j \in 1 .. i :
    m.picks[j].slot = m.picks[i].slot /\ UsedCollateral(m.borrow, m.picks[j]) > 0

-----------------------------------------------------------------------------
(* The borrower's side                                                     *)

(* Within the margin of 2%.                                                *)
Within(x, target) ==
  x >= (target * 9800) \div 10000 /\ x <= (target * 10200) \div 10000

BorrowerRatio(b, p) == RatioOf(borrowTerms[b].ratio[p], borrowTerms[b].asset, p)

(* The principles are accepted and their ratios can be computed.           *)
BorrowerQuotes(m) ==
  LET t == borrowTerms[m.borrow]
  IN  /\ t.isNFT => t.collateral \in isCollateralAValidReceipt
      /\ t.oracle => oracleEnabled
      /\ \A i \in DOMAIN m.principles :
           LET p == m.principles[i]
           IN  /\ p \in DOMAIN t.ratio
               /\ t.ratio[p].oracle => t.oracle /\ price[t.asset] > 0
               /\ Quotable(t.ratio[p], p)

BorrowerAgrees(m, totals) ==
  \A i \in DOMAIN m.principles :
    /\ Within(totals.ratio[i], BorrowerRatio(m.borrow, m.principles[i]))
    /\ totals.apr[i] <= borrowTerms[m.borrow].maxApr

(* Mutant: the fee grows with the duration without limit.                  *)
Percentage_Unlimited(b) == (borrowTerms[b].duration * feePerDay) \div Day

Percentage(b) ==
  Max({minFEE, Min({maxFEE, (borrowTerms[b].duration * feePerDay) \div Day})})

(* The sum of f over the slots of principle p.                             *)
PerPrinciple(m, f, p) ==
  SumFunctionOnSet(f, {i \in DOMAIN m.principles : m.principles[i] = p})

(* The fee of each principle is shared by the protocol and the caller; the *)
(* borrower gets the rest.                                                 *)
PayOut(m, amount) ==
  LET fee == [i \in DOMAIN amount |-> (amount[i] * Percentage(m.borrow)) \div 10000]
      reward == [i \in DOMAIN amount |-> (fee[i] * feeCONNECTOR) \div 10000]
      Protocol(p) == PerPrinciple(m, fee, p) - PerPrinciple(m, reward, p)
      Borrower(p) == PerPrinciple(m, amount, p) - PerPrinciple(m, fee, p)
      Lent(p) == SumFunctionOnSet([l \in LendOrders |-> TakenFrom(m, l)],
                                  {l \in LendOrders : lendTerms[l].principle = p})
  IN  /\ toProtocol' = [p \in Principles |-> toProtocol[p] + Protocol(p)]
      /\ toConnectors' = [p \in Principles |->
                            toConnectors[p] + PerPrinciple(m, reward, p)]
      /\ toBorrowers' = [p \in Principles |-> toBorrowers[p] + Borrower(p)]
      /\ held' = [p \in Principles |-> held[p] + Lent(p) - Protocol(p)
                                         - PerPrinciple(m, reward, p) - Borrower(p)]

(* DBOImplementation.acceptBorrowOffer, for taken of its collateral.       *)
TakeCollateral(b, taken) ==
  LET rest == offered[b] - taken
      start == borrowTerms[b].start
  IN  /\ taken > 0 /\ rest >= 0 /\ start > 0
      /\ IF (rest * 10000) \div start <= 10
           THEN /\ offered' = [offered EXCEPT ![b] = 0]
                /\ refunded' = [refunded EXCEPT ![b] = @ + rest]
           ELSE /\ offered' = [offered EXCEPT ![b] = rest]
                /\ UNCHANGED refunded

(* What the deployed loan is initialised with; used is amountOfCollateral. *)
NewLoan(m, used) ==
  LET b == m.borrow
  IN  [borrow |-> b,
       initialDuration |-> borrowTerms[b].duration,
       collateralAmount |-> IF borrowTerms[b].isNFT THEN 1 ELSE used,
       valuableCollateralUsed |-> used,
       principles |-> m.principles,
       borrowerID |-> minted + Len(m.picks) + 1,
       offers |-> [i \in DOMAIN m.picks |->
         LET k == m.picks[i]
         IN  [lendOffer |-> k.order, principleAmount |-> k.amount,
              slot |-> k.slot, lenderID |-> minted + i,
              apr |-> lendTerms[k.order].apr,
              ratio |-> OfferRatio(b, k),
              collateralUsed |-> UsedCollateral(b, k),
              maxDeadline |-> lendTerms[k.order].maxDuration]]]

matchOffersV3(m) ==
  /\ Len(loans) < MaxLoans
  /\ ~isPaused
  /\ BorrowerQuotes(m)
  /\ \A i \in DOMAIN m.picks : LenderAgrees(m, m.picks[i])
  /\ \A l \in LendOrders : TakenFrom(m, l) <= available[l]
  /\ Weighable(m)
  /\ Len(m.picks) < OfferLimit
  /\ LET t == borrowTerms[m.borrow]
         totals == Totals(m)
         used == SumFunctionOnSet(totals.collateral, DOMAIN m.principles)
     IN  /\ BorrowerAgrees(m, totals)
         /\ t.isNFT => Within(used, t.start)
         /\ TakeCollateral(m.borrow, IF t.isNFT THEN 1 ELSE used)
         /\ PayOut(m, totals.amount)
         /\ loans' = Append(loans, NewLoan(m, used))
  /\ available' = [l \in LendOrders |-> available[l] - TakenFrom(m, l)]
  /\ minted' = minted + Len(m.picks) + 1
  /\ UNCHANGED <<lendTerms, borrowTerms, price, feeVars, switchVars, changes>>

-----------------------------------------------------------------------------
(* The owner's settings, and the prices                                    *)

Change == changes < MaxChanges /\ changes' = changes + 1

setNewFee(f) ==
  /\ f \in 1 .. 10
  /\ feePerDay' = f
  /\ UNCHANGED <<maxFEE, minFEE, feeCONNECTOR>>

setNewMaxFee(f) ==
  /\ f \in 50 .. 100
  /\ maxFEE' = f
  /\ UNCHANGED <<feePerDay, minFEE, feeCONNECTOR>>

setNewMinFee(f) ==
  /\ f \in 10 .. 50
  /\ minFEE' = f
  /\ UNCHANGED <<feePerDay, maxFEE, feeCONNECTOR>>

setNewFeeConnector(f) ==
  /\ f \in 500 .. 2000
  /\ feeCONNECTOR' = f
  /\ UNCHANGED <<feePerDay, maxFEE, minFEE>>

ChangeFee ==
  /\ Change
  /\ \E f \in Rates : \/ setNewFee(f) \/ setNewMaxFee(f)
                      \/ setNewMinFee(f) \/ setNewFeeConnector(f)
  /\ UNCHANGED <<lendTerms, borrowTerms, orderVars, price, switchVars, payVars,
                 loans, minted>>

setValidNFTCollateral(c, status) ==
  /\ isCollateralAValidReceipt' = IF status
       THEN isCollateralAValidReceipt \cup {c} ELSE isCollateralAValidReceipt \ {c}
  /\ UNCHANGED oracleEnabled

setOracleEnabled(status) ==
  oracleEnabled' = status /\ UNCHANGED isCollateralAValidReceipt

Switch ==
  /\ Change
  /\ \E status \in BOOLEAN : \/ \E c \in Receipts : setValidNFTCollateral(c, status)
                             \/ setOracleEnabled(status)
  /\ UNCHANGED <<lendTerms, borrowTerms, orderVars, price, feeVars, isPaused,
                 payVars, loans, minted>>

statusCreateNewOffers(status) ==
  /\ isPaused' = status
  /\ UNCHANGED <<lendTerms, borrowTerms, orderVars, price, feeVars,
                 isCollateralAValidReceipt, oracleEnabled, payVars, loans,
                 minted, changes>>

MovePrices ==
  /\ Change
  /\ price' \in Prices \ {price}
  /\ UNCHANGED <<lendTerms, borrowTerms, orderVars, feeVars, switchVars, payVars,
                 loans, minted>>

Picks(slate) == [order : LendOrders, amount : Amounts, percent : Percents,
                 slot : DOMAIN slate]

MatchNext ==
  \/ \E b \in BorrowOrders, slate \in Slates, n \in 0 .. MaxPicks :
       \E picks \in [1 .. n -> Picks(slate)] :
         matchOffersV3([borrow |-> b, principles |-> slate, picks |-> picks])
  \/ ChangeFee
  \/ Switch
  \/ \E status \in BOOLEAN : statusCreateNewOffers(status)
  \/ MovePrices

MatchSpec == MatchInit /\ [][MatchNext]_matchVars

-----------------------------------------------------------------------------
(* Properties                                                              *)

(* The offers of slot i of a loan, and what each offer of the loan counts. *)
OffersAt(loan, i) == {j \in DOMAIN loan.offers : loan.offers[j].slot = i}

CollateralOf(loan) == [j \in DOMAIN loan.offers |-> loan.offers[j].collateralUsed]

PrincipalOf(loan) == [j \in DOMAIN loan.offers |-> loan.offers[j].principleAmount]

RatioByCollateral(loan) ==
  [j \in DOMAIN loan.offers |-> loan.offers[j].ratio * loan.offers[j].collateralUsed]

AprByPrincipal(loan) ==
  [j \in DOMAIN loan.offers |-> loan.offers[j].apr * loan.offers[j].principleAmount]

(* The terms of a loan, deployed at the given time.                        *)
Deployed(loan, start) ==
  LET offers == loan.offers
  IN  [offers |-> DOMAIN offers, startedAt |-> start,
       initialDuration |-> loan.initialDuration, lendOrders |-> LendOrders,
       lendOffer |-> [j \in DOMAIN offers |-> offers[j].lendOffer],
       principleAmount |-> PrincipalOf(loan),
       apr |-> [j \in DOMAIN offers |-> offers[j].apr],
       ratio |-> [j \in DOMAIN offers |-> offers[j].ratio],
       collateralUsed |-> CollateralOf(loan),
       maxDeadline |-> [j \in DOMAIN offers |-> start + offers[j].maxDeadline],
       precision |-> Unit[borrowTerms[loan.borrow].asset],
       valuableCollateralUsed |-> loan.valuableCollateralUsed]

(* Every loan that matchOffersV3 initialises is one that DebitaLoan is     *)
(* about (LoanAssumption there): it has offers, no offer is due before the *)
(* loan, each offer's collateral is the quotient that the claims compute   *)
(* again, the collateral is their sum; besides, a lonely lender is alone,  *)
(* and no two positions share an ownership token.  (A match may also take  *)
(* nothing at all against a receipt of a single unit, as 98% of one unit   *)
(* are truncated to none; nobody has lent to that loan.)                   *)
LoanWellFormed(loan) ==
  /\ \/ MatchedTerms(Deployed(loan, 0))
     \/ /\ loan.offers = <<>> /\ loan.valuableCollateralUsed = 0
        /\ borrowTerms[loan.borrow].isNFT /\ borrowTerms[loan.borrow].start = 1
  /\ \A i \in DOMAIN loan.offers :
       /\ lendTerms[loan.offers[i].lendOffer].lonelyLender => Len(loan.offers) = 1
       /\ loan.offers[i].lenderID < loan.borrowerID
       /\ \A j \in DOMAIN loan.offers :
            i < j => loan.offers[i].lenderID < loan.offers[j].lenderID

LoansWellFormed ==
  /\ \A i \in DOMAIN loans : LoanWellFormed(loans[i])
  /\ minted = SumFunctionOnSet([i \in DOMAIN loans |-> Len(loans[i].offers) + 1],
                               DOMAIN loans)
  /\ \A i, j \in DOMAIN loans : i < j =>
       \A o \in Range(loans[j].offers) : o.lenderID > loans[i].borrowerID

(* The truncated running averages do not cheat the borrower: the exact     *)
(* averages over the offers of a principle keep the borrower's ratio and   *)
(* APR, up to 2 for each offer after the first.                            *)
SlotKept(loan, i) ==
  LET offers == OffersAt(loan, i)
      slack == IF offers = {} THEN 0 ELSE 2 * (Cardinality(offers) - 1)
      target == BorrowerRatio(loan.borrow, loan.principles[i])
      collateral == SumFunctionOnSet(CollateralOf(loan), offers)
      principal == SumFunctionOnSet(PrincipalOf(loan), offers)
      weightedRatio == SumFunctionOnSet(RatioByCollateral(loan), offers)
      weightedApr == SumFunctionOnSet(AprByPrincipal(loan), offers)
  IN  /\ weightedRatio >= ((target * 9800) \div 10000) * collateral
      /\ weightedRatio <= ((target * 10200) \div 10000 + slack) * collateral
      /\ weightedApr <= (borrowTerms[loan.borrow].maxApr + slack) * principal

BorrowerKept(loan) == \A i \in DOMAIN loan.principles : SlotKept(loan, i)

BorrowerLimits ==
  [][loans' # loans => BorrowerKept(Last(loans'))]_matchVars

(* No lender gives more principal than its ratio, or its loan-to-value at  *)
(* the oracles' prices, allows for the collateral of its offer and one     *)
(* unit more, after all the truncations.                                   *)
OfferKept(b, o) ==
  LET limit == lendTerms[o.lendOffer].maxRatio[b.collateral]
      p == lendTerms[o.lendOffer].principle
      lent == o.principleAmount * Unit[b.asset]
  IN  IF limit.oracle
        THEN lent * price[p] * 10000 <
               limit.value * price[b.asset] * Unit[p] * (o.collateralUsed + 1)
        ELSE lent < limit.value * (o.collateralUsed + 1)

LenderKept(loan) ==
  \A o \in Range(loan.offers) : OfferKept(borrowTerms[loan.borrow], o)

LenderLimits == [][loans' # loans => LenderKept(Last(loans'))]_matchVars

(* Whatever the fees were set to between matches, the Aggregator keeps no  *)
(* principle, what left the lend orders reached the borrowers, the         *)
(* protocol and the callers, who got at most 1% and a fifth of that; and   *)
(* the collateral of the loans is what left the borrow orders.             *)
PrincipleConserved(p) ==
  LET lent == SumFunctionOnSet([l \in LendOrders |-> lendTerms[l].funds - available[l]],
                               {l \in LendOrders : lendTerms[l].principle = p})
  IN  /\ held[p] = 0
      /\ lent = toBorrowers[p] + toProtocol[p] + toConnectors[p]
      /\ (toProtocol[p] + toConnectors[p]) * 100 <= lent
      /\ toConnectors[p] * 4 <= toProtocol[p]

CollateralConserved(b) ==
  offered[b] + refunded[b] +
    SumFunctionOnSet([i \in DOMAIN loans |-> loans[i].collateralAmount],
                     {i \in DOMAIN loans : loans[i].borrow = b})
    = IF borrowTerms[b].isNFT THEN 1 ELSE borrowTerms[b].start

MatchConserves ==
  /\ \A p \in Principles : PrincipleConserved(p)
  /\ \A b \in BorrowOrders : CollateralConserved(b)

-----------------------------------------------------------------------------
(* The inductive invariant of the proofs: types, the ranges of the fees,   *)
(* and no ownership token beyond those minted.                             *)
OfferRecords ==
  [lendOffer : LendOrders, principleAmount : Nat, slot : Nat, lenderID : Nat,
   apr : Nat, ratio : Nat, collateralUsed : Nat, maxDeadline : Nat]

LoanRecords ==
  [borrow : BorrowOrders, initialDuration : Nat, collateralAmount : Nat,
   valuableCollateralUsed : Nat, principles : Seq(Principles), borrowerID : Nat,
   offers : Seq(OfferRecords)]

MatchTyped ==
  /\ lendTerms \in [LendOrders -> LendTerms]
  /\ borrowTerms \in [BorrowOrders -> BorrowTerms]
  /\ price \in Prices
  /\ available \in [LendOrders -> Nat]
  /\ offered \in [BorrowOrders -> Nat] /\ refunded \in [BorrowOrders -> Nat]
  /\ feePerDay \in Nat /\ maxFEE \in 50 .. 100
  /\ minFEE \in 10 .. 50 /\ feeCONNECTOR \in 500 .. 2000
  /\ held \in [Principles -> Nat] /\ toProtocol \in [Principles -> Nat]
  /\ toConnectors \in [Principles -> Nat] /\ toBorrowers \in [Principles -> Nat]
  /\ loans \in Seq(LoanRecords) /\ minted \in Nat

MatchInv ==
  /\ MatchTyped
  /\ \A i \in DOMAIN loans : loans[i].borrowerID <= minted
  /\ LoansWellFormed
  /\ MatchConserves
=============================================================================
