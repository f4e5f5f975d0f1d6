# Debita V3: specifications and proofs

This directory holds TLA+ modules for the contracts under `src/contracts`, TLC
configurations that check them on small instances, and proofs that TLAPS checks
for every instance. Every definition is translated from the Solidity source;
`PROJECT.json` maps each one to its lines.

## The system

Debita matches lend orders with a borrow order. A match takes principle tokens
out of up to 29 lend orders and collateral out of one borrow order, and creates a
loan that holds the collateral until each part of the debt is paid or in default.

| Component | State | Operations | Talks to |
|---|---|---|---|
| **Loan** (`DebitaV3Loan.sol`) | per accepted offer: paid, debt claimed, collateral claimed, interest paid and to claim; loan: extended, counters, auction data; the collateral and the payments | `payDebt`, `claimDebt`, `claimCollateralAsLender`, `claimCollateralAsBorrower`, `createAuctionForCollateral`, `handleAuctionSell`, `extendLoan` | ownership tokens, lend orders (`perpetual`, `addFunds`), auction factory and auction |
| **Ownership tokens** (`DebitaLoanOwnerships.sol`) | owner of the ERC721 token of each lender and borrower | mint (Aggregator), burn (loan), transfer | loan, Aggregator |
| **Lend orders** (`DebitaLendOffer-Implementation.sol`, `DebitaLendOfferFactory.sol`) | terms, `availableAmount`, `isActive`, `perpetual`, `lastUpdate`; the factory's index | create, accept, cancel, add funds, change perpetual, update | Aggregator, loan, factory |
| **Borrow orders** (`DebitaBorrowOffer-*.sol`) | terms, collateral, `availableAmount`, `isActive`, `lastUpdate`; index | create, accept, cancel, update | Aggregator, factory |
| **Buy orders** (`buyOrders/`) | tokens offered, ratio, captured amount, receipts; index, fee | create, sell a receipt, delete, change fee | factory, receipts |
| **Dutch auctions** (`auctions/`) | start, floor, tick, duration, `isActive`; index; floor percentage and fees | create, buy, cancel, edit floor, settings | loan (`handleAuctionSell`), receivers of the NFT (callback) |
| **Aggregator** (`DebitaV3Aggregator.sol`) | loans, fees, switches, oracles | `matchOffersV3`, settings | all of the above |
| **Incentives** (`DebitaIncentives.sol`) | bribes and amounts lent and borrowed per epoch of 14 days; claims; whitelists; lists of bribes | `updateFunds`, `incentivizePair`, `claimIncentives`, `whitelListCollateral`, `deprecatePrinciple` | Aggregator |
| **Receipts** (`Non-Fungible-Receipts/`) | veNFT or tokens behind each receipt; vaults with their managers, the list of each manager | `deposit`, `withdraw`, `changeManager`, transfers (restricted for taxed tokens) | borrow orders, loan, auctions, buy orders |
| **Oracles** (`oracles/`) | prices, roles, pause switches; two slots of a cumulative price per pair | `getThePrice`, `getResult`, set, pause, reactivate | Aggregator; liquidity pool, Pyth, Chainlink |

Every transaction is atomic, so one external function is one action, with the
calls it makes. The exceptions are the calls that hand control to somebody else in
the middle: `safeTransferFrom` of an auctioned NFT calls the receiver before the
auction leaves its factory's index, and the receiver may use the factory and other
auctions. There the action is cut in two (see AuctionHouse).

### What is hard here

* Borrower, lenders, traders of the tokens, owners of lend orders and the clock
  move independently; four functions of a loan read a deadline that two of them
  move, each with its own comparison.
* Money of one offer reaches its lender by three ways (sent on to a perpetual lend
  order, interest claim, debt claim) chosen at different times from state that
  others change.
* Cached counts and an index made of two mappings and a counter must agree with
  flags kept elsewhere, after any order of creations, cancellations and
  retirements, some of which the code does not guard.
* Integer divisions truncate, and the quotients are multiplied again, subtracted
  and compared.
* A receipt, the vault behind it, its manager and the list of that manager are kept
  by three contracts and changed by two people; all bribes are one balance that
  claims of one epoch and bribes for another use at the same time; the two slots of a
  price are renewed by whoever asks.

The list of hazards, each at its line, is in `PROJECT.json`.

## Modules

| Module | Models |
|---|---|
| `LoanPromise` | what a loan promises: an offer is repaid or, after a default, seized, never both; each repaid offer releases its debt and its collateral once; default is final |
| `DebitaLoan` | one loan with its ownership tokens and the flags of its lend orders |
| `LoanTerms` | the terms of a loan that a match establishes and the loan relies on, one operator for both |
| `OrderIndex` | operators for the index of active orders, with the two versions of the deletion |
| `ActiveOrders` | what an index promises: listed at creation, delisted once, after the end |
| `LendOffers`, `BorrowOffers`, `BuyOrders`, `AuctionHouse` | each kind of order with its factory |
| `Aggregator` | `matchOffersV3`: prices, ratios, running averages, limits, fees and the loan it initialises; the owner's settings |
| `DebitaIncentives` | epochs, bribes, reported loans, claims, whitelists and the lists of bribes |
| `Receipts` | veNFT receipts with their vaults, managers and lists; tax token receipts |
| `MixOracle` | one pair of the Mix oracle with its TarotPriceOracle and pool |
| `MC*` | instances for TLC |
| `ProofLemmas` | lemmas about division, minima, finite sets and sums over them, and about the index operators |
| `DebitaLoanProofs`, `BorrowOffersProofs`, `AuctionHouseProofs`, `DebitaIncentivesProofs`, `ReceiptsProofs` | theorems about the modules they are named after |
| `LendingProofs` | theorems about `LendOffers` and `Aggregator` |
| `PeripheryProofs` | theorems about `BuyOrders` and `MixOracle` |

Variables keep the names of the Solidity fields. A boolean field of many objects is the
set of those for which it holds (`paid`, `isActive`, `perpetual`). A mapping is a
function. Balances are variables of their own, so that a transfer that the code gets
wrong shows; variables marked as history (`delivered`, `feeCharged`, `cancels`,
`accepted`, `received`, ...) exist for the properties only and no guard reads them,
except the bound `MaxDelistings` of LendOffers. The specification of a module is `Spec`;
that of `Aggregator` is `MatchSpec` and that of `MixOracle` is `OracleSpec`, because
each is extended together with another component by the module of its proofs.

**DebitaLoan.** `Collaterals` says which kinds of collateral the initial states have,
tokens or an NFT; `nftHolder` is "none" for tokens. The other constants are what
`initialize` stores and never changes; `LoanAssumption` says what `matchOffersV3`
guarantees of them, with `MatchedTerms` of LoanTerms (each offer's deadline is at least
the loan's, the collateral of an offer is the quotient that the claims compute again,
and these add up). Each function is one action; `claimDebt` is its two branches, a claim
of collateral its branches for tokens, auction proceeds and the NFT. A call that would
revert is a guard: the subtraction of the interest already paid (`InterestDefined`), the
unused `extendedTime` of `extendLoan` that must not underflow, the balance behind a
transfer (`Covers`). The principle and collateral tokens of all offers are one balance
in the contract; the model keeps them per offer, which is stricter. The proceeds of an
auction are one balance, as in the contract. `TransferOwnership` and `ChangePerpetual`
are what other people do meanwhile. The fee taken by the protocol out of the interest is
subtracted and not followed further. The borrower's fee is followed in basis points:
`fees` are the three settings of the Aggregator (`FeeSettings`, changed by `SetFees` at
any time), the match charges by them, `extendLoan` reads them again and charges the
difference (`misingBorrowFee`, whose subtraction may revert and so is in the guard), and
`feeCharged` adds up per offer what was charged. `Extensible` has the reverts of
`extendLoan` that are no `require`. What a match charges a loan of several
principles is the fee in basis points of each. A day is 86400 seconds in the code, the
constant `Day` here. A repeated index in an array makes `payDebt` and the two claims of
the borrower that read the array revert, so the model passes sets; the third claim (an
unsold NFT) reads only the length of the array, so there the model passes a number.

**OrderIndex.** `DeleteShared` is the code of the borrow, buy and auction
factories, `DeleteLend` that of the lend factory; they differ in whether the moved
order is looked up before or after the last slot is cleared. `DeleteManaged` is
`decrease` of the veNFT receipts: no slot of the deleted entry is cleared but the last
one, and its position stays as it was. Operators of a record [index, slot, count],
with `address(0)` a key like any other.

**LendOffers.** `acceptLendingOffer`, `cancelOffer` and `addFunds` do not look at
`isActive`, and the model does not either. Whatever a loan sends is an `addFunds`.

**BorrowOffers.** Collateral is an amount or one receipt (`availableAmount` is 1
for it, and the start amount is what it locks, possibly nothing).

**BuyOrders.** The receipts bought belong to the order, and no function of the
contract moves them again; `receiptOwner` shows it. The index, as that of the auctions
and of the borrow orders, implements ActiveOrders; that of the lend orders does not.

**AuctionHouse.** `buyNFT` and `cancelAuction` run up to the callback and push the
auction on a stack; `_deleteAuctionOrder` is the rest of the innermost call. While
the stack is not empty every other action may happen except the passing of time, as
inside one transaction. `createAuctionForCollateral` is the loan's call, with the
floor from the factory's percentage.

**Aggregator.** A call of `matchOffersV3` is a record of its arguments: the borrow
order, the principles and one pick (order, amount, percentage, slot) per lend order. The
loop over the picks is a recursive function (`Rounds`) whose value at k is the state of
the loop after k picks, with the truncating running averages of the code; every
`require`, and every division that would revert (`Quotable`, `OfferRatio` above 0,
`Weighable`), is a conjunct of the guard. Of the orders the module keeps the terms and
the amounts that a match reads and writes; deadlines count from the start of the loan
(`Deployed` gives the terms at the time of the deployment). Terms do not change after
`Init`, so the cooldown of the orders always has passed here; it is checked in
LendOffers and BorrowOffers. The limit of 29 offers in `DebitaV3Loan.initialize`
subsumes that of 100. A principle may occur in two slots, a lend order in two picks, and
a principle may have no pick at all. `LoansWellFormed` has `MatchedTerms`, which
DebitaLoan takes for granted, as a checked and proved result, with one exception that it
names: 98% of a receipt that locks one unit is 0, so such an order can be matched with
no lend order at all. Left out: `updateFunds` of the incentives, and the maps from
tokens and addresses to loans.

**DebitaIncentives.** The nested mappings under hashed keys are functions of tuples
<<user, principle, epoch, token>>. An array of `incentivizePair` or `claimIncentives`
does what its elements do one by one, so an action takes one element; the array of
`updateFunds` is an argument of its own, because its loop returns at the first pair
that is not whitelisted and so the order of the offers decides what is counted.
`bribeCount` is the count as it is kept, under the address of the bribe token, and
read, under that of the principle. `MaxCalls` bounds the calls of the owner, of
bribers and of the Aggregator, never the claims. `received` is history: the payments
of each claim, in order.

**Receipts.** `Orders` of OrderIndex are the veNFTs here, since each manager has an
index of those it manages. A vault is named by its receipt. Who may pass a receipt to
whom (`Receivers`) is what the contracts that hold receipts do with them; the moment
in which the Aggregator holds one, within a match, is left out. `Strangers` are the
contracts of Debita that keep what a wallet sends to them unasked: lend orders, and loans
and borrow orders that the receipt is not for. The tax that a
transfer takes is an input, and `Arrived` is the check of the deposit. The restriction
of `transferFrom` is `DebitaInvolved`. Two copies of the veNFT code, for Aerodrome and
Equalizer, are one model.

**MixOracle.** The pool is `_update` of Aerodrome's `Pool.sol`, which accumulates
reserves times time; the oracle adds a price times time to it, and the model does the
same. What DebitaPyth answers is an input, 0 when it reverts. `getResult` may be called
by anybody and renews the slots, also while the Mix oracle is paused. Reserves have 112
bits, and `toUint224` truncates the answer to 224 (`% (Q112 * Q112)`). `quiet` and
`initializedAt` are history.

## What is checked

Run with `tlc -config X.cfg M`. Every passing run also checks for deadlock
(no such model stops: `cancelAuction`, a transfer or a repeated setting remains
possible), except `incentives`, `receipts` and `periphery`, whose bounds on calls,
receipts and timestamps are used up.

Two runs hold two components each that share no state and do not call each other:
`lending` (LendOffers and Aggregator) and `periphery` (BuyOrders and MixOracle). The
variable `moving` of their MC modules says which of the two moves in a behaviour, while
the other rests in one initial state; so each component goes through all of its own
behaviours, and the states are the sum of both, not the product.

| Run | Bounds | Shows |
|---|---|---|
| `loan` | 2 offers, 2 users, 7 timestamps, tokens or an NFT, net proceeds 20 or 43 | the lenders are covered and paid once, seizure only in default, the tokens of both sides outlive their positions, no overcharged interest, the NFT goes to one side; nothing but time is between a party and what it is owed (so every balance, also what is left of the proceeds of an auction, covers the next claim); LoanPromise is implemented (so a default is final) |
| `loan_live` | 2 offers of one order, 2 timestamps, tokens, 2 settings of the fees | every lender settled, every paid offer's collateral returned; the borrower's fee stays bounded, and in the first half of the terms neither changed fees nor paid interest make an extension revert |
| `loan_stranded` | 2 offers | violation: interest left behind |
| `loan_nothing` | 2 offers on an NFT | violation: a claim that delivers nothing |
| `loan_fee_days` | 2 offers, constant fees | violation: an extension is not charged for its days |
| `lending`, lend orders | 2 orders, 3 timestamps, amounts to 2, 2 deletions each | retired orders are not perpetual; the index is exact until an order is deleted twice; cooldown |
| `lending`, matches | 2 lend orders of 4 kinds, a borrow order of 4 kinds, 1 or 2 principles, up to 2 picks, 2 matches, 2 changes of settings or prices | loans are well formed, principle and collateral are conserved over fees, the borrower's averages and every lender's limit are kept after truncation |
| `auction` | 1 auction over 12 timestamps, 4 amounts, 2 durations, 4 rates; 3 auctions whose callbacks nest (`OnePricedAuction`) | the price is continuous over edits, never below the floor and at the floor by the end; the net of a liquidation; the index is exact and implements ActiveOrders |
| `borrow` | 2 orders, 3 timestamps, rests at and above the threshold | index, conservation of collateral, cooldown |
| `incentives` | 2 users, 2 principles, 2 bribe tokens, 3 epochs, 5 calls, loans of 2 offers | lenders, borrowers and totals are counted alike; the contract holds all that can be claimed; a claim is final; what is listed is true |
| `receipts` | 2 veNFTs, 3 receipts, 2 users, an order, a loan, an auction and a contract that keeps what it gets; 2 tax receipts | receipts are backed, the lists of the managers exact; a wallet can always redeem |
| `receipts_auction` | as `receipts` | violation: a tax token receipt in an auction cannot be bought |
| `periphery`, buy orders | 3 orders, 3 receipts, 2 users, fees | index, conservation of funds, price |
| `periphery`, oracle | 1 pair, 6 timestamps, a period of 2 between renewals | an answer is refused only at the start; without trades it is the price of the pool |

**Why the bounds are enough.** Two offers with different deadlines, APRs and ratios are
the least for which "all paid", "some paid", the minimum of the deadlines and the
sharing of one balance differ. The timestamps of a loan are the boundaries of every
comparison in the code (10% of the duration, half of a term, each deadline and the
second after it). The year is scaled to 10 units and the amounts are chosen so that the
divisions leave remainders. The settings of the fees in `loan_live` put the fee of the
match near the minimum and above the maximum, so that an extension adds nearly all it
can; time starts at 100 with a day of 1, which is far enough from 0 for a deadline to
cost the maximum, as every date since 1970 does. That run has a timestamp before every
deadline and one after all, since what is between them differs in amounts only, which
`loan` covers; its two offers come from one lend order, picked twice. Two orders
exercise the deletion of the last, another, a moved and the only entry of an index;
three auctions let callbacks nest in each other. A loan on an NFT with a single offer,
whose lender takes the NFT without an auction, is not a run of its own: the theorems
cover it, because they hold for any number of offers. Capacity is the number of orders,
so it never refuses a creation. The constraint of the auction run keeps the clock, the
prices and the settings still while there are several auctions: the index and the
callbacks read none of them. The matches of `lending` scale `10 ** decimals`, `10 ** 8`
and the day down; ratios near 138 make each truncation weigh up to 1%, and so decide
matches just inside and just outside the margin of 2%. Its lend orders are
interchangeable: no property tells them apart, and symmetry is used for safety only. Two
picks already average, share a principle or repeat an order. The auction run covers an
auction from start to after the floor, with ticks that do not divide the range, zero
ticks and up to two edits. Five calls are the least for a pair to be whitelisted, bribed
on both sides and used by two loans; the timestamps of the incentives are the last
second of an epoch and the first seconds of the next two. The timestamps of the oracle
let its slots be renewed up to three times, late or right at `MIN_T`, and read in
between. A third receipt lets a veNFT return to a list whose positions an earlier
withdrawal has left stale. The theorems below have none of these bounds.

**Fairness.** `loan_live` assumes that blocks keep coming and that whoever holds a token
keeps asking for what the loan owes it. Nobody is forced to pay, extend or trade; a
settled lender therefore shows that no behaviour of the others can make the contract
refuse for ever. Weak fairness is enough because a claim that is possible stays so until
it is made or the token changes hands, and the condition of the action is over all
users. The two properties of the fees in that run, and all other properties, need no
fairness.

**Violations.** Four runs show where the code differs from its comments (`findings` in
`PROJECT.json`):

* `loan_stranded`: `payDebt` overwrites the interest that an extension left for the
  lender, which then stays in the loan.
* `loan_nothing`: a claim of a lender burns its token and transfers nothing.
* `loan_fee_days`: an extension is charged for its deadline as if that timestamp were a
  duration, and not for "the extras days" (`DebitaV3Loan.sol:601`), so always up to the
  maximum: 80 basis points for a term whose 14 days cost 56.
* `receipts_auction`: "User buys the NFT" (`Auction.sol:104`), but a tax token receipt
  that a loan sells can enter the auction and not leave it: its `transferFrom` asks for a
  borrow order, a lend order or a loan on one side (`TaxTokensReceipt.sol:98-110`).

More differences were met and have no run that violates something:

* A borrower that "already paid the max fee" (`DebitaV3Loan.sol:599`) is charged again if
  the owner has lowered the fee per day since, because the extension computes what the
  match charged from the settings of its own time; `FeesBounded` says by how much at most,
  and its 1.9% admits that second charge.
* `extendLoan` computes an `extendedTime` that it does not use, and whose subtraction
  reverts once more than half of some unpaid offer's term is over
  (`DebitaV3Loan.sol:589`). No comment or test says when a loan can be extended, so the
  model has the revert as a guard, and `ExtensionUnhindered` speaks of the first half.
* `cancelOffer` of a lend order is "only callable once by the owner"
  (`DebitaLendOffer-Implementation.sol:142`), but `isActive` is not checked and
  `addFunds` accepts tokens for a cancelled order, so it can be cancelled again; the
  second deletion takes another order out of the index, or reverts when the index is
  empty. In the model the steps are cancelOffer, addFunds, cancelOffer; the bound
  `MaxDelistings` of the run `lending` admits them, and `IndexExactUntilRepeat` says that
  nothing short of a second deletion breaks the index. No property judges the index of the
  lend orders after that.
* A perpetual order that is empty and made ordinary is delisted but stays active
  (`DebitaLendOffer-Implementation.sol:182`).
* A borrower that takes back an unsold NFT with an array of the wrong length keeps its
  token (`DebitaV3Loan.sol:513-520`).
* A buy order keeps the receipts it bought.
* `getBribesPerEpoch` reads the number of bribes under the principle, and
  `incentivizePair` counts them under the bribe token (`DebitaIncentives.sol:258-264`),
  so bribes are not listed; those that are, are true (`ListedTruthfully`).
* "get twap price" (`MixOracle.sol:49`): `TarotPriceOracle` adds a price times time to
  the pool's sum of reserves times time. Until somebody trades this is an average of
  the price (`SpotWhenQuiet`); afterwards it is no price, or the subtraction reverts,
  although its comment says that overflow is desired. The comments on the age of a Pyth
  price (`DebitaPyth.sol:31`, 90 seconds; `MixOracle.sol:53`, 20 minutes) differ from the
  600 seconds that are passed.
* A receipt that locks one unit can be matched with no lend order: 98% of 1 truncates to
  0, nothing used is enough, and the loan that is created holds the receipt and owes
  nothing. The attempt to prove `LoansWellFormed`, which then said that every loan has an
  offer, led to it; the property now names the case.

`BorrowerLimits` allows the exact average of the APRs to exceed `maxApr` by less
than 2 for each offer after the first: without this slack the run `lending` refutes it,
because both quotients of the running average are truncated.

## What is proved

`tlapm M.tla` for each proof module. All theorems hold for any sets of offers,
orders, users, amounts and timestamps that satisfy the named assumptions. Every safety
invariant and every action property that a passing run checks is proved, except
`AlwaysRedeemable`. Proved, and in no run of their own: `CollateralAccounted`
and `ProceedsCoverShares`, on which `ClaimsUnhindered` rests; `DefaultIsFinal`, which
`ImplementsPromise` contains; and that the indexes of the borrow and the buy orders
implement ActiveOrders, which adds to `IndexExact` what a single step may list or delist.

The assumptions say what the code or the chain guarantees: users, principles, bribe
tokens, orders and receipts are finite in number, amounts are natural numbers, a unit or
a period by which something is divided is not 0, nobody is at once a user, one of
Debita's contracts and a market. The one that carries an argument is `LoanAssumption`,
what `matchOffersV3` guarantees of a new loan. Its first part, `MatchedTerms`, is the same
operator in both modules, and the theorem `LoanAssumptionDischarged` says that every loan
that the Aggregator deploys satisfies it, at whatever time (a loan of no offers, which
owes nothing to anybody, excepted). The parts that are left say that the borrower's token
is not one of a lender (`LoansWellFormed`), that the fee of the lenders and the settings are
in the ranges the setters of the Aggregator enforce, and that the clock has passed 100
days since 1970.

**ProofLemmas.** Integer division, minima and cardinality; induction over finite sets
and over bounded numbers; sums over finite sets. The library states induction for an
operator, which no installed prover can instantiate, so it is stated here for a set: a
set of finite sets (or of numbers) that contains the first and is closed under a step
contains all. With it a sum is shown to be a natural number, monotone, additive over
disjoint sets and over values, changed by the difference when one value changes, and
the same when its terms are grouped or renamed. The lemmas on the index say that
appending to an exact index and deleting a listed order from it, in all three versions
of the deletion, give an exact index with just that change; the three rest on one lemma,
`SwapExact`, about any index that agrees with the old one but for the last entry moved
into the hole.

**DebitaLoanProofs** (`LoanAssumption`). The inductive invariant `IInv` is the
conjunction of the safety invariants with three more: time is not before the loan;
before a debt is claimed, what the lender's side got plus what it can claim as interest
is within the interest paid (`DeliveredFromInterest`, without which
`PrincipalDeliveredOnce` is not inductive: a claim adds the interest to what was
delivered before); and the borrower's counter is the number of paid offers whose
collateral is claimed, or the loan is over (`ClaimCountMatches`, without which the burn
of the borrower's token cannot be tied to the collateral). `SeizedOnlyInDefault` is
stated with "and still in default", which makes it inductive: the deadline moves only in
calls that are closed in default. `InterestWithinAccrual` rests on the monotonicity of
the accrual in time and the division lemmas. `ProceedsCoverShares` has an invariant of
its own, `SaleInv`: an NFT is sold at most once, by its auction, and stays with the
buyer, so the price per unit that the sale computed stays; what is left of the proceeds
is at least the sum of the shares not yet claimed, because the price per unit is
truncated and the shares are products of it with parts that add up to the collateral
used (`valuableCollateralUsed`). The borrower's fee has an invariant of its own,
`FeeInv`, which needs nothing of the rest of the loan: before the extension at most 1%
was charged, by the limit of `maxFEE`, and the extension adds at most the difference
between that maximum and the least `minFEE`. `ExtensionUnhindered` rests on both: by
`MissingFee` the subtraction in `misingBorrowFee` never reverts, whatever the settings
became, because the deadline is taken as a duration and every deadline is more than 100
days after 1970, and so costs the maximum; by `InterestWithinAccrual` the interest does
not fall below the one paid; the first half of the terms covers `extendedTime`.
`NothingHindersClaims` puts the invariants
together: for every debt, seizure and return of collateral that is open, the token
exists, the guards hold and the balance covers the amount, so the liveness that TLC
checks cannot be lost to anything the others do. It needs, for the borrower's NFT, that
one claim takes everything (`ReturnInv`). `DefaultFinal` is an action property from the
type invariant; `NFTOnOneSide` adds that the cached count of paid offers is right, on
which the auction relies; and `LoanKeepsPromise` is the refinement of LoanPromise,
action by action.

**LendingProofs**, lend orders (`LendOffersAssumption`). A retired order is never
perpetual, and the index is exact until an order is deleted twice; `LendInv` also
says that an order that does not exist was never deleted. A second invariant, `FundsInv`,
gives that an order holds just what it says is available and that no loan is made on
terms younger than the cooldown; it needs that terms are no younger than the update and
the update no younger than the clock.

**LendingProofs**, matches (`AggregatorAssumption`). `MatchInv` has the types, the
ranges of the fees, that no loan has a borrower's token above those minted,
`LoansWellFormed` and `MatchConserves`. One match is followed through
its rounds by induction over the picks: after k picks of a slot the running average A,
the exact weighted sum W and the total C satisfy A * C <= W <= (A + 2 (k - 1)) * C, since
each round truncates twice. From this come the bounds of `BorrowerLimits`, for ratios and
for APRs, with the slack of 2 for each pick after the first. `LenderLimits` needs no
induction: each round checks the picked order by itself. `MatchConserves` regroups the
sum over the picks by slot and principle, for what was paid out, and by lend order, for
what each order gave; the fee of a match is at most 1% of it, and the caller's share at
most a fifth of the fee.

**BorrowOffersProofs** (`BorrowOffersAssumption`). The index is exact and implements
ActiveOrders, the collateral
is conserved, no dust is listed, and no loan is made on terms younger than the
cooldown; the invariant adds that an order that does not exist has nothing available,
taken or returned, and that its terms are not younger than its last update, nor the
update younger than the clock (without which an update could move the time the terms
came into force past the time that `onlyAfterTimeOut` reads).

**AuctionHouseProofs** (`AuctionAssumption`). The index is exact through any nesting of
callbacks and implements ActiveOrders; `IndexInv` adds that the auctions on the stack
exist and are distinct. `FloorReachedByEnd` and `PriceContinuous` rest on `PriceInv`:
the ticks of the whole duration lead from the start to the floor, up to what the
division that computed the tick has truncated, and an edit of the floor keeps this.
`LiquidationNet` rests on `LiquidationInv`: the floor of a liquidation was set from a
percentage of at least 5%, nobody can edit it, and the fee is at most 4%.

**DebitaIncentivesProofs** (`IncentivesAssumption`). Four invariants. `UsageInv`: what
was lent, and what was borrowed, of a principle in an epoch sum up to the total of that
epoch. `FundsInv`: the balance and what was claimed sum up to all bribes ever paid in.
With it `IncentivesCovered` follows: a claim is a truncated share, and by `UsageInv`
the shares of all users in a bribe add up to no more than the bribe, so the claims made
and open are within all bribes. `ListInv`: every entry of the lists, also those behind
the count at which a reader stops, is a token that has bribed the principle in that
epoch. `ClaimsInv`: claimed epochs are over, since then
neither their bribes (accepted for later epochs) nor their usage (counted in the current
one) can change, so a claim is paid once and is worth the same at any later time.

**ReceiptsProofs** (`ReceiptsAssumption`). `ManagementInv` adds to the exactness of every
manager's list that the vault of a receipt not minted yet
is empty, and that an attached veNFT is in its vault, so that no veNFT is in two lists.
`BackedInv` adds that only minted tax receipts exist; the sum behind them changes by one
receipt at a time. `NothingHindersRedemption`
says that whenever a wallet holds a receipt every guard of its withdrawal is true; that
the action is then enabled is checked by TLC (`AlwaysRedeemable`).

**PeripheryProofs** (`BuyOrdersAssumption`, `MixOracleAssumption`). `BuyInv`, with the
balances, the fee within 1%, what was captured and the index, is inductive together with
the three properties of the buy orders; with the exact index every step lists at its
creation, or delists at its end, one order, and so the index implements ActiveOrders.
`OracleInv` says how old the slots are: the other slot is as old as the pair or at least
`MIN_T` older than the latest, so some slot is always usable after the start; and that a
slot since which nobody traded lies on the line of the cumulative price, so the quotient
taken from it is the price of the pool, which fits into 224 bits (`PriceFits`), so that
nothing of it is truncated away.

**Only model-checked**: the two liveness properties and `AlwaysRedeemable`, because
fairness and ENABLED are out of the prover's reach (`NothingHindersClaims` and
`NothingHindersRedemption` prove the guards); and the four runs that show a
violation, which are statements about one behaviour.

## What is not modelled

* DebitaChainlink and DebitaPyth read an external price behind the switches that
  MixOracle has too; the models take their answers as inputs. The proxy only delegates.
* The calls that a manager of a veNFT has forwarded to the voter and the escrow (vote,
  reset, extend, poke, claim bribes): they change no state of the receipts.
* The oracles of the Aggregator one by one: the code has a switch for each
  (`oracleEnabled`, `DebitaV3Aggregator.sol:215`) and every order names its own oracle
  (`:309`, `:334`, `:442`, `:446`); the model has one switch, and one price per token that
  all orders read. No property depends on two orders seeing different prices.
* ERC20 transfers that answer `false`: `DebitaIncentives.sol:203` and `:269` do not look
  at the answer, and the model takes a transfer that fails as a revert.
* The wrap of the oracle's 32-bit clock, in 2106.
* The contracts under `lib/` and the tests.
* The amounts of the fees a loan sends to the protocol (the borrower's is in basis
  points), events, view functions and the SVG of the tokens.
* `changeOwner` of the Aggregator and of the factories assigns the parameter to itself,
  and changes nothing.
* Tokens that call back or take a fee on transfer; the contracts have no support for
  them.
* Overflow of 256-bit integers: amounts are far below; underflow is a guard.

## Plan

1. *Done*: loan, lend, borrow and buy orders, auctions, Aggregator, incentives,
   receipts, Mix oracle; the proofs above.
2. *Done*: the borrower's fee over match and extension, and the terms of a loan as one
   operator of Aggregator and DebitaLoan.
3. Open: the pages of `getAllLoans`, which stop before the newest loan.
4. Open: `Debita`, the composition of Aggregator, lend and borrow orders and loan: a
   match takes from every order or from none, payments return to the perpetual order
   they came from, tokens are conserved over the whole system.
5. Proofs open: that the index of the lend orders implements ActiveOrders up to a second
   deletion; and the theorems of 4.
