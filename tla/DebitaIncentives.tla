-------------------------- MODULE DebitaIncentives --------------------------
(***************************************************************************)
(* The incentives (contracts/DebitaIncentives.sol): anyone bribes the      *)
(* lenders or the borrowers of a principle for an epoch that has not       *)
(* started; the Aggregator reports what each loan lends; when the epoch is *)
(* over, lenders and borrowers claim their percentage of each bribe.       *)
(*                                                                         *)
(* Claims and bribes are passed in arrays.  No requirement on an element   *)
(* of the array of incentivizePair depends on another element, and an      *)
(* element of claimIncentives is checked against the flags the ones before *)
(* it set, so an array does what its elements do one call after another:   *)
(* one action takes one element.  The array of updateFunds is modelled as  *)
(* it is: its loop ends at the first pair that is not whitelisted.         *)
(***************************************************************************)
EXTENDS Integers, Sequences, FiniteSets, SequencesExt

CONSTANTS
  Users,
  Principles,
  Collaterals,
  BribeTokens,            \* incentive tokens; a principle may be one of them
  NoToken,                \* address(0)
  blockDeployedContract,
  epochDuration,          \* 14 days
  \* bounds
  Times,                  \* block timestamps that occur
  MaxEpoch,               \* last epoch that is represented
  LoanAmounts,            \* principleAmount of an offer
  BribeAmounts,
  MaxOffers,              \* offers of one loan
  MaxCalls                \* calls of the owner, of bribers and of the Aggregator

ASSUME IncentivesAssumption ==
  /\ blockDeployedContract \in Nat
  /\ epochDuration \in Nat \ {0}
  /\ Times \subseteq Nat
  /\ \A t \in Times : t >= blockDeployedContract
  /\ NoToken \notin BribeTokens
  /\ IsFiniteSet(Users) /\ IsFiniteSet(Principles) /\ IsFiniteSet(BribeTokens)
  /\ MaxEpoch \in Nat /\ MaxOffers \in Nat
  /\ LoanAmounts \subseteq Nat
  /\ BribeAmounts \subseteq Nat

Epochs == 1 .. MaxEpoch
Usages == Principles \X Epochs                  \* totalUsedTokenPerEpoch
UserUsages == Users \X Principles \X Epochs     \* lentAmountPerUserPerEpoch
Bribes == Principles \X Epochs \X BribeTokens   \* lentIncentivesPerTokenPerEpoch
Claims == Users \X Principles \X Epochs \X BribeTokens

VARIABLES
  now,                    \* block.timestamp
  isPairWhitelisted, isPrincipleWhitelisted,
  lentIncentives, borrowedIncentives,      \* functions on Bribes
  lentAmount, borrowAmount,                \* functions on UserUsages
  totalUsed,                               \* function on Usages
  claimedIncentives,                       \* subset of Claims
  balance,                                 \* incentive tokens held
  \* what getBribesPerEpoch reads
  epochIndexToPrinciple,                   \* list of principles, per epoch
  hasBeenIndexedBribe,                     \* <<epoch, token>> indexed
  specificBribe,                           \* [epoch, principle, index] -> token
  \* bounds and history
  calls,                                   \* how many of those calls so far
  received                                 \* the payments of each claim

whitelists == <<isPairWhitelisted, isPrincipleWhitelisted>>
incentives == <<lentIncentives, borrowedIncentives>>
usage == <<lentAmount, borrowAmount, totalUsed>>
listing == <<epochIndexToPrinciple, hasBeenIndexedBribe, specificBribe>>
vars == <<now, whitelists, incentives, usage, claimedIncentives, balance,
          listing, calls, received>>

-----------------------------------------------------------------------------
EpochAt(t) == ((t - blockDeployedContract) \div epochDuration) + 1

currentEpoch == EpochAt(now)

(* Mutant: epochs that are still running count as finished.                *)
Finished_Running(e) == e <= currentEpoch

Finished(e) == e < currentEpoch

(* Mutant: rounded up.                                                     *)
Percentage_RoundUp(amount, total) ==
  IF amount = 0 THEN 0 ELSE (amount * 10000 + total - 1) \div total

(* porcentageLent, porcentageBorrow: basis points of the total.            *)
Percentage(amount, total) ==
  IF amount = 0 THEN 0 ELSE (amount * 10000) \div total

(* amountToClaim: what u is paid for bribes in token t to principle p.     *)
AmountToClaim(u, p, e, t) ==
  LET total == totalUsed[<<p, e>>]
      part(incentive, amount) == (incentive * Percentage(amount, total)) \div 10000
  IN  part(lentIncentives[<<p, e, t>>], lentAmount[<<u, p, e>>])
        + part(borrowedIncentives[<<p, e, t>>], borrowAmount[<<u, p, e>>])

-----------------------------------------------------------------------------
Init ==
  /\ now \in Times
  /\ isPairWhitelisted = {} /\ isPrincipleWhitelisted = {}
  /\ lentIncentives = [b \in Bribes |-> 0]
  /\ borrowedIncentives = [b \in Bribes |-> 0]
  /\ lentAmount = [x \in UserUsages |-> 0]
  /\ borrowAmount = [x \in UserUsages |-> 0]
  /\ totalUsed = [x \in Usages |-> 0]
  /\ claimedIncentives = {}
  /\ balance = [t \in BribeTokens |-> 0]
  /\ epochIndexToPrinciple = [e \in Epochs |-> <<>>]
  /\ hasBeenIndexedBribe = {}
  /\ specificBribe = [x \in Epochs \X Principles \X {0, 1} |-> NoToken]
  /\ calls = 0
  /\ received = [c \in Claims |-> <<>>]

(* Either incentive makes a claim.  The transfer reverts if the contract   *)
(* does not hold the amount.                                               *)
claimIncentives(u, p, e, t) ==
  LET lent == lentAmount[<<u, p, e>>]
      borrowed == borrowAmount[<<u, p, e>>]
      amount == AmountToClaim(u, p, e, t)
  IN  /\ Finished(e)
      /\ lent > 0 \/ borrowed > 0
      /\ totalUsed[<<p, e>>] > 0
      /\ <<u, p, e, t>> \notin claimedIncentives
      /\ \/ lentIncentives[<<p, e, t>>] > 0 /\ lent > 0
         \/ borrowedIncentives[<<p, e, t>>] > 0 /\ borrowed > 0
      /\ claimedIncentives' = claimedIncentives \cup {<<u, p, e, t>>}
      /\ balance[t] >= amount
      /\ balance' = [balance EXCEPT ![t] = @ - amount]
      /\ received' = [received EXCEPT ![<<u, p, e, t>>] = Append(@, amount)]
      /\ UNCHANGED <<now, whitelists, incentives, usage, listing, calls>>

-----------------------------------------------------------------------------
Open(e) == e > currentEpoch

(* bribeCountPerPrincipleOnEpoch is raised under the address of the token, *)
(* once for each token and epoch, and read under that of the principle.    *)
bribeCount(e, address) == IF <<e, address>> \in hasBeenIndexedBribe THEN 1 ELSE 0

(* Mutant: a principle is listed again for every bribe.                    *)
IndexPrinciple_Again(p, e) == epochIndexToPrinciple' =
  [epochIndexToPrinciple EXCEPT ![e] = Append(@, p)]

IndexPrinciple(p, e) == epochIndexToPrinciple' =
  IF Contains(epochIndexToPrinciple[e], p) THEN epochIndexToPrinciple
  ELSE [epochIndexToPrinciple EXCEPT ![e] = Append(@, p)]

IndexBribe(p, e, t) ==
  IF <<e, t>> \in hasBeenIndexedBribe
    THEN UNCHANGED <<hasBeenIndexedBribe, specificBribe>>
    ELSE /\ hasBeenIndexedBribe' = hasBeenIndexedBribe \cup {<<e, t>>}
         /\ specificBribe' = [specificBribe EXCEPT ![<<e, p, bribeCount(e, p)>>] = t]

(* One element of incentivizePair.                                         *)
incentivizePair(p, t, lend, amount, e) ==
  /\ calls < MaxCalls
  /\ Open(e)
  /\ p \in isPrincipleWhitelisted
  /\ IndexPrinciple(p, e)
  /\ IndexBribe(p, e, t)
  /\ amount > 0
  /\ balance' = [balance EXCEPT ![t] = @ + amount]
  /\ IF lend
       THEN /\ lentIncentives' = [lentIncentives EXCEPT ![<<p, e, t>>] = @ + amount]
            /\ UNCHANGED borrowedIncentives
       ELSE /\ borrowedIncentives' = [borrowedIncentives EXCEPT ![<<p, e, t>>] = @ + amount]
            /\ UNCHANGED lentIncentives
  /\ calls' = calls + 1
  /\ UNCHANGED <<now, whitelists, usage, claimedIncentives, received>>

-----------------------------------------------------------------------------
Offers == [principle : Principles, principleAmount : LoanAmounts, lender : Users]

(* The sum of the offers of an array whose index is in S.                  *)
Lent(offers, S) ==
  SumFunctionOnSet([i \in S |-> offers[i].principleAmount], S)

(* The loop returns at the first offer whose pair is not whitelisted:      *)
(* what comes after it is not counted, whitelisted or not.                 *)
Counted(offers, collateral) ==
  {i \in DOMAIN offers :
     \A j \in 1 .. i : <<offers[j].principle, collateral>> \in isPairWhitelisted}

(* Mutant: the total counts the offers behind the first bad pair as well.  *)
CountedInTotal_All(offers, collateral) == DOMAIN offers

CountedInTotal(offers, collateral) == Counted(offers, collateral)

(* Called by the Aggregator at the end of every match.                     *)
updateFunds(offers, collateral, borrower) ==
  LET of(S, p) == {i \in S : offers[i].principle = p}
      counted == Counted(offers, collateral)
      inTotal == CountedInTotal(offers, collateral)
      by(u) == {i \in counted : offers[i].lender = u}
  IN  /\ calls < MaxCalls
      /\ currentEpoch \in Epochs
      /\ lentAmount' = [x \in UserUsages |->
           IF x[3] = currentEpoch
             THEN lentAmount[x] + Lent(offers, of(by(x[1]), x[2]))
             ELSE lentAmount[x]]
      /\ borrowAmount' = [x \in UserUsages |->
           IF x[1] = borrower /\ x[3] = currentEpoch
             THEN borrowAmount[x] + Lent(offers, of(counted, x[2]))
             ELSE borrowAmount[x]]
      /\ totalUsed' = [x \in Usages |->
           IF x[2] = currentEpoch
             THEN totalUsed[x] + Lent(offers, of(inTotal, x[1]))
             ELSE totalUsed[x]]
      /\ calls' = calls + 1
      /\ UNCHANGED <<now, whitelists, incentives, claimedIncentives, balance,
                     listing, received>>

-----------------------------------------------------------------------------
(* The owner                                                               *)

whitelListCollateral(p, c, whitelist) ==
  /\ calls < MaxCalls
  /\ isPrincipleWhitelisted' =
       IF whitelist THEN isPrincipleWhitelisted \cup {p} ELSE isPrincipleWhitelisted
  /\ isPairWhitelisted' =
       IF whitelist THEN isPairWhitelisted \cup {<<p, c>>}
       ELSE isPairWhitelisted \ {<<p, c>>}
  /\ calls' = calls + 1
  /\ UNCHANGED <<now, incentives, usage, claimedIncentives, balance, listing,
                 received>>

(* The pairs of a deprecated principle stay whitelisted.                   *)
deprecatePrinciple(p) ==
  /\ calls < MaxCalls
  /\ isPrincipleWhitelisted' = isPrincipleWhitelisted \ {p}
  /\ calls' = calls + 1
  /\ UNCHANGED <<now, isPairWhitelisted, incentives, usage, claimedIncentives,
                 balance, listing, received>>

Tick ==
  /\ now' \in {t \in Times : t > now}
  /\ UNCHANGED <<whitelists, incentives, usage, claimedIncentives, balance,
                 listing, calls, received>>

Next ==
  \/ \E u \in Users, p \in Principles, e \in Epochs, t \in BribeTokens :
       claimIncentives(u, p, e, t)
  \/ \E p \in Principles, t \in BribeTokens, lend \in BOOLEAN,
        amount \in BribeAmounts, e \in Epochs : incentivizePair(p, t, lend, amount, e)
  \/ \E n \in 1 .. MaxOffers : \E offers \in [1 .. n -> Offers], c \in Collaterals,
        borrower \in Users : updateFunds(offers, c, borrower)
  \/ \E p \in Principles, c \in Collaterals, whitelist \in BOOLEAN :
       whitelListCollateral(p, c, whitelist)
  \/ \E p \in Principles : deprecatePrinciple(p)
  \/ Tick

Spec == Init /\ [][Next]_vars

-----------------------------------------------------------------------------
(* Properties                                                              *)

(* What the total of a principle and epoch counts is what its lenders lent *)
(* and what its borrowers borrowed, so neither side's percentages exceed   *)
(* 100%, although each map is written under another condition.             *)
UsageAgrees ==
  \A p \in Principles, e \in Epochs :
    LET all == {x \in UserUsages : x[2] = p /\ x[3] = e}
    IN  /\ SumFunctionOnSet(lentAmount, all) = totalUsed[<<p, e>>]
        /\ SumFunctionOnSet(borrowAmount, all) = totalUsed[<<p, e>>]

(* The contract holds, in every token, what all users could still claim in *)
(* all epochs, the running one included: bribes of one epoch or principle  *)
(* are never paid out to another, and rounding never leaves the last one   *)
(* short.                                                                  *)
IncentivesCovered ==
  \A t \in BribeTokens :
    LET open == {c \in Claims : c[4] = t /\ c \notin claimedIncentives}
        due == [c \in open |-> AmountToClaim(c[1], c[2], c[3], c[4])]
    IN  balance[t] >= SumFunctionOnSet(due, open)

(* A claim is paid once, and what it was paid is what it would be worth at *)
(* any later time: nothing that is lent, borrowed or bribed after an epoch *)
(* changes it, so the order of the claims does not matter.                 *)
ClaimsFinal ==
  \A u \in Users, p \in Principles, e \in Epochs, t \in BribeTokens :
    received[<<u, p, e, t>>] =
      IF <<u, p, e, t>> \in claimedIncentives THEN <<AmountToClaim(u, p, e, t)>>
      ELSE <<>>

(* getBribesPerEpoch lists the principles that are bribed in an epoch,     *)
(* each once, and no bribe of a principle that it does not have; it misses *)
(* bribes, as their count is kept under the wrong address.                 *)
ListedTruthfully ==
  \A e \in Epochs :
    /\ IsInjective(epochIndexToPrinciple[e])
    /\ \A p \in Principles :
         Contains(epochIndexToPrinciple[e], p) <=>
           \E t \in BribeTokens : lentIncentives[<<p, e, t>>] + borrowedIncentives[<<p, e, t>>] > 0
    /\ \A p \in Principles, t \in BribeTokens, i \in 0 .. 1 :
         i < bribeCount(e, p) /\ specificBribe[<<e, p, i>>] = t =>
           lentIncentives[<<p, e, t>>] + borrowedIncentives[<<p, e, t>>] > 0

-----------------------------------------------------------------------------
(* The inductive invariants of the proofs.                                 *)

(* Every amount is a natural, and the usages agree.                        *)
UsageInv ==
  /\ lentAmount \in [UserUsages -> Nat]
  /\ borrowAmount \in [UserUsages -> Nat]
  /\ totalUsed \in [Usages -> Nat]
  /\ UsageAgrees

(* All bribes in token t that ever came in, and what was claimed of them.  *)
Pot == [b \in Bribes |-> lentIncentives[b] + borrowedIncentives[b]]
Bribed(t) == SumFunctionOnSet(Pot, {b \in Bribes : b[3] = t})
Worth == [c \in Claims |-> AmountToClaim(c[1], c[2], c[3], c[4])]
ClaimedOf(t) == SumFunctionOnSet(Worth, {c \in claimedIncentives : c[4] = t})

(* What the contract holds is what came in and was not claimed.            *)
FundsInv ==
  /\ lentIncentives \in [Bribes -> Nat]
  /\ borrowedIncentives \in [Bribes -> Nat]
  /\ balance \in [BribeTokens -> Nat]
  /\ \A t \in BribeTokens : balance[t] + ClaimedOf(t) = Bribed(t)

(* Every token that is listed for a principle has bribed it: a reader      *)
(* stops at a count, but the entries behind it are true as well.           *)
ListInv ==
  /\ lentIncentives \in [Bribes -> Nat]
  /\ borrowedIncentives \in [Bribes -> Nat]
  /\ epochIndexToPrinciple \in [Epochs -> Seq(Principles)]
  /\ specificBribe \in [Epochs \X Principles \X {0, 1} -> BribeTokens \cup {NoToken}]
  /\ \A e \in Epochs, p \in Principles, i \in {0, 1}, t \in BribeTokens :
       specificBribe[<<e, p, i>>] = t =>
         lentIncentives[<<p, e, t>>] + borrowedIncentives[<<p, e, t>>] > 0
  /\ ListedTruthfully

(* The inductive invariant of the proof about the claims: all of them are  *)
(* about epochs that are over, whose incentives and usages do not change.  *)
ClaimsInv ==
  /\ now \in Times
  /\ claimedIncentives \subseteq Claims
  /\ received = [c \in Claims |-> received[c]]
  /\ lentIncentives = [b \in Bribes |-> lentIncentives[b]]
  /\ borrowedIncentives = [b \in Bribes |-> borrowedIncentives[b]]
  /\ \A c \in claimedIncentives : Finished(c[3])
  /\ ClaimsFinal
=============================================================================
