----------------------------- MODULE LendOffers -----------------------------
(***************************************************************************)
(* The lend orders and their factory (DebitaLendOffer-Implementation.sol,  *)
(* DebitaLendOfferFactory.sol).  A lend order holds principle tokens; the  *)
(* Aggregator takes some of them for each loan, the owner adds, cancels    *)
(* and updates, and a loan sends what the borrower pays back to the order  *)
(* while it is perpetual.  One action per external function, atomic like   *)
(* the transaction it runs in.                                             *)
(***************************************************************************)
EXTENDS OrderIndex

CONSTANTS
  Users,
  NoUser,         \* owner of an order that has not been created
  Terms,          \* what updateLendOrder replaces: APR, durations, ratios
  Cooldown,       \* 1 minutes
  Times,          \* block timestamps that occur
  MaxAmount,      \* bound: tokens in one order
  MaxDelistings   \* bound: deleteOrder calls of one order

ASSUME LendOffersAssumption ==
  /\ NoUser \notin Users
  /\ Cooldown \in Nat
  /\ Times \subseteq Nat \ {0}
  /\ MaxAmount \in Nat
  /\ MaxDelistings \in Nat

VARIABLES
  now,                \* block.timestamp
  owner,              \* lendInformation.owner
  isActive,           \* orders whose isActive flag is set
  perpetual,          \* orders whose lendInformation.perpetual is set
  availableAmount,    \* lendInformation.availableAmount
  balance,            \* principle tokens each order holds
  lastUpdate,         \* time of the last update, 0 before the first
  terms,              \* the terms in force
  orders,             \* the factory's index of active orders
  \* history
  termsSince,         \* when the terms in force came into force, 0 at creation
  cancels,            \* successful cancelOffer calls of each order
  delistings          \* successful deleteOrder calls of each order

vars == <<now, owner, isActive, perpetual, availableAmount, balance,
          lastUpdate, terms, orders, termsSince, cancels, delistings>>

Created == {l \in Orders : owner[l] # NoUser}

-----------------------------------------------------------------------------
Init ==
  /\ now \in Times
  /\ owner = [l \in Orders |-> NoUser]
  /\ isActive = {} /\ perpetual = {}
  /\ availableAmount = [l \in Orders |-> 0]
  /\ balance = [l \in Orders |-> 0]
  /\ lastUpdate = [l \in Orders |-> 0]
  /\ terms \in [Orders -> Terms]
  /\ orders = EmptyIndex
  /\ termsSince = [l \in Orders |-> 0]
  /\ cancels = [l \in Orders |-> 0]
  /\ delistings = [l \in Orders |-> 0]

(* DLOFactory.deleteOrder, called by the order l.                          *)
deleteOrder(l) ==
  /\ Deletable(orders)
  /\ delistings[l] < MaxDelistings
  /\ orders' = DeleteLend(orders, l)
  /\ delistings' = [delistings EXCEPT ![l] = @ + 1]

createLendOrder(u, l, isPerpetual, amount, t) ==
  /\ owner[l] = NoUser
  /\ HasRoom(orders)
  /\ owner' = [owner EXCEPT ![l] = u]
  /\ isActive' = isActive \cup {l}
  /\ perpetual' = IF isPerpetual THEN perpetual \cup {l} ELSE perpetual
  /\ availableAmount' = [availableAmount EXCEPT ![l] = amount]
  /\ balance' = [balance EXCEPT ![l] = amount]
  /\ terms' = [terms EXCEPT ![l] = t]
  /\ orders' = Enlist(orders, l)
  /\ UNCHANGED <<now, lastUpdate, termsSince, cancels, delistings>>

(* onlyAfterTimeOut                                                        *)
AfterTimeOut(l) == lastUpdate[l] = 0 \/ now - lastUpdate[l] > Cooldown

FullyLent(l, amount) == availableAmount[l] = amount /\ l \notin perpetual

Lendable(l, amount) == amount > 0 /\ amount <= availableAmount[l]

(* The Aggregator takes amount for a loan.  isActive is not checked.       *)
acceptLendingOffer(l, amount) ==
  /\ l \in Created
  /\ AfterTimeOut(l)
  /\ Lendable(l, amount)
  /\ availableAmount' = [availableAmount EXCEPT ![l] = @ - amount]
  /\ balance' = [balance EXCEPT ![l] = @ - amount]
  /\ IF FullyLent(l, amount)
       THEN isActive' = isActive \ {l} /\ deleteOrder(l)
       ELSE UNCHANGED <<isActive, orders, delistings>>
  /\ UNCHANGED <<now, owner, perpetual, lastUpdate, terms, termsSince, cancels>>

(* Mutant: the perpetual flag outlives the order.                          *)
ClearPerpetual_Kept(l) == l \in Orders /\ UNCHANGED perpetual

ClearPerpetual(l) == perpetual' = perpetual \ {l}

(* The owner takes what is available.  isActive is not checked.            *)
cancelOffer(u, l) ==
  /\ owner[l] = u
  /\ availableAmount[l] > 0
  /\ ClearPerpetual(l)
  /\ availableAmount' = [availableAmount EXCEPT ![l] = 0]
  /\ balance' = [balance EXCEPT ![l] = @ - availableAmount[l]]
  /\ isActive' = isActive \ {l}
  /\ deleteOrder(l)
  /\ cancels' = [cancels EXCEPT ![l] = @ + 1]
  /\ UNCHANGED <<now, owner, lastUpdate, terms, termsSince>>

(* The owner, or any loan, adds tokens.  isActive is not checked.          *)
addFunds(l, amount) ==
  /\ l \in Created
  /\ availableAmount[l] + amount <= MaxAmount
  /\ availableAmount' = [availableAmount EXCEPT ![l] = @ + amount]
  /\ balance' = [balance EXCEPT ![l] = @ + amount]
  /\ UNCHANGED <<now, owner, isActive, perpetual, lastUpdate, terms, orders,
                 termsSince, cancels, delistings>>

changePerpetual(u, l, isPerpetual) ==
  /\ owner[l] = u
  /\ l \in isActive
  /\ perpetual' = IF isPerpetual THEN perpetual \cup {l} ELSE perpetual \ {l}
  /\ IF ~isPerpetual /\ availableAmount[l] = 0
       THEN deleteOrder(l)
       ELSE UNCHANGED <<orders, delistings>>
  /\ UNCHANGED <<now, owner, isActive, availableAmount, balance, lastUpdate,
                 terms, termsSince, cancels>>

(* Mutant: the time is taken only the first time.                          *)
Stamp_Once(l) ==
  lastUpdate' = [lastUpdate EXCEPT ![l] = IF @ = 0 THEN now ELSE @]

Stamp(l) == lastUpdate' = [lastUpdate EXCEPT ![l] = now]

updateLendOrder(u, l, t) ==
  /\ owner[l] = u
  /\ l \in isActive
  /\ Stamp(l)
  /\ terms' = [terms EXCEPT ![l] = t]
  /\ termsSince' = [termsSince EXCEPT ![l] = IF t = terms[l] THEN @ ELSE now]
  /\ UNCHANGED <<now, owner, isActive, perpetual, availableAmount, balance,
                 orders, cancels, delistings>>

Tick ==
  /\ now' \in {t \in Times : t > now}
  /\ UNCHANGED <<owner, isActive, perpetual, availableAmount, balance,
                 lastUpdate, terms, orders, termsSince, cancels, delistings>>

Next ==
  \/ \E u \in Users, l \in Orders, p \in BOOLEAN, n \in 0..MaxAmount, t \in Terms :
       createLendOrder(u, l, p, n, t)
  \/ \E l \in Orders, n \in 1..MaxAmount : acceptLendingOffer(l, n)
  \/ \E u \in Users, l \in Orders : cancelOffer(u, l)
  \/ \E l \in Orders, n \in 0..MaxAmount : addFunds(l, n)
  \/ \E u \in Users, l \in Orders, p \in BOOLEAN : changePerpetual(u, l, p)
  \/ \E u \in Users, l \in Orders, t \in Terms : updateLendOrder(u, l, t)
  \/ Tick

Spec == Init /\ [][Next]_vars

-----------------------------------------------------------------------------
(* Properties                                                              *)

(* What a perpetual order receives from a loan (payDebt and extendLoan     *)
(* send the borrower's payment there when the flag is set) goes to an      *)
(* order that has been neither cancelled nor retired: an order that is     *)
(* deactivated is never perpetual again.                                   *)
RetiredNotPerpetual == perpetual \subseteq isActive

DelistedAtMostOnce == \A l \in Orders : delistings[l] <= 1

(* As long as no order is deleted from the index twice, the index is       *)
(* exact, and lists just the orders that were never deleted, in whatever   *)
(* order they are created and deleted.                                     *)
IndexExactUntilRepeat ==
  DelistedAtMostOnce =>
    /\ Exact(orders)
    /\ Listed(orders) = {l \in Created : delistings[l] = 0}

(* A loan is never made on terms less than Cooldown old: the borrower, or  *)
(* whoever connects the offers, has seen them.                             *)
TermsSettled ==
  [][\A l \in Orders :
       availableAmount'[l] < availableAmount[l] /\ cancels'[l] = cancels[l] =>
         termsSince[l] = 0 \/ now > termsSince[l] + Cooldown]_vars

(* An order holds just what it says is available, so it never lends or     *)
(* refunds more than it has, and leaves nothing behind.                    *)
FundsHeld == balance = availableAmount

-----------------------------------------------------------------------------
(* The inductive invariants of the proofs: of the flags and the index, and *)
(* of the funds and the cooldown.  Terms are never younger than the update *)
(* whose time onlyAfterTimeOut reads.                                      *)
LendInv ==
  /\ owner \in [Orders -> Users \cup {NoUser}]
  /\ delistings \in [Orders -> Nat]
  /\ \A l \in Orders \ Created : delistings[l] = 0
  /\ orders \in Indexes
  /\ RetiredNotPerpetual
  /\ IndexExactUntilRepeat

FundsInv ==
  /\ now \in Nat
  /\ owner \in [Orders -> Users \cup {NoUser}]
  /\ cancels \in [Orders -> Nat]
  /\ \A l \in Orders \ Created : availableAmount[l] = 0
  /\ availableAmount \in [Orders -> Nat]
  /\ lastUpdate \in [Orders -> Nat]
  /\ termsSince \in [Orders -> Nat]
  /\ \A l \in Orders : termsSince[l] <= lastUpdate[l] /\ lastUpdate[l] <= now
  /\ FundsHeld
=============================================================================
