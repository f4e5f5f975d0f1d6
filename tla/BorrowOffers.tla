---------------------------- MODULE BorrowOffers ----------------------------
(***************************************************************************)
(* The borrow orders and their factory                                     *)
(* (DebitaBorrowOffer-Implementation.sol, DebitaBorrowOffer-Factory.sol).  *)
(* A borrow order holds the collateral, tokens or one NFT receipt, that    *)
(* its owner offers; the Aggregator takes what each loan needs, the owner  *)
(* cancels and updates.  One action per external function, atomic like the *)
(* transaction it runs in.                                                 *)
(***************************************************************************)
EXTENDS OrderIndex

CONSTANTS
  Users,
  NoUser,         \* owner of an order that has not been created
  Terms,          \* what updateBorrowOrder replaces: APR, duration, LTVs, ratios
  Cooldown,       \* 1 minutes
  Times,          \* block timestamps that occur
  Deposits,       \* token amounts an order may start with
  LockedAmounts,  \* amounts locked in the receipts that are offered
  Amounts         \* amounts the Aggregator may ask for

ASSUME BorrowOffersAssumption ==
  /\ NoUser \notin Users
  /\ Cooldown \in Nat
  /\ Times \subseteq Nat \ {0}
  /\ Deposits \subseteq Nat \ {0}
  /\ LockedAmounts \subseteq Nat
  /\ Amounts \subseteq Nat

VARIABLES
  now,                \* block.timestamp
  owner,              \* borrowInformation.owner
  isNFT,              \* orders whose collateral is a receipt
  isActive,           \* orders whose isActive flag is set
  startAmount,        \* tokens deposited, or locked in the receipt
  availableAmount,    \* collateral still offered; 1 stands for the receipt
  balance,            \* collateral each order holds
  lastUpdate,         \* time of the last update, 0 before the first
  terms,              \* the terms in force
  orders,             \* the factory's index of active orders
  \* history
  termsSince,         \* when the terms in force came into force, 0 at creation
  accepted,           \* collateral the Aggregator took from each order
  returned            \* collateral each owner got back

fundVars == <<startAmount, availableAmount, balance, accepted, returned>>
termVars == <<lastUpdate, terms, termsSince>>
vars == <<now, owner, isNFT, isActive, orders, fundVars, termVars>>

Created == {b \in Orders : owner[b] # NoUser}

-----------------------------------------------------------------------------
Zero == [b \in Orders |-> 0]

Init ==
  /\ now \in Times
  /\ owner = [b \in Orders |-> NoUser]
  /\ isNFT = {} /\ isActive = {}
  /\ startAmount = Zero /\ availableAmount = Zero /\ balance = Zero
  /\ lastUpdate = Zero
  /\ terms \in [Orders -> Terms]
  /\ orders = EmptyIndex
  /\ termsSince = Zero /\ accepted = Zero /\ returned = Zero

(* DBOFactory.deleteBorrowOrder, called by the order b.                    *)
deleteBorrowOrder(b) == Deletable(orders) /\ orders' = DeleteShared(orders, b)

(* start is the deposit, or what is locked in the receipt.                 *)
createBorrowOrder(u, b, nft, start, t) ==
  LET collateral == IF nft THEN 1 ELSE start
  IN  /\ owner[b] = NoUser
      /\ start \in IF nft THEN LockedAmounts ELSE Deposits
      /\ HasRoom(orders)
      /\ owner' = [owner EXCEPT ![b] = u]
      /\ isNFT' = IF nft THEN isNFT \cup {b} ELSE isNFT
      /\ isActive' = isActive \cup {b}
      /\ startAmount' = [startAmount EXCEPT ![b] = start]
      /\ availableAmount' = [availableAmount EXCEPT ![b] = collateral]
      /\ balance' = [balance EXCEPT ![b] = collateral]
      /\ terms' = [terms EXCEPT ![b] = t]
      /\ orders' = Enlist(orders, b)
      /\ UNCHANGED <<now, lastUpdate, termsSince, accepted, returned>>

(* onlyAfterTimeOut                                                        *)
AfterTimeOut(b) == lastUpdate[b] = 0 \/ now - lastUpdate[b] > Cooldown

(* percentageOfAvailableCollateral <= 10, in basis points of the start.    *)
CountsAsCompleted(b, rest) == (rest * 10000) \div startAmount[b] <= 10

(* Mutant: the rest is sent to the owner and stays on offer.               *)
LeftOver_Kept(b, rest) == b \in Orders /\ rest >= 0 /\ availableAmount' =
  [availableAmount EXCEPT ![b] = rest]

(* What is on offer once the order counts as completed.                    *)
LeftOver(b, rest) == rest >= 0 /\ availableAmount' = [availableAmount EXCEPT ![b] = 0]

(* What matchOffersV3 asks for: the receipt as a whole, or some tokens.    *)
Asked(b) == IF b \in isNFT THEN {1} ELSE Amounts

(* The Aggregator takes n for a loan; an order that counts as completed    *)
(* sends the rest to its owner and leaves the index.  The division by the  *)
(* start reverts for a receipt that locks nothing.                         *)
acceptBorrowOffer(b, n) ==
  LET rest == availableAmount[b] - n
  IN  /\ b \in Created
      /\ AfterTimeOut(b)
      /\ n > 0 /\ n <= availableAmount[b]
      /\ startAmount[b] > 0
      /\ accepted' = [accepted EXCEPT ![b] = @ + n]
      /\ IF CountsAsCompleted(b, rest)
           THEN /\ isActive' = isActive \ {b}
                /\ balance' = [balance EXCEPT ![b] = (@ - n) - rest]
                /\ returned' = [returned EXCEPT ![b] = @ + rest]
                /\ LeftOver(b, rest)
                /\ deleteBorrowOrder(b)
           ELSE /\ balance' = [balance EXCEPT ![b] = @ - n]
                /\ availableAmount' = [availableAmount EXCEPT ![b] = rest]
                /\ UNCHANGED <<isActive, returned, orders>>
      /\ UNCHANGED <<now, owner, isNFT, startAmount, termVars>>

(* The owner takes back what is available.                                 *)
cancelOffer(u, b) ==
  /\ owner[b] = u
  /\ availableAmount[b] > 0
  /\ availableAmount' = [availableAmount EXCEPT ![b] = 0]
  /\ isActive' = isActive \ {b}
  /\ balance' = [balance EXCEPT ![b] = @ - availableAmount[b]]
  /\ returned' = [returned EXCEPT ![b] = @ + availableAmount[b]]
  /\ deleteBorrowOrder(b)
  /\ UNCHANGED <<now, owner, isNFT, startAmount, accepted, termVars>>

(* Mutant: the time is taken only the first time.                          *)
Stamp_Once(b) ==
  lastUpdate' = [lastUpdate EXCEPT ![b] = IF @ = 0 THEN now ELSE @]

Stamp(b) == lastUpdate' = [lastUpdate EXCEPT ![b] = now]

(* isActive is not checked.                                                *)
updateBorrowOrder(u, b, t) ==
  /\ owner[b] = u
  /\ Stamp(b)
  /\ terms' = [terms EXCEPT ![b] = t]
  /\ termsSince' = [termsSince EXCEPT ![b] = IF t = terms[b] THEN @ ELSE now]
  /\ UNCHANGED <<now, owner, isNFT, isActive, orders, fundVars>>

Tick ==
  /\ now' \in {t \in Times : t > now}
  /\ UNCHANGED <<owner, isNFT, isActive, orders, fundVars, termVars>>

Next ==
  \/ \E u \in Users, b \in Orders, nft \in BOOLEAN,
        start \in Deposits \cup LockedAmounts, t \in Terms :
       createBorrowOrder(u, b, nft, start, t)
  \/ \E b \in Orders : \E n \in Asked(b) : acceptBorrowOffer(b, n)
  \/ \E u \in Users, b \in Orders : cancelOffer(u, b)
  \/ \E u \in Users, b \in Orders, t \in Terms : updateBorrowOrder(u, b, t)
  \/ Tick

Spec == Init /\ [][Next]_vars

-----------------------------------------------------------------------------
(* Properties                                                              *)

TypeOK ==
  /\ now \in Nat
  /\ owner \in [Orders -> Users \cup {NoUser}]
  /\ isNFT \subseteq Created
  /\ isActive \subseteq Created
  /\ startAmount \in [Orders -> Nat]
  /\ availableAmount \in [Orders -> Nat]
  /\ balance \in [Orders -> Nat]
  /\ lastUpdate \in [Orders -> Nat]
  /\ terms \in [Orders -> Terms]
  /\ orders \in Indexes
  /\ termsSince \in [Orders -> Nat]
  /\ accepted \in [Orders -> Nat]
  /\ returned \in [Orders -> Nat]

(* The index lists each active order once and nothing else, and the active *)
(* orders are those with something to take: three functions keep the flag, *)
(* the amount and the index of another contract in step.                   *)
IndexExact ==
  /\ Exact(orders)
  /\ Listed(orders) = isActive
  /\ isActive = {b \in Orders : availableAmount[b] > 0}

(* What the owner deposited is with the order, with the Aggregator or with *)
(* the owner again, through partial acceptances, the refund of a rest and  *)
(* a cancellation; and an order can always deliver what it offers.         *)
CollateralConserved ==
  \A b \in Created :
    /\ balance[b] = availableAmount[b]
    /\ balance[b] + accepted[b] + returned[b] =
         IF b \in isNFT THEN 1 ELSE startAmount[b]

(* An order of tokens that is listed still offers at least 0.11% of its    *)
(* start: lenders find no order that is not worth a loan.                  *)
NoDustListed ==
  \A b \in Listed(orders) \ isNFT : availableAmount[b] * 10000 >= 11 * startAmount[b]

(* A loan is never made on terms less than Cooldown old.                   *)
TermsSettled ==
  [][\A b \in Orders :
       accepted'[b] > accepted[b] =>
         termsSince[b] = 0 \/ now > termsSince[b] + Cooldown]_vars

(* The factory's index implements the set of open orders: an order is      *)
(* listed from its creation, and leaves the list once, when it ends.       *)
Market == INSTANCE ActiveOrders WITH
  created <- Created,
  ended <- Created \ isActive,
  open <- Listed(orders)

ImplementsActiveOrders == Market!OpenSpec

-----------------------------------------------------------------------------
(* The inductive invariant of the proofs.                                  *)
BorrowInv ==
  /\ TypeOK
  /\ \A b \in Orders \ Created :
       availableAmount[b] = 0 /\ accepted[b] = 0 /\ returned[b] = 0
  /\ \A b \in Orders : termsSince[b] <= lastUpdate[b] /\ lastUpdate[b] <= now
  /\ IndexExact
  /\ CollateralConserved
  /\ NoDustListed
=============================================================================
