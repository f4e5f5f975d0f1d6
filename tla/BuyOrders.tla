----------------------------- MODULE BuyOrders -----------------------------
(***************************************************************************)
(* The buy orders and their factory (buyOrder.sol, buyOrderFactory.sol).   *)
(* A buy order holds tokens and pays them, at a fixed ratio to what is     *)
(* locked in a receipt, to whoever sells a receipt to it.  One action per  *)
(* external function, atomic like the transaction it runs in.              *)
(***************************************************************************)
EXTENDS OrderIndex, FiniteSets, Functions

CONSTANTS
  Users,
  NoUser,         \* owner of an order that has not been created
  Receipts,       \* receipts of the wanted token
  lockedAmount,   \* what is locked in each receipt
  Unit,           \* 10 ** decimals of the receipts
  Deposits,       \* token amounts an order may start with
  Ratios,         \* buy ratios that occur, in Unit
  Fees            \* values tried for the fee

ASSUME BuyOrdersAssumption ==
  /\ NoUser \notin Users
  /\ Users \cap Orders = {}
  /\ IsFiniteSet(Receipts)
  /\ lockedAmount \in [Receipts -> Nat]
  /\ Unit \in Nat \ {0}
  /\ Deposits \subseteq Nat \ {0}
  /\ Ratios \subseteq Nat \ {0}
  /\ Fees \subseteq Nat

VARIABLES
  owner,              \* buyInformation.owner
  isActive,           \* orders whose buyInformation.isActive is set
  buyRatio,           \* buyInformation.buyRatio
  availableAmount,    \* buyInformation.availableAmount
  capturedAmount,     \* buyInformation.capturedAmount
  balance,            \* buy tokens each order holds
  receiptOwner,       \* ownerOf of the receipts
  sellFee,            \* sellFee of the factory
  orders,             \* the factory's index of active orders
  \* history
  deposited,          \* tokens each order was created with
  paid,               \* tokens each order paid to sellers
  fees,               \* tokens each order paid to the fee address
  refunded            \* tokens each owner got back

historyVars == <<deposited, paid, fees, refunded>>
vars == <<owner, isActive, buyRatio, availableAmount, capturedAmount, balance,
          receiptOwner, sellFee, orders, historyVars>>

Created == {b \in Orders : owner[b] # NoUser}

-----------------------------------------------------------------------------
Zero == [b \in Orders |-> 0]

Init ==
  /\ owner = [b \in Orders |-> NoUser]
  /\ isActive = {}
  /\ buyRatio = Zero /\ availableAmount = Zero /\ capturedAmount = Zero
  /\ balance = Zero
  /\ receiptOwner \in [Receipts -> Users]
  /\ sellFee = 50
  /\ orders = EmptyIndex
  /\ deposited = Zero /\ paid = Zero /\ fees = Zero /\ refunded = Zero

createBuyOrder(u, b, amount, ratio) ==
  /\ owner[b] = NoUser
  /\ amount > 0 /\ ratio > 0
  /\ HasRoom(orders)
  /\ owner' = [owner EXCEPT ![b] = u]
  /\ isActive' = isActive \cup {b}
  /\ buyRatio' = [buyRatio EXCEPT ![b] = ratio]
  /\ availableAmount' = [availableAmount EXCEPT ![b] = amount]
  /\ balance' = [balance EXCEPT ![b] = amount]
  /\ deposited' = [deposited EXCEPT ![b] = amount]
  /\ orders' = Enlist(orders, b)
  /\ UNCHANGED <<capturedAmount, receiptOwner, sellFee, paid, fees, refunded>>

(* buyOrderFactory._deleteBuyOrder, called by the order b.                 *)
_deleteBuyOrder(b) == Deletable(orders) /\ orders' = DeleteShared(orders, b)

(* Mutant: the amount is still there after the refund.                     *)
Withdraw_Kept(b) == b \in Orders /\ UNCHANGED availableAmount

Withdraw(b) == availableAmount' = [availableAmount EXCEPT ![b] = 0]

deleteBuyOrder(u, b) ==
  /\ owner[b] = u
  /\ b \in isActive
  /\ isActive' = isActive \ {b}
  /\ Withdraw(b)
  /\ balance' = [balance EXCEPT ![b] = @ - availableAmount[b]]
  /\ refunded' = [refunded EXCEPT ![b] = @ + availableAmount[b]]
  /\ _deleteBuyOrder(b)
  /\ UNCHANGED <<owner, buyRatio, capturedAmount, receiptOwner, sellFee,
                 deposited, paid, fees>>

(* Mutant: the price is rounded up.                                        *)
PriceOf_RoundUp(b, r) ==
  (buyRatio[b] * lockedAmount[r] + (Unit - 1)) \div Unit

PriceOf(b, r) == (buyRatio[b] * lockedAmount[r]) \div Unit

FeeOn(amount) == (amount * sellFee) \div 10000

(* Mutant: an order that is sold out stays active.                         *)
SoldOut_Never(b, amount) == availableAmount[b] < amount

SoldOut(b, amount) == availableAmount[b] = amount

(* u sells receipt r to order b, which keeps the receipt.                  *)
sellNFT(u, b, r) ==
  LET amount == PriceOf(b, r)
      feeAmount == FeeOn(amount)
  IN  /\ b \in isActive
      /\ availableAmount[b] > 0
      /\ receiptOwner[r] = u
      /\ receiptOwner' = [receiptOwner EXCEPT ![r] = b]
      /\ amount <= availableAmount[b]
      /\ availableAmount' = [availableAmount EXCEPT ![b] = @ - amount]
      /\ capturedAmount' = [capturedAmount EXCEPT ![b] = @ + lockedAmount[r]]
      /\ balance' = [balance EXCEPT ![b] = @ - amount]
      /\ paid' = [paid EXCEPT ![b] = @ + (amount - feeAmount)]
      /\ fees' = [fees EXCEPT ![b] = @ + feeAmount]
      /\ IF SoldOut(b, amount)
           THEN isActive' = isActive \ {b} /\ _deleteBuyOrder(b)
           ELSE UNCHANGED <<isActive, orders>>
      /\ UNCHANGED <<owner, buyRatio, sellFee, deposited, refunded>>

ValidFee(f) == f >= 20 /\ f <= 100

changeFee(f) ==
  /\ ValidFee(f)
  /\ sellFee' = f
  /\ UNCHANGED <<owner, isActive, buyRatio, availableAmount, capturedAmount,
                 balance, receiptOwner, orders, historyVars>>

Next ==
  \/ \E u \in Users, b \in Orders, n \in Deposits, q \in Ratios :
       createBuyOrder(u, b, n, q)
  \/ \E u \in Users, b \in Orders : deleteBuyOrder(u, b)
  \/ \E u \in Users, b \in Orders, r \in Receipts : sellNFT(u, b, r)
  \/ \E f \in Fees : changeFee(f)

Spec == Init /\ [][Next]_vars

-----------------------------------------------------------------------------
(* Properties                                                              *)

Bought(b) == {r \in Receipts : receiptOwner[r] = b}

(* The index lists each active order once and nothing else, and the active *)
(* orders are those that can still pay, whichever of its sellers and its   *)
(* owner ends an order.                                                    *)
IndexExact ==
  /\ Exact(orders)
  /\ Listed(orders) = isActive
  /\ isActive = {b \in Orders : availableAmount[b] > 0}

(* What an order says it can pay is what it holds, and all it was created  *)
(* with is held, paid or refunded, through sales at changing fees.         *)
FundsConserved ==
  \A b \in Orders :
    /\ balance[b] = availableAmount[b]
    /\ balance[b] + paid[b] + fees[b] + refunded[b] = deposited[b]

(* Over all its sales a buyer never pays more than the ratio for what it   *)
(* has captured.                                                           *)
NeverOverpays ==
  \A b \in Created :
    (paid[b] + fees[b]) * Unit <= buyRatio[b] * capturedAmount[b]

(* What a buyer pays is, for the receipts its order holds in the end, the  *)
(* ratio for what is locked in them, and its sellers lose less than one    *)
(* token unit each to the rounding.                                        *)
PricePaid ==
  /\ NeverOverpays
  /\ \A b \in Created :
       LET locked == SumFunctionOnSet(lockedAmount, Bought(b))
       IN  /\ capturedAmount[b] = locked
           /\ buyRatio[b] * locked <=
                (paid[b] + fees[b]) * Unit + (Unit - 1) * Cardinality(Bought(b))

(* The factory implements ActiveOrders: an order ends with its refund or   *)
(* with its last sale, in the transaction that takes it off the index, and *)
(* never comes back.                                                       *)
Market == INSTANCE ActiveOrders WITH
  created <- Created,
  ended <- Created \ isActive,
  open <- Listed(orders)

ImplementsActiveOrders == Market!OpenSpec

-----------------------------------------------------------------------------
(* The inductive invariant of the proofs: besides what the runs check,     *)
(* an order that has not been created has bought and paid nothing.         *)
BuyInv ==
  /\ owner \in [Orders -> Users \cup {NoUser}]
  /\ buyRatio \in [Orders -> Nat] /\ availableAmount \in [Orders -> Nat]
  /\ capturedAmount \in [Orders -> Nat] /\ balance \in [Orders -> Nat]
  /\ deposited \in [Orders -> Nat] /\ paid \in [Orders -> Nat]
  /\ fees \in [Orders -> Nat] /\ refunded \in [Orders -> Nat]
  /\ receiptOwner \in [Receipts -> Users \cup Created]
  /\ sellFee \in Nat /\ sellFee <= 100
  /\ orders \in Indexes
  /\ isActive \subseteq Created
  /\ \A b \in Orders \ Created :
       /\ capturedAmount[b] = 0
       /\ paid[b] = 0 /\ fees[b] = 0 /\ refunded[b] = 0
  /\ IndexExact /\ FundsConserved /\ PricePaid
=============================================================================
