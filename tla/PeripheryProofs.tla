-------------------------- MODULE PeripheryProofs --------------------------
(***************************************************************************)
(* Two components beside the loans.                                        *)
(*                                                                         *)
(* The buy orders: for any number of wallets, orders and receipts, the     *)
(* factory lists just the orders that can still pay, every order's tokens  *)
(* are accounted for, and over all its sales an order pays its ratio for   *)
(* what is locked in the receipts it holds, but for the rounding of each   *)
(* price.                                                                  *)
(*                                                                         *)
(* The mix oracle: for any times, reserves and number of trades, a price   *)
(* is available once the pair has been initialized for MIN_T, and is the   *)
(* pool's when nobody trades.                                              *)
(***************************************************************************)
EXTENDS BuyOrders, MixOracle, ProofLemmas

-----------------------------------------------------------------------------
(* Buy orders                                                              *)

(* The invariant, split by what an action disturbs.                        *)
Typed ==
  /\ owner \in [Orders -> Users \cup {NoUser}]
  /\ buyRatio \in [Orders -> Nat] /\ availableAmount \in [Orders -> Nat]
  /\ capturedAmount \in [Orders -> Nat] /\ balance \in [Orders -> Nat]
  /\ deposited \in [Orders -> Nat] /\ paid \in [Orders -> Nat]
  /\ fees \in [Orders -> Nat] /\ refunded \in [Orders -> Nat]
  /\ receiptOwner \in [Receipts -> Users \cup Created]
  /\ sellFee \in Nat /\ sellFee <= 100
  /\ orders \in Indexes
  /\ isActive \subseteq Created

Untouched(b) ==
  capturedAmount[b] = 0 /\ paid[b] = 0 /\ fees[b] = 0 /\ refunded[b] = 0

Funded(b) ==
  /\ balance[b] = availableAmount[b]
  /\ balance[b] + paid[b] + fees[b] + refunded[b] = deposited[b]

(* That the order owes c for n receipts at ratio q and paid p.             *)
Fair(q, c, p, n) == p * Unit <= q * c /\ q * c <= p * Unit + (Unit - 1) * n

Priced(b) ==
  /\ capturedAmount[b] = SumFunctionOnSet(lockedAmount, Bought(b))
  /\ Fair(buyRatio[b], capturedAmount[b], paid[b] + fees[b], Cardinality(Bought(b)))

LEMMA BuyParts ==
  BuyInv <=> /\ Typed /\ IndexExact
             /\ \A b \in Orders \ Created : Untouched(b)
             /\ \A b \in Orders : Funded(b)
             /\ \A b \in Created : Priced(b)
BY DEF BuyInv, Typed, Untouched, FundsConserved, Funded, PricePaid, NeverOverpays,
       Priced, Fair

-----------------------------------------------------------------------------
(* Prices                                                                  *)

(* An order that has bought nothing has paid what it owes.                 *)
LEMMA FairStart == ASSUME NEW q \in Nat PROVE Fair(q, 0, 0, 0)
BY BuyOrdersAssumption DEF Fair

(* A further receipt, at its price rounded down.                           *)
LEMMA FairSale ==
  ASSUME NEW q \in Nat, NEW c \in Nat, NEW p \in Nat, NEW n \in Nat, Fair(q, c, p, n),
         NEW l \in Nat, NEW a \in Nat, a = (q * l) \div Unit
  PROVE  Fair(q, c + l, p + a, n + 1)
<1>. DEFINE x == q * c
            y == q * l
            w == p * Unit
            z == a * Unit
            v == (Unit - 1) * n
<1>1. Unit \in Nat \ {0}
  BY BuyOrdersAssumption
<1>2. x \in Nat /\ y \in Nat /\ w \in Nat /\ z \in Nat /\ v \in Nat
  BY <1>1
<1>3. z <= y /\ y < z + Unit
  <2>. HIDE DEF y
  <2>1. a * Unit <= y /\ y < Unit * a + Unit
    BY <1>1, <1>2, DivNat, DivRest DEF y
  <2>2. Unit * a = a * Unit
    BY <1>1
  <2>. QED
    BY <2>1, <2>2
<1>4. w <= x /\ x <= w + v
  BY DEF Fair
<1>5. q * (c + l) = x + y
  OBVIOUS
<1>6. (p + a) * Unit = w + z
  BY <1>1
<1>7. (Unit - 1) * (n + 1) = v + (Unit - 1)
  BY <1>1
<1>. HIDE DEF x, y, w, z, v
<1>8. w + z <= x + y /\ x + y <= w + z + (v + (Unit - 1))
  BY <1>1, <1>2, <1>3, <1>4
<1>. QED
  BY <1>5, <1>6, <1>7, <1>8 DEF Fair

-----------------------------------------------------------------------------
(* Steps                                                                   *)

LEMMA InitBuy == ASSUME Init PROVE BuyInv
<1>1. Created = {} /\ isActive = {}
  BY DEF Init, Created
<1>2. orders \in Indexes /\ Exact(orders) /\ Listed(orders) = {}
  BY EmptyExact DEF Init
<1>3. \A f : f = Zero => f \in [Orders -> Nat] /\ \A b \in Orders : f[b] = 0
  BY DEF Zero
<1>4. /\ buyRatio \in [Orders -> Nat] /\ availableAmount \in [Orders -> Nat]
      /\ capturedAmount \in [Orders -> Nat] /\ balance \in [Orders -> Nat]
      /\ deposited \in [Orders -> Nat] /\ paid \in [Orders -> Nat]
      /\ fees \in [Orders -> Nat] /\ refunded \in [Orders -> Nat]
  BY <1>3, Zenon DEF Init
<1>5. Typed
  BY <1>1, <1>2, <1>4 DEF Init, Typed
<1>6. ASSUME NEW b \in Orders
      PROVE  Untouched(b) /\ Funded(b) /\ ~(availableAmount[b] > 0)
  <2>1. /\ availableAmount[b] = 0 /\ balance[b] = 0 /\ deposited[b] = 0
        /\ paid[b] = 0 /\ fees[b] = 0 /\ refunded[b] = 0 /\ capturedAmount[b] = 0
    BY <1>3, Zenon DEF Init
  <2>. QED
    BY ONLY <2>1 DEF Untouched, Funded
<1>7. IndexExact
  <2>1. isActive = {b \in Orders : availableAmount[b] > 0}
    BY <1>1, <1>6
  <2>. QED
    BY <1>1, <1>2, <2>1 DEF IndexExact
<1>. QED
  BY <1>1, <1>5, <1>6, <1>7, BuyParts

(* A new order is listed with its deposit; no receipt is its own yet.      *)
LEMMA CreateBuy ==
  ASSUME BuyInv, NEW u \in Users, NEW b \in Orders, NEW n \in Deposits, NEW q \in Ratios,
         createBuyOrder(u, b, n, q)
  PROVE  BuyInv'
<1>0. /\ Typed /\ IndexExact
      /\ \A c \in Orders \ Created : Untouched(c)
      /\ \A c \in Orders : Funded(c)
      /\ \A c \in Created : Priced(c)
  BY BuyParts
<1>1. /\ owner[b] = NoUser /\ HasRoom(orders)
      /\ owner' = [owner EXCEPT ![b] = u]
      /\ isActive' = isActive \cup {b}
      /\ buyRatio' = [buyRatio EXCEPT ![b] = q]
      /\ availableAmount' = [availableAmount EXCEPT ![b] = n]
      /\ balance' = [balance EXCEPT ![b] = n]
      /\ deposited' = [deposited EXCEPT ![b] = n]
      /\ orders' = Enlist(orders, b)
      /\ UNCHANGED <<capturedAmount, receiptOwner, sellFee, paid, fees, refunded>>
  BY DEF createBuyOrder
<1>2. n \in Nat /\ n > 0 /\ q \in Nat /\ u # NoUser
  BY BuyOrdersAssumption
<1>3. b \notin Created /\ Created' = Created \cup {b}
  BY <1>0, <1>1, <1>2 DEF Created, Typed
<1>4. b \notin isActive
  BY <1>0, <1>3 DEF Typed
<1>5. /\ orders' \in Indexes /\ Exact(orders')
      /\ Listed(orders') = Listed(orders) \cup {b}
  BY <1>0, <1>1, <1>4, EnlistExact DEF Typed, IndexExact
<1>6. Typed'
  BY <1>0, <1>1, <1>2, <1>3, <1>5 DEF Typed
<1>7. IndexExact'
  <2>1. \A c \in Orders : availableAmount'[c] = IF c = b THEN n ELSE availableAmount[c]
    BY <1>0, <1>1 DEF Typed
  <2>2. isActive' = {c \in Orders : availableAmount'[c] > 0}
    BY <1>0, <1>1, <1>2, <2>1 DEF IndexExact
  <2>. QED
    BY <1>0, <1>1, <1>5, <2>2 DEF IndexExact
<1>8. Untouched(b)
  BY <1>0, <1>3
<1>9. \A c \in Orders \ Created' : Untouched(c)'
  BY <1>0, <1>1, <1>3 DEF Untouched
<1>10. ASSUME NEW c \in Orders PROVE Funded(c)'
  <2>1. CASE c = b
    BY <1>0, <1>1, <1>2, <1>8, <2>1 DEF Funded, Untouched, Typed
  <2>2. CASE c # b
    BY <1>0, <1>1, <2>2 DEF Funded, Typed
  <2>. QED
    BY <2>1, <2>2
<1>11. ASSUME NEW c \in Created' PROVE Priced(c)'
  <2>1. Bought(c)' = Bought(c)
    BY <1>1 DEF Bought
  <2>2. CASE c = b
    <3>1. Bought(c) = {}
      BY <1>0, <1>3, <2>2, BuyOrdersAssumption DEF Bought, Typed
    <3>2. capturedAmount'[c] = 0 /\ paid'[c] = 0 /\ fees'[c] = 0 /\ buyRatio'[c] = q
      BY <1>0, <1>1, <1>8, <2>2 DEF Untouched, Typed
    <3>3. Cardinality(Bought(c)') = 0 /\ SumFunctionOnSet(lockedAmount, Bought(c)') = 0
      BY <2>1, <3>1, FS_EmptySet, SumEmpty
    <3>. QED
      BY <1>2, <3>2, <3>3, FairStart DEF Priced
  <2>3. CASE c # b
    <3>1. c \in Created /\ c \in Orders
      BY <1>3, <2>3 DEF Created
    <3>2. buyRatio'[c] = buyRatio[c]
      BY <1>0, <1>1, <2>3, <3>1 DEF Typed
    <3>. QED
      BY <1>0, <1>1, <2>1, <3>1, <3>2 DEF Priced
  <2>. QED
    BY <2>2, <2>3
<1>. QED
  BY <1>6, <1>7, <1>9, <1>10, <1>11 DEF BuyInv, Typed, Untouched, FundsConserved, Funded,
     PricePaid, NeverOverpays, Priced, Fair

(* The owner gets back what is left, and the order leaves the list.        *)
LEMMA DeleteBuy ==
  ASSUME BuyInv, NEW u \in Users, NEW b \in Orders, deleteBuyOrder(u, b)
  PROVE  BuyInv'
<1>0. /\ Typed /\ IndexExact
      /\ \A c \in Orders \ Created : Untouched(c)
      /\ \A c \in Orders : Funded(c)
      /\ \A c \in Created : Priced(c)
  BY BuyParts
<1>. DEFINE rest == availableAmount[b]
<1>1. /\ b \in isActive
      /\ isActive' = isActive \ {b}
      /\ availableAmount' = [availableAmount EXCEPT ![b] = 0]
      /\ balance' = [balance EXCEPT ![b] = @ - rest]
      /\ refunded' = [refunded EXCEPT ![b] = @ + rest]
      /\ orders' = DeleteShared(orders, b)
      /\ UNCHANGED <<owner, buyRatio, capturedAmount, receiptOwner, sellFee,
                     deposited, paid, fees>>
  BY DEF deleteBuyOrder, Withdraw, _deleteBuyOrder
<1>2. rest \in Nat /\ balance[b] = rest /\ refunded[b] \in Nat
  BY <1>0 DEF Typed, Funded
<1>3. Created' = Created /\ b \in Created
  BY <1>0, <1>1 DEF Created, Typed
<1>4. /\ orders' \in Indexes /\ Exact(orders')
      /\ Listed(orders') = Listed(orders) \ {b}
  BY <1>0, <1>1, DeleteSharedExact DEF Typed, IndexExact
<1>5. balance' \in [Orders -> Nat] /\ balance'[b] = 0
      /\ refunded' \in [Orders -> Nat] /\ refunded'[b] = refunded[b] + rest
  <2>1. balance[b] - rest = 0 /\ refunded[b] + rest \in Nat
    BY <1>2
  <2>. HIDE DEF rest
  <2>. QED
    BY <1>0, <1>1, <2>1 DEF Typed
<1>. HIDE DEF rest
<1>6. Typed'
  BY <1>0, <1>1, <1>3, <1>4, <1>5 DEF Typed
<1>7. IndexExact'
  <2>1. \A c \in Orders : availableAmount'[c] = IF c = b THEN 0 ELSE availableAmount[c]
    BY <1>0, <1>1 DEF Typed
  <2>2. isActive' = {c \in Orders : availableAmount'[c] > 0}
    BY <1>0, <1>1, <2>1 DEF IndexExact
  <2>. QED
    BY <1>0, <1>1, <1>4, <2>2 DEF IndexExact
<1>8. \A c \in Orders \ Created' : Untouched(c)'
  BY <1>0, <1>1, <1>3 DEF Untouched, Typed
<1>9. ASSUME NEW c \in Orders PROVE Funded(c)'
  <2>1. CASE c = b
    <3>1. availableAmount'[c] = 0 /\ balance[c] = rest
      BY <1>0, <1>1, <1>2, <2>1 DEF Typed
    <3>. QED
      BY <1>0, <1>1, <1>2, <1>5, <2>1, <3>1 DEF Funded, Typed
  <2>2. CASE c # b
    BY <1>0, <1>1, <2>2 DEF Funded, Typed
  <2>. QED
    BY <2>1, <2>2
<1>10. \A c \in Created' : Priced(c)'
  BY <1>0, <1>1, <1>3 DEF Priced, Bought
<1>. QED
  BY <1>6, <1>7, <1>8, <1>9, <1>10 DEF BuyInv, Typed, Untouched, FundsConserved, Funded,
     PricePaid, NeverOverpays, Priced, Fair

(* The order pays the price of one more receipt, in part as a fee, and     *)
(* ends when it has nothing left.                                          *)
LEMMA SellBuy ==
  ASSUME BuyInv, NEW u \in Users, NEW b \in Orders, NEW r \in Receipts, sellNFT(u, b, r)
  PROVE  BuyInv'
<1>0. /\ Typed /\ IndexExact
      /\ \A c \in Orders \ Created : Untouched(c)
      /\ \A c \in Orders : Funded(c)
      /\ \A c \in Created : Priced(c)
  BY BuyParts
<1>. DEFINE amount == PriceOf(b, r)
            fee == FeeOn(amount)
            l == lockedAmount[r]
            left == availableAmount[b]
<1>1. /\ b \in isActive /\ receiptOwner[r] = u /\ amount <= left
      /\ receiptOwner' = [receiptOwner EXCEPT ![r] = b]
      /\ availableAmount' = [availableAmount EXCEPT ![b] = @ - amount]
      /\ capturedAmount' = [capturedAmount EXCEPT ![b] = @ + l]
      /\ balance' = [balance EXCEPT ![b] = @ - amount]
      /\ paid' = [paid EXCEPT ![b] = @ + (amount - fee)]
      /\ fees' = [fees EXCEPT ![b] = @ + fee]
      /\ IF left = amount
           THEN isActive' = isActive \ {b} /\ orders' = DeleteShared(orders, b)
           ELSE UNCHANGED <<isActive, orders>>
      /\ UNCHANGED <<owner, buyRatio, sellFee, deposited, refunded>>
  BY DEF sellNFT, SoldOut, _deleteBuyOrder
<1>2. /\ l \in Nat /\ buyRatio[b] \in Nat /\ left \in Nat
      /\ balance[b] = left /\ paid[b] \in Nat /\ fees[b] \in Nat
      /\ capturedAmount[b] \in Nat
  BY <1>0, BuyOrdersAssumption DEF Typed, Funded
<1>3. amount \in Nat /\ amount = (buyRatio[b] * l) \div Unit
  <2>1. amount = (buyRatio[b] * l) \div Unit
    BY DEF PriceOf
  <2>2. buyRatio[b] * l \in Nat
    BY <1>2
  <2>. HIDE DEF amount, l
  <2>. QED
    BY <2>1, <2>2, DivNat, BuyOrdersAssumption
<1>4. fee \in Nat /\ fee <= amount
  <2>1. fee = (amount * sellFee) \div 10000
    BY DEF FeeOn
  <2>2. sellFee \in Nat /\ sellFee <= 10000
    BY <1>0 DEF Typed
  <2>. HIDE DEF fee, amount
  <2>. QED
    BY <1>3, <2>1, <2>2, FeeBound
<1>. HIDE DEF amount, fee, l, left
<1>5. Created' = Created /\ b \in Created /\ isActive' \subseteq isActive
  BY <1>0, <1>1 DEF Created, Typed
<1>6. /\ orders' \in Indexes /\ Exact(orders')
      /\ Listed(orders') = isActive'
  <2>1. CASE left = amount
    BY <1>0, <1>1, <2>1, DeleteSharedExact DEF Typed, IndexExact
  <2>2. CASE left # amount
    BY <1>0, <1>1, <2>2 DEF Typed, IndexExact
  <2>. QED
    BY <2>1, <2>2
<1>7. /\ availableAmount' \in [Orders -> Nat] /\ availableAmount'[b] = left - amount
      /\ balance' \in [Orders -> Nat] /\ balance'[b] = left - amount
  <2>1. left - amount \in Nat /\ availableAmount[b] = left
    BY <1>1, <1>2, <1>3 DEF left
  <2>. QED
    BY <1>0, <1>1, <1>2, <2>1 DEF Typed
<1>8. /\ capturedAmount' \in [Orders -> Nat] /\ capturedAmount'[b] = capturedAmount[b] + l
      /\ paid' \in [Orders -> Nat] /\ paid'[b] = paid[b] + (amount - fee)
      /\ fees' \in [Orders -> Nat] /\ fees'[b] = fees[b] + fee
  <2>1. /\ capturedAmount[b] + l \in Nat /\ paid[b] + (amount - fee) \in Nat
        /\ fees[b] + fee \in Nat
    BY <1>2, <1>3, <1>4
  <2>. QED
    BY <1>0, <1>1, <2>1 DEF Typed
<1>9. \A c \in Orders \ {b} : /\ availableAmount'[c] = availableAmount[c]
                              /\ balance'[c] = balance[c]
                              /\ capturedAmount'[c] = capturedAmount[c]
                              /\ paid'[c] = paid[c] /\ fees'[c] = fees[c]
  BY <1>0, <1>1 DEF Typed
<1>10. receiptOwner' \in [Receipts -> Users \cup Created']
  BY <1>0, <1>1, <1>5 DEF Typed
<1>11. Typed'
  BY <1>0, <1>1, <1>5, <1>6, <1>7, <1>8, <1>10 DEF Typed
<1>12. IndexExact'
  <2>1. b \in isActive' <=> availableAmount'[b] > 0
    BY <1>1, <1>2, <1>3, <1>7
  <2>2. \A c \in Orders \ {b} : c \in isActive' <=> availableAmount'[c] > 0
    BY <1>0, <1>1, <1>9 DEF IndexExact
  <2>3. isActive' \subseteq Orders
    BY <1>0, <1>5 DEF Typed, Created
  <2>4. isActive' = {c \in Orders : availableAmount'[c] > 0}
    BY <2>1, <2>2, <2>3
  <2>. QED
    BY <1>6, <2>4 DEF IndexExact
<1>13. \A c \in Orders \ Created' : Untouched(c)'
  BY <1>0, <1>1, <1>5, <1>9 DEF Untouched
<1>14. ASSUME NEW c \in Orders PROVE Funded(c)'
  <2>1. CASE c = b
    <3>1. left + paid[b] + fees[b] + refunded[b] = deposited[b] /\ refunded[b] \in Nat
      BY <1>0, <1>2 DEF Funded, Typed
    <3>2. refunded'[b] = refunded[b] /\ deposited'[b] = deposited[b]
      BY <1>1
    <3>. QED
      BY <1>2, <1>3, <1>4, <1>7, <1>8, <2>1, <3>1, <3>2 DEF Funded
  <2>2. CASE c # b
    BY <1>0, <1>1, <1>9, <2>2 DEF Funded
  <2>. QED
    BY <2>1, <2>2
<1>15. ASSUME NEW c \in Created' PROVE Priced(c)'
  <2>0. c \in Created /\ c \in Orders /\ Priced(c)
    BY <1>0, <1>5 DEF Created
  <2>1. CASE c = b
    <3>. DEFINE B == Bought(b)
                p == paid[b] + fees[b]
    <3>1. r \notin B /\ Bought(b)' = B \cup {r} /\ B \subseteq Receipts
      BY <1>0, <1>1, BuyOrdersAssumption DEF Bought, Typed
    <3>2. IsFiniteSet(B)
      BY <3>1, FS_Subset, BuyOrdersAssumption
    <3>. HIDE DEF B
    <3>3. Cardinality(Bought(b)') = Cardinality(B) + 1 /\ Cardinality(B) \in Nat
      BY <3>1, <3>2, FS_AddElement, FS_CardinalityType
    <3>4. \A x \in B \cup {r} : lockedAmount[x] \in Int
      BY <3>1, BuyOrdersAssumption
    <3>5. SumFunctionOnSet(lockedAmount, Bought(b)')
            = l + SumFunctionOnSet(lockedAmount, B)
      BY <3>1, <3>2, <3>4, SumAdd DEF l
    <3>6. capturedAmount[b] = SumFunctionOnSet(lockedAmount, B)
      BY <2>0, <2>1 DEF Priced, B
    <3>7. Fair(buyRatio[b], capturedAmount[b], p, Cardinality(B))
      BY <2>0, <2>1 DEF Priced, B
    <3>8. p \in Nat /\ paid'[b] + fees'[b] = p + amount
      BY <1>2, <1>3, <1>4, <1>8
    <3>. HIDE DEF p
    <3>9. Fair(buyRatio[b], capturedAmount[b] + l, p + amount, Cardinality(B) + 1)
      BY <1>2, <1>3, <3>3, <3>7, <3>8, FairSale
    <3>10. capturedAmount'[b] = SumFunctionOnSet(lockedAmount, Bought(b)')
      BY <1>2, <1>8, <3>5, <3>6
    <3>11. Fair(buyRatio'[b], capturedAmount'[b], paid'[b] + fees'[b],
                Cardinality(Bought(b)'))
      BY <1>1, <1>8, <3>3, <3>8, <3>9
    <3>. QED
      BY <2>1, <3>10, <3>11 DEF Priced, Fair
  <2>2. CASE c # b
    <3>1. Bought(c)' = Bought(c)
      BY <1>0, <1>1, <2>0, <2>2, BuyOrdersAssumption DEF Bought, Typed
    <3>. QED
      BY <1>1, <1>9, <2>0, <2>2, <3>1 DEF Priced, Fair
  <2>. QED
    BY <2>1, <2>2
<1>. QED
  BY <1>11, <1>12, <1>13, <1>14, <1>15 DEF BuyInv, Typed, Untouched, FundsConserved, Funded,
     PricePaid, NeverOverpays, Priced, Fair

LEMMA StepBuy == BuyInv /\ [Next]_vars => BuyInv'
<1>. SUFFICES ASSUME BuyInv, [Next]_vars PROVE BuyInv'
  OBVIOUS
<1>1. CASE \E u \in Users, b \in Orders, n \in Deposits, q \in Ratios :
             createBuyOrder(u, b, n, q)
  BY <1>1, CreateBuy
<1>2. CASE \E u \in Users, b \in Orders : deleteBuyOrder(u, b)
  BY <1>2, DeleteBuy
<1>3. CASE \E u \in Users, b \in Orders, r \in Receipts : sellNFT(u, b, r)
  BY <1>3, SellBuy
<1>4. CASE UNCHANGED vars \/ \E f \in Fees : changeFee(f)
  <2>1. /\ UNCHANGED <<owner, isActive, buyRatio, availableAmount, capturedAmount,
                       balance, receiptOwner, orders, historyVars>>
        /\ sellFee' \in Nat /\ sellFee' <= 100
    BY <1>4, BuyOrdersAssumption DEF BuyInv, changeFee, ValidFee, vars
  <2>. QED
    BY <2>1 DEF BuyInv, historyVars, Created, IndexExact, FundsConserved, PricePaid,
                NeverOverpays, Bought
<1>. QED
  BY <1>1, <1>2, <1>3, <1>4 DEF Next

LEMMA BuyInvariant == Spec => []BuyInv
<1>1. Init => BuyInv
  BY InitBuy
<1>. QED
  BY <1>1, StepBuy, PTL DEF Spec

-----------------------------------------------------------------------------
(* IndexExact: the factory lists each active order once and nothing else,  *)
(* and the active orders are those that can still pay.                     *)
THEOREM BuyIndexExact == Spec => []IndexExact
<1>1. BuyInv => IndexExact
  BY DEF BuyInv
<1>. QED
  BY BuyInvariant, <1>1, PTL

(* FundsConserved: an order holds what it says it can pay, and all it was  *)
(* created with is held, paid or refunded.                                 *)
THEOREM BuyFundsConserved == Spec => []FundsConserved
<1>1. BuyInv => FundsConserved
  BY DEF BuyInv
<1>. QED
  BY BuyInvariant, <1>1, PTL

(* PricePaid: an order pays its ratio for what is locked in the receipts   *)
(* it holds, and its sellers lose less than one unit each.                 *)
THEOREM RatioAlwaysPaid == Spec => []PricePaid
<1>1. BuyInv => PricePaid
  BY DEF BuyInv
<1>. QED
  BY BuyInvariant, <1>1, PTL

(* A transaction that touches the index creates an order, or ends and      *)
(* delists one.                                                            *)
LEMMA MarketStep ==
  ASSUME BuyInv, BuyInv', [Next]_vars
  PROVE  [Market!OpenNext]_(Market!activeVars)
<1>1. /\ Listed(orders) = isActive /\ Listed(orders)' = isActive'
      /\ isActive \subseteq Created /\ isActive' \subseteq Created'
      /\ owner \in [Orders -> Users \cup {NoUser}]
  BY DEF BuyInv, IndexExact
<1>2. ASSUME NEW b \in Orders, owner' = owner, b \in isActive, isActive' = isActive \ {b}
      PROVE  Market!Finish(b)
  BY <1>1, <1>2 DEF Market!Finish, Created
<1>3. ASSUME owner' = owner, isActive' = isActive
      PROVE  UNCHANGED Market!activeVars
  BY <1>1, <1>3 DEF Market!activeVars, Created
<1>4. ASSUME NEW u \in Users, NEW b \in Orders, NEW n \in Deposits, NEW q \in Ratios,
             createBuyOrder(u, b, n, q)
      PROVE  Market!Open(b)
  <2>1. /\ owner[b] = NoUser /\ owner' = [owner EXCEPT ![b] = u]
        /\ isActive' = isActive \cup {b}
    BY <1>4 DEF createBuyOrder
  <2>2. b \notin Created /\ Created' = Created \cup {b}
    BY <1>1, <2>1, BuyOrdersAssumption DEF Created
  <2>. QED
    BY <1>1, <2>1, <2>2 DEF Market!Open
<1>5. ASSUME NEW u \in Users, NEW b \in Orders, deleteBuyOrder(u, b)
      PROVE  Market!Finish(b)
  BY <1>2, <1>5 DEF deleteBuyOrder
<1>6. ASSUME NEW u \in Users, NEW b \in Orders, NEW r \in Receipts, sellNFT(u, b, r)
      PROVE  Market!Finish(b) \/ UNCHANGED Market!activeVars
  BY <1>2, <1>3, <1>6 DEF sellNFT
<1>7. CASE (\E f \in Fees : changeFee(f)) \/ UNCHANGED vars
  BY <1>3, <1>7 DEF changeFee, vars
<1>. QED
  BY <1>4, <1>5, <1>6, <1>7 DEF Next, Market!OpenNext

(* ImplementsActiveOrders: an order is listed from its creation, and       *)
(* leaves the list once, with its refund or its last sale.                 *)
THEOREM BuyIndexImplementsActiveOrders == Spec => ImplementsActiveOrders
<1>1. Init => Market!OpenInit
  <2>. SUFFICES ASSUME Init PROVE Market!OpenInit
    OBVIOUS
  <2>1. Created = {} /\ isActive = {}
    BY DEF Init, Created
  <2>2. Listed(orders) = isActive
    BY InitBuy DEF BuyInv, IndexExact
  <2>. QED
    BY <2>1, <2>2 DEF Market!OpenInit
<1>2. BuyInv /\ BuyInv' /\ [Next]_vars => [Market!OpenNext]_(Market!activeVars)
  BY MarketStep
<1>. QED
  BY <1>1, <1>2, BuyInvariant, PTL DEF Spec, ImplementsActiveOrders, Market!OpenSpec

-----------------------------------------------------------------------------
(* The mix oracle                                                          *)

LEMMA MixConstants ==
  ASSUME OracleInv
  PROVE  /\ MIN_T \in Nat /\ MIN_T > 0 /\ Q112 \in Nat /\ Q112 > 0 /\ Times \subseteq Nat
         /\ Reserves \subseteq UInt112 \X UInt112 /\ now \in Nat
         /\ UInt112 \subseteq Nat \ {0}
BY MixOracleAssumption DEF OracleInv, UInt112

(* The pool's price and its cumulative price are natural numbers.          *)
LEMMA MixCurrent ==
  ASSUME OracleInv
  PROVE  /\ PriceLatest \in Nat
         /\ now - blockTimestampLast \in Nat
         /\ getPriceCumulativeCurrent \in Nat
<1>. DEFINE price == PriceLatest
            time == now - blockTimestampLast
<1>1. /\ reserve0 \in Nat \ {0} /\ reserve1 \in Nat \ {0} /\ Q112 \in Nat
      /\ reserve0CumulativeLast \in Nat /\ time \in Nat
  BY MixConstants DEF OracleInv
<1>2. price \in Nat
  <2>. DEFINE x == reserve1 * Q112
  <2>1. x \in Nat
    BY <1>1
  <2>. HIDE DEF x
  <2>2. x \div reserve0 \in Nat
    BY <1>1, <2>1, DivNat
  <2>. QED
    BY <2>2 DEF PriceLatest, x
<1>. HIDE DEF price, time
<1>3. reserve0CumulativeLast + price * time \in Nat
  BY <1>1, <1>2
<1>. QED
  BY <1>1, <1>2, <1>3 DEF getPriceCumulativeCurrent, price, time

(* A price of the pool fits in the 224 bits of an answer.                  *)
LEMMA PriceFits ==
  ASSUME OracleInv
  PROVE  Q112 * Q112 \in Nat /\ PriceLatest < Q112 * Q112
<1>. DEFINE x == reserve1 * Q112
            limit == Q112 * Q112
<1>1. /\ reserve0 \in Nat \ {0} /\ reserve1 \in Nat /\ Q112 \in Nat
      /\ reserve1 + 1 <= Q112 /\ Q112 > 0
  BY MixConstants DEF OracleInv, UInt112
<1>2. x \in Nat /\ limit \in Nat /\ x < limit
  <2>1. Q112 * (reserve1 + 1) <= limit
    BY <1>1, MulMonotone
  <2>2. Q112 * (reserve1 + 1) = x + Q112 /\ x \in Nat /\ limit \in Nat
    BY <1>1
  <2>. HIDE DEF x, limit
  <2>. QED
    BY <1>1, <2>1, <2>2
<1>. HIDE DEF x, limit
<1>3. x \div reserve0 <= x /\ x \div reserve0 \in Nat
  <2>. DEFINE q == x \div reserve0
  <2>1. q \in Nat /\ q * reserve0 <= x
    BY <1>1, <1>2, DivNat
  <2>. HIDE DEF q
  <2>2. q * 1 <= q * reserve0
    BY <1>1, <2>1, MulMonotone, 1 \in Nat
  <2>. QED
    BY <1>1, <1>2, <2>1, <2>2 DEF q
<1>. QED
  BY <1>2, <1>3 DEF PriceLatest, x, limit

LEMMA InitMix ==
  ASSUME OracleInit PROVE OracleInv
<1>1. /\ reserve0 \in UInt112 /\ reserve1 \in UInt112
      /\ reserve0 \in Nat \ {0} /\ reserve1 \in Nat \ {0}
  BY MixOracleAssumption DEF OracleInit, UInt112
<1>2. deployedAt \in Times /\ deployedAt \in Nat
  BY MixOracleAssumption
<1>3. /\ now = deployedAt /\ blockTimestampLast = deployedAt /\ initializedAt = deployedAt
      /\ reserve0CumulativeLast = 0 /\ latest \in PairSlots
      /\ priceCumulative = [s \in PairSlots |-> 0]
      /\ lastUpdate = [s \in PairSlots |-> deployedAt]
      /\ quiet = [s \in PairSlots |-> TRUE]
  BY DEF OracleInit, PairSlots
<1>4. Other(latest) \in PairSlots
  BY DEF Other, PairSlots
<1>5. PriceLatest \in Nat
  <2>. DEFINE x == reserve1 * Q112
  <2>1. x \in Nat
    BY <1>1, MixOracleAssumption
  <2>. HIDE DEF x
  <2>2. x \div reserve0 \in Nat
    BY <1>1, <2>1, DivNat
  <2>. QED
    BY <2>2 DEF PriceLatest, x
<1>6. ASSUME NEW s \in PairSlots
      PROVE  /\ lastUpdate[s] <= now /\ blockTimestampLast <= lastUpdate[s]
             /\ priceCumulative[s] = reserve0CumulativeLast
                  + PriceLatest * (lastUpdate[s] - blockTimestampLast)
  <2>. DEFINE price == PriceLatest
  <2>1. price * (deployedAt - deployedAt) = 0
    <3>. HIDE DEF price
    <3>. QED
      BY <1>2, <1>5 DEF price
  <2>2. lastUpdate[s] = deployedAt /\ priceCumulative[s] = 0
    BY <1>3
  <2>. HIDE DEF price
  <2>3. 0 = 0 + price * (deployedAt - deployedAt)
    BY <2>1
  <2>. QED
    BY <1>2, <1>3, <2>2, <2>3 DEF price
<1>7. /\ priceCumulative \in [PairSlots -> Nat] /\ quiet \in [PairSlots -> BOOLEAN]
      /\ lastUpdate \in [PairSlots -> Nat]
  BY <1>2, <1>3
<1>. QED
  BY <1>1, <1>2, <1>3, <1>4, <1>6, <1>7 DEF OracleInv

(* After a trade no slot is quiet.                                         *)
LEMMA TradeMix ==
  ASSUME OracleInv, NEW r \in Reserves, Trade(r) PROVE OracleInv'
<1>1. /\ reserve0CumulativeLast' =
           reserve0CumulativeLast + reserve0 * (now - blockTimestampLast)
      /\ reserve0' = r[1] /\ reserve1' = r[2] /\ blockTimestampLast' = now
      /\ quiet' = [s \in PairSlots |-> FALSE]
      /\ UNCHANGED <<now, priceCumulative, lastUpdate, latest, initializedAt>>
  BY DEF Trade
<1>2. reserve0CumulativeLast' \in Nat
  <2>. DEFINE time == now - blockTimestampLast
  <2>1. time \in Nat /\ reserve0 \in Nat /\ reserve0CumulativeLast \in Nat
    BY MixCurrent, MixConstants DEF OracleInv
  <2>. HIDE DEF time
  <2>2. reserve0CumulativeLast + reserve0 * time \in Nat
    BY <2>1
  <2>. QED
    BY <1>1, <2>2 DEF time
<1>3. reserve0' \in UInt112 /\ reserve1' \in UInt112 /\ now \in Nat /\ now <= now
  BY <1>1, MixConstants
<1>4. quiet' \in [PairSlots -> BOOLEAN] /\ \A s \in PairSlots : ~quiet'[s]
  BY <1>1
<1>. QED
  BY <1>1, <1>2, <1>3, <1>4 DEF OracleInv

(* A slot that is written lies on the line; the latest slot is MIN_T old   *)
(* when it becomes the other one.                                          *)
LEMMA RenewMix ==
  ASSUME OracleInv, RenewSlots,
         UNCHANGED <<now, reserve0, reserve1, reserve0CumulativeLast, blockTimestampLast,
                     initializedAt>>
  PROVE  OracleInv'
<1>1. CASE UNCHANGED <<priceCumulative, lastUpdate, latest, quiet>>
  BY <1>1 DEF OracleInv, PriceLatest
<1>2. CASE Renewable
  <2>. DEFINE s == Other(latest)
              current == getPriceCumulativeCurrent
  <2>1. /\ priceCumulative' = [priceCumulative EXCEPT ![s] = current]
        /\ lastUpdate' = [lastUpdate EXCEPT ![s] = now]
        /\ latest' = s
        /\ quiet' = [quiet EXCEPT ![s] = TRUE]
    BY <1>2 DEF RenewSlots
  <2>2. s \in PairSlots /\ s # latest /\ Other(s) = latest /\ latest \in PairSlots
    BY DEF OracleInv, Other, PairSlots
  <2>3. current \in Nat /\ now \in Nat /\ blockTimestampLast <= now
    BY MixCurrent, MixConstants DEF OracleInv
  <2>4. current = reserve0CumulativeLast + PriceLatest * (now - blockTimestampLast)
    BY DEF getPriceCumulativeCurrent
  <2>5. lastUpdate[latest] + MIN_T <= now
    BY <1>2, <2>3, MixConstants DEF Renewable, OracleInv
  <2>. HIDE DEF s, current
  <2>6. /\ priceCumulative' \in [PairSlots -> Nat] /\ quiet' \in [PairSlots -> BOOLEAN]
        /\ lastUpdate' \in [PairSlots -> Nat]
    BY <2>1, <2>2, <2>3 DEF OracleInv
  <2>7. lastUpdate'[latest] = lastUpdate[latest] /\ lastUpdate'[s] = now
        /\ priceCumulative'[s] = current
    BY <2>1, <2>2 DEF OracleInv
  <2>8. lastUpdate'[Other(latest')] + MIN_T <= lastUpdate'[latest']
    BY <2>1, <2>2, <2>5, <2>7
  <2>9. ASSUME NEW t \in PairSlots
        PROVE  /\ lastUpdate'[t] <= now
               /\ quiet'[t] =>
                    /\ blockTimestampLast <= lastUpdate'[t]
                    /\ priceCumulative'[t] = reserve0CumulativeLast
                         + PriceLatest * (lastUpdate'[t] - blockTimestampLast)
    <3>1. CASE t = s
      BY <2>3, <2>4, <2>7, <3>1
    <3>2. CASE t # s
      <4>1. /\ lastUpdate'[t] = lastUpdate[t] /\ priceCumulative'[t] = priceCumulative[t]
            /\ quiet'[t] = quiet[t]
        BY <2>1, <3>2 DEF OracleInv
      <4>. QED
        BY <4>1 DEF OracleInv
    <3>. QED
      BY <3>1, <3>2
  <2>10. PriceLatest' = PriceLatest
    BY DEF PriceLatest
  <2>. QED
    BY <2>1, <2>2, <2>6, <2>8, <2>9, <2>10 DEF OracleInv
<1>. QED
  BY <1>1, <1>2 DEF RenewSlots, slotVars

(* A new TarotPriceOracle starts with both slots on the line.              *)
LEMMA AttachMix ==
  ASSUME OracleInv, NEW u, setAttachedTarotPriceOracle(u) PROVE OracleInv'
<1>. DEFINE current == getPriceCumulativeCurrent
<1>1. /\ priceCumulative' = [s \in PairSlots |-> current]
      /\ lastUpdate' = [s \in PairSlots |-> now]
      /\ latest' = "A" /\ initializedAt' = now
      /\ quiet' = [s \in PairSlots |-> TRUE]
      /\ UNCHANGED <<now, reserve0, reserve1, reserve0CumulativeLast, blockTimestampLast>>
  BY DEF setAttachedTarotPriceOracle, poolVars
<1>2. current \in Nat /\ now \in Nat /\ blockTimestampLast <= now /\ now <= now
  BY MixCurrent, MixConstants DEF OracleInv
<1>3. current = reserve0CumulativeLast + PriceLatest * (now - blockTimestampLast)
  BY DEF getPriceCumulativeCurrent
<1>4. PriceLatest' = PriceLatest
  BY <1>1 DEF PriceLatest
<1>5. latest' \in PairSlots /\ Other(latest') \in PairSlots
  BY <1>1 DEF PairSlots, Other
<1>. HIDE DEF current
<1>6. /\ priceCumulative' \in [PairSlots -> Nat] /\ quiet' \in [PairSlots -> BOOLEAN]
      /\ lastUpdate' \in [PairSlots -> Nat]
      /\ lastUpdate'[Other(latest')] = now
  BY <1>1, <1>2, <1>5
<1>7. ASSUME NEW t \in PairSlots
      PROVE  /\ lastUpdate'[t] <= now /\ blockTimestampLast <= lastUpdate'[t]
             /\ priceCumulative'[t] = reserve0CumulativeLast
                  + PriceLatest * (lastUpdate'[t] - blockTimestampLast)
  BY <1>1, <1>2, <1>3
<1>. QED
  BY <1>1, <1>2, <1>4, <1>5, <1>6, <1>7 DEF OracleInv

LEMMA TickMix == ASSUME OracleInv, Tick PROVE OracleInv'
<1>1. /\ now' \in Times /\ now' > now
      /\ UNCHANGED <<reserve0, reserve1, reserve0CumulativeLast, blockTimestampLast,
                     priceCumulative, lastUpdate, latest, quiet, initializedAt>>
  BY DEF Tick, poolVars, slotVars
<1>2. now' \in Nat /\ now \in Nat
  BY <1>1, MixConstants
<1>3. /\ blockTimestampLast <= now' /\ initializedAt <= now'
      /\ \A s \in PairSlots : lastUpdate[s] <= now'
  BY <1>1, <1>2 DEF OracleInv
<1>. QED
  BY <1>1, <1>3 DEF OracleInv, PriceLatest

LEMMA StepMix == OracleInv /\ [OracleNext]_oracleVars => OracleInv'
<1>. SUFFICES ASSUME OracleInv, [OracleNext]_oracleVars PROVE OracleInv'
  OBVIOUS
<1>1. CASE \E r \in Reserves : Trade(r)
  BY <1>1, TradeMix
<1>2. CASE getResult \/ getThePrice
  BY <1>2, RenewMix DEF getResult, getThePrice, poolVars
<1>3. CASE \E u \in Callers : setAttachedTarotPriceOracle(u)
  BY <1>3, AttachMix
<1>4. CASE Tick
  BY <1>4, TickMix
<1>5. CASE \/ \E u, manager \in Callers, status \in BOOLEAN : setManager(u, manager, status)
           \/ \E u, v \in Callers : changeMultisig(u, v)
           \/ \E u \in Callers : pauseContract(u) \/ reactivateContract(u)
           \/ \E u \in Callers : pauseStatusPriceId(u) \/ reactivateStatusPriceId(u)
           \/ MovePyth
           \/ UNCHANGED oracleVars
  <2>1. UNCHANGED <<now, reserve0, reserve1, reserve0CumulativeLast, blockTimestampLast,
                    priceCumulative, lastUpdate, latest, quiet, initializedAt>>
    BY <1>5 DEF setManager, changeMultisig, pauseContract,
         reactivateContract, pauseStatusPriceId, reactivateStatusPriceId,
         MovePyth, oracleVars, poolVars, slotVars
  <2>. QED
    BY <2>1 DEF OracleInv, PriceLatest
<1>. QED
  BY <1>1, <1>2, <1>3, <1>4, <1>5 DEF OracleNext

LEMMA OracleInvariant == OracleSpec => []OracleInv
<1>1. OracleInit => OracleInv
  BY InitMix
<1>. QED
  BY <1>1, StepMix, PTL DEF OracleSpec

(* Of the slots, the one that is read is old enough once the pair is.      *)
LEMMA MixElapsed ==
  ASSUME OracleInv, now >= initializedAt + MIN_T
  PROVE  /\ Reference \in PairSlots
         /\ Elapsed \in Nat /\ Elapsed >= MIN_T
<1>1. latest \in PairSlots /\ Other(latest) \in PairSlots
  BY DEF OracleInv, Other, PairSlots
<1>2. /\ now \in Nat /\ MIN_T \in Nat /\ initializedAt \in Nat
      /\ lastUpdate[latest] \in Nat /\ lastUpdate[Other(latest)] \in Nat
      /\ lastUpdate[latest] <= now
  BY <1>1, MixConstants DEF OracleInv
<1>3. CASE Renewable
  BY <1>1, <1>2, <1>3 DEF Renewable, Reference, Elapsed
<1>4. CASE ~Renewable
  <2>1. Reference = Other(latest)
    BY <1>4 DEF Reference
  <2>2. \/ lastUpdate[Other(latest)] = initializedAt
        \/ lastUpdate[Other(latest)] + MIN_T <= lastUpdate[latest]
    BY DEF OracleInv
  <2>3. now - lastUpdate[Other(latest)] \in Nat
        /\ now - lastUpdate[Other(latest)] >= MIN_T
    BY <1>2, <2>2
  <2>. QED
    BY <1>1, <2>1, <2>3 DEF Elapsed
<1>. QED
  BY <1>3, <1>4

(* NotReadyOnlyAtStart: a pair that has been initialized for MIN_T is      *)
(* always ready, however often and whenever the slots are renewed.         *)
THEOREM OracleStaysReady == OracleSpec => []NotReadyOnlyAtStart
<1>1. OracleInv => NotReadyOnlyAtStart
  BY MixElapsed DEF NotReadyOnlyAtStart
<1>. QED
  BY OracleInvariant, <1>1, PTL

(* SpotWhenQuiet: when nobody has traded since the slot that is read was   *)
(* written, the call is answered with the price of the pool.               *)
THEOREM QuietPriceIsSpot == OracleSpec => []SpotWhenQuiet
<1>1. ASSUME OracleInv, initialized, now >= initializedAt + MIN_T, quiet[Reference]
      PROVE  Answers /\ TwapPrice = PriceLatest
  <2>. DEFINE s == Reference
              price == PriceLatest
              before == lastUpdate[s] - blockTimestampLast
              e == Elapsed
  <2>1. s \in PairSlots /\ e \in Nat /\ e >= MIN_T /\ MIN_T > 0 /\ MIN_T \in Nat
    BY <1>1, MixElapsed, MixConstants
  <2>2. /\ blockTimestampLast <= lastUpdate[s] /\ blockTimestampLast \in Nat
        /\ lastUpdate[s] \in Nat /\ reserve0CumulativeLast \in Nat /\ now \in Nat
        /\ priceCumulative[s] = reserve0CumulativeLast + price * before
    BY <1>1, <2>1, MixConstants DEF OracleInv
  <2>3. price \in Nat /\ before \in Nat /\ now - blockTimestampLast = before + e
    <3>1. price \in Nat
      BY <1>1, MixCurrent
    <3>2. e = now - lastUpdate[s]
      BY DEF Elapsed
    <3>. HIDE DEF s, e, price
    <3>. QED
      BY <2>2, <3>1, <3>2
  <2>4. getPriceCumulativeCurrent = reserve0CumulativeLast + price * (before + e)
    BY <2>3 DEF getPriceCumulativeCurrent
  <2>. HIDE DEF price, before, e, s
  <2>. DEFINE x == price * before
              y == price * e
  <2>5. price * (before + e) = x + y /\ x \in Nat /\ y \in Nat
    BY <2>1, <2>3
  <2>6. (price * e) \div e = price
    BY <2>1, <2>3, DivOfProduct
  <2>. HIDE DEF x, y
  <2>7. /\ getPriceCumulativeCurrent >= priceCumulative[s]
        /\ getPriceCumulativeCurrent - priceCumulative[s] = y
    BY <2>2, <2>4, <2>5 DEF x
  <2>8. Answers
    BY <1>1, <2>1, <2>7 DEF Answers, s, e
  <2>9. TwapPrice = (y \div e) % (Q112 * Q112)
    BY <2>7 DEF TwapPrice, s, e
  <2>10. price % (Q112 * Q112) = price
    <3>. DEFINE limit == Q112 * Q112
    <3>1. price < limit /\ limit \in Nat
      BY <1>1, PriceFits DEF price
    <3>. HIDE DEF limit
    <3>2. price % limit = price
      BY <2>3, <3>1
    <3>. QED
      BY <3>2 DEF limit
  <2>. QED
    BY <2>6, <2>8, <2>9, <2>10 DEF price, y
<1>2. OracleInv => SpotWhenQuiet
  BY <1>1 DEF SpotWhenQuiet
<1>. QED
  BY OracleInvariant, <1>2, PTL
=============================================================================
