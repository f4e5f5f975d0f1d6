---------------------------- MODULE LendingProofs ----------------------------
(***************************************************************************)
(* The lend orders and the matches that take from them.                    *)
(*                                                                         *)
(* Of LendOffers, for any number of orders, owners, amounts and            *)
(* timestamps: the flags and the funds of the lend orders, the index of    *)
(* the lend factory, and the cooldown of the terms.                        *)
(*                                                                         *)
(* Of the Aggregator, for any orders, terms, prices, fees and calls of     *)
(* matchOffersV3: the loans that it initialises, what the truncated        *)
(* averages of its loop still promise to borrowers and lenders, and where  *)
(* principle and collateral go.                                            *)
(***************************************************************************)
EXTENDS LendOffers, Aggregator, ProofLemmas

-----------------------------------------------------------------------------
(* Lend orders and their index                                             *)

(* The part of the invariant about the index, and what it reads.           *)
indexVars == <<owner, orders, delistings>>

LEMMA InitInv == Init => LendInv
<1>. SUFFICES ASSUME Init PROVE LendInv
  OBVIOUS
<1>1. Created = {}
  BY DEF Init, Created
<1>2. orders \in Indexes /\ Exact(orders) /\ Listed(orders) = {}
  BY EmptyExact DEF Init
<1>. QED
  BY <1>1, <1>2 DEF Init, LendInv, RetiredNotPerpetual, IndexExactUntilRepeat

LEMMA StutterInv ==
  ASSUME LendInv, UNCHANGED indexVars, RetiredNotPerpetual'
  PROVE  LendInv'
BY DEF LendInv, indexVars, Created, IndexExactUntilRepeat, DelistedAtMostOnce

(* A new order is appended to the index.                                   *)
LEMMA CreateInv ==
  ASSUME LendInv, NEW u \in Users, NEW l \in Orders, NEW p \in BOOLEAN,
         NEW n, NEW t, createLendOrder(u, l, p, n, t)
  PROVE  LendInv'
<1>1. /\ owner[l] = NoUser /\ HasRoom(orders)
      /\ owner' = [owner EXCEPT ![l] = u]
      /\ orders' = Enlist(orders, l)
      /\ delistings' = delistings
  BY DEF createLendOrder
<1>2. u # NoUser
  BY LendOffersAssumption
<1>3. owner' \in [Orders -> Users \cup {NoUser}]
  BY <1>1 DEF LendInv
<1>4. l \notin Created /\ Created' = Created \cup {l}
  BY <1>1, <1>2 DEF Created, LendInv
<1>5. RetiredNotPerpetual'
  BY DEF createLendOrder, LendInv, RetiredNotPerpetual
<1>6. delistings[l] = 0
  BY <1>4 DEF LendInv
<1>7. orders' \in Indexes
  <2>1. Enlist(orders, l).index \in [Orders \cup {NoOrder} -> Slots \cup {0}]
    BY <1>1, OrderIndexAssumption DEF LendInv, Indexes, Enlist, HasRoom, Slots
  <2>2. Enlist(orders, l).slot \in [Slots -> Orders \cup {NoOrder}]
    BY <1>1 DEF LendInv, Indexes, Enlist
  <2>3. Enlist(orders, l).count \in 0 .. Capacity
    BY <1>1, OrderIndexAssumption DEF LendInv, Indexes, Enlist, HasRoom
  <2>. QED
    BY <1>1, <2>1, <2>2, <2>3 DEF Indexes, Enlist
<1>8. IndexExactUntilRepeat'
  <2>. SUFFICES ASSUME DelistedAtMostOnce'
                PROVE  /\ Exact(orders')
                       /\ Listed(orders') = {k \in Created' : delistings'[k] = 0}
    BY DEF IndexExactUntilRepeat
  <2>1. Exact(orders) /\ Listed(orders) = {k \in Created : delistings[k] = 0}
    BY <1>1 DEF LendInv, IndexExactUntilRepeat, DelistedAtMostOnce
  <2>2. Exact(orders') /\ Listed(orders') = Listed(orders) \cup {l}
    BY <1>1, <1>4, <2>1, EnlistExact DEF LendInv
  <2>. QED
    BY <1>1, <1>4, <1>6, <2>1, <2>2
<1>. QED
  BY <1>1, <1>3, <1>4, <1>5, <1>7, <1>8 DEF LendInv

(* Any of the three calls that end in deleteOrder.                         *)
LEMMA DeleteInv ==
  ASSUME LendInv, NEW l \in Created, deleteOrder(l), owner' = owner,
         RetiredNotPerpetual'
  PROVE  LendInv'
<1>1. /\ l \in Orders
      /\ Deletable(orders)
      /\ orders' = DeleteLend(orders, l)
      /\ delistings' = [delistings EXCEPT ![l] = @ + 1]
      /\ Created' = Created
  BY DEF deleteOrder, Created
<1>2. orders' \in Indexes
  BY <1>1, DeleteLendType DEF LendInv
<1>3. /\ delistings' \in [Orders -> Nat]
      /\ delistings'[l] = delistings[l] + 1
      /\ \A k \in Orders \ {l} : delistings'[k] = delistings[k]
  BY <1>1 DEF LendInv
<1>4. \A k \in Orders \ Created : delistings'[k] = 0
  BY <1>3 DEF LendInv
<1>5. IndexExactUntilRepeat'
  <2>. SUFFICES ASSUME DelistedAtMostOnce'
                PROVE  /\ Exact(orders')
                       /\ Listed(orders') = {k \in Created' : delistings'[k] = 0}
    BY DEF IndexExactUntilRepeat
  <2>1. delistings[l] = 0
    <3>1. delistings'[l] <= 1 /\ delistings[l] \in Nat
      BY <1>1 DEF DelistedAtMostOnce, LendInv
    <3>. QED
      BY <3>1, <1>3
  <2>2. DelistedAtMostOnce
    BY <1>3, <2>1 DEF DelistedAtMostOnce
  <2>3. Exact(orders) /\ Listed(orders) = {k \in Created : delistings[k] = 0}
    BY <2>2 DEF LendInv, IndexExactUntilRepeat
  <2>4. l \in Listed(orders)
    BY <2>1, <2>3
  <2>5. Exact(orders') /\ Listed(orders') = Listed(orders) \ {l}
    BY <1>1, <2>3, <2>4, DeleteLendExact DEF LendInv
  <2>6. \A k \in Created : delistings'[k] = 0 <=> (k # l /\ delistings[k] = 0)
    BY <1>3, <2>1 DEF Created
  <2>. QED
    BY <1>1, <2>3, <2>5, <2>6
<1>. QED
  BY <1>1, <1>2, <1>3, <1>4, <1>5 DEF LendInv

LEMMA AcceptInv ==
  ASSUME LendInv, NEW l \in Orders, NEW n, acceptLendingOffer(l, n)
  PROVE  LendInv'
<1>1. l \in Created /\ owner' = owner /\ perpetual' = perpetual
  BY DEF acceptLendingOffer
<1>2. CASE FullyLent(l, n)
  <2>1. isActive' = isActive \ {l} /\ deleteOrder(l)
    BY <1>2 DEF acceptLendingOffer
  <2>2. RetiredNotPerpetual'
    BY <1>1, <1>2, <2>1 DEF FullyLent, LendInv, RetiredNotPerpetual
  <2>. QED
    BY <1>1, <2>1, <2>2, DeleteInv
<1>3. CASE ~FullyLent(l, n)
  <2>1. UNCHANGED <<isActive, orders, delistings>>
    BY <1>3 DEF acceptLendingOffer
  <2>2. RetiredNotPerpetual'
    BY <1>1, <2>1 DEF LendInv, RetiredNotPerpetual
  <2>. QED
    BY <1>1, <2>1, <2>2, StutterInv DEF indexVars
<1>. QED
  BY <1>2, <1>3

LEMMA CancelInv ==
  ASSUME LendInv, NEW u \in Users, NEW l \in Orders, cancelOffer(u, l)
  PROVE  LendInv'
<1>1. l \in Created
  BY LendOffersAssumption DEF cancelOffer, Created
<1>2. RetiredNotPerpetual'
  BY DEF cancelOffer, ClearPerpetual, LendInv, RetiredNotPerpetual
<1>. QED
  BY <1>1, <1>2, DeleteInv DEF cancelOffer

LEMMA ChangePerpetualInv ==
  ASSUME LendInv, NEW u \in Users, NEW l \in Orders, NEW p \in BOOLEAN,
         changePerpetual(u, l, p)
  PROVE  LendInv'
<1>1. l \in Created /\ owner' = owner
  BY LendOffersAssumption DEF changePerpetual, Created
<1>2. RetiredNotPerpetual'
  BY DEF changePerpetual, LendInv, RetiredNotPerpetual
<1>3. CASE ~p /\ availableAmount[l] = 0
  BY <1>1, <1>2, <1>3, DeleteInv DEF changePerpetual
<1>4. CASE ~(~p /\ availableAmount[l] = 0)
  <2>1. UNCHANGED indexVars
    BY <1>1, <1>4 DEF changePerpetual, indexVars
  <2>. QED
    BY <1>2, <2>1, StutterInv
<1>. QED
  BY <1>3, <1>4

LEMMA NextInv == LendInv /\ [Next]_vars => LendInv'
<1>. SUFFICES ASSUME LendInv, [Next]_vars PROVE LendInv'
  OBVIOUS
<1>1. ASSUME UNCHANGED <<indexVars, isActive, perpetual>> PROVE LendInv'
  BY <1>1, StutterInv DEF indexVars, LendInv, RetiredNotPerpetual
<1>2. CASE \E u \in Users, l \in Orders, p \in BOOLEAN, n \in 0..MaxAmount,
             t \in Terms : createLendOrder(u, l, p, n, t)
  BY <1>2, CreateInv
<1>3. CASE \E l \in Orders, n \in 1..MaxAmount : acceptLendingOffer(l, n)
  BY <1>3, AcceptInv
<1>4. CASE \E u \in Users, l \in Orders : cancelOffer(u, l)
  BY <1>4, CancelInv
<1>5. CASE \E l \in Orders, n \in 0..MaxAmount : addFunds(l, n)
  BY <1>5, <1>1 DEF addFunds, indexVars
<1>6. CASE \E u \in Users, l \in Orders, p \in BOOLEAN : changePerpetual(u, l, p)
  BY <1>6, ChangePerpetualInv
<1>7. CASE \E u \in Users, l \in Orders, t \in Terms : updateLendOrder(u, l, t)
  BY <1>7, <1>1 DEF updateLendOrder, indexVars
<1>8. CASE Tick
  BY <1>8, <1>1 DEF Tick, indexVars
<1>9. CASE UNCHANGED vars
  BY <1>9, <1>1 DEF vars, indexVars
<1>. QED
  BY <1>2, <1>3, <1>4, <1>5, <1>6, <1>7, <1>8, <1>9 DEF Next

THEOREM LendInvariant == Spec => []LendInv
BY InitInv, NextInv, PTL DEF Spec

(* RetiredNotPerpetual: an order that was cancelled or fully lent never    *)
(* receives a loan's payments as a perpetual order.                        *)
THEOREM RetiredStaysRetired == Spec => []RetiredNotPerpetual
<1>1. LendInv => RetiredNotPerpetual
  BY DEF LendInv
<1>. QED
  BY LendInvariant, <1>1, PTL

(* IndexExactUntilRepeat: the lend factory's index is exact until some     *)
(* order has been deleted from it twice.                                   *)
THEOREM IndexExactWithoutRepeat == Spec => []IndexExactUntilRepeat
<1>1. LendInv => IndexExactUntilRepeat
  BY DEF LendInv
<1>. QED
  BY LendInvariant, <1>1, PTL

-----------------------------------------------------------------------------
(* The funds and the cooldown                                              *)

(* No call but an update stamps an order, and no clock goes back.          *)
termVars == <<now, lastUpdate, termsSince>>

LEMMA FundsInit == Init => FundsInv
BY LendOffersAssumption DEF Init, FundsInv, FundsHeld

(* A call that moves tokens moves the amount and the balance alike.        *)
LEMMA FundsMove ==
  ASSUME FundsInv, UNCHANGED termVars, NEW l \in Created, NEW n \in Nat,
         owner' = owner, cancels' \in [Orders -> Nat],
         availableAmount' = [availableAmount EXCEPT ![l] = n],
         balance' = [balance EXCEPT ![l] = n]
  PROVE  FundsInv'
<1>1. Created' = Created /\ l \in Orders
  BY DEF Created
<1>2. \A k \in Orders \ Created : availableAmount'[k] = 0
  BY <1>1 DEF FundsInv
<1>. QED
  BY <1>1, <1>2 DEF FundsInv, FundsHeld, termVars

LEMMA FundsCreate ==
  ASSUME FundsInv, NEW u \in Users, NEW l \in Orders, NEW p \in BOOLEAN,
         NEW n \in 0..MaxAmount, NEW t \in Terms, createLendOrder(u, l, p, n, t)
  PROVE  FundsInv'
<1>1. /\ n \in Nat /\ u # NoUser
      /\ owner' = [owner EXCEPT ![l] = u]
      /\ availableAmount' = [availableAmount EXCEPT ![l] = n]
      /\ balance' = [balance EXCEPT ![l] = n]
      /\ UNCHANGED <<termVars, cancels>>
  BY LendOffersAssumption DEF createLendOrder, termVars
<1>2. /\ owner' \in [Orders -> Users \cup {NoUser}]
      /\ availableAmount' \in [Orders -> Nat]
  BY <1>1 DEF FundsInv
<1>3. Created' = Created \cup {l}
  BY <1>1 DEF Created, FundsInv
<1>4. \A k \in Orders \ Created' : availableAmount'[k] = 0
  BY <1>1, <1>3 DEF FundsInv
<1>. QED
  BY <1>1, <1>2, <1>4 DEF FundsInv, FundsHeld, termVars

LEMMA FundsAccept ==
  ASSUME FundsInv, NEW l \in Orders, NEW n \in 1..MaxAmount, acceptLendingOffer(l, n)
  PROVE  FundsInv'
<1>1. /\ availableAmount[l] \in Nat /\ balance[l] = availableAmount[l]
      /\ n \in Nat /\ n <= availableAmount[l] /\ l \in Created
  BY LendOffersAssumption DEF FundsInv, FundsHeld, acceptLendingOffer, Lendable
<1>2. availableAmount[l] - n \in Nat
  BY <1>1
<1>3. /\ availableAmount' = [availableAmount EXCEPT ![l] = availableAmount[l] - n]
      /\ balance' = [balance EXCEPT ![l] = availableAmount[l] - n]
  BY <1>1 DEF acceptLendingOffer
<1>4. UNCHANGED termVars /\ owner' = owner /\ cancels' \in [Orders -> Nat]
  BY DEF acceptLendingOffer, termVars, FundsInv
<1>. QED
  BY <1>1, <1>2, <1>3, <1>4, FundsMove

LEMMA FundsCancel ==
  ASSUME FundsInv, NEW u \in Users, NEW l \in Orders, cancelOffer(u, l)
  PROVE  FundsInv'
<1>1. /\ availableAmount[l] \in Nat /\ balance[l] = availableAmount[l]
      /\ l \in Created /\ balance[l] - availableAmount[l] = 0
  BY LendOffersAssumption DEF FundsInv, FundsHeld, cancelOffer, Created
<1>2. /\ availableAmount' = [availableAmount EXCEPT ![l] = 0]
      /\ balance' = [balance EXCEPT ![l] = balance[l] - availableAmount[l]]
  BY DEF cancelOffer
<1>3. balance' = [balance EXCEPT ![l] = 0]
  BY <1>1, <1>2
<1>4. UNCHANGED termVars /\ owner' = owner
  BY DEF cancelOffer, termVars
<1>5. cancels' \in [Orders -> Nat]
  BY DEF cancelOffer, FundsInv
<1>6. 0 \in Nat /\ l \in Created /\ availableAmount' = [availableAmount EXCEPT ![l] = 0]
  BY <1>1, <1>2
<1>. QED
  BY <1>3, <1>4, <1>5, <1>6, FundsMove

LEMMA FundsAdd ==
  ASSUME FundsInv, NEW l \in Orders, NEW n \in 0..MaxAmount, addFunds(l, n)
  PROVE  FundsInv'
<1>1. /\ availableAmount[l] \in Nat /\ balance[l] = availableAmount[l]
      /\ n \in Nat /\ l \in Created
  BY LendOffersAssumption DEF FundsInv, FundsHeld, addFunds
<1>2. /\ availableAmount' = [availableAmount EXCEPT ![l] = availableAmount[l] + n]
      /\ balance' = [balance EXCEPT ![l] = availableAmount[l] + n]
  BY <1>1 DEF addFunds
<1>3. availableAmount[l] + n \in Nat
  BY <1>1
<1>4. UNCHANGED termVars /\ owner' = owner /\ cancels' \in [Orders -> Nat]
  BY DEF addFunds, termVars, FundsInv
<1>. QED
  BY <1>1, <1>2, <1>3, <1>4, FundsMove

LEMMA FundsUpdate ==
  ASSUME FundsInv, NEW u \in Users, NEW l \in Orders, NEW t \in Terms,
         updateLendOrder(u, l, t)
  PROVE  FundsInv'
<1>1. /\ lastUpdate' = [lastUpdate EXCEPT ![l] = now]
      /\ termsSince' = [termsSince EXCEPT ![l] = IF t = terms[l] THEN @ ELSE now]
      /\ UNCHANGED <<now, owner, cancels, availableAmount, balance>>
  BY DEF updateLendOrder, Stamp
<1>2. /\ lastUpdate' \in [Orders -> Nat] /\ termsSince' \in [Orders -> Nat]
      /\ lastUpdate'[l] = now /\ termsSince'[l] <= now
  BY <1>1 DEF FundsInv
<1>3. \A k \in Orders \ {l} :
        lastUpdate'[k] = lastUpdate[k] /\ termsSince'[k] = termsSince[k]
  BY <1>1 DEF FundsInv
<1>. QED
  BY <1>1, <1>2, <1>3 DEF FundsInv, FundsHeld, Created

LEMMA FundsNext == FundsInv /\ [Next]_vars => FundsInv'
<1>. SUFFICES ASSUME FundsInv, [Next]_vars PROVE FundsInv'
  OBVIOUS
<1>1. ASSUME UNCHANGED <<termVars, owner, cancels, availableAmount, balance>>
      PROVE  FundsInv'
  BY <1>1 DEF FundsInv, FundsHeld, Created, termVars
<1>2. CASE \E u \in Users, l \in Orders, p \in BOOLEAN, n \in 0..MaxAmount,
             t \in Terms : createLendOrder(u, l, p, n, t)
  BY <1>2, FundsCreate
<1>3. CASE \E l \in Orders, n \in 1..MaxAmount : acceptLendingOffer(l, n)
  BY <1>3, FundsAccept
<1>4. CASE \E u \in Users, l \in Orders : cancelOffer(u, l)
  BY <1>4, FundsCancel
<1>5. CASE \E l \in Orders, n \in 0..MaxAmount : addFunds(l, n)
  BY <1>5, FundsAdd
<1>6. CASE \E u \in Users, l \in Orders, p \in BOOLEAN : changePerpetual(u, l, p)
  BY <1>6, <1>1 DEF changePerpetual, termVars
<1>7. CASE \E u \in Users, l \in Orders, t \in Terms : updateLendOrder(u, l, t)
  BY <1>7, FundsUpdate
<1>8. CASE Tick
  <2>1. /\ now' \in Nat /\ now' > now
        /\ UNCHANGED <<owner, cancels, availableAmount, balance, lastUpdate, termsSince>>
    BY <1>8, LendOffersAssumption DEF Tick
  <2>2. \A l \in Orders : lastUpdate[l] <= now'
    BY <2>1 DEF FundsInv
  <2>. QED
    BY <2>1, <2>2 DEF FundsInv, FundsHeld, Created
<1>9. CASE UNCHANGED vars
  BY <1>9, <1>1 DEF vars, termVars
<1>. QED
  BY <1>2, <1>3, <1>4, <1>5, <1>6, <1>7, <1>8, <1>9 DEF Next

(* The invariant of the funds and the cooldown, for every value of the     *)
(* constants.                                                              *)
THEOREM FundsInvariant == Spec => []FundsInv
BY FundsInit, FundsNext, PTL DEF Spec

(* FundsHeld: acceptLendingOffer, cancelOffer and addFunds keep what a     *)
(* lend order holds equal to what it says is available.                    *)
THEOREM FundsStayHeld == Spec => []FundsHeld
<1>1. FundsInv => FundsHeld
  BY DEF FundsInv
<1>. QED
  BY FundsInvariant, <1>1, PTL

(* What is available falls only in a loan or a cancellation, and a loan    *)
(* finds the terms settled.                                                *)
LEMMA LentSettled ==
  ASSUME FundsInv, [Next]_vars, NEW l \in Orders,
         availableAmount'[l] < availableAmount[l], cancels'[l] = cancels[l]
  PROVE  termsSince[l] = 0 \/ now > termsSince[l] + Cooldown
<1>1. availableAmount[l] \in Nat /\ availableAmount \in [Orders -> Nat]
  BY DEF FundsInv
<1>2. availableAmount' # availableAmount
  BY <1>1
<1>3. ASSUME NEW u \in Users, NEW k \in Orders, NEW p \in BOOLEAN,
             NEW n \in 0..MaxAmount, NEW t \in Terms, createLendOrder(u, k, p, n, t)
      PROVE  FALSE
  <2>1. k \notin Created /\ availableAmount' = [availableAmount EXCEPT ![k] = n] /\ n >= 0
    BY <1>3, LendOffersAssumption DEF createLendOrder, Created
  <2>. QED
    BY <1>1, <2>1 DEF FundsInv
<1>4. ASSUME NEW u \in Users, NEW k \in Orders, cancelOffer(u, k) PROVE FALSE
  <2>1. /\ availableAmount' = [availableAmount EXCEPT ![k] = 0]
        /\ cancels' = [cancels EXCEPT ![k] = @ + 1]
    BY <1>4 DEF cancelOffer
  <2>2. k = l
    BY <1>1, <2>1
  <2>3. cancels[l] \in Nat /\ cancels'[l] = cancels[l] + 1
    BY <2>1, <2>2 DEF FundsInv
  <2>. QED
    BY <2>3
<1>5. ASSUME NEW k \in Orders, NEW n \in 0..MaxAmount, addFunds(k, n) PROVE FALSE
  BY <1>1, <1>5, LendOffersAssumption DEF addFunds, FundsInv
<1>6. PICK k \in Orders, n \in 1..MaxAmount : acceptLendingOffer(k, n)
  BY <1>2, <1>3, <1>4, <1>5 DEF Next, vars, changePerpetual, updateLendOrder, Tick
<1>7. availableAmount' = [availableAmount EXCEPT ![k] = @ - n] /\ AfterTimeOut(k)
  BY <1>6 DEF acceptLendingOffer
<1>8. k = l
  BY <1>1, <1>7
<1>9. /\ termsSince[l] \in Nat /\ lastUpdate[l] \in Nat /\ now \in Nat
      /\ termsSince[l] <= lastUpdate[l]
  BY DEF FundsInv
<1>. QED
  BY <1>7, <1>8, <1>9, LendOffersAssumption DEF AfterTimeOut

(* TermsSettled: no loan is made on terms younger than the cooldown.       *)
THEOREM LendTermsSettled == Spec => TermsSettled
<1>1. ASSUME FundsInv, [Next]_vars
      PROVE  [\A l \in Orders :
                availableAmount'[l] < availableAmount[l] /\ cancels'[l] = cancels[l] =>
                  termsSince[l] = 0 \/ now > termsSince[l] + Cooldown]_vars
  BY <1>1, LentSettled
<1>. QED
  BY FundsInvariant, <1>1, PTL DEF Spec, TermsSettled

-----------------------------------------------------------------------------
(* Matches                                                                 *)

(* The greater of two naturals.                                            *)
LEMMA MaxOfPair ==
  ASSUME NEW a \in Nat, NEW b \in Nat
  PROVE  Max({a, b}) \in {a, b} /\ Max({a, b}) >= a /\ Max({a, b}) >= b
<1>1. \E x \in {a, b} : \A y \in {a, b} : x >= y
  OBVIOUS
<1> QED  BY <1>1 DEF Max

-----------------------------------------------------------------------------
(* The running averages                                                    *)

(* A stands for the average of k values with the weights C, whose weighted *)
(* sum is W; each round after the first may have lost 2.                   *)
Averages(A, C, W, k) ==
  /\ A \in Nat /\ C \in Nat /\ W \in Nat /\ k \in Nat
  /\ k = 0 => A = 0 /\ C = 0 /\ W = 0
  /\ k > 0 => C > 0 /\ A * C <= W /\ W <= (A + 2 * (k - 1)) * C

(* The first value is its own average.                                     *)
LEMMA AverageFirst ==
  ASSUME NEW x \in Nat, NEW w \in Nat \ {0}
  PROVE  Averages(Weighted(0, 0, x, w), w, x * w, 1)
<1>. DEFINE y == x * w
<1>1. y \div w = x /\ y \in Nat
  BY DivOfProduct
<1>2. (0 * 0) \div (0 + w) = 0 /\ 0 + w = w
  OBVIOUS
<1>3. Weighted(0, 0, x, w) = x
  BY <1>1, <1>2 DEF Weighted
<1>4. (x + 2 * (1 - 1)) * w = y
  OBVIOUS
<1>. QED
  BY <1>1, <1>3, <1>4 DEF Averages

(* What two quotients by d leave is less than 2 * d.                       *)
LEMMA TwoQuotients ==
  ASSUME NEW a \in Nat, NEW b \in Nat, NEW d \in Nat \ {0}
  PROVE  /\ a \div d + b \div d \in Nat
         /\ (a \div d + b \div d) * d <= a + b
         /\ a + b <= (a \div d + b \div d) * d + 2 * d
<1>. DEFINE p == a \div d
            q == b \div d
<1>1. /\ p \in Nat /\ p * d <= a /\ a < d * p + d
      /\ q \in Nat /\ q * d <= b /\ b < d * q + d
  BY DivNat, DivRest
<1>. HIDE DEF p, q
<1>2. /\ (p + q) * d = p * d + q * d /\ d * p = p * d /\ d * q = q * d
      /\ p * d \in Nat /\ q * d \in Nat
  BY <1>1
<1>3. p + q \in Nat /\ (p + q) * d <= a + b /\ a + b <= (p + q) * d + 2 * d
  BY <1>1, <1>2
<1>. QED
  BY <1>3 DEF p, q

(* One value more loses at most 2 more.                                    *)
LEMMA AverageNext ==
  ASSUME NEW A, NEW C, NEW W, NEW k, Averages(A, C, W, k), k > 0,
         NEW x \in Nat, NEW w \in Nat
  PROVE  Averages(Weighted(A, C, x, w), C + w, W + x * w, k + 1)
<1>. DEFINE d == C + w
            y == x * w
            z == A * C
            B == Weighted(A, C, x, w)
<1>1. /\ A \in Nat /\ C \in Nat /\ W \in Nat /\ k \in Nat /\ C > 0
      /\ z <= W /\ W <= (A + 2 * (k - 1)) * C
  BY DEF Averages
<1>2. d \in Nat \ {0} /\ y \in Nat /\ z \in Nat /\ C <= d
  BY <1>1
<1>3. B = y \div d + z \div d
  BY DEF Weighted
<1>4. (A + 2 * (k - 1)) * C = z + 2 * (k - 1) * C
  BY <1>1
<1>5. 2 * (k - 1) * C <= 2 * (k - 1) * d
  <2>1. 2 * (k - 1) \in Nat
    BY <1>1
  <2>. HIDE DEF d
  <2>. QED
    BY <1>1, <1>2, <2>1, MulMonotone
<1>. DEFINE s == 2 * (k - 1) * C
            t == 2 * (k - 1) * d
<1>6. s \in Nat /\ t \in Nat /\ s <= t /\ W <= z + s
  <2>1. s \in Nat /\ t \in Nat
    BY <1>1, <1>2
  <2>. QED
    BY <1>1, <1>4, <1>5, <2>1
<1>7. (B + 2 * ((k + 1) - 1)) * d = B * d + 2 * d + t
  <2>1. B \in Nat
    BY <1>2, <1>3, TwoQuotients
  <2>. HIDE DEF B, d
  <2>. QED
    BY <1>1, <1>2, <2>1
<1>. HIDE DEF d, y, z, s, t, B
<1>8. B \in Nat /\ B * d <= y + z /\ y + z <= B * d + 2 * d
  BY <1>2, <1>3, TwoQuotients
<1>9. B * d \in Nat
  BY <1>2, <1>8
<1>10. B * d <= W + y /\ W + y <= B * d + 2 * d + t
  BY <1>1, <1>2, <1>6, <1>8, <1>9
<1>11. W + y <= (B + 2 * ((k + 1) - 1)) * d
  BY <1>7, <1>10
<1>. QED
  BY <1>1, <1>2, <1>8, <1>10, <1>11 DEF Averages, d, y, B

-----------------------------------------------------------------------------
(* The arguments of a match                                                *)

IsMatch(m) ==
  /\ m.borrow \in BorrowOrders
  /\ m.principles \in Seq(Principles)
  /\ Len(m.picks) \in Nat /\ DOMAIN m.picks = 1 .. Len(m.picks)
  /\ \A i \in DOMAIN m.picks :
       /\ m.picks[i].order \in LendOrders
       /\ m.picks[i].amount \in Nat /\ m.picks[i].percent \in Nat
       /\ m.picks[i].slot \in DOMAIN m.principles

LEMMA ArgumentsOfMatch ==
  ASSUME NEW b \in BorrowOrders, NEW slate \in Slates, NEW n \in 0 .. MaxPicks,
         NEW picks \in [1 .. n -> Picks(slate)]
  PROVE  IsMatch([borrow |-> b, principles |-> slate, picks |-> picks])
<1>1. n \in Nat /\ slate \in Seq(Principles) /\ Amounts \subseteq Nat /\ Percents \subseteq Nat
  BY AggregatorAssumption
<1>2. Len(picks) = n /\ DOMAIN picks = 1 .. n
  BY <1>1
<1>3. ASSUME NEW i \in 1 .. n
      PROVE  /\ picks[i].order \in LendOrders /\ picks[i].amount \in Nat
             /\ picks[i].percent \in Nat /\ picks[i].slot \in DOMAIN slate
  BY <1>1 DEF Picks
<1>. QED
  BY <1>1, <1>2, <1>3 DEF IsMatch

(* The terms of the orders.                                                *)
LEMMA TermsOfOrders ==
  ASSUME MatchTyped
  PROVE  /\ \A l \in LendOrders :
              /\ lendTerms[l] \in LendTerms /\ lendTerms[l].principle \in Principles
              /\ \A c \in DOMAIN lendTerms[l].maxRatio :
                   lendTerms[l].maxRatio[c] \in Limits
              /\ lendTerms[l].apr \in Nat /\ lendTerms[l].maxDuration \in Nat
              /\ lendTerms[l].funds \in Nat
         /\ \A b \in BorrowOrders :
              /\ borrowTerms[b] \in BorrowTerms /\ borrowTerms[b].asset \in Assets
              /\ borrowTerms[b].duration \in Nat /\ borrowTerms[b].start \in Nat
              /\ borrowTerms[b].maxApr \in Nat /\ borrowTerms[b].isNFT \in BOOLEAN
         /\ price \in [Principles \cup Assets -> Nat]
<1>1. ASSUME NEW l \in LendOrders
      PROVE  /\ lendTerms[l] \in LendTerms /\ lendTerms[l].principle \in Principles
             /\ \A c \in DOMAIN lendTerms[l].maxRatio : lendTerms[l].maxRatio[c] \in Limits
             /\ {lendTerms[l].apr, lendTerms[l].minDuration, lendTerms[l].maxDuration,
                 lendTerms[l].funds} \subseteq Nat
  <2>1. lendTerms[l] \in LendTerms
    BY DEF MatchTyped
  <2>. QED
    BY <2>1, AggregatorAssumption
<1>2. ASSUME NEW b \in BorrowOrders
      PROVE  /\ borrowTerms[b] \in BorrowTerms /\ borrowTerms[b].asset \in Assets
             /\ {borrowTerms[b].maxApr, borrowTerms[b].duration, borrowTerms[b].start}
                  \subseteq Nat
             /\ borrowTerms[b].isNFT \in BOOLEAN
  <2>1. borrowTerms[b] \in BorrowTerms
    BY DEF MatchTyped
  <2>. QED
    BY <2>1, AggregatorAssumption
<1>3. price \in [Principles \cup Assets -> Nat]
  <2>1. price \in Prices
    BY DEF MatchTyped
  <2>2. Prices \subseteq [Principles \cup Assets -> Nat]
    BY AggregatorAssumption
  <2>. QED
    BY ONLY <2>1, <2>2
<1>. QED
  BY <1>1, <1>2, <1>3

-----------------------------------------------------------------------------
(* Ratios and the collateral they ask for                                  *)

(* A ratio from prices is worth no more than the loan-to-value.            *)
LEMMA RatioFromPriceBound ==
  ASSUME NEW ltv \in Nat, NEW pa \in Nat, NEW pp \in Nat \ {0}, NEW u \in Nat,
         NEW s \in Nat \ {0}, NEW r,
         r = (((((pa * s) \div pp) * ltv) \div 10000) * u) \div s
  PROVE  r \in Nat /\ r * pp * 10000 <= ltv * pa * u
<1>. DEFINE x == pa * s
            full == x \div pp
            y == full * ltv
            v == y \div 10000
            z == v * u
<1>1. x \in Nat
  OBVIOUS
<1>2. full \in Nat /\ full * pp <= x
  <2>. HIDE DEF x
  <2>. QED  BY <1>1, DivNat
<1>3. y \in Nat
  <2>. HIDE DEF full
  <2>. QED  BY <1>2
<1>4. v \in Nat /\ v * 10000 <= y
  <2>. HIDE DEF y
  <2>. QED  BY <1>3
<1>5. z \in Nat
  <2>. HIDE DEF v
  <2>. QED  BY <1>4
<1>6. r \in Nat /\ r * s <= z
  <2>1. r = z \div s
    OBVIOUS
  <2>. HIDE DEF z
  <2>. QED  BY <1>5, <2>1, DivNat
<1>. HIDE DEF full, v
<1>7. (r * s) * (pp * 10000) <= z * (pp * 10000)
  <2>. DEFINE k == pp * 10000
              a == r * s
  <2>1. k \in Nat /\ a \in Nat
    BY <1>6
  <2>. HIDE DEF k, a, z
  <2>2. k * a <= k * z
    BY <1>5, <1>6, <2>1, MulMonotone DEF a
  <2>. QED
    BY <1>5, <2>1, <2>2 DEF k, a
<1>8. z * (pp * 10000) = (v * 10000) * (u * pp)
  BY <1>4
<1>9. (v * 10000) * (u * pp) <= y * (u * pp)
  <2>. DEFINE k == u * pp
              a == v * 10000
  <2>1. k \in Nat /\ a \in Nat
    BY <1>4
  <2>. HIDE DEF k, a, y
  <2>2. k * a <= k * y
    BY <1>3, <1>4, <2>1, MulMonotone DEF a
  <2>. QED
    BY <1>3, <2>1, <2>2 DEF k, a
<1>10. y * (u * pp) = (full * pp) * (ltv * u)
  BY <1>2
<1>11. (full * pp) * (ltv * u) <= x * (ltv * u)
  <2>. DEFINE k == ltv * u
              a == full * pp
  <2>1. k \in Nat /\ a \in Nat
    BY <1>2
  <2>. HIDE DEF k, a, x
  <2>2. k * a <= k * x
    BY <1>1, <1>2, <2>1, MulMonotone DEF a
  <2>. QED
    BY <1>1, <2>1, <2>2 DEF k, a
<1>12. x * (ltv * u) = (ltv * pa * u) * s
  OBVIOUS
<1>. DEFINE a == r * pp * 10000
            b == ltv * pa * u
<1>13. (r * s) * (pp * 10000) = a * s
  BY <1>6
<1>14. a \in Nat /\ b \in Nat
  BY <1>6
<1>15. a * s <= b * s
  <2>. DEFINE e1 == (r * s) * (pp * 10000)
              e2 == z * (pp * 10000)
              e3 == y * (u * pp)
              e4 == x * (ltv * u)
  <2>1. e1 \in Int /\ e2 \in Int /\ e3 \in Int /\ e4 \in Int
    BY <1>1, <1>3, <1>5, <1>6
  <2>2. e1 <= e2 /\ e2 <= e3 /\ e3 <= e4 /\ e1 = a * s /\ e4 = b * s
    BY <1>7, <1>8, <1>9, <1>10, <1>11, <1>12, <1>13
  <2>. HIDE DEF e1, e2, e3, e4
  <2>. QED
    BY <2>1, <2>2
<1>. HIDE DEF a, b
<1>16. a <= b
  BY <1>14, <1>15
<1>. QED
  BY <1>6, <1>16 DEF a, b

(* The ratios that a match computes are naturals.                          *)
LEMMA RatioNat ==
  ASSUME MatchTyped, NEW limit \in Limits, NEW asset \in Assets, NEW p \in Principles,
         Quotable(limit, p)
  PROVE  /\ RatioOf(limit, asset, p) \in Nat
         /\ limit.oracle => RatioOf(limit, asset, p) * price[p] * 10000
                              <= limit.value * price[asset] * Unit[p]
         /\ ~limit.oracle => RatioOf(limit, asset, p) = limit.value
<1>1. price \in [Principles \cup Assets -> Nat] /\ limit.value \in Nat /\ limit.oracle \in BOOLEAN
  BY TermsOfOrders DEF Limits
<1>2. Unit[p] \in Nat /\ Unit[asset] \in Nat \ {0} /\ Shift \in Nat \ {0}
  BY AggregatorAssumption
<1>3. CASE limit.oracle
  <2>1. price[p] \in Nat \ {0} /\ price[asset] \in Nat
    BY <1>1, <1>3 DEF Quotable
  <2>2. RatioOf(limit, asset, p) =
          (((((price[asset] * Shift) \div price[p]) * limit.value) \div 10000) * Unit[p]) \div Shift
    BY <1>3 DEF RatioOf, RatioFromPrice
  <2>. QED
    BY <1>1, <1>2, <1>3, <2>1, <2>2, RatioFromPriceBound
<1>4. CASE ~limit.oracle
  BY <1>1, <1>4 DEF RatioOf
<1>. QED
  BY <1>1, <1>3, <1>4

(* What a match takes from each lend order, by the terms it agreed to.     *)
LEMMA PickFacts ==
  ASSUME MatchTyped, NEW m, IsMatch(m), NEW i \in DOMAIN m.picks,
         LenderAgrees(m, m.picks[i])
  PROVE  /\ MaxRatio(m.borrow, m.picks[i].order) \in Nat
         /\ OfferRatio(m.borrow, m.picks[i]) \in Nat \ {0}
         /\ OfferRatio(m.borrow, m.picks[i]) <= MaxRatio(m.borrow, m.picks[i].order)
         /\ UsedCollateral(m.borrow, m.picks[i]) \in Nat
         /\ m.picks[i].amount \in Nat \ {0}
         /\ lendTerms[m.picks[i].order].apr \in Nat
<1>. DEFINE k == m.picks[i]
            b == m.borrow
            t == lendTerms[k.order]
            c == borrowTerms[b].collateral
            limit == t.maxRatio[c]
            asset == borrowTerms[b].asset
<1>1. /\ b \in BorrowOrders /\ k.order \in LendOrders /\ k.amount \in Nat /\ k.percent \in Nat
  BY DEF IsMatch
<1>2. /\ c \in DOMAIN t.maxRatio /\ Quotable(limit, t.principle)
      /\ OfferRatio(b, k) > 0 /\ k.amount > 0 /\ PercentValid(k.percent)
  BY Zenon DEF LenderAgrees
<1>3. limit \in Limits /\ asset \in Assets /\ t.principle \in Principles /\ t.apr \in Nat
  <2>1. \A d \in DOMAIN t.maxRatio : t.maxRatio[d] \in Limits
    BY <1>1, TermsOfOrders
  <2>2. asset \in Assets /\ t.principle \in Principles /\ t.apr \in Nat
    BY <1>1, TermsOfOrders
  <2>. QED
    BY <1>2, <2>1, <2>2
<1>4. MaxRatio(b, k.order) = RatioOf(limit, asset, t.principle)
  BY DEF MaxRatio
<1>5. MaxRatio(b, k.order) \in Nat
  <2>. HIDE DEF limit, asset, t
  <2>. QED
    BY <1>2, <1>3, <1>4, RatioNat DEF t
<1>6. OfferRatio(b, k) = (MaxRatio(b, k.order) * k.percent) \div 10000
  BY DEF OfferRatio
<1>. HIDE DEF limit, asset, t, c
<1>7. OfferRatio(b, k) \in Nat /\ OfferRatio(b, k) <= MaxRatio(b, k.order)
  BY <1>1, <1>2, <1>5, <1>6, FeeBound DEF PercentValid
<1>8. OfferRatio(b, k) \in Nat \ {0}
  BY <1>2, <1>7
<1>9. UsedCollateral(b, k) = (k.amount * Unit[asset]) \div OfferRatio(b, k)
  BY DEF UsedCollateral, asset
<1>10. UsedCollateral(b, k) \in Nat
  <2>. DEFINE x == k.amount * Unit[asset]
  <2>1. Unit[asset] \in Nat
    BY <1>3, AggregatorAssumption
  <2>2. x \in Nat
    BY <1>1, <2>1
  <2>. HIDE DEF x
  <2>. QED
    BY <1>8, <1>9, <2>2, DivNat DEF x
<1>. QED
  BY <1>1, <1>2, <1>3, <1>5, <1>7, <1>8, <1>10 DEF t

-----------------------------------------------------------------------------
(* The loop over the lend orders                                           *)

NoTotals(m) ==
  LET zero == [i \in DOMAIN m.principles |-> 0]
  IN  [ratio |-> zero, apr |-> zero, collateral |-> zero, amount |-> zero]

IsLoop(m, f) ==
  f = [n \in 0 .. Len(m.picks) |->
         IF n = 0 THEN NoTotals(m) ELSE AddPick(m.borrow, f[n - 1], m.picks[n])]

LEMMA LoopExists ==
  ASSUME NEW m, Len(m.picks) \in Nat  PROVE \E f : IsLoop(m, f)
<1>. DEFINE N == Len(m.picks)
            Entry(f, n) == IF n = 0 THEN NoTotals(m)
                           ELSE AddPick(m.borrow, f[n - 1], m.picks[n])
            Upto(n) == \E f : \A j \in 0 .. n : f[j] = Entry(f, j)
            F == {n \in Nat : Upto(n)}
<1>1. 0 \in F
  <2>. DEFINE f == [j \in {0} |-> NoTotals(m)]
  <2>1. f[0] = NoTotals(m)
    OBVIOUS
  <2>. HIDE DEF f
  <2>2. \A j \in 0 .. 0 : f[j] = Entry(f, j)
    BY <2>1
  <2>3. Upto(0)
    BY <2>2
  <2>. HIDE DEF Upto
  <2>. QED
    BY <2>3
<1>2. ASSUME NEW n \in Nat, n \in F  PROVE n + 1 \in F
  <2>1. PICK h : \A j \in 0 .. n : h[j] = Entry(h, j)
    BY <1>2
  <2>. DEFINE f == [j \in 0 .. n + 1 |-> Entry(h, j)]
  <2>2. ASSUME NEW j \in 0 .. n + 1  PROVE f[j] = Entry(f, j)
    <3>1. CASE j = 0
      BY <3>1
    <3>2. CASE j # 0
      <4>1. j - 1 \in 0 .. n /\ j - 1 \in 0 .. n + 1
        BY <3>2
      <4>2. f[j - 1] = h[j - 1]
        BY <2>1, <4>1
      <4>3. f[j] = AddPick(m.borrow, h[j - 1], m.picks[j])
        BY <3>2
      <4>. HIDE DEF f
      <4>. QED
        BY <3>2, <4>2, <4>3
    <3>. QED
      BY <3>1, <3>2
  <2>. HIDE DEF f
  <2>3. Upto(n + 1)
    BY <2>2
  <2>. HIDE DEF Upto
  <2>. QED
    BY <2>3
<1>3. N \in F
  <2>1. Nat \subseteq F
    <3>. HIDE DEF F
    <3>. QED
      BY <1>1, <1>2, NatSetInduction
  <2>. QED
    BY <2>1
<1>4. PICK h : \A j \in 0 .. N : h[j] = Entry(h, j)
  BY <1>3
<1>. DEFINE f == [j \in 0 .. N |-> Entry(h, j)]
<1>5. ASSUME NEW j \in 0 .. N  PROVE Entry(f, j) = Entry(h, j)
  <2>1. CASE j = 0
    BY <2>1
  <2>2. CASE j # 0
    <3>1. j - 1 \in 0 .. N
      BY <2>2
    <3>2. f[j - 1] = h[j - 1]
      BY <1>4, <3>1
    <3>. HIDE DEF f
    <3>. QED
      BY <2>2, <3>2
  <2>. QED
    BY <2>1, <2>2
<1>6. f = [j \in 0 .. N |-> Entry(f, j)]
  BY <1>5
<1>. QED
  BY <1>6 DEF IsLoop

(* The equations of the loop.                                              *)
LEMMA RoundsEquations ==
  ASSUME NEW m, Len(m.picks) \in Nat
  PROVE  /\ Rounds(m)[0] = NoTotals(m)
         /\ \A n \in 1 .. Len(m.picks) :
              Rounds(m)[n] = AddPick(m.borrow, Rounds(m)[n - 1], m.picks[n])
<1>. DEFINE D(f) == f = [n \in 0 .. Len(m.picks) |->
               IF n = 0 THEN NoTotals(m) ELSE AddPick(m.borrow, f[n - 1], m.picks[n])]
<1>1. \E f : D(f)
  BY LoopExists DEF IsLoop
<1>2. Rounds(m) = CHOOSE f : D(f)
  BY DEF Rounds, NoTotals
<1>3. D(CHOOSE f : D(f))
  <2>. HIDE DEF D
  <2>. QED
    BY <1>1
<1>. DEFINE r == Rounds(m)
<1>4. D(r)
  BY <1>2, <1>3
<1>. HIDE DEF r
<1>. QED
  BY <1>4 DEF r

(* The rounds up to n that concern slot i, and what they add up.           *)
SlotPicks(m, n, i) == {j \in 1 .. n : m.picks[j].slot = i}

AmountOf(m) == [j \in DOMAIN m.picks |-> m.picks[j].amount]

UsedOf(m) == [j \in DOMAIN m.picks |-> UsedCollateral(m.borrow, m.picks[j])]

WeightedRatio(m) ==
  [j \in DOMAIN m.picks |->
     OfferRatio(m.borrow, m.picks[j]) * UsedCollateral(m.borrow, m.picks[j])]

WeightedApr(m) ==
  [j \in DOMAIN m.picks |-> lendTerms[m.picks[j].order].apr * m.picks[j].amount]

(* That the lenders agree to the match and its averages are defined.       *)
Agreed(m) ==
  /\ IsMatch(m) /\ Weighable(m)
  /\ \A i \in DOMAIN m.picks : LenderAgrees(m, m.picks[i])

(* What the totals stand for after n rounds.                               *)
Total(m, acc, n, i) ==
  /\ acc.collateral[i] = SumFunctionOnSet(UsedOf(m), SlotPicks(m, n, i))
  /\ acc.amount[i] = SumFunctionOnSet(AmountOf(m), SlotPicks(m, n, i))
  /\ Averages(acc.ratio[i], acc.collateral[i],
              SumFunctionOnSet(WeightedRatio(m), SlotPicks(m, n, i)),
              Cardinality(SlotPicks(m, n, i)))
  /\ Averages(acc.apr[i], acc.amount[i],
              SumFunctionOnSet(WeightedApr(m), SlotPicks(m, n, i)),
              Cardinality(SlotPicks(m, n, i)))

IsTotals(m, acc) ==
  /\ acc.ratio \in [DOMAIN m.principles -> Nat] /\ acc.apr \in [DOMAIN m.principles -> Nat]
  /\ acc.collateral \in [DOMAIN m.principles -> Nat]
  /\ acc.amount \in [DOMAIN m.principles -> Nat]

(* The picks are naturals.                                                 *)
LEMMA PickNumbers ==
  ASSUME MatchTyped, NEW m, Agreed(m)
  PROVE  \A j \in DOMAIN m.picks :
           /\ UsedOf(m)[j] \in Nat /\ AmountOf(m)[j] \in Nat \ {0}
           /\ WeightedRatio(m)[j] \in Nat /\ WeightedApr(m)[j] \in Nat
<1>. TAKE j \in DOMAIN m.picks
<1>. DEFINE r == OfferRatio(m.borrow, m.picks[j])
            u == UsedCollateral(m.borrow, m.picks[j])
            x == lendTerms[m.picks[j].order].apr
            y == m.picks[j].amount
<1>1. IsMatch(m) /\ LenderAgrees(m, m.picks[j])
  BY DEF Agreed
<1>2. r \in Nat /\ u \in Nat /\ x \in Nat /\ y \in Nat \ {0}
  BY <1>1, PickFacts
<1>3. /\ UsedOf(m)[j] = u /\ AmountOf(m)[j] = y
      /\ WeightedRatio(m)[j] = r * u /\ WeightedApr(m)[j] = x * y
  BY DEF UsedOf, AmountOf, WeightedRatio, WeightedApr
<1>. HIDE DEF r, u, x, y
<1>4. r * u \in Nat /\ x * y \in Nat
  BY <1>2
<1>. QED
  BY <1>2, <1>3, <1>4

(* One round more adds one pick to one slot.                               *)
LEMMA SlotPicksNext ==
  ASSUME NEW m, IsMatch(m), NEW n \in Nat, n + 1 <= Len(m.picks), NEW i
  PROVE  /\ m.picks[n + 1].slot # i => SlotPicks(m, n + 1, i) = SlotPicks(m, n, i)
         /\ m.picks[n + 1].slot = i =>
              SlotPicks(m, n + 1, i) = SlotPicks(m, n, i) \cup {n + 1}
         /\ n + 1 \notin SlotPicks(m, n, i)
         /\ IsFiniteSet(SlotPicks(m, n, i))
         /\ SlotPicks(m, n, i) \subseteq DOMAIN m.picks /\ n + 1 \in DOMAIN m.picks
<1>1. IsFiniteSet(1 .. n)
  BY FS_Interval
<1>2. IsFiniteSet(SlotPicks(m, n, i))
  BY <1>1, FS_Subset DEF SlotPicks
<1>3. 1 .. (n + 1) = (1 .. n) \cup {n + 1}
  OBVIOUS
<1>4. DOMAIN m.picks = 1 .. Len(m.picks) /\ Len(m.picks) \in Nat
  BY DEF IsMatch
<1>5. SlotPicks(m, n, i) \subseteq DOMAIN m.picks /\ n + 1 \in DOMAIN m.picks
  BY <1>4 DEF SlotPicks
<1>6. n + 1 \notin SlotPicks(m, n, i)
  BY DEF SlotPicks
<1>. QED
  BY <1>2, <1>3, <1>5, <1>6 DEF SlotPicks

LEMMA SlotSumNext ==
  ASSUME NEW m, IsMatch(m), NEW n \in Nat, n + 1 <= Len(m.picks),
         NEW i, m.picks[n + 1].slot = i, NEW f, \A j \in DOMAIN m.picks : f[j] \in Nat
  PROVE  SumFunctionOnSet(f, SlotPicks(m, n + 1, i))
           = SumFunctionOnSet(f, SlotPicks(m, n, i)) + f[n + 1]
<1>. DEFINE S == SlotPicks(m, n, i)
<1>1. /\ SlotPicks(m, n + 1, i) = S \cup {n + 1} /\ n + 1 \notin S /\ IsFiniteSet(S)
      /\ S \subseteq DOMAIN m.picks /\ n + 1 \in DOMAIN m.picks
  BY SlotPicksNext
<1>. HIDE DEF S
<1>2. \A x \in S \cup {n + 1} : f[x] \in Int
  BY <1>1
<1>3. SumFunctionOnSet(f, S \cup {n + 1}) = f[n + 1] + SumFunctionOnSet(f, S)
  BY <1>1, <1>2, SumAdd
<1>. DEFINE p == SumFunctionOnSet(f, S)
            q == f[n + 1]
<1>4. p \in Int /\ q \in Int
  BY <1>1, <1>2, SumInt
<1>. HIDE DEF p, q
<1>5. q + p = p + q
  BY <1>4
<1>. QED
  BY <1>1, <1>3, <1>5 DEF S, p, q

LEMMA NoSlotPicks ==
  ASSUME NEW m, NEW i
  PROVE  SlotPicks(m, 0, i) = {} /\ Cardinality(SlotPicks(m, 0, i)) = 0
<1>1. SlotPicks(m, 0, i) = {}
  BY DEF SlotPicks
<1>. QED
  BY <1>1, FS_EmptySet

LEMMA AveragesOfNothing == Averages(0, 0, 0, 0)
BY DEF Averages

LEMMA TotalsStart ==
  ASSUME NEW m
  PROVE  /\ IsTotals(m, NoTotals(m))
         /\ \A i \in DOMAIN m.principles : Total(m, NoTotals(m), 0, i)
<1>1. IsTotals(m, NoTotals(m))
  BY DEF IsTotals, NoTotals
<1>2. ASSUME NEW i \in DOMAIN m.principles
      PROVE  Total(m, NoTotals(m), 0, i)
  <2>1. /\ NoTotals(m).ratio[i] = 0 /\ NoTotals(m).apr[i] = 0
        /\ NoTotals(m).collateral[i] = 0 /\ NoTotals(m).amount[i] = 0
    BY DEF NoTotals
  <2>2. \A f : SumFunctionOnSet(f, SlotPicks(m, 0, i)) = 0
    BY NoSlotPicks, SumEmpty
  <2>. QED
    BY <2>1, <2>2, NoSlotPicks, AveragesOfNothing DEF Total
<1>. QED
  BY <1>1, <1>2

(* The average of the slot that the round concerns.                        *)
LEMMA AverageStep ==
  ASSUME NEW A, NEW C, NEW W, NEW k, Averages(A, C, W, k),
         NEW x \in Nat, NEW w \in Nat, k = 0 => w > 0
  PROVE  Averages(Weighted(A, C, x, w), C + w, W + x * w, k + 1)
<1>1. CASE k = 0
  <2>1. A = 0 /\ C = 0 /\ W = 0
    BY <1>1 DEF Averages
  <2>. DEFINE y == x * w
  <2>2. Averages(Weighted(0, 0, x, w), w, y, 1)
    BY <1>1, AverageFirst
  <2>3. y \in Nat
    OBVIOUS
  <2>. HIDE DEF y
  <2>4. 0 + w = w /\ 0 + y = y /\ 0 + 1 = 1
    BY <2>3
  <2>. QED
    BY <1>1, <2>1, <2>2, <2>4 DEF y
<1>2. CASE k > 0
  BY <1>2, AverageNext
<1>. QED
  BY <1>1, <1>2 DEF Averages

(* One round: the totals of the other slots stay.                          *)
LEMMA TotalsOther ==
  ASSUME NEW m, IsMatch(m), NEW acc, IsTotals(m, acc), NEW n \in Nat, n + 1 <= Len(m.picks),
         NEW i \in DOMAIN m.principles, m.picks[n + 1].slot # i, Total(m, acc, n, i)
  PROVE  Total(m, AddPick(m.borrow, acc, m.picks[n + 1]), n + 1, i)
<1>. DEFINE new == AddPick(m.borrow, acc, m.picks[n + 1])
<1>1. /\ new.ratio[i] = acc.ratio[i] /\ new.apr[i] = acc.apr[i]
      /\ new.collateral[i] = acc.collateral[i] /\ new.amount[i] = acc.amount[i]
  BY DEF AddPick, IsTotals
<1>2. SlotPicks(m, n + 1, i) = SlotPicks(m, n, i)
  BY SlotPicksNext
<1>. HIDE DEF new
<1>3. Total(m, new, n + 1, i)
  BY <1>1, <1>2 DEF Total
<1>. QED
  BY <1>3 DEF new

LEMMA TotalsSame ==
  ASSUME MatchTyped, NEW m, Agreed(m), NEW acc, IsTotals(m, acc), NEW n \in Nat,
         n + 1 <= Len(m.picks), NEW i \in DOMAIN m.principles, m.picks[n + 1].slot = i,
         Total(m, acc, n, i)
  PROVE  /\ Total(m, AddPick(m.borrow, acc, m.picks[n + 1]), n + 1, i)
<1>. DEFINE k == m.picks[n + 1]
            b == m.borrow
            x == OfferRatio(b, k)
            used == UsedCollateral(b, k)
            apr == lendTerms[k.order].apr
            S == SlotPicks(m, n, i)
            c == Cardinality(S)
            new == AddPick(b, acc, k)
            Wr == SumFunctionOnSet(WeightedRatio(m), S)
            Wa == SumFunctionOnSet(WeightedApr(m), S)
<1>1. IsMatch(m) /\ n + 1 \in DOMAIN m.picks /\ LenderAgrees(m, k)
  BY DEF Agreed, IsMatch
<1>2. x \in Nat /\ used \in Nat /\ apr \in Nat /\ k.amount \in Nat \ {0}
  BY <1>1, PickFacts
<1>3. /\ new.ratio[i] = Weighted(acc.ratio[i], acc.collateral[i], x, used)
      /\ new.apr[i] = Weighted(acc.apr[i], acc.amount[i], apr, k.amount)
      /\ new.collateral[i] = acc.collateral[i] + used
      /\ new.amount[i] = acc.amount[i] + k.amount
  BY DEF AddPick, IsTotals
<1>4. /\ S \subseteq DOMAIN m.picks /\ IsFiniteSet(S) /\ n + 1 \notin S
      /\ SlotPicks(m, n + 1, i) = S \cup {n + 1}
  BY <1>1, SlotPicksNext
<1>5. Cardinality(SlotPicks(m, n + 1, i)) = c + 1
  BY <1>4, FS_AddElement
<1>6. /\ UsedOf(m)[n + 1] = used /\ AmountOf(m)[n + 1] = k.amount
      /\ WeightedRatio(m)[n + 1] = x * used /\ WeightedApr(m)[n + 1] = apr * k.amount
  BY <1>1 DEF UsedOf, AmountOf, WeightedRatio, WeightedApr
<1>7. /\ \A j \in DOMAIN m.picks : UsedOf(m)[j] \in Nat
      /\ \A j \in DOMAIN m.picks : AmountOf(m)[j] \in Nat
      /\ \A j \in DOMAIN m.picks : WeightedRatio(m)[j] \in Nat
      /\ \A j \in DOMAIN m.picks : WeightedApr(m)[j] \in Nat
  BY PickNumbers
<1>8. c = 0 => used > 0
  <2>1. PICK j \in 1 .. (n + 1) :
          m.picks[j].slot = k.slot /\ UsedCollateral(b, m.picks[j]) > 0
    BY <1>1 DEF Agreed, Weighable
  <2>2. CASE j = n + 1
    BY <2>1, <2>2
  <2>3. CASE j # n + 1
    <3>1. j \in S
      BY <2>1, <2>3 DEF SlotPicks
    <3>2. S # {}
      BY <3>1
    <3>. HIDE DEF S
    <3>3. c # 0
      BY <1>4, <3>2, FS_EmptySet
    <3>. QED
      BY <3>3
  <2>. QED
    BY <2>2, <2>3
<1>9. /\ SumFunctionOnSet(UsedOf(m), SlotPicks(m, n + 1, i))
           = SumFunctionOnSet(UsedOf(m), S) + used
      /\ SumFunctionOnSet(AmountOf(m), SlotPicks(m, n + 1, i))
           = SumFunctionOnSet(AmountOf(m), S) + k.amount
      /\ SumFunctionOnSet(WeightedRatio(m), SlotPicks(m, n + 1, i)) = Wr + x * used
      /\ SumFunctionOnSet(WeightedApr(m), SlotPicks(m, n + 1, i)) = Wa + apr * k.amount
  <2>1. n + 1 <= Len(m.picks) /\ m.picks[n + 1].slot = i
    OBVIOUS
  <2>. HIDE DEF k, x, used, apr
  <2>2. SumFunctionOnSet(UsedOf(m), SlotPicks(m, n + 1, i))
          = SumFunctionOnSet(UsedOf(m), S) + used
    BY <1>1, <1>6, <1>7, <2>1, SlotSumNext
  <2>3. SumFunctionOnSet(AmountOf(m), SlotPicks(m, n + 1, i))
          = SumFunctionOnSet(AmountOf(m), S) + k.amount
    BY <1>1, <1>6, <1>7, <2>1, SlotSumNext
  <2>4. SumFunctionOnSet(WeightedRatio(m), SlotPicks(m, n + 1, i)) = Wr + x * used
    BY <1>1, <1>6, <1>7, <2>1, SlotSumNext
  <2>5. SumFunctionOnSet(WeightedApr(m), SlotPicks(m, n + 1, i)) = Wa + apr * k.amount
    BY <1>1, <1>6, <1>7, <2>1, SlotSumNext
  <2>. QED
    BY <2>2, <2>3, <2>4, <2>5
<1>10. /\ acc.collateral[i] = SumFunctionOnSet(UsedOf(m), S)
       /\ acc.amount[i] = SumFunctionOnSet(AmountOf(m), S)
       /\ Averages(acc.ratio[i], acc.collateral[i], Wr, c)
       /\ Averages(acc.apr[i], acc.amount[i], Wa, c)
  BY DEF Total
<1>. HIDE DEF new, x, used, apr, S, c, Wr, Wa
<1>11. Averages(new.ratio[i], new.collateral[i], Wr + x * used, c + 1)
  BY <1>2, <1>3, <1>8, <1>10, AverageStep
<1>12. Averages(new.apr[i], new.amount[i], Wa + apr * k.amount, c + 1)
  <2>. DEFINE y == k.amount
  <2>1. y \in Nat /\ (c = 0 => y > 0) /\ apr \in Nat
    BY <1>2
  <2>2. /\ new.apr[i] = Weighted(acc.apr[i], acc.amount[i], apr, y)
        /\ new.amount[i] = acc.amount[i] + y
    BY <1>3
  <2>. HIDE DEF y
  <2>3. Averages(new.apr[i], new.amount[i], Wa + apr * y, c + 1)
    BY <1>10, <2>1, <2>2, AverageStep
  <2>. QED
    BY <2>3 DEF y
<1>13. Total(m, new, n + 1, i)
  BY <1>3, <1>5, <1>9, <1>10, <1>11, <1>12 DEF Total
<1>. QED
  BY <1>13 DEF new

LEMMA TotalsNext ==
  ASSUME MatchTyped, NEW m, Agreed(m), NEW acc, IsTotals(m, acc), NEW n \in Nat,
         n + 1 <= Len(m.picks), \A i \in DOMAIN m.principles : Total(m, acc, n, i)
  PROVE  /\ IsTotals(m, AddPick(m.borrow, acc, m.picks[n + 1]))
         /\ \A i \in DOMAIN m.principles :
              Total(m, AddPick(m.borrow, acc, m.picks[n + 1]), n + 1, i)
<1>. DEFINE k == m.picks[n + 1]
            s == k.slot
            new == AddPick(m.borrow, acc, k)
<1>1. IsMatch(m)
  BY DEF Agreed
<1>2. ASSUME NEW i \in DOMAIN m.principles  PROVE Total(m, new, n + 1, i)
  <2>1. CASE s = i
    BY <2>1, TotalsSame
  <2>2. CASE s # i
    BY <1>1, <2>2, TotalsOther
  <2>. QED
    BY <2>1, <2>2
<1>3. s \in DOMAIN m.principles
  BY <1>1 DEF IsMatch
<1>4. Total(m, new, n + 1, s)
  BY <1>2, <1>3
<1>5. new.ratio[s] \in Nat /\ new.apr[s] \in Nat /\ new.collateral[s] \in Nat /\ new.amount[s] \in Nat
  BY <1>4 DEF Total, Averages
<1>. DEFINE r == new.ratio[s]
            a == new.apr[s]
            c == new.collateral[s]
            v == new.amount[s]
<1>6. /\ new.ratio = [acc.ratio EXCEPT ![s] = r]
      /\ new.apr = [acc.apr EXCEPT ![s] = a]
      /\ new.collateral = [acc.collateral EXCEPT ![s] = c]
      /\ new.amount = [acc.amount EXCEPT ![s] = v]
  BY <1>3 DEF AddPick, IsTotals
<1>7. r \in Nat /\ a \in Nat /\ c \in Nat /\ v \in Nat
  BY <1>5
<1>. HIDE DEF s, r, a, c, v
<1>8. /\ [acc.ratio EXCEPT ![s] = r] \in [DOMAIN m.principles -> Nat]
      /\ [acc.apr EXCEPT ![s] = a] \in [DOMAIN m.principles -> Nat]
      /\ [acc.collateral EXCEPT ![s] = c] \in [DOMAIN m.principles -> Nat]
      /\ [acc.amount EXCEPT ![s] = v] \in [DOMAIN m.principles -> Nat]
  BY <1>7 DEF IsTotals
<1>. HIDE DEF new
<1>9. IsTotals(m, new)
  BY <1>6, <1>8 DEF IsTotals
<1>. QED
  BY <1>2, <1>9 DEF new

(* After n rounds the totals are the sums and the averages of the first n  *)
(* picks; after all of them, of all picks.                                 *)
LEMMA TotalsAreTotals ==
  ASSUME MatchTyped, NEW m, Agreed(m)
  PROVE  /\ IsTotals(m, Totals(m))
         /\ \A i \in DOMAIN m.principles : Total(m, Totals(m), Len(m.picks), i)
<1>. DEFINE N == Len(m.picks)
            Right(acc, n) == /\ IsTotals(m, acc)
                             /\ \A i \in DOMAIN m.principles : Total(m, acc, n, i)
            F == {n \in Nat : n <= N => Right(Rounds(m)[n], n)}
<1>1. N \in Nat
  BY DEF Agreed, IsMatch
<1>2. Rounds(m)[0] = NoTotals(m) /\ \A n \in 1 .. N : Rounds(m)[n] = AddPick(m.borrow, Rounds(m)[n - 1], m.picks[n])
  BY <1>1, RoundsEquations
<1>3. 0 \in F
  BY <1>2, TotalsStart
<1>4. ASSUME NEW n \in Nat, n \in F  PROVE n + 1 \in F
  <2>1. SUFFICES ASSUME n + 1 <= N  PROVE Right(Rounds(m)[n + 1], n + 1)
    OBVIOUS
  <2>. DEFINE acc == Rounds(m)[n]
  <2>2. Right(acc, n)
    BY <1>1, <1>4, <2>1
  <2>3. Rounds(m)[n + 1] = AddPick(m.borrow, acc, m.picks[n + 1])
    <3>1. n + 1 \in 1 .. N /\ (n + 1) - 1 = n
      BY <1>1, <2>1
    <3>. QED
      BY <1>2, <3>1
  <2>. HIDE DEF acc
  <2>4. Right(AddPick(m.borrow, acc, m.picks[n + 1]), n + 1)
    BY <2>1, <2>2, TotalsNext
  <2>. QED
    BY <2>3, <2>4
<1>5. Nat \subseteq F
  <2>. HIDE DEF F
  <2>. QED
    BY <1>3, <1>4, NatSetInduction
<1>6. Right(Rounds(m)[N], N)
  BY <1>1, <1>5
<1>. QED
  BY <1>6 DEF Totals

-----------------------------------------------------------------------------
(* The new loan                                                            *)

(* What an average within limits says of the weighted sum.                 *)
LEMMA AverageLimits ==
  ASSUME NEW A, NEW C, NEW W, NEW k, Averages(A, C, W, k), NEW slack \in Nat,
         k > 0 => slack = 2 * (k - 1)
  PROVE  /\ \A lo \in Nat : lo <= A => W >= lo * C
         /\ \A hi \in Nat : A <= hi => W <= (hi + slack) * C
<1>1. A \in Nat /\ C \in Nat /\ W \in Nat /\ k \in Nat
  BY DEF Averages
<1>2. CASE k = 0
  <2>1. C = 0 /\ W = 0
    BY <1>2 DEF Averages
  <2>. QED
    BY <2>1
<1>3. CASE k > 0
  <2>1. A * C <= W /\ W <= (A + slack) * C
    BY <1>3 DEF Averages
  <2>2. ASSUME NEW lo \in Nat, lo <= A  PROVE W >= lo * C
    <3>1. C * lo <= C * A
      BY <1>1, <2>2, MulMonotone
    <3>. DEFINE x == lo * C
                y == A * C
    <3>2. x \in Nat /\ y \in Nat /\ x <= y
      BY <1>1, <3>1
    <3>3. y <= W
      BY <2>1
    <3>. HIDE DEF x, y
    <3>4. x <= W
      BY <1>1, <3>2, <3>3
    <3>. QED
      BY <1>1, <3>2, <3>4 DEF x
  <2>3. ASSUME NEW hi \in Nat, A <= hi  PROVE W <= (hi + slack) * C
    <3>. DEFINE a == A + slack
                h == hi + slack
    <3>1. a \in Nat /\ h \in Nat /\ a <= h /\ W <= a * C
      BY <1>1, <2>1, <2>3
    <3>. HIDE DEF a, h
    <3>2. C * a <= C * h
      BY <1>1, <3>1, MulMonotone
    <3>. DEFINE x == a * C
                y == h * C
    <3>3. x \in Nat /\ y \in Nat /\ x <= y /\ W <= x
      BY <1>1, <3>1, <3>2
    <3>. HIDE DEF x, y
    <3>4. W <= y
      BY <1>1, <3>3
    <3>. QED
      BY <3>4 DEF y, h
  <2>. QED
    BY <2>2, <2>3
<1>. QED
  BY <1>1, <1>2, <1>3

(* The offers of the new loan, entry by entry.                             *)
LEMMA OffersOfLoan ==
  ASSUME MatchTyped, NEW m, Agreed(m), NEW used \in Nat
  PROVE  LET offers == NewLoan(m, used).offers IN
         /\ offers \in Seq(OfferRecords)
         /\ Len(offers) = Len(m.picks) /\ DOMAIN offers = DOMAIN m.picks
         /\ DOMAIN m.picks = 1 .. Len(m.picks) /\ Len(m.picks) \in Nat
         /\ \A j \in DOMAIN m.picks :
              /\ offers[j].lendOffer = m.picks[j].order
              /\ offers[j].slot = m.picks[j].slot
              /\ offers[j].principleAmount = m.picks[j].amount
              /\ offers[j].apr = lendTerms[m.picks[j].order].apr
              /\ offers[j].ratio = OfferRatio(m.borrow, m.picks[j])
              /\ offers[j].collateralUsed = UsedCollateral(m.borrow, m.picks[j])
              /\ offers[j].maxDeadline = lendTerms[m.picks[j].order].maxDuration
              /\ offers[j].lenderID = minted + j
<1>. DEFINE offers == NewLoan(m, used).offers
            N == Len(m.picks)
<1>1. N \in Nat /\ DOMAIN m.picks = 1 .. N
  BY DEF Agreed, IsMatch
<1>2. offers = [j \in DOMAIN m.picks |->
         [lendOffer |-> m.picks[j].order, principleAmount |-> m.picks[j].amount,
          slot |-> m.picks[j].slot, lenderID |-> minted + j,
          apr |-> lendTerms[m.picks[j].order].apr,
          ratio |-> OfferRatio(m.borrow, m.picks[j]),
          collateralUsed |-> UsedCollateral(m.borrow, m.picks[j]),
          maxDeadline |-> lendTerms[m.picks[j].order].maxDuration]]
  BY DEF NewLoan
<1>. HIDE DEF offers
<1>3. ASSUME NEW j \in DOMAIN m.picks
      PROVE  offers[j] \in OfferRecords
  <2>. DEFINE k == m.picks[j]
              r == OfferRatio(m.borrow, k)
              u == UsedCollateral(m.borrow, k)
              x == lendTerms[k.order].apr
              d == lendTerms[k.order].maxDuration
              id == minted + j
  <2>1. IsMatch(m) /\ LenderAgrees(m, k)
    BY DEF Agreed
  <2>2. r \in Nat /\ u \in Nat /\ x \in Nat /\ k.amount \in Nat
    BY <2>1, PickFacts
  <2>3. k.order \in LendOrders /\ k.slot \in Nat
    BY <2>1 DEF IsMatch
  <2>4. d \in Nat
    BY <2>3, TermsOfOrders
  <2>5. id \in Nat
    BY <1>1 DEF MatchTyped
  <2>6. offers[j] = [lendOffer |-> k.order, principleAmount |-> k.amount, slot |-> k.slot,
                     lenderID |-> id, apr |-> x, ratio |-> r, collateralUsed |-> u,
                     maxDeadline |-> d]
    BY <1>2
  <2>. HIDE DEF k, r, u, x, d, id
  <2>. QED
    BY <2>2, <2>3, <2>4, <2>5, <2>6 DEF OfferRecords
<1>4. DOMAIN offers = 1 .. N
  BY <1>1, <1>2
<1>5. offers \in [1 .. N -> OfferRecords]
  BY <1>1, <1>2, <1>3
<1>6. offers \in Seq(OfferRecords) /\ Len(offers) = N
  BY <1>1, <1>4, <1>5
<1>7. \A j \in DOMAIN m.picks :
              /\ offers[j].lendOffer = m.picks[j].order
              /\ offers[j].slot = m.picks[j].slot
              /\ offers[j].principleAmount = m.picks[j].amount
              /\ offers[j].apr = lendTerms[m.picks[j].order].apr
              /\ offers[j].ratio = OfferRatio(m.borrow, m.picks[j])
              /\ offers[j].collateralUsed = UsedCollateral(m.borrow, m.picks[j])
              /\ offers[j].maxDeadline = lendTerms[m.picks[j].order].maxDuration
              /\ offers[j].lenderID = minted + j
  BY <1>2
<1>8. DOMAIN offers = DOMAIN m.picks
  BY <1>1, <1>4
<1>. QED
  BY <1>1, <1>6, <1>7, <1>8 DEF offers

(* What a sum over the offers of a slot is.                                *)
LEMMA SumsOfLoan ==
  ASSUME MatchTyped, NEW m, Agreed(m), NEW used \in Nat, NEW i
  PROVE  LET loan == NewLoan(m, used)
             S == SlotPicks(m, Len(m.picks), i)
         IN  /\ OffersAt(loan, i) = S
             /\ IsFiniteSet(S) /\ S \subseteq DOMAIN m.picks
             /\ CollateralOf(loan) = UsedOf(m)
             /\ PrincipalOf(loan) = AmountOf(m)
             /\ RatioByCollateral(loan) = WeightedRatio(m)
             /\ AprByPrincipal(loan) = WeightedApr(m)
<1>. DEFINE loan == NewLoan(m, used)
            offers == loan.offers
            S == SlotPicks(m, Len(m.picks), i)
<1>1. /\ DOMAIN offers = DOMAIN m.picks
      /\ DOMAIN m.picks = 1 .. Len(m.picks) /\ Len(m.picks) \in Nat
      /\ \A j \in DOMAIN m.picks :
              /\ offers[j].slot = m.picks[j].slot
              /\ offers[j].principleAmount = m.picks[j].amount
              /\ offers[j].apr = lendTerms[m.picks[j].order].apr
              /\ offers[j].ratio = OfferRatio(m.borrow, m.picks[j])
              /\ offers[j].collateralUsed = UsedCollateral(m.borrow, m.picks[j])
  BY OffersOfLoan
<1>. HIDE DEF loan
<1>2. OffersAt(loan, i) = S
  BY <1>1 DEF SlotPicks, OffersAt
<1>3. S \subseteq DOMAIN m.picks /\ IsFiniteSet(S)
  <2>1. IsFiniteSet(1 .. Len(m.picks))
    BY <1>1, FS_Interval
  <2>. QED
    BY <1>1, <2>1, FS_Subset DEF SlotPicks
<1>4. CollateralOf(loan) = UsedOf(m)
  BY <1>1 DEF CollateralOf, UsedOf
<1>5. PrincipalOf(loan) = AmountOf(m)
  BY <1>1 DEF PrincipalOf, AmountOf
<1>6. RatioByCollateral(loan) = WeightedRatio(m)
  BY <1>1 DEF RatioByCollateral, WeightedRatio
<1>7. AprByPrincipal(loan) = WeightedApr(m)
  BY <1>1 DEF AprByPrincipal, WeightedApr
<1>. QED
  BY <1>2, <1>3, <1>4, <1>5, <1>6, <1>7 DEF loan

(* The new loan keeps the borrower's limits.                               *)
LEMMA BorrowerOfLoan ==
  ASSUME MatchTyped, NEW m, Agreed(m), NEW used \in Nat,
         BorrowerQuotes(m), BorrowerAgrees(m, Totals(m))
  PROVE  BorrowerKept(NewLoan(m, used))
<1>. DEFINE loan == NewLoan(m, used)
            b == m.borrow
<1>1. loan.borrow = b /\ loan.principles = m.principles
  BY DEF NewLoan
<1>2. IsMatch(m)
  BY DEF Agreed
<1>. SUFFICES ASSUME NEW i \in DOMAIN m.principles  PROVE SlotKept(loan, i)
  BY <1>1 DEF BorrowerKept
<1>. DEFINE S == SlotPicks(m, Len(m.picks), i)
            C == SumFunctionOnSet(UsedOf(m), S)
            P == SumFunctionOnSet(AmountOf(m), S)
            Wr == SumFunctionOnSet(WeightedRatio(m), S)
            Wa == SumFunctionOnSet(WeightedApr(m), S)
            k == Cardinality(S)
            slack == IF S = {} THEN 0 ELSE 2 * (k - 1)
            acc == Totals(m)
            target == BorrowerRatio(b, m.principles[i])
            lo == (target * 9800) \div 10000
            hi == (target * 10200) \div 10000
            maxApr == borrowTerms[b].maxApr
<1>3. /\ OffersAt(loan, i) = S /\ IsFiniteSet(S)
      /\ CollateralOf(loan) = UsedOf(m) /\ PrincipalOf(loan) = AmountOf(m)
      /\ RatioByCollateral(loan) = WeightedRatio(m) /\ AprByPrincipal(loan) = WeightedApr(m)
  BY SumsOfLoan
<1>4. /\ Averages(acc.ratio[i], C, Wr, k) /\ Averages(acc.apr[i], P, Wa, k)
  BY TotalsAreTotals DEF Total
<1>5. target \in Nat
  <2>. DEFINE p == m.principles[i]
              t == borrowTerms[b]
  <2>1. p \in Principles /\ b \in BorrowOrders
    BY <1>2 DEF IsMatch
  <2>2. p \in DOMAIN t.ratio /\ Quotable(t.ratio[p], p)
    BY Zenon DEF BorrowerQuotes
  <2>3. t \in BorrowTerms /\ t.asset \in Assets
    BY <2>1, TermsOfOrders
  <2>4. \A q \in DOMAIN t.ratio : t.ratio[q] \in Limits
    BY <2>3, AggregatorAssumption
  <2>5. target = RatioOf(t.ratio[p], t.asset, p)
    BY DEF BorrowerRatio
  <2>. HIDE DEF t, p, target
  <2>. QED
    BY <2>1, <2>2, <2>3, <2>4, <2>5, RatioNat
<1>6. lo \in Nat /\ hi \in Nat
  <2>. HIDE DEF target
  <2>. QED
    BY <1>5
<1>7. maxApr \in Nat
  BY <1>2, TermsOfOrders DEF IsMatch
<1>8. lo <= acc.ratio[i] /\ acc.ratio[i] <= hi /\ acc.apr[i] <= maxApr
  BY DEF BorrowerAgrees, Within
<1>9. slack \in Nat /\ (k > 0 => slack = 2 * (k - 1))
  <2>1. k \in Nat /\ (S = {} <=> k = 0)
    BY <1>3, FS_CardinalityType, FS_EmptySet
  <2>. HIDE DEF k, S
  <2>. QED
    BY <2>1
<1>. HIDE DEF slack, k, C, P, Wr, Wa, acc, lo, hi, maxApr, S, loan
<1>10. Wr >= lo * C /\ Wr <= (hi + slack) * C
  BY <1>4, <1>6, <1>8, <1>9, AverageLimits
<1>11. Wa <= (maxApr + slack) * P
  BY <1>4, <1>7, <1>8, <1>9, AverageLimits
<1>12. /\ SumFunctionOnSet(CollateralOf(loan), OffersAt(loan, i)) = C
       /\ SumFunctionOnSet(PrincipalOf(loan), OffersAt(loan, i)) = P
       /\ SumFunctionOnSet(RatioByCollateral(loan), OffersAt(loan, i)) = Wr
       /\ SumFunctionOnSet(AprByPrincipal(loan), OffersAt(loan, i)) = Wa
       /\ (IF OffersAt(loan, i) = {} THEN 0 ELSE 2 * (Cardinality(OffersAt(loan, i)) - 1)) = slack
       /\ (BorrowerRatio(loan.borrow, loan.principles[i]) * 9800) \div 10000 = lo
       /\ (BorrowerRatio(loan.borrow, loan.principles[i]) * 10200) \div 10000 = hi
       /\ borrowTerms[loan.borrow].maxApr = maxApr
  BY <1>1, <1>3 DEF slack, k, C, P, Wr, Wa, lo, hi, maxApr
<1>. QED
  BY <1>10, <1>11, <1>12 DEF SlotKept

(* A principal asks for its quotient by the ratio, up to one unit.         *)
LEMMA LentWithinRatio ==
  ASSUME NEW lent \in Nat, NEW r \in Nat \ {0}, NEW M \in Nat, r <= M,
         NEW u, u = lent \div r
  PROVE  u \in Nat /\ lent < M * (u + 1)
<1>1. u \in Nat /\ lent < r * u + r
  BY DivNat, DivRest
<1>. DEFINE v == u + 1
            x == r * v
            y == M * v
<1>2. v \in Nat
  BY <1>1
<1>3. r * v = r * u + r
  BY <1>1
<1>. HIDE DEF v
<1>4. v * r <= v * M
  BY <1>2, MulMonotone
<1>5. x \in Nat /\ y \in Nat /\ x <= y /\ lent < x
  BY <1>1, <1>2, <1>3, <1>4
<1>. HIDE DEF x, y
<1>6. lent < y
  BY <1>5
<1>. QED
  BY <1>1, <1>6 DEF y, v

(* The same at prices: w is worth no less than M principle at c.           *)
LEMMA LentWithinWorth ==
  ASSUME NEW lent \in Nat, NEW M \in Nat, NEW v \in Nat, lent < M * v,
         NEW c \in Nat \ {0}, NEW w \in Nat, M * c <= w
  PROVE  lent * c < w * v
<1>. DEFINE x == M * v
            y == M * c
            a == lent * c
            d == x * c
            e == w * v
<1>1. x \in Nat /\ y \in Nat /\ a \in Nat /\ d \in Nat /\ e \in Nat
  OBVIOUS
<1>2. a < d
  <2>1. lent + 1 <= x
    BY <1>1
  <2>. HIDE DEF x
  <2>2. c * (lent + 1) <= c * x
    BY <1>1, <2>1, MulMonotone
  <2>3. c * (lent + 1) = a + c /\ c * x = d
    BY <1>1
  <2>. HIDE DEF a, d
  <2>. QED
    BY <1>1, <2>2, <2>3
<1>3. d = v * y
  OBVIOUS
<1>4. v * y <= v * w
  <2>. HIDE DEF y
  <2>. QED
    BY <1>1, MulMonotone DEF y
<1>5. v * w = e
  OBVIOUS
<1>. DEFINE g == v * w
            h == v * y
<1>6. g \in Nat /\ h \in Nat /\ h <= g /\ d = h /\ g = e
  BY <1>1, <1>3, <1>4, <1>5
<1>. HIDE DEF x, y, a, d, e, g, h
<1>7. a < e
  BY <1>1, <1>2, <1>6
<1>. QED
  BY <1>7 DEF a, e

(* The new loan keeps the lenders' limits.                                 *)
LEMMA LenderOfLoan ==
  ASSUME MatchTyped, NEW m, Agreed(m), NEW used \in Nat
  PROVE  LenderKept(NewLoan(m, used))
<1>. DEFINE loan == NewLoan(m, used)
            offers == loan.offers
            b == borrowTerms[m.borrow]
<1>1. loan.borrow = m.borrow
  BY DEF NewLoan
<1>2. /\ DOMAIN offers = DOMAIN m.picks
      /\ \A j \in DOMAIN m.picks :
           /\ offers[j].lendOffer = m.picks[j].order
           /\ offers[j].principleAmount = m.picks[j].amount
           /\ offers[j].ratio = OfferRatio(m.borrow, m.picks[j])
           /\ offers[j].collateralUsed = UsedCollateral(m.borrow, m.picks[j])
  BY OffersOfLoan
<1>. HIDE DEF loan
<1>3. ASSUME NEW j \in DOMAIN m.picks  PROVE OfferKept(b, offers[j])
  <2>. DEFINE k == m.picks[j]
              o == offers[j]
              t == lendTerms[o.lendOffer]
              limit == t.maxRatio[b.collateral]
              p == t.principle
              lent == o.principleAmount * Unit[b.asset]
              r == OfferRatio(m.borrow, k)
              u == o.collateralUsed
              M == MaxRatio(m.borrow, k.order)
  <2>1. IsMatch(m) /\ LenderAgrees(m, k)
    BY DEF Agreed
  <2>2. o.lendOffer = k.order /\ o.principleAmount = k.amount /\ u = UsedCollateral(m.borrow, k)
    BY <1>2
  <2>. HIDE DEF o
  <2>3. r \in Nat \ {0} /\ M \in Nat /\ r <= M /\ o.principleAmount \in Nat
    BY <2>1, <2>2, PickFacts
  <2>4. /\ b.collateral \in DOMAIN t.maxRatio /\ Quotable(limit, t.principle)
    <3>1. /\ b.collateral \in DOMAIN lendTerms[k.order].maxRatio
          /\ Quotable(lendTerms[k.order].maxRatio[b.collateral], lendTerms[k.order].principle)
      BY <2>1, Zenon DEF LenderAgrees
    <3>. QED
      BY <2>2, <3>1
  <2>5. m.borrow \in BorrowOrders /\ o.lendOffer \in LendOrders
    BY <2>1, <2>2 DEF IsMatch
  <2>6. limit \in Limits /\ b.asset \in Assets /\ p \in Principles
    <3>1. \A d \in DOMAIN t.maxRatio : t.maxRatio[d] \in Limits
      BY <2>5, TermsOfOrders
    <3>2. b.asset \in Assets /\ p \in Principles
      BY <2>5, TermsOfOrders
    <3>. QED
      BY <2>4, <3>1, <3>2
  <2>7. M = RatioOf(limit, b.asset, p)
    BY <2>2 DEF MaxRatio
  <2>8. u = lent \div r
    BY <2>2 DEF UsedCollateral
  <2>9. Unit[b.asset] \in Nat /\ Unit[p] \in Nat
    BY <2>6, AggregatorAssumption
  <2>10. lent \in Nat
    BY <2>3, <2>9
  <2>11. price[p] \in Nat /\ price[b.asset] \in Nat /\ limit.value \in Nat
    BY <2>6, TermsOfOrders DEF Limits
  <2>12. /\ limit.oracle => M * price[p] * 10000 <= limit.value * price[b.asset] * Unit[p]
         /\ ~limit.oracle => M = limit.value
         /\ limit.oracle => price[p] > 0
    <3>. HIDE DEF limit, p, b, M
    <3>. QED
      BY <2>4, <2>6, <2>7, RatioNat DEF p, Quotable
  <2>13. u \in Nat /\ lent < M * (u + 1)
    <3>. HIDE DEF lent, r, M, u
    <3>. QED
      BY <2>3, <2>8, <2>10, LentWithinRatio
  <2>. DEFINE w == limit.value * price[b.asset] * Unit[p]
  <2>14. ASSUME limit.oracle
         PROVE  lent * price[p] * 10000 < w * (u + 1)
    <3>. DEFINE pp == price[p]
                c == pp * 10000
                v == u + 1
                z == limit.value * price[b.asset]
                e == lent * price[p] * 10000
    <3>1. c \in Nat \ {0} /\ v \in Nat
      <4>1. pp \in Nat \ {0}
        BY <2>11, <2>12, <2>14
      <4>. HIDE DEF pp, u
      <4>. QED
        BY <2>13, <4>1
    <3>2. z \in Nat
      BY <2>11
    <3>3. w \in Nat
      <4>. HIDE DEF z
      <4>. QED  BY <2>9, <3>2 DEF z
    <3>4. M * c = M * price[p] * 10000 /\ lent * c = e
      <4>. HIDE DEF M, p, lent
      <4>. QED  BY <2>3, <2>10, <2>11
    <3>5. M * c <= w
      BY <2>12, <2>14, <3>4
    <3>6. lent < M * v
      BY <2>13
    <3>7. lent * c < w * v
      <4>. HIDE DEF c, w, v, lent, M
      <4>. QED
        BY <2>3, <2>10, <3>1, <3>3, <3>5, <3>6, LentWithinWorth
    <3>. DEFINE x == lent * c
                y == w * v
    <3>8. x = e /\ x < y
      <4>. HIDE DEF w, v, lent, c
      <4>. QED
        BY <3>4, <3>7
    <3>. HIDE DEF x, y, e
    <3>9. e < y
      BY <3>8
    <3>. QED
      BY <3>9 DEF e, y
  <2>15. ASSUME ~limit.oracle
         PROVE  lent < limit.value * (u + 1)
    <3>1. M = limit.value
      BY <2>12, <2>15
    <3>. DEFINE x == M * (u + 1)
                y == limit.value * (u + 1)
    <3>2. x = y
      BY <3>1, Zenon
    <3>3. lent < x
      BY <2>13
    <3>. HIDE DEF x, y, lent
    <3>4. lent < y
      BY <3>2, <3>3
    <3>. QED
      BY <3>4 DEF y
  <2>16. OfferKept(b, o)
    <3>1. CASE limit.oracle
      BY ONLY <2>14, <3>1 DEF OfferKept
    <3>2. CASE ~limit.oracle
      BY ONLY <2>15, <3>2 DEF OfferKept
    <3>. QED
      BY <3>1, <3>2
  <2>. QED
    BY <2>16 DEF o
<1>4. \A o \in Range(offers) : OfferKept(b, o)
  BY <1>2, <1>3 DEF Range
<1>. QED
  BY <1>1, <1>4 DEF LenderKept, loan

-----------------------------------------------------------------------------
(* What a match moves                                                      *)

(* The picks of the slots of the set G, added up slot by slot.             *)
LEMMA SumOfSlots ==
  ASSUME NEW m, IsMatch(m), NEW f, \A j \in DOMAIN m.picks : f[j] \in Nat,
         NEW G, G \subseteq DOMAIN m.principles,
         NEW s, \A i \in G : s[i] = SumFunctionOnSet(f, SlotPicks(m, Len(m.picks), i))
  PROVE  SumFunctionOnSet(s, G)
           = SumFunctionOnSet(f, {j \in DOMAIN m.picks : m.picks[j].slot \in G})
<1>. DEFINE S == {j \in DOMAIN m.picks : m.picks[j].slot \in G}
            part == [i \in G |-> SlotPicks(m, Len(m.picks), i)]
<1>1. /\ DOMAIN m.picks = 1 .. Len(m.picks) /\ Len(m.picks) \in Nat
      /\ m.principles \in Seq(Principles)
  BY DEF IsMatch
<1>2. IsFiniteSet(S)
  <2>1. IsFiniteSet(DOMAIN m.picks)
    BY <1>1, FS_Interval
  <2>. QED
    BY <2>1, FS_Subset
<1>3. IsFiniteSet(G)
  <2>1. DOMAIN m.principles = 1 .. Len(m.principles) /\ Len(m.principles) \in Nat
    BY <1>1
  <2>2. IsFiniteSet(DOMAIN m.principles)
    BY <2>1, FS_Interval
  <2>. QED
    BY <2>2, FS_Subset
<1>4. Divides(part, G, S)
  <2>1. \A t \in G : part[t] \subseteq S
    BY <1>1 DEF SlotPicks
  <2>2. \A t, u \in G : t # u => part[t] \cap part[u] = {}
    BY DEF SlotPicks
  <2>3. \A x \in S : \E t \in G : x \in part[t]
    BY <1>1 DEF SlotPicks
  <2>. QED
    BY <2>1, <2>2, <2>3 DEF Divides
<1>5. \A t \in G : s[t] = SumFunctionOnSet(f, part[t])
  OBVIOUS
<1>6. \A x \in S : f[x] \in Int
  OBVIOUS
<1>. HIDE DEF S, part
<1>7. SumFunctionOnSet(f, S) = SumFunctionOnSet(s, G)
  BY <1>2, <1>3, <1>4, <1>5, <1>6, SumGroups
<1>. QED
  BY <1>7 DEF S

(* What leaves the lend orders of a principle is what its slots add up.    *)
LEMMA LentOfPrinciple ==
  ASSUME MatchTyped, NEW m, Agreed(m), NEW p
  PROVE  /\ SumFunctionOnSet([l \in LendOrders |-> TakenFrom(m, l)],
                             {l \in LendOrders : lendTerms[l].principle = p})
              = PerPrinciple(m, Totals(m).amount, p)
         /\ \A l \in LendOrders : TakenFrom(m, l) \in Nat
<1>. DEFINE f == AmountOf(m)
            L == {l \in LendOrders : lendTerms[l].principle = p}
            G == {i \in DOMAIN m.principles : m.principles[i] = p}
            S == {j \in DOMAIN m.picks : m.picks[j].slot \in G}
            From(l) == {i \in DOMAIN m.picks : m.picks[i].order = l}
            part == [l \in L |-> From(l)]
            taken == [l \in LendOrders |-> TakenFrom(m, l)]
<1>1. IsMatch(m) /\ \A j \in DOMAIN m.picks : f[j] \in Nat
  <2>1. IsMatch(m)
    BY DEF Agreed
  <2>. QED
    BY <2>1, PickNumbers
<1>2. /\ DOMAIN m.picks = 1 .. Len(m.picks) /\ Len(m.picks) \in Nat
      /\ \A j \in DOMAIN m.picks : m.picks[j].order \in LendOrders
      /\ \A j \in DOMAIN m.picks : m.picks[j].slot \in DOMAIN m.principles
  <2>1. IsMatch(m)
    BY <1>1
  <2>2. DOMAIN m.picks = 1 .. Len(m.picks) /\ Len(m.picks) \in Nat
    BY <2>1 DEF IsMatch
  <2>3. \A j \in DOMAIN m.picks : m.picks[j].order \in LendOrders
    BY <2>1, Zenon DEF IsMatch
  <2>4. \A j \in DOMAIN m.picks : m.picks[j].slot \in DOMAIN m.principles
    BY <2>1, Zenon DEF IsMatch
  <2>. QED
    BY <2>2, <2>3, <2>4
<1>3. IsFiniteSet(DOMAIN m.picks)
  <2>1. IsFiniteSet(1 .. Len(m.picks))
    BY <1>2, FS_Interval
  <2>. QED
    BY <1>2, <2>1
<1>4. \A l \in LendOrders : TakenFrom(m, l) = SumFunctionOnSet(f, From(l))
  BY DEF TakenFrom, AmountOf
<1>5. \A l \in LendOrders : TakenFrom(m, l) \in Nat
  <2>. TAKE l \in LendOrders
  <2>1. IsFiniteSet(From(l)) /\ \A x \in From(l) : f[x] \in Nat
    BY <1>1, <1>3, FS_Subset
  <2>. HIDE DEF f, From
  <2>. QED
    BY <1>4, <2>1, SumNat
<1>6. \A j \in DOMAIN m.picks : lendTerms[m.picks[j].order].principle = m.principles[m.picks[j].slot]
  <2>. TAKE j \in DOMAIN m.picks
  <2>1. LenderAgrees(m, m.picks[j])
    BY DEF Agreed
  <2>. QED
    BY <2>1, Zenon DEF LenderAgrees
<1>7. IsFiniteSet(S) /\ IsFiniteSet(L)
  BY <1>3, FS_Subset, AggregatorAssumption
<1>8. Divides(part, L, S)
  <2>1. \A t \in L : part[t] \subseteq S
    BY <1>2, <1>6
  <2>2. \A t, u \in L : t # u => part[t] \cap part[u] = {}
    OBVIOUS
  <2>3. \A x \in S : \E t \in L : x \in part[t]
    BY <1>2, <1>6
  <2>. QED
    BY <2>1, <2>2, <2>3 DEF Divides
<1>9. \A t \in L : taken[t] = SumFunctionOnSet(f, part[t])
  BY <1>4
<1>10. SumFunctionOnSet(f, S) = SumFunctionOnSet(taken, L)
  <2>1. \A x \in S : f[x] \in Int
    BY <1>1
  <2>. HIDE DEF f, S, L, part, taken
  <2>. QED
    BY <1>7, <1>8, <1>9, <2>1, SumGroups
<1>11. \A i \in G : Totals(m).amount[i] = SumFunctionOnSet(f, SlotPicks(m, Len(m.picks), i))
  BY TotalsAreTotals DEF Total
<1>12. SumFunctionOnSet(Totals(m).amount, G) = SumFunctionOnSet(f, S)
  <2>1. G \subseteq DOMAIN m.principles
    OBVIOUS
  <2>. HIDE DEF f, G
  <2>. QED
    BY <1>1, <1>11, <2>1, SumOfSlots
<1>. HIDE DEF f, S
<1>. QED
  BY <1>5, <1>10, <1>12 DEF PerPrinciple

(* The collateral of the match is what its picks use.                      *)
LEMMA UsedOfMatch ==
  ASSUME MatchTyped, NEW m, Agreed(m)
  PROVE  /\ SumFunctionOnSet(Totals(m).collateral, DOMAIN m.principles)
              = SumFunctionOnSet(UsedOf(m), DOMAIN m.picks)
         /\ SumFunctionOnSet(UsedOf(m), DOMAIN m.picks) \in Nat
<1>1. IsMatch(m) /\ \A j \in DOMAIN m.picks : UsedOf(m)[j] \in Nat
  <2>1. IsMatch(m)
    BY DEF Agreed
  <2>. QED
    BY <2>1, PickNumbers
<1>2. {j \in DOMAIN m.picks : m.picks[j].slot \in DOMAIN m.principles} = DOMAIN m.picks
  BY <1>1 DEF IsMatch
<1>3. \A i \in DOMAIN m.principles :
        Totals(m).collateral[i] = SumFunctionOnSet(UsedOf(m), SlotPicks(m, Len(m.picks), i))
  BY TotalsAreTotals DEF Total
<1>4. SumFunctionOnSet(Totals(m).collateral, DOMAIN m.principles)
        = SumFunctionOnSet(UsedOf(m), {j \in DOMAIN m.picks : m.picks[j].slot \in DOMAIN m.principles})
  BY <1>1, <1>3, SumOfSlots
<1>5. IsFiniteSet(DOMAIN m.picks)
  <2>1. DOMAIN m.picks = 1 .. Len(m.picks) /\ Len(m.picks) \in Nat
    BY <1>1 DEF IsMatch
  <2>. QED
    BY <2>1, FS_Interval
<1>. QED
  BY <1>1, <1>2, <1>4, <1>5, SumNat

(* The percentage of the fees.                                             *)
LEMMA PercentageRange ==
  ASSUME MatchTyped, NEW b \in BorrowOrders
  PROVE  Percentage(b) \in 10 .. 100
<1>. DEFINE d == borrowTerms[b].duration
            y == d * feePerDay
            x == y \div Day
            z == Min({maxFEE, x})
<1>1. d \in Nat /\ feePerDay \in Nat /\ Day \in Nat \ {0}
  BY TermsOfOrders, AggregatorAssumption DEF MatchTyped
<1>2. y \in Nat
  BY <1>1
<1>3. x \in Nat
  <2>. HIDE DEF y
  <2>. QED
    BY <1>1, <1>2, DivNat
<1>4. maxFEE \in 50 .. 100 /\ minFEE \in 10 .. 50
  BY DEF MatchTyped
<1>5. z \in {maxFEE, x} /\ z <= maxFEE
  <2>. HIDE DEF x
  <2>1. {maxFEE, x} \in SUBSET Nat /\ {maxFEE, x} # {} /\ maxFEE \in {maxFEE, x}
    BY <1>3, <1>4
  <2>. QED
    BY <2>1, MinOfNaturals
<1>6. z \in Nat /\ z <= 100
  <2>. HIDE DEF x, z
  <2>. QED
    BY <1>3, <1>4, <1>5
<1>7. Percentage(b) = Max({minFEE, z})
  BY DEF Percentage
<1>. HIDE DEF z
<1>8. minFEE \in Nat
  BY <1>4
<1>9. Percentage(b) \in {minFEE, z} /\ Percentage(b) >= minFEE
  BY <1>6, <1>7, <1>8, MaxOfPair
<1>. QED
  BY <1>4, <1>6, <1>9

(* The fees of a match and the callers' shares of them.                    *)
FeeOf(m, amount) == [i \in DOMAIN amount |-> (amount[i] * Percentage(m.borrow)) \div 10000]

RewardOf(fee) == [i \in DOMAIN fee |-> (fee[i] * feeCONNECTOR) \div 10000]

(* One fee.                                                                *)
LEMMA OneFee ==
  ASSUME NEW x \in Nat, NEW q \in Nat, q <= 100, NEW c \in Nat, c <= 2000,
         NEW fee, fee = (x * q) \div 10000, NEW reward, reward = (fee * c) \div 10000
  PROVE  fee \in Nat /\ reward \in Nat /\ 100 * fee <= x /\ 5 * reward <= fee
<1>. DEFINE y == x * q
<1>1. y \in Nat /\ x * 100 \in Nat /\ y <= x * 100
  BY MulMonotone, 100 \in Nat
<1>. HIDE DEF y
<1>2. fee = y \div 10000
  BY DEF y
<1>3. fee \in Nat /\ 100 * fee <= x
  BY <1>1, <1>2
<1>. DEFINE z == fee * c
<1>4. z \in Nat /\ z <= fee * 2000
  BY <1>3, MulMonotone, 2000 \in Nat
<1>. HIDE DEF z
<1>5. reward = z \div 10000
  BY DEF z
<1>6. reward \in Nat /\ 5 * reward <= fee
  BY <1>3, <1>4, <1>5
<1>. QED
  BY <1>3, <1>6

LEMMA FeesOfPrinciple ==
  ASSUME MatchTyped, NEW m, IsMatch(m), NEW amount \in [DOMAIN m.principles -> Nat], NEW p
  PROVE  LET fee == FeeOf(m, amount)
             A == PerPrinciple(m, amount, p)
             F == PerPrinciple(m, fee, p)
             R == PerPrinciple(m, RewardOf(fee), p)
         IN  /\ A \in Nat /\ F \in Nat /\ R \in Nat
             /\ 100 * F <= A /\ 5 * R <= F
<1>. DEFINE fee == FeeOf(m, amount)
            reward == RewardOf(fee)
            q == Percentage(m.borrow)
            D == DOMAIN m.principles
            G == {i \in D : m.principles[i] = p}
<1>1. m.borrow \in BorrowOrders /\ D = 1 .. Len(m.principles) /\ Len(m.principles) \in Nat
  <2>1. m.borrow \in BorrowOrders /\ m.principles \in Seq(Principles)
    BY DEF IsMatch
  <2>. QED
    BY <2>1
<1>2. q \in Nat /\ q <= 100 /\ feeCONNECTOR \in Nat /\ feeCONNECTOR <= 2000
  <2>1. q \in 10 .. 100
    BY <1>1, PercentageRange
  <2>2. feeCONNECTOR \in 500 .. 2000
    BY DEF MatchTyped
  <2>. HIDE DEF q
  <2>. QED
    BY <2>1, <2>2
<1>3. \A i \in D : amount[i] \in Nat /\ fee[i] = (amount[i] * q) \div 10000
                   /\ reward[i] = (fee[i] * feeCONNECTOR) \div 10000
  BY DEF FeeOf, RewardOf
<1>. HIDE DEF fee, reward, q, D
<1>4. ASSUME NEW i \in D
      PROVE  fee[i] \in Nat /\ reward[i] \in Nat /\ 100 * fee[i] <= amount[i] /\ 5 * reward[i] <= fee[i]
  BY <1>2, <1>3, OneFee
<1>5. IsFiniteSet(G) /\ G \subseteq D
  <2>1. IsFiniteSet(1 .. Len(m.principles))
    BY <1>1, FS_Interval
  <2>. QED
    BY <1>1, <2>1, FS_Subset
<1>. HIDE DEF G
<1>6. \A i \in G : amount[i] \in Nat /\ fee[i] \in Nat /\ reward[i] \in Nat
  BY <1>3, <1>4, <1>5
<1>7. Outweighs(1, amount, 100, fee, G) /\ Outweighs(1, fee, 5, reward, G)
  BY <1>4, <1>5, <1>6 DEF Outweighs
<1>. DEFINE A == SumFunctionOnSet(amount, G)
            F == SumFunctionOnSet(fee, G)
            R == SumFunctionOnSet(reward, G)
<1>8. A \in Nat /\ F \in Nat /\ R \in Nat
  BY <1>5, <1>6, SumNat
<1>9. 100 * F <= 1 * A
  BY <1>5, <1>7, SumWeighted, 1 \in Int, 100 \in Int
<1>10. 5 * R <= 1 * F
  BY <1>5, <1>7, SumWeighted, 1 \in Int, 5 \in Int
<1>11. /\ PerPrinciple(m, amount, p) = A
       /\ PerPrinciple(m, FeeOf(m, amount), p) = F
       /\ PerPrinciple(m, RewardOf(FeeOf(m, amount)), p) = R
  BY DEF PerPrinciple, G, D, fee, reward
<1>. HIDE DEF A, F, R
<1>12. 100 * F <= A /\ 5 * R <= F
  BY <1>8, <1>9, <1>10
<1>. QED
  BY <1>8, <1>11, <1>12

(* The principle of a match is conserved.                                  *)
LEMMA PayOutConserves ==
  ASSUME MatchTyped, NEW m, Agreed(m), PayOut(m, Totals(m).amount),
         \A l \in LendOrders : TakenFrom(m, l) <= available[l],
         available' = [l \in LendOrders |-> available[l] - TakenFrom(m, l)],
         UNCHANGED lendTerms, NEW p \in Principles, PrincipleConserved(p)
  PROVE  /\ PrincipleConserved(p)'
         /\ held'[p] \in Nat /\ toProtocol'[p] \in Nat
         /\ toConnectors'[p] \in Nat /\ toBorrowers'[p] \in Nat
<1>. DEFINE amount == Totals(m).amount
            fee == FeeOf(m, amount)
            reward == RewardOf(fee)
            A == PerPrinciple(m, amount, p)
            F == PerPrinciple(m, fee, p)
            R == PerPrinciple(m, reward, p)
            L == {l \in LendOrders : lendTerms[l].principle = p}
            taken == [l \in LendOrders |-> TakenFrom(m, l)]
            out == [l \in LendOrders |-> lendTerms[l].funds - available[l]]
            outNext == [l \in LendOrders |-> lendTerms[l].funds - available'[l]]
            lent == SumFunctionOnSet(out, L)
            lentNext == SumFunctionOnSet(outNext, L)
<1>1. IsMatch(m) /\ amount \in [DOMAIN m.principles -> Nat]
  <2>1. IsMatch(m)
    BY DEF Agreed
  <2>. QED
    BY <2>1, TotalsAreTotals DEF IsTotals
<1>2. A \in Nat /\ F \in Nat /\ R \in Nat /\ 100 * F <= A /\ 5 * R <= F
  <2>. HIDE DEF amount
  <2>. QED
    BY <1>1, FeesOfPrinciple
<1>3. SumFunctionOnSet(taken, L) = A /\ \A l \in LendOrders : TakenFrom(m, l) \in Nat
  BY LentOfPrinciple
<1>4. /\ DOMAIN amount = DOMAIN m.principles
      /\ fee = [i \in DOMAIN amount |-> (amount[i] * Percentage(m.borrow)) \div 10000]
      /\ reward = [i \in DOMAIN amount |-> (fee[i] * feeCONNECTOR) \div 10000]
  <2>1. DOMAIN amount = DOMAIN m.principles
    BY <1>1
  <2>. HIDE DEF amount
  <2>. QED
    BY <2>1 DEF FeeOf, RewardOf
<1>5. /\ toProtocol'[p] = toProtocol[p] + (F - R)
      /\ toConnectors'[p] = toConnectors[p] + R
      /\ toBorrowers'[p] = toBorrowers[p] + (A - F)
      /\ held'[p] = held[p] + SumFunctionOnSet(taken, L) - (F - R) - R - (A - F)
  BY DEF PayOut, FeeOf, RewardOf
<1>6. /\ toProtocol[p] \in Nat /\ toConnectors[p] \in Nat /\ toBorrowers[p] \in Nat
      /\ held[p] \in Nat
  BY DEF MatchTyped
<1>7. IsFiniteSet(L)
  BY AggregatorAssumption, FS_Subset
<1>8. \A l \in L : out[l] \in Int /\ taken[l] \in Int /\ outNext[l] = out[l] + taken[l]
  <2>. TAKE l \in L
  <2>1. lendTerms[l].funds \in Nat
    BY TermsOfOrders
  <2>2. available[l] \in Nat
    BY DEF MatchTyped
  <2>3. available'[l] = available[l] - TakenFrom(m, l)
    OBVIOUS
  <2>. QED
    BY <1>3, <2>1, <2>2, <2>3
<1>9. lentNext = lent + A /\ lent \in Int
  <2>1. SumFunctionOnSet(outNext, L) = SumFunctionOnSet(out, L) + SumFunctionOnSet(taken, L)
    <3>. HIDE DEF out, taken, outNext, L
    <3>. QED
      BY <1>7, <1>8, SumPlus
  <2>2. SumFunctionOnSet(out, L) \in Int
    <3>. HIDE DEF out, L
    <3>. QED
      BY <1>7, <1>8, SumInt
  <2>. QED
    BY <1>3, <2>1, <2>2
<1>10. /\ held[p] = 0
       /\ lent = toBorrowers[p] + toProtocol[p] + toConnectors[p]
       /\ (toProtocol[p] + toConnectors[p]) * 100 <= lent
       /\ toConnectors[p] * 4 <= toProtocol[p]
  BY Zenon DEF PrincipleConserved
<1>11. PrincipleConserved(p)' =
         (/\ held'[p] = 0
          /\ lentNext = toBorrowers'[p] + toProtocol'[p] + toConnectors'[p]
          /\ (toProtocol'[p] + toConnectors'[p]) * 100 <= lentNext
          /\ toConnectors'[p] * 4 <= toProtocol'[p])
  BY DEF PrincipleConserved
<1>. HIDE DEF A, F, R, lent, lentNext
<1>12. held'[p] = 0
  BY <1>2, <1>3, <1>5, <1>6, <1>10
<1>13. lentNext = toBorrowers'[p] + toProtocol'[p] + toConnectors'[p]
  BY <1>2, <1>5, <1>6, <1>9, <1>10
<1>14. (toProtocol'[p] + toConnectors'[p]) * 100 <= lentNext
  BY <1>2, <1>5, <1>6, <1>9, <1>10
<1>15. toConnectors'[p] * 4 <= toProtocol'[p]
  BY <1>2, <1>5, <1>6, <1>10
<1>16. toProtocol'[p] \in Nat /\ toConnectors'[p] \in Nat /\ toBorrowers'[p] \in Nat
  BY <1>2, <1>5, <1>6
<1>. QED
  BY <1>11, <1>12, <1>13, <1>14, <1>15, <1>16

-----------------------------------------------------------------------------
(* One loan more                                                           *)

LEMMA LoansAppended ==
  ASSUME MatchTyped, NEW loan \in LoanRecords, loans' = Append(loans, loan)
  PROVE  /\ Len(loans) \in Nat /\ Len(loans') = Len(loans) + 1
         /\ DOMAIN loans = 1 .. Len(loans) /\ IsFiniteSet(DOMAIN loans)
         /\ Len(loans) + 1 \notin DOMAIN loans
         /\ DOMAIN loans' = DOMAIN loans \cup {Len(loans) + 1}
         /\ \A i \in DOMAIN loans : loans'[i] = loans[i] /\ loans[i] \in LoanRecords
         /\ loans'[Len(loans) + 1] = loan /\ Last(loans') = loan
         /\ loans' \in Seq(LoanRecords) /\ loans' # loans
<1>1. loans \in Seq(LoanRecords)
  BY DEF MatchTyped
<1>2. Len(loans) \in Nat /\ DOMAIN loans = 1 .. Len(loans)
  BY <1>1
<1>3. IsFiniteSet(DOMAIN loans)
  <2>1. IsFiniteSet(1 .. Len(loans))
    BY <1>2, FS_Interval
  <2>. QED
    BY <1>2, <2>1
<1>4. /\ loans' \in Seq(LoanRecords) /\ Len(loans') = Len(loans) + 1
      /\ loans'[Len(loans) + 1] = loan
      /\ \A i \in 1 .. Len(loans) : loans'[i] = loans[i] /\ loans[i] \in LoanRecords
  BY <1>1
<1>5. DOMAIN loans' = 1 .. (Len(loans) + 1)
  BY <1>4
<1>6. 1 .. (Len(loans) + 1) = (1 .. Len(loans)) \cup {Len(loans) + 1}
      /\ Len(loans) + 1 \notin 1 .. Len(loans)
  BY <1>2
<1>7. loans' # loans
  <2>. DEFINE n == Len(loans)
              k == Len(loans')
  <2>1. n \in Nat /\ k = n + 1
    BY <1>2, <1>4, Zenon
  <2>. HIDE DEF n, k
  <2>2. k # n
    BY <2>1
  <2>. QED
    BY <2>2 DEF n, k
<1>8. Last(loans') = loan
  BY <1>4 DEF Last
<1>. QED
  BY <1>2, <1>3, <1>4, <1>5, <1>6, <1>7, <1>8

(* The collateral of a match is conserved.                                 *)
LEMMA CollateralOfMatch ==
  ASSUME MatchTyped, NEW b \in BorrowOrders, NEW taken \in Nat, TakeCollateral(b, taken),
         NEW loan \in LoanRecords, loan.borrow = b, loan.collateralAmount = taken,
         loans' = Append(loans, loan), UNCHANGED borrowTerms,
         NEW c \in BorrowOrders, CollateralConserved(c)
  PROVE  /\ CollateralConserved(c)'
         /\ offered' \in [BorrowOrders -> Nat] /\ refunded' \in [BorrowOrders -> Nat]
<1>. DEFINE n == Len(loans)
            f == [i \in DOMAIN loans |-> loans[i].collateralAmount]
            g == [i \in DOMAIN loans' |-> loans'[i].collateralAmount]
            S == {i \in DOMAIN loans : loans[i].borrow = c}
            T == {i \in DOMAIN loans' : loans'[i].borrow = c}
            rest == offered[b] - taken
            total == IF borrowTerms[c].isNFT THEN 1 ELSE borrowTerms[c].start
<1>1. /\ n \in Nat /\ IsFiniteSet(DOMAIN loans) /\ n + 1 \notin DOMAIN loans
      /\ DOMAIN loans' = DOMAIN loans \cup {n + 1}
      /\ \A i \in DOMAIN loans : loans'[i] = loans[i] /\ loans[i] \in LoanRecords
      /\ loans'[n + 1] = loan
  BY LoansAppended
<1>2. /\ offered \in [BorrowOrders -> Nat] /\ refunded \in [BorrowOrders -> Nat]
  BY DEF MatchTyped
<1>3. /\ rest >= 0
      /\ \/ /\ offered' = [offered EXCEPT ![b] = 0]
            /\ refunded' = [refunded EXCEPT ![b] = @ + rest]
         \/ /\ offered' = [offered EXCEPT ![b] = rest]
            /\ refunded' = refunded
  BY DEF TakeCollateral
<1>4. rest \in Nat
  BY <1>2, <1>3
<1>5. /\ offered' \in [BorrowOrders -> Nat] /\ refunded' \in [BorrowOrders -> Nat]
      /\ c # b => offered'[c] = offered[c] /\ refunded'[c] = refunded[c]
      /\ c = b => offered'[c] + refunded'[c] = offered[c] + refunded[c] - taken
  <2>1. CASE /\ offered' = [offered EXCEPT ![b] = 0]
             /\ refunded' = [refunded EXCEPT ![b] = @ + rest]
    <3>1. offered[b] \in Nat /\ refunded[b] \in Nat
      BY <1>2
    <3>2. refunded[b] + rest \in Nat /\ 0 + (refunded[b] + rest) = offered[b] + refunded[b] - taken
      BY <1>4, <3>1
    <3>. HIDE DEF rest
    <3>. QED
      BY <1>2, <2>1, <3>2
  <2>2. CASE /\ offered' = [offered EXCEPT ![b] = rest]
             /\ refunded' = refunded
    <3>1. offered[b] \in Nat /\ refunded[b] \in Nat
      BY <1>2
    <3>2. rest + refunded[b] = offered[b] + refunded[b] - taken
      BY <3>1
    <3>. HIDE DEF rest
    <3>. QED
      BY <1>2, <1>4, <2>2, <3>2
  <2>. QED
    BY <1>3, <2>1, <2>2
<1>6. IsFiniteSet(S) /\ \A i \in S : f[i] = g[i] /\ f[i] \in Nat
  <2>1. IsFiniteSet(S)
    BY <1>1, FS_Subset
  <2>2. \A i \in S : f[i] = g[i] /\ f[i] \in Nat
    BY <1>1 DEF LoanRecords
  <2>. QED
    BY <2>1, <2>2
<1>7. SumFunctionOnSet(f, S) = SumFunctionOnSet(g, S) /\ SumFunctionOnSet(f, S) \in Nat
  <2>. HIDE DEF f, g, S
  <2>. QED
    BY <1>6, SumSame, SumNat
<1>8. g[n + 1] = taken
  BY <1>1
<1>9. c # b => SumFunctionOnSet(g, T) = SumFunctionOnSet(f, S)
  <2>1. ASSUME c # b  PROVE T = S
    BY <1>1, <2>1
  <2>. HIDE DEF f, g, S, T
  <2>. QED
    BY <1>7, <2>1
<1>10. c = b => SumFunctionOnSet(g, T) = taken + SumFunctionOnSet(f, S)
  <2>1. ASSUME c = b  PROVE T = S \cup {n + 1}
    BY <1>1, <2>1
  <2>2. n + 1 \notin S
    BY <1>1
  <2>3. \A x \in S \cup {n + 1} : g[x] \in Int
    <3>1. \A x \in S : g[x] \in Int
      <4>. HIDE DEF f, g, S
      <4>. QED
        BY <1>6
    <3>2. g[n + 1] \in Int
      BY <1>8
    <3>. HIDE DEF g, S
    <3>. QED
      BY <3>1, <3>2
  <2>. HIDE DEF f, g, S, T
  <2>4. SumFunctionOnSet(g, S \cup {n + 1}) = g[n + 1] + SumFunctionOnSet(g, S)
    BY <1>6, <2>2, <2>3, SumAdd
  <2>. QED
    BY <1>7, <1>8, <2>1, <2>4
<1>11. offered[c] + refunded[c] + SumFunctionOnSet(f, S) = total
  BY DEF CollateralConserved
<1>12. CollateralConserved(c)' = (offered'[c] + refunded'[c] + SumFunctionOnSet(g, T) = total)
  BY DEF CollateralConserved
<1>13. offered[c] \in Nat /\ refunded[c] \in Nat /\ offered'[c] \in Nat /\ refunded'[c] \in Nat
  BY <1>2, <1>5
<1>. DEFINE s == SumFunctionOnSet(f, S)
            t == SumFunctionOnSet(g, T)
<1>14. s \in Nat /\ offered[c] + refunded[c] + s = total
       /\ (c # b => t = s) /\ (c = b => t = taken + s)
  BY <1>7, <1>9, <1>10, <1>11
<1>. HIDE DEF s, t, total
<1>15. offered'[c] + refunded'[c] + t = total
  BY <1>5, <1>13, <1>14
<1>. QED
  BY <1>5, <1>12, <1>15 DEF t

(* The types of the new loan.                                              *)
LEMMA LoanTyped ==
  ASSUME MatchTyped, NEW m, Agreed(m), NEW used \in Nat
  PROVE  NewLoan(m, used) \in LoanRecords
<1>. DEFINE b == m.borrow
            offers == NewLoan(m, used).offers
            d == borrowTerms[b].duration
            c == IF borrowTerms[b].isNFT THEN 1 ELSE used
            id == minted + Len(m.picks) + 1
<1>1. b \in BorrowOrders /\ m.principles \in Seq(Principles) /\ Len(m.picks) \in Nat
  BY DEF Agreed, IsMatch
<1>2. d \in Nat /\ c \in Nat
  BY <1>1, TermsOfOrders
<1>3. id \in Nat
  BY <1>1 DEF MatchTyped
<1>4. offers \in Seq(OfferRecords)
  BY OffersOfLoan
<1>5. NewLoan(m, used) =
        [borrow |-> b, initialDuration |-> d, collateralAmount |-> c,
         valuableCollateralUsed |-> used, principles |-> m.principles,
         borrowerID |-> id, offers |-> offers]
  BY DEF NewLoan
<1>. HIDE DEF b, offers, d, c, id
<1>. QED
  BY <1>1, <1>2, <1>3, <1>4, <1>5 DEF LoanRecords

(* The terms of a loan are those of a match, whenever it is deployed, if   *)
(* its offers are as the loop of matchOffersV3 makes them.                 *)
LEMMA TermsOfDeployment ==
  ASSUME NEW loan, NEW start \in Nat,
         IsFiniteSet(DOMAIN loan.offers), DOMAIN loan.offers # {},
         loan.initialDuration \in Nat,
         Unit[borrowTerms[loan.borrow].asset] \in Nat \ {0},
         loan.valuableCollateralUsed \in Nat \ {0},
         loan.valuableCollateralUsed = SumFunctionOnSet(CollateralOf(loan), DOMAIN loan.offers),
         \A j \in DOMAIN loan.offers :
           /\ loan.offers[j] \in OfferRecords
           /\ loan.offers[j].ratio > 0
           /\ loan.initialDuration <= loan.offers[j].maxDeadline
           /\ loan.offers[j].collateralUsed =
                (loan.offers[j].principleAmount * Unit[borrowTerms[loan.borrow].asset])
                  \div loan.offers[j].ratio
  PROVE  MatchedTerms(Deployed(loan, start))
<1>. DEFINE offers == loan.offers
            D == DOMAIN offers
            unit == Unit[borrowTerms[loan.borrow].asset]
            t == Deployed(loan, start)
            F(f, R) == f \in [D -> R]
<1>1. /\ t.offers = D /\ t.startedAt = start /\ t.initialDuration = loan.initialDuration
      /\ t.lendOrders = LendOrders /\ t.precision = unit
      /\ t.valuableCollateralUsed = loan.valuableCollateralUsed
      /\ t.lendOffer = [j \in D |-> offers[j].lendOffer]
      /\ t.principleAmount = [j \in D |-> offers[j].principleAmount]
      /\ t.apr = [j \in D |-> offers[j].apr]
      /\ t.ratio = [j \in D |-> offers[j].ratio]
      /\ t.collateralUsed = [j \in D |-> offers[j].collateralUsed]
      /\ t.maxDeadline = [j \in D |-> start + offers[j].maxDeadline]
      /\ t.collateralUsed = CollateralOf(loan)
  BY DEF Deployed, PrincipalOf, CollateralOf
<1>2. \A j \in D :
        /\ offers[j].lendOffer \in LendOrders /\ offers[j].principleAmount \in Nat
        /\ offers[j].apr \in Nat /\ offers[j].ratio \in Nat \ {0}
        /\ offers[j].collateralUsed \in Nat /\ offers[j].maxDeadline \in Nat
        /\ start + offers[j].maxDeadline \in Nat
        /\ start + loan.initialDuration <= start + offers[j].maxDeadline
  <2>. TAKE j \in D
  <2>1. offers[j] \in OfferRecords
    OBVIOUS
  <2>2. /\ offers[j].lendOffer \in LendOrders /\ offers[j].principleAmount \in Nat
        /\ offers[j].apr \in Nat /\ offers[j].ratio \in Nat
        /\ offers[j].collateralUsed \in Nat /\ offers[j].maxDeadline \in Nat
    BY <2>1 DEF OfferRecords
  <2>3. offers[j].ratio > 0 /\ loan.initialDuration <= offers[j].maxDeadline
    OBVIOUS
  <2>. QED
    BY <2>2, <2>3
<1>3. \A j \in D : offers[j].collateralUsed = (offers[j].principleAmount * unit) \div offers[j].ratio
  OBVIOUS
<1>4. /\ loan.initialDuration \in Nat /\ unit \in Nat \ {0} /\ IsFiniteSet(D) /\ D # {}
      /\ loan.valuableCollateralUsed \in Nat \ {0}
      /\ loan.valuableCollateralUsed = SumFunctionOnSet(CollateralOf(loan), D)
  OBVIOUS
<1>. HIDE DEF t, D, unit, offers
<1>5. /\ t.lendOffer \in [D -> LendOrders] /\ t.principleAmount \in [D -> Nat]
      /\ t.apr \in [D -> Nat] /\ t.ratio \in [D -> Nat \ {0}]
      /\ t.collateralUsed \in [D -> Nat] /\ t.maxDeadline \in [D -> Nat]
  BY <1>1, <1>2
<1>6. \A j \in D : /\ t.startedAt + t.initialDuration <= t.maxDeadline[j]
                   /\ t.collateralUsed[j] = (t.principleAmount[j] * t.precision) \div t.ratio[j]
  <2>. TAKE j \in D
  <2>1. /\ t.maxDeadline[j] = start + offers[j].maxDeadline
        /\ t.collateralUsed[j] = offers[j].collateralUsed
        /\ t.principleAmount[j] = offers[j].principleAmount
        /\ t.ratio[j] = offers[j].ratio
    BY <1>1
  <2>2. t.startedAt + t.initialDuration <= t.maxDeadline[j]
    BY <1>1, <1>2, <2>1
  <2>3. t.collateralUsed[j] = (t.principleAmount[j] * t.precision) \div t.ratio[j]
    BY <1>1, <1>3, <2>1, Zenon
  <2>. QED
    BY <2>2, <2>3
<1>7. MatchedTerms(t)
  BY <1>1, <1>4, <1>5, <1>6 DEF MatchedTerms
<1>. QED
  BY <1>7 DEF t

(* The new loan is well formed.                                            *)
LEMMA LoanOfMatch ==
  ASSUME MatchTyped, NEW m, Agreed(m), NEW used,
         used = SumFunctionOnSet(UsedOf(m), DOMAIN m.picks),
         borrowTerms[m.borrow].isNFT => Within(used, borrowTerms[m.borrow].start),
         TakeCollateral(m.borrow, IF borrowTerms[m.borrow].isNFT THEN 1 ELSE used)
  PROVE  LoanWellFormed(NewLoan(m, used))
<1>. DEFINE loan == NewLoan(m, used)
            t == borrowTerms[m.borrow]
            N == Len(m.picks)
            offers == loan.offers
<1>1. used \in Nat
  BY UsedOfMatch
<1>2. loan.borrow = m.borrow /\ loan.initialDuration = t.duration
      /\ loan.valuableCollateralUsed = used /\ loan.borrowerID = minted + N + 1
  BY DEF NewLoan
<1>3. /\ offers \in Seq(OfferRecords) /\ Len(offers) = N /\ DOMAIN offers = DOMAIN m.picks
      /\ DOMAIN m.picks = 1 .. N /\ N \in Nat
      /\ \A j \in DOMAIN m.picks :
              /\ offers[j].lendOffer = m.picks[j].order
              /\ offers[j].principleAmount = m.picks[j].amount
              /\ offers[j].ratio = OfferRatio(m.borrow, m.picks[j])
              /\ offers[j].collateralUsed = UsedCollateral(m.borrow, m.picks[j])
              /\ offers[j].maxDeadline = lendTerms[m.picks[j].order].maxDuration
              /\ offers[j].lenderID = minted + j
  BY <1>1, OffersOfLoan
<1>4. CollateralOf(loan) = UsedOf(m)
  BY <1>1, SumsOfLoan
<1>5. m.borrow \in BorrowOrders /\ IsMatch(m)
  BY DEF Agreed, IsMatch
<1>. HIDE DEF loan
<1>6. loan.valuableCollateralUsed = SumFunctionOnSet(CollateralOf(loan), DOMAIN offers)
  BY <1>2, <1>3, <1>4
<1>7. ASSUME NEW j \in DOMAIN m.picks
      PROVE  /\ offers[j].ratio > 0
             /\ loan.initialDuration <= offers[j].maxDeadline
             /\ offers[j].collateralUsed =
                  (offers[j].principleAmount * Unit[t.asset]) \div offers[j].ratio
             /\ lendTerms[offers[j].lendOffer].lonelyLender => Len(offers) = 1
  <2>. DEFINE k == m.picks[j]
  <2>1. LenderAgrees(m, k)
    BY DEF Agreed
  <2>2. /\ lendTerms[k.order].lonelyLender => N = 1
        /\ DurationFits(m.borrow, k.order) /\ OfferRatio(m.borrow, k) > 0
    BY <2>1, Zenon DEF LenderAgrees
  <2>3. t.duration <= lendTerms[k.order].maxDuration
    BY <2>2 DEF DurationFits
  <2>4. UsedCollateral(m.borrow, k) = (k.amount * Unit[t.asset]) \div OfferRatio(m.borrow, k)
    BY DEF UsedCollateral
  <2>5. /\ offers[j].lendOffer = k.order /\ offers[j].principleAmount = k.amount
        /\ offers[j].ratio = OfferRatio(m.borrow, k)
        /\ offers[j].collateralUsed = UsedCollateral(m.borrow, k)
        /\ offers[j].maxDeadline = lendTerms[k.order].maxDuration
    BY <1>3
  <2>6. offers[j].ratio > 0
    BY <2>2, <2>5
  <2>7. loan.initialDuration <= offers[j].maxDeadline
    BY <1>2, <2>3, <2>5
  <2>8. offers[j].collateralUsed =
          (offers[j].principleAmount * Unit[t.asset]) \div offers[j].ratio
    BY <2>4, <2>5, Zenon
  <2>9. lendTerms[offers[j].lendOffer].lonelyLender => Len(offers) = 1
    BY <1>3, <2>2, <2>5
  <2>. QED
    BY <2>6, <2>7, <2>8, <2>9
<1>8. \/ offers # <<>> /\ used > 0
      \/ offers = <<>> /\ t.isNFT /\ t.start = 1
  <2>1. CASE N = 0
    <3>1. offers = <<>>
      BY <1>3, <2>1
    <3>2. DOMAIN m.picks = {}
      BY <1>3, <2>1
    <3>3. used = 0
      BY <3>2, SumEmpty
    <3>4. t.start > 0 /\ (IF t.isNFT THEN 1 ELSE used) > 0
      BY DEF TakeCollateral
    <3>5. t.isNFT
      BY <3>3, <3>4
    <3>6. 0 >= (t.start * 9800) \div 10000
      BY <3>3, <3>5 DEF Within
    <3>7. t.start \in Nat
      BY <1>5, TermsOfOrders
    <3>. DEFINE s == t.start
    <3>8. s \in Nat /\ s > 0 /\ 0 >= (s * 9800) \div 10000
      BY <3>4, <3>6, <3>7
    <3>. HIDE DEF s
    <3>9. s = 1
      BY <3>8
    <3>. QED
      BY <3>1, <3>5, <3>9 DEF s
  <2>2. CASE N # 0
    <3>. DEFINE U == UsedOf(m)
                D == DOMAIN m.picks
    <3>1. 1 \in D
      BY <1>3, <2>2
    <3>2. U[1] = UsedCollateral(m.borrow, m.picks[1])
      BY <3>1 DEF UsedOf
    <3>3. PICK j \in 1 .. 1 :
            m.picks[j].slot = m.picks[1].slot /\ UsedCollateral(m.borrow, m.picks[j]) > 0
      BY <3>1 DEF Agreed, Weighable
    <3>4. U[1] > 0
      BY <3>2, <3>3
    <3>5. \A x \in D : U[x] \in Nat
      BY PickNumbers
    <3>6. IsFiniteSet(D)
      <4>1. IsFiniteSet(1 .. N)
        BY <1>3, FS_Interval
      <4>. QED
        BY <1>3, <4>1
    <3>7. offers # <<>>
      BY <1>3, <3>1
    <3>. HIDE DEF U, D
    <3>8. SumFunctionOnSet(U, {1}) = U[1] /\ {1} \subseteq D
      <4>1. U[1] \in Int
        BY <3>1, <3>5
      <4>. QED
        BY <3>1, <4>1, SumSingleton
    <3>9. SumFunctionOnSet(U, {1}) <= SumFunctionOnSet(U, D)
      BY <3>5, <3>6, <3>8, SumSubset
    <3>10. used = SumFunctionOnSet(U, D)
      BY DEF U, D
    <3>11. U[1] \in Nat
      BY <3>1, <3>5
    <3>12. used > 0
      BY <1>1, <3>4, <3>8, <3>9, <3>10, <3>11
    <3>. QED
      BY <3>7, <3>12
  <2>. QED
    BY <2>1, <2>2
<1>9. ASSUME offers # <<>>, used > 0
      PROVE  MatchedTerms(Deployed(loan, 0))
  <2>1. IsFiniteSet(DOMAIN loan.offers) /\ DOMAIN loan.offers # {}
    <3>1. DOMAIN loan.offers = 1 .. N /\ IsFiniteSet(1 .. N)
      BY <1>3, FS_Interval
    <3>2. N # 0
      BY <1>3, <1>9
    <3>3. 1 \in 1 .. N
      BY <1>3, <3>2
    <3>. QED
      BY <3>1, <3>3
  <2>2. t.asset \in Assets /\ t.duration \in Nat
    BY <1>5, TermsOfOrders
  <2>3. Unit[borrowTerms[loan.borrow].asset] \in Nat \ {0}
    BY <1>2, <2>2, AggregatorAssumption
  <2>4. \A j \in DOMAIN loan.offers :
          /\ loan.offers[j] \in OfferRecords
          /\ loan.offers[j].ratio > 0
          /\ loan.initialDuration <= loan.offers[j].maxDeadline
          /\ loan.offers[j].collateralUsed =
               (loan.offers[j].principleAmount * Unit[borrowTerms[loan.borrow].asset])
                 \div loan.offers[j].ratio
    <3>. TAKE j \in DOMAIN loan.offers
    <3>1. j \in DOMAIN m.picks /\ offers[j] \in OfferRecords
      BY <1>3
    <3>. QED
      BY <1>2, <1>7, <3>1, Zenon
  <2>5. loan.valuableCollateralUsed \in Nat \ {0} /\ loan.initialDuration \in Nat
    BY <1>1, <1>2, <1>9, <2>2
  <2>6. loan.valuableCollateralUsed = SumFunctionOnSet(CollateralOf(loan), DOMAIN loan.offers)
    BY <1>6
  <2>. QED
    BY <2>1, <2>3, <2>4, <2>5, <2>6, TermsOfDeployment, 0 \in Nat
<1>10. offers = <<>> => used = 0
  <2>. SUFFICES ASSUME offers = <<>>  PROVE used = 0
    OBVIOUS
  <2>1. DOMAIN offers = {}
    OBVIOUS
  <2>2. SumFunctionOnSet(CollateralOf(loan), {}) = 0
    BY SumEmpty
  <2>. QED
    BY <1>2, <1>6, <2>1, <2>2
<1>11. \A i \in DOMAIN loan.offers :
         /\ lendTerms[loan.offers[i].lendOffer].lonelyLender => Len(loan.offers) = 1
         /\ loan.offers[i].lenderID < loan.borrowerID
         /\ \A j \in DOMAIN loan.offers :
              i < j => loan.offers[i].lenderID < loan.offers[j].lenderID
  <2>. TAKE i \in DOMAIN loan.offers
  <2>1. i \in DOMAIN m.picks /\ i \in 1 .. N /\ N \in Nat /\ minted \in Nat
    BY <1>3 DEF MatchTyped
  <2>2. lendTerms[offers[i].lendOffer].lonelyLender => Len(offers) = 1
    BY <1>7, <2>1
  <2>3. offers[i].lenderID = minted + i /\ loan.borrowerID = minted + N + 1
    BY <1>2, <1>3, <2>1
  <2>4. \A j \in DOMAIN offers : j \in 1 .. N /\ offers[j].lenderID = minted + j
    BY <1>3
  <2>. HIDE DEF offers, N
  <2>5. offers[i].lenderID < loan.borrowerID
    BY <2>1, <2>3
  <2>6. \A j \in DOMAIN offers : i < j => offers[i].lenderID < offers[j].lenderID
    BY <2>1, <2>3, <2>4
  <2>. QED
    BY <2>2, <2>5, <2>6 DEF offers
<1>12. LoanWellFormed(loan)
  <2>1. \/ MatchedTerms(Deployed(loan, 0))
        \/ /\ loan.offers = <<>> /\ loan.valuableCollateralUsed = 0
           /\ borrowTerms[loan.borrow].isNFT /\ borrowTerms[loan.borrow].start = 1
    BY <1>2, <1>8, <1>9, <1>10, Zenon
  <2>. QED
    BY <1>11, <2>1, Zenon DEF LoanWellFormed
<1>. QED
  BY <1>12 DEF loan

(* The loans stay well formed, and their ownership tokens apart.           *)
LEMMA LoansOfMatch ==
  ASSUME MatchTyped, LoansWellFormed, \A i \in DOMAIN loans : loans[i].borrowerID <= minted,
         NEW n \in Nat, NEW loan \in LoanRecords, LoanWellFormed(loan),
         Len(loan.offers) = n, loan.borrowerID = minted + n + 1,
         \A o \in Range(loan.offers) : o.lenderID > minted,
         loans' = Append(loans, loan), minted' = minted + n + 1,
         UNCHANGED <<lendTerms, borrowTerms>>
  PROVE  LoansWellFormed' /\ \A i \in DOMAIN loans' : loans'[i].borrowerID <= minted'
<1>. DEFINE N == Len(loans)
            D == DOMAIN loans
            f == [i \in DOMAIN loans |-> Len(loans[i].offers) + 1]
            g == [i \in DOMAIN loans' |-> Len(loans'[i].offers) + 1]
<1>1. /\ N \in Nat /\ IsFiniteSet(D) /\ N + 1 \notin D /\ D = 1 .. N
      /\ DOMAIN loans' = D \cup {N + 1}
      /\ \A i \in D : loans'[i] = loans[i] /\ loans[i] \in LoanRecords
      /\ loans'[N + 1] = loan
  BY LoansAppended
<1>2. minted \in Nat
  BY DEF MatchTyped
<1>3. lendTerms' = lendTerms /\ borrowTerms' = borrowTerms
  OBVIOUS
<1>4. (\A i \in DOMAIN loans : LoanWellFormed(loans[i]))'
  <2>. SUFFICES ASSUME NEW i \in DOMAIN loans'  PROVE LoanWellFormed(loans[i])'
    OBVIOUS
  <2>1. LoanWellFormed(loans'[i])
    <3>1. CASE i = N + 1
      BY <1>1, <3>1
    <3>2. CASE i \in D
      BY <1>1, <3>2 DEF LoansWellFormed
    <3>. QED
      BY <1>1, <3>1, <3>2
  <2>. QED
    BY ONLY <1>3, <2>1 DEF LoanWellFormed, Deployed, PrincipalOf, CollateralOf
<1>5. minted' = SumFunctionOnSet(g, DOMAIN loans')
  <2>1. \A i \in D : f[i] = g[i] /\ f[i] \in Nat
    <3>. TAKE i \in D
    <3>1. loans'[i] = loans[i] /\ loans[i] \in LoanRecords /\ i \in DOMAIN loans'
      BY <1>1
    <3>2. Len(loans[i].offers) \in Nat
      BY <3>1 DEF LoanRecords
    <3>. QED
      BY <3>1, <3>2
  <2>2. g[N + 1] = n + 1
    BY <1>1
  <2>3. minted = SumFunctionOnSet(f, D)
    BY DEF LoansWellFormed
  <2>. HIDE DEF f, g, D
  <2>4. SumFunctionOnSet(g, D) = minted
    BY <1>1, <2>1, <2>3, SumSame
  <2>5. \A x \in D \cup {N + 1} : g[x] \in Int
    BY <2>1, <2>2
  <2>6. SumFunctionOnSet(g, D \cup {N + 1}) = g[N + 1] + SumFunctionOnSet(g, D)
    BY <1>1, <2>5, SumAdd
  <2>. QED
    BY <1>1, <1>2, <2>2, <2>4, <2>6
<1>6. \A i, j \in DOMAIN loans' : i < j =>
        \A o \in Range(loans'[j].offers) : o.lenderID > loans'[i].borrowerID
  <2>. SUFFICES ASSUME NEW i \in DOMAIN loans', NEW j \in DOMAIN loans', i < j,
                       NEW o \in Range(loans'[j].offers)
                PROVE  o.lenderID > loans'[i].borrowerID
    OBVIOUS
  <2>1. i \in D
    BY <1>1
  <2>2. CASE j = N + 1
    <3>1. o \in Range(loan.offers)
      BY <1>1, <2>2
    <3>2. o.lenderID > minted /\ loans'[i].borrowerID <= minted
      BY <1>1, <2>1, <3>1
    <3>3. o.lenderID \in Nat
      <4>1. loan.offers \in Seq(OfferRecords)
        BY DEF LoanRecords
      <4>2. o \in OfferRecords
        BY <3>1, <4>1 DEF Range
      <4>. QED
        BY <4>2 DEF OfferRecords
    <3>4. loans'[i].borrowerID \in Nat
      BY <1>1, <2>1 DEF LoanRecords
    <3>. QED
      BY <1>2, <3>2, <3>3, <3>4
  <2>3. CASE j \in D
    <3>1. loans'[i] = loans[i] /\ loans'[j] = loans[j]
      BY <1>1, <2>1, <2>3
    <3>. QED
      BY <2>1, <2>3, <3>1 DEF LoansWellFormed
  <2>. QED
    BY <1>1, <2>2, <2>3
<1>7. \A i \in DOMAIN loans' : loans'[i].borrowerID <= minted'
  <2>. TAKE i \in DOMAIN loans'
  <2>1. CASE i = N + 1
    <3>1. loans'[i].borrowerID = minted'
      BY <1>1, <2>1
    <3>2. minted' \in Nat
      BY <1>2
    <3>. QED
      BY <3>1, <3>2
  <2>2. CASE i \in D
    <3>1. loans'[i].borrowerID <= minted /\ loans'[i].borrowerID \in Nat
      BY <1>1, <2>2 DEF LoanRecords
    <3>. QED
      BY <1>2, <3>1
  <2>. QED
    BY <1>1, <2>1, <2>2
<1>. QED
  BY <1>4, <1>5, <1>6, <1>7 DEF LoansWellFormed

-----------------------------------------------------------------------------
(* The steps                                                               *)

(* A match: what the actions' guards give.                                 *)
LEMMA MatchFacts ==
  ASSUME MatchTyped, NEW m, IsMatch(m), matchOffersV3(m)
  PROVE  LET used == SumFunctionOnSet(UsedOf(m), DOMAIN m.picks)
             taken == IF borrowTerms[m.borrow].isNFT THEN 1 ELSE used
         IN  /\ Agreed(m) /\ BorrowerQuotes(m) /\ BorrowerAgrees(m, Totals(m))
             /\ used \in Nat
             /\ borrowTerms[m.borrow].isNFT => Within(used, borrowTerms[m.borrow].start)
             /\ TakeCollateral(m.borrow, taken)
             /\ PayOut(m, Totals(m).amount)
             /\ loans' = Append(loans, NewLoan(m, used))
             /\ \A l \in LendOrders : TakenFrom(m, l) <= available[l]
             /\ available' = [l \in LendOrders |-> available[l] - TakenFrom(m, l)]
             /\ minted' = minted + Len(m.picks) + 1
             /\ UNCHANGED <<lendTerms, borrowTerms, price, feeVars, switchVars, changes>>
<1>1. Agreed(m)
  BY DEF matchOffersV3, Agreed
<1>2. SumFunctionOnSet(Totals(m).collateral, DOMAIN m.principles)
        = SumFunctionOnSet(UsedOf(m), DOMAIN m.picks)
      /\ SumFunctionOnSet(UsedOf(m), DOMAIN m.picks) \in Nat
  BY <1>1, UsedOfMatch
<1>3. LET used == SumFunctionOnSet(Totals(m).collateral, DOMAIN m.principles)
      IN  /\ BorrowerQuotes(m) /\ BorrowerAgrees(m, Totals(m))
          /\ borrowTerms[m.borrow].isNFT => Within(used, borrowTerms[m.borrow].start)
          /\ TakeCollateral(m.borrow, IF borrowTerms[m.borrow].isNFT THEN 1 ELSE used)
          /\ PayOut(m, Totals(m).amount)
          /\ loans' = Append(loans, NewLoan(m, used))
  BY Zenon DEF matchOffersV3
<1>4. /\ \A l \in LendOrders : TakenFrom(m, l) <= available[l]
      /\ available' = [l \in LendOrders |-> available[l] - TakenFrom(m, l)]
      /\ minted' = minted + Len(m.picks) + 1
      /\ UNCHANGED <<lendTerms, borrowTerms, price, feeVars, switchVars, changes>>
  BY Zenon DEF matchOffersV3
<1>. QED
  BY <1>1, <1>2, <1>3, <1>4

LEMMA MatchStep ==
  ASSUME MatchInv, NEW m, IsMatch(m), matchOffersV3(m)
  PROVE  MatchInv'
<1>. DEFINE used == SumFunctionOnSet(UsedOf(m), DOMAIN m.picks)
            taken == IF borrowTerms[m.borrow].isNFT THEN 1 ELSE used
            loan == NewLoan(m, used)
            n == Len(m.picks)
<1>1. /\ MatchTyped /\ LoansWellFormed /\ MatchConserves
      /\ \A i \in DOMAIN loans : loans[i].borrowerID <= minted
  BY DEF MatchInv
<1>2. /\ Agreed(m) /\ used \in Nat
      /\ borrowTerms[m.borrow].isNFT => Within(used, borrowTerms[m.borrow].start)
      /\ TakeCollateral(m.borrow, taken)
      /\ PayOut(m, Totals(m).amount)
      /\ loans' = Append(loans, loan)
      /\ \A l \in LendOrders : TakenFrom(m, l) <= available[l]
      /\ available' = [l \in LendOrders |-> available[l] - TakenFrom(m, l)]
      /\ minted' = minted + n + 1
      /\ UNCHANGED <<lendTerms, borrowTerms, price, feeVars, switchVars, changes>>
  BY <1>1, MatchFacts
<1>3. m.borrow \in BorrowOrders /\ n \in Nat
  BY DEF IsMatch
<1>4. loan \in LoanRecords
  BY <1>1, <1>2, LoanTyped
<1>5. loan.borrow = m.borrow /\ loan.collateralAmount = taken
      /\ loan.borrowerID = minted + n + 1
  BY DEF NewLoan
<1>6. Len(loan.offers) = n /\ \A o \in Range(loan.offers) : o.lenderID > minted
  <2>1. /\ Len(loan.offers) = n /\ DOMAIN loan.offers = 1 .. n
        /\ \A j \in 1 .. n : loan.offers[j].lenderID = minted + j
    BY <1>1, <1>2, OffersOfLoan
  <2>2. minted \in Nat
    BY <1>1 DEF MatchTyped
  <2>3. ASSUME NEW o \in Range(loan.offers)  PROVE o.lenderID > minted
    <3>1. PICK j \in 1 .. n : o = loan.offers[j]
      BY <2>1 DEF Range
    <3>2. o.lenderID = minted + j
      BY <2>1, <3>1
    <3>. QED
      BY <1>3, <2>2, <3>2
  <2>. QED
    BY <2>1, <2>3
<1>7. LoanWellFormed(loan)
  BY <1>1, <1>2, LoanOfMatch
<1>8. taken \in Nat
  BY <1>2
<1>9. \A p \in Principles :
        /\ PrincipleConserved(p)'
        /\ held'[p] \in Nat /\ toProtocol'[p] \in Nat
        /\ toConnectors'[p] \in Nat /\ toBorrowers'[p] \in Nat
  <2>. TAKE p \in Principles
  <2>1. PrincipleConserved(p)
    BY <1>1 DEF MatchConserves
  <2>. QED
    BY <1>1, <1>2, <2>1, PayOutConserves
<1>. HIDE DEF used, taken, loan, n
<1>10. ASSUME NEW c \in BorrowOrders
       PROVE  /\ CollateralConserved(c)'
              /\ offered' \in [BorrowOrders -> Nat] /\ refunded' \in [BorrowOrders -> Nat]
  <2>1. CollateralConserved(c)
    BY <1>1 DEF MatchConserves
  <2>. QED
    BY <1>1, <1>2, <1>3, <1>4, <1>5, <1>8, <2>1, CollateralOfMatch
<1>11. LoansWellFormed' /\ \A i \in DOMAIN loans' : loans'[i].borrowerID <= minted'
  BY <1>1, <1>2, <1>3, <1>4, <1>5, <1>6, <1>7, LoansOfMatch
<1>12. MatchConserves'
  BY <1>9, <1>10 DEF MatchConserves
<1>13. MatchTyped'
  <2>1. available' \in [LendOrders -> Nat]
    <3>1. \A l \in LendOrders : TakenFrom(m, l) \in Nat
      BY <1>1, <1>2, LentOfPrinciple
    <3>2. available \in [LendOrders -> Nat]
      BY <1>1 DEF MatchTyped
    <3>3. \A l \in LendOrders : available[l] - TakenFrom(m, l) \in Nat
      BY <1>2, <3>1, <3>2
    <3>. QED
      BY <1>2, <3>3
  <2>2. /\ held' \in [Principles -> Nat] /\ toProtocol' \in [Principles -> Nat]
        /\ toConnectors' \in [Principles -> Nat] /\ toBorrowers' \in [Principles -> Nat]
    <3>1. /\ DOMAIN held' = Principles /\ held' = [p \in Principles |-> held'[p]]
          /\ toProtocol' = [p \in Principles |-> toProtocol'[p]]
          /\ toConnectors' = [p \in Principles |-> toConnectors'[p]]
          /\ toBorrowers' = [p \in Principles |-> toBorrowers'[p]]
      BY <1>2 DEF PayOut
    <3>. QED
      BY <1>9, <3>1
  <2>3. offered' \in [BorrowOrders -> Nat] /\ refunded' \in [BorrowOrders -> Nat]
    BY <1>3, <1>10
  <2>4. loans' \in Seq(LoanRecords)
    BY <1>1, <1>2, <1>4, LoansAppended
  <2>5. minted' \in Nat
    BY <1>1, <1>2, <1>3 DEF MatchTyped
  <2>6. /\ lendTerms' = lendTerms /\ borrowTerms' = borrowTerms /\ price' = price
        /\ feePerDay' = feePerDay /\ maxFEE' = maxFEE /\ minFEE' = minFEE
        /\ feeCONNECTOR' = feeCONNECTOR
    BY <1>2 DEF feeVars
  <2>7. /\ lendTerms \in [LendOrders -> LendTerms]
        /\ borrowTerms \in [BorrowOrders -> BorrowTerms]
        /\ price \in Prices
        /\ feePerDay \in Nat /\ maxFEE \in 50 .. 100
        /\ minFEE \in 10 .. 50 /\ feeCONNECTOR \in 500 .. 2000
    BY <1>1 DEF MatchTyped
  <2>. QED
    BY <2>1, <2>2, <2>3, <2>4, <2>5, <2>6, <2>7 DEF MatchTyped
<1>. QED
  BY <1>11, <1>12, <1>13 DEF MatchInv

(* What is well formed stays so while nothing is matched.                  *)
LEMMA SameLoansWellFormed ==
  ASSUME LoansWellFormed, loans' = loans, minted' = minted,
         lendTerms' = lendTerms, borrowTerms' = borrowTerms
  PROVE  LoansWellFormed'
<1>1. (\A i \in DOMAIN loans : LoanWellFormed(loans[i]))'
  <2>1. \A i \in DOMAIN loans : LoanWellFormed(loans[i])
    BY DEF LoansWellFormed
  <2>. SUFFICES ASSUME NEW i \in DOMAIN loans  PROVE LoanWellFormed(loans[i])'
    OBVIOUS
  <2>2. LoanWellFormed(loans[i])
    BY <2>1
  <2>. QED
    BY ONLY <2>2, loans' = loans, lendTerms' = lendTerms, borrowTerms' = borrowTerms
       DEF LoanWellFormed, Deployed, PrincipalOf, CollateralOf
<1>. QED
  BY <1>1 DEF LoansWellFormed

(* The other actions leave the orders, the payments and the loans alone.   *)
LEMMA MatchSettingStep ==
  ASSUME MatchInv, UNCHANGED <<lendTerms, borrowTerms, orderVars, payVars, loans, minted>>,
         price' \in Prices, feePerDay' \in Nat, maxFEE' \in 50 .. 100,
         minFEE' \in 10 .. 50, feeCONNECTOR' \in 500 .. 2000
  PROVE  MatchInv'
<1>1. /\ lendTerms' = lendTerms /\ borrowTerms' = borrowTerms /\ loans' = loans
      /\ available' = available /\ offered' = offered /\ refunded' = refunded
      /\ held' = held /\ toProtocol' = toProtocol /\ toConnectors' = toConnectors
      /\ toBorrowers' = toBorrowers /\ minted' = minted
  BY DEF orderVars, payVars
<1>2. MatchTyped'
  BY <1>1 DEF MatchInv, MatchTyped
<1>3. MatchConserves'
  <2>1. MatchConserves
    BY DEF MatchInv
  <2>. QED
    BY ONLY <1>1, <2>1 DEF MatchConserves, PrincipleConserved, CollateralConserved
<1>4. LoansWellFormed'
  <2>1. LoansWellFormed
    BY DEF MatchInv
  <2>. QED
    BY ONLY <1>1, <2>1, SameLoansWellFormed
<1>5. \A i \in DOMAIN loans' : loans'[i].borrowerID <= minted'
  BY <1>1 DEF MatchInv
<1>. QED
  BY <1>2, <1>3, <1>4, <1>5 DEF MatchInv

LEMMA MatchNextInv ==
  ASSUME MatchInv, MatchNext  PROVE MatchInv'
<1>1. CASE \E b \in BorrowOrders, slate \in Slates, n \in 0 .. MaxPicks :
             \E picks \in [1 .. n -> Picks(slate)] :
               matchOffersV3([borrow |-> b, principles |-> slate, picks |-> picks])
  <2>1. PICK b \in BorrowOrders, slate \in Slates, n \in 0 .. MaxPicks :
             \E picks \in [1 .. n -> Picks(slate)] :
               matchOffersV3([borrow |-> b, principles |-> slate, picks |-> picks])
    BY <1>1
  <2>2. PICK picks \in [1 .. n -> Picks(slate)] :
               matchOffersV3([borrow |-> b, principles |-> slate, picks |-> picks])
    BY <2>1
  <2>. QED
    BY <2>2, ArgumentsOfMatch, MatchStep
<1>2. /\ price \in Prices /\ feePerDay \in Nat /\ maxFEE \in 50 .. 100
      /\ minFEE \in 10 .. 50 /\ feeCONNECTOR \in 500 .. 2000
  BY DEF MatchInv, MatchTyped
<1>3. CASE ChangeFee
  <2>1. /\ UNCHANGED <<lendTerms, borrowTerms, orderVars, payVars, loans, minted>>
        /\ price' = price
    BY <1>3 DEF ChangeFee
  <2>2. /\ feePerDay' \in Nat /\ maxFEE' \in 50 .. 100
        /\ minFEE' \in 10 .. 50 /\ feeCONNECTOR' \in 500 .. 2000
    BY <1>2, <1>3 DEF ChangeFee, setNewFee, setNewMaxFee, setNewMinFee, setNewFeeConnector
  <2>. QED
    BY <1>2, <2>1, <2>2, MatchSettingStep
<1>4. CASE Switch
  BY <1>2, <1>4, MatchSettingStep DEF Switch, feeVars
<1>5. CASE \E status \in BOOLEAN : statusCreateNewOffers(status)
  BY <1>2, <1>5, MatchSettingStep DEF statusCreateNewOffers, feeVars
<1>6. CASE MovePrices
  BY <1>2, <1>6, MatchSettingStep DEF MovePrices, feeVars
<1>. QED
  BY <1>1, <1>3, <1>4, <1>5, <1>6 DEF MatchNext

LEMMA MatchStutterInv ==
  ASSUME MatchInv, UNCHANGED matchVars  PROVE MatchInv'
<1>1. /\ UNCHANGED <<lendTerms, borrowTerms, orderVars, payVars, loans, minted>>
      /\ price' = price /\ feePerDay' = feePerDay /\ maxFEE' = maxFEE
      /\ minFEE' = minFEE /\ feeCONNECTOR' = feeCONNECTOR
  BY DEF matchVars, feeVars
<1>2. /\ price \in Prices /\ feePerDay \in Nat /\ maxFEE \in 50 .. 100
      /\ minFEE \in 10 .. 50 /\ feeCONNECTOR \in 500 .. 2000
  BY DEF MatchInv, MatchTyped
<1>. QED
  BY <1>1, <1>2, MatchSettingStep

LEMMA MatchInitInv ==
  ASSUME MatchInit  PROVE MatchInv
<1>1. /\ lendTerms \in [LendOrders -> LendTerms]
      /\ borrowTerms \in [BorrowOrders -> BorrowTerms]
      /\ available = [l \in LendOrders |-> lendTerms[l].funds]
      /\ offered = [b \in BorrowOrders |-> IF borrowTerms[b].isNFT THEN 1 ELSE borrowTerms[b].start]
      /\ price \in Prices
      /\ feePerDay = 4 /\ maxFEE = 80 /\ minFEE = 20 /\ feeCONNECTOR = 1500
      /\ loans = <<>> /\ minted = 0
      /\ held = [p \in Principles |-> 0] /\ toProtocol = held
      /\ toConnectors = held /\ toBorrowers = held
      /\ refunded = [b \in BorrowOrders |-> 0]
  BY DEF MatchInit
<1>2. \A l \in LendOrders : lendTerms[l].funds \in Nat
  <2>. TAKE l \in LendOrders
  <2>1. lendTerms[l] \in LendTerms
    BY <1>1
  <2>2. {lendTerms[l].apr, lendTerms[l].minDuration, lendTerms[l].maxDuration,
         lendTerms[l].funds} \subseteq Nat
    BY <2>1, AggregatorAssumption
  <2>. QED
    BY <2>2
<1>3. \A b \in BorrowOrders : borrowTerms[b].start \in Nat
  <2>. TAKE b \in BorrowOrders
  <2>1. borrowTerms[b] \in BorrowTerms
    BY <1>1
  <2>2. {borrowTerms[b].maxApr, borrowTerms[b].duration, borrowTerms[b].start} \subseteq Nat
    BY <2>1, AggregatorAssumption
  <2>. QED
    BY <2>2
<1>4. loans \in Seq(LoanRecords) /\ DOMAIN loans = {}
  BY <1>1
<1>5. MatchTyped
  BY <1>1, <1>2, <1>3, <1>4 DEF MatchTyped
<1>6. ASSUME NEW p \in Principles  PROVE PrincipleConserved(p)
  <2>. DEFINE out == [l \in LendOrders |-> lendTerms[l].funds - available[l]]
              L == {l \in LendOrders : lendTerms[l].principle = p}
  <2>1. IsFiniteSet(L)
    BY AggregatorAssumption, FS_Subset
  <2>2. \A l \in L : out[l] = 0
    BY <1>1, <1>2
  <2>3. SumFunctionOnSet(out, L) = 0
    <3>. HIDE DEF out, L
    <3>. QED
      BY <2>1, <2>2, SumZero
  <2>4. held[p] = 0 /\ toProtocol[p] = 0 /\ toConnectors[p] = 0 /\ toBorrowers[p] = 0
    BY <1>1
  <2>. QED
    BY <2>3, <2>4 DEF PrincipleConserved
<1>7. ASSUME NEW b \in BorrowOrders  PROVE CollateralConserved(b)
  <2>. DEFINE f == [i \in DOMAIN loans |-> loans[i].collateralAmount]
              S == {i \in DOMAIN loans : loans[i].borrow = b}
  <2>1. S = {}
    BY <1>4
  <2>2. SumFunctionOnSet(f, S) = 0
    <3>. HIDE DEF f, S
    <3>. QED
      BY <2>1, SumEmpty
  <2>3. refunded[b] = 0 /\ offered[b] = (IF borrowTerms[b].isNFT THEN 1 ELSE borrowTerms[b].start)
        /\ offered[b] \in Nat
    BY <1>1, <1>3
  <2>. QED
    BY <2>2, <2>3 DEF CollateralConserved
<1>8. LoansWellFormed
  <2>. DEFINE f == [i \in DOMAIN loans |-> Len(loans[i].offers) + 1]
  <2>1. SumFunctionOnSet(f, DOMAIN loans) = 0
    <3>. HIDE DEF f
    <3>. QED
      BY <1>4, SumEmpty
  <2>. QED
    BY <1>1, <1>4, <2>1 DEF LoansWellFormed
<1>. QED
  BY <1>4, <1>5, <1>6, <1>7, <1>8 DEF MatchInv, MatchConserves

LEMMA MatchInvariant == MatchSpec => []MatchInv
<1>1. MatchInit => MatchInv
  BY MatchInitInv
<1>2. MatchInv /\ [MatchNext]_matchVars => MatchInv'
  BY MatchNextInv, MatchStutterInv
<1>. QED
  BY <1>1, <1>2, PTL DEF MatchSpec

(* Every loan that a match initialises has offers and used collateral (or  *)
(* is the empty match against a receipt of one unit), terms that its       *)
(* lenders accepted, collateral that is the sum of what the offers ask,    *)
(* and ownership tokens of its own (matchOffersV3).                        *)
THEOREM LoansAlwaysWellFormed == MatchSpec => []LoansWellFormed
<1>1. MatchInv => LoansWellFormed
  BY DEF MatchInv
<1>. QED
  BY <1>1, MatchInvariant, PTL

(* What DebitaLoan assumes of the terms of a loan.                         *)
TermsAssumedByLoan ==
  \A i \in DOMAIN loans :
    loans[i].offers # <<>> =>
      \A start \in Nat : MatchedTerms(Deployed(loans[i], start))

(* The loans that matchOffersV3 deploys, at any time, have the terms on    *)
(* which the theorems of DebitaLoanProofs rest: the assumption made there  *)
(* is discharged here, but for a match of no offers.                       *)
THEOREM LoanAssumptionDischarged == MatchSpec => []TermsAssumedByLoan
<1>1. ASSUME MatchInv, NEW i \in DOMAIN loans, loans[i].offers # <<>>, NEW start \in Nat
      PROVE  MatchedTerms(Deployed(loans[i], start))
  <2>. DEFINE loan == loans[i]
              D == DOMAIN loan.offers
              unit == Unit[borrowTerms[loan.borrow].asset]
              t == Deployed(loan, 0)
  <2>1. loan.offers \in Seq(OfferRecords)
    <3>1. loans \in Seq(LoanRecords)
      BY <1>1 DEF MatchInv, MatchTyped
    <3>2. loans[i] \in LoanRecords
      BY <1>1, <3>1
    <3>. QED
      BY <3>2 DEF LoanRecords
  <2>2. \A j \in D : loan.offers[j] \in OfferRecords
    BY <2>1
  <2>3. MatchedTerms(t)
    BY <1>1 DEF MatchInv, LoansWellFormed, LoanWellFormed
  <2>4. /\ t.offers = D /\ t.startedAt = 0 /\ t.initialDuration = loan.initialDuration
        /\ t.precision = unit /\ t.valuableCollateralUsed = loan.valuableCollateralUsed
        /\ t.collateralUsed = CollateralOf(loan)
        /\ \A j \in D : /\ t.ratio[j] = loan.offers[j].ratio
                        /\ t.principleAmount[j] = loan.offers[j].principleAmount
                        /\ t.collateralUsed[j] = loan.offers[j].collateralUsed
                        /\ t.maxDeadline[j] = 0 + loan.offers[j].maxDeadline
                        /\ t.ratio \in [D -> Nat \ {0}]
    BY <2>3 DEF Deployed, PrincipalOf, CollateralOf, MatchedTerms
  <2>. HIDE DEF t, unit, D, loan
  <2>5. /\ IsFiniteSet(D) /\ D # {}
        /\ loan.initialDuration \in Nat /\ unit \in Nat \ {0}
        /\ loan.valuableCollateralUsed \in Nat \ {0}
        /\ loan.valuableCollateralUsed = SumFunctionOnSet(CollateralOf(loan), D)
    BY <2>3, <2>4 DEF MatchedTerms
  <2>6. ASSUME NEW j \in D
        PROVE  /\ loan.offers[j].ratio > 0
               /\ loan.initialDuration <= loan.offers[j].maxDeadline
               /\ loan.offers[j].collateralUsed =
                    (loan.offers[j].principleAmount * unit) \div loan.offers[j].ratio
    <3>1. loan.offers[j].ratio \in Nat \ {0}
      BY <2>4
    <3>2. 0 + loan.initialDuration <= 0 + loan.offers[j].maxDeadline
      BY <2>3, <2>4 DEF MatchedTerms
    <3>3. loan.offers[j].maxDeadline \in Nat
      BY <2>2 DEF OfferRecords
    <3>4. loan.offers[j].collateralUsed =
            (loan.offers[j].principleAmount * unit) \div loan.offers[j].ratio
      BY <2>3, <2>4, Zenon DEF MatchedTerms
    <3>. QED
      BY <2>5, <3>1, <3>2, <3>3, <3>4
  <2>. QED
    BY <2>2, <2>5, <2>6, TermsOfDeployment DEF D, unit, loan
<1>2. MatchInv => TermsAssumedByLoan
  BY <1>1 DEF TermsAssumedByLoan
<1>. QED
  BY <1>2, MatchInvariant, PTL

(* What leaves the lend and the borrow orders is what borrowers, protocol, *)
(* callers and loans get, with bounds on the fees, whatever is matched.    *)
THEOREM MatchesConserve == MatchSpec => []MatchConserves
<1>1. MatchInv => MatchConserves
  BY DEF MatchInv
<1>. QED
  BY <1>1, MatchInvariant, PTL

(* A step that adds a loan is a match.                                     *)
LEMMA NewLoanIsMatched ==
  ASSUME MatchInv, MatchNext, loans' # loans
  PROVE  \E m : /\ IsMatch(m) /\ Agreed(m) /\ BorrowerQuotes(m)
                /\ BorrowerAgrees(m, Totals(m))
                /\ \E used \in Nat : Last(loans') = NewLoan(m, used)
<1>1. MatchTyped
  BY DEF MatchInv
<1>2. ~ (ChangeFee \/ Switch \/ (\E status \in BOOLEAN : statusCreateNewOffers(status))
           \/ MovePrices)
  BY DEF ChangeFee, Switch, statusCreateNewOffers, MovePrices
<1>3. PICK b \in BorrowOrders, slate \in Slates, n \in 0 .. MaxPicks :
             \E picks \in [1 .. n -> Picks(slate)] :
               matchOffersV3([borrow |-> b, principles |-> slate, picks |-> picks])
  BY <1>2 DEF MatchNext
<1>4. PICK picks \in [1 .. n -> Picks(slate)] :
               matchOffersV3([borrow |-> b, principles |-> slate, picks |-> picks])
  BY <1>3
<1>. DEFINE m == [borrow |-> b, principles |-> slate, picks |-> picks]
            used == SumFunctionOnSet(UsedOf(m), DOMAIN m.picks)
<1>5. IsMatch(m) /\ matchOffersV3(m)
  BY <1>4, ArgumentsOfMatch
<1>. HIDE DEF m
<1>6. /\ Agreed(m) /\ BorrowerQuotes(m) /\ BorrowerAgrees(m, Totals(m))
      /\ used \in Nat /\ loans' = Append(loans, NewLoan(m, used))
  BY <1>1, <1>5, MatchFacts
<1>. HIDE DEF used
<1>7. Last(loans') = NewLoan(m, used)
  BY <1>1, <1>6, LoanTyped, LoansAppended
<1>. QED
  BY <1>5, <1>6, <1>7

(* The borrower's ratio and APR are kept by every match, up to what the    *)
(* truncated running averages lose.                                        *)
THEOREM BorrowersKept == MatchSpec => BorrowerLimits
<1>1. ASSUME MatchInv, MatchNext, loans' # loans
      PROVE  BorrowerKept(Last(loans'))
  <2>1. PICK m : /\ Agreed(m) /\ BorrowerQuotes(m) /\ BorrowerAgrees(m, Totals(m))
                 /\ \E used \in Nat : Last(loans') = NewLoan(m, used)
    BY <1>1, NewLoanIsMatched
  <2>2. PICK used \in Nat : Last(loans') = NewLoan(m, used)
    BY <2>1
  <2>3. MatchTyped
    BY <1>1 DEF MatchInv
  <2>. QED
    BY <2>1, <2>2, <2>3, BorrowerOfLoan
<1>2. MatchInv /\ [MatchNext]_matchVars
        => [loans' # loans => BorrowerKept(Last(loans'))]_matchVars
  BY <1>1
<1>. QED
  BY <1>2, MatchInvariant, PTL DEF MatchSpec, BorrowerLimits

(* And so is each lender's ratio or loan-to-value, up to one unit of the   *)
(* collateral.                                                             *)
THEOREM LendersKept == MatchSpec => LenderLimits
<1>1. ASSUME MatchInv, MatchNext, loans' # loans
      PROVE  LenderKept(Last(loans'))
  <2>1. PICK m : /\ Agreed(m)
                 /\ \E used \in Nat : Last(loans') = NewLoan(m, used)
    BY <1>1, NewLoanIsMatched
  <2>2. PICK used \in Nat : Last(loans') = NewLoan(m, used)
    BY <2>1
  <2>3. MatchTyped
    BY <1>1 DEF MatchInv
  <2>. QED
    BY <2>1, <2>2, <2>3, LenderOfLoan
<1>2. MatchInv /\ [MatchNext]_matchVars
        => [loans' # loans => LenderKept(Last(loans'))]_matchVars
  BY <1>1
<1>. QED
  BY <1>2, MatchInvariant, PTL DEF MatchSpec, LenderLimits
=============================================================================
