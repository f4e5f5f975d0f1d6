------------------------- MODULE AuctionHouseProofs -------------------------
(***************************************************************************)
(* The index of the auction factory is exact through every interleaving of *)
(* the callbacks of the buyers and owners, and implements ActiveOrders;    *)
(* the price of an auction is continuous and reaches its floor; and a      *)
(* liquidation brings its loan at least the lowest floor less the highest  *)
(* fee, for any number of auctions, users, amounts and timestamps.         *)
(***************************************************************************)
EXTENDS AuctionHouse, ProofLemmas, SequenceTheorems

(* The actions that leave the index alone also leave the auctions and the  *)
(* calls in progress alone.                                                *)
indexVars == <<owner, isActive, orders, callbacks>>

LEMMA StutterInv == IndexInv /\ UNCHANGED indexVars => IndexInv'
BY DEF IndexInv, IndexExact, indexVars, Created, Pending

LEMMA InitInv == Init => IndexInv
<1>. SUFFICES ASSUME Init PROVE IndexInv
  OBVIOUS
<1>1. Created = {} /\ Pending = {} /\ callbacks \in Seq(Created)
  BY DEF Init, Created, Pending
<1>2. orders \in Indexes /\ Exact(orders) /\ Listed(orders) = {}
  BY EmptyExact DEF Init
<1>. QED
  BY <1>1, <1>2 DEF Init, IndexInv, IndexExact

(* A new auction is appended to the index.                                 *)
LEMMA CreateInv ==
  ASSUME IndexInv, NEW u \in Users \cup Loans, NEW a \in Orders,
         NEW i, NEW f, NEW d, createAuction(u, a, i, f, d)
  PROVE  /\ IndexInv'
         /\ Market!Open(a)
<1>1. /\ owner[a] = NoUser /\ HasRoom(orders)
      /\ owner' = [owner EXCEPT ![a] = u]
      /\ isActive' = isActive \cup {a}
      /\ orders' = Enlist(orders, a)
      /\ callbacks' = callbacks
  BY DEF createAuction
<1>2. u # NoUser
  BY AuctionAssumption
<1>3. owner' \in [Orders -> Users \cup Loans \cup {NoUser}]
  BY <1>1 DEF IndexInv
<1>4. a \notin Created /\ Created' = Created \cup {a}
  BY <1>1, <1>2 DEF Created, IndexInv
<1>5. Pending \subseteq Created /\ Pending' = Pending
  BY <1>1 DEF IndexInv, Pending
<1>6. a \notin Listed(orders)
  BY <1>4, <1>5 DEF IndexInv, IndexExact
<1>7. /\ orders' \in Indexes
      /\ Exact(orders')
      /\ Listed(orders') = Listed(orders) \cup {a}
  BY <1>1, <1>6, EnlistExact DEF IndexInv, IndexExact
<1>8. callbacks' \in Seq(Created')
  BY <1>1, <1>4 DEF IndexInv
<1>9. IndexExact'
  BY <1>1, <1>4, <1>5, <1>7 DEF IndexInv, IndexExact
<1>10. IndexInv'
  BY <1>1, <1>3, <1>4, <1>7, <1>8, <1>9 DEF IndexInv
<1>11. Created' \ isActive' = Created \ isActive
  BY <1>1, <1>4
<1>12. Market!Open(a)
  BY <1>4, <1>7, <1>11 DEF Market!Open
<1>. QED
  BY <1>10, <1>12

(* A sale or a cancellation ends the auction and calls its receiver.       *)
LEMMA EndInv ==
  ASSUME IndexInv, NEW a \in isActive,
         isActive' = isActive \ {a},
         callbacks' = Append(callbacks, a),
         UNCHANGED <<owner, orders>>
  PROVE  /\ IndexInv'
         /\ Market!End(a)
<1>1. a \in Created /\ Created' = Created
  BY DEF IndexInv, Created
<1>2. callbacks \in Seq(Created) /\ Len(callbacks) \in Nat
  BY DEF IndexInv
<1>3. /\ callbacks' \in Seq(Created')
      /\ Len(callbacks') = Len(callbacks) + 1
  BY <1>1, <1>2
<1>4. \A i \in 1 .. Len(callbacks) + 1 :
        callbacks'[i] = IF i = Len(callbacks) + 1 THEN a ELSE callbacks[i]
  BY <1>1, <1>2
<1>5. \A i \in 1 .. Len(callbacks) : callbacks[i] \in Pending
  BY DEF Pending
<1>6. a \notin Pending
  BY DEF IndexInv, IndexExact
<1>7. Pending' = Pending \cup {a}
  <2>1. Pending' \subseteq Pending \cup {a}
    <3>1. ASSUME NEW i \in 1 .. Len(callbacks) + 1
          PROVE  callbacks'[i] \in Pending \cup {a}
      BY <1>2, <1>4, <1>5
    <3>. QED
      BY <3>1, <1>3 DEF Pending
  <2>2. ASSUME NEW i \in 1 .. Len(callbacks) PROVE callbacks[i] \in Pending'
    <3>1. i \in 1 .. Len(callbacks') /\ callbacks'[i] = callbacks[i]
      BY <1>2, <1>3, <1>4
    <3>. QED
      BY <3>1 DEF Pending
  <2>3. a \in Pending'
    <3>1. Len(callbacks') \in 1 .. Len(callbacks') /\ callbacks'[Len(callbacks')] = a
      BY <1>2, <1>3, <1>4
    <3>. QED
      BY <3>1 DEF Pending
  <2>. QED
    BY <2>1, <2>2, <2>3 DEF Pending
<1>8. \A i, j \in 1 .. Len(callbacks') : callbacks'[i] = callbacks'[j] => i = j
  <2>. SUFFICES ASSUME NEW i \in 1 .. Len(callbacks'), NEW j \in 1 .. Len(callbacks'),
                       callbacks'[i] = callbacks'[j]
                PROVE  i = j
    OBVIOUS
  <2>1. CASE i = Len(callbacks')
    BY <2>1, <1>2, <1>3, <1>4, <1>5, <1>6
  <2>2. CASE j = Len(callbacks')
    BY <2>2, <1>2, <1>3, <1>4, <1>5, <1>6
  <2>3. CASE i # Len(callbacks') /\ j # Len(callbacks')
    <3>1. i \in 1 .. Len(callbacks) /\ j \in 1 .. Len(callbacks)
      BY <2>3, <1>2, <1>3
    <3>2. callbacks[i] = callbacks[j]
      BY <2>3, <1>3, <1>4
    <3>. QED
      BY <3>1, <3>2 DEF IndexInv
  <2>. QED
    BY <2>1, <2>2, <2>3
<1>9. IndexExact'
  BY <1>6, <1>7 DEF IndexInv, IndexExact
<1>10. IndexInv'
  BY <1>1, <1>3, <1>8, <1>9 DEF IndexInv
<1>11. Market!End(a)
  <2>1. Created' \ isActive' = (Created \ isActive) \cup {a}
    BY <1>1
  <2>. QED
    BY <2>1, <1>1 DEF Market!End
<1>. QED
  BY <1>10, <1>11

(* The innermost call returns, and its auction leaves the index.           *)
LEMMA DeleteInv ==
  ASSUME IndexInv, _deleteAuctionOrder
  PROVE  /\ IndexInv'
         /\ Market!Close(callbacks[Len(callbacks)])
<1>. DEFINE n == Len(callbacks)
            a == callbacks[n]
<1>1. /\ callbacks # <<>>
      /\ orders' = DeleteShared(orders, a)
      /\ callbacks' = SubSeq(callbacks, 1, n - 1)
      /\ owner' = owner /\ isActive' = isActive
  BY DEF _deleteAuctionOrder
<1>2. callbacks \in Seq(Created) /\ n \in Nat \ {0}
  BY <1>1 DEF IndexInv
<1>3. n \in 1 .. n
  BY <1>2
<1>4. a \in Created /\ a \in Pending /\ a \in Orders
  BY <1>2, <1>3 DEF Pending, Created
<1>5. a \in Listed(orders) /\ a \notin isActive
  BY <1>4 DEF IndexInv, IndexExact
<1>6. /\ orders' \in Indexes
      /\ Exact(orders')
      /\ Listed(orders') = Listed(orders) \ {a}
  BY <1>1, <1>4, <1>5, DeleteSharedExact DEF IndexInv, IndexExact
<1>7. Created' = Created
  BY <1>1 DEF Created
<1>8. /\ callbacks' \in Seq(Created)
      /\ Len(callbacks') = n - 1
  <2>1. n - 1 \in Nat /\ n - 1 \in Int /\ 1 \in Int
    BY <1>2
  <2>2. \A i \in 1 .. n - 1 : callbacks[i] \in Created
    BY <1>2
  <2>3. /\ SubSeq(callbacks, 1, n - 1) \in Seq(Created)
        /\ Len(SubSeq(callbacks, 1, n - 1)) =
             IF 1 <= n - 1 THEN (n - 1) - 1 + 1 ELSE 0
    BY <2>1, <2>2, SubSeqProperties
  <2>4. (IF 1 <= n - 1 THEN (n - 1) - 1 + 1 ELSE 0) = n - 1
    BY <2>1
  <2>5. callbacks' = SubSeq(callbacks, 1, n - 1)
    BY <1>1
  <2>. HIDE DEF n
  <2>. QED
    BY <2>3, <2>4, <2>5
<1>9. \A i \in 1 .. n - 1 : callbacks'[i] = callbacks[i] /\ i \in 1 .. n
  BY <1>1, <1>2
<1>10. ASSUME NEW i \in 1 .. n - 1 PROVE callbacks[i] # a
  <2>1. i # n /\ i \in 1 .. n
    BY <1>2
  <2>. QED
    BY <2>1, <1>3 DEF IndexInv
<1>11. Pending' = Pending \ {a}
  <2>1. Pending' = {callbacks'[i] : i \in 1 .. n - 1}
    BY <1>8 DEF Pending
  <2>2. ASSUME NEW i \in 1 .. n, callbacks[i] # a PROVE callbacks[i] \in Pending'
    <3>1. i \in 1 .. n - 1
      BY <2>2, <1>2
    <3>. QED
      BY <3>1, <2>1, <1>9
  <2>3. ASSUME NEW i \in 1 .. n - 1 PROVE callbacks'[i] \in Pending \ {a}
    BY <1>9, <1>10 DEF Pending
  <2>. QED
    BY <2>1, <2>2, <2>3 DEF Pending
<1>12. \A i, j \in 1 .. Len(callbacks') : callbacks'[i] = callbacks'[j] => i = j
  BY <1>8, <1>9 DEF IndexInv
<1>13. IndexExact'
  BY <1>1, <1>5, <1>6, <1>11 DEF IndexInv, IndexExact
<1>14. IndexInv'
  BY <1>1, <1>6, <1>7, <1>8, <1>12, <1>13 DEF IndexInv
<1>15. Market!Close(a)
  BY <1>1, <1>4, <1>5, <1>6, <1>7 DEF Market!Close
<1>. QED
  BY <1>14, <1>15

(* Each step preserves the invariant and is a step of the set of open      *)
(* orders, or leaves it as it is.                                          *)
LEMMA StepInv ==
  ASSUME IndexInv, [Next]_vars
  PROVE  /\ IndexInv'
         /\ [Market!OpenNext]_(Market!activeVars)
<1>1. ASSUME UNCHANGED indexVars
      PROVE  IndexInv' /\ UNCHANGED Market!activeVars
  BY <1>1, StutterInv DEF indexVars, Created, Market!activeVars
<1>2. CASE \E u \in Users, a \in Orders, i \in Amounts, f \in Amounts, d \in Durations :
             createAuction(u, a, i, f, d)
  BY <1>2, CreateInv DEF Market!OpenNext
<1>3. CASE \E l \in Loans, a \in Orders, k \in Amounts :
             createAuctionForCollateral(l, a, k)
  BY <1>3, CreateInv DEF createAuctionForCollateral, Market!OpenNext
<1>4. CASE \E a \in Orders : buyNFT(a)
  BY <1>4, EndInv DEF buyNFT, Deactivate, Market!OpenNext
<1>5. CASE \E u \in Users, a \in Orders : cancelAuction(u, a)
  BY <1>5, EndInv DEF cancelAuction, Deactivate, Market!OpenNext
<1>6. CASE _deleteAuctionOrder
  <2>1. callbacks[Len(callbacks)] \in Orders
    BY <1>6 DEF IndexInv, Created, _deleteAuctionOrder
  <2>. QED
    BY <1>6, <2>1, DeleteInv DEF Market!OpenNext
<1>7. CASE \E u \in Users, a \in Orders, f \in Amounts : editFloorPrice(u, a, f)
  BY <1>7, <1>1 DEF editFloorPrice, indexVars
<1>8. CASE \E r \in Rates : \/ setFloorPriceForLiquidations(r)
                            \/ changeAuctionFee(r) \/ changePublicAuctionFee(r)
  BY <1>8, <1>1 DEF setFloorPriceForLiquidations, changeAuctionFee,
                    changePublicAuctionFee, indexVars
<1>9. CASE Tick
  BY <1>9, <1>1 DEF Tick, indexVars
<1>10. CASE UNCHANGED vars
  BY <1>10, <1>1 DEF vars, indexVars
<1>. QED
  BY <1>2, <1>3, <1>4, <1>5, <1>6, <1>7, <1>8, <1>9, <1>10 DEF Next

(* The invariant of the index, for every value of the constants.           *)
THEOREM IndexInvariant == Spec => []IndexInv
<1>1. IndexInv /\ [Next]_vars => IndexInv'
  BY StepInv
<1>. QED
  BY InitInv, <1>1, PTL DEF Spec

(* IndexExact: the factory's index lists just the active auctions and      *)
(* those whose receiver is being called.                                   *)
THEOREM IndexStaysExact == Spec => []IndexExact
<1>1. IndexInv => IndexExact
  BY DEF IndexInv
<1>. QED
  BY IndexInvariant, <1>1, PTL

(* ImplementsActiveOrders: an auction is listed from its creation, and     *)
(* leaves the list once, after it has been sold or cancelled.              *)
THEOREM IndexImplementsActiveOrders == Spec => ImplementsActiveOrders
<1>1. Init => Market!OpenInit
  BY EmptyExact DEF Init, Created, Market!OpenInit
<1>2. IndexInv /\ [Next]_vars => [Market!OpenNext]_(Market!activeVars)
  BY StepInv
<1>. QED
  BY <1>1, <1>2, IndexInvariant, PTL DEF Spec, ImplementsActiveOrders, Market!OpenSpec

-----------------------------------------------------------------------------
(* The price                                                               *)

(* The price after e seconds of ticks of t, from i down to f.              *)
PriceAfter(i, f, t, e) == IF t * e > i - f THEN f ELSE i - t * e

LEMMA PriceIsAfter ==
  ASSUME NEW a
  PROVE  CuredPrice(a) = PriceAfter(initAmount[a], floorAmount[a], tickPerBlock[a],
                                    now - initialBlock[a])
BY DEF CuredPrice, PriceAfter

LEMMA PriceRange ==
  ASSUME NEW i \in Nat, NEW f \in Nat, f <= i, NEW t \in Nat, NEW e \in Nat
  PROVE  /\ PriceAfter(i, f, t, e) \in Nat
         /\ f <= PriceAfter(i, f, t, e) /\ PriceAfter(i, f, t, e) <= i
<1>. DEFINE dec == t * e
<1>1. dec \in Nat
  OBVIOUS
<1>. HIDE DEF dec
<1>2. (IF dec > i - f THEN f ELSE i - dec) \in f .. i
  BY <1>1
<1>. QED
  BY <1>2 DEF PriceAfter, dec

(* The price falls with time.                                              *)
LEMMA PriceFalls ==
  ASSUME NEW i \in Nat, NEW f \in Nat, f <= i, NEW t \in Nat,
         NEW d \in Nat, NEW e \in Nat, d <= e
  PROVE  PriceAfter(i, f, t, e) <= PriceAfter(i, f, t, d)
<1>. DEFINE x == t * d
            y == t * e
<1>1. x \in Nat /\ y \in Nat /\ x <= y
  BY MulMonotone
<1>. HIDE DEF x, y
<1>2. (IF y > i - f THEN f ELSE i - y) <= (IF x > i - f THEN f ELSE i - x)
  BY <1>1
<1>. QED
  BY <1>2 DEF PriceAfter, x, y

(* After the duration d it is close to the floor.                          *)
LEMMA PriceAtEnd ==
  ASSUME NEW i \in Nat, NEW f \in Nat, f <= i, NEW t \in Nat, NEW d \in Nat,
         i - f < t * d + d + t, NEW e \in Nat, d < e
  PROVE  PriceAfter(i, f, t, e) < f + d + t
<1>. DEFINE x == t * d
            y == t * e
<1>1. x \in Nat /\ y \in Nat /\ i - f < x + d + t
  OBVIOUS
<1>2. x + t <= y
  <2>1. t * (d + 1) <= t * e
    BY MulMonotone
  <2>2. t * (d + 1) = t * d + t
    OBVIOUS
  <2>. QED
    BY <2>1, <2>2
<1>. HIDE DEF x, y
<1>3. (IF y > i - f THEN f ELSE i - y) < f + d + t
  BY <1>1, <1>2
<1>. QED
  BY <1>3 DEF PriceAfter, y

(* The ticks of a new auction, and those of one whose floor was lowered.   *)
LEMMA TicksOfDuration ==
  ASSUME NEW n \in Nat, NEW d \in Nat \ {0}
  PROVE  n < (n \div d) * d + d + (n \div d)
<1>. DEFINE t == n \div d
<1>1. t \in Nat /\ n < d * t + d
  BY DivNat, DivRest
<1>2. d * t = t * d /\ t * d \in Nat
  BY <1>1
<1>. HIDE DEF t
<1>3. n < t * d + d + t
  <2>. DEFINE x == t * d
  <2>1. x \in Nat /\ n < x + d
    BY <1>1, <1>2
  <2>. HIDE DEF x
  <2>2. n < x + d + t
    BY <1>1, <2>1
  <2>. QED
    BY <2>2 DEF x
<1>. QED
  BY <1>3 DEF t

LEMMA DurationOfTicks ==
  ASSUME NEW n \in Nat, NEW t \in Nat \ {0}
  PROVE  n \div t \in Nat /\ n < t * (n \div t) + (n \div t) + t
<1>. DEFINE d == n \div t
            x == t * d
<1>1. d \in Nat /\ n < t * d + t
  BY DivNat, DivRest
<1>. HIDE DEF d
<1>2. x \in Nat /\ n < x + t
  BY <1>1
<1>. HIDE DEF x
<1>3. n < x + d + t
  BY <1>1, <1>2
<1>. QED
  BY <1>1, <1>3 DEF x, d

(* Lowering the floor from f to g, with the discounted time: the price     *)
(* goes on from where it was, or from the last tick above the old floor.   *)
LEMMA PriceAfterEdit ==
  ASSUME NEW i \in Nat, NEW f \in Nat, NEW g \in Nat, g < f, f <= i,
         NEW t \in Nat \ {0}, NEW e \in Nat, NEW n \in Nat,
         n = IF (i - f) \div t < e THEN (i - f) \div t ELSE e
  PROVE  /\ PriceAfter(i, f, t, e) <= PriceAfter(i, g, t, n)
         /\ PriceAfter(i, g, t, n) < PriceAfter(i, f, t, e) + t
<1>. DEFINE way == i - f
            d == way \div t
            x == t * d
            y == t * e
<1>1. way \in Nat /\ d \in Nat /\ d * t <= way /\ way < t * d + t
  <2>1. way \in Nat
    OBVIOUS
  <2>. HIDE DEF way
  <2>. QED
    BY <2>1, DivNat, DivRest
<1>. HIDE DEF d
<1>2. x \in Nat /\ y \in Nat /\ x <= way /\ way < x + t
  <2>1. d * t = t * d
    BY <1>1
  <2>. QED
    BY <1>1, <2>1
<1>3. CASE d < e
  <2>1. t * (d + 1) <= t * e
    BY <1>1, <1>3, MulMonotone
  <2>2. t * (d + 1) = t * d + t
    BY <1>1
  <2>3. x + t <= y
    BY <2>1, <2>2
  <2>4. n = d
    BY <1>3 DEF d
  <2>. HIDE DEF x, y
  <2>5. PriceAfter(i, f, t, e) = f
    <3>1. (IF y > i - f THEN f ELSE i - y) = f
      BY <1>2, <2>3
    <3>. QED
      BY <3>1 DEF PriceAfter, y
  <2>6. PriceAfter(i, g, t, n) = i - x
    <3>1. (IF x > i - g THEN g ELSE i - x) = i - x
      BY <1>2
    <3>. QED
      BY <2>4, <3>1 DEF PriceAfter, x
  <2>. QED
    BY <1>2, <2>5, <2>6
<1>4. CASE ~(d < e)
  <2>1. t * e <= t * d
    BY <1>1, <1>4, MulMonotone
  <2>2. n = e
    BY <1>4 DEF d
  <2>3. y <= x
    BY <2>1
  <2>. HIDE DEF x, y
  <2>4. PriceAfter(i, f, t, e) = i - y
    <3>1. (IF y > i - f THEN f ELSE i - y) = i - y
      BY <1>2, <2>3
    <3>. QED
      BY <3>1 DEF PriceAfter, y
  <2>5. PriceAfter(i, g, t, n) = i - y
    <3>1. (IF y > i - g THEN g ELSE i - y) = i - y
      BY <1>2, <2>3
    <3>. QED
      BY <2>2, <3>1 DEF PriceAfter, y
  <2>. QED
    BY <1>2, <2>4, <2>5
<1>. QED
  BY <1>3, <1>4

-----------------------------------------------------------------------------
(* Steps and the price                                                     *)

(* The price of an active auction.                                         *)
LEMMA ActivePrice ==
  ASSUME PriceInv, NEW a \in Orders, a \in isActive
  PROVE  /\ initAmount[a] \in Nat /\ floorAmount[a] \in Nat /\ tickPerBlock[a] \in Nat
         /\ initialBlock[a] \in Nat /\ duration[a] \in Nat
         /\ now \in Nat /\ now - initialBlock[a] \in Nat
         /\ floorAmount[a] <= initAmount[a]
         /\ initAmount[a] - floorAmount[a]
              < tickPerBlock[a] * duration[a] + duration[a] + tickPerBlock[a]
         /\ CuredPrice(a) \in Nat /\ floorAmount[a] <= CuredPrice(a)
<1>1. /\ initAmount[a] \in Nat /\ floorAmount[a] \in Nat /\ tickPerBlock[a] \in Nat
      /\ initialBlock[a] \in Nat /\ duration[a] \in Nat
  BY DEF PriceInv
<1>2. /\ floorAmount[a] <= initAmount[a] /\ initialBlock[a] <= now
      /\ initAmount[a] - floorAmount[a]
           < tickPerBlock[a] * duration[a] + duration[a] + tickPerBlock[a]
  BY DEF PriceInv
<1>3. now \in Nat
  BY AuctionAssumption DEF PriceInv
<1>4. now - initialBlock[a] \in Nat
  BY <1>1, <1>2, <1>3
<1>5. CuredPrice(a) \in Nat /\ floorAmount[a] <= CuredPrice(a)
  BY <1>1, <1>2, <1>4, PriceIsAfter, PriceRange
<1>. QED
  BY <1>1, <1>2, <1>3, <1>4, <1>5

(* An auction starts at the initial amount with whole ticks.               *)
LEMMA CreatePrice ==
  ASSUME IndexInv, PriceInv, NEW u, NEW a \in Orders, NEW i \in Nat, NEW f \in Nat,
         NEW d \in Nat, createAuction(u, a, i, f, d)
  PROVE  PriceInv' /\ a \notin isActive
<1>. DEFINE from == i * Scale
            floor == f * Scale
            tick == (from - floor) \div d
<1>1. /\ owner[a] = NoUser /\ i >= f /\ d \in Nat \ {0} /\ now' = now
      /\ isActive' = isActive \cup {a}
      /\ initAmount' = [initAmount EXCEPT ![a] = from]
      /\ floorAmount' = [floorAmount EXCEPT ![a] = floor]
      /\ duration' = [duration EXCEPT ![a] = d]
      /\ tickPerBlock' = [tickPerBlock EXCEPT ![a] = tick]
      /\ initialBlock' = [initialBlock EXCEPT ![a] = now]
  BY DEF createAuction
<1>2. a \notin isActive /\ isActive \subseteq Orders
  BY <1>1 DEF IndexInv, Created
<1>3. from \in Nat /\ floor \in Nat /\ floor <= from
  <2>1. Scale * f <= Scale * i
    BY <1>1, AuctionAssumption, MulMonotone
  <2>2. Scale * f = f * Scale /\ Scale * i = i * Scale
    BY AuctionAssumption
  <2>. QED
    BY <2>1, <2>2, AuctionAssumption
<1>. HIDE DEF from, floor
<1>4. tick \in Nat /\ from - floor < tick * d + d + tick
  <2>. DEFINE n == from - floor
  <2>1. n \in Nat
    BY <1>3
  <2>. HIDE DEF n
  <2>2. n \div d \in Nat
    BY <1>1, <2>1, DivNat
  <2>3. n < (n \div d) * d + d + (n \div d)
    BY <1>1, <2>1, TicksOfDuration
  <2>. QED
    BY <2>2, <2>3 DEF n
<1>. HIDE DEF tick
<1>5. now \in Times /\ now \in Nat
  BY AuctionAssumption DEF PriceInv
<1>6. /\ initAmount' \in [Orders -> Nat] /\ floorAmount' \in [Orders -> Nat]
      /\ tickPerBlock' \in [Orders -> Nat]
      /\ initialBlock' \in [Orders -> Nat] /\ duration' \in [Orders -> Nat]
  BY <1>1, <1>3, <1>4, <1>5 DEF PriceInv
<1>7. ASSUME NEW b \in isActive'
      PROVE  /\ floorAmount'[b] <= initAmount'[b]
             /\ initialBlock'[b] <= now'
             /\ initAmount'[b] - floorAmount'[b]
                  < tickPerBlock'[b] * duration'[b] + duration'[b] + tickPerBlock'[b]
  <2>1. CASE b = a
    <3>1. /\ initAmount'[b] = from /\ floorAmount'[b] = floor /\ tickPerBlock'[b] = tick
          /\ initialBlock'[b] = now /\ duration'[b] = d
      BY <1>1, <2>1 DEF PriceInv
    <3>. QED
      BY <1>1, <1>3, <1>4, <1>5, <3>1
  <2>2. CASE b # a
    <3>1. /\ b \in isActive /\ b \in Orders
          /\ initAmount'[b] = initAmount[b] /\ floorAmount'[b] = floorAmount[b]
          /\ tickPerBlock'[b] = tickPerBlock[b] /\ initialBlock'[b] = initialBlock[b]
          /\ duration'[b] = duration[b]
      BY <1>1, <1>2, <2>2 DEF PriceInv
    <3>. QED
      BY <1>1, <3>1 DEF PriceInv
  <2>. QED
    BY <2>1, <2>2
<1>. QED
  BY <1>1, <1>2, <1>5, <1>6, <1>7 DEF PriceInv

(* A lower floor is further away, and so is the end; the price goes on.    *)
LEMMA EditPrice ==
  ASSUME IndexInv, PriceInv, NEW u, NEW a \in Orders, NEW f \in Nat, editFloorPrice(u, a, f)
  PROVE  /\ PriceInv'
         /\ CuredPrice(a) <= CuredPrice(a)' /\ CuredPrice(a)' < CuredPrice(a) + tickPerBlock[a]
<1>. DEFINE floor == f * Scale
            i == initAmount[a]
            t == tickPerBlock[a]
            way == i - floorAmount[a]
            newWay == i - floor
            newBlock == EditedInitialBlock(a)
            newEnd == EditedDuration(a, floor)
            n == now - newBlock
            e == now - initialBlock[a]
<1>1. /\ a \in isActive /\ floorAmount[a] > floor /\ t > 0
      /\ duration' = [duration EXCEPT ![a] = newEnd]
      /\ initialBlock' = [initialBlock EXCEPT ![a] = newBlock]
      /\ floorAmount' = [floorAmount EXCEPT ![a] = floor]
      /\ UNCHANGED <<now, isActive, initAmount, tickPerBlock>>
  BY DEF editFloorPrice
<1>2. /\ i \in Nat /\ floorAmount[a] \in Nat /\ t \in Nat \ {0}
      /\ initialBlock[a] \in Nat /\ now \in Nat /\ e \in Nat
      /\ floorAmount[a] <= i
  BY <1>1, ActivePrice
<1>3. floor \in Nat /\ way \in Nat /\ newWay \in Nat
  <2>1. floor \in Nat
    BY AuctionAssumption
  <2>. HIDE DEF floor
  <2>. QED
    BY <1>1, <1>2, <2>1
<1>4. newEnd \in Nat /\ newWay < t * newEnd + newEnd + t
  <2>1. newEnd = newWay \div t
    BY DEF EditedDuration
  <2>. HIDE DEF newEnd, newWay, t
  <2>. QED
    BY <1>2, <1>3, <2>1, DurationOfTicks
<1>5. /\ newBlock \in Nat /\ n \in Nat
      /\ n = IF way \div t < e THEN way \div t ELSE e
  <2>. DEFINE d == way \div t
              b == initialBlock[a]
  <2>1. d \in Nat
    <3>. HIDE DEF way, t
    <3>. QED
      BY <1>2, <1>3, DivNat
  <2>2. newBlock = IF b + d < now THEN now - d ELSE b
    BY DEF EditedInitialBlock, DiscountedTime
  <2>. HIDE DEF d, newBlock, t, way
  <2>3. newBlock \in Nat /\ now - newBlock \in Nat
    BY <1>2, <2>1, <2>2
  <2>4. now - newBlock = IF d < now - b THEN d ELSE now - b
    BY <1>2, <2>1, <2>2
  <2>. QED
    BY <2>3, <2>4 DEF d
<1>. HIDE DEF newEnd, newBlock
<1>6. /\ initAmount' \in [Orders -> Nat] /\ floorAmount' \in [Orders -> Nat]
      /\ tickPerBlock' \in [Orders -> Nat]
      /\ initialBlock' \in [Orders -> Nat] /\ duration' \in [Orders -> Nat]
  <2>. HIDE DEF floor
  <2>. QED
    BY <1>1, <1>3, <1>4, <1>5 DEF PriceInv
<1>7. /\ initAmount'[a] = i /\ floorAmount'[a] = floor /\ tickPerBlock'[a] = t
      /\ initialBlock'[a] = newBlock /\ duration'[a] = newEnd
  BY <1>1 DEF PriceInv
<1>8. ASSUME NEW b \in isActive'
      PROVE  /\ floorAmount'[b] <= initAmount'[b]
             /\ initialBlock'[b] <= now'
             /\ initAmount'[b] - floorAmount'[b]
                  < tickPerBlock'[b] * duration'[b] + duration'[b] + tickPerBlock'[b]
  <2>1. CASE b = a
    <3>1. floor <= i /\ newBlock <= now
      <4>. HIDE DEF floor, i
      <4>. QED
        BY <1>1, <1>2, <1>3, <1>5
    <3>. HIDE DEF floor, i, t
    <3>. QED
      BY <1>1, <1>4, <1>7, <2>1, <3>1
  <2>2. CASE b # a
    <3>1. /\ b \in isActive /\ b \in Orders
          /\ initAmount'[b] = initAmount[b] /\ floorAmount'[b] = floorAmount[b]
          /\ tickPerBlock'[b] = tickPerBlock[b] /\ initialBlock'[b] = initialBlock[b]
          /\ duration'[b] = duration[b]
      BY <1>1, <2>2 DEF PriceInv, IndexInv, Created
    <3>. QED
      BY <1>1, <3>1 DEF PriceInv
  <2>. QED
    BY <2>1, <2>2
<1>9. PriceInv'
  BY <1>1, <1>6, <1>8 DEF PriceInv
<1>10. CuredPrice(a) = PriceAfter(i, floorAmount[a], t, e)
  BY PriceIsAfter
<1>11. CuredPrice(a)' = PriceAfter(i, floor, t, n)
  BY <1>1, <1>7 DEF CuredPrice, PriceAfter
<1>12. floor < floorAmount[a]
  BY <1>1, <1>2, <1>3
<1>. HIDE DEF floor, i, t, e, n
<1>13. /\ PriceAfter(i, floorAmount[a], t, e) <= PriceAfter(i, floor, t, n)
       /\ PriceAfter(i, floor, t, n) < PriceAfter(i, floorAmount[a], t, e) + t
  BY <1>2, <1>3, <1>5, <1>12, PriceAfterEdit
<1>. QED
  BY <1>9, <1>10, <1>11, <1>13 DEF t

(* Every step keeps the invariant of the price and moves the price of the  *)
(* auctions it leaves active as PriceContinuous says.                      *)
PriceMoves ==
  \A a \in isActive \cap isActive' :
    IF floorAmount'[a] = floorAmount[a]
      THEN CuredPrice(a)' <= CuredPrice(a)
      ELSE /\ CuredPrice(a)' >= CuredPrice(a)
           /\ CuredPrice(a)' < CuredPrice(a) + tickPerBlock[a]

(* Without an edit the price can only fall, as time goes by.               *)
LEMMA PriceKept ==
  ASSUME IndexInv, PriceInv, now' \in Times, now <= now', isActive' \subseteq isActive,
         UNCHANGED priceVars
  PROVE  PriceInv' /\ PriceMoves
<1>1. /\ initAmount' = initAmount /\ floorAmount' = floorAmount
      /\ tickPerBlock' = tickPerBlock /\ initialBlock' = initialBlock
      /\ duration' = duration
  BY DEF priceVars
<1>2. now' \in Nat /\ now \in Nat
  BY AuctionAssumption DEF PriceInv
<1>3. ASSUME NEW a \in isActive'
      PROVE  /\ floorAmount'[a] <= initAmount'[a]
             /\ initialBlock'[a] <= now'
             /\ initAmount'[a] - floorAmount'[a]
                  < tickPerBlock'[a] * duration'[a] + duration'[a] + tickPerBlock'[a]
             /\ CuredPrice(a)' <= CuredPrice(a)
  <2>. DEFINE d == now - initialBlock[a]
              e == now' - initialBlock[a]
  <2>1. a \in isActive /\ a \in Orders
    BY DEF IndexInv, Created
  <2>2. /\ initAmount[a] \in Nat /\ floorAmount[a] \in Nat /\ tickPerBlock[a] \in Nat
        /\ initialBlock[a] \in Nat /\ d \in Nat /\ floorAmount[a] <= initAmount[a]
        /\ initAmount[a] - floorAmount[a]
             < tickPerBlock[a] * duration[a] + duration[a] + tickPerBlock[a]
    BY <2>1, ActivePrice
  <2>3. initialBlock[a] <= now
    BY <2>1 DEF PriceInv
  <2>4. initialBlock[a] <= now' /\ e \in Nat /\ d <= e
    BY <1>2, <2>2, <2>3
  <2>5. CuredPrice(a) = PriceAfter(initAmount[a], floorAmount[a], tickPerBlock[a], d)
    BY PriceIsAfter
  <2>6. CuredPrice(a)' = PriceAfter(initAmount[a], floorAmount[a], tickPerBlock[a], e)
    BY <1>1 DEF CuredPrice, PriceAfter
  <2>7. CuredPrice(a)' <= CuredPrice(a)
    <3>. HIDE DEF d, e
    <3>. QED
      BY <2>2, <2>4, <2>5, <2>6, PriceFalls
  <2>. QED
    BY <1>1, <2>2, <2>4, <2>7
<1>4. PriceInv'
  BY <1>1, <1>3 DEF PriceInv
<1>. QED
  BY <1>1, <1>3, <1>4 DEF PriceMoves

(* The floor of a liquidation is a natural number below the amount.        *)
LEMMA LiquidationFloor ==
  ASSUME LiquidationInv, NEW n \in Nat
  PROVE  getLiquidationFloorPrice(n) \in Nat
<1>. DEFINE m == n * FloorPricePercentage
<1>1. m \in Nat
  BY DEF LiquidationInv
<1>. HIDE DEF m
<1>2. m \div 10000 \in Nat
  BY <1>1, DivNat
<1>. QED
  BY <1>2 DEF getLiquidationFloorPrice, m

(* A new auction does not touch the price of those already active.         *)
LEMMA CreateMoves ==
  ASSUME IndexInv, PriceInv, NEW u, NEW a \in Orders, NEW i \in Nat, NEW f \in Nat,
         NEW d \in Nat, createAuction(u, a, i, f, d)
  PROVE  PriceInv' /\ PriceMoves
<1>1. PriceInv' /\ a \notin isActive
  BY CreatePrice
<1>2. ASSUME NEW b \in isActive
      PROVE  /\ floorAmount'[b] = floorAmount[b]
             /\ CuredPrice(b)' = CuredPrice(b) /\ CuredPrice(b) \in Nat
  <2>1. b # a /\ b \in Orders
    BY <1>1 DEF IndexInv, Created
  <2>2. /\ initAmount'[b] = initAmount[b] /\ floorAmount'[b] = floorAmount[b]
        /\ tickPerBlock'[b] = tickPerBlock[b] /\ initialBlock'[b] = initialBlock[b]
        /\ now' = now
    BY <2>1 DEF createAuction, PriceInv
  <2>3. CuredPrice(b) \in Nat
    BY <2>1, ActivePrice
  <2>. QED
    BY <2>2, <2>3 DEF CuredPrice
<1>. QED
  BY <1>1, <1>2 DEF PriceMoves

(* Lowering the floor of one auction does not touch the others.            *)
LEMMA EditMoves ==
  ASSUME IndexInv, PriceInv, NEW u, NEW a \in Orders, NEW f \in Nat, editFloorPrice(u, a, f)
  PROVE  PriceInv' /\ PriceMoves
<1>1. PriceInv' /\ CuredPrice(a) <= CuredPrice(a)'
      /\ CuredPrice(a)' < CuredPrice(a) + tickPerBlock[a]
  BY EditPrice
<1>2. ASSUME NEW b \in isActive, b # a
      PROVE  /\ floorAmount'[b] = floorAmount[b]
             /\ CuredPrice(b)' = CuredPrice(b) /\ CuredPrice(b) \in Nat
  <2>1. b \in Orders
    BY DEF IndexInv, Created
  <2>2. /\ initAmount'[b] = initAmount[b] /\ floorAmount'[b] = floorAmount[b]
        /\ tickPerBlock'[b] = tickPerBlock[b] /\ initialBlock'[b] = initialBlock[b]
        /\ now' = now
    BY <1>2, <2>1 DEF editFloorPrice, PriceInv
  <2>3. CuredPrice(b) \in Nat
    BY <1>2, <2>1, ActivePrice
  <2>. QED
    BY <2>2, <2>3 DEF CuredPrice
<1>3. floorAmount'[a] # floorAmount[a]
  <2>. DEFINE floor == f * Scale
  <2>1. floor \in Nat /\ floorAmount'[a] = floor /\ floorAmount[a] > floor
        /\ floorAmount[a] \in Nat
    BY AuctionAssumption DEF editFloorPrice, PriceInv
  <2>. HIDE DEF floor
  <2>. QED
    BY <2>1
<1>. QED
  BY <1>1, <1>2, <1>3 DEF PriceMoves

-----------------------------------------------------------------------------
(* Liquidations                                                            *)

LEMMA InitPrice == Init => PriceInv /\ LiquidationInv
BY DEF Init, PriceInv, LiquidationInv, LiquidationNet

(* A floor of at least 5% of n tokens is above the lowest legal floor.     *)
LEMMA LegalFloor ==
  ASSUME LiquidationInv, NEW n \in Nat
  PROVE  getLiquidationFloorPrice(n) * Scale
           >= ((((n * Scale) \div Scale) * 500) \div 10000) * Scale
<1>. DEFINE m == n * FloorPricePercentage
            k == n * 500
            x == m \div 10000
            y == k \div 10000
<1>1. (n * Scale) \div Scale = n
  BY AuctionAssumption, DivOfProduct
<1>2. m \in Nat /\ k \in Nat /\ k <= m
  BY MulMonotone, 500 \in Nat DEF LiquidationInv
<1>3. x \in Nat /\ y \in Nat /\ y <= x
  <2>. HIDE DEF m, k
  <2>. QED
    BY <1>2, DivNat, DivMonotone, 10000 \in Nat \ {0}
<1>4. getLiquidationFloorPrice(n) = x
  BY DEF getLiquidationFloorPrice
<1>. HIDE DEF x, y
<1>5. Scale * y <= Scale * x /\ Scale * y = y * Scale /\ Scale * x = x * Scale
      /\ x * Scale \in Nat /\ y * Scale \in Nat
  BY <1>3, AuctionAssumption, MulMonotone
<1>6. y * Scale <= x * Scale
  BY <1>5
<1>. QED
  BY <1>1, <1>4, <1>6 DEF y, k

(* What the seller gets at price p, when the lowest legal price is m.      *)
LEMMA NetOfPrice ==
  ASSUME NEW p \in Nat, NEW m \in Nat, m <= p, NEW r \in Nat, r <= 400
  PROVE  (p - (p * r) \div 10000) * 10000 >= m * 9600
<1>. DEFINE w == p * r
            q == w \div 10000
<1>1. w \in Nat /\ w <= p * 400
  BY MulMonotone, 400 \in Nat
<1>. HIDE DEF w
<1>2. q \in Nat /\ q * 10000 <= w
  BY <1>1, DivNat
<1>. HIDE DEF q
<1>3. (p - q) * 10000 >= m * 9600
  BY <1>1, <1>2
<1>. QED
  BY <1>3 DEF q, w

(* The price of a liquidation is at least the lowest legal one.            *)
LEMMA LiquidationPrice ==
  ASSUME PriceInv, LiquidationInv, NEW a \in Orders, a \in isActive, isLiquidation(a)
  PROVE  /\ LowestFloor(a) \in Nat /\ getCurrentPrice(a) \in Nat
         /\ LowestFloor(a) <= getCurrentPrice(a)
<1>. DEFINE n == initAmount[a] \div Scale
            m == n * 500
            low == LowestFloor(a)
            price == CuredPrice(a)
<1>1. /\ price \in Nat /\ floorAmount[a] \in Nat /\ floorAmount[a] <= price
      /\ initAmount[a] \in Nat
  BY ActivePrice
<1>2. n \in Nat
  BY <1>1, AuctionAssumption, DivNat
<1>3. m \in Nat
  <2>. HIDE DEF n
  <2>. QED
    BY <1>2
<1>4. low \in Nat
  <2>1. low = m \div 10000
    BY DEF LowestFloor
  <2>. HIDE DEF m, low
  <2>. QED
    BY <1>3, <2>1, DivNat
<1>5. floorAmount[a] >= low * Scale
  BY DEF LiquidationInv
<1>. HIDE DEF low, price
<1>6. low * Scale \in Nat /\ low * Scale <= price
  BY <1>1, <1>4, <1>5, AuctionAssumption
<1>7. (low * Scale) \div Scale <= price \div Scale /\ (low * Scale) \div Scale = low
      /\ price \div Scale \in Nat
  BY <1>1, <1>4, <1>6, AuctionAssumption, DivNat, DivMonotone, DivOfProduct
<1>. QED
  BY <1>4, <1>7 DEF low, price, getCurrentPrice

(* A new liquidation has a legal floor; other auctions keep theirs.        *)
LEMMA CreateLiquidation ==
  ASSUME IndexInv, PriceInv, LiquidationInv, NEW u \in Users \cup Loans, NEW a \in Orders,
         NEW i \in Nat, NEW f \in Nat, NEW d \in Nat, createAuction(u, a, i, f, d),
         u \in Loans => f = getLiquidationFloorPrice(i)
  PROVE  LiquidationInv'
<1>1. /\ owner[a] = NoUser
      /\ owner' = [owner EXCEPT ![a] = u]
      /\ isActive' = isActive \cup {a}
      /\ initAmount' = [initAmount EXCEPT ![a] = i * Scale]
      /\ floorAmount' = [floorAmount EXCEPT ![a] = f * Scale]
      /\ UNCHANGED <<settingVars, saleVars>>
  BY DEF createAuction
<1>2. /\ FloorPricePercentage' = FloorPricePercentage /\ auctionFee' = auctionFee
      /\ sold' = sold /\ proceeds' = proceeds
  BY <1>1 DEF settingVars, saleVars
<1>3. a \notin Created /\ u # NoUser
  BY <1>1, AuctionAssumption DEF Created
<1>4. isActive \subseteq Orders /\ a \notin isActive /\ a \notin sold /\ sold \subseteq Orders
  BY <1>3 DEF IndexInv, LiquidationInv, Created
<1>5. sold' \subseteq Created'
  BY <1>1, <1>2, <1>3, <1>4 DEF LiquidationInv, Created, IndexInv
<1>6. ASSUME NEW b \in Orders, b # a
      PROVE  /\ owner'[b] = owner[b] /\ initAmount'[b] = initAmount[b]
             /\ floorAmount'[b] = floorAmount[b]
  BY <1>1, <1>6 DEF IndexInv, PriceInv
<1>7. owner'[a] = u /\ initAmount'[a] = i * Scale /\ floorAmount'[a] = f * Scale
  BY <1>1 DEF IndexInv, PriceInv
<1>8. ASSUME NEW b \in isActive', isLiquidation(b)'
      PROVE  floorAmount'[b] >= LowestFloor(b)' * Scale
  <2>1. CASE b = a
    <3>1. u \in Loans
      BY <1>7, <1>8, <2>1 DEF isLiquidation
    <3>2. f * Scale >= ((((i * Scale) \div Scale) * 500) \div 10000) * Scale
      BY <3>1, LegalFloor
    <3>. QED
      BY <1>7, <2>1, <3>2 DEF LowestFloor
  <2>2. CASE b # a
    <3>1. b \in isActive /\ b \in Orders
      BY <1>1, <1>4, <2>2
    <3>2. isLiquidation(b)
      BY <1>6, <1>8, <2>2, <3>1 DEF isLiquidation
    <3>3. floorAmount[b] >= LowestFloor(b) * Scale
      BY <3>1, <3>2 DEF LiquidationInv
    <3>. QED
      BY <1>6, <2>2, <3>1, <3>3 DEF LowestFloor
  <2>. QED
    BY <2>1, <2>2
<1>9. ASSUME NEW b \in sold', isLiquidation(b)'
      PROVE  proceeds'[b] * 10000 >= LowestFloor(b)' * 9600
  <2>1. b \in sold /\ b # a /\ b \in Orders
    BY <1>2, <1>4
  <2>2. isLiquidation(b)
    BY <1>6, <1>9, <2>1 DEF isLiquidation
  <2>3. proceeds[b] * 10000 >= LowestFloor(b) * 9600
    BY <2>1, <2>2 DEF LiquidationInv, LiquidationNet
  <2>. QED
    BY <1>2, <1>6, <2>1, <2>3 DEF LowestFloor
<1>. QED
  BY <1>2, <1>5, <1>8, <1>9 DEF LiquidationInv, LiquidationNet

(* A sale pays the price less the fee to the seller.                       *)
LEMMA BuyLiquidation ==
  ASSUME IndexInv, PriceInv, LiquidationInv, NEW a \in Orders, buyNFT(a)
  PROVE  LiquidationInv'
<1>1. /\ a \in isActive
      /\ isActive' \subseteq isActive
      /\ proceeds' = [proceeds EXCEPT ![a] = getCurrentPrice(a) - FeeOf(a)]
      /\ sold' = sold \cup {a}
      /\ DOMAIN proceeds = Orders
      /\ UNCHANGED <<owner, priceVars, settingVars>>
  BY DEF buyNFT, Deactivate, LiquidationInv
<1>2. /\ FloorPricePercentage' = FloorPricePercentage /\ auctionFee' = auctionFee
      /\ owner' = owner /\ initAmount' = initAmount /\ floorAmount' = floorAmount
  BY <1>1 DEF settingVars, priceVars
<1>3. sold' \subseteq Created'
  BY <1>1, <1>2 DEF LiquidationInv, IndexInv, Created
<1>4. ASSUME NEW b \in isActive', isLiquidation(b)'
      PROVE  floorAmount'[b] >= LowestFloor(b)' * Scale
  BY <1>1, <1>2, <1>4 DEF LiquidationInv, isLiquidation, LowestFloor
<1>5. ASSUME NEW b \in sold', isLiquidation(b)'
      PROVE  proceeds'[b] * 10000 >= LowestFloor(b)' * 9600
  <2>1. isLiquidation(b) /\ LowestFloor(b)' = LowestFloor(b)
    BY <1>2, <1>5 DEF isLiquidation, LowestFloor
  <2>2. CASE b = a
    <3>. DEFINE p == getCurrentPrice(b)
                m == LowestFloor(b)
    <3>1. p \in Nat /\ m \in Nat /\ m <= p
      BY <1>1, <2>1, <2>2, LiquidationPrice
    <3>2. FeeOf(b) = (p * auctionFee) \div 10000
      BY <2>1 DEF FeeOf
    <3>3. proceeds'[b] = p - FeeOf(b)
      BY <1>1, <2>2
    <3>. HIDE DEF p, m
    <3>4. (p - (p * auctionFee) \div 10000) * 10000 >= m * 9600
      BY <3>1, NetOfPrice DEF LiquidationInv
    <3>. QED
      BY <2>1, <3>2, <3>3, <3>4 DEF m
  <2>3. CASE b # a
    <3>1. b \in sold /\ b \in Orders /\ proceeds'[b] = proceeds[b]
      BY <1>1, <2>3 DEF LiquidationInv, Created
    <3>. QED
      BY <2>1, <3>1 DEF LiquidationInv, LiquidationNet
  <2>. QED
    BY <2>2, <2>3
<1>. QED
  BY <1>1, <1>2, <1>3, <1>4, <1>5 DEF LiquidationInv, LiquidationNet

(* Lowering a floor is for auctions of users; a loan's stays as it is.     *)
LEMMA EditLiquidation ==
  ASSUME IndexInv, PriceInv, LiquidationInv, NEW u \in Users, NEW a \in Orders,
         NEW f \in Nat, editFloorPrice(u, a, f)
  PROVE  LiquidationInv'
<1>1. /\ owner[a] = u
      /\ floorAmount' = [floorAmount EXCEPT ![a] = f * Scale]
      /\ UNCHANGED <<owner, isActive, initAmount, settingVars, saleVars>>
  BY DEF editFloorPrice
<1>2. /\ FloorPricePercentage' = FloorPricePercentage /\ auctionFee' = auctionFee
      /\ owner' = owner /\ initAmount' = initAmount /\ isActive' = isActive
      /\ sold' = sold /\ proceeds' = proceeds
  BY <1>1 DEF settingVars, saleVars
<1>3. ~isLiquidation(a)
  BY <1>1, AuctionAssumption DEF isLiquidation
<1>4. sold' \subseteq Created'
  BY <1>2 DEF LiquidationInv, Created
<1>5. ASSUME NEW b \in isActive', isLiquidation(b)'
      PROVE  floorAmount'[b] >= LowestFloor(b)' * Scale
  <2>1. isLiquidation(b) /\ LowestFloor(b)' = LowestFloor(b) /\ b \in isActive
    BY <1>2, <1>5 DEF isLiquidation, LowestFloor
  <2>2. b # a /\ b \in Orders
    BY <1>3, <2>1 DEF IndexInv, Created
  <2>3. floorAmount'[b] = floorAmount[b]
    BY <1>1, <2>2 DEF PriceInv
  <2>. QED
    BY <2>1, <2>3 DEF LiquidationInv
<1>6. LiquidationNet'
  BY <1>2 DEF LiquidationInv, LiquidationNet, isLiquidation, LowestFloor
<1>. QED
  BY <1>2, <1>4, <1>5, <1>6 DEF LiquidationInv

(* Fees and floors stay legal, and nothing else matters.                   *)
LEMMA OtherLiquidation ==
  ASSUME LiquidationInv, UNCHANGED <<owner, priceVars, saleVars>>, isActive' \subseteq isActive,
         FloorPricePercentage' \in Nat, FloorPricePercentage' >= 500,
         auctionFee' \in Nat, auctionFee' <= 400
  PROVE  LiquidationInv'
<1>1. /\ owner' = owner /\ initAmount' = initAmount /\ floorAmount' = floorAmount
      /\ sold' = sold /\ proceeds' = proceeds
  BY DEF priceVars, saleVars
<1>2. sold' \subseteq Created'
  BY <1>1 DEF LiquidationInv, Created
<1>3. LiquidationNet'
  BY <1>1 DEF LiquidationInv, LiquidationNet, isLiquidation, LowestFloor
<1>4. \A a \in isActive' : isLiquidation(a)' => floorAmount'[a] >= LowestFloor(a)' * Scale
  BY <1>1 DEF LiquidationInv, isLiquidation, LowestFloor
<1>. QED
  BY <1>1, <1>2, <1>3, <1>4 DEF LiquidationInv

(* Every step keeps both invariants and moves prices as promised.          *)
LEMMA PriceStep ==
  ASSUME IndexInv, PriceInv, LiquidationInv, [Next]_vars
  PROVE  PriceInv' /\ LiquidationInv' /\ PriceMoves
<1>1. now \in Nat /\ now \in Times /\ now <= now
  BY AuctionAssumption DEF PriceInv
<1>2. /\ FloorPricePercentage \in Nat /\ FloorPricePercentage >= 500
      /\ auctionFee \in Nat /\ auctionFee <= 400
  BY DEF LiquidationInv
<1>3. CASE \E u \in Users, a \in Orders, i \in Amounts, f \in Amounts, d \in Durations :
             createAuction(u, a, i, f, d)
  <2>1. PICK u \in Users, a \in Orders, i \in Amounts, f \in Amounts, d \in Durations :
          createAuction(u, a, i, f, d)
    BY <1>3
  <2>2. i \in Nat /\ f \in Nat /\ d \in Nat /\ u \notin Loans
    BY AuctionAssumption
  <2>. QED
    BY <2>1, <2>2, CreateMoves, CreateLiquidation
<1>4. CASE \E l \in Loans, a \in Orders, n \in Amounts :
             createAuctionForCollateral(l, a, n)
  <2>1. PICK l \in Loans, a \in Orders, n \in Amounts :
          createAuction(l, a, n, getLiquidationFloorPrice(n), LiquidationDuration)
    BY <1>4 DEF createAuctionForCollateral
  <2>2. n \in Nat /\ LiquidationDuration \in Nat
    BY AuctionAssumption
  <2>3. getLiquidationFloorPrice(n) \in Nat
    BY <2>2, LiquidationFloor
  <2>. QED
    BY <2>1, <2>2, <2>3, CreateMoves, CreateLiquidation
<1>5. CASE \E a \in Orders : buyNFT(a)
  <2>1. PICK a \in Orders : buyNFT(a)
    BY <1>5
  <2>2. UNCHANGED <<now, priceVars>> /\ isActive' \subseteq isActive
    BY <2>1 DEF buyNFT, Deactivate
  <2>. QED
    BY <1>1, <2>1, <2>2, PriceKept, BuyLiquidation
<1>6. CASE \E u \in Users, a \in Orders, f \in Amounts : editFloorPrice(u, a, f)
  <2>1. PICK u \in Users, a \in Orders, f \in Amounts : editFloorPrice(u, a, f)
    BY <1>6
  <2>2. f \in Nat
    BY AuctionAssumption
  <2>. QED
    BY <2>1, <2>2, EditMoves, EditLiquidation
<1>7. CASE \/ \E u \in Users, a \in Orders : cancelAuction(u, a)
           \/ _deleteAuctionOrder
           \/ UNCHANGED vars
  <2>1. UNCHANGED <<now, owner, priceVars, settingVars, saleVars>> /\ isActive' \subseteq isActive
    BY <1>7 DEF cancelAuction, _deleteAuctionOrder, vars, Deactivate
  <2>2. FloorPricePercentage' = FloorPricePercentage /\ auctionFee' = auctionFee
    BY <2>1 DEF settingVars
  <2>. QED
    BY <1>1, <1>2, <2>1, <2>2, PriceKept, OtherLiquidation
<1>8. CASE \E r \in Rates : \/ setFloorPriceForLiquidations(r)
                            \/ changeAuctionFee(r) \/ changePublicAuctionFee(r)
  <2>1. UNCHANGED <<now, owner, priceVars, saleVars, isActive>>
    BY <1>8 DEF setFloorPriceForLiquidations, changeAuctionFee, changePublicAuctionFee
  <2>2. /\ FloorPricePercentage' \in Nat /\ FloorPricePercentage' >= 500
        /\ auctionFee' \in Nat /\ auctionFee' <= 400
    BY <1>2, <1>8, AuctionAssumption
       DEF setFloorPriceForLiquidations, changeAuctionFee, changePublicAuctionFee, ValidFee
  <2>. QED
    BY <1>1, <2>1, <2>2, PriceKept, OtherLiquidation
<1>9. CASE Tick
  <2>1. UNCHANGED <<owner, priceVars, settingVars, saleVars, isActive>> /\ now' \in Times
        /\ now' > now
    BY <1>9 DEF Tick
  <2>2. now' \in Nat /\ now <= now'
    BY <1>1, <2>1, AuctionAssumption
  <2>3. FloorPricePercentage' = FloorPricePercentage /\ auctionFee' = auctionFee
    BY <2>1 DEF settingVars
  <2>. QED
    BY <1>2, <2>1, <2>2, <2>3, PriceKept, OtherLiquidation
<1>. QED
  BY <1>3, <1>4, <1>5, <1>6, <1>7, <1>8, <1>9 DEF Next

LEMMA PriceInvariant == Spec => [](IndexInv /\ PriceInv /\ LiquidationInv)
<1>1. IndexInv /\ PriceInv /\ LiquidationInv /\ [Next]_vars
        => IndexInv' /\ PriceInv' /\ LiquidationInv'
  BY StepInv, PriceStep
<1>. QED
  BY InitInv, InitPrice, <1>1, PTL DEF Spec

(* FloorReachedByEnd: the price never falls below the floor, and is there  *)
(* when the duration is over, but for what the division into ticks leaves. *)
THEOREM FloorAlwaysReached == Spec => []FloorReachedByEnd
<1>1. IndexInv /\ PriceInv /\ LiquidationInv => FloorReachedByEnd
  <2>. SUFFICES ASSUME IndexInv, PriceInv, NEW a \in isActive
                PROVE  /\ CuredPrice(a) >= floorAmount[a]
                       /\ now > initialBlock[a] + duration[a] =>
                            CuredPrice(a) < floorAmount[a] + duration[a] + tickPerBlock[a]
    BY DEF FloorReachedByEnd
  <2>. DEFINE e == now - initialBlock[a]
  <2>1. a \in Orders
    BY DEF IndexInv, Created
  <2>2. /\ initAmount[a] \in Nat /\ floorAmount[a] \in Nat /\ tickPerBlock[a] \in Nat
        /\ initialBlock[a] \in Nat /\ duration[a] \in Nat /\ now \in Nat /\ e \in Nat
        /\ floorAmount[a] <= initAmount[a]
        /\ initAmount[a] - floorAmount[a]
             < tickPerBlock[a] * duration[a] + duration[a] + tickPerBlock[a]
        /\ floorAmount[a] <= CuredPrice(a)
    BY <2>1, ActivePrice
  <2>3. CuredPrice(a) = PriceAfter(initAmount[a], floorAmount[a], tickPerBlock[a], e)
    BY PriceIsAfter
  <2>4. ASSUME now > initialBlock[a] + duration[a]
        PROVE  CuredPrice(a) < floorAmount[a] + duration[a] + tickPerBlock[a]
    <3>1. duration[a] < e
      BY <2>2, <2>4
    <3>. HIDE DEF e
    <3>. QED
      BY <2>2, <2>3, <3>1, PriceAtEnd
  <2>. QED
    BY <2>2, <2>4
<1>. QED
  BY PriceInvariant, <1>1, PTL

(* PriceContinuous: the price of an active auction never rises, except by  *)
(* less than one tick when the floor is lowered, and never drops then.     *)
THEOREM PriceStaysContinuous == Spec => PriceContinuous
<1>1. IndexInv /\ PriceInv /\ LiquidationInv /\ [Next]_vars => [PriceMoves]_vars
  BY PriceStep
<1>. QED
  BY PriceInvariant, <1>1, PTL DEF Spec, PriceContinuous, PriceMoves

(* LiquidationNet: the seller of a liquidation gets at least the lowest    *)
(* legal floor less the highest legal fee.                                 *)
THEOREM LiquidationAlwaysPays == Spec => []LiquidationNet
<1>1. LiquidationInv => LiquidationNet
  BY DEF LiquidationInv
<1>. QED
  BY PriceInvariant, <1>1, PTL
=============================================================================
