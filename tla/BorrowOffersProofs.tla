------------------------- MODULE BorrowOffersProofs -------------------------
(***************************************************************************)
(* The funds, the index and the cooldown of the borrow orders, for any     *)
(* number of orders, owners, amounts and timestamps.                       *)
(***************************************************************************)
EXTENDS BorrowOffers, ProofLemmas

LEMMA InitInv == Init => BorrowInv /\ Market!OpenInit
<1>. SUFFICES ASSUME Init PROVE BorrowInv /\ Market!OpenInit
  OBVIOUS
<1>1. Created = {}
  BY DEF Init, Created
<1>2. orders \in Indexes /\ Exact(orders) /\ Listed(orders) = {}
  BY EmptyExact DEF Init
<1>3. now \in Nat
  BY BorrowOffersAssumption DEF Init
<1>4. Zero \in [Orders -> Nat] /\ \A b \in Orders : Zero[b] = 0
  BY DEF Zero
<1>5. TypeOK
  BY <1>1, <1>2, <1>3, <1>4 DEF Init, TypeOK
<1>6. IndexExact
  BY <1>2, <1>4 DEF Init, IndexExact
<1>7. CollateralConserved /\ NoDustListed
  BY <1>1, <1>2 DEF CollateralConserved, NoDustListed
<1>8. BorrowInv
  BY <1>1, <1>3, <1>4, <1>5, <1>6, <1>7 DEF Init, BorrowInv
<1>. QED
  BY <1>1, <1>2, <1>8 DEF Market!OpenInit

(* A new order is appended to the index with all its collateral on offer.  *)
LEMMA CreateInv ==
  ASSUME BorrowInv, NEW u \in Users, NEW b \in Orders, NEW nft \in BOOLEAN,
         NEW start, NEW t \in Terms, createBorrowOrder(u, b, nft, start, t)
  PROVE  BorrowInv' /\ Market!Open(b)
<1>. DEFINE collateral == IF nft THEN 1 ELSE start
<1>1. /\ owner[b] = NoUser /\ HasRoom(orders)
      /\ start \in IF nft THEN LockedAmounts ELSE Deposits
      /\ owner' = [owner EXCEPT ![b] = u]
      /\ isNFT' = IF nft THEN isNFT \cup {b} ELSE isNFT
      /\ isActive' = isActive \cup {b}
      /\ startAmount' = [startAmount EXCEPT ![b] = start]
      /\ availableAmount' = [availableAmount EXCEPT ![b] = collateral]
      /\ balance' = [balance EXCEPT ![b] = collateral]
      /\ terms' = [terms EXCEPT ![b] = t]
      /\ orders' = Enlist(orders, b)
      /\ UNCHANGED <<now, lastUpdate, termsSince, accepted, returned>>
  BY DEF createBorrowOrder
<1>2. start \in Nat /\ collateral \in Nat /\ collateral > 0
  BY <1>1, BorrowOffersAssumption
<1>3. u # NoUser /\ u \in Users
  BY BorrowOffersAssumption
<1>4. TypeOK /\ IndexExact /\ CollateralConserved /\ NoDustListed
  BY DEF BorrowInv
<1>5. b \notin Created /\ Created' = Created \cup {b}
  BY <1>1, <1>3, <1>4 DEF Created, TypeOK
<1>7. b \notin isActive /\ b \notin isNFT
  BY <1>4, <1>5 DEF TypeOK
<1>8. /\ orders' \in Indexes
      /\ Exact(orders')
      /\ Listed(orders') = Listed(orders) \cup {b}
  BY <1>1, <1>4, <1>7, EnlistExact DEF IndexExact, TypeOK
<1>9. TypeOK'
  BY <1>1, <1>2, <1>3, <1>4, <1>5, <1>8 DEF TypeOK
<1>. HIDE DEF collateral
<1>10. /\ availableAmount'[b] = collateral /\ balance'[b] = collateral
       /\ startAmount'[b] = start
       /\ \A c \in Orders \ {b} : /\ availableAmount'[c] = availableAmount[c]
                                  /\ balance'[c] = balance[c]
                                  /\ startAmount'[c] = startAmount[c]
  BY <1>1, <1>4 DEF TypeOK, collateral
<1>11. IndexExact'
  <2>1. isActive' = {c \in Orders : availableAmount'[c] > 0}
    BY <1>1, <1>2, <1>4, <1>10 DEF IndexExact
  <2>. QED
    BY <1>1, <1>4, <1>8, <2>1 DEF IndexExact
<1>12. accepted[b] = 0 /\ returned[b] = 0
  BY <1>5 DEF BorrowInv
<1>13. CollateralConserved'
  <2>. SUFFICES ASSUME NEW c \in Created'
                PROVE  /\ balance'[c] = availableAmount'[c]
                       /\ balance'[c] + accepted'[c] + returned'[c] =
                            IF c \in isNFT' THEN 1 ELSE startAmount'[c]
    BY DEF CollateralConserved
  <2>1. CASE c = b
    <3>1. collateral = IF b \in isNFT' THEN 1 ELSE start
      BY <1>1, <1>7 DEF collateral
    <3>. QED
      BY <2>1, <3>1, <1>1, <1>2, <1>10, <1>12
  <2>2. CASE c # b
    <3>1. c \in Created /\ c \in Orders
      BY <2>2, <1>5 DEF Created
    <3>2. c \in isNFT' <=> c \in isNFT
      BY <2>2, <1>1
    <3>. QED
      BY <2>2, <3>1, <3>2, <1>1, <1>4, <1>10 DEF CollateralConserved
  <2>. QED
    BY <2>1, <2>2
<1>14. NoDustListed'
  <2>. SUFFICES ASSUME NEW c \in Listed(orders') \ isNFT'
                PROVE  availableAmount'[c] * 10000 >= 11 * startAmount'[c]
    BY DEF NoDustListed
  <2>1. CASE c = b
    <3>1. availableAmount'[b] = start /\ startAmount'[b] = start
      BY <2>1, <1>1, <1>10 DEF collateral
    <3>. QED
      BY <2>1, <3>1, <1>2
  <2>2. CASE c # b
    BY <2>2, <1>1, <1>4, <1>8, <1>10 DEF NoDustListed, IndexExact, TypeOK, Created
  <2>. QED
    BY <2>1, <2>2
<1>15. BorrowInv'
  BY <1>1, <1>5, <1>9, <1>10, <1>11, <1>13, <1>14 DEF BorrowInv, Created
<1>16. Created' \ isActive' = Created \ isActive
  BY <1>1, <1>5
<1>17. Market!Open(b)
  BY <1>5, <1>8, <1>16 DEF Market!Open
<1>. QED
  BY <1>15, <1>17

(* The end of an order, by its completion or its cancellation: taken of    *)
(* its collateral goes to the Aggregator and the rest to the owner.        *)
LEMMA FinishInv ==
  ASSUME BorrowInv, NEW b \in Created, NEW taken \in Nat, NEW rest \in Nat,
         availableAmount[b] = taken + rest, availableAmount[b] > 0,
         availableAmount' = [availableAmount EXCEPT ![b] = 0],
         balance' = [balance EXCEPT ![b] = (@ - taken) - rest],
         accepted' = [accepted EXCEPT ![b] = @ + taken],
         returned' = [returned EXCEPT ![b] = @ + rest],
         isActive' = isActive \ {b},
         deleteBorrowOrder(b),
         UNCHANGED <<now, owner, isNFT, startAmount, termVars>>
  PROVE  BorrowInv' /\ Market!Finish(b)
<1>1. /\ TypeOK /\ IndexExact /\ CollateralConserved /\ NoDustListed
      /\ b \in Orders /\ Created' = Created
  BY DEF BorrowInv, Created
<1>2. orders' = DeleteShared(orders, b)
  BY DEF deleteBorrowOrder
<1>3. b \in isActive /\ b \in Listed(orders)
  BY <1>1 DEF IndexExact
<1>4. /\ orders' \in Indexes
      /\ Exact(orders')
      /\ Listed(orders') = Listed(orders) \ {b}
  BY <1>1, <1>2, <1>3, DeleteSharedExact DEF IndexExact, TypeOK
<1>5. balance[b] = taken + rest
  BY <1>1 DEF CollateralConserved
<1>6. /\ availableAmount'[b] = 0 /\ balance'[b] = 0
      /\ accepted'[b] = accepted[b] + taken
      /\ returned'[b] = returned[b] + rest
  BY <1>1, <1>5 DEF TypeOK
<1>7. \A c \in Orders \ {b} : /\ availableAmount'[c] = availableAmount[c]
                              /\ balance'[c] = balance[c]
                              /\ accepted'[c] = accepted[c]
                              /\ returned'[c] = returned[c]
  BY <1>1 DEF TypeOK
<1>8. TypeOK'
  <2>1. (balance[b] - taken) - rest = 0
    BY <1>5
  <2>2. balance' = [balance EXCEPT ![b] = 0]
    BY <2>1
  <2>3. /\ availableAmount' \in [Orders -> Nat] /\ balance' \in [Orders -> Nat]
        /\ accepted' \in [Orders -> Nat] /\ returned' \in [Orders -> Nat]
    BY <1>1, <2>2 DEF TypeOK
  <2>. QED
    BY <1>1, <1>4, <2>3 DEF TypeOK, termVars
<1>9. IndexExact'
  <2>1. isActive' = {c \in Orders : availableAmount'[c] > 0}
    BY <1>1, <1>6, <1>7 DEF IndexExact
  <2>. QED
    BY <1>1, <1>4, <2>1 DEF IndexExact
<1>10. CollateralConserved'
  <2>. SUFFICES ASSUME NEW c \in Created
                PROVE  /\ balance'[c] = availableAmount'[c]
                       /\ balance'[c] + accepted'[c] + returned'[c] =
                            IF c \in isNFT THEN 1 ELSE startAmount[c]
    BY <1>1 DEF CollateralConserved
  <2>1. CASE c = b
    <3>1. accepted[b] \in Nat /\ returned[b] \in Nat
      BY <1>1 DEF TypeOK
    <3>2. balance[b] + accepted[b] + returned[b] =
            IF b \in isNFT THEN 1 ELSE startAmount[b]
      BY <1>1 DEF CollateralConserved
    <3>. QED
      BY <2>1, <3>1, <3>2, <1>5, <1>6
  <2>2. CASE c # b
    BY <2>2, <1>1, <1>7 DEF CollateralConserved, Created
  <2>. QED
    BY <2>1, <2>2
<1>11. NoDustListed'
  BY <1>1, <1>4, <1>7 DEF NoDustListed, IndexExact
<1>12. BorrowInv'
  BY <1>1, <1>6, <1>7, <1>8, <1>9, <1>10, <1>11 DEF BorrowInv, termVars, Created
<1>13. Created' \ isActive' = (Created \ isActive) \cup {b}
  BY <1>1
<1>14. Market!Finish(b)
  BY <1>1, <1>3, <1>4, <1>13 DEF Market!Finish
<1>. QED
  BY <1>12, <1>14

(* A partial acceptance leaves the order listed.                           *)
LEMMA PartialInv ==
  ASSUME BorrowInv, NEW b \in Created, NEW n \in Nat, NEW rest \in Nat,
         availableAmount[b] = n + rest, startAmount[b] > 0,
         ~CountsAsCompleted(b, rest),
         availableAmount' = [availableAmount EXCEPT ![b] = rest],
         balance' = [balance EXCEPT ![b] = @ - n],
         accepted' = [accepted EXCEPT ![b] = @ + n],
         UNCHANGED <<now, owner, isNFT, isActive, startAmount, returned,
                     orders, termVars>>
  PROVE  BorrowInv'
<1>1. /\ TypeOK /\ IndexExact /\ CollateralConserved /\ NoDustListed
      /\ b \in Orders /\ Created' = Created
  BY DEF BorrowInv, Created
<1>2. startAmount[b] \in Nat \ {0}
  BY <1>1 DEF TypeOK
<1>3. rest * 10000 >= 11 * startAmount[b]
  <2>. DEFINE s == startAmount[b]
              p == rest * 10000
  <2>1. p \in Nat /\ s \in Nat \ {0}
    BY <1>2
  <2>2. ~(p \div s <= 10)
    BY DEF CountsAsCompleted
  <2>. HIDE DEF p, s
  <2>3. /\ p \div s \in Nat
        /\ (p \div s) * s <= p
        /\ p \div s > 10
    BY <2>1, <2>2
  <2>4. 11 * s <= (p \div s) * s
    BY <2>1, <2>3
  <2>5. 11 * s <= p
    BY <2>1, <2>3, <2>4
  <2>. QED
    BY <2>5 DEF p, s
<1>4. rest > 0
  BY <1>2, <1>3
<1>5. balance[b] = n + rest
  BY <1>1 DEF CollateralConserved
<1>6. /\ availableAmount'[b] = rest /\ balance'[b] = rest
      /\ accepted'[b] = accepted[b] + n
  BY <1>1, <1>5 DEF TypeOK
<1>7. \A c \in Orders \ {b} : /\ availableAmount'[c] = availableAmount[c]
                              /\ balance'[c] = balance[c]
                              /\ accepted'[c] = accepted[c]
  BY <1>1 DEF TypeOK
<1>8. TypeOK'
  <2>1. balance' = [balance EXCEPT ![b] = rest]
    <3>1. balance[b] - n = rest
      BY <1>5
    <3>2. balance' = [balance EXCEPT ![b] = balance[b] - n]
      OBVIOUS
    <3>. QED
      BY <3>1, <3>2
  <2>2. /\ availableAmount' \in [Orders -> Nat] /\ balance' \in [Orders -> Nat]
        /\ accepted' \in [Orders -> Nat]
    BY <1>1, <2>1 DEF TypeOK
  <2>. QED
    BY <1>1, <2>2 DEF TypeOK, termVars
<1>9. b \in isActive
  BY <1>1, <1>4 DEF IndexExact
<1>10. IndexExact'
  <2>1. isActive = {c \in Orders : availableAmount'[c] > 0}
    BY <1>1, <1>4, <1>6, <1>7, <1>9 DEF IndexExact
  <2>. QED
    BY <1>1, <2>1 DEF IndexExact
<1>11. CollateralConserved'
  <2>. SUFFICES ASSUME NEW c \in Created
                PROVE  /\ balance'[c] = availableAmount'[c]
                       /\ balance'[c] + accepted'[c] + returned[c] =
                            IF c \in isNFT THEN 1 ELSE startAmount[c]
    BY <1>1 DEF CollateralConserved
  <2>1. CASE c = b
    <3>1. accepted[b] \in Nat /\ returned[b] \in Nat
      BY <1>1 DEF TypeOK
    <3>2. balance[b] + accepted[b] + returned[b] =
            IF b \in isNFT THEN 1 ELSE startAmount[b]
      BY <1>1 DEF CollateralConserved
    <3>. QED
      BY <2>1, <3>1, <3>2, <1>5, <1>6
  <2>2. CASE c # b
    BY <2>2, <1>1, <1>7 DEF CollateralConserved, Created
  <2>. QED
    BY <2>1, <2>2
<1>12. NoDustListed'
  BY <1>1, <1>3, <1>6, <1>7 DEF NoDustListed, IndexExact
<1>. QED
  BY <1>1, <1>6, <1>7, <1>8, <1>9, <1>10, <1>11, <1>12 DEF BorrowInv, termVars, Created

LEMMA AcceptInv ==
  ASSUME BorrowInv, NEW b \in Orders, NEW n \in Asked(b), acceptBorrowOffer(b, n)
  PROVE  BorrowInv' /\ [Market!OpenNext]_(Market!activeVars)
<1>. DEFINE rest == availableAmount[b] - n
<1>1. /\ b \in Created /\ n > 0 /\ n <= availableAmount[b] /\ startAmount[b] > 0
      /\ accepted' = [accepted EXCEPT ![b] = @ + n]
      /\ UNCHANGED <<now, owner, isNFT, startAmount, termVars>>
  BY DEF acceptBorrowOffer
<1>2. n \in Nat
  BY BorrowOffersAssumption DEF Asked
<1>3. availableAmount[b] \in Nat
  BY DEF BorrowInv, TypeOK
<1>4. /\ rest \in Nat
      /\ availableAmount[b] = n + rest
      /\ availableAmount[b] > 0
  BY <1>1, <1>2, <1>3
<1>5. CASE CountsAsCompleted(b, rest)
  <2>1. /\ isActive' = isActive \ {b}
        /\ balance' = [balance EXCEPT ![b] = (@ - n) - rest]
        /\ returned' = [returned EXCEPT ![b] = @ + rest]
        /\ LeftOver(b, rest)
        /\ deleteBorrowOrder(b)
    BY <1>5 DEF acceptBorrowOffer
  <2>2. availableAmount' = [availableAmount EXCEPT ![b] = 0]
    BY <2>1 DEF LeftOver
  <2>. HIDE DEF rest
  <2>3. BorrowInv' /\ Market!Finish(b)
    BY <1>1, <1>2, <1>4, <2>1, <2>2, FinishInv
  <2>. QED
    BY <2>3 DEF Market!OpenNext
<1>6. CASE ~CountsAsCompleted(b, rest)
  <2>1. /\ balance' = [balance EXCEPT ![b] = @ - n]
        /\ availableAmount' = [availableAmount EXCEPT ![b] = rest]
        /\ UNCHANGED <<isActive, returned, orders>>
    BY <1>6 DEF acceptBorrowOffer
  <2>. HIDE DEF rest
  <2>2. BorrowInv'
    BY <1>1, <1>2, <1>4, <1>6, <2>1, PartialInv
  <2>3. UNCHANGED Market!activeVars
    BY <1>1, <2>1 DEF Market!activeVars, Created
  <2>. QED
    BY <2>2, <2>3
<1>. QED
  BY <1>5, <1>6

LEMMA CancelInv ==
  ASSUME BorrowInv, NEW u \in Users, NEW b \in Orders, cancelOffer(u, b)
  PROVE  BorrowInv' /\ Market!Finish(b)
<1>1. b \in Created
  BY BorrowOffersAssumption DEF cancelOffer, Created
<1>2. /\ availableAmount \in [Orders -> Nat] /\ balance \in [Orders -> Nat]
      /\ accepted \in [Orders -> Nat]
  BY DEF BorrowInv, TypeOK
<1>3. /\ availableAmount[b] \in Nat
      /\ availableAmount[b] = 0 + availableAmount[b]
  BY <1>2
<1>4. accepted' = [accepted EXCEPT ![b] = @ + 0]
  BY <1>2 DEF cancelOffer
<1>5. balance' = [balance EXCEPT ![b] = (@ - 0) - availableAmount[b]]
  <2>1. balance[b] - 0 = balance[b]
    BY <1>2
  <2>2. balance' = [balance EXCEPT ![b] = balance[b] - availableAmount[b]]
    BY DEF cancelOffer
  <2>. QED
    BY <2>1, <2>2
<1>. QED
  BY <1>1, <1>3, <1>4, <1>5, 0 \in Nat, FinishInv DEF cancelOffer

(* An update and the passing of time touch the terms and the clock only.   *)
LEMMA TermsInv ==
  ASSUME BorrowInv, UNCHANGED <<owner, isNFT, isActive, orders, fundVars>>,
         now' \in Nat, lastUpdate' \in [Orders -> Nat],
         terms' \in [Orders -> Terms], termsSince' \in [Orders -> Nat],
         \A b \in Orders : termsSince'[b] <= lastUpdate'[b] /\ lastUpdate'[b] <= now'
  PROVE  BorrowInv' /\ UNCHANGED Market!activeVars
<1>1. Created' = Created
  BY DEF Created
<1>2. TypeOK'
  BY <1>1 DEF BorrowInv, TypeOK, fundVars
<1>3. IndexExact' /\ CollateralConserved' /\ NoDustListed'
  BY <1>1 DEF BorrowInv, IndexExact, CollateralConserved, NoDustListed, fundVars
<1>4. BorrowInv'
  BY <1>1, <1>2, <1>3 DEF BorrowInv, fundVars
<1>. QED
  BY <1>1, <1>4 DEF Market!activeVars

LEMMA UpdateInv ==
  ASSUME BorrowInv, NEW u \in Users, NEW b \in Orders, NEW t \in Terms,
         updateBorrowOrder(u, b, t)
  PROVE  BorrowInv' /\ UNCHANGED Market!activeVars
<1>1. /\ TypeOK
      /\ \A c \in Orders : termsSince[c] <= lastUpdate[c] /\ lastUpdate[c] <= now
  BY DEF BorrowInv
<1>2. /\ lastUpdate' = [lastUpdate EXCEPT ![b] = now]
      /\ terms' = [terms EXCEPT ![b] = t]
      /\ termsSince' =
           [termsSince EXCEPT ![b] = IF t = terms[b] THEN @ ELSE now]
      /\ UNCHANGED <<now, owner, isNFT, isActive, orders, fundVars>>
  BY DEF updateBorrowOrder, Stamp
<1>3. now \in Nat /\ lastUpdate[b] <= now
  BY <1>1 DEF TypeOK, BorrowInv
<1>4. /\ lastUpdate' \in [Orders -> Nat] /\ terms' \in [Orders -> Terms]
      /\ termsSince' \in [Orders -> Nat]
  BY <1>1, <1>2, <1>3 DEF TypeOK
<1>5. ASSUME NEW c \in Orders
      PROVE  termsSince'[c] <= lastUpdate'[c] /\ lastUpdate'[c] <= now'
  <2>1. CASE c = b
    BY <2>1, <1>1, <1>2, <1>3 DEF TypeOK
  <2>2. CASE c # b
    BY <2>2, <1>1, <1>2 DEF TypeOK
  <2>. QED
    BY <2>1, <2>2
<1>. QED
  BY <1>2, <1>3, <1>4, <1>5, TermsInv

LEMMA TickInv == BorrowInv /\ Tick => BorrowInv' /\ UNCHANGED Market!activeVars
<1>. SUFFICES ASSUME BorrowInv, Tick
              PROVE  BorrowInv' /\ UNCHANGED Market!activeVars
  OBVIOUS
<1>1. PICK t \in Times : t > now /\ now' = t
  BY DEF Tick
<1>2. t \in Nat
  BY BorrowOffersAssumption
<1>3. UNCHANGED <<owner, isNFT, isActive, orders, fundVars, termVars>>
  BY DEF Tick
<1>4. /\ TypeOK
      /\ \A c \in Orders : termsSince[c] <= lastUpdate[c] /\ lastUpdate[c] <= now
  BY DEF BorrowInv
<1>5. /\ lastUpdate' = lastUpdate /\ terms' = terms /\ termsSince' = termsSince
  BY <1>3 DEF termVars
<1>6. ASSUME NEW c \in Orders
      PROVE  termsSince'[c] <= lastUpdate'[c] /\ lastUpdate'[c] <= now'
  <2>1. lastUpdate[c] \in Nat /\ now \in Nat
    BY <1>4 DEF TypeOK
  <2>. QED
    BY <1>1, <1>2, <1>4, <1>5, <2>1
<1>. QED
  BY <1>1, <1>2, <1>3, <1>4, <1>5, <1>6, TermsInv DEF TypeOK

LEMMA StepInv ==
  ASSUME BorrowInv, [Next]_vars
  PROVE  BorrowInv' /\ [Market!OpenNext]_(Market!activeVars)
<1>1. CASE \E u \in Users, b \in Orders, nft \in BOOLEAN,
              start \in Deposits \cup LockedAmounts, t \in Terms :
             createBorrowOrder(u, b, nft, start, t)
  BY <1>1, CreateInv DEF Market!OpenNext
<1>2. CASE \E b \in Orders : \E n \in Asked(b) : acceptBorrowOffer(b, n)
  BY <1>2, AcceptInv
<1>3. CASE \E u \in Users, b \in Orders : cancelOffer(u, b)
  BY <1>3, CancelInv DEF Market!OpenNext
<1>4. CASE \E u \in Users, b \in Orders, t \in Terms : updateBorrowOrder(u, b, t)
  BY <1>4, UpdateInv
<1>5. CASE Tick
  BY <1>5, TickInv
<1>6. CASE UNCHANGED vars
  <2>1. /\ UNCHANGED <<owner, isNFT, isActive, orders, fundVars>>
        /\ UNCHANGED <<now, termVars>>
    BY <1>6 DEF vars
  <2>2. /\ now' \in Nat /\ lastUpdate' \in [Orders -> Nat]
        /\ terms' \in [Orders -> Terms] /\ termsSince' \in [Orders -> Nat]
        /\ \A b \in Orders : /\ termsSince'[b] <= lastUpdate'[b]
                             /\ lastUpdate'[b] <= now'
    BY <2>1 DEF BorrowInv, TypeOK, termVars
  <2>. QED
    BY <2>1, <2>2, TermsInv
<1>. QED
  BY <1>1, <1>2, <1>3, <1>4, <1>5, <1>6 DEF Next

(* The inductive invariant, for every value of the constants.              *)
THEOREM BorrowInvariant == Spec => []BorrowInv
<1>1. BorrowInv /\ [Next]_vars => BorrowInv'
  BY StepInv
<1>. QED
  BY InitInv, <1>1, PTL DEF Spec

(* IndexExact: the factory's index lists just the active orders, and those *)
(* are the orders with collateral left to take.                            *)
THEOREM BorrowIndexExact == Spec => []IndexExact
<1>1. BorrowInv => IndexExact
  BY DEF BorrowInv
<1>. QED
  BY BorrowInvariant, <1>1, PTL

(* CollateralConserved: acceptBorrowOffer and cancelOffer neither lose nor *)
(* pay twice what the owner deposited.                                     *)
THEOREM CollateralStaysConserved == Spec => []CollateralConserved
<1>1. BorrowInv => CollateralConserved
  BY DEF BorrowInv
<1>. QED
  BY BorrowInvariant, <1>1, PTL

(* NoDustListed: an acceptance that leaves less than 0.11% of the start    *)
(* takes the order off the index.                                          *)
THEOREM DustNeverListed == Spec => []NoDustListed
<1>1. BorrowInv => NoDustListed
  BY DEF BorrowInv
<1>. QED
  BY BorrowInvariant, <1>1, PTL

(* Only an acceptance adds to what was accepted, and it finds the terms    *)
(* settled: they are no younger than the update that onlyAfterTimeOut      *)
(* reads.                                                                  *)
LEMMA AcceptedSettled ==
  ASSUME BorrowInv, [Next]_vars, NEW b \in Orders, accepted'[b] > accepted[b]
  PROVE  termsSince[b] = 0 \/ now > termsSince[b] + Cooldown
<1>1. accepted[b] \in Nat /\ accepted \in [Orders -> Nat]
  BY DEF BorrowInv, TypeOK
<1>2. accepted' # accepted
  BY <1>1
<1>3. PICK c \in Orders : \E n \in Asked(c) : acceptBorrowOffer(c, n)
  BY <1>2 DEF Next, vars, fundVars, createBorrowOrder, cancelOffer,
              updateBorrowOrder, Tick
<1>4. PICK n \in Asked(c) : acceptBorrowOffer(c, n)
  BY <1>3
<1>5. accepted' = [accepted EXCEPT ![c] = @ + n] /\ AfterTimeOut(c)
  BY <1>4 DEF acceptBorrowOffer
<1>6. c = b
  BY <1>1, <1>5
<1>7. /\ termsSince[b] \in Nat /\ lastUpdate[b] \in Nat /\ now \in Nat
      /\ termsSince[b] <= lastUpdate[b]
  BY DEF BorrowInv, TypeOK
<1>. QED
  BY <1>5, <1>6, <1>7, BorrowOffersAssumption DEF AfterTimeOut

(* TermsSettled: no loan is made on terms younger than the cooldown.       *)
THEOREM TermsAlwaysSettled == Spec => TermsSettled
<1>1. ASSUME BorrowInv, [Next]_vars
      PROVE  [\A b \in Orders : accepted'[b] > accepted[b] =>
                termsSince[b] = 0 \/ now > termsSince[b] + Cooldown]_vars
  BY <1>1, AcceptedSettled
<1>. QED
  BY BorrowInvariant, <1>1, PTL DEF Spec, TermsSettled

(* ImplementsActiveOrders: an order is listed from its creation, and       *)
(* leaves the list once, when it is completed or cancelled.                *)
THEOREM IndexImplementsActiveOrders == Spec => ImplementsActiveOrders
<1>1. Init => Market!OpenInit
  BY InitInv
<1>2. BorrowInv /\ [Next]_vars => [Market!OpenNext]_(Market!activeVars)
  BY StepInv
<1>. QED
  BY <1>1, <1>2, BorrowInvariant, PTL DEF Spec, ImplementsActiveOrders, Market!OpenSpec
=============================================================================
