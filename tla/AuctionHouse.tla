---------------------------- MODULE AuctionHouse ----------------------------
(***************************************************************************)
(* The Dutch auctions and their factory (auctions/Auction.sol,             *)
(* auctions/AuctionFactory.sol).  An owner sells an NFT at a price that    *)
(* falls from the initial amount to a floor; a loan in default sells its   *)
(* collateral the same way (a liquidation).                                *)
(*                                                                         *)
(* buyNFT and cancelAuction hand the NFT over with safeTransferFrom, which *)
(* calls the receiver, before they take the auction out of the index.  The *)
(* receiver may call any auction from there, so each of the two is a step  *)
(* up to the callback and a step after it; unfinished calls are a stack,   *)
(* and no block passes before it is empty.                                 *)
(***************************************************************************)
EXTENDS OrderIndex, Sequences

CONSTANTS
  Users,
  Loans,                \* isSenderALoan
  NoUser,               \* owner of an auction that has not been created
  Scale,                \* 10 ** (18 - decimals of the selling token)
  LiquidationDuration,  \* 864000 seconds
  \* what callers pass
  Amounts,              \* initial and floor amounts, in the selling token
  Durations,
  Rates,                \* percentages the owner of the factory tries to set
  Times                 \* block timestamps that occur

ASSUME AuctionAssumption ==
  /\ NoUser \notin Users \cup Loans
  /\ Users \cap Loans = {}
  /\ Scale \in Nat \ {0}
  /\ LiquidationDuration \in Nat \ {0}
  /\ Amounts \subseteq Nat
  /\ Durations \subseteq Nat
  /\ Rates \subseteq Nat
  /\ Times \subseteq Nat

VARIABLES
  now,             \* block.timestamp
  \* dutchAuction_INFO of each auction; amounts have 18 decimals
  owner,           \* s_ownerOfAuction
  isActive,        \* auctions whose isActive flag is set
  initAmount, floorAmount, tickPerBlock, initialBlock, duration,
  \* the factory
  orders,          \* the index of active auctions
  FloorPricePercentage, auctionFee, publicAuctionFee,
  \* calls waiting for onERC721Received to return, innermost last
  callbacks,
  \* history: what the buyer of each auction paid to its owner and in fees
  proceeds, fees, sold

priceVars == <<initAmount, floorAmount, tickPerBlock, initialBlock, duration>>
settingVars == <<FloorPricePercentage, auctionFee, publicAuctionFee>>
saleVars == <<proceeds, fees, sold>>
vars == <<now, owner, isActive, priceVars, orders, settingVars, callbacks,
          saleVars>>

Created == {a \in Orders : owner[a] # NoUser}
isLiquidation(a) == owner[a] \in Loans

-----------------------------------------------------------------------------
(* getCurrentPrice, before and after the division to the token's decimals. *)
CuredPrice(a) ==
  LET decreased == tickPerBlock[a] * (now - initialBlock[a])
  IN  IF decreased > initAmount[a] - floorAmount[a]
        THEN floorAmount[a]
        ELSE initAmount[a] - decreased

getCurrentPrice(a) == CuredPrice(a) \div Scale

FeeOf(a) ==
  (getCurrentPrice(a) * (IF isLiquidation(a) THEN auctionFee ELSE publicAuctionFee))
     \div 10000

getLiquidationFloorPrice(amount) == (amount * FloorPricePercentage) \div 10000

Init ==
  /\ now \in Times
  /\ owner = [a \in Orders |-> NoUser]
  /\ isActive = {}
  /\ initAmount = [a \in Orders |-> 0]
  /\ floorAmount = [a \in Orders |-> 0]
  /\ tickPerBlock = [a \in Orders |-> 0]
  /\ initialBlock = [a \in Orders |-> 0]
  /\ duration = [a \in Orders |-> 0]
  /\ orders = EmptyIndex
  /\ FloorPricePercentage = 1500
  /\ auctionFee = 200
  /\ publicAuctionFee = 50
  /\ callbacks = <<>>
  /\ proceeds = [a \in Orders |-> 0]
  /\ fees = [a \in Orders |-> 0]
  /\ sold = {}

-----------------------------------------------------------------------------
(* u creates auction a.  A zero duration divides by zero and reverts.      *)
createAuction(u, a, init, floor, length) ==
  /\ owner[a] = NoUser
  /\ HasRoom(orders)
  /\ init >= floor
  /\ length > 0
  /\ owner' = [owner EXCEPT ![a] = u]
  /\ isActive' = isActive \cup {a}
  /\ initAmount' = [initAmount EXCEPT ![a] = init * Scale]
  /\ floorAmount' = [floorAmount EXCEPT ![a] = floor * Scale]
  /\ duration' = [duration EXCEPT ![a] = length]
  /\ tickPerBlock' =
       [tickPerBlock EXCEPT ![a] = ((init * Scale) - (floor * Scale)) \div length]
  /\ initialBlock' = [initialBlock EXCEPT ![a] = now]
  /\ orders' = Enlist(orders, a)
  /\ UNCHANGED <<now, settingVars, callbacks, saleVars>>

(* A loan sells the tokens locked in its collateral.                       *)
createAuctionForCollateral(l, a, lockedAmount) ==
  createAuction(l, a, lockedAmount, getLiquidationFloorPrice(lockedAmount),
                LiquidationDuration)

(* Mutant: the auction stays active until the receiver has been called.    *)
Deactivate_Late(a) == a \in Orders /\ UNCHANGED isActive

Deactivate(a) == isActive' = isActive \ {a}

(* buyNFT up to the callback of the buyer.                                 *)
buyNFT(a) ==
  /\ a \in isActive
  /\ Deactivate(a)
  /\ proceeds' = [proceeds EXCEPT ![a] = getCurrentPrice(a) - FeeOf(a)]
  /\ fees' = [fees EXCEPT ![a] = FeeOf(a)]
  /\ sold' = sold \cup {a}
  /\ callbacks' = Append(callbacks, a)
  /\ UNCHANGED <<now, owner, priceVars, orders, settingVars>>

(* cancelAuction up to the callback of the owner.  A loan never calls it.  *)
cancelAuction(u, a) ==
  /\ a \in isActive
  /\ owner[a] = u
  /\ Deactivate(a)
  /\ callbacks' = Append(callbacks, a)
  /\ UNCHANGED <<now, owner, priceVars, orders, settingVars, saleVars>>

(* The receiver returns to the innermost call, which ends with             *)
(* _deleteAuctionOrder.                                                    *)
_deleteAuctionOrder ==
  /\ callbacks # <<>>
  /\ Deletable(orders)
  /\ orders' = DeleteShared(orders, callbacks[Len(callbacks)])
  /\ callbacks' = SubSeq(callbacks, 1, Len(callbacks) - 1)
  /\ UNCHANGED <<now, owner, isActive, priceVars, settingVars, saleVars>>

(* editFloorPrice: once the price has reached the floor, the time it took  *)
(* to get there is what counts as passed; the duration grows with the way  *)
(* down to the new floor.                                                  *)
DiscountedTime(a) == (initAmount[a] - floorAmount[a]) \div tickPerBlock[a]

(* Mutant: the time spent at the floor counts.                             *)
EditedInitialBlock_Kept(a) == initialBlock[a]

EditedInitialBlock(a) ==
  IF initialBlock[a] + DiscountedTime(a) < now
    THEN now - DiscountedTime(a)
    ELSE initialBlock[a]

(* Mutant: the duration stays what it was.                                 *)
EditedDuration_Kept(a, curedFloor) == duration[a] + 0 * curedFloor

EditedDuration(a, curedFloor) == (initAmount[a] - curedFloor) \div tickPerBlock[a]

editFloorPrice(u, a, newFloor) ==
  LET curedFloor == newFloor * Scale IN
  /\ a \in isActive
  /\ owner[a] = u
  /\ floorAmount[a] > curedFloor
  /\ tickPerBlock[a] > 0
  /\ duration' = [duration EXCEPT ![a] = EditedDuration(a, curedFloor)]
  /\ initialBlock' = [initialBlock EXCEPT ![a] = EditedInitialBlock(a)]
  /\ floorAmount' = [floorAmount EXCEPT ![a] = curedFloor]
  /\ UNCHANGED <<now, owner, isActive, initAmount, tickPerBlock, orders,
                 settingVars, callbacks, saleVars>>

setFloorPriceForLiquidations(r) ==
  /\ r <= 3000 /\ r >= 500
  /\ FloorPricePercentage' = r
  /\ UNCHANGED <<now, owner, isActive, priceVars, orders, auctionFee,
                 publicAuctionFee, callbacks, saleVars>>

(* Mutant: the upper limit is missing.                                     *)
ValidFee_NoLimit(f) == f >= 50
ValidFee(f) == f <= 400 /\ f >= 50

changeAuctionFee(f) ==
  /\ ValidFee(f)
  /\ auctionFee' = f
  /\ UNCHANGED <<now, owner, isActive, priceVars, orders,
                 FloorPricePercentage, publicAuctionFee, callbacks, saleVars>>

changePublicAuctionFee(f) ==
  /\ f <= 100
  /\ publicAuctionFee' = f
  /\ UNCHANGED <<now, owner, isActive, priceVars, orders,
                 FloorPricePercentage, auctionFee, callbacks, saleVars>>

Tick ==
  /\ callbacks = <<>>
  /\ now' \in {t \in Times : t > now}
  /\ UNCHANGED <<owner, isActive, priceVars, orders, settingVars, callbacks,
                 saleVars>>

Next ==
  \/ \E u \in Users, a \in Orders, i \in Amounts, f \in Amounts, d \in Durations :
       createAuction(u, a, i, f, d)
  \/ \E l \in Loans, a \in Orders, n \in Amounts :
       createAuctionForCollateral(l, a, n)
  \/ \E a \in Orders : buyNFT(a)
  \/ \E u \in Users, a \in Orders : cancelAuction(u, a)
  \/ _deleteAuctionOrder
  \/ \E u \in Users, a \in Orders, f \in Amounts : editFloorPrice(u, a, f)
  \/ \E r \in Rates : setFloorPriceForLiquidations(r)
  \/ \E r \in Rates : changeAuctionFee(r) \/ changePublicAuctionFee(r)
  \/ Tick

Spec == Init /\ [][Next]_vars

-----------------------------------------------------------------------------
(* Properties                                                              *)

Pending == {callbacks[i] : i \in 1 .. Len(callbacks)}

(* The index lists the active auctions and those whose buyer or owner is   *)
(* being called, each once, whatever these callbacks do to other auctions. *)
IndexExact ==
  /\ Exact(orders)
  /\ Listed(orders) = isActive \cup Pending
  /\ isActive \cap Pending = {}

(* The price of an active auction never rises, except by less than one     *)
(* tick when the floor is lowered; and lowering the floor never makes it   *)
(* drop: it goes on falling from where it was.                             *)
PriceContinuous ==
  [][\A a \in isActive \cap isActive' :
       IF floorAmount'[a] = floorAmount[a]
         THEN CuredPrice(a)' <= CuredPrice(a)
         ELSE /\ CuredPrice(a)' >= CuredPrice(a)
              /\ CuredPrice(a)' < CuredPrice(a) + tickPerBlock[a]]_vars

(* The price never falls below the floor, and has reached it when the      *)
(* advertised duration is over, also after the floor was lowered, but for  *)
(* what the division into ticks leaves: less than one unit per second.     *)
FloorReachedByEnd ==
  \A a \in isActive :
    /\ CuredPrice(a) >= floorAmount[a]
    /\ now > initialBlock[a] + duration[a] =>
         CuredPrice(a) < floorAmount[a] + duration[a] + tickPerBlock[a]

(* The lowest floor that the factory's owner can set for liquidation a.    *)
LowestFloor(a) == ((initAmount[a] \div Scale) * 500) \div 10000

(* What the seller of a liquidation gets is at least the lowest floor of   *)
(* 5% of the tokens locked in the collateral less the highest fee of 4%,   *)
(* whatever the factory's owner sets before the auction starts, and        *)
(* between its start and the sale.                                         *)
LiquidationNet ==
  \A a \in sold : isLiquidation(a) => proceeds[a] * 10000 >= LowestFloor(a) * 9600

(* The factory's index implements the set of open orders: an auction is    *)
(* listed from its creation, and leaves the list once and only after it    *)
(* has been sold or cancelled.                                             *)
Market == INSTANCE ActiveOrders WITH
  created <- Created,
  ended <- Created \ isActive,
  open <- Listed(orders)

ImplementsActiveOrders == Market!OpenSpec

-----------------------------------------------------------------------------
(* The inductive invariant of the proofs about the index: an auction has   *)
(* at most one unfinished call, and it has been created.                   *)
IndexInv ==
  /\ owner \in [Orders -> Users \cup Loans \cup {NoUser}]
  /\ orders \in Indexes
  /\ isActive \subseteq Created
  /\ callbacks \in Seq(Created)
  /\ \A i, j \in 1 .. Len(callbacks) : callbacks[i] = callbacks[j] => i = j
  /\ IndexExact

(* The inductive invariant of the proofs about the price: the ticks of the *)
(* duration lead from the initial amount to the floor, but for the last    *)
(* one and for one unit per second, which the division may have left.      *)
PriceInv ==
  /\ now \in Times
  /\ initAmount \in [Orders -> Nat] /\ floorAmount \in [Orders -> Nat]
  /\ tickPerBlock \in [Orders -> Nat]
  /\ initialBlock \in [Orders -> Nat] /\ duration \in [Orders -> Nat]
  /\ \A a \in isActive :
       /\ floorAmount[a] <= initAmount[a]
       /\ initialBlock[a] <= now
       /\ initAmount[a] - floorAmount[a]
            < tickPerBlock[a] * duration[a] + duration[a] + tickPerBlock[a]

(* A liquidation starts with a legal floor that nobody edits.              *)
LiquidationInv ==
  /\ FloorPricePercentage \in Nat /\ FloorPricePercentage >= 500
  /\ auctionFee \in Nat /\ auctionFee <= 400
  /\ sold \subseteq Created /\ DOMAIN proceeds = Orders
  /\ \A a \in isActive : isLiquidation(a) => floorAmount[a] >= LowestFloor(a) * Scale
  /\ LiquidationNet
=============================================================================
