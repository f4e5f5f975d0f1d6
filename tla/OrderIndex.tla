----------------------------- MODULE OrderIndex -----------------------------
(***************************************************************************)
(* The index of active orders that each factory keeps: a mapping from a    *)
(* position to an order, a mapping from an order to its position, and the  *)
(* count of positions in use.  An order is appended at the end and deleted *)
(* by moving the last one into its place.  The lend, borrow, buy and       *)
(* auction factories each have their own copy of this code; the lend       *)
(* factory's deletion differs from the others in the order of its writes.  *)
(*                                                                         *)
(* An index is a record [index, slot, count].  The zero address is a key   *)
(* of the index mapping like any other: some deletions write to it.        *)
(***************************************************************************)
EXTENDS Integers

CONSTANTS
  Orders,     \* addresses of the orders a factory deploys
  NoOrder,    \* address(0)
  Capacity    \* bound: positions of the index that are represented

ASSUME OrderIndexAssumption ==
  /\ NoOrder \notin Orders
  /\ Capacity \in Nat

Slots == 0 .. Capacity - 1

Indexes ==
  [index : [Orders \cup {NoOrder} -> Slots \cup {0}],
   slot  : [Slots -> Orders \cup {NoOrder}],
   count : 0 .. Capacity]

EmptyIndex ==
  [index |-> [o \in Orders \cup {NoOrder} |-> 0],
   slot  |-> [i \in Slots |-> NoOrder],
   count |-> 0]

HasRoom(x) == x.count < Capacity

(* createLendOrder, createBorrowOrder, createBuyOrder, createAuction       *)
Enlist(x, o) ==
  [index |-> [x.index EXCEPT ![o] = x.count],
   slot  |-> [x.slot EXCEPT ![x.count] = o],
   count |-> x.count + 1]

(* activeOrdersCount - 1 reverts when nothing is listed.                   *)
Deletable(x) == x.count > 0

(* Mutant: the moved order keeps its old position.                         *)
DeleteShared_NoReindex(x, o) ==
  LET i == x.index[o]
      last == x.count - 1
      moved == [x.slot EXCEPT ![i] = x.slot[last]]
  IN  [index |-> [x.index EXCEPT ![o] = 0],
       slot  |-> [moved EXCEPT ![last] = NoOrder],
       count |-> last]

(* _deleteAuctionOrder, deleteBorrowOrder, _deleteBuyOrder: the last       *)
(* position is cleared before the moved order is looked up through the     *)
(* deleted position, so deleting the last order indexes the zero address.  *)
DeleteShared(x, o) ==
  LET i == x.index[o]
      last == x.count - 1
      moved == [x.slot EXCEPT ![i] = x.slot[last]]
      cleared == [moved EXCEPT ![last] = NoOrder]
  IN  [index |-> [x.index EXCEPT ![o] = 0, ![cleared[i]] = i],
       slot  |-> cleared,
       count |-> last]

(* Mutant: the position is taken from the last order, not the deleted one. *)
DeleteLend_PopLast(x, o) ==
  [index |-> [x.index EXCEPT ![o] = 0],
   slot  |-> [x.slot EXCEPT ![x.count - 1] = NoOrder],
   count |-> x.count - 1]

(* DLOFactory.deleteOrder: the moved order is looked up in the last        *)
(* position before it is cleared, so an order deleted from the end keeps   *)
(* its position.                                                           *)
DeleteLend(x, o) ==
  LET i == x.index[o]
      last == x.count - 1
      moved == [x.slot EXCEPT ![i] = x.slot[last]]
  IN  [index |-> [x.index EXCEPT ![o] = 0, ![moved[last]] = i],
       slot  |-> [moved EXCEPT ![last] = NoOrder],
       count |-> last]

(* Mutant: the place is looked up after the count was lowered.             *)
DeleteManaged_AfterCount(x, o) ==
  LET k == x.index[o]
      last == x.count - 2
  IN  IF last < 0 THEN [x EXCEPT !.slot[0] = NoOrder, !.count = 0]
      ELSE [index |-> [x.index EXCEPT ![x.slot[last]] = k],
            slot  |-> [x.slot EXCEPT ![k] = x.slot[last], ![last] = NoOrder],
            count |-> x.count - 1]

(* decrease of the veNFT receipts, whose lists of managed NFTs are kept    *)
(* the same way: the last one is moved only if it is another one, and the  *)
(* deleted one keeps its position.                                         *)
DeleteManaged(x, o) ==
  LET k == x.index[o]
      last == x.count - 1
      y == IF k = last THEN x
           ELSE [x EXCEPT !.slot[k] = x.slot[last], !.index[x.slot[last]] = k]
  IN  [y EXCEPT !.slot[last] = NoOrder, !.count = last]

(* The orders a reader of the index sees.                                  *)
Listed(x) == {x.slot[i] : i \in 0 .. x.count - 1}

(* The two mappings are inverse to each other on the positions in use.     *)
Exact(x) ==
  \A i \in 0 .. x.count - 1 : x.slot[i] \in Orders /\ x.index[x.slot[i]] = i
=============================================================================
