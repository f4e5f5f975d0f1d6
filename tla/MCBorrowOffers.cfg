\* Two borrow orders, tokens or receipts, whose terms change.
SPECIFICATION Spec
CONSTANTS
  alice = alice
  b1 = b1
  b2 = b2
  t1 = t1
  t2 = t2
  NoUser = NoUser
  NoOrder = NoOrder
  Users <- MCUsers
  Orders <- MCOrders
  Terms <- MCTerms
  Cooldown = 1
  Capacity = 2
  Times <- MCTimes
  Deposits <- MCDeposits
  LockedAmounts <- MCLocked
  Amounts <- MCAmounts
INVARIANTS
  IndexExact
  CollateralConserved
PROPERTY
  TermsSettled
