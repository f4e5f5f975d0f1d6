\* The buy orders, at changing fees; and one pair of the oracle, whose slots
\* are renewed between trades and pauses.
SPECIFICATION PeripherySpec
CONSTANTS
  alice = alice
  bob = bob
  b1 = b1
  b2 = b2
  b3 = b3
  r1 = r1
  r2 = r2
  r3 = r3
  NoUser = NoUser
  NoOrder = NoOrder
  Users <- MCUsers
  Orders <- MCOrders
  Capacity = 3
  Receipts <- MCReceipts
  lockedAmount <- MCLocked
  Unit = 10
  Deposits <- MCDeposits
  Ratios <- MCRatios
  Fees <- MCFees
  safe = safe
  keeper = keeper
  deployer = safe
  deployedAt = 0
  MIN_T = 2
  MultisigPeriod = 2
  Q112 = 4
  AttachedUnit = 10
  Callers <- MCCallers
  Times <- MCTimes
  Reserves <- MCReserves
  AttachedPrices <- MCAttachedPrices
INVARIANTS
  IndexExact
  FundsConserved
  PricePaid
  NotReadyOnlyAtStart
  SpotWhenQuiet
SYMMETRY Symmetry
CHECK_DEADLOCK FALSE
