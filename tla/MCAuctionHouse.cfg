\* The price of one auction, and the index of three.
SPECIFICATION Spec
CONSTANTS
  alice = alice
  loan = loan
  a1 = a1
  a2 = a2
  a3 = a3
  NoUser = NoUser
  NoOrder = NoOrder
  Users <- MCUsers
  Loans <- MCLoans
  Orders <- MCAuctions
  Capacity = 3
  Scale = 10
  LiquidationDuration = 4
  Amounts <- MCAmounts
  Durations <- MCDurations
  Rates <- MCRates
  Times <- MCTimes
CONSTRAINT OnePricedAuction
INVARIANTS
  IndexExact
  FloorReachedByEnd
  LiquidationNet
PROPERTIES
  ImplementsActiveOrders
  PriceContinuous
