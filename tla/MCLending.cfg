\* Two lend orders: the index, the flags and the cooldown; and two matches
\* with their settings, over all pairs of lend orders.
SPECIFICATION LendingSpec
CONSTANTS
  alice = alice
  o1 = o1
  o2 = o2
  t1 = t1
  t2 = t2
  NoUser = NoUser
  NoOrder = NoOrder
  Users <- MCUsers
  Orders <- MCOrders
  Terms <- MCTerms
  Times <- MCTimes
  Cooldown = 1
  Capacity = 2
  MaxAmount = 2
  MaxDelistings = 2
  l1 = l1
  l2 = l2
  b1 = b1
  dai = dai
  wbtc = wbtc
  gold = gold
  receipt = receipt
  LendOrders <- MCLendOrders
  BorrowOrders <- MCBorrowOrders
  Principles <- MCPrinciples
  Assets <- MCAssets
  LendTerms <- MCLendTerms
  BorrowTerms <- MCBorrowTerms
  Unit <- MCUnit
  Shift = 100
  Day = 1
  OfferLimit = 30
  Prices <- MCPrices
  Amounts <- MCAmounts
  Percents <- MCPercents
  Slates <- MCSlates
  MaxPicks = 2
  Rates <- MCRates
  MaxLoans = 2
  MaxChanges = 2
INVARIANTS
  RetiredNotPerpetual
  IndexExactUntilRepeat
  LoansWellFormed
  MatchConserves
PROPERTIES
  TermsSettled
  BorrowerLimits
  LenderLimits
SYMMETRY LendOrderSymmetry
