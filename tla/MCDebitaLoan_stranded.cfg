\* The interest of an extension is lost when the offer is paid later.
SPECIFICATION Spec
CONSTANTS
  alice = alice
  bob = bob
  order1 = order1
  order2 = order2
  NoUser = NoUser
  borrowerID = 3
  firstBorrower = alice
  Collaterals = {"ERC20"}
  startedAt = 100
  initialDuration = 10
  feeLender = 1500
  Year = 10
  Day = 1
  MaxIndexes = 2
  FeeSettings <- MCOneSetting
  Users <- MCUsers
  Offers <- MCOffers
  LendOrders <- MCLendOrders
  lendOffer <- MCLendOffer
  lendOwner <- MCLendOwner
  principleAmount <- MCPrincipleAmount
  apr <- MCApr
  ratio <- MCRatio
  collateralUsed <- MCCollateralUsed
  valuableCollateralUsed <- MCValuableCollateralUsed
  maxDeadline <- MCMaxDeadline
  Precision <- MCPrecision
  Times <- MCTimes
  SaleAmounts <- MCSaleAmounts
INVARIANT
  NothingStranded
