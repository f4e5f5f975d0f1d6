\* Both sides of an ERC20 loan are settled in the end, while the fees change.
SPECIFICATION LiveSpec
CONSTANTS
  alice = alice
  bob = bob
  order1 = order1
  order2 = order2
  NoUser = NoUser
  borrowerID = 3
  firstBorrower = alice
  Collaterals = {"ERC20"}
  startedAt = 100
  initialDuration = 11
  feeLender = 1500
  Year = 10
  Day = 1
  MaxIndexes = 2
  FeeSettings <- MCFeeSettings
  Users <- MCUsers
  Offers <- MCOffers
  LendOrders <- MCOneOrder
  lendOffer <- MCOneLendOffer
  lendOwner <- MCLendOwner
  principleAmount <- MCPrincipleAmount
  apr <- MCApr
  ratio <- MCRatio
  collateralUsed <- MCCollateralUsed
  valuableCollateralUsed <- MCValuableCollateralUsed
  maxDeadline <- MCMaxDeadline
  Precision <- MCPrecision
  Times <- MCTimesLive
  SaleAmounts <- MCSaleAmounts
INVARIANTS
  FeesBounded
  ExtensionUnhindered
PROPERTIES
  LenderSettled
  CollateralReturned
