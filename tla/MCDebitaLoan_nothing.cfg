\* A lender of several offers claims an NFT before any auction.
SPECIFICATION Spec
CONSTANTS
  alice = alice
  bob = bob
  order1 = order1
  order2 = order2
  NoUser = NoUser
  borrowerID = 3
  firstBorrower = alice
  Collaterals = {"NFT"}
  startedAt = 100
  initialDuration = 10
  feeLender = 1500
  Year = 10
  Day = 1
  MaxIndexes = 2
  FeeSettings <- MCOneSetting
  Users <- MCUsers
  Offers <- MCOffers
  LendOrders <- MCLendOrders
  lendOffer <- MCLendOffer
  lendOwner <- MCLendOwner
  principleAmount <- MCPrincipleAmount
  apr <- MCApr
  ratio <- MCRatio
  collateralUsed <- MCCollateralUsed
  valuableCollateralUsed <- MCValuableCollateralUsed
  maxDeadline <- MCMaxDeadline
  Precision <- MCPrecision
  Times <- MCTimesShort
  SaleAmounts <- MCSaleAmounts
PROPERTY
  SeizureDelivers
