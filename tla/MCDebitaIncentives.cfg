\* Bribes, loans and claims of two users around the ends of the epochs.
SPECIFICATION Spec
CONSTANTS
  alice = alice
  bob = bob
  usdc = usdc
  aero = aero
  usdt = usdt
  weth = weth
  NoToken = NoToken
  blockDeployedContract = 100
  epochDuration = 10
  MaxEpoch = 3
  MaxOffers = 2
  MaxCalls = 5
  Users <- MCUsers
  Principles <- MCPrinciples
  Collaterals <- MCCollaterals
  BribeTokens <- MCBribeTokens
  Times <- MCTimes
  LoanAmounts <- MCLoanAmounts
  BribeAmounts <- MCBribeAmounts
INVARIANTS
  UsageAgrees
  IncentivesCovered
  ClaimsFinal
  ListedTruthfully
SYMMETRY MCSymmetry
CHECK_DEADLOCK FALSE
