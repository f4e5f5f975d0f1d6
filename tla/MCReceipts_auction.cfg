\* Can a tax token receipt be bought in an auction?
SPECIFICATION Spec
CONSTANTS
  alice = alice
  bob = bob
  order = order
  loan = loan
  stranger = stranger
  auction = auction
  n1 = n1
  n2 = n2
  NoOrder = NoOrder
  Nobody = Nobody
  Users <- MCUsers
  BorrowOrders <- MCBorrowOrders
  Loans <- MCLoans
  Strangers <- MCStrangers
  Auctions <- MCAuctions
  BuyOrders = {}
  Orders <- MCNFTs
  Capacity = 2
  MaxReceipts = 3
  MaxTaxReceipts = 2
  Amounts <- MCAmounts
  Taxes <- MCTaxes
INVARIANT
  AuctionedCanBeBought
SYMMETRY MCSymmetry
CHECK_DEADLOCK FALSE
