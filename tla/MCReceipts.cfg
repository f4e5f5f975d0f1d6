\* Two veNFTs and two tax receipts change hands and managers.
SPECIFICATION Spec
CONSTANTS
  alice = alice
  bob = bob
  order = order
  loan = loan
  stranger = stranger
  auction = auction
  n1 = n1
  n2 = n2
  NoOrder = NoOrder
  Nobody = Nobody
  Users <- MCUsers
  BorrowOrders <- MCBorrowOrders
  Loans <- MCLoans
  Strangers <- MCStrangers
  Auctions <- MCAuctions
  BuyOrders = {}
  Orders <- MCNFTs
  Capacity = 2
  MaxReceipts = 3
  MaxTaxReceipts = 2
  Amounts <- MCAmounts
  Taxes <- MCTaxes
INVARIANTS
  ReceiptsBacked
  ManagementExact
  AlwaysRedeemable
SYMMETRY MCSymmetry
CHECK_DEADLOCK FALSE
