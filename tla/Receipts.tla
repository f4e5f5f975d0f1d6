------------------------------ MODULE Receipts ------------------------------
(***************************************************************************)
(* The NFT receipts that borrowers offer as collateral                     *)
(* (contracts/Non-Fungible-Receipts): a veNFT receipt stands for a veNFT   *)
(* in a vault of its own, managed by somebody who need not hold the        *)
(* receipt (Receipt-veNFT.sol, veNFTAerodrome.sol, and the same code for   *)
(* Equalizer); a tax token receipt stands for an amount of a token that    *)
(* taxes its transfers (TaxTokensReceipt.sol).                             *)
(*                                                                         *)
(* A receipt contract keeps, for each manager, a list of the veNFTs it     *)
(* manages; the lists are indexes like those of the factories, so Orders   *)
(* are the veNFTs here.  The vault deployed for a receipt is named by it.  *)
(* An array of deposits does what the deposits do one by one.              *)
(***************************************************************************)
EXTENDS OrderIndex, FiniteSets, Functions

CONSTANTS
  Users,          \* wallets
  BorrowOrders,   \* contracts of Debita that may hold receipts
  Loans,
  Strangers,      \* of Debita too, but a receipt is sent there by mistake
  Auctions,       \* Debita's markets, which the tax receipts do not know
  BuyOrders,
  Nobody,         \* owner of a receipt that was burned or not minted
  \* bounds
  MaxReceipts,    \* veNFT receipts minted
  MaxTaxReceipts, \* tax token receipts minted
  Amounts,        \* amounts of the taxed token that are deposited
  Taxes           \* taxes that its transfers may take

NFTs == Orders
NoNFT == NoOrder
Vaults == 1 .. MaxReceipts
TaxReceipts == 1 .. MaxTaxReceipts
Debita == BorrowOrders \cup Loans \cup Strangers
Markets == Auctions \cup BuyOrders
Holders == Users \cup Debita \cup Markets

ASSUME ReceiptsAssumption ==
  /\ Nobody \notin Holders
  /\ Users \cap (Debita \cup Markets) = {} /\ Debita \cap Markets = {}
  /\ Users \cap Vaults = {}
  /\ MaxReceipts \in Nat /\ MaxTaxReceipts \in Nat
  /\ Amounts \subseteq Nat /\ Taxes \subseteq Nat

VARIABLES
  \* the veNFT contract, its receipts and their vaults
  nftOwner,          \* owner of each veNFT: a user or a vault
  s_ReceiptID,       \* receipts minted so far
  receiptOwner,      \* owner of each veNFT receipt
  attached_NFTID,    \* the veNFT of each vault
  managerAddress,    \* the manager of each vault
  managed,           \* balanceOfManagement, ownedTokens and indexPosition
  \* the tax token receipts
  tokenID, taxOwner, tokenAmountPerID,
  taxBalance         \* tokens the receipt contract holds

veVars == <<nftOwner, s_ReceiptID, receiptOwner, attached_NFTID,
            managerAddress, managed>>
taxVars == <<tokenID, taxOwner, tokenAmountPerID, taxBalance>>
vars == <<veVars, taxVars>>

-----------------------------------------------------------------------------
Init ==
  /\ nftOwner \in [NFTs -> Users]
  /\ s_ReceiptID = 0
  /\ receiptOwner = [r \in Vaults |-> Nobody]
  /\ attached_NFTID = [r \in Vaults |-> NoNFT]
  /\ managerAddress = [r \in Vaults |-> Nobody]
  /\ managed = [u \in Users |-> EmptyIndex]
  /\ taxOwner = [i \in TaxReceipts |-> Nobody]
  /\ tokenAmountPerID = [i \in TaxReceipts |-> 0]
  /\ tokenID = 0 /\ taxBalance = 0

(* A new vault for the NFT, managed by the depositor, who gets the receipt.*)
deposit(u, n) ==
  LET r == s_ReceiptID + 1 IN
  /\ r \in Vaults
  /\ nftOwner[n] = u
  /\ HasRoom(managed[u])
  /\ s_ReceiptID' = r
  /\ nftOwner' = [nftOwner EXCEPT ![n] = r]
  /\ attached_NFTID' = [attached_NFTID EXCEPT ![r] = n]
  /\ managerAddress' = [managerAddress EXCEPT ![r] = u]
  /\ managed' = [managed EXCEPT ![u] = Enlist(@, n)]
  /\ receiptOwner' = [receiptOwner EXCEPT ![r] = u]
  /\ UNCHANGED taxVars

(* Mutant: the list of the caller is shortened, not the manager's.         *)
Unlist_Holder(r) == receiptOwner[r] \in Users /\ Deletable(managed[receiptOwner[r]])
  /\ managed' = [managed EXCEPT ![receiptOwner[r]] = DeleteManaged(@, attached_NFTID[r])]

(* withdraw: decrease(managerAddress, attached_NFTID).                     *)
Unlist(r) == Deletable(managed[managerAddress[r]])
  /\ managed' = [managed EXCEPT ![managerAddress[r]] = DeleteManaged(@, attached_NFTID[r])]

BurnReceipt(r) == receiptOwner' = [receiptOwner EXCEPT ![r] = Nobody]

(* Only the holder of the receipt, whoever manages the NFT.                *)
withdraw(u, r) ==
  /\ receiptOwner[r] = u
  /\ attached_NFTID[r] # NoNFT
  /\ Unlist(r)
  /\ attached_NFTID' = [attached_NFTID EXCEPT ![r] = NoNFT]
  /\ BurnReceipt(r)
  /\ nftOwner' = [nftOwner EXCEPT ![attached_NFTID[r]] = u]
  /\ UNCHANGED <<s_ReceiptID, managerAddress, taxVars>>

(* By the holder of the receipt or the manager itself.                     *)
changeManager(u, r, newManager) ==
  LET n == attached_NFTID[r]
      old == managerAddress[r]
  IN  /\ receiptOwner[r] # Nobody
      /\ n # NoNFT
      /\ newManager # old
      /\ u \in {receiptOwner[r], old}
      /\ Deletable(managed[old]) /\ HasRoom(managed[newManager])
      /\ managed' = [managed EXCEPT ![old] = DeleteManaged(@, n),
                                    ![newManager] = Enlist(@, n)]
      /\ managerAddress' = [managerAddress EXCEPT ![r] = newManager]
      /\ UNCHANGED <<nftOwner, s_ReceiptID, receiptOwner, attached_NFTID, taxVars>>

(* Whom the holder of a receipt passes it to: an order to the loan it is   *)
(* matched in or back to its owner, a loan to its borrower, a lender or an *)
(* auction, an auction to a buyer.  A buy order keeps what it bought, and  *)
(* a lend order, or a loan or a borrow order that did not ask for it, what *)
(* a wallet sends there.                                                   *)
Receivers(from) ==
  CASE from \in Users -> Users \cup BorrowOrders \cup Strangers \cup Markets
    [] from \in BorrowOrders -> Loans \cup Users
    [] from \in Loans -> Users \cup Auctions
    [] from \in Auctions -> Users
    [] OTHER -> {}

(* ERC721.transferFrom by the holder, a wallet or a contract of Debita.  It *)
(* is not restricted.                                                      *)
transferReceipt(r, to) ==
  /\ to \in Receivers(receiptOwner[r])
  /\ receiptOwner' = [receiptOwner EXCEPT ![r] = to]
  /\ UNCHANGED <<nftOwner, s_ReceiptID, attached_NFTID, managerAddress, managed,
                 taxVars>>

-----------------------------------------------------------------------------
(* Mutant: the check of what arrived is dropped.                           *)
Arrived_Unchecked(amount, tax) == tax <= amount

(* difference >= amount: the contract must be exempt from the tax.         *)
Arrived(amount, tax) == tax <= amount /\ amount - tax >= amount

depositTax(u, amount, tax) ==
  LET i == tokenID + 1 IN
  /\ i \in TaxReceipts
  /\ Arrived(amount, tax)
  /\ tokenID' = i
  /\ taxBalance' = taxBalance + amount - tax
  /\ tokenAmountPerID' = [tokenAmountPerID EXCEPT ![i] = amount]
  /\ taxOwner' = [taxOwner EXCEPT ![i] = u]
  /\ UNCHANGED veVars

withdrawTax(u, i) ==
  /\ taxOwner[i] = u
  /\ taxBalance >= tokenAmountPerID[i]
  /\ tokenAmountPerID' = [tokenAmountPerID EXCEPT ![i] = 0]
  /\ taxOwner' = [taxOwner EXCEPT ![i] = Nobody]
  /\ taxBalance' = taxBalance - tokenAmountPerID[i]
  /\ UNCHANGED <<veVars, tokenID>>

(* Auctions and buy orders are not asked for.                              *)
DebitaInvolved(from, to) == {from, to} \cap Debita # {}

transferTax(i, to) ==
  /\ to \in Receivers(taxOwner[i])
  /\ DebitaInvolved(taxOwner[i], to)
  /\ taxOwner' = [taxOwner EXCEPT ![i] = to]
  /\ UNCHANGED <<veVars, tokenID, tokenAmountPerID, taxBalance>>

Next ==
  \/ \E u \in Users, n \in NFTs : deposit(u, n)
  \/ \E u \in Users, r \in Vaults : withdraw(u, r)
  \/ \E u \in Users, r \in Vaults, m \in Users : changeManager(u, r, m)
  \/ \E r \in Vaults, to \in Holders : transferReceipt(r, to)
  \/ \E u \in Users, amount \in Amounts, tax \in Taxes : depositTax(u, amount, tax)
  \/ \E u \in Users, i \in TaxReceipts : withdrawTax(u, i)
  \/ \E i \in TaxReceipts, to \in Holders : transferTax(i, to)

Spec == Init /\ [][Next]_vars

-----------------------------------------------------------------------------
(* Properties                                                              *)

Live(r) == receiptOwner[r] # Nobody

(* The veNFTs in the vaults that u manages.                                *)
ManagedBy(u) ==
  {attached_NFTID[r] : r \in {v \in Vaults : /\ attached_NFTID[v] # NoNFT
                                             /\ managerAddress[v] = u}}

TaxInCirculation == {i \in TaxReceipts : taxOwner[i] # Nobody}

(* A receipt in circulation stands for just one veNFT, which its own vault *)
(* holds, and no vault holds a veNFT that nobody has a receipt for; and    *)
(* the tax token receipts in circulation are covered all at once.          *)
ReceiptsBacked ==
  /\ \A r \in Vaults :
       /\ Live(r) <=> attached_NFTID[r] # NoNFT
       /\ Live(r) => nftOwner[attached_NFTID[r]] = r
  /\ \A n \in NFTs : nftOwner[n] \in Vaults => attached_NFTID[nftOwner[n]] = n
  /\ taxBalance >= SumFunctionOnSet(tokenAmountPerID, TaxInCirculation)

(* The list of each manager holds just the veNFTs of the vaults it manages,*)
(* each at the position noted for it, however receipts change hands and    *)
(* managers resign or are replaced in between.                             *)
ManagementExact ==
  \A u \in Users : Exact(managed[u]) /\ Listed(managed[u]) = ManagedBy(u)

(* A wallet that holds a receipt can redeem it at once, whoever manages    *)
(* the veNFT and whatever other managers do to their lists.                *)
AlwaysRedeemable ==
  /\ \A r \in Vaults : receiptOwner[r] \in Users => ENABLED withdraw(receiptOwner[r], r)
  /\ \A i \in TaxReceipts : taxOwner[i] \in Users => ENABLED withdrawTax(taxOwner[i], i)

-----------------------------------------------------------------------------
(* What the comments of the source say of the program                      *)

(* Auction.buyNFT, "User buys the NFT - sends the tokens to the owner of   *)
(* the auction - receives the NFT": somebody can buy a tax token receipt   *)
(* that a loan put up for auction.                                         *)
AuctionedCanBeBought ==
  \A i \in TaxReceipts :
    taxOwner[i] \in Auctions => \E u \in Users : ENABLED transferTax(i, u)

-----------------------------------------------------------------------------
(* The inductive invariant of the proof about the lists of the managers.   *)
ManagementInv ==
  /\ nftOwner \in [NFTs -> Users \cup Vaults]
  /\ s_ReceiptID \in 0 .. MaxReceipts
  /\ receiptOwner \in [Vaults -> Holders \cup {Nobody}]
  /\ attached_NFTID \in [Vaults -> NFTs \cup {NoNFT}]
  /\ managerAddress \in [Vaults -> Users \cup {Nobody}]
  /\ managed \in [Users -> Indexes]
  /\ \A r \in Vaults : r > s_ReceiptID => attached_NFTID[r] = NoNFT
  /\ \A r \in Vaults :
       attached_NFTID[r] # NoNFT => /\ nftOwner[attached_NFTID[r]] = r
                                    /\ managerAddress[r] \in Users
  /\ ManagementExact

(* The invariant of the proof that the receipts are backed: besides, just  *)
(* the receipts of the vaults in use and of the deposits made exist.       *)
BackedInv ==
  /\ ManagementInv
  /\ tokenID \in 0 .. MaxTaxReceipts
  /\ taxOwner \in [TaxReceipts -> Holders \cup {Nobody}]
  /\ tokenAmountPerID \in [TaxReceipts -> Nat]
  /\ taxBalance \in Nat
  /\ \A i \in TaxReceipts : i > tokenID => taxOwner[i] = Nobody
  /\ ReceiptsBacked
=============================================================================
