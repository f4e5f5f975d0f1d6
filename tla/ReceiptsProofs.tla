--------------------------- MODULE ReceiptsProofs ---------------------------
(***************************************************************************)
(* The lists of the managers of veNFT receipts are exact, for any number   *)
(* of wallets, veNFTs, receipts and amounts.  A veNFT enters the list of   *)
(* one manager only as it leaves the wallet of a user or the list of       *)
(* another manager, so what is appended is never listed yet, and what is   *)
(* deleted always is; the facts about one list are those of                *)
(* ProofLemmas.  From the same invariant it follows that every receipt is  *)
(* backed and that nothing hinders its redemption.                         *)
(***************************************************************************)
EXTENDS Receipts, ProofLemmas

(* Initially no vault exists and every list is empty.                      *)
LEMMA InitManagement ==
  ASSUME Init PROVE ManagementInv
<1>1. \A u \in Users : ManagedBy(u) = {}
  BY DEF Init, ManagedBy
<1>2. managed \in [Users -> Indexes] /\ ManagementExact
  BY <1>1, EmptyExact DEF Init, ManagementExact
<1>3. s_ReceiptID \in 0 .. MaxReceipts
  BY ReceiptsAssumption DEF Init
<1>. QED
  BY <1>2, <1>3 DEF Init, ManagementInv, NFTs, NoNFT

(* Two vaults never hold the same veNFT.                                   *)
LEMMA OneVault ==
  ASSUME ManagementInv,
         NEW r \in Vaults, NEW v \in Vaults,
         attached_NFTID[r] # NoNFT, attached_NFTID[v] = attached_NFTID[r]
  PROVE  v = r
BY DEF ManagementInv

(* A deposit appends a veNFT that no vault held.                           *)
LEMMA DepositManagement ==
  ASSUME ManagementInv, NEW u \in Users, NEW n \in NFTs, deposit(u, n)
  PROVE  ManagementInv'
<1>. DEFINE r == s_ReceiptID + 1
<1>1. /\ r \in Vaults
      /\ nftOwner[n] = u
      /\ HasRoom(managed[u])
      /\ s_ReceiptID' = r
      /\ nftOwner' = [nftOwner EXCEPT ![n] = r]
      /\ attached_NFTID' = [attached_NFTID EXCEPT ![r] = n]
      /\ managerAddress' = [managerAddress EXCEPT ![r] = u]
      /\ managed' = [managed EXCEPT ![u] = Enlist(@, n)]
      /\ receiptOwner' = [receiptOwner EXCEPT ![r] = u]
  BY DEF deposit
<1>2. /\ nftOwner \in [NFTs -> Users \cup Vaults]
      /\ s_ReceiptID \in 0 .. MaxReceipts
      /\ receiptOwner \in [Vaults -> Holders \cup {Nobody}]
      /\ attached_NFTID \in [Vaults -> NFTs \cup {NoNFT}]
      /\ managerAddress \in [Vaults -> Users \cup {Nobody}]
      /\ managed \in [Users -> Indexes]
      /\ n \in Orders /\ n # NoNFT
  BY OrderIndexAssumption DEF ManagementInv, NFTs, NoNFT
<1>3. attached_NFTID[r] = NoNFT
  BY <1>1, <1>2, ReceiptsAssumption DEF ManagementInv, Vaults
<1>4. \A v \in Vaults : attached_NFTID[v] # n
  BY <1>1, <1>2, ReceiptsAssumption DEF ManagementInv
<1>5. ManagedBy(u)' = ManagedBy(u) \cup {n} /\ n \notin ManagedBy(u)
  BY <1>1, <1>2, <1>3, <1>4 DEF ManagedBy
<1>6. \A w \in Users \ {u} : ManagedBy(w)' = ManagedBy(w)
  BY <1>1, <1>2, <1>3, <1>4 DEF ManagedBy
<1>7. managed[u] \in Indexes /\ Exact(managed[u]) /\ Listed(managed[u]) = ManagedBy(u)
  BY <1>2 DEF ManagementInv, ManagementExact
<1>8. /\ Enlist(managed[u], n) \in Indexes
      /\ Exact(Enlist(managed[u], n))
      /\ Listed(Enlist(managed[u], n)) = ManagedBy(u)'
  BY <1>1, <1>2, <1>5, <1>7, EnlistExact
<1>9. /\ managed'[u] = Enlist(managed[u], n)
      /\ \A w \in Users \ {u} : managed'[w] = managed[w]
      /\ managed' \in [Users -> Indexes]
  BY <1>1, <1>2, <1>8
<1>10. ManagementExact'
  BY <1>6, <1>8, <1>9 DEF ManagementInv, ManagementExact
<1>11. /\ nftOwner' \in [NFTs -> Users \cup Vaults]
       /\ receiptOwner' \in [Vaults -> Holders \cup {Nobody}]
       /\ attached_NFTID' \in [Vaults -> NFTs \cup {NoNFT}]
       /\ managerAddress' \in [Vaults -> Users \cup {Nobody}]
  BY <1>1, <1>2 DEF Holders
<1>12. s_ReceiptID' \in 0 .. MaxReceipts
  BY <1>1, <1>2, ReceiptsAssumption DEF Vaults
<1>13. \A v \in Vaults : v > s_ReceiptID' => attached_NFTID'[v] = NoNFT
  <2>. SUFFICES ASSUME NEW v \in Vaults, v > s_ReceiptID'
                PROVE  attached_NFTID'[v] = NoNFT
    OBVIOUS
  <2>1. v # r /\ v > s_ReceiptID
    BY <1>1, <1>2, ReceiptsAssumption DEF Vaults
  <2>. QED
    BY <2>1, <1>1, <1>2 DEF ManagementInv
<1>14. \A v \in Vaults :
         attached_NFTID'[v] # NoNFT => /\ nftOwner'[attached_NFTID'[v]] = v
                                       /\ managerAddress'[v] \in Users
  <2>. SUFFICES ASSUME NEW v \in Vaults, attached_NFTID'[v] # NoNFT
                PROVE  /\ nftOwner'[attached_NFTID'[v]] = v
                       /\ managerAddress'[v] \in Users
    OBVIOUS
  <2>1. CASE v = r
    BY <2>1, <1>1, <1>2
  <2>2. CASE v # r
    <3>1. attached_NFTID'[v] = attached_NFTID[v] /\ managerAddress'[v] = managerAddress[v]
      BY <2>2, <1>1, <1>2
    <3>. QED
      BY <3>1, <1>1, <1>2, <1>4 DEF ManagementInv
  <2>. QED
    BY <2>1, <2>2
<1>. QED
  BY <1>9, <1>10, <1>11, <1>12, <1>13, <1>14 DEF ManagementInv

(* A withdrawal deletes its veNFT from the list of the manager.            *)
LEMMA WithdrawManagement ==
  ASSUME ManagementInv, NEW u \in Users, NEW r \in Vaults, withdraw(u, r)
  PROVE  ManagementInv'
<1>0. PICK m, n : m = managerAddress[r] /\ n = attached_NFTID[r]
  OBVIOUS
<1>1. /\ n # NoNFT
      /\ managed' = [managed EXCEPT ![m] = DeleteManaged(@, n)]
      /\ attached_NFTID' = [attached_NFTID EXCEPT ![r] = NoNFT]
      /\ receiptOwner' = [receiptOwner EXCEPT ![r] = Nobody]
      /\ nftOwner' = [nftOwner EXCEPT ![n] = u]
      /\ s_ReceiptID' = s_ReceiptID /\ managerAddress' = managerAddress
  BY <1>0 DEF withdraw, Unlist, BurnReceipt
<1>2. /\ nftOwner \in [NFTs -> Users \cup Vaults]
      /\ receiptOwner \in [Vaults -> Holders \cup {Nobody}]
      /\ attached_NFTID \in [Vaults -> NFTs \cup {NoNFT}]
      /\ managerAddress \in [Vaults -> Users \cup {Nobody}]
      /\ managed \in [Users -> Indexes]
      /\ n \in NFTs /\ n \in Orders /\ m \in Users
  BY <1>0, <1>1 DEF ManagementInv, NFTs
<1>3. \A v \in Vaults : v # r => attached_NFTID[v] # n
  BY <1>0, <1>1, OneVault
<1>4. ManagedBy(m)' = ManagedBy(m) \ {n} /\ n \in ManagedBy(m)
  BY <1>0, <1>1, <1>2, <1>3 DEF ManagedBy
<1>5. \A w \in Users \ {m} : ManagedBy(w)' = ManagedBy(w)
  BY <1>0, <1>1, <1>2, <1>3 DEF ManagedBy
<1>6. managed[m] \in Indexes /\ Exact(managed[m]) /\ Listed(managed[m]) = ManagedBy(m)
  BY <1>2 DEF ManagementInv, ManagementExact
<1>7. /\ DeleteManaged(managed[m], n) \in Indexes
      /\ Exact(DeleteManaged(managed[m], n))
      /\ Listed(DeleteManaged(managed[m], n)) = ManagedBy(m)'
  BY <1>2, <1>4, <1>6, DeleteManagedExact
<1>8. /\ managed'[m] = DeleteManaged(managed[m], n)
      /\ \A w \in Users \ {m} : managed'[w] = managed[w]
      /\ managed' \in [Users -> Indexes]
  BY <1>1, <1>2, <1>7
<1>9. ManagementExact'
  <2>. SUFFICES ASSUME NEW w \in Users
                PROVE  Exact(managed'[w]) /\ Listed(managed'[w]) = ManagedBy(w)'
    BY DEF ManagementExact
  <2>1. CASE w = m
    BY <2>1, <1>7, <1>8
  <2>2. CASE w # m
    BY <2>2, <1>5, <1>8 DEF ManagementInv, ManagementExact
  <2>. QED
    BY <2>1, <2>2
<1>10. /\ nftOwner' \in [NFTs -> Users \cup Vaults]
       /\ receiptOwner' \in [Vaults -> Holders \cup {Nobody}]
       /\ attached_NFTID' \in [Vaults -> NFTs \cup {NoNFT}]
       /\ managerAddress' \in [Vaults -> Users \cup {Nobody}]
  BY <1>1, <1>2
<1>11. \A v \in Vaults : v > s_ReceiptID' => attached_NFTID'[v] = NoNFT
  BY <1>1, <1>2 DEF ManagementInv
<1>12. \A v \in Vaults :
         attached_NFTID'[v] # NoNFT => /\ nftOwner'[attached_NFTID'[v]] = v
                                       /\ managerAddress'[v] \in Users
  BY <1>0, <1>1, <1>2, <1>3 DEF ManagementInv
<1>. QED
  BY <1>1, <1>8, <1>9, <1>10, <1>11, <1>12 DEF ManagementInv

(* A new manager gets the veNFT that the old one loses.                    *)
LEMMA ChangeManagement ==
  ASSUME ManagementInv, NEW u \in Users, NEW r \in Vaults, NEW new \in Users,
         changeManager(u, r, new)
  PROVE  ManagementInv'
<1>0. PICK old, n : old = managerAddress[r] /\ n = attached_NFTID[r]
  OBVIOUS
<1>1. /\ n # NoNFT /\ new # old
      /\ HasRoom(managed[new])
      /\ managed' = [managed EXCEPT ![old] = DeleteManaged(@, n),
                                    ![new] = Enlist(@, n)]
      /\ managerAddress' = [managerAddress EXCEPT ![r] = new]
      /\ UNCHANGED <<nftOwner, s_ReceiptID, receiptOwner, attached_NFTID>>
  BY <1>0 DEF changeManager
<1>2. /\ attached_NFTID \in [Vaults -> NFTs \cup {NoNFT}]
      /\ managerAddress \in [Vaults -> Users \cup {Nobody}]
      /\ managed \in [Users -> Indexes]
      /\ n \in NFTs /\ n \in Orders /\ old \in Users
  BY <1>0, <1>1 DEF ManagementInv, NFTs
<1>3. \A v \in Vaults : v # r => attached_NFTID[v] # n
  BY <1>0, <1>1, OneVault
<1>4. ManagedBy(old)' = ManagedBy(old) \ {n} /\ n \in ManagedBy(old)
  BY <1>0, <1>1, <1>2, <1>3 DEF ManagedBy
<1>5. ManagedBy(new)' = ManagedBy(new) \cup {n} /\ n \notin ManagedBy(new)
  BY <1>0, <1>1, <1>2, <1>3 DEF ManagedBy
<1>6. \A w \in Users \ {old, new} : ManagedBy(w)' = ManagedBy(w)
  BY <1>0, <1>1, <1>2, <1>3 DEF ManagedBy
<1>7. \A w \in Users : /\ managed[w] \in Indexes
                       /\ Exact(managed[w])
                       /\ Listed(managed[w]) = ManagedBy(w)
  BY <1>2 DEF ManagementInv, ManagementExact
<1>8. /\ DeleteManaged(managed[old], n) \in Indexes
      /\ Exact(DeleteManaged(managed[old], n))
      /\ Listed(DeleteManaged(managed[old], n)) = ManagedBy(old)'
  BY <1>2, <1>4, <1>7, DeleteManagedExact
<1>9. /\ Enlist(managed[new], n) \in Indexes
      /\ Exact(Enlist(managed[new], n))
      /\ Listed(Enlist(managed[new], n)) = ManagedBy(new)'
  BY <1>1, <1>2, <1>5, <1>7, EnlistExact
<1>10. /\ managed'[old] = DeleteManaged(managed[old], n)
       /\ managed'[new] = Enlist(managed[new], n)
       /\ \A w \in Users \ {old, new} : managed'[w] = managed[w]
       /\ managed' \in [Users -> Indexes]
  BY <1>1, <1>2, <1>8, <1>9
<1>11. ManagementExact'
  <2>. SUFFICES ASSUME NEW w \in Users
                PROVE  Exact(managed'[w]) /\ Listed(managed'[w]) = ManagedBy(w)'
    BY DEF ManagementExact
  <2>1. CASE w = old
    BY <2>1, <1>8, <1>10
  <2>2. CASE w = new
    BY <2>2, <1>9, <1>10
  <2>3. CASE w \notin {old, new}
    BY <2>3, <1>6, <1>7, <1>10
  <2>. QED
    BY <2>1, <2>2, <2>3
<1>12. managerAddress' \in [Vaults -> Users \cup {Nobody}]
  BY <1>1, <1>2
<1>13. \A v \in Vaults :
         attached_NFTID'[v] # NoNFT => /\ nftOwner'[attached_NFTID'[v]] = v
                                       /\ managerAddress'[v] \in Users
  BY <1>1, <1>2 DEF ManagementInv
<1>. QED
  BY <1>1, <1>10, <1>11, <1>12, <1>13 DEF ManagementInv

(* Whatever else happens, at most the owner of a receipt changes.          *)
LEMMA KeepsManagement ==
  ASSUME ManagementInv,
         UNCHANGED <<nftOwner, s_ReceiptID, attached_NFTID, managerAddress, managed>>,
         receiptOwner' \in [Vaults -> Holders \cup {Nobody}]
  PROVE  ManagementInv'
<1>1. \A u \in Users : ManagedBy(u)' = ManagedBy(u)
  BY DEF ManagedBy
<1>. QED
  BY <1>1 DEF ManagementInv, ManagementExact

(* Every step of the receipts keeps the lists.                             *)
LEMMA NextManagement ==
  ASSUME ManagementInv, [Next]_vars PROVE ManagementInv'
<1>0. receiptOwner \in [Vaults -> Holders \cup {Nobody}]
  BY DEF ManagementInv
<1>1. ASSUME NEW u \in Users, NEW n \in NFTs, deposit(u, n) PROVE ManagementInv'
  BY <1>1, DepositManagement
<1>2. ASSUME NEW u \in Users, NEW r \in Vaults, withdraw(u, r) PROVE ManagementInv'
  BY <1>2, WithdrawManagement
<1>3. ASSUME NEW u \in Users, NEW r \in Vaults, NEW m \in Users, changeManager(u, r, m)
      PROVE  ManagementInv'
  BY <1>3, ChangeManagement
<1>4. ASSUME NEW r \in Vaults, NEW to \in Holders, transferReceipt(r, to)
      PROVE  ManagementInv'
  <2>1. receiptOwner' \in [Vaults -> Holders \cup {Nobody}]
    BY <1>0, <1>4 DEF transferReceipt
  <2>. QED
    BY <2>1, <1>4, KeepsManagement DEF transferReceipt
<1>5. ASSUME NEW u \in Users, NEW amount \in Amounts, NEW tax \in Taxes,
             depositTax(u, amount, tax)
      PROVE  ManagementInv'
  BY <1>0, <1>5, KeepsManagement DEF depositTax, veVars
<1>6. ASSUME NEW u \in Users, NEW i \in TaxReceipts, withdrawTax(u, i)
      PROVE  ManagementInv'
  BY <1>0, <1>6, KeepsManagement DEF withdrawTax, veVars
<1>7. ASSUME NEW i \in TaxReceipts, NEW to \in Holders, transferTax(i, to)
      PROVE  ManagementInv'
  BY <1>0, <1>7, KeepsManagement DEF transferTax, veVars
<1>8. CASE UNCHANGED vars
  BY <1>0, <1>8, KeepsManagement DEF vars, veVars
<1>. QED
  BY <1>1, <1>2, <1>3, <1>4, <1>5, <1>6, <1>7, <1>8 DEF Next

(* The lists of the managers are exact: getDataFromUser shows a manager    *)
(* just the veNFTs it manages, and decrease, which every withdrawal and    *)
(* every change of the manager calls, never reverts.                       *)
THEOREM ListsStayExact == Spec => []ManagementExact
<1>1. Init => ManagementInv
  BY InitManagement
<1>2. ManagementInv /\ [Next]_vars => ManagementInv'
  BY NextManagement
<1>3. ManagementInv => ManagementExact
  BY DEF ManagementInv
<1>. QED
  BY <1>1, <1>2, <1>3, PTL DEF Spec

-----------------------------------------------------------------------------
(* What stands behind the receipts                                         *)

VeBacked ==
  /\ \A r \in Vaults :
       /\ Live(r) <=> attached_NFTID[r] # NoNFT
       /\ Live(r) => nftOwner[attached_NFTID[r]] = r
  /\ \A n \in NFTs : nftOwner[n] \in Vaults => attached_NFTID[nftOwner[n]] = n

TaxBacked ==
  /\ tokenID \in 0 .. MaxTaxReceipts
  /\ taxOwner \in [TaxReceipts -> Holders \cup {Nobody}]
  /\ tokenAmountPerID \in [TaxReceipts -> Nat]
  /\ taxBalance \in Nat
  /\ \A i \in TaxReceipts : i > tokenID => taxOwner[i] = Nobody
  /\ taxBalance >= SumFunctionOnSet(tokenAmountPerID, TaxInCirculation)

LEMMA BackedParts == BackedInv <=> ManagementInv /\ VeBacked /\ TaxBacked
BY DEF BackedInv, VeBacked, TaxBacked, ReceiptsBacked

LEMMA InitBacked ==
  ASSUME Init PROVE BackedInv
<1>1. VeBacked
  BY ReceiptsAssumption DEF Init, VeBacked, Live, NFTs, NoNFT
<1>2. TaxInCirculation = {}
  BY DEF Init, TaxInCirculation
<1>3. TaxBacked
  BY <1>2, SumEmpty, ReceiptsAssumption DEF Init, TaxBacked
<1>. QED
  BY <1>1, <1>3, InitManagement, BackedParts

(* A new vault gets a veNFT that no vault held.                            *)
LEMMA DepositBacked ==
  ASSUME ManagementInv, VeBacked, NEW u \in Users, NEW n \in NFTs, deposit(u, n)
  PROVE  VeBacked'
<1>. DEFINE r == s_ReceiptID + 1
<1>1. /\ r \in Vaults /\ nftOwner[n] = u /\ r > s_ReceiptID
      /\ nftOwner' = [nftOwner EXCEPT ![n] = r]
      /\ attached_NFTID' = [attached_NFTID EXCEPT ![r] = n]
      /\ receiptOwner' = [receiptOwner EXCEPT ![r] = u]
  BY ReceiptsAssumption DEF deposit, ManagementInv
<1>. HIDE DEF r
<1>2. /\ nftOwner \in [NFTs -> Users \cup Vaults]
      /\ receiptOwner \in [Vaults -> Holders \cup {Nobody}]
      /\ attached_NFTID \in [Vaults -> NFTs \cup {NoNFT}]
      /\ n # NoNFT /\ u # Nobody /\ u \notin Vaults
      /\ NoNFT \notin NFTs
  BY OrderIndexAssumption, ReceiptsAssumption DEF ManagementInv, NFTs, NoNFT, Holders
<1>3. attached_NFTID[r] = NoNFT
  BY <1>1 DEF ManagementInv
<1>4. \A v \in Vaults : attached_NFTID[v] # n
  BY <1>1, <1>2 DEF ManagementInv
<1>5. ASSUME NEW v \in Vaults
      PROVE  /\ Live(v)' <=> attached_NFTID'[v] # NoNFT
             /\ Live(v)' => nftOwner'[attached_NFTID'[v]] = v
  <2>1. CASE v = r
    BY <1>1, <1>2, <2>1 DEF Live
  <2>2. CASE v # r
    <3>1. receiptOwner'[v] = receiptOwner[v] /\ attached_NFTID'[v] = attached_NFTID[v]
      BY <1>1, <1>2, <2>2
    <3>2. attached_NFTID[v] # NoNFT => nftOwner'[attached_NFTID[v]] = nftOwner[attached_NFTID[v]]
      BY <1>1, <1>2, <1>4
    <3>. QED
      BY <3>1, <3>2 DEF VeBacked, Live
  <2>. QED
    BY <2>1, <2>2
<1>6. ASSUME NEW m \in NFTs, nftOwner'[m] \in Vaults
      PROVE  attached_NFTID'[nftOwner'[m]] = m
  <2>1. CASE m = n
    BY <1>1, <1>2, <2>1
  <2>2. CASE m # n
    <3>1. nftOwner'[m] = nftOwner[m] /\ attached_NFTID[nftOwner[m]] = m
      BY <1>1, <1>2, <1>6, <2>2 DEF VeBacked
    <3>2. nftOwner[m] # r
      BY <1>2, <1>3, <3>1
    <3>. QED
      BY <1>1, <1>2, <1>6, <3>1, <3>2
  <2>. QED
    BY <2>1, <2>2
<1>. QED
  BY <1>5, <1>6 DEF VeBacked

(* The holder gets the veNFT, and receipt and vault are empty.             *)
LEMMA WithdrawBacked ==
  ASSUME ManagementInv, VeBacked, NEW u \in Users, NEW r \in Vaults, withdraw(u, r)
  PROVE  VeBacked'
<1>0. PICK n : n = attached_NFTID[r]
  OBVIOUS
<1>1. /\ n # NoNFT
      /\ attached_NFTID' = [attached_NFTID EXCEPT ![r] = NoNFT]
      /\ receiptOwner' = [receiptOwner EXCEPT ![r] = Nobody]
      /\ nftOwner' = [nftOwner EXCEPT ![n] = u]
  BY <1>0 DEF withdraw, BurnReceipt
<1>2. /\ nftOwner \in [NFTs -> Users \cup Vaults]
      /\ receiptOwner \in [Vaults -> Holders \cup {Nobody}]
      /\ attached_NFTID \in [Vaults -> NFTs \cup {NoNFT}]
      /\ n \in NFTs /\ u \notin Vaults
  BY <1>0, <1>1, ReceiptsAssumption DEF ManagementInv
<1>3. \A v \in Vaults : v # r => attached_NFTID[v] # n
  BY <1>0, <1>1, OneVault
<1>4. ASSUME NEW v \in Vaults
      PROVE  /\ Live(v)' <=> attached_NFTID'[v] # NoNFT
             /\ Live(v)' => nftOwner'[attached_NFTID'[v]] = v
  <2>1. CASE v = r
    BY <1>1, <1>2, <2>1 DEF Live
  <2>2. CASE v # r
    <3>1. receiptOwner'[v] = receiptOwner[v] /\ attached_NFTID'[v] = attached_NFTID[v]
      BY <1>1, <1>2, <2>2
    <3>2. attached_NFTID[v] # NoNFT => nftOwner'[attached_NFTID[v]] = nftOwner[attached_NFTID[v]]
      BY <1>1, <1>2, <1>3, <2>2
    <3>. QED
      BY <3>1, <3>2 DEF VeBacked, Live
  <2>. QED
    BY <2>1, <2>2
<1>5. ASSUME NEW m \in NFTs, nftOwner'[m] \in Vaults
      PROVE  attached_NFTID'[nftOwner'[m]] = m
  <2>1. m # n
    BY <1>1, <1>2, <1>5
  <2>2. nftOwner'[m] = nftOwner[m] /\ attached_NFTID[nftOwner[m]] = m
    BY <1>1, <1>2, <1>5, <2>1 DEF VeBacked
  <2>3. nftOwner[m] # r
    BY <1>0, <2>1, <2>2
  <2>. QED
    BY <1>1, <1>2, <1>5, <2>2, <2>3
<1>. QED
  BY <1>4, <1>5 DEF VeBacked

(* Nobody is not among those a receipt is passed on by or to.              *)
LEMMA NobodyPassesOn == Receivers(Nobody) = {}
BY ReceiptsAssumption DEF Receivers, Holders, Debita, Markets

(* A receipt that is passed on stays in circulation.                       *)
LEMMA TransferBacked ==
  ASSUME ManagementInv, VeBacked, NEW r \in Vaults, NEW to \in Holders, transferReceipt(r, to)
  PROVE  VeBacked'
<1>1. /\ receiptOwner[r] # Nobody /\ to # Nobody
      /\ receiptOwner' = [receiptOwner EXCEPT ![r] = to]
      /\ UNCHANGED <<nftOwner, attached_NFTID>>
  BY NobodyPassesOn, ReceiptsAssumption DEF transferReceipt
<1>2. \A v \in Vaults : Live(v)' <=> Live(v)
  BY <1>1 DEF Live, ManagementInv
<1>. QED
  BY <1>1, <1>2 DEF VeBacked

LEMMA TaxReceiptsFinite ==
  TaxBacked => IsFiniteSet(TaxInCirculation) /\ TaxInCirculation \subseteq TaxReceipts
<1>1. IsFiniteSet(TaxReceipts)
  BY FS_Interval, ReceiptsAssumption DEF TaxReceipts
<1>. QED
  BY <1>1, FS_Subset DEF TaxInCirculation

(* A deposit adds a receipt for no more than what arrives.                 *)
LEMMA DepositTaxBacked ==
  ASSUME TaxBacked, NEW u \in Users, NEW amount \in Amounts, NEW tax \in Taxes,
         depositTax(u, amount, tax)
  PROVE  TaxBacked'
<1>. DEFINE i == tokenID + 1
            C == TaxInCirculation
<1>1. /\ i \in TaxReceipts /\ tax <= amount /\ amount - tax >= amount /\ i > tokenID
      /\ tokenID' = i
      /\ taxBalance' = taxBalance + amount - tax
      /\ tokenAmountPerID' = [tokenAmountPerID EXCEPT ![i] = amount]
      /\ taxOwner' = [taxOwner EXCEPT ![i] = u]
  BY DEF depositTax, Arrived, TaxBacked
<1>2. amount \in Nat /\ tax \in Nat /\ u \in Holders /\ u # Nobody
  BY ReceiptsAssumption DEF Holders
<1>3. i \notin C /\ TaxInCirculation' = C \cup {i}
  <2>1. taxOwner[i] = Nobody
    BY <1>1 DEF TaxBacked
  <2>. HIDE DEF i
  <2>. QED
    BY <1>1, <1>2, <2>1 DEF TaxInCirculation, TaxBacked
<1>4. IsFiniteSet(C) /\ C \subseteq TaxReceipts
  BY TaxReceiptsFinite
<1>5. /\ tokenID' \in 0 .. MaxTaxReceipts
      /\ \A j \in TaxReceipts : j > tokenID' => taxOwner'[j] = Nobody
  <2>1. i \in 0 .. MaxTaxReceipts
    BY <1>1, ReceiptsAssumption DEF TaxReceipts
  <2>2. ASSUME NEW j \in TaxReceipts, j > i PROVE taxOwner'[j] = Nobody
    <3>1. j # i /\ j > tokenID
      BY <2>2 DEF TaxReceipts, TaxBacked
    <3>. QED
      BY <1>1, <3>1 DEF TaxBacked
  <2>. QED
    BY <1>1, <2>1, <2>2
<1>. HIDE DEF i, C
<1>6. /\ taxOwner' \in [TaxReceipts -> Holders \cup {Nobody}]
      /\ tokenAmountPerID' \in [TaxReceipts -> Nat]
      /\ taxBalance' \in Nat /\ taxBalance' = taxBalance + amount
  BY <1>1, <1>2 DEF TaxBacked
<1>7. tokenAmountPerID'[i] = amount /\ \A j \in C : tokenAmountPerID'[j] = tokenAmountPerID[j]
  BY <1>1, <1>3, <1>4 DEF TaxBacked
<1>8. SumFunctionOnSet(tokenAmountPerID', C) = SumFunctionOnSet(tokenAmountPerID, C)
  BY <1>4, <1>7, SumSame
<1>9. SumFunctionOnSet(tokenAmountPerID', C \cup {i})
        = amount + SumFunctionOnSet(tokenAmountPerID', C)
  <2>1. \A j \in C \cup {i} : tokenAmountPerID'[j] \in Int
    BY <1>1, <1>4, <1>6
  <2>. QED
    BY <1>3, <1>4, <1>7, <2>1, SumAdd
<1>10. SumFunctionOnSet(tokenAmountPerID, C) \in Nat
  <2>1. \A j \in C : tokenAmountPerID[j] \in Nat
    BY <1>4 DEF TaxBacked
  <2>. QED
    BY <1>4, <2>1, SumNat
<1>11. taxBalance \in Nat /\ taxBalance >= SumFunctionOnSet(tokenAmountPerID, C)
  BY DEF TaxBacked, C
<1>12. taxBalance' >= SumFunctionOnSet(tokenAmountPerID', TaxInCirculation')
  BY <1>2, <1>3, <1>6, <1>8, <1>9, <1>10, <1>11
<1>. QED
  BY <1>5, <1>6, <1>12 DEF TaxBacked

(* A withdrawal takes no more than the receipt it burns.                   *)
LEMMA WithdrawTaxBacked ==
  ASSUME TaxBacked, NEW u \in Users, NEW i \in TaxReceipts, withdrawTax(u, i)
  PROVE  TaxBacked'
<1>. DEFINE C == TaxInCirculation
            D == C \ {i}
            amount == tokenAmountPerID[i]
<1>1. /\ taxOwner[i] = u /\ taxBalance >= amount
      /\ tokenAmountPerID' = [tokenAmountPerID EXCEPT ![i] = 0]
      /\ taxOwner' = [taxOwner EXCEPT ![i] = Nobody]
      /\ taxBalance' = taxBalance - amount
      /\ tokenID' = tokenID
  BY DEF withdrawTax
<1>2. u # Nobody /\ amount \in Nat
  BY ReceiptsAssumption DEF Holders, TaxBacked
<1>3. i \in C /\ TaxInCirculation' = D
  BY <1>1, <1>2 DEF TaxInCirculation, TaxBacked
<1>4. IsFiniteSet(C) /\ C \subseteq TaxReceipts /\ IsFiniteSet(D) /\ D \subseteq C
  BY TaxReceiptsFinite, FS_Subset
<1>5. /\ taxOwner' \in [TaxReceipts -> Holders \cup {Nobody}]
      /\ tokenAmountPerID' \in [TaxReceipts -> Nat]
      /\ taxBalance' \in Nat
      /\ \A j \in TaxReceipts : j > tokenID' => taxOwner'[j] = Nobody
  BY <1>1, <1>2 DEF TaxBacked
<1>6. \A j \in D : tokenAmountPerID'[j] = tokenAmountPerID[j]
  BY <1>1, <1>4 DEF TaxBacked
<1>7. \A j \in C : tokenAmountPerID[j] \in Nat
  BY <1>4 DEF TaxBacked
<1>8. taxBalance \in Nat /\ taxBalance >= SumFunctionOnSet(tokenAmountPerID, C)
  BY DEF TaxBacked
<1>9. SumFunctionOnSet(tokenAmountPerID, C) = amount + SumFunctionOnSet(tokenAmountPerID, D)
  BY <1>3, <1>4, <1>7, SumRemove
<1>. HIDE DEF C, D, amount
<1>10. SumFunctionOnSet(tokenAmountPerID', D) = SumFunctionOnSet(tokenAmountPerID, D)
  BY <1>4, <1>6, SumSame
<1>11. SumFunctionOnSet(tokenAmountPerID, D) \in Nat
  BY <1>4, <1>7, SumNat
<1>12. taxBalance' >= SumFunctionOnSet(tokenAmountPerID', TaxInCirculation')
  BY <1>1, <1>2, <1>3, <1>8, <1>9, <1>10, <1>11
<1>. QED
  BY <1>1, <1>5, <1>12 DEF TaxBacked

LEMMA TransferTaxBacked ==
  ASSUME TaxBacked, NEW i \in TaxReceipts, NEW to \in Holders, transferTax(i, to)
  PROVE  TaxBacked'
<1>1. /\ taxOwner[i] # Nobody /\ to # Nobody
      /\ taxOwner' = [taxOwner EXCEPT ![i] = to]
      /\ UNCHANGED <<tokenID, tokenAmountPerID, taxBalance>>
  BY NobodyPassesOn, ReceiptsAssumption DEF transferTax
<1>2. TaxInCirculation' = TaxInCirculation
  BY <1>1 DEF TaxInCirculation, TaxBacked
<1>. QED
  BY <1>1, <1>2 DEF TaxBacked

(* The veNFTs and the taxed tokens have nothing to do with each other.     *)
LEMMA VeKept == VeBacked /\ UNCHANGED veVars => VeBacked'
BY DEF VeBacked, veVars, Live

LEMMA TaxKept == TaxBacked /\ UNCHANGED taxVars => TaxBacked'
BY DEF TaxBacked, taxVars, TaxInCirculation

LEMMA NextBacked ==
  ASSUME BackedInv, [Next]_vars PROVE BackedInv'
<1>0. ManagementInv /\ VeBacked /\ TaxBacked
  BY BackedParts
<1>1. ManagementInv'
  BY <1>0, NextManagement
<1>2. VeBacked' /\ TaxBacked'
  <2>1. CASE \E u \in Users, n \in NFTs : deposit(u, n)
    BY <1>0, <2>1, DepositBacked, TaxKept DEF deposit
  <2>2. CASE \E u \in Users, r \in Vaults : withdraw(u, r)
    <3>1. UNCHANGED taxVars
      BY <2>2 DEF withdraw
    <3>. QED
      BY <1>0, <2>2, <3>1, WithdrawBacked, TaxKept
  <2>3. CASE \E u \in Users, r \in Vaults, m \in Users : changeManager(u, r, m)
    <3>1. UNCHANGED <<nftOwner, receiptOwner, attached_NFTID, taxVars>>
      BY <2>3 DEF changeManager
    <3>. QED
      BY <1>0, <3>1, TaxKept DEF VeBacked, Live
  <2>4. CASE \E r \in Vaults, to \in Holders : transferReceipt(r, to)
    <3>1. UNCHANGED taxVars
      BY <2>4 DEF transferReceipt
    <3>. QED
      BY <1>0, <2>4, <3>1, TransferBacked, TaxKept
  <2>5. CASE \E u \in Users, amount \in Amounts, tax \in Taxes : depositTax(u, amount, tax)
    BY <1>0, <2>5, DepositTaxBacked, VeKept DEF depositTax
  <2>6. CASE \E u \in Users, i \in TaxReceipts : withdrawTax(u, i)
    <3>1. UNCHANGED veVars
      BY <2>6 DEF withdrawTax
    <3>. QED
      BY <1>0, <2>6, <3>1, WithdrawTaxBacked, VeKept
  <2>7. CASE \E i \in TaxReceipts, to \in Holders : transferTax(i, to)
    <3>1. UNCHANGED veVars
      BY <2>7 DEF transferTax
    <3>. QED
      BY <1>0, <2>7, <3>1, TransferTaxBacked, VeKept
  <2>8. CASE UNCHANGED vars
    BY <1>0, <2>8, VeKept, TaxKept DEF vars
  <2>. QED
    BY <2>1, <2>2, <2>3, <2>4, <2>5, <2>6, <2>7, <2>8 DEF Next
<1>3. ManagementInv' /\ VeBacked' /\ TaxBacked' => BackedInv'
  BY BackedParts, PTL
<1>. QED
  BY <1>1, <1>2, <1>3

LEMMA BackedInvariant == Spec => []BackedInv
BY InitBacked, NextBacked, PTL DEF Spec

(* ReceiptsBacked: a receipt in circulation stands for just one veNFT in   *)
(* its own vault, no vault holds a veNFT without a receipt, and the tax    *)
(* token receipts in circulation are covered all at once.                  *)
THEOREM AlwaysBacked == Spec => []ReceiptsBacked
<1>1. BackedInv => ReceiptsBacked
  BY DEF BackedInv
<1>. QED
  BY BackedInvariant, <1>1, PTL

(* What AlwaysRedeemable rests on: for a wallet that holds a receipt the   *)
(* checks of withdraw hold in every state, whatever managers and others    *)
(* have done: the vault has its veNFT, the list it is deleted from is not  *)
(* empty, and the tokens behind a tax token receipt are there.             *)
RedemptionUnhindered ==
  /\ \A r \in Vaults :
       receiptOwner[r] \in Users =>
         /\ attached_NFTID[r] # NoNFT
         /\ managerAddress[r] \in Users
         /\ Deletable(managed[managerAddress[r]])
  /\ \A i \in TaxReceipts : taxOwner[i] \in Users => taxBalance >= tokenAmountPerID[i]

THEOREM NothingHindersRedemption == Spec => []RedemptionUnhindered
<1>1. ASSUME BackedInv PROVE RedemptionUnhindered
  <2>. USE BackedParts
  <2>1. ASSUME NEW r \in Vaults, receiptOwner[r] \in Users
        PROVE  /\ attached_NFTID[r] # NoNFT
               /\ managerAddress[r] \in Users
               /\ Deletable(managed[managerAddress[r]])
    <3>. DEFINE m == managerAddress[r]
                n == attached_NFTID[r]
    <3>1. n # NoNFT
      BY <1>1, <2>1, ReceiptsAssumption DEF VeBacked, Live, Holders
    <3>2. m \in Users /\ n \in Orders
      BY <1>1, <3>1 DEF ManagementInv, NFTs
    <3>3. n \in ManagedBy(m)
      BY <3>1 DEF ManagedBy
    <3>4. managed[m] \in Indexes /\ Exact(managed[m]) /\ n \in Listed(managed[m])
      BY <1>1, <3>2, <3>3 DEF ManagementInv, ManagementExact
    <3>5. Deletable(managed[m])
      BY <3>2, <3>4, DeleteManagedExact
    <3>. QED
      BY <3>1, <3>2, <3>5
  <2>2. ASSUME NEW i \in TaxReceipts, taxOwner[i] \in Users
        PROVE  taxBalance >= tokenAmountPerID[i]
    <3>. DEFINE C == TaxInCirculation
                sum == SumFunctionOnSet(tokenAmountPerID, C)
                rest == SumFunctionOnSet(tokenAmountPerID, C \ {i})
    <3>1. IsFiniteSet(C) /\ C \subseteq TaxReceipts /\ i \in C /\ IsFiniteSet(C \ {i})
      BY <1>1, <2>2, TaxReceiptsFinite, FS_Subset, ReceiptsAssumption DEF TaxInCirculation, Holders
    <3>. HIDE DEF C
    <3>2. \A j \in C : tokenAmountPerID[j] \in Nat
      BY <1>1, <3>1 DEF TaxBacked
    <3>3. sum = tokenAmountPerID[i] + rest /\ rest \in Nat
      BY <3>1, <3>2, SumRemove, SumNat
    <3>4. taxBalance \in Nat /\ taxBalance >= sum
      BY <1>1 DEF TaxBacked, C
    <3>. QED
      BY <3>1, <3>2, <3>3, <3>4
  <2>. QED
    BY <2>1, <2>2 DEF RedemptionUnhindered
<1>. QED
  BY BackedInvariant, <1>1, PTL
=============================================================================
