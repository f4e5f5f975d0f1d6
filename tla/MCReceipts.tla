----------------------------- MODULE MCReceipts -----------------------------
(***************************************************************************)
(* Two wallets that deposit two veNFTs, one of them twice, and two amounts *)
(* of a taxed token, and pass the receipts through an order, a loan and an *)
(* auction, or lose them to a contract that keeps them.                    *)
(***************************************************************************)
EXTENDS Receipts, TLC

CONSTANTS alice, bob, order, loan, stranger, auction, n1, n2

MCUsers == {alice, bob}
MCBorrowOrders == {order}
MCLoans == {loan}
MCStrangers == {stranger}
MCAuctions == {auction}
MCNFTs == {n1, n2}
MCAmounts == {5, 8}
MCTaxes == {0, 1}

(* Wallets and veNFTs are interchangeable.                                 *)
MCSymmetry == Permutations(MCUsers) \cup Permutations(MCNFTs)
=============================================================================
