------------------------- MODULE MCDebitaIncentives -------------------------
(***************************************************************************)
(* Two users on both sides of loans in two principles, one of them also an *)
(* incentive token.  Epochs have 10 units of time: the last second of the  *)
(* first epoch and the first ones of the second and of the third occur.    *)
(* A bribe of 30000 is worth 3 for each basis point, so that a percentage  *)
(* rounded the wrong way is paid out of another bribe.                     *)
(***************************************************************************)
EXTENDS DebitaIncentives

CONSTANTS alice, bob, usdc, aero, usdt, weth

MCUsers == {alice, bob}
MCPrinciples == {usdc, aero}
MCCollaterals == {weth}
MCBribeTokens == {aero, usdt}
MCTimes == {109, 110, 120}
MCLoanAmounts == {1}
MCBribeAmounts == {30000}

(* The two users are interchangeable.                                      *)
MCSymmetry == Permutations(Users)
=============================================================================
