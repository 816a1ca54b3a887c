--------------------------- MODULE MCCreatorVault ---------------------------
(* The vault on its own: two SY holders, two keys for the admin role, and    *)
(* the splitter free to mint and to draw fees at any time.                  *)
EXTENDS CreatorVault, TLC

CONSTANTS u1, u2, creator, k1, k2, d1

MCUsers == {u1, u2}
MCMints == {"sy"}
MCAdmins == {k1, k2}
MCDelegates == {d1}
MCAmounts == 1..2
MCFeeBps == {0, 5000}
MCRewardBps == {10000}
MCExpiries == 0..3
MCSymmetry == Permutations(MCAdmins) \cup Permutations(MCUsers)
=============================================================================
