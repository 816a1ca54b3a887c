--------------------------- MODULE MCRewardsVault ---------------------------
EXTENDS RewardsVault, TLC

CONSTANTS u1, u2, k1

MCUsers == {u1, u2}
MCKeys == {k1}
MCAmounts == 1..2
MCLamports == 1..2
MCOpIds == 1..3
MCRewardBps == {0}
MCSymmetry == Permutations(MCUsers)
=============================================================================
