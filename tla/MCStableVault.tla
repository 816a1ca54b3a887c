---------------------------- MODULE MCStableVault ---------------------------
(* Two instances.  MCStableVault.cfg: two wallets, no SOL, for the share     *)
(* arithmetic.  MCStableSweep.cfg: one wallet and a keeper that sweeps and   *)
(* converts into a pool that its funder also funds directly.                *)
EXTENDS StableVault, TLC

CONSTANTS u1, u2, k1, usdc, usdt

MCOneUser == {u1}
MCTwoUsers == {u1, u2}
MCKeys == {k1}
MCNone == {}
MCOne == {1}
MCTwo == 1..2
MCPair == {2}
MCThree == 1..3
MCRewardBps == {0}
MCStableMints == {usdc, usdt}
MCOneMint == {usdc}
MCNoSplit == {0}
MCSolSplits == {0, 5000}
MCSymmetry == Permutations(MCTwoUsers)
=============================================================================
