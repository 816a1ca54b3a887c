----------------------------- MODULE MCSplitter -----------------------------
(* One market over one vault with two holders.  The lock, the sweeper and   *)
(* the reward split, which the splitter never reads, are left at rest: see  *)
(* MCCreatorVault for those.                                                *)
EXTENDS Splitter, TLC

CONSTANTS u1, u2, creator, k1

MCUsers == {u1, u2}
MCMints == {"sy", "pt", "yt"}
MCAdmins == {k1}
MCAmounts == {1}
MCMaturities == {2}
MCNone == {}
MCSymmetry == Permutations(MCUsers)
=============================================================================
