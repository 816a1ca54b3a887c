-------------------------- MODULE MCSafeOnboarding --------------------------
(***************************************************************************)
(* SafeOnboarding with two wallets, one of which the creators' list gives  *)
(* a vault.                                                                *)
(***************************************************************************)
EXTENDS SafeOnboarding, TLC

CONSTANTS w1, w2

MCWallets == {w1, w2}
MCCreatorVault == (w1 :> "none") @@ (w2 :> "address")
Given(acts, moves, faults, legacyTour, status) ==
    [acts |-> acts, moves |-> moves, faults |-> faults,
     legacyTour |-> legacyTour, status |-> status]
MCScenarios ==
    {Given(4, 0, 0, FALSE, "failed"), Given(2, 0, 1, FALSE, "failed"),
     Given(1, 2, 0, FALSE, "failed"), Given(1, 2, 0, TRUE, "ready"),
     Given(0, 2, 1, FALSE, "ready")}
=============================================================================
