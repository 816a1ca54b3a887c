---------------------------- MODULE StableVault ----------------------------
(***************************************************************************)
(* The stable_vault program composed with the rewards_vault it funds:      *)
(* attnUSD shares over a treasury of one stablecoin, a keeper that sweeps  *)
(* creator fees (part to the rewards pool by a cross-program call, part to *)
(* the SOL vault) and converts SOL into stablecoin, each under operation   *)
(* ids.  The creator vault is read only: its pause and its reward split.   *)
(***************************************************************************)
EXTENDS RewardsVault

CONSTANTS
    StableMints,         \* stablecoin mints
    StableMint,          \* the vault's primary mint, its treasury's mint
    MAX_ACCEPTED_MINTS,
    NoKey,               \* no emergency admin is set
    SolSplits            \* reward splits the creator vault can carry

ASSUME StableAssumption ==
    /\ StableMint \in StableMints /\ IsFiniteSet(StableMints)
    /\ MAX_ACCEPTED_MINTS \in Nat \ {0}
    /\ SolSplits \subseteq 0..TotalBps /\ 0 \in SolSplits
    /\ NoKey \notin Keys
    /\ InitialAttn = 0   \* the vault alone mints attnUSD, and it starts empty

VARIABLES
    admin, keeper_authority, emergency_admin, paused, accepted_mints,
    total_assets, total_shares,
    pending_sol, last_sweep_id, last_conversion_id,
    treasury,         \* stablecoins in the treasury account
    share_supply,     \* supply of the attnUSD mint
    sol_vault,        \* lamports of the SOL vault PDA, rent included
    creator_paused, sol_rewards_bps    \* read from the creator vault

stableRoleVars == <<admin, keeper_authority, emergency_admin, paused,
                    accepted_mints>>
navVars        == <<total_assets, total_shares, treasury, share_supply>>
solVars        == <<pending_sol, sol_vault>>
idVars         == <<last_sweep_id, last_conversion_id>>
creatorVars    == <<creator_paused, sol_rewards_bps>>
stableVars     == <<stableRoleVars, navVars, solVars, idVars, creatorVars>>
allVars        == <<rewardsVars, stableVars>>

\* All of rewardsVars but attn, the shares that wallets hold.
poolVars == <<configVars, indexVars, stakeVars, treasuryVars, attn_vault,
              s_attn, last_fund_id>>

StableInit ==
    /\ RewardsInit
    /\ admin \in Keys
    /\ keeper_authority \in Keys
    /\ emergency_admin = NoKey
    /\ paused = FALSE
    /\ accepted_mints \in {M \in SUBSET StableMints :
                             /\ StableMint \in M
                             /\ Cardinality(M) <= MAX_ACCEPTED_MINTS}
    /\ total_assets = 0 /\ total_shares = 0
    /\ pending_sol = 0
    /\ last_sweep_id = 0 /\ last_conversion_id = 0
    /\ treasury = 0 /\ share_supply = 0
    /\ sol_vault = Rent
    /\ creator_paused = FALSE /\ sol_rewards_bps = 0

-----------------------------------------------------------------------------
(* Shares.                                                                 *)

\* Mutant: shares are rounded up.
PreviewDepositUp(amount) ==
    IF total_shares = 0 \/ total_assets = 0 THEN amount
    ELSE (amount * total_shares + total_assets - 1) \div total_assets

\* preview_deposit and preview_redeem; 0 stands for AmountTooSmall.
PreviewDeposit(amount) ==
    IF total_shares = 0 \/ total_assets = 0 THEN amount
    ELSE (amount * total_shares) \div total_assets

\* Mutant: the division comes before the product.
PreviewRedeemDividesFirst(shares) ==
    (shares \div total_shares) * total_assets

PreviewRedeem(shares) ==
    IF shares = total_shares THEN total_assets
    ELSE (shares * total_assets) \div total_shares

\* The account constraints (has_one = stable_mint) admit only the primary mint.
DepositStable(u, m, amount) ==
    LET shares == PreviewDeposit(amount)
    IN  /\ ~paused
        /\ m = StableMint
        /\ m \in accepted_mints
        /\ shares > 0
        /\ treasury + amount <= U64Max
        /\ share_supply + shares <= U64Max
        /\ total_assets + amount <= U64Max
        /\ total_shares + shares <= U64Max
        /\ treasury' = treasury + amount
        /\ share_supply' = share_supply + shares
        /\ attn' = [attn EXCEPT ![u] = @ + shares]
        /\ total_assets' = total_assets + amount
        /\ total_shares' = total_shares + shares
        /\ UNCHANGED <<poolVars, stableRoleVars, solVars, idVars, creatorVars>>

\* All that redeem_attnusd checks, the token program's checks included.
RedeemAccepted(u, shares) ==
    LET assets == PreviewRedeem(shares)
    IN  /\ ~paused
        /\ total_shares >= shares
        /\ assets > 0 \/ shares = total_shares
        /\ attn[u] >= shares
        /\ share_supply >= shares
        /\ treasury >= assets
        /\ total_assets >= assets

RedeemAttnUsd(u, shares) ==
    LET assets == PreviewRedeem(shares)
    IN  /\ RedeemAccepted(u, shares)
        /\ attn' = [attn EXCEPT ![u] = @ - shares]
        /\ share_supply' = share_supply - shares
        /\ treasury' = treasury - assets
        /\ total_assets' = total_assets - assets
        /\ total_shares' = total_shares - shares
        /\ UNCHANGED <<poolVars, stableRoleVars, solVars, idVars, creatorVars>>

-----------------------------------------------------------------------------
(* The keeper.  Its last operation id again is Ok and changes nothing.     *)

RewardsPart(amount) == (amount * sol_rewards_bps) \div TotalBps

\* Mutant: the lamports are queued and never transferred.
QueueSolUnfunded(amount) ==
    /\ pending_sol + amount <= U64Max
    /\ pending_sol' = pending_sol + amount
    /\ UNCHANGED sol_vault

QueueSol(amount) ==
    /\ pending_sol + amount <= U64Max
    /\ sol_vault' = sol_vault + amount
    /\ pending_sol' = pending_sol + amount

\* The rewards part is funded under the sweep's own operation id; the event
\* reports it whether the pool took the money or saw a repeated id.
SweepCreatorFees(amount, id) ==
    LET rewards_amount == RewardsPart(amount)
        stable_amount == amount - rewards_amount
    IN  /\ ~paused
        /\ id > last_sweep_id
        /\ ~creator_paused
        /\ \/ /\ rewards_amount = 0
              /\ UNCHANGED rewardsVars
           \/ /\ rewards_amount > 0
              /\ FundNew(rewards_amount, id) \/ FundDuplicate(id)
        /\ QueueSol(stable_amount)
        /\ last_sweep_id' = id
        /\ UNCHANGED <<stableRoleVars, navVars, last_conversion_id, creatorVars>>

\* Mutant: the last queued lamport cannot be spent.
SolSpendableStrictly(sol_spent) ==
    /\ sol_spent < pending_sol
    /\ sol_vault >= sol_spent
    /\ SolTransferable(sol_vault, sol_spent)

SolSpendable(sol_spent) ==
    /\ sol_spent <= pending_sol
    /\ sol_vault >= sol_spent
    /\ SolTransferable(sol_vault, sol_spent)

\* All that process_conversion checks, for the lamports it spends.
ConversionAccepted(amount_stable, sol_spent, id) ==
    /\ ~paused
    /\ id > last_conversion_id
    /\ StableMint \in accepted_mints
    /\ SolSpendable(sol_spent)
    /\ treasury + amount_stable <= U64Max
    /\ total_assets + amount_stable <= U64Max

ProcessConversion(amount_stable, sol_spent, id) ==
    /\ ConversionAccepted(amount_stable, sol_spent, id)
    /\ sol_vault' = sol_vault - sol_spent
    /\ pending_sol' = pending_sol - sol_spent
    /\ treasury' = treasury + amount_stable
    /\ total_assets' = total_assets + amount_stable
    /\ last_conversion_id' = id
    /\ UNCHANGED <<rewardsVars, stableRoleVars, total_shares, share_supply,
                   last_sweep_id, creatorVars>>

-----------------------------------------------------------------------------
(* Administration.                                                         *)

IsAdmin(k) == k = admin
IsAdminOrEmergency(k) == k = admin \/ k = emergency_admin

UpdateAdmin(signer, k) ==
    /\ IsAdmin(signer)
    /\ admin' = k
    /\ UNCHANGED <<rewardsVars, keeper_authority, emergency_admin, paused,
                   accepted_mints, navVars, solVars, idVars, creatorVars>>

UpdateKeeperAuthority(signer, k) ==
    /\ IsAdminOrEmergency(signer)
    /\ keeper_authority' = k
    /\ UNCHANGED <<rewardsVars, admin, emergency_admin, paused, accepted_mints,
                   navVars, solVars, idVars, creatorVars>>

UpdateEmergencyAdmin(signer, k) ==
    /\ IsAdmin(signer)
    /\ emergency_admin' = k
    /\ UNCHANGED <<rewardsVars, admin, keeper_authority, paused, accepted_mints,
                   navVars, solVars, idVars, creatorVars>>

\* The emergency admin can pause but not resume.
SetStablePause(signer, p) ==
    /\ IF p THEN IsAdminOrEmergency(signer) ELSE IsAdmin(signer)
    /\ paused' = p
    /\ UNCHANGED <<rewardsVars, admin, keeper_authority, emergency_admin,
                   accepted_mints, navVars, solVars, idVars, creatorVars>>

ManageAcceptedMint(signer, mints) ==
    /\ IsAdminOrEmergency(signer)
    /\ accepted_mints' = mints
    /\ UNCHANGED <<rewardsVars, admin, keeper_authority, emergency_admin, paused,
                   navVars, solVars, idVars, creatorVars>>

AddAcceptedMint(signer, m) ==
    /\ m \notin accepted_mints
    /\ Cardinality(accepted_mints) < MAX_ACCEPTED_MINTS
    /\ ManageAcceptedMint(signer, accepted_mints \cup {m})

RemoveAcceptedMint(signer, m) ==
    /\ m \in accepted_mints
    /\ m # StableMint
    /\ ManageAcceptedMint(signer, accepted_mints \ {m})

\* withdraw_sol_dust debits the SOL vault's lamports directly, which the runtime
\* allows to the owner program of the account only; the account was created
\* with the system program as its owner.  Never enabled, hence not in
\* StableNext.
SolVaultOwner == "system_program"

WithdrawSolDust(signer, amount) ==
    /\ IsAdminOrEmergency(signer)
    /\ sol_vault >= pending_sol + amount
    /\ SolVaultOwner = "stable_vault"
    /\ sol_vault' = sol_vault - amount
    /\ UNCHANGED <<rewardsVars, stableRoleVars, navVars, pending_sol, idVars,
                   creatorVars>>

-----------------------------------------------------------------------------
(* What happens outside the program.                                       *)

\* set_rewards_split and set_pause of the creator vault.
CreatorVaultChanges(p, bps) ==
    /\ creator_paused' = p
    /\ sol_rewards_bps' = bps
    /\ UNCHANGED <<rewardsVars, stableRoleVars, navVars, solVars, idVars>>

\* Plain transfers to the vault's accounts: not counted as assets.
SendToSolVault(amount) ==
    /\ sol_vault + amount <= MaxLamports
    /\ sol_vault' = sol_vault + amount
    /\ UNCHANGED <<rewardsVars, stableRoleVars, navVars, pending_sol, idVars,
                   creatorVars>>

SendToStableTreasury(amount) ==
    /\ treasury + amount <= U64Max
    /\ treasury' = treasury + amount
    /\ UNCHANGED <<rewardsVars, stableRoleVars, total_assets, total_shares,
                   share_supply, solVars, idVars, creatorVars>>

\* A holder burns attnUSD without redeeming it.
BurnShares(u, amount) ==
    /\ attn[u] >= amount
    /\ share_supply >= amount
    /\ attn' = [attn EXCEPT ![u] = @ - amount]
    /\ share_supply' = share_supply - amount
    /\ UNCHANGED <<poolVars, stableRoleVars, total_assets, total_shares,
                   treasury, solVars, idVars, creatorVars>>

-----------------------------------------------------------------------------
HolderStep ==
    \E u \in Users, a \in Amounts :
        \/ \E m \in StableMints : DepositStable(u, m, a)
        \/ RedeemAttnUsd(u, a)
        \/ BurnShares(u, a)

KeeperStep ==
    \E id \in OpIds :
        \/ \E a \in Lamports : SweepCreatorFees(a, id)
        \/ \E a \in Amounts, s \in Lamports \cup {0} :
              ProcessConversion(a, s, id)

RoleStep ==
    \E signer \in Keys :
        \/ \E k \in Keys : UpdateAdmin(signer, k)
                           \/ UpdateKeeperAuthority(signer, k)
        \/ \E k \in Keys \cup {NoKey} : UpdateEmergencyAdmin(signer, k)
        \/ \E p \in BOOLEAN : SetStablePause(signer, p)
        \/ \E m \in StableMints : AddAcceptedMint(signer, m)
                                  \/ RemoveAcceptedMint(signer, m)

EnvironmentStep ==
    \/ \E p \in BOOLEAN, bps \in SolSplits : CreatorVaultChanges(p, bps)
    \/ \E a \in Lamports : SendToSolVault(a)
    \/ \E a \in Amounts : SendToStableTreasury(a)

StableNext ==
    \/ HolderStep
    \/ KeeperStep
    \/ RoleStep
    \/ EnvironmentStep
    \/ RewardsNext /\ UNCHANGED stableVars

StableSpec == StableInit /\ [][StableNext]_allVars

-----------------------------------------------------------------------------
StableTypeOK ==
    /\ RewardsTypeOK
    /\ admin \in Keys /\ keeper_authority \in Keys
    /\ emergency_admin \in Keys \cup {NoKey}
    /\ paused \in BOOLEAN
    /\ StableMint \in accepted_mints /\ accepted_mints \subseteq StableMints
    /\ Cardinality(accepted_mints) <= MAX_ACCEPTED_MINTS
    /\ total_assets \in 0..U64Max /\ total_shares \in 0..U64Max
    /\ pending_sol \in 0..U64Max
    /\ last_sweep_id \in OpIds \cup {0}
    /\ last_conversion_id \in OpIds \cup {0}
    /\ treasury \in 0..U64Max /\ share_supply \in 0..U64Max
    /\ sol_vault \in Nat
    /\ creator_paused \in BOOLEAN
    /\ sol_rewards_bps \in SolSplits

\* A share is never worth less than one stablecoin unit, whatever the order of
\* deposits, redemptions, conversions and roundings.
ParFloor == total_assets >= total_shares

\* No step makes a share worth less: assets per share never fall while shares
\* are out, and rounding always favours those who stay.
NavNeverDiluted ==
    [][total_shares > 0 /\ total_shares' > 0
         => total_assets' * total_shares >= total_assets * total_shares']_allVars

\* Wherever the shares went (wallets, the staking vault, burned), their mint
\* never exceeds the vault's count, and the accounts hold what the vault
\* believes they hold, rent of the SOL vault excepted.
Custody ==
    /\ share_supply = SumFunction(attn) + attn_vault
    /\ share_supply <= total_shares
    /\ treasury >= total_assets
    /\ sol_vault >= Rent + pending_sol

\* Whoever holds shares can redeem any amount of them while the vault is not
\* paused: no rounding to zero and no empty treasury is in the way.
RedeemAlwaysPays ==
    \A u \in Users, a \in Amounts :
        ~paused /\ attn[u] >= a => RedeemAccepted(u, a)

\* The keeper can convert every lamport it has queued.
PendingSolSpendable ==
    \A id \in OpIds, a \in Amounts :
        /\ ~paused /\ id > last_conversion_id
        /\ treasury + a <= U64Max
        => ConversionAccepted(a, pending_sol, id)

\* A holder of shares is never worse off than at par and never locked in,
\* whatever the order of deposits, conversions, redemptions and burns.
HoldersWhole ==
    /\ StableTypeOK
    /\ ParFloor
    /\ RedeemAlwaysPays

\* Both programs' books against their accounts, while sweeps move SOL from one
\* to the other under operation ids they share with the pool's own funder.
BooksMatchAccounts ==
    /\ Custody
    /\ Solvency
=============================================================================
