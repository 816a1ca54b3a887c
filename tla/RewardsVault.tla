---------------------------- MODULE RewardsVault ----------------------------
(***************************************************************************)
(* The rewards_vault program: attnUSD holders stake for sAttnUSD and earn  *)
(* SOL through an index (sol_per_share).  SOL that arrives while nobody    *)
(* stakes waits in pending_rewards and is folded into the index later.     *)
(* A funding call names an operation id: the last id again is a no-op that *)
(* still succeeds, a smaller one fails.                                    *)
(***************************************************************************)
EXTENDS Integers, Functions, FiniteSets

CONSTANTS
    Users,        \* staking wallets
    Keys,         \* keys for the pool's admin and allowed funder
    INDEX_SCALE,  \* fixed-point scale of sol_per_share
    Rent,         \* rent-exempt minimum of a system account
    U64Max,       \* largest u64: where checked_add fails
    MaxLamports,  \* bound on what strangers send to a SOL account
    Amounts,      \* token amounts named by instructions
    Lamports,     \* SOL amounts named by instructions and transfers
    OpIds,        \* operation ids named by funders and keepers
    RewardBps,    \* reward shares the pool's admin can record
    InitialAttn   \* attnUSD every wallet starts with

TotalBps == 10000

ASSUME RewardsAssumption ==
    /\ INDEX_SCALE \in Nat \ {0}
    /\ Rent \in Nat \ {0}
    /\ U64Max \in Nat \ {0}
    /\ MaxLamports \in Nat
    /\ Amounts \subseteq 1..U64Max /\ Lamports \subseteq 1..U64Max
    /\ OpIds \subseteq Nat
    /\ RewardBps \subseteq 0..TotalBps
    /\ InitialAttn \in Nat
    /\ Keys # {}
    /\ IsFiniteSet(Users)

VARIABLES
    pool_admin, allowed_funder, reward_bps, is_paused,
    total_staked, sol_per_share, pending_rewards,
    last_treasury_balance, last_fund_id,
    positions,      \* wallets whose stake-position PDA exists
    staked_amount, reward_debt,
    sol_treasury,   \* lamports of the treasury PDA, rent included
    attn_vault,     \* attnUSD held by the pool
    attn, s_attn,   \* tokens of each wallet
    settled_index,  \* history: the index when u's rewards were last settled
    unclaimed       \* history: lamports funded less lamports claimed

configVars   == <<pool_admin, allowed_funder, reward_bps, is_paused>>
indexVars    == <<total_staked, sol_per_share, pending_rewards>>
stakeVars    == <<positions, staked_amount, reward_debt, settled_index>>
treasuryVars == <<last_treasury_balance, sol_treasury, unclaimed>>
tokenVars    == <<attn_vault, attn, s_attn>>
rewardsVars  == <<configVars, indexVars, stakeVars, treasuryVars, tokenVars,
                  last_fund_id>>

\* The treasury PDA may have been sent lamports before the pool exists.
RewardsInit ==
    /\ pool_admin \in Keys
    /\ allowed_funder \in Keys
    /\ reward_bps \in RewardBps
    /\ is_paused = FALSE
    /\ total_staked = 0
    /\ sol_per_share = 0
    /\ pending_rewards = 0
    /\ last_fund_id = 0
    /\ positions = {}
    /\ staked_amount = [u \in Users |-> 0]
    /\ reward_debt = [u \in Users |-> 0]
    /\ sol_treasury \in {Rent} \cup {Rent + a : a \in Lamports}
    /\ last_treasury_balance = sol_treasury
    /\ attn_vault = 0
    /\ attn = [u \in Users |-> InitialAttn]
    /\ s_attn = [u \in Users |-> 0]
    /\ settled_index = [u \in Users |-> 0]
    /\ unclaimed = 0

-----------------------------------------------------------------------------
(* The index.                                                              *)

\* Mutant: the increment is rounded up.
IndexIncrementUp(amount) ==
    (amount * INDEX_SCALE + total_staked - 1) \div total_staked

IndexIncrement(amount) == (amount * INDEX_SCALE) \div total_staked

\* distribute_pending.
DistributedIndex ==
    IF total_staked > 0 THEN sol_per_share + IndexIncrement(pending_rewards)
                        ELSE sol_per_share

DistributedPending == IF total_staked > 0 THEN 0 ELSE pending_rewards

\* Mutant: the accrual is not scaled down.
PendingAmountScaled(u) ==
    LET accrued == staked_amount[u] * DistributedIndex
    IN  IF accrued <= reward_debt[u] THEN 0 ELSE accrued - reward_debt[u]

\* pending_amount compares unscaled accrual with scaled debt.
PendingAmount(u) ==
    LET accrued == (staked_amount[u] * DistributedIndex) \div INDEX_SCALE
    IN  IF accrued <= reward_debt[u] THEN 0 ELSE accrued - reward_debt[u]

\* The runtime refuses a transfer that leaves a balance between 0 and rent.
SolTransferable(balance, amount) ==
    amount > 0 => balance = amount \/ balance >= amount + Rent

\* settle_rewards, with the record of the treasury that each caller takes.
Settle(u) ==
    LET paid == PendingAmount(u)
    IN  /\ SolTransferable(sol_treasury, paid)
        /\ sol_per_share' = DistributedIndex
        /\ pending_rewards' = DistributedPending
        /\ sol_treasury' = sol_treasury - paid
        /\ last_treasury_balance' = sol_treasury'
        /\ unclaimed' = unclaimed - paid
        /\ settled_index' = [settled_index EXCEPT ![u] = DistributedIndex]

\* Mutant: the debt is computed before the stake changes.
SetStakeOldDebt(u, amount) ==
    /\ staked_amount' = [staked_amount EXCEPT ![u] = amount]
    /\ reward_debt' =
          [reward_debt EXCEPT ![u] = staked_amount[u] * DistributedIndex]

\* The position holds amount from now on, with nothing accrued.
SetStake(u, amount) ==
    /\ staked_amount' = [staked_amount EXCEPT ![u] = amount]
    /\ reward_debt' = [reward_debt EXCEPT ![u] = amount * DistributedIndex]

-----------------------------------------------------------------------------
\* Mutant: the total is read off the custody, where strangers' tokens lie too.
StakeAttnUsdByCustody(u, amount) ==
    /\ ~is_paused
    /\ attn[u] >= amount
    /\ attn_vault + amount <= U64Max
    /\ Settle(u)
    /\ positions' = positions \cup {u}
    /\ attn' = [attn EXCEPT ![u] = @ - amount]
    /\ attn_vault' = attn_vault + amount
    /\ s_attn' = [s_attn EXCEPT ![u] = @ + amount]
    /\ total_staked' = attn_vault'
    /\ SetStake(u, staked_amount[u] + amount)
    /\ UNCHANGED <<configVars, last_fund_id>>

StakeAttnUsd(u, amount) ==
    /\ ~is_paused
    /\ attn[u] >= amount
    /\ total_staked + amount <= U64Max
    /\ Settle(u)
    /\ positions' = positions \cup {u}
    /\ attn' = [attn EXCEPT ![u] = @ - amount]
    /\ attn_vault' = attn_vault + amount
    /\ s_attn' = [s_attn EXCEPT ![u] = @ + amount]
    /\ total_staked' = total_staked + amount
    /\ SetStake(u, staked_amount[u] + amount)
    /\ UNCHANGED <<configVars, last_fund_id>>

HasStaked(u, amount) == u \in positions /\ staked_amount[u] >= amount

\* All that unstake_attnusd checks, the runtime's check of the payout included.
UnstakeAccepted(u, amount) ==
    /\ ~is_paused
    /\ HasStaked(u, amount)
    /\ s_attn[u] >= amount
    /\ attn_vault >= amount
    /\ SolTransferable(sol_treasury, PendingAmount(u))

UnstakeAttnUsd(u, amount) ==
    /\ UnstakeAccepted(u, amount)
    /\ Settle(u)
    /\ s_attn' = [s_attn EXCEPT ![u] = @ - amount]
    /\ total_staked' = total_staked - amount
    /\ SetStake(u, staked_amount[u] - amount)
    /\ attn_vault' = attn_vault - amount
    /\ attn' = [attn EXCEPT ![u] = @ + amount]
    /\ UNCHANGED <<configVars, last_fund_id, positions>>

ClaimRewards(u) ==
    /\ ~is_paused
    /\ u \in positions
    /\ Settle(u)
    /\ SetStake(u, staked_amount[u])
    /\ UNCHANGED <<configVars, last_fund_id, positions, total_staked, tokenVars>>

\* fund_rewards with the id of the last funding: Ok, and nothing happens.
FundDuplicate(id) ==
    /\ ~is_paused
    /\ id = last_fund_id
    /\ UNCHANGED rewardsVars

FundNew(amount, id) ==
    /\ ~is_paused
    /\ id > last_fund_id
    /\ sol_treasury >= last_treasury_balance
    /\ pending_rewards + amount <= U64Max
    /\ sol_treasury' = sol_treasury + amount
    /\ last_treasury_balance' = sol_treasury'
    /\ unclaimed' = unclaimed + amount
    /\ IF total_staked > 0
       THEN /\ sol_per_share' =
                  sol_per_share + IndexIncrement(pending_rewards + amount)
            /\ pending_rewards' = 0
       ELSE /\ pending_rewards' = pending_rewards + amount
            /\ UNCHANGED sol_per_share
    /\ last_fund_id' = id
    /\ UNCHANGED <<configVars, total_staked, stakeVars, tokenVars>>

FundRewards(amount, id) == FundDuplicate(id) \/ FundNew(amount, id)

-----------------------------------------------------------------------------
(* Administration, signed by pool_admin.                                   *)

UpdateAllowedFunder(k) ==
    /\ allowed_funder' = k
    /\ UNCHANGED <<pool_admin, reward_bps, is_paused, indexVars, stakeVars,
                   treasuryVars, tokenVars, last_fund_id>>

UpdateRewardBps(bps) ==
    /\ reward_bps' = bps
    /\ UNCHANGED <<pool_admin, allowed_funder, is_paused, indexVars, stakeVars,
                   treasuryVars, tokenVars, last_fund_id>>

UpdatePoolAdmin(k) ==
    /\ pool_admin' = k
    /\ UNCHANGED <<allowed_funder, reward_bps, is_paused, indexVars, stakeVars,
                   treasuryVars, tokenVars, last_fund_id>>

SetPoolPause(p) ==
    /\ is_paused' = p
    /\ UNCHANGED <<pool_admin, allowed_funder, reward_bps, indexVars, stakeVars,
                   treasuryVars, tokenVars, last_fund_id>>

-----------------------------------------------------------------------------
(* What anybody may do outside the program.                                *)

\* A plain SOL transfer to the treasury.
SendToTreasury(amount) ==
    /\ sol_treasury + amount <= MaxLamports
    /\ sol_treasury' = sol_treasury + amount
    /\ UNCHANGED <<configVars, indexVars, stakeVars, last_treasury_balance,
                   unclaimed, tokenVars, last_fund_id>>

\* sAttnUSD is an ordinary SPL token: the receipt can leave the position.
TransferReceipt(u, v, amount) ==
    /\ u # v
    /\ s_attn[u] >= amount
    /\ s_attn' = [s_attn EXCEPT ![u] = @ - amount, ![v] = @ + amount]
    /\ UNCHANGED <<configVars, indexVars, stakeVars, treasuryVars, attn_vault,
                   attn, last_fund_id>>

\* ... and its holder may burn it with the token program.
BurnReceipt(u, amount) ==
    /\ s_attn[u] >= amount
    /\ s_attn' = [s_attn EXCEPT ![u] = @ - amount]
    /\ UNCHANGED <<configVars, indexVars, stakeVars, treasuryVars, attn_vault,
                   attn, last_fund_id>>

\* So is attnUSD: it passes from wallet to wallet ...
TransferAttn(u, v, amount) ==
    /\ u # v
    /\ attn[u] >= amount
    /\ attn' = [attn EXCEPT ![u] = @ - amount, ![v] = @ + amount]
    /\ UNCHANGED <<configVars, indexVars, stakeVars, treasuryVars, attn_vault,
                   s_attn, last_fund_id>>

\* ... and from a wallet into the pool's custody, where nothing records it.
SendToAttnVault(u, amount) ==
    /\ attn[u] >= amount
    /\ attn' = [attn EXCEPT ![u] = @ - amount]
    /\ attn_vault' = attn_vault + amount
    /\ UNCHANGED <<configVars, indexVars, stakeVars, treasuryVars, s_attn,
                   last_fund_id>>

-----------------------------------------------------------------------------
StakerStep ==
    \/ \E u \in Users, a \in Amounts :
          StakeAttnUsd(u, a) \/ UnstakeAttnUsd(u, a)
    \/ \E u \in Users : ClaimRewards(u)

PoolAdminStep ==
    \/ \E k \in Keys : UpdateAllowedFunder(k) \/ UpdatePoolAdmin(k)
    \/ \E bps \in RewardBps : UpdateRewardBps(bps)
    \/ \E p \in BOOLEAN : SetPoolPause(p)

OutsideStep ==
    \/ \E a \in Lamports : SendToTreasury(a)
    \/ \E u, v \in Users, a \in Amounts :
          TransferReceipt(u, v, a) \/ TransferAttn(u, v, a)
    \/ \E u \in Users, a \in Amounts :
          BurnReceipt(u, a) \/ SendToAttnVault(u, a)

RewardsNext ==
    \/ StakerStep
    \/ \E a \in Lamports, id \in OpIds : FundRewards(a, id)
    \/ PoolAdminStep
    \/ OutsideStep

RewardsSpec == RewardsInit /\ [][RewardsNext]_rewardsVars

-----------------------------------------------------------------------------
RewardsTypeOK ==
    /\ pool_admin \in Keys /\ allowed_funder \in Keys
    /\ reward_bps \in RewardBps
    /\ is_paused \in BOOLEAN
    /\ total_staked \in 0..U64Max
    /\ sol_per_share \in Nat
    /\ pending_rewards \in 0..U64Max
    /\ last_treasury_balance \in Nat
    /\ last_fund_id \in OpIds \cup {0}
    /\ positions \subseteq Users
    /\ staked_amount \in [Users -> Nat]
    /\ reward_debt \in [Users -> Nat]
    /\ sol_treasury \in Nat
    /\ attn_vault \in Nat
    /\ attn \in [Users -> Nat]
    /\ s_attn \in [Users -> Nat]
    /\ settled_index \in [Users -> Nat]
    /\ unclaimed \in Int

\* What the pool owes, pending rewards included, never exceeds what was funded
\* and not yet claimed, however the index rounds and whatever strangers send;
\* and that much is in the treasury on top of its rent.
Solvency ==
    /\ INDEX_SCALE * unclaimed >=
          INDEX_SCALE * pending_rewards
          + total_staked * sol_per_share - SumFunction(reward_debt)
    /\ sol_treasury >= Rent + unclaimed

\* A staker that holds its receipts can leave whenever the pool is active:
\* neither the treasury, nor its rent, nor the attnUSD custody is in the way.
StakerCanExit ==
    \A u \in Users, a \in Amounts :
        /\ ~is_paused /\ staked_amount[u] >= a /\ s_attn[u] >= a
        => UnstakeAccepted(u, a)

\* The positions add up to the recorded stake; the custody covers it, and no
\* more receipts are out than it, whatever is sent to the custody or burnt.
StakeBacking ==
    /\ attn_vault >= total_staked
    /\ SumFunction(staked_amount) = total_staked
    /\ SumFunction(s_attn) <= total_staked

\* No handler leaves a treasury record above the balance: the regression check
\* of fund_rewards can never lock out an honest funder.
TreasuryNeverRegresses == last_treasury_balance <= sol_treasury

\* Nobody is paid for SOL that was distributed before its stake was settled:
\* a late or an enlarged stake earns nothing retroactively.
NoRetroactiveRewards ==
    \A u \in Users : INDEX_SCALE * PendingAmount(u) <=
        staked_amount[u] * (DistributedIndex - settled_index[u])

\* The pool's books: what it owes is covered, the stake is backed by the
\* custody, and the record of the treasury never locks the funder out.
RewardsInv ==
    /\ RewardsTypeOK
    /\ Solvency
    /\ StakeBacking
    /\ TreasuryNeverRegresses
=============================================================================
