---------------------------- MODULE CreatorVault ----------------------------
(***************************************************************************)
(* The creator_vault program: custody of a creator's fees (fee_vault), the *)
(* SY token minted when fees are wrapped, the collateral lock that an      *)
(* admin puts on withdrawals, and the optional sweeper delegate.  The      *)
(* vault PDA is the mint authority of SY, PT and YT, so the SPL ledger of  *)
(* the three mints lives here and the splitter program calls in.           *)
(*                                                                         *)
(* One action is one transaction: a Solana transaction that fails leaves   *)
(* no trace, so every require! of a handler is a guard of its action.      *)
(***************************************************************************)
EXTENDS Integers

CONSTANTS
    Users,              \* wallets that wrap fees and hold SY, PT and YT
    Mints,              \* SPL mints whose mint authority is the vault PDA
    Authority,          \* creator_vault.authority, fixed by initialize_vault
    Admins,             \* keys the admin role can be handed to
    Delegates,          \* keys the creator can appoint as sweeper
    SplitterPda,        \* the splitter-authority PDA of this vault
    NoSweeper,          \* the sweeper account does not exist
    SplitterRegistered, \* initialize_vault was given the splitter program
    U64Max,             \* largest u64: where checked_add fails
    MaxTime,            \* bound on the clock
    MaxBurned,          \* bound on what holders burn of a mint
    Amounts,            \* amounts named by instructions
    FeeBps,             \* sweeper fees named by the creator
    RewardBps,          \* SOL reward splits named by the admin
    Expiries            \* lock expiries named by the admin, 0 for None

TotalBps == 10000
Now0 == 1
Keys == Admins \cup Delegates \cup {Authority, SplitterPda}

ASSUME VaultAssumption ==
    /\ U64Max \in Nat \ {0}
    /\ MaxTime \in Nat /\ MaxTime >= Now0
    /\ MaxBurned \in Nat
    /\ Amounts \subseteq 1..U64Max
    /\ FeeBps \subseteq 0..TotalBps
    /\ RewardBps \subseteq 0..TotalBps
    /\ Expiries \subseteq 0..MaxTime
    /\ SplitterRegistered \in BOOLEAN
    /\ "sy" \in Mints
    /\ Admins # {}
    /\ SplitterPda \notin Admins

VARIABLES
    now,                  \* Clock::unix_timestamp
    admin, paused, locked, lock_expires_at, sol_rewards_bps,
    total_fees_collected, total_sy_minted,
    sweeper,              \* the sweeper PDA, or NoSweeper
    fee_vault,            \* quote tokens in the fee-vault token account
    supply,               \* supply[m]: supply of mint m
    balance,              \* balance[m][u]: u's tokens of mint m
    burned,               \* history: burned[m] by holders outside the programs
    signers               \* history: keys that signed the vault's last transaction

lockVars  == <<locked, lock_expires_at>>
roleVars  == <<admin, paused, sol_rewards_bps>>
totalVars == <<total_fees_collected, total_sy_minted>>
splVars   == <<supply, balance, burned>>
vaultVars == <<now, lockVars, roleVars, totalVars, sweeper, fee_vault, splVars,
               signers>>

Sweeper == [delegate : Delegates, fee_bps : 0..TotalBps,
            last_sweep_ts : {0} \cup Now0..MaxTime]

-----------------------------------------------------------------------------
(* The SPL token program, as the vault and its holders use it.             *)

SplMint(m, u, amount) ==
    /\ supply[m] + amount <= U64Max
    /\ supply' = [supply EXCEPT ![m] = @ + amount]
    /\ balance' = [balance EXCEPT ![m][u] = @ + amount]
    /\ UNCHANGED burned

SplBurn(m, u, amount) ==
    /\ balance[m][u] >= amount
    /\ supply[m] >= amount
    /\ burned[m] + amount <= MaxBurned
    /\ supply' = [supply EXCEPT ![m] = @ - amount]
    /\ balance' = [balance EXCEPT ![m][u] = @ - amount]
    /\ burned' = [burned EXCEPT ![m] = @ + amount]
    /\ signers' = {}
    /\ UNCHANGED <<now, lockVars, roleVars, totalVars, sweeper, fee_vault>>

SplTransfer(m, u, v, amount) ==
    /\ u # v
    /\ balance[m][u] >= amount
    /\ balance' = [balance EXCEPT ![m][u] = @ - amount, ![m][v] = @ + amount]
    /\ signers' = {}
    /\ UNCHANGED <<now, lockVars, roleVars, totalVars, sweeper, fee_vault,
                   supply, burned>>

-----------------------------------------------------------------------------
(* initialize_vault.                                                       *)

VaultInit ==
    /\ now = Now0
    /\ admin \in Admins
    /\ paused = FALSE
    /\ locked = FALSE
    /\ lock_expires_at = 0
    /\ sol_rewards_bps = 0
    /\ total_fees_collected = 0
    /\ total_sy_minted = 0
    /\ sweeper = NoSweeper
    /\ fee_vault = 0
    /\ supply = [m \in Mints |-> 0]
    /\ balance = [m \in Mints |-> [u \in Users |-> 0]]
    /\ burned = [m \in Mints |-> 0]
    /\ signers = {}

Tick ==
    /\ now < MaxTime
    /\ now' = now + 1
    /\ UNCHANGED <<lockVars, roleVars, totalVars, sweeper, fee_vault, splVars,
                   signers>>

\* Redirected fees land in the fee-vault account by a plain token transfer.
ReceiveFees(amount) ==
    /\ fee_vault + amount <= U64Max
    /\ fee_vault' = fee_vault + amount
    /\ signers' = {}
    /\ UNCHANGED <<now, lockVars, roleVars, totalVars, sweeper, splVars>>

WrapFees(u, amount) ==
    /\ ~paused
    /\ fee_vault + amount <= U64Max
    /\ total_fees_collected + amount <= U64Max
    /\ total_sy_minted + amount <= U64Max
    /\ fee_vault' = fee_vault + amount
    /\ total_fees_collected' = total_fees_collected + amount
    /\ total_sy_minted' = total_sy_minted + amount
    /\ SplMint("sy", u, amount)
    /\ signers' = {}
    /\ UNCHANGED <<now, lockVars, roleVars, sweeper>>

-----------------------------------------------------------------------------
(* The lock is refreshed lazily, by the next handler that reads it.        *)

\* Mutant: a lock without expiry counts as expired.
LockExpiredWithoutExpiry == locked /\ now >= lock_expires_at

\* Mutant: a lock expires a second early.
LockExpiredEarly == locked /\ lock_expires_at > 0 /\ now + 1 >= lock_expires_at

LockExpired == locked /\ lock_expires_at > 0 /\ now >= lock_expires_at

\* Mutant: the handlers read the locked flag as it is stored.
LockAsStored == [locked |-> locked, expires_at |-> lock_expires_at]

RefreshedLock ==
    IF LockExpired THEN [locked |-> FALSE, expires_at |-> 0]
    ELSE [locked |-> locked, expires_at |-> lock_expires_at]

RefreshLock ==
    /\ locked' = RefreshedLock.locked
    /\ lock_expires_at' = RefreshedLock.expires_at

\* All that withdraw_fees checks: the admin co-signs iff the lock, once
\* refreshed, still stands.
WithdrawAccepted(amount, signed) ==
    /\ ~paused
    /\ Authority \in signed
    /\ RefreshedLock.locked => admin \in signed
    /\ fee_vault >= amount

WithdrawFees(amount, signed) ==
    /\ WithdrawAccepted(amount, signed)
    /\ RefreshLock
    /\ fee_vault' = fee_vault - amount
    /\ signers' = signed
    /\ UNCHANGED <<now, roleVars, totalVars, sweeper, splVars>>

SetSweeperDelegate(d, bps) ==
    /\ sweeper' = [delegate |-> d, fee_bps |-> bps, last_sweep_ts |-> 0]
    /\ signers' = {Authority}
    /\ UNCHANGED <<now, lockVars, roleVars, totalVars, fee_vault, splVars>>

ClearSweeperDelegate ==
    /\ sweeper # NoSweeper
    /\ sweeper' = NoSweeper
    /\ signers' = {Authority}
    /\ UNCHANGED <<now, lockVars, roleVars, totalVars, fee_vault, splVars>>

DelegateFee(amount, bps) == (amount * bps) \div TotalBps

\* The creator's part and the delegate's fee leave the fee vault together.
DelegateSweep(amount) ==
    /\ sweeper # NoSweeper
    /\ ~paused
    /\ RefreshLock
    /\ ~locked'
    /\ fee_vault >= amount
    /\ LET fee == DelegateFee(amount, sweeper.fee_bps)
           creator_amount == amount - fee
       IN  fee_vault' = fee_vault - creator_amount - fee
    /\ sweeper' = [sweeper EXCEPT !.last_sweep_ts = now]
    /\ signers' = {sweeper.delegate}
    /\ UNCHANGED <<now, roleVars, totalVars, splVars>>

-----------------------------------------------------------------------------
(* The calls the splitter program makes, signed by its PDA.                *)

SplitterMayCall == SplitterRegistered /\ ~paused

MintForSplitter(m, u, amount) ==
    /\ SplitterMayCall
    /\ SplMint(m, u, amount)
    /\ signers' = {SplitterPda}
    /\ UNCHANGED <<now, lockVars, roleVars, totalVars, sweeper, fee_vault>>

\* Mutant: fees are handed over without looking at what the vault holds.
TransferFeesUnchecked(amount) ==
    /\ SplitterMayCall
    /\ fee_vault' = fee_vault - amount
    /\ signers' = {SplitterPda}
    /\ UNCHANGED <<now, lockVars, roleVars, totalVars, sweeper, splVars>>

TransferFeesForSplitter(amount) ==
    /\ SplitterMayCall
    /\ fee_vault >= amount
    /\ fee_vault' = fee_vault - amount
    /\ signers' = {SplitterPda}
    /\ UNCHANGED <<now, lockVars, roleVars, totalVars, sweeper, splVars>>

-----------------------------------------------------------------------------
(* Administration: the account constraint has_one = admin.                 *)

SetRewardsSplit(bps) ==
    /\ sol_rewards_bps' = bps
    /\ signers' = {admin}
    /\ UNCHANGED <<now, admin, paused, lockVars, totalVars, sweeper, fee_vault,
                   splVars>>

UpdateAdmin(new_admin) ==
    /\ admin' = new_admin
    /\ signers' = {admin}
    /\ UNCHANGED <<now, paused, sol_rewards_bps, lockVars, totalVars, sweeper,
                   fee_vault, splVars>>

SetPause(p) ==
    /\ paused' = p
    /\ signers' = {admin}
    /\ UNCHANGED <<now, admin, sol_rewards_bps, lockVars, totalVars, sweeper,
                   fee_vault, splVars>>

\* expiry = 0 stands for None: a lock that only the admin can lift.
LockCollateral(expiry) ==
    /\ expiry = 0 \/ expiry >= now
    /\ locked' = TRUE
    /\ lock_expires_at' = expiry
    /\ signers' = {admin}
    /\ UNCHANGED <<now, roleVars, totalVars, sweeper, fee_vault, splVars>>

UnlockCollateral ==
    /\ locked' = FALSE
    /\ lock_expires_at' = 0
    /\ signers' = {admin}
    /\ UNCHANGED <<now, roleVars, totalVars, sweeper, fee_vault, splVars>>

-----------------------------------------------------------------------------
CreatorStep ==
    \/ \E a \in Amounts, signed \in {{Authority}} \cup
                                    {{Authority, k} : k \in Admins} :
          WithdrawFees(a, signed)
    \/ \E d \in Delegates, bps \in FeeBps : SetSweeperDelegate(d, bps)
    \/ ClearSweeperDelegate

AdminStep ==
    \/ \E bps \in RewardBps : SetRewardsSplit(bps)
    \/ \E k \in Admins : UpdateAdmin(k)
    \/ \E p \in BOOLEAN : SetPause(p)
    \/ \E e \in Expiries : LockCollateral(e)
    \/ UnlockCollateral

FeeStep ==
    \/ Tick
    \/ \E a \in Amounts : ReceiveFees(a)
    \/ \E u \in Users, a \in Amounts : WrapFees(u, a)
    \/ \E a \in Amounts : DelegateSweep(a)

SplStep ==
    \E m \in Mints, u \in Users, a \in Amounts :
        \/ SplBurn(m, u, a)
        \/ \E v \in Users : SplTransfer(m, u, v, a)

\* The vault alone, with the splitter as its environment.
VaultNext ==
    \/ CreatorStep
    \/ AdminStep
    \/ FeeStep
    \/ SplStep
    \/ \E a \in Amounts : TransferFeesForSplitter(a)
    \/ \E m \in Mints, u \in Users, a \in Amounts : MintForSplitter(m, u, a)

VaultSpec == VaultInit /\ [][VaultNext]_vaultVars

-----------------------------------------------------------------------------
VaultTypeOK ==
    /\ now \in Now0..MaxTime
    /\ admin \in Admins
    /\ paused \in BOOLEAN
    /\ locked \in BOOLEAN
    /\ lock_expires_at \in {0} \cup Now0..MaxTime
    /\ sol_rewards_bps \in 0..TotalBps
    /\ total_fees_collected \in 0..U64Max
    /\ total_sy_minted \in 0..U64Max
    /\ sweeper \in Sweeper \cup {NoSweeper}
    /\ fee_vault \in 0..U64Max
    /\ supply \in [Mints -> 0..U64Max]
    /\ balance \in [Mints -> [Users -> Nat]]
    /\ burned \in [Mints -> Nat]
    /\ signers \in SUBSET Keys

LockLapsed == lock_expires_at # 0 /\ lock_expires_at <= now
LockInForce == locked /\ ~LockLapsed

\* While a lock is in force no fee leaves the vault without the signature of
\* the admin of that moment, yield that the splitter pays out excepted: a lock
\* without expiry never lapses, a rotated admin's signature does not count.
LockHonoured ==
    [][LockInForce /\ fee_vault' < fee_vault
         => admin \in signers' \/ SplitterPda \in signers']_vaultVars

\* A lock ends by the admin's hand or by its expiry, never otherwise, and the
\* stored expiry of a standing lock only changes by the admin's hand.
LockEndsProperly ==
    [][locked /\ (~locked' \/ lock_expires_at' # lock_expires_at)
         => admin \in signers' \/ LockLapsed]_vaultVars

\* The creator alone can withdraw as soon as the vault is unpaused and no lock
\* is in force, whatever the stale locked flag says, from the very second the
\* lock expires: the unilateral withdrawal path of README.md.
CreatorCanWithdraw ==
    ~paused /\ ~LockInForce /\ (\E a \in Amounts : a <= fee_vault)
        => \E a \in Amounts : WithdrawAccepted(a, {Authority})

=============================================================================
