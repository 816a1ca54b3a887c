---------------------------- MODULE SplitterProofs ----------------------------
(***************************************************************************)
(* Proofs about the creator vault, on its own, and then about the splitter *)
(* composed with it, for every set of keys, holders, amounts and expiries, *)
(* every clock bound, maturity and index scale, and every width of a u64.  *)
(***************************************************************************)
EXTENDS Splitter, FiniteSetTheorems, TLAPS

(* The vault on its own: its types, and what the collateral lock promises. *)

\* Minting keeps the token ledger typed.
LEMMA SplMintTyped ==
    ASSUME VaultTypeOK, VaultAssumption,
           NEW m \in Mints, NEW u \in Users, NEW amount \in Amounts,
           SplMint(m, u, amount)
    PROVE  /\ supply' \in [Mints -> 0..U64Max]
           /\ balance' \in [Mints -> [Users -> Nat]]
           /\ burned' \in [Mints -> Nat]
<1>1. amount \in 1..U64Max /\ U64Max \in Nat
  BY DEF VaultAssumption
<1>2. supply[m] + amount \in 0..U64Max
  BY <1>1 DEF SplMint, VaultTypeOK
<1>3. supply' \in [Mints -> 0..U64Max]
  BY <1>2 DEF SplMint, VaultTypeOK
<1>4. balance[m] \in [Users -> Nat] /\ balance[m][u] \in Nat
  BY DEF VaultTypeOK
<1>5. [balance[m] EXCEPT ![u] = balance[m][u] + amount] \in [Users -> Nat]
  BY <1>1, <1>4
<1>6. balance' \in [Mints -> [Users -> Nat]]
  BY <1>5 DEF SplMint, VaultTypeOK
<1>7. burned' \in [Mints -> Nat]
  BY DEF SplMint, VaultTypeOK
<1>8. QED BY <1>3, <1>6, <1>7


\* Withdrawals, sweeps and the appointment of the sweeper keep the types.
LEMMA CreatorStepTyped ==
    ASSUME VaultTypeOK, VaultAssumption, CreatorStep
    PROVE  VaultTypeOK'
<1>1. CASE \E a \in Amounts, signed \in {{Authority}} \cup
                                       {{Authority, k} : k \in Admins} :
              WithdrawFees(a, signed)
  <2>1. PICK a \in Amounts, signed \in {{Authority}} \cup
                                     {{Authority, k} : k \in Admins} :
              WithdrawFees(a, signed)
    BY <1>1
  <2>2. signed \in SUBSET Keys
    BY DEF Keys
  <2>3. locked' \in BOOLEAN /\ lock_expires_at' \in {0} \cup Now0..MaxTime
    BY <2>1 DEF WithdrawFees, RefreshLock, RefreshedLock, VaultTypeOK, lockVars
  <2>4. fee_vault' \in 0..U64Max
    BY <2>1 DEF WithdrawFees, WithdrawAccepted, VaultTypeOK, VaultAssumption
  <2>5. QED
    BY <2>1, <2>2, <2>3, <2>4
    DEF WithdrawFees, VaultTypeOK, roleVars, totalVars, splVars
<1>2. CASE \E d \in Delegates, bps \in FeeBps : SetSweeperDelegate(d, bps)
  <2>1. PICK d \in Delegates, bps \in FeeBps : SetSweeperDelegate(d, bps)
    BY <1>2
  <2>2. sweeper' \in Sweeper
    BY <2>1 DEF SetSweeperDelegate, Sweeper, VaultAssumption
  <2>3. QED
    BY <2>1, <2>2 DEF SetSweeperDelegate, VaultTypeOK, Keys, lockVars, roleVars,
                      totalVars, splVars
<1>3. CASE ClearSweeperDelegate
  BY <1>3 DEF ClearSweeperDelegate, VaultTypeOK, Keys, lockVars, roleVars,
              totalVars, splVars
<1>4. QED BY <1>1, <1>2, <1>3 DEF CreatorStep

\* So do the admin's instructions.
LEMMA AdminStepTyped ==
    ASSUME VaultTypeOK, VaultAssumption, AdminStep
    PROVE  VaultTypeOK'
<1> USE DEF VaultTypeOK, Keys, lockVars, totalVars, splVars
<1>1. CASE \E bps \in RewardBps : SetRewardsSplit(bps)
  BY <1>1 DEF SetRewardsSplit, VaultAssumption
<1>2. CASE \E k \in Admins : UpdateAdmin(k)
  BY <1>2 DEF UpdateAdmin
<1>3. CASE \E p \in BOOLEAN : SetPause(p)
  BY <1>3 DEF SetPause
<1>4. CASE \E e \in Expiries : LockCollateral(e)
  <2>1. PICK e \in Expiries : LockCollateral(e)
    BY <1>4
  <2>2. e \in {0} \cup Now0..MaxTime
    BY <2>1 DEF LockCollateral, VaultAssumption, Now0
  <2>3. QED BY <2>1, <2>2 DEF LockCollateral, roleVars
<1>5. CASE UnlockCollateral
  BY <1>5 DEF UnlockCollateral, roleVars
<1>6. QED BY <1>1, <1>2, <1>3, <1>4, <1>5 DEF AdminStep

\* A share of at most 10000 basis points is no more than the whole.
LEMMA BpsShare ==
    ASSUME NEW a \in Nat, NEW p \in Nat, p <= a * 10000
    PROVE  p \div 10000 \in 0..a
OBVIOUS

\* The delegate's fee is part of the amount swept.
LEMMA DelegateFeeBound ==
    ASSUME NEW amount \in Nat, NEW bps \in 0..TotalBps
    PROVE  DelegateFee(amount, bps) \in 0..amount
<1> DEFINE p == amount * bps
<1>1. p \in Nat /\ p <= amount * 10000
  BY DEF TotalBps
<1>2. DelegateFee(amount, bps) = p \div 10000
  BY DEF DelegateFee, TotalBps
<1> HIDE DEF p
<1>3. p \div 10000 \in 0..amount
  BY <1>1, BpsShare
<1>4. QED BY <1>2, <1>3

\* Fees that arrive, are wrapped or are swept keep the types, and time does.
LEMMA FeeStepTyped ==
    ASSUME VaultTypeOK, VaultAssumption, FeeStep
    PROVE  VaultTypeOK'
<1>1. CASE Tick
  BY <1>1 DEF Tick, VaultTypeOK, VaultAssumption, Now0, lockVars, roleVars,
              totalVars, splVars
<1>2. CASE \E a \in Amounts : ReceiveFees(a)
  BY <1>2 DEF ReceiveFees, VaultTypeOK, VaultAssumption, lockVars, roleVars,
              totalVars, splVars
<1>3. CASE \E u \in Users, a \in Amounts : WrapFees(u, a)
  <2>1. PICK u \in Users, a \in Amounts : WrapFees(u, a)
    BY <1>3
  <2>2. "sy" \in Mints /\ SplMint("sy", u, a)
    BY <2>1 DEF WrapFees, VaultAssumption
  <2>3. /\ supply' \in [Mints -> 0..U64Max]
        /\ balance' \in [Mints -> [Users -> Nat]]
        /\ burned' \in [Mints -> Nat]
    BY <2>2, SplMintTyped
  <2>4. /\ fee_vault' \in 0..U64Max
        /\ total_fees_collected' \in 0..U64Max
        /\ total_sy_minted' \in 0..U64Max
    BY <2>1 DEF WrapFees, VaultTypeOK, VaultAssumption
  <2>5. QED
    BY <2>1, <2>3, <2>4 DEF WrapFees, VaultTypeOK, lockVars, roleVars
<1>4. CASE \E a \in Amounts : DelegateSweep(a)
  <2>1. PICK a \in Amounts : DelegateSweep(a)
    BY <1>4
  <2>2. sweeper \in Sweeper
    BY <2>1 DEF DelegateSweep, VaultTypeOK
  <2>3. sweeper' \in Sweeper /\ sweeper.delegate \in Delegates
    BY <2>1, <2>2 DEF DelegateSweep, Sweeper, VaultTypeOK
  <2>4. a \in Nat /\ DelegateFee(a, sweeper.fee_bps) \in 0..a
    BY <2>2, DelegateFeeBound DEF Sweeper, VaultAssumption
  <2>5. fee_vault' = fee_vault - a
    BY <2>1, <2>4 DEF DelegateSweep, VaultTypeOK
  <2>6. fee_vault' \in 0..U64Max
    BY <2>1, <2>4, <2>5 DEF DelegateSweep, VaultTypeOK, VaultAssumption
  <2>7. locked' \in BOOLEAN /\ lock_expires_at' \in {0} \cup Now0..MaxTime
    BY <2>1 DEF DelegateSweep, RefreshLock, RefreshedLock, VaultTypeOK, lockVars
  <2>8. QED
    BY <2>1, <2>3, <2>6, <2>7
    DEF DelegateSweep, VaultTypeOK, Keys, roleVars, totalVars, splVars
<1>5. QED BY <1>1, <1>2, <1>3, <1>4 DEF FeeStep

\* Holders that burn or pass tokens on keep the types.
LEMMA SplStepTyped ==
    ASSUME VaultTypeOK, VaultAssumption, SplStep
    PROVE  VaultTypeOK'
<1>1. PICK m \in Mints, u \in Users, a \in Amounts :
        SplBurn(m, u, a) \/ \E v \in Users : SplTransfer(m, u, v, a)
  BY DEF SplStep
<1>2. a \in 1..U64Max /\ balance[m] \in [Users -> Nat]
  BY DEF VaultAssumption, VaultTypeOK
<1>3. CASE SplBurn(m, u, a)
  <2>1. [balance[m] EXCEPT ![u] = balance[m][u] - a] \in [Users -> Nat]
    BY <1>2, <1>3 DEF SplBurn, VaultAssumption
  <2>2. balance' \in [Mints -> [Users -> Nat]]
    BY <1>3, <2>1 DEF SplBurn, VaultTypeOK
  <2>3. supply' \in [Mints -> 0..U64Max] /\ burned' \in [Mints -> Nat]
    BY <1>2, <1>3 DEF SplBurn, VaultTypeOK, VaultAssumption
  <2>4. QED
    BY <1>3, <2>2, <2>3 DEF SplBurn, VaultTypeOK, lockVars, roleVars, totalVars
<1>4. CASE \E v \in Users : SplTransfer(m, u, v, a)
  <2>1. PICK v \in Users : SplTransfer(m, u, v, a)
    BY <1>4
  <2>2. [balance[m] EXCEPT ![u] = balance[m][u] - a,
                           ![v] = balance[m][v] + a] \in [Users -> Nat]
    BY <1>2, <2>1 DEF SplTransfer, VaultAssumption
  <2>3. balance' = [balance EXCEPT ![m] =
                      [balance[m] EXCEPT ![u] = balance[m][u] - a,
                                         ![v] = balance[m][v] + a]]
    BY <2>1 DEF SplTransfer, VaultTypeOK
  <2>4. balance' \in [Mints -> [Users -> Nat]]
    BY <2>2, <2>3 DEF VaultTypeOK
  <2>5. QED
    BY <2>1, <2>4 DEF SplTransfer, VaultTypeOK, lockVars, roleVars, totalVars
<1>5. QED BY <1>1, <1>3, <1>4

\* The calls of the splitter keep the types.
LEMMA SplitterCallTyped ==
    ASSUME VaultTypeOK, VaultAssumption, NEW a \in Amounts,
           \/ TransferFeesForSplitter(a)
           \/ \E m \in Mints, u \in Users : MintForSplitter(m, u, a)
    PROVE  VaultTypeOK'
<1>1. CASE TransferFeesForSplitter(a)
  BY <1>1 DEF TransferFeesForSplitter, VaultTypeOK, VaultAssumption, Keys,
              lockVars, roleVars, totalVars, splVars
<1>2. CASE \E m \in Mints, u \in Users : MintForSplitter(m, u, a)
  <2>1. PICK m \in Mints, u \in Users : MintForSplitter(m, u, a)
    BY <1>2
  <2>2. /\ supply' \in [Mints -> 0..U64Max]
        /\ balance' \in [Mints -> [Users -> Nat]]
        /\ burned' \in [Mints -> Nat]
    BY <2>1, SplMintTyped DEF MintForSplitter
  <2>3. QED
    BY <2>1, <2>2 DEF MintForSplitter, VaultTypeOK, Keys, lockVars, roleVars,
                      totalVars
<1>3. QED BY <1>1, <1>2

\* initialize_vault leaves a typed vault.
LEMMA InitTyped ==
    ASSUME VaultAssumption, VaultInit
    PROVE  VaultTypeOK
<1>1. [u \in Users |-> 0] \in [Users -> Nat]
  OBVIOUS
<1>2. balance = [m \in Mints |-> [u \in Users |-> 0]]
  BY DEF VaultInit
<1>3. balance \in [Mints -> [Users -> Nat]]
  BY <1>1, <1>2
<1>4. supply \in [Mints -> 0..U64Max] /\ burned \in [Mints -> Nat]
  BY DEF VaultInit, VaultAssumption
<1>5. /\ now \in Now0..MaxTime
      /\ sol_rewards_bps \in 0..TotalBps
      /\ total_fees_collected \in 0..U64Max
      /\ total_sy_minted \in 0..U64Max
      /\ fee_vault \in 0..U64Max
  BY DEF VaultInit, VaultAssumption, Now0, TotalBps
<1>6. /\ admin \in Admins /\ paused \in BOOLEAN /\ locked \in BOOLEAN
      /\ lock_expires_at \in {0} \cup Now0..MaxTime
      /\ sweeper \in Sweeper \cup {NoSweeper}
      /\ signers \in SUBSET Keys
  BY DEF VaultInit
<1>7. QED
  BY <1>3, <1>4, <1>5, <1>6 DEF VaultTypeOK

\* Every state of the vault is typed: no counter, supply or balance leaves its
\* u64, whatever the interleaving of creator, admin, delegate and splitter.
THEOREM VaultTypeCorrect == VaultSpec => []VaultTypeOK
<1>1. VaultInit => VaultTypeOK
  BY InitTyped, VaultAssumption
<1>2. VaultTypeOK /\ [VaultNext]_vaultVars => VaultTypeOK'
  <2> SUFFICES ASSUME VaultTypeOK, [VaultNext]_vaultVars PROVE VaultTypeOK'
    OBVIOUS
  <2>1. CASE CreatorStep
    BY <2>1, CreatorStepTyped, VaultAssumption
  <2>2. CASE AdminStep
    BY <2>2, AdminStepTyped, VaultAssumption
  <2>3. CASE FeeStep
    BY <2>3, FeeStepTyped, VaultAssumption
  <2>4. CASE SplStep
    BY <2>4, SplStepTyped, VaultAssumption
  <2>5. CASE \E a \in Amounts : TransferFeesForSplitter(a)
    BY <2>5, SplitterCallTyped, VaultAssumption
  <2>6. CASE \E m \in Mints, u \in Users, a \in Amounts : MintForSplitter(m, u, a)
    BY <2>6, SplitterCallTyped, VaultAssumption
  <2>7. CASE UNCHANGED vaultVars
    BY <2>7 DEF vaultVars, lockVars, roleVars, totalVars, splVars, VaultTypeOK
  <2>8. QED BY <2>1, <2>2, <2>3, <2>4, <2>5, <2>6, <2>7 DEF VaultNext
<1>3. QED BY <1>1, <1>2, PTL DEF VaultSpec

-----------------------------------------------------------------------------
(* The lock.                                                               *)

LockHonouredStep ==
    LockInForce /\ fee_vault' < fee_vault
        => admin \in signers' \/ SplitterPda \in signers'

LockEndsProperlyStep ==
    locked /\ (~locked' \/ lock_expires_at' # lock_expires_at)
        => admin \in signers' \/ LockLapsed

\* One step of anybody respects the lock.
LEMMA LockStep ==
    ASSUME VaultTypeOK, VaultAssumption, VaultNext
    PROVE  LockHonouredStep /\ LockEndsProperlyStep
<1> USE DEF LockHonouredStep, LockEndsProperlyStep, VaultTypeOK, lockVars
<1>1. CASE CreatorStep
  <2>1. CASE \E a \in Amounts, signed \in {{Authority}} \cup
                                         {{Authority, k} : k \in Admins} :
                WithdrawFees(a, signed)
    <3>1. PICK a \in Amounts, signed \in {{Authority}} \cup
                                       {{Authority, k} : k \in Admins} :
                WithdrawFees(a, signed)
      BY <2>1
    <3>2. signers' = signed /\ (locked' => admin \in signed)
      BY <3>1 DEF WithdrawFees, WithdrawAccepted, RefreshLock
    <3>3. IF LockExpired THEN ~locked' ELSE UNCHANGED <<locked, lock_expires_at>>
      BY <3>1 DEF WithdrawFees, RefreshLock, RefreshedLock
    <3>4. QED BY <3>2, <3>3 DEF LockInForce, LockExpired, LockLapsed
  <2>2. CASE \E d \in Delegates, bps \in FeeBps : SetSweeperDelegate(d, bps)
    BY <2>2 DEF SetSweeperDelegate
  <2>3. CASE ClearSweeperDelegate
    BY <2>3 DEF ClearSweeperDelegate
  <2>4. QED BY <1>1, <2>1, <2>2, <2>3 DEF CreatorStep
<1>2. CASE AdminStep
  BY <1>2 DEF AdminStep, SetRewardsSplit, UpdateAdmin, SetPause, LockCollateral,
              UnlockCollateral
<1>3. CASE FeeStep
  <2>1. CASE \E a \in Amounts : DelegateSweep(a)
    <3>1. /\ ~locked'
          /\ IF LockExpired THEN ~locked'
             ELSE UNCHANGED <<locked, lock_expires_at>>
      BY <2>1 DEF DelegateSweep, RefreshLock, RefreshedLock
    <3>2. QED BY <3>1 DEF LockInForce, LockExpired, LockLapsed
  <2>2. CASE Tick \/ (\E a \in Amounts : ReceiveFees(a))
             \/ (\E u \in Users, a \in Amounts : WrapFees(u, a))
    BY <2>2 DEF Tick, ReceiveFees, WrapFees, VaultAssumption
  <2>3. QED BY <1>3, <2>1, <2>2 DEF FeeStep
<1>4. CASE SplStep
  BY <1>4 DEF SplStep, SplBurn, SplTransfer
<1>5. CASE \/ \E a \in Amounts : TransferFeesForSplitter(a)
           \/ \E m \in Mints, u \in Users, a \in Amounts : MintForSplitter(m, u, a)
  BY <1>5 DEF TransferFeesForSplitter, MintForSplitter
<1>6. QED BY <1>1, <1>2, <1>3, <1>4, <1>5 DEF VaultNext

\* While a lock is in force no fee leaves without the admin of that moment,
\* the splitter's yield excepted: refresh_lock, withdraw_fees, delegate_sweep.
THEOREM LockIsHonoured == VaultSpec => LockHonoured
<1>1. VaultTypeOK /\ [VaultNext]_vaultVars => [LockHonouredStep]_vaultVars
  BY LockStep, VaultAssumption
<1>2. QED
  BY <1>1, VaultTypeCorrect, PTL
  DEF VaultSpec, LockHonoured, LockHonouredStep

\* A lock ends, or changes its expiry, by the admin's hand or by its expiry.
THEOREM LockEndsAsAgreed == VaultSpec => LockEndsProperly
<1>1. VaultTypeOK /\ [VaultNext]_vaultVars => [LockEndsProperlyStep]_vaultVars
  BY LockStep, VaultAssumption
<1>2. QED
  BY <1>1, VaultTypeCorrect, PTL
  DEF VaultSpec, LockEndsProperly, LockEndsProperlyStep

\* The creator alone can withdraw whenever the vault is active and no lock is in force:
\* the stored flag of a lock that expired is refreshed before it is looked at.
THEOREM TheCreatorIsNeverLocked == VaultSpec => []CreatorCanWithdraw
<1>1. ASSUME VaultTypeOK PROVE CreatorCanWithdraw
  <2> SUFFICES ASSUME ~paused, ~LockInForce, NEW a \in Amounts, a <= fee_vault
               PROVE  WithdrawAccepted(a, {Authority})
    BY DEF CreatorCanWithdraw
  <2>1. now \in Nat /\ lock_expires_at \in Nat
    BY <1>1, VaultAssumption DEF VaultTypeOK, VaultAssumption, Now0
  <2>2. ~RefreshedLock.locked
    <3>1. CASE locked
      <4>1. lock_expires_at # 0 /\ lock_expires_at <= now
        BY <3>1 DEF LockInForce, LockLapsed
      <4>2. LockExpired
        BY <2>1, <3>1, <4>1 DEF LockExpired
      <4>3. QED BY <4>2 DEF RefreshedLock
    <3>2. CASE ~locked
      BY <3>2 DEF RefreshedLock
    <3>3. QED BY <3>1, <3>2
  <2>3. a \in Nat /\ fee_vault \in Nat
    BY <1>1, VaultAssumption DEF VaultTypeOK, VaultAssumption
  <2>4. QED BY <2>2, <2>3 DEF WithdrawAccepted
<1>2. VaultTypeOK => CreatorCanWithdraw
  BY <1>1
<1>3. QED BY <1>2, VaultTypeCorrect, PTL

-----------------------------------------------------------------------------
(* The splitter.                                                           *)

\* The mints that the splitter trades in are mints of the vault.
LEMMA SplitterMints ==
    ASSUME VaultAssumption, SplitterAssumption
    PROVE  "sy" \in Mints /\ "pt" \in Mints /\ "yt" \in Mints
BY DEF VaultAssumption, SplitterAssumption

\* Burning some mints and minting others for a holder keeps the vault typed.
LEMMA ExchangeTyped ==
    ASSUME VaultTypeOK, VaultAssumption, NEW u \in Users, NEW amount \in Amounts,
           NEW olds \in SUBSET Mints, NEW news \in SUBSET Mints, olds \cap news = {},
           Exchange(u, amount, olds, news)
    PROVE  VaultTypeOK'
<1> DEFINE delta(m) == IF m \in olds THEN -amount ELSE IF m \in news THEN amount ELSE 0
<1>1. amount \in 1..U64Max /\ U64Max \in Nat
  BY DEF VaultAssumption
<1>2. /\ \A m \in olds : balance[m][u] >= amount /\ supply[m] >= amount
      /\ \A m \in news : supply[m] + amount <= U64Max
      /\ supply' = [m \in Mints |-> supply[m] + delta(m)]
      /\ balance' = [m \in Mints |-> [balance[m] EXCEPT ![u] = balance[m][u] + delta(m)]]
      /\ signers' = {SplitterPda}
      /\ UNCHANGED <<now, lockVars, roleVars, totalVars, sweeper, fee_vault, burned>>
  BY DEF Exchange, ExchangeAccepted
<1>3. \A m \in Mints : supply[m] \in 0..U64Max /\ balance[m] \in [Users -> Nat]
  BY DEF VaultTypeOK
<1>4. \A m \in Mints : /\ delta(m) \in Int
                       /\ supply[m] + delta(m) \in 0..U64Max
                       /\ balance[m][u] + delta(m) \in Nat
  BY <1>1, <1>2, <1>3
<1>5. supply' \in [Mints -> 0..U64Max]
  BY <1>2, <1>4
<1>6. \A m \in Mints : [balance[m] EXCEPT ![u] = balance[m][u] + delta(m)] \in [Users -> Nat]
  BY <1>3, <1>4
<1>7. balance' \in [Mints -> [Users -> Nat]]
  BY <1>2, <1>6
<1>8. QED BY <1>2, <1>5, <1>7 DEF VaultTypeOK, lockVars, roleVars, totalVars, Keys

\* The yield that leaves the vault keeps it typed.
LEMMA YieldTyped ==
    ASSUME VaultTypeOK, VaultAssumption, NEW a \in 0..U64Max, TransferFeesForSplitter(a)
    PROVE  VaultTypeOK' /\ UNCHANGED <<splVars, totalVars>>
BY DEF TransferFeesForSplitter, VaultTypeOK, VaultAssumption, Keys, lockVars, roleVars,
       totalVars, splVars

\* What the vault's own steps do to the books: every SY that appears was wrapped, every
\* token that goes was burned by its holder, and none of PT or YT appears.
LEMMA VaultStepBooks ==
    ASSUME VaultTypeOK, VaultAssumption, SplitterAssumption,
           CreatorStep \/ AdminStep \/ FeeStep \/ SplStep
    PROVE  /\ VaultTypeOK'
           /\ total_sy_minted' - supply'["sy"] - burned'["sy"]
                = total_sy_minted - supply["sy"] - burned["sy"]
           /\ \A m \in {"pt", "yt"} : /\ supply'[m] + burned'[m] = supply[m] + burned[m]
                                      /\ supply'[m] <= supply[m]
<1> DEFINE Books ==
      /\ total_sy_minted' - supply'["sy"] - burned'["sy"]
           = total_sy_minted - supply["sy"] - burned["sy"]
      /\ \A m \in {"pt", "yt"} : /\ supply'[m] + burned'[m] = supply[m] + burned[m]
                                 /\ supply'[m] <= supply[m]
<1>1. VaultTypeOK'
  BY CreatorStepTyped, AdminStepTyped, FeeStepTyped, SplStepTyped
<1> SUFFICES Books
  BY <1>1
<1>2. /\ supply \in [Mints -> Int] /\ burned \in [Mints -> Int]
      /\ total_sy_minted \in Int /\ Amounts \subseteq Int
      /\ \A a \in Amounts : a > 0
  BY DEF VaultTypeOK, VaultAssumption
<1>3. "sy" \in Mints /\ "pt" \in Mints /\ "yt" \in Mints
  BY SplitterMints
<1>4. UNCHANGED <<supply, burned, total_sy_minted>> => Books
  BY <1>2, <1>3
<1>5. CASE CreatorStep
  BY <1>4, <1>5
  DEF CreatorStep, WithdrawFees, SetSweeperDelegate, ClearSweeperDelegate, totalVars, splVars
<1>6. CASE AdminStep
  BY <1>4, <1>6
  DEF AdminStep, SetRewardsSplit, UpdateAdmin, SetPause, LockCollateral, UnlockCollateral,
      totalVars, splVars
<1>7. CASE FeeStep
  <2>1. CASE Tick \/ (\E a \in Amounts : ReceiveFees(a) \/ DelegateSweep(a))
    BY <1>4, <2>1 DEF Tick, ReceiveFees, DelegateSweep, totalVars, splVars
  <2>2. CASE \E u \in Users, a \in Amounts : WrapFees(u, a)
    <3>1. PICK u \in Users, a \in Amounts : WrapFees(u, a)
      BY <2>2
    <3>2. /\ supply' = [supply EXCEPT !["sy"] = supply["sy"] + a] /\ burned' = burned
          /\ total_sy_minted' = total_sy_minted + a
      BY <3>1 DEF WrapFees, SplMint
    <3>3. \A m \in Mints : /\ supply'[m] = IF m = "sy" THEN supply[m] + a ELSE supply[m]
                           /\ burned'[m] = burned[m]
      BY <1>2, <3>2
    <3>4. a \in Int /\ \A m \in Mints : supply[m] \in Int /\ burned[m] \in Int
      BY <1>2
    <3>5. QED BY <1>2, <1>3, <3>2, <3>3, <3>4
  <2>3. QED BY <1>7, <2>1, <2>2 DEF FeeStep
<1>8. CASE SplStep
  <2>1. PICK m \in Mints, u \in Users, a \in Amounts :
          SplBurn(m, u, a) \/ \E v \in Users : SplTransfer(m, u, v, a)
    BY <1>8 DEF SplStep
  <2>2. CASE SplBurn(m, u, a)
    <3>1. /\ supply' = [supply EXCEPT ![m] = supply[m] - a]
          /\ burned' = [burned EXCEPT ![m] = burned[m] + a]
          /\ total_sy_minted' = total_sy_minted
      BY <2>2 DEF SplBurn, totalVars
    <3>2. \A n \in Mints : /\ supply'[n] = IF n = m THEN supply[n] - a ELSE supply[n]
                           /\ burned'[n] = IF n = m THEN burned[n] + a ELSE burned[n]
      BY <1>2, <3>1
    <3>3. a \in Int /\ a > 0 /\ \A n \in Mints : supply[n] \in Int /\ burned[n] \in Int
      BY <1>2
    <3>4. \A n \in Mints : supply'[n] + burned'[n] = supply[n] + burned[n] /\ supply'[n] <= supply[n]
      BY <3>2, <3>3
    <3>5. /\ supply'["sy"] + burned'["sy"] = supply["sy"] + burned["sy"]
          /\ supply["sy"] \in Int /\ burned["sy"] \in Int
          /\ supply'["sy"] \in Int /\ burned'["sy"] \in Int
      BY <1>3, <3>2, <3>3, <3>4
    <3>6. QED BY <1>2, <1>3, <3>1, <3>4, <3>5
  <2>3. CASE \E v \in Users : SplTransfer(m, u, v, a)
    <3>1. UNCHANGED <<supply, burned, total_sy_minted>>
      BY <2>3 DEF SplTransfer, totalVars
    <3>2. QED BY <1>4, <3>1
  <2>4. QED BY <2>1, <2>2, <2>3
<1>9. QED BY <1>5, <1>6, <1>7, <1>8
-----------------------------------------------------------------------------
(* The invariant, one transaction of the splitter at a time.               *)

\* A transaction that leaves the vault alone leaves it typed.
LEMMA VaultUnchangedTyped ==
    ASSUME VaultTypeOK, UNCHANGED vaultVars
    PROVE  VaultTypeOK' /\ UNCHANGED <<splVars, totalVars>>
BY DEF vaultVars, VaultTypeOK, lockVars, roleVars, totalVars, splVars, Keys

\* Whose tokens were disturbed stays a flag per holder.
LEMMA DisturbTyped ==
    ASSUME SplitterTypeOK, Disturb
    PROVE  disturbed' \in [Users -> BOOLEAN]
<1> DEFINE moved(u) == /\ balance'["yt"][u] # balance["yt"][u]
                       /\ IF position[u] = NoPosition THEN owed[u] # 0
                          ELSE position[u].last_fee_index < fee_index
<1>1. disturbed' = [u \in Users |-> disturbed[u] \/ moved(u)]
  BY DEF Disturb
<1>2. \A u \in Users : (disturbed[u] \/ moved(u)) \in BOOLEAN
  OBVIOUS
<1> HIDE DEF moved
<1>3. QED BY <1>1, <1>2

\* create_market opens the vault's only market.
LEMMA CreateMarketKeeps ==
    ASSUME SplitterInv, SplitterAssumption, NEW t \in Maturities, CreateMarket(t)
    PROVE  SplitterInv'
<1>1. VaultTypeOK' /\ UNCHANGED <<splVars, totalVars, issueVars, yieldVars, disturbed>>
  BY VaultUnchangedTyped DEF SplitterInv, SplitterTypeOK, CreateMarket
<1>2. market' = "open" /\ splitter_authority' = TRUE /\ maturity_ts' \in Nat
  BY DEF CreateMarket, SplitterAssumption
<1>3. SplitterTypeOK'
  BY <1>1, <1>2 DEF SplitterInv, SplitterTypeOK, issueVars, yieldVars
<1>4. SyAccounting' /\ SplitCoverage' /\ PositionsLag' /\ ClosedMarketHasNoTokens'
  BY <1>1, <1>2
  DEF SplitterInv, SyAccounting, SplitCoverage, PositionsLag, ClosedMarketHasNoTokens,
      splVars, totalVars, issueVars, yieldVars
<1>5. QED BY <1>3, <1>4 DEF SplitterInv

\* mint_pt_yt turns SY into as many PT and as many YT.
LEMMA MintPtYtKeeps ==
    ASSUME SplitterInv, VaultAssumption, SplitterAssumption,
           NEW u \in Users, NEW a \in Amounts, MintPtYt(u, a)
    PROVE  SplitterInv'
<1> DEFINE olds == {"sy"}
           news == {"pt", "yt"}
<1>1. /\ "sy" \in Mints /\ "pt" \in Mints /\ "yt" \in Mints
      /\ olds \in SUBSET Mints /\ news \in SUBSET Mints /\ olds \cap news = {}
  BY SplitterMints
<1>2. Exchange(u, a, olds, news)
  BY DEF MintPtYt
<1>3. /\ VaultTypeOK' /\ burned' = burned /\ total_sy_minted' = total_sy_minted
      /\ supply'["sy"] = supply["sy"] - a
      /\ supply'["pt"] = supply["pt"] + a /\ supply'["yt"] = supply["yt"] + a
  <2>1. VaultTypeOK
    BY DEF SplitterInv, SplitterTypeOK
  <2> HIDE DEF olds, news
  <2>2. VaultTypeOK'
    BY <1>1, <1>2, <2>1, ExchangeTyped
  <2>3. supply' = [m \in Mints |-> supply[m] + (IF m \in olds THEN -a
                                               ELSE IF m \in news THEN a ELSE 0)]
    BY <1>2 DEF Exchange, ExchangeAccepted
  <2>4. a \in Int /\ \A m \in Mints : supply[m] \in Int
    BY <2>1 DEF VaultTypeOK, VaultAssumption
  <2>5. QED BY <1>1, <1>2, <2>2, <2>3, <2>4 DEF olds, news, Exchange, totalVars
<1>4. /\ a \in Int /\ supply["sy"] \in Int /\ supply["pt"] \in Int /\ supply["yt"] \in Int
      /\ burned["sy"] \in Int /\ burned["pt"] \in Int /\ burned["yt"] \in Int
      /\ a > 0 /\ U64Max \in Nat
  BY <1>1 DEF SplitterInv, SplitterTypeOK, VaultTypeOK, VaultAssumption
<1>5. /\ total_pt_issued' = total_pt_issued + a /\ total_yt_issued' = total_yt_issued + a
      /\ total_pt_issued' \in 0..U64Max /\ total_yt_issued' \in 0..U64Max
  BY <1>4 DEF MintPtYt, Issue, SplitterInv, SplitterTypeOK
<1>6. /\ market = "open" /\ UNCHANGED <<market, splitter_authority, maturity_ts, fee_index, owed>>
  BY DEF MintPtYt, marketVars
<1>7. /\ position' \in [Users -> Position \cup {NoPosition}]
      /\ PositionsLag'
  <2> DEFINE opened == [last_fee_index |-> fee_index, pending_yield_scaled |-> 0]
  <2>1. fee_index \in 0..MaxFeeIndex /\ FEE_INDEX_SCALE \in Nat \ {0} /\ MaxFeeIndex \in Nat
    BY DEF SplitterInv, SplitterTypeOK, SplitterAssumption
  <2>2. opened \in Position /\ opened.last_fee_index = fee_index
    BY <2>1 DEF Position
  <2>3. position' = position \/ position' = [position EXCEPT ![u] = opened]
    BY DEF MintPtYt
  <2> HIDE DEF opened
  <2>4. QED BY <1>6, <2>1, <2>2, <2>3 DEF SplitterInv, SplitterTypeOK, PositionsLag
<1>8. disturbed' \in [Users -> BOOLEAN]
  BY DisturbTyped DEF SplitterInv, MintPtYt
<1>9. SplitterTypeOK'
  BY <1>3, <1>5, <1>6, <1>7, <1>8 DEF SplitterInv, SplitterTypeOK
<1>10. SyAccounting' /\ SplitCoverage' /\ ClosedMarketHasNoTokens'
  BY <1>3, <1>4, <1>5, <1>6
  DEF SplitterInv, SplitterTypeOK, VaultTypeOK, SyAccounting, SplitCoverage, ClosedMarketHasNoTokens
<1>11. QED BY <1>7, <1>9, <1>10 DEF SplitterInv

\* redeem_principal turns a matched pair back into SY.
LEMMA RedeemPrincipalKeeps ==
    ASSUME SplitterInv, VaultAssumption, SplitterAssumption,
           NEW u \in Users, NEW a \in Amounts, RedeemPrincipal(u, a)
    PROVE  SplitterInv'
<1> DEFINE olds == {"pt", "yt"}
           news == {"sy"}
<1>1. /\ "sy" \in Mints /\ "pt" \in Mints /\ "yt" \in Mints
      /\ olds \in SUBSET Mints /\ news \in SUBSET Mints /\ olds \cap news = {}
  BY SplitterMints
<1>2. Exchange(u, a, olds, news)
  BY DEF RedeemPrincipal
<1>3. /\ VaultTypeOK' /\ burned' = burned /\ total_sy_minted' = total_sy_minted
      /\ supply'["sy"] = supply["sy"] + a
      /\ supply'["pt"] = supply["pt"] - a /\ supply'["yt"] = supply["yt"] - a
  <2>1. VaultTypeOK
    BY DEF SplitterInv, SplitterTypeOK
  <2> HIDE DEF olds, news
  <2>2. VaultTypeOK'
    BY <1>1, <1>2, <2>1, ExchangeTyped
  <2>3. supply' = [m \in Mints |-> supply[m] + (IF m \in olds THEN -a
                                               ELSE IF m \in news THEN a ELSE 0)]
    BY <1>2 DEF Exchange, ExchangeAccepted
  <2>4. a \in Int /\ \A m \in Mints : supply[m] \in Int
    BY <2>1 DEF VaultTypeOK, VaultAssumption
  <2>5. QED BY <1>1, <1>2, <2>2, <2>3, <2>4 DEF olds, news, Exchange, totalVars
<1>4. /\ a \in Int /\ supply["sy"] \in Int /\ supply["pt"] \in Int /\ supply["yt"] \in Int
      /\ burned["sy"] \in Int /\ burned["pt"] \in Int /\ burned["yt"] \in Int
      /\ a > 0 /\ U64Max \in Nat
  BY <1>1 DEF SplitterInv, SplitterTypeOK, VaultTypeOK, VaultAssumption
<1>5. /\ total_pt_issued' = total_pt_issued - a /\ total_yt_issued' = total_yt_issued - a
      /\ total_pt_issued' \in 0..U64Max /\ total_yt_issued' \in 0..U64Max
  BY <1>4 DEF RedeemPrincipal, RedeemPrincipalAccepted, SplitterInv, SplitterTypeOK
<1>6. /\ market = "open"
      /\ UNCHANGED <<market, splitter_authority, maturity_ts, fee_index, position, owed>>
  BY DEF RedeemPrincipal, RedeemPrincipalAccepted, marketVars, yieldVars
<1>7. disturbed' \in [Users -> BOOLEAN]
  BY DisturbTyped DEF SplitterInv, RedeemPrincipal
<1>8. SplitterTypeOK'
  BY <1>3, <1>5, <1>6, <1>7 DEF SplitterInv, SplitterTypeOK
<1>9. SyAccounting' /\ SplitCoverage' /\ ClosedMarketHasNoTokens'
  <2>1. total_pt_issued \in Int /\ total_yt_issued \in Int
    BY <1>4 DEF SplitterInv, SplitterTypeOK
  <2>2. QED
    BY <1>3, <1>4, <1>5, <1>6, <2>1
    DEF SplitterInv, SyAccounting, SplitCoverage, ClosedMarketHasNoTokens
<1>10. PositionsLag'
  BY <1>6 DEF SplitterInv, PositionsLag
<1>11. QED BY <1>8, <1>9, <1>10 DEF SplitterInv

\* The scaled claim of a holder is a number, and with it the claim and what remains of it.
LEMMA ClaimTyped ==
    ASSUME SplitterInv, VaultAssumption, SplitterAssumption, NEW u \in Users,
           NEW i \in 0..MaxFeeIndex, position[u] # NoPosition, IndexValid(u, i)
    PROVE  /\ balance["yt"][u] \in Nat /\ position[u] \in Position
           /\ ScaledClaim(u, i) \in Nat
           /\ Claimable(u, i) \in 0..U64Max
           /\ Remainder(u, i) \in 0..(FEE_INDEX_SCALE - 1)
<1>1. "yt" \in Mints /\ U64Max \in Nat /\ FEE_INDEX_SCALE \in Nat \ {0} /\ MaxFeeIndex \in Nat
  BY SplitterMints DEF VaultAssumption, SplitterAssumption
<1>2. balance["yt"][u] \in Nat /\ position[u] \in Position
  BY <1>1 DEF SplitterInv, SplitterTypeOK, VaultTypeOK
<1>3. i - position[u].last_fee_index \in Nat /\ position[u].pending_yield_scaled \in Nat
  BY <1>1, <1>2 DEF IndexValid, Position
<1> DEFINE gap == i - position[u].last_fee_index
           held == balance["yt"][u]
<1>4. gap * held \in Nat
  <2>1. gap \in Nat /\ held \in Nat
    BY <1>2, <1>3
  <2> HIDE DEF gap, held
  <2>2. QED BY <2>1
<1>5. ScaledClaim(u, i) \in Nat
  BY <1>3, <1>4 DEF ScaledClaim
<1> DEFINE scaled == ScaledClaim(u, i)
           whole == scaled \div FEE_INDEX_SCALE
<1>6. whole \in Int /\ scaled % FEE_INDEX_SCALE \in 0..(FEE_INDEX_SCALE - 1)
  <2> HIDE DEF scaled
  <2>1. scaled \in Nat
    BY <1>5 DEF scaled
  <2>2. QED BY <1>1, <2>1
<1>7. Claimable(u, i) = whole % (U64Max + 1)
  BY DEF Claimable
<1> HIDE DEF whole
<1>8. whole % (U64Max + 1) \in 0..U64Max
  BY <1>1, <1>6
<1>9. Remainder(u, i) = scaled % FEE_INDEX_SCALE
  BY DEF Remainder
<1>10. QED BY <1>2, <1>5, <1>6, <1>7, <1>8, <1>9

\* redeem_yield moves the index and a position, and no token.
LEMMA RedeemYieldKeeps ==
    ASSUME SplitterInv, VaultAssumption, SplitterAssumption,
           NEW u \in Users, NEW i \in 0..MaxFeeIndex, RedeemYield(u, i)
    PROVE  SplitterInv'
<1>1. /\ market = "open" /\ position[u] # NoPosition /\ IndexValid(u, i)
      /\ fee_index' = i /\ UNCHANGED <<marketVars, issueVars, disturbed>>
  BY DEF RedeemYield
<1>2. Claimable(u, i) \in 0..U64Max /\ Remainder(u, i) \in 0..(FEE_INDEX_SCALE - 1)
  BY <1>1, ClaimTyped
<1>3. VaultTypeOK' /\ UNCHANGED <<splVars, totalVars>>
  <2>1. UNCHANGED vaultVars \/ TransferFeesForSplitter(Claimable(u, i))
    BY DEF RedeemYield
  <2>2. QED BY <1>2, <2>1, YieldTyped, VaultUnchangedTyped DEF SplitterInv, SplitterTypeOK
<1>4. /\ position' \in [Users -> Position \cup {NoPosition}]
      /\ PositionsLag'
  <2> DEFINE settled == [last_fee_index |-> i, pending_yield_scaled |-> Remainder(u, i)]
  <2>1. settled \in Position /\ settled.last_fee_index = i
    BY <1>2 DEF Position
  <2>2. position' = [position EXCEPT ![u] = settled]
    BY DEF RedeemYield
  <2> HIDE DEF settled
  <2>3. /\ fee_index \in Int /\ i \in Int /\ fee_index <= i
        /\ \A v \in Users : position[v] # NoPosition =>
             position[v].last_fee_index \in Int /\ position[v].last_fee_index <= fee_index
    BY <1>1, SplitterAssumption
    DEF SplitterInv, SplitterTypeOK, PositionsLag, Position, IndexValid, SplitterAssumption
  <2>4. QED BY <1>1, <2>1, <2>2, <2>3 DEF SplitterInv, SplitterTypeOK, PositionsLag
<1>5. owed' \in [Users -> Int]
  <2> DEFINE owing(v) == owed[v] + (i - fee_index) * balance["yt"][v]
                           - (IF v = u THEN Claimable(u, i) * FEE_INDEX_SCALE ELSE 0)
  <2>1. owed' = [v \in Users |-> owing(v)]
    BY DEF RedeemYield
  <2>2. ASSUME NEW v \in Users PROVE owing(v) \in Int
    <3>1. /\ i - fee_index \in Int /\ balance["yt"][v] \in Int /\ owed[v] \in Int
          /\ Claimable(u, i) \in Int /\ FEE_INDEX_SCALE \in Int
      BY <1>2, SplitterMints
      DEF SplitterInv, SplitterTypeOK, VaultTypeOK, SplitterAssumption, VaultAssumption
    <3>2. /\ (i - fee_index) * balance["yt"][v] \in Int
          /\ Claimable(u, i) * FEE_INDEX_SCALE \in Int
      BY <3>1
    <3>3. QED BY <3>1, <3>2
  <2> HIDE DEF owing
  <2>3. QED BY <2>1, <2>2
<1>6. SplitterTypeOK'
  BY <1>1, <1>3, <1>4, <1>5 DEF SplitterInv, SplitterTypeOK, marketVars, issueVars
<1>7. SyAccounting' /\ SplitCoverage' /\ ClosedMarketHasNoTokens'
  BY <1>1, <1>3
  DEF SplitterInv, SyAccounting, SplitCoverage, ClosedMarketHasNoTokens, splVars, totalVars,
      marketVars, issueVars
<1>8. QED BY <1>4, <1>6, <1>7 DEF SplitterInv

\* close_market finds both mints empty.
LEMMA CloseMarketKeeps ==
    ASSUME SplitterInv, CloseMarket
    PROVE  SplitterInv'
<1>1. /\ VaultTypeOK' /\ UNCHANGED <<splVars, totalVars>>
      /\ UNCHANGED <<splitter_authority, maturity_ts, issueVars, yieldVars, disturbed>>
  BY VaultUnchangedTyped DEF SplitterInv, SplitterTypeOK, CloseMarket
<1>2. market' = "closed" /\ supply["pt"] = 0 /\ supply["yt"] = 0
  BY DEF CloseMarket
<1>3. SplitterTypeOK'
  BY <1>1, <1>2 DEF SplitterInv, SplitterTypeOK, issueVars, yieldVars
<1>4. SyAccounting' /\ SplitCoverage' /\ PositionsLag' /\ ClosedMarketHasNoTokens'
  BY <1>1, <1>2
  DEF SplitterInv, SyAccounting, SplitCoverage, PositionsLag, ClosedMarketHasNoTokens,
      splVars, totalVars, issueVars, yieldVars
<1>5. QED BY <1>3, <1>4 DEF SplitterInv

\* What the creator, the admin, the sweeper and the holders do to the vault meanwhile.
LEMMA VaultStepKeeps ==
    ASSUME SplitterInv, VaultAssumption, SplitterAssumption, VaultStep
    PROVE  SplitterInv'
<1>1. /\ VaultTypeOK'
      /\ total_sy_minted' - supply'["sy"] - burned'["sy"]
           = total_sy_minted - supply["sy"] - burned["sy"]
      /\ \A m \in {"pt", "yt"} : /\ supply'[m] + burned'[m] = supply[m] + burned[m]
                                 /\ supply'[m] <= supply[m]
  BY VaultStepBooks DEF SplitterInv, SplitterTypeOK, VaultStep
<1>2. UNCHANGED <<market, splitter_authority, maturity_ts, fee_index, position, owed,
                  total_pt_issued, total_yt_issued>>
  BY DEF VaultStep, marketVars, issueVars, yieldVars
<1>3. disturbed' \in [Users -> BOOLEAN]
  BY DisturbTyped DEF SplitterInv, VaultStep
<1>4. SplitterTypeOK'
  BY <1>1, <1>2, <1>3 DEF SplitterInv, SplitterTypeOK
<1>5. /\ "sy" \in Mints /\ "pt" \in Mints /\ "yt" \in Mints
  BY SplitterMints
<1>6. /\ \A m \in Mints : /\ supply[m] \in Nat /\ burned[m] \in Nat
                          /\ supply'[m] \in Nat /\ burned'[m] \in Nat
      /\ total_sy_minted \in Int /\ total_sy_minted' \in Int
      /\ total_pt_issued \in Int /\ total_yt_issued \in Int
  BY <1>1, VaultAssumption DEF SplitterInv, SplitterTypeOK, VaultTypeOK, VaultAssumption
<1>7. SyAccounting'
  BY <1>1, <1>2, <1>5, <1>6 DEF SplitterInv, SyAccounting
<1>8. SplitCoverage' /\ ClosedMarketHasNoTokens'
  BY <1>1, <1>2, <1>5, <1>6 DEF SplitterInv, SplitCoverage, ClosedMarketHasNoTokens
<1>9. PositionsLag'
  BY <1>2 DEF SplitterInv, PositionsLag
<1>10. QED BY <1>4, <1>7, <1>8, <1>9 DEF SplitterInv

\* No SY is created or lost by splitting and redeeming, the counters follow the mints, no
\* position runs ahead of its market and a closed market has nobody left in it: in every
\* interleaving of splitter and vault transactions.
THEOREM SplitterIsSound == SplitterSpec => []SplitterInv
<1>1. SplitterInit => SplitterInv
  <2> SUFFICES ASSUME SplitterInit PROVE SplitterInv
    OBVIOUS
  <2>1. VaultTypeOK
    BY InitTyped, VaultAssumption DEF SplitterInit
  <2>2. SplitterTypeOK
    <3>1. /\ position \in [Users -> Position \cup {NoPosition}]
          /\ owed \in [Users -> Int] /\ disturbed \in [Users -> BOOLEAN]
      BY DEF SplitterInit
    <3>2. U64Max \in Nat /\ MaxFeeIndex \in Nat
      BY VaultAssumption, SplitterAssumption DEF VaultAssumption, SplitterAssumption
    <3>3. /\ market = "none" /\ splitter_authority = FALSE /\ maturity_ts = 0
          /\ fee_index = 0 /\ total_pt_issued = 0 /\ total_yt_issued = 0
      BY DEF SplitterInit
    <3>4. 0 \in 0..MaxFeeIndex /\ 0 \in 0..U64Max /\ 0 \in Nat
      BY <3>2
    <3>5. QED BY <2>1, <3>1, <3>3, <3>4 DEF SplitterTypeOK
  <2>3. "sy" \in Mints /\ "pt" \in Mints /\ "yt" \in Mints
    BY SplitterMints, VaultAssumption, SplitterAssumption
  <2>4. SyAccounting /\ SplitCoverage /\ PositionsLag /\ ClosedMarketHasNoTokens
    BY <2>3
    DEF SplitterInit, VaultInit, SyAccounting, SplitCoverage, PositionsLag,
        ClosedMarketHasNoTokens
  <2>5. QED BY <2>2, <2>4 DEF SplitterInv
<1>2. SplitterInv /\ [SplitterNext]_allVars => SplitterInv'
  <2> SUFFICES ASSUME SplitterInv, [SplitterNext]_allVars PROVE SplitterInv'
    OBVIOUS
  <2>1. CASE SplitterStep
    BY <2>1, VaultAssumption, SplitterAssumption, CreateMarketKeeps, MintPtYtKeeps,
       RedeemPrincipalKeeps, RedeemYieldKeeps, CloseMarketKeeps
    DEF SplitterStep
  <2>2. CASE VaultStep
    BY <2>2, VaultAssumption, SplitterAssumption, VaultStepKeeps
  <2>3. CASE UNCHANGED allVars
    <3>1. VaultTypeOK' /\ UNCHANGED <<splVars, totalVars>>
      BY <2>3, VaultUnchangedTyped DEF allVars, SplitterInv, SplitterTypeOK
    <3>2. QED
      BY <2>3, <3>1
      DEF allVars, splitterVars, marketVars, issueVars, yieldVars, splVars, totalVars,
          SplitterInv, SplitterTypeOK, SyAccounting, SplitCoverage, PositionsLag,
          ClosedMarketHasNoTokens
  <2>4. QED BY <2>1, <2>2, <2>3 DEF SplitterNext
<1>3. QED BY <1>1, <1>2, PTL DEF SplitterSpec
-----------------------------------------------------------------------------
(* The yield of a steady holder.                                           *)

\* A claim that fits a u64: what a holder gets is then its whole claim.
ClaimsFit ==
    \A u \in Users, i \in 0..MaxFeeIndex :
        RedeemYield(u, i) => ScaledClaim(u, i) \div FEE_INDEX_SCALE <= U64Max

\* Quotient and remainder make up the number.
LEMMA DivisionIsExact ==
    ASSUME NEW n \in Nat, NEW d \in Nat \ {0}
    PROVE  n - (n \div d) * d = n % d
OBVIOUS

\* A smaller number is its own remainder.
LEMMA SmallIsOwnRemainder ==
    ASSUME NEW n \in Nat, NEW m \in Nat, n <= m
    PROVE  n % (m + 1) = n
OBVIOUS

\* A gap over two stretches of the index earns what the stretches earn.
LEMMA GapsAdd ==
    ASSUME NEW a \in Int, NEW b \in Int, NEW c \in Int, NEW held \in Int
    PROVE  (b - a) * held + (c - b) * held = (c - a) * held
OBVIOUS

\* A step that moves no index and no position keeps steady holders paid: a holder whose
\* YT moved either was up to date or is now marked.
LEMMA SteadyWhenBalancesMove ==
    ASSUME SplitterInv, SplitterInv', SplitterAssumption, SteadyHolderPaidExactly, Disturb,
           UNCHANGED <<fee_index, owed>>,
           \A u \in Users : \/ position'[u] = position[u]
                            \/ /\ position[u] = NoPosition
                               /\ balance'["yt"][u] # balance["yt"][u]
                               /\ position'[u].last_fee_index = fee_index
                               /\ position'[u].pending_yield_scaled = 0
    PROVE  SteadyHolderPaidExactly'
<1> SUFFICES ASSUME NEW u \in Users, position'[u] # NoPosition, ~disturbed'[u]
             PROVE  owed'[u] = position'[u].pending_yield_scaled
                      + (fee_index' - position'[u].last_fee_index) * balance'["yt"][u]
  BY DEF SteadyHolderPaidExactly
<1>1. /\ ~disturbed[u]
      /\ balance'["yt"][u] # balance["yt"][u]
           => IF position[u] = NoPosition THEN owed[u] = 0
              ELSE ~(position[u].last_fee_index < fee_index)
  BY DEF Disturb
<1>2. /\ "yt" \in Mints /\ fee_index \in Int /\ owed[u] \in Int
      /\ balance["yt"][u] \in Int /\ balance'["yt"][u] \in Int
  BY DEF SplitterInv, SplitterTypeOK, VaultTypeOK, SplitterAssumption
<1>3. CASE position'[u] = position[u]
  <2>1. position[u] # NoPosition /\ position[u] \in Position
    BY <1>3 DEF SplitterInv, SplitterTypeOK
  <2>2. /\ position[u].last_fee_index \in Int /\ position[u].pending_yield_scaled \in Int
        /\ position[u].last_fee_index <= fee_index
    BY <2>1, SplitterAssumption DEF Position, SplitterInv, PositionsLag, SplitterAssumption
  <2>3. owed[u] = position[u].pending_yield_scaled
                    + (fee_index - position[u].last_fee_index) * balance["yt"][u]
    BY <1>1, <2>1 DEF SteadyHolderPaidExactly
  <2>4. CASE balance'["yt"][u] = balance["yt"][u]
    BY <1>3, <2>3, <2>4
  <2>5. CASE balance'["yt"][u] # balance["yt"][u]
    <3>1. fee_index - position[u].last_fee_index = 0
      BY <1>1, <1>2, <2>1, <2>2, <2>5
    <3>2. owed[u] = position[u].pending_yield_scaled
      BY <1>2, <2>2, <2>3, <3>1
    <3>3. QED BY <1>2, <1>3, <2>2, <3>1, <3>2
  <2>6. QED BY <2>4, <2>5
<1>4. CASE position'[u] # position[u]
  <2>1. /\ position[u] = NoPosition /\ balance'["yt"][u] # balance["yt"][u]
        /\ position'[u].last_fee_index = fee_index
        /\ position'[u].pending_yield_scaled = 0
    BY <1>4
  <2>2. owed'[u] = 0 /\ fee_index' - position'[u].last_fee_index = 0
    BY <1>1, <1>2, <2>1
  <2>3. QED BY <1>2, <2>1, <2>2
<1>5. QED BY <1>3, <1>4

\* redeem_yield pays a steady holder to the scaled unit, and moves the index for the others.
LEMMA SteadyWhenIndexMoves ==
    ASSUME SplitterInv, VaultAssumption, SplitterAssumption, SteadyHolderPaidExactly,
           NEW u \in Users, NEW i \in 0..MaxFeeIndex, RedeemYield(u, i),
           ScaledClaim(u, i) \div FEE_INDEX_SCALE <= U64Max
    PROVE  SteadyHolderPaidExactly'
<1>1. /\ position[u] # NoPosition /\ IndexValid(u, i)
      /\ fee_index' = i /\ disturbed' = disturbed
      /\ position' = [position EXCEPT ![u] =
                        [last_fee_index |-> i, pending_yield_scaled |-> Remainder(u, i)]]
      /\ owed' = [v \in Users |->
                    owed[v] + (i - fee_index) * balance["yt"][v]
                      - (IF v = u THEN Claimable(u, i) * FEE_INDEX_SCALE ELSE 0)]
  BY DEF RedeemYield
<1>2. /\ ScaledClaim(u, i) \in Nat /\ Claimable(u, i) \in 0..U64Max
      /\ U64Max \in Nat /\ FEE_INDEX_SCALE \in Nat \ {0}
      /\ fee_index \in Int /\ i \in Int /\ "yt" \in Mints
  BY <1>1, ClaimTyped
  DEF VaultAssumption, SplitterAssumption, SplitterInv, SplitterTypeOK
<1>3. balance' = balance
  <2>1. UNCHANGED vaultVars \/ TransferFeesForSplitter(Claimable(u, i))
    BY DEF RedeemYield
  <2>2. UNCHANGED splVars
    BY <1>2, <2>1, YieldTyped, VaultUnchangedTyped DEF SplitterInv, SplitterTypeOK
  <2>3. QED BY <2>2 DEF splVars
<1> SUFFICES ASSUME NEW v \in Users, position'[v] # NoPosition, ~disturbed'[v]
             PROVE  owed'[v] = position'[v].pending_yield_scaled
                      + (fee_index' - position'[v].last_fee_index) * balance'["yt"][v]
  BY DEF SteadyHolderPaidExactly
<1>4. position[v] # NoPosition /\ position[v] \in Position
  BY <1>1 DEF SplitterInv, SplitterTypeOK
<1>5. /\ position[v].last_fee_index \in Int /\ position[v].pending_yield_scaled \in Int
      /\ balance["yt"][v] \in Int /\ owed[v] \in Int
  BY <1>2, <1>4, SplitterAssumption
  DEF Position, SplitterInv, SplitterTypeOK, VaultTypeOK, SplitterAssumption
<1>6. owed[v] = position[v].pending_yield_scaled
                  + (fee_index - position[v].last_fee_index) * balance["yt"][v]
  BY <1>1, <1>4 DEF SteadyHolderPaidExactly
<1>7. owed[v] + (i - fee_index) * balance["yt"][v]
        = position[v].pending_yield_scaled
            + (i - position[v].last_fee_index) * balance["yt"][v]
  <2> DEFINE last == position[v].last_fee_index
             pending == position[v].pending_yield_scaled
             held == balance["yt"][v]
             earned == (fee_index - last) * held
             earns == (i - fee_index) * held
  <2>1. last \in Int /\ pending \in Int /\ held \in Int /\ fee_index \in Int /\ i \in Int
    BY <1>2, <1>5
  <2>2. owed[v] = pending + earned
    BY <1>6
  <2> HIDE DEF last, pending, held
  <2>3. earned \in Int /\ earns \in Int
    BY <2>1
  <2>4. earned + earns = (i - last) * held
    BY <2>1, GapsAdd
  <2> HIDE DEF earned, earns
  <2>5. owed[v] + earns = pending + (earned + earns)
    BY <2>1, <2>2, <2>3
  <2>6. owed[v] + earns = pending + (i - last) * held
    BY <2>4, <2>5
  <2>7. QED BY <2>6 DEF earns, last, pending, held
<1>8. CASE v # u
  BY <1>1, <1>2, <1>3, <1>5, <1>7, <1>8
<1>9. CASE v = u
  <2> DEFINE scaled == ScaledClaim(u, i)
             whole == scaled \div FEE_INDEX_SCALE
  <2>1. owed[u] + (i - fee_index) * balance["yt"][u] = scaled
    <3>1. (i - position[u].last_fee_index) * balance["yt"][u] \in Int
      BY <1>2, <1>5, <1>9
    <3>2. QED BY <1>2, <1>5, <1>7, <1>9, <3>1 DEF ScaledClaim
  <2>2. Claimable(u, i) = whole % (U64Max + 1) /\ Remainder(u, i) = scaled % FEE_INDEX_SCALE
    BY DEF Claimable, Remainder
  <2>3. scaled \in Nat /\ whole <= U64Max
    BY <1>2
  <2> HIDE DEF scaled
  <2>4. whole \in Nat
    BY <1>2, <2>3
  <2>5. scaled - whole * FEE_INDEX_SCALE = scaled % FEE_INDEX_SCALE
    BY <1>2, <2>3, DivisionIsExact
  <2> HIDE DEF whole
  <2>6. Claimable(u, i) = whole
    BY <1>2, <2>2, <2>3, <2>4, SmallIsOwnRemainder
  <2>7. owed'[u] = scaled - whole * FEE_INDEX_SCALE
    <3> DEFINE gross == owed[u] + (i - fee_index) * balance["yt"][u]
               paid(w) == IF w = u THEN Claimable(u, i) * FEE_INDEX_SCALE ELSE 0
    <3>1. owed' = [w \in Users |-> owed[w] + (i - fee_index) * balance["yt"][w] - paid(w)]
      BY <1>1
    <3> HIDE DEF paid
    <3>2. paid(u) = whole * FEE_INDEX_SCALE
      BY <2>6 DEF paid
    <3>3. paid(u) \in Int /\ owed[u] \in Int /\ balance["yt"][u] \in Int
      BY <1>2, <1>5, <1>9, <2>4, <3>2
    <3>4. owed'[u] = gross - paid(u)
      BY <1>2, <3>1, <3>3
    <3>5. gross = scaled
      BY <2>1
    <3> HIDE DEF gross
    <3>6. QED BY <3>2, <3>4, <3>5
  <2>8. owed'[u] = Remainder(u, i)
    BY <2>2, <2>5, <2>7
  <2>9. /\ position'[u].pending_yield_scaled = Remainder(u, i)
        /\ fee_index' - position'[u].last_fee_index = 0
    BY <1>1, <1>2 DEF SplitterInv, SplitterTypeOK
  <2>10. Remainder(u, i) \in Int
    BY <1>1, <1>2, ClaimTyped DEF SplitterAssumption
  <2>11. QED BY <1>3, <1>5, <1>9, <2>8, <2>9, <2>10
<1>10. QED BY <1>8, <1>9

\* A holder with a position whose YT never moved while it lagged has been paid to the
\* scaled unit, whoever else moved the index in between, as long as no claim is cut: the
\* cast of compute_yield_claim is the only thing in its way.
THEOREM SteadyHoldersArePaid ==
    SplitterSpec /\ [][ClaimsFit]_allVars => []SteadyHolderPaidExactly
<1>1. SplitterInit => SteadyHolderPaidExactly
  BY DEF SplitterInit, SteadyHolderPaidExactly
<1>2. SplitterInv /\ SplitterInv' /\ SteadyHolderPaidExactly
        /\ [SplitterNext]_allVars /\ [ClaimsFit]_allVars
        => SteadyHolderPaidExactly'
  <2> SUFFICES ASSUME SplitterInv, SplitterInv', SteadyHolderPaidExactly,
                      [SplitterNext]_allVars, [ClaimsFit]_allVars
               PROVE  SteadyHolderPaidExactly'
    OBVIOUS
  <2>1. ASSUME NEW u \in Users, NEW i \in 0..MaxFeeIndex, RedeemYield(u, i), ClaimsFit
        PROVE  SteadyHolderPaidExactly'
    BY <2>1, SteadyWhenIndexMoves, VaultAssumption, SplitterAssumption DEF ClaimsFit
  <2>2. ASSUME NEW u \in Users, NEW a \in Amounts, MintPtYt(u, a)
        PROVE  SteadyHolderPaidExactly'
    <3> DEFINE opened == [last_fee_index |-> fee_index, pending_yield_scaled |-> 0]
    <3>1. Disturb /\ UNCHANGED <<fee_index, owed>>
      BY <2>2 DEF MintPtYt
    <3>2. position' = IF position[u] # NoPosition THEN position
                      ELSE [position EXCEPT ![u] = opened]
      BY <2>2 DEF MintPtYt
    <3>3. balance'["yt"][u] # balance["yt"][u]
      <4>1. "yt" \in Mints /\ balance["yt"] \in [Users -> Nat] /\ a \in 1..U64Max /\ U64Max \in Nat
        BY VaultAssumption, SplitterAssumption
        DEF SplitterInv, SplitterTypeOK, VaultTypeOK, VaultAssumption, SplitterAssumption
      <4>2. balance'["yt"] = [balance["yt"] EXCEPT ![u] = balance["yt"][u] + a]
        BY <2>2, <4>1 DEF MintPtYt, Exchange, ExchangeAccepted
      <4>3. QED BY <4>1, <4>2
    <3>4. position \in [Users -> Position \cup {NoPosition}]
      BY DEF SplitterInv, SplitterTypeOK
    <3>5. \A v \in Users : \/ position'[v] = position[v]
                           \/ /\ position[v] = NoPosition
                              /\ balance'["yt"][v] # balance["yt"][v]
                              /\ position'[v].last_fee_index = fee_index
                              /\ position'[v].pending_yield_scaled = 0
      BY <3>2, <3>3, <3>4
    <3>6. QED BY <3>1, <3>5, SteadyWhenBalancesMove, SplitterAssumption
  <2>3. ASSUME NEW u \in Users, NEW a \in Amounts, RedeemPrincipal(u, a)
        PROVE  SteadyHolderPaidExactly'
    BY <2>3, SteadyWhenBalancesMove, SplitterAssumption DEF RedeemPrincipal, yieldVars
  <2>4. CASE VaultStep
    BY <2>4, SteadyWhenBalancesMove, SplitterAssumption DEF VaultStep, yieldVars
  <2>5. CASE (\E t \in Maturities : CreateMarket(t)) \/ CloseMarket \/ UNCHANGED allVars
    <3>1. UNCHANGED <<balance, fee_index, position, owed, disturbed>>
      BY <2>5
      DEF CreateMarket, CloseMarket, allVars, vaultVars, splVars, splitterVars, yieldVars
    <3>2. QED BY <3>1 DEF SteadyHolderPaidExactly
  <2>6. CASE UNCHANGED allVars
    BY <2>5, <2>6
  <2>7. CASE SplitterNext /\ ClaimsFit
    BY <2>1, <2>2, <2>3, <2>4, <2>5, <2>7 DEF SplitterNext, SplitterStep
  <2>8. QED BY <2>6, <2>7
<1>3. QED BY <1>1, <1>2, SplitterIsSound, PTL DEF SplitterSpec
-----------------------------------------------------------------------------
(* A matched pair is never locked in: redeem_principal burns from two mints and subtracts *)
(* from two counters, and each could be short of a pair that its holder has.              *)

\* The tokens of a mint, one by one, each owned by at most one holder: n tokens there are
\* enough for what b says the holders have.
Backed(n, b) ==
    \E tokens, of :
        /\ IsFiniteSet(tokens) /\ tokens \subseteq Nat /\ Cardinality(tokens) = n
        /\ \A u \in Users : of[u] \subseteq tokens /\ Cardinality(of[u]) = b[u]
        /\ \A u, v \in Users : u # v => of[u] \cap of[v] = {}

\* A finite set has subsets of every smaller size.
LEMMA SomeOf ==
    ASSUME NEW s, IsFiniteSet(s), NEW k \in Nat, k <= Cardinality(s)
    PROVE  \E part \in SUBSET s : IsFiniteSet(part) /\ Cardinality(part) = k
<1> DEFINE n == Cardinality(s)
<1>1. n \in Nat
  BY FS_CardinalityType
<1>2. PICK f \in Bijection(1..n, s) : TRUE
  BY FS_CardinalityType DEF ExistsBijection
<1> DEFINE part == {f[i] : i \in 1..k}
           g == [i \in 1..k |-> f[i]]
<1>3. /\ f \in [1..n -> s] /\ 1..k \subseteq 1..n
      /\ \A i, j \in 1..n : f[i] = f[j] => i = j
  BY <1>1, <1>2 DEF Bijection, Injection, IsInjective
<1>4. part \in SUBSET s
  BY <1>3
<1>5. g \in Bijection(1..k, part)
  BY <1>3 DEF Bijection, Injection, Surjection, IsInjective
<1>6. IsFiniteSet(1..k) /\ Cardinality(1..k) = k
  BY FS_Interval
<1>7. IsFiniteSet(part) /\ Cardinality(part) = k
  BY <1>5, <1>6, FS_Bijection DEF ExistsBijection
<1>8. QED BY <1>4, <1>7

\* The cardinality of a disjoint union.
LEMMA UnionCounted ==
    ASSUME NEW s, NEW t, IsFiniteSet(s), IsFiniteSet(t), s \cap t = {}
    PROVE  /\ IsFiniteSet(s \cup t)
           /\ Cardinality(s \cup t) = Cardinality(s) + Cardinality(t)
<1>1. Cardinality(s) \in Nat /\ Cardinality(t) \in Nat
  BY FS_CardinalityType
<1>2. Cardinality(s \cap t) = 0
  BY FS_EmptySet
<1>3. /\ IsFiniteSet(s \cup t)
      /\ Cardinality(s \cup t) = Cardinality(s) + Cardinality(t) - Cardinality(s \cap t)
  BY FS_Union
<1>4. QED BY <1>1, <1>2, <1>3

\* The cardinality of what a part leaves.
LEMMA RestCounted ==
    ASSUME NEW s, NEW t \in SUBSET s, IsFiniteSet(s)
    PROVE  /\ IsFiniteSet(s \ t)
           /\ Cardinality(s \ t) = Cardinality(s) - Cardinality(t)
<1>1. s \cap t = t
  OBVIOUS
<1>2. /\ IsFiniteSet(s \ t)
      /\ Cardinality(s \ t) = Cardinality(s) - Cardinality(s \cap t)
  BY FS_Difference
<1>3. QED BY <1>1, <1>2

\* There are as many fresh tokens as one may mint.
LEMMA Fresh ==
    ASSUME NEW s, IsFiniteSet(s), NEW k \in Nat
    PROVE  \E more \in SUBSET Nat :
               IsFiniteSet(more) /\ Cardinality(more) = k /\ more \cap s = {}
<1> DEFINE n == Cardinality(s)
           m == n + k
           r == 1..m
           known == r \cap s
           rest == r \ known
<1>1. IsFiniteSet(r) /\ Cardinality(r) = m
  <2>1. n \in Nat
    BY FS_CardinalityType
  <2>2. m \in Nat
    BY <2>1
  <2> HIDE DEF m
  <2>3. IsFiniteSet(r) /\ Cardinality(r) = IF 1 > m THEN 0 ELSE m - 1 + 1
    BY <2>2, FS_Interval
  <2>4. QED BY <2>2, <2>3
<1>2. n \in Nat /\ m = n + k /\ r \subseteq Nat
  BY FS_CardinalityType
<1> HIDE DEF r, m
<1>3. known \subseteq s /\ known \subseteq r
  OBVIOUS
<1>4. Cardinality(known) \in Nat /\ Cardinality(known) <= n
  BY <1>3, FS_Subset, FS_CardinalityType
<1> HIDE DEF n, known
<1>5. IsFiniteSet(rest) /\ Cardinality(rest) = m - Cardinality(known)
  BY <1>1, <1>3, RestCounted
<1>6. k <= Cardinality(rest)
  BY <1>2, <1>4, <1>5
<1>7. rest \subseteq Nat /\ rest \cap s = {}
  BY <1>2 DEF known
<1> HIDE DEF rest
<1>8. PICK part \in SUBSET rest : IsFiniteSet(part) /\ Cardinality(part) = k
  BY <1>5, <1>6, SomeOf
<1>9. QED BY <1>7, <1>8

\* Nobody holds more than there is.
LEMMA HoldingIsBacked ==
    ASSUME NEW n, NEW b, Backed(n, b), NEW u \in Users
    PROVE  b[u] <= n
BY FS_Subset DEF Backed

\* A mint backs what it mints.
LEMMA MintIsBacked ==
    ASSUME NEW n \in Nat, NEW b \in [Users -> Nat], Backed(n, b), NEW u \in Users, NEW k \in Nat
    PROVE  Backed(n + k, [b EXCEPT ![u] = b[u] + k])
<1>1. PICK tokens, of :
        /\ IsFiniteSet(tokens) /\ tokens \subseteq Nat /\ Cardinality(tokens) = n
        /\ \A v \in Users : of[v] \subseteq tokens /\ Cardinality(of[v]) = b[v]
        /\ \A v, w \in Users : v # w => of[v] \cap of[w] = {}
  BY DEF Backed
<1>2. PICK more \in SUBSET Nat :
        IsFiniteSet(more) /\ Cardinality(more) = k /\ more \cap tokens = {}
  BY <1>1, Fresh
<1> DEFINE all == tokens \cup more
           now_of == [v \in Users |-> IF v = u THEN of[u] \cup more ELSE of[v]]
           c == [b EXCEPT ![u] = b[u] + k]
<1>3. IsFiniteSet(of[u]) /\ of[u] \cap more = {}
  BY <1>1, <1>2, FS_Subset
<1>5. IsFiniteSet(all) /\ all \subseteq Nat /\ Cardinality(all) = n + k
  BY <1>1, <1>2, UnionCounted
<1>6. Cardinality(of[u] \cup more) = b[u] + k
  BY <1>1, <1>2, <1>3, UnionCounted
<1>7. \A v \in Users : now_of[v] \subseteq all /\ Cardinality(now_of[v]) = c[v]
  BY <1>1, <1>6
<1>8. \A v, w \in Users : v # w => now_of[v] \cap now_of[w] = {}
  BY <1>1, <1>2
<1> HIDE DEF all, now_of, c
<1>9. Backed(n + k, c)
  BY <1>5, <1>7, <1>8 DEF Backed
<1>10. QED BY <1>9 DEF c

\* A burn leaves the rest backed.
LEMMA BurnIsBacked ==
    ASSUME NEW n \in Nat, NEW b \in [Users -> Nat], Backed(n, b), NEW u \in Users,
           NEW k \in Nat, k <= b[u]
    PROVE  Backed(n - k, [b EXCEPT ![u] = b[u] - k])
<1>1. PICK tokens, of :
        /\ IsFiniteSet(tokens) /\ tokens \subseteq Nat /\ Cardinality(tokens) = n
        /\ \A v \in Users : of[v] \subseteq tokens /\ Cardinality(of[v]) = b[v]
        /\ \A v, w \in Users : v # w => of[v] \cap of[w] = {}
  BY DEF Backed
<1>2. IsFiniteSet(of[u]) /\ Cardinality(of[u]) = b[u]
  BY <1>1, FS_Subset
<1>3. PICK gone \in SUBSET of[u] : IsFiniteSet(gone) /\ Cardinality(gone) = k
  BY <1>2, SomeOf
<1> DEFINE all == tokens \ gone
           now_of == [v \in Users |-> IF v = u THEN of[u] \ gone ELSE of[v]]
           c == [b EXCEPT ![u] = b[u] - k]
<1>4. gone \in SUBSET tokens
  BY <1>1, <1>3
<1>5. IsFiniteSet(all) /\ all \subseteq Nat /\ Cardinality(all) = n - k
  BY <1>1, <1>3, <1>4, RestCounted
<1>6. Cardinality(of[u] \ gone) = b[u] - k
  BY <1>2, <1>3, RestCounted
<1>7. \A v \in Users : v # u => of[v] \cap gone = {}
  BY <1>1, <1>3
<1>8. \A v \in Users : now_of[v] \subseteq all /\ Cardinality(now_of[v]) = c[v]
  BY <1>1, <1>6, <1>7
<1>9. \A v, w \in Users : v # w => now_of[v] \cap now_of[w] = {}
  BY <1>1
<1> HIDE DEF all, now_of, c
<1>10. Backed(n - k, c)
  BY <1>5, <1>8, <1>9 DEF Backed
<1>11. QED BY <1>10 DEF c

\* Every mint backs what its holders have.
Ledger == \A m \in Mints : Backed(supply[m], balance[m])

\* Types of one mint.
LEMMA MintTyped ==
    ASSUME VaultTypeOK, NEW m \in Mints
    PROVE  supply[m] \in Nat /\ balance[m] \in [Users -> Nat] /\ DOMAIN supply = Mints
BY DEF VaultTypeOK

\* A step of one mint: the others are as they were.
LEMMA OneMint ==
    ASSUME VaultTypeOK, Ledger, NEW m \in Mints, NEW n, NEW b,
           supply' = [supply EXCEPT ![m] = n], balance' = [balance EXCEPT ![m] = b],
           Backed(n, b)
    PROVE  Ledger'
<1>1. \A k \in Mints : /\ supply'[k] = IF k = m THEN n ELSE supply[k]
                       /\ balance'[k] = IF k = m THEN b ELSE balance[k]
  BY DEF VaultTypeOK
<1>2. \A k \in Mints : Backed(supply'[k], balance'[k])
  BY <1>1 DEF Ledger
<1>3. QED BY <1>2 DEF Ledger, Backed

\* A ledger that did not move is backed.
LEMMA LedgerRests ==
    ASSUME Ledger, UNCHANGED <<supply, balance>>
    PROVE  Ledger'
BY DEF Ledger, Backed

\* Wrapping fees, burning and handing over tokens.
LEMMA VaultStepLedger ==
    ASSUME VaultTypeOK, VaultAssumption, Ledger,
           CreatorStep \/ AdminStep \/ FeeStep \/ SplStep
    PROVE  Ledger'
<1>1. \A a \in Amounts : a \in Nat
  BY DEF VaultAssumption
<1>2. CASE CreatorStep
  BY <1>2, LedgerRests
  DEF CreatorStep, WithdrawFees, SetSweeperDelegate, ClearSweeperDelegate, splVars
<1>3. CASE AdminStep
  BY <1>3, LedgerRests
  DEF AdminStep, SetRewardsSplit, UpdateAdmin, SetPause, LockCollateral, UnlockCollateral,
      splVars
<1>4. CASE Tick \/ \E a \in Amounts : ReceiveFees(a) \/ DelegateSweep(a)
  BY <1>4, LedgerRests DEF Tick, ReceiveFees, DelegateSweep, splVars
<1>5. ASSUME NEW u \in Users, NEW a \in Amounts, WrapFees(u, a)
      PROVE  Ledger'
  <2> DEFINE n == supply["sy"] + a
             b == [balance["sy"] EXCEPT ![u] = balance["sy"][u] + a]
  <2>1. "sy" \in Mints
    BY DEF VaultAssumption
  <2>2. supply' = [supply EXCEPT !["sy"] = n] /\ balance' = [balance EXCEPT !["sy"] = b]
    BY <1>5 DEF WrapFees, SplMint
  <2>3. Backed(n, b)
    BY <1>1, <2>1, MintTyped, MintIsBacked DEF Ledger
  <2> HIDE DEF n, b
  <2>4. QED BY <2>1, <2>2, <2>3, OneMint
<1>6. ASSUME NEW m \in Mints, NEW u \in Users, NEW a \in Amounts, SplBurn(m, u, a)
      PROVE  Ledger'
  <2> DEFINE n == supply[m] - a
             b == [balance[m] EXCEPT ![u] = balance[m][u] - a]
  <2>1. /\ supply' = [supply EXCEPT ![m] = n] /\ balance' = [balance EXCEPT ![m] = b]
        /\ balance[m][u] >= a
    BY <1>6 DEF SplBurn
  <2>2. balance[m][u] \in Nat /\ a <= balance[m][u]
    BY <1>1, <2>1, MintTyped
  <2>3. Backed(n, b)
    BY <1>1, <2>2, MintTyped, BurnIsBacked DEF Ledger
  <2> HIDE DEF n, b
  <2>4. QED BY <2>1, <2>3, OneMint
<1>7. ASSUME NEW m \in Mints, NEW u \in Users, NEW v \in Users, NEW a \in Amounts,
             SplTransfer(m, u, v, a)
      PROVE  Ledger'
  <2> DEFINE n == supply[m]
             b == balance[m]
             c == [b EXCEPT ![u] = b[u] - a]
             d == [c EXCEPT ![v] = c[v] + a]
  <2>1. n \in Nat /\ b \in [Users -> Nat] /\ Backed(n, b) /\ a \in Nat
    BY <1>1, MintTyped DEF Ledger
  <2>2. b[u] \in Nat /\ a <= b[u] /\ u # v /\ supply' = supply
    BY <1>7, <2>1 DEF SplTransfer
  <2>3. balance' = [balance EXCEPT ![m] = d]
    <3>1. balance' = [balance EXCEPT ![m][u] = @ - a, ![m][v] = @ + a]
      BY <1>7 DEF SplTransfer
    <3>2. balance \in [Mints -> [Users -> Nat]]
      BY DEF VaultTypeOK
    <3>3. QED BY <3>1, <3>2
  <2> HIDE DEF n, b
  <2>4. n - a \in Nat
    BY <2>1, <2>2, HoldingIsBacked
  <2>5. Backed(n - a, c)
    BY <2>1, <2>2, BurnIsBacked DEF c
  <2>6. c \in [Users -> Nat]
    <3>1. b[u] - a \in Nat
      BY <2>1, <2>2
    <3>2. QED BY <2>1, <3>1 DEF c
  <2> HIDE DEF c
  <2>7. Backed(n, d)
    <3> DEFINE k == n - a
    <3>1. k \in Nat /\ Backed(k, c)
      BY <2>4, <2>5
    <3>2. k + a = n
      BY <2>1
    <3> HIDE DEF k
    <3>3. Backed(k + a, d)
      BY <2>1, <2>6, <3>1, MintIsBacked DEF d
    <3>4. QED BY <3>2, <3>3
  <2>8. supply' = [supply EXCEPT ![m] = n]
    BY <2>2, MintTyped DEF n, VaultTypeOK
  <2> HIDE DEF d
  <2>9. QED BY <2>3, <2>7, <2>8, OneMint
<1>8. CASE FeeStep
  BY <1>4, <1>5, <1>8 DEF FeeStep
<1>9. CASE SplStep
  BY <1>6, <1>7, <1>9 DEF SplStep
<1>10. QED BY <1>2, <1>3, <1>8, <1>9

\* Splitting and redeeming.
LEMMA ExchangeLedger ==
    ASSUME VaultTypeOK, VaultAssumption, Ledger, NEW u \in Users, NEW amount \in Amounts,
           NEW olds \in SUBSET Mints, NEW news \in SUBSET Mints, olds \cap news = {},
           Exchange(u, amount, olds, news)
    PROVE  Ledger'
<1> DEFINE delta(m) == IF m \in olds THEN -amount ELSE IF m \in news THEN amount ELSE 0
<1>1. amount \in Nat
  BY DEF VaultAssumption
<1>2. /\ \A m \in olds : balance[m][u] >= amount
      /\ supply' = [m \in Mints |-> supply[m] + delta(m)]
      /\ balance' = [m \in Mints |-> [balance[m] EXCEPT ![u] = balance[m][u] + delta(m)]]
  BY DEF Exchange, ExchangeAccepted
<1>3. ASSUME NEW m \in Mints
      PROVE  Backed(supply[m] + delta(m), [balance[m] EXCEPT ![u] = balance[m][u] + delta(m)])
  <2> DEFINE n == supply[m]
             b == balance[m]
  <2>1. n \in Nat /\ b \in [Users -> Nat] /\ Backed(n, b) /\ b[u] \in Nat
    BY MintTyped DEF Ledger
  <2>2. m \in olds => amount <= b[u]
    BY <1>1, <1>2, <2>1
  <2> HIDE DEF n, b
  <2>3. CASE m \in olds
    <3>1. Backed(n - amount, [b EXCEPT ![u] = b[u] - amount])
      BY <1>1, <2>1, <2>2, <2>3, BurnIsBacked
    <3>2. n + delta(m) = n - amount /\ b[u] + delta(m) = b[u] - amount
      BY <1>1, <2>1, <2>3
    <3>3. QED BY <3>1, <3>2 DEF n, b
  <2>4. CASE m \in news /\ m \notin olds
    <3>1. Backed(n + amount, [b EXCEPT ![u] = b[u] + amount])
      BY <1>1, <2>1, MintIsBacked
    <3>2. n + delta(m) = n + amount /\ b[u] + delta(m) = b[u] + amount
      BY <2>4
    <3>3. QED BY <3>1, <3>2 DEF n, b
  <2>5. CASE m \notin news /\ m \notin olds
    <3>1. n + delta(m) = n /\ b[u] + delta(m) = b[u]
      BY <2>1, <2>5
    <3>2. [b EXCEPT ![u] = b[u]] = b
      BY <2>1
    <3>3. QED BY <2>1, <3>1, <3>2 DEF n, b
  <2>6. QED BY <2>3, <2>4, <2>5
<1> HIDE DEF delta
<1>4. \A m \in Mints : Backed(supply'[m], balance'[m])
  BY <1>2, <1>3
<1>5. QED BY <1>4 DEF Ledger, Backed

\* Every step of the vault or of the splitter keeps the ledger backed.
LEMMA LedgerStep ==
    ASSUME VaultTypeOK, VaultAssumption, SplitterAssumption, Ledger, [SplitterNext]_allVars
    PROVE  Ledger'
<1> DEFINE Pair == {"pt", "yt"}
           Sy == {"sy"}
<1>1. Pair \in SUBSET Mints /\ Sy \in SUBSET Mints /\ Pair \cap Sy = {}
  BY SplitterMints
<1> HIDE DEF Pair, Sy
<1>2. ASSUME NEW u \in Users, NEW a \in Amounts, MintPtYt(u, a)
      PROVE  Ledger'
  BY <1>1, <1>2, ExchangeLedger DEF MintPtYt, Pair, Sy
<1>3. ASSUME NEW u \in Users, NEW a \in Amounts, RedeemPrincipal(u, a)
      PROVE  Ledger'
  BY <1>1, <1>3, ExchangeLedger DEF RedeemPrincipal, Pair, Sy
<1>4. ASSUME NEW u \in Users, NEW i \in 0..MaxFeeIndex, RedeemYield(u, i)
      PROVE  Ledger'
  BY <1>4, LedgerRests DEF RedeemYield, TransferFeesForSplitter, vaultVars, splVars
<1>5. CASE CloseMarket \/ (\E t \in Maturities : CreateMarket(t)) \/ UNCHANGED allVars
  BY <1>5, LedgerRests DEF CloseMarket, CreateMarket, allVars, vaultVars, splVars
<1>6. CASE VaultStep
  BY <1>6, VaultStepLedger DEF VaultStep
<1>7. QED BY <1>2, <1>3, <1>4, <1>5, <1>6 DEF SplitterNext, SplitterStep

\* Whoever holds a matched pair after maturity passes every check of redeem_principal, but
\* for a pause of the vault: neither a supply nor a counter is in the way, whatever
\* other holders minted, traded, burned or redeemed.
THEOREM MatchedPairsAreNeverLocked ==
    SplitterSpec => []MatchedPairRedeemable
<1>1. SplitterInit => Ledger
  <2> SUFFICES ASSUME SplitterInit PROVE Ledger
    OBVIOUS
  <2> SUFFICES ASSUME NEW m \in Mints PROVE Backed(supply[m], balance[m])
    BY DEF Ledger
  <2>1. supply[m] = 0 /\ \A u \in Users : balance[m][u] = 0
    BY DEF SplitterInit, VaultInit
  <2> DEFINE of == [u \in Users |-> {}]
  <2>2. IsFiniteSet({}) /\ Cardinality({}) = 0 /\ {} \subseteq Nat
    BY FS_EmptySet
  <2>3. \A u \in Users : of[u] = {}
    OBVIOUS
  <2> HIDE DEF of
  <2>4. QED BY <2>1, <2>2, <2>3 DEF Backed
<1>2. SplitterInv /\ Ledger /\ [SplitterNext]_allVars => Ledger'
  BY LedgerStep, VaultAssumption, SplitterAssumption DEF SplitterInv, SplitterTypeOK
<1>3. ASSUME SplitterInv, Ledger PROVE MatchedPairRedeemable
  <2> SUFFICES ASSUME NEW u \in Users, NEW a \in Amounts,
                      market = "open", now >= maturity_ts, SplitterMayCall,
                      balance["pt"][u] >= a, balance["yt"][u] >= a
               PROVE  RedeemPrincipalAccepted(u, a)
    BY DEF MatchedPairRedeemable
  <2>1. VaultTypeOK /\ a \in Nat /\ U64Max \in Nat /\ "sy" \in Mints
    BY <1>3, VaultAssumption DEF SplitterInv, SplitterTypeOK, VaultAssumption
  <2>2. ASSUME NEW m \in {"pt", "yt"} PROVE supply[m] \in Nat /\ supply[m] >= a
    <3>1. m \in Mints
      BY VaultAssumption, SplitterAssumption, SplitterMints
    <3>2. supply[m] \in Nat /\ balance[m][u] \in Nat /\ balance[m][u] >= a
      BY <2>1, <3>1, MintTyped
    <3>3. balance[m][u] <= supply[m]
      BY <1>3, <3>1, HoldingIsBacked DEF Ledger
    <3>4. QED BY <2>1, <3>2, <3>3
  <2>3. /\ supply["pt"] \in Nat /\ supply["yt"] \in Nat
        /\ supply["pt"] >= a /\ supply["yt"] >= a
    BY <2>2
  <2>4. /\ burned["pt"] \in Nat /\ burned["yt"] \in Nat /\ burned["sy"] \in Nat
        /\ supply["sy"] \in Nat /\ total_sy_minted \in 0..U64Max
        /\ total_pt_issued \in Nat /\ total_yt_issued \in Nat
    BY <1>3, <2>1, VaultAssumption, SplitterAssumption, SplitterMints
    DEF VaultTypeOK, SplitterInv, SplitterTypeOK
  <2>5. total_pt_issued >= a /\ total_yt_issued >= a
    BY <1>3, <2>1, <2>3, <2>4 DEF SplitterInv, SplitCoverage
  <2>6. supply["sy"] + a <= U64Max
    BY <1>3, <2>1, <2>4, <2>5 DEF SplitterInv, SyAccounting
  <2>7. QED BY <2>2, <2>5, <2>6 DEF RedeemPrincipalAccepted, ExchangeAccepted
<1>4. SplitterInv /\ Ledger => MatchedPairRedeemable
  BY <1>3
<1>5. QED BY <1>1, <1>2, <1>4, SplitterIsSound, PTL DEF SplitterSpec
=============================================================================
