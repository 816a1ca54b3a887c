------------------------------ MODULE Splitter ------------------------------
(***************************************************************************)
(* The splitter program composed with the creator vault it calls into: one *)
(* market splits SY into PT and YT, pays yield to YT holders out of the    *)
(* vault's fees along a fee index, and turns PT + YT back into SY after    *)
(* maturity.  The cross-program calls are part of the splitter's own       *)
(* transaction, so each action conjoins both programs' guards.             *)
(***************************************************************************)
EXTENDS CreatorVault

CONSTANTS
    FEE_INDEX_SCALE,   \* fixed-point scale of the fee index
    MaxFeeIndex,       \* bound on the fee index
    Maturities,        \* maturities named by create_market
    NoPosition         \* the user-position account does not exist

ASSUME SplitterAssumption ==
    /\ {"pt", "yt"} \subseteq Mints
    /\ FEE_INDEX_SCALE \in Nat \ {0}
    /\ MaxFeeIndex \in Nat
    /\ Maturities \subseteq Nat \ {0}

VARIABLES
    market,             \* "none", "open", or "closed" (the account is gone)
    splitter_authority, \* the splitter-authority PDA exists
    maturity_ts, fee_index, total_pt_issued, total_yt_issued,
    position,           \* position[u]: the user-position PDA, or NoPosition
    owed,               \* history: scaled yield u's YT earned less what it got
    disturbed           \* history: u's YT moved while its position lagged

marketVars   == <<market, splitter_authority, maturity_ts>>
issueVars    == <<total_pt_issued, total_yt_issued>>
yieldVars    == <<fee_index, position, owed>>
splitterVars == <<marketVars, issueVars, yieldVars, disturbed>>
allVars      == <<vaultVars, splitterVars>>

Position == [last_fee_index : 0..MaxFeeIndex,
             pending_yield_scaled : 0..(FEE_INDEX_SCALE - 1)]

SplitterInit ==
    /\ VaultInit
    /\ market = "none"
    /\ splitter_authority = FALSE
    /\ maturity_ts = 0
    /\ fee_index = 0
    /\ total_pt_issued = 0
    /\ total_yt_issued = 0
    /\ position = [u \in Users |-> NoPosition]
    /\ owed = [u \in Users |-> 0]
    /\ disturbed = [u \in Users |-> FALSE]

\* Mutant: the new tokens are minted, the old ones are never burned.
ExchangeWithoutBurn(u, amount, olds, news) ==
    LET delta(m) == IF m \in news THEN amount ELSE 0
    IN  /\ SplitterMayCall
        /\ \A m \in olds : balance[m][u] >= amount
        /\ \A m \in news : supply[m] + amount <= U64Max
        /\ supply' = [m \in Mints |-> supply[m] + delta(m)]
        /\ balance' = [m \in Mints |->
                          [balance[m] EXCEPT ![u] = @ + delta(m)]]
        /\ signers' = {SplitterPda}
        /\ UNCHANGED <<now, lockVars, roleVars, totalVars, sweeper, fee_vault,
                       burned>>

\* All that the vault and the token program check of an exchange.
ExchangeAccepted(u, amount, olds, news) ==
    /\ SplitterMayCall
    /\ \A m \in olds : balance[m][u] >= amount /\ supply[m] >= amount
    /\ \A m \in news : supply[m] + amount <= U64Max

\* Burns amount of each mint in olds and mints it in each mint in news.
Exchange(u, amount, olds, news) ==
    LET delta(m) == IF m \in olds THEN -amount
                    ELSE IF m \in news THEN amount ELSE 0
    IN  /\ ExchangeAccepted(u, amount, olds, news)
        /\ supply' = [m \in Mints |-> supply[m] + delta(m)]
        /\ balance' = [m \in Mints |->
                          [balance[m] EXCEPT ![u] = @ + delta(m)]]
        /\ signers' = {SplitterPda}
        /\ UNCHANGED <<now, lockVars, roleVars, totalVars, sweeper, fee_vault,
                       burned>>

\* Marks the holders in us whose YT balance the step changes while fees that
\* accrued to the old balance are not yet settled into their positions.
Disturb ==
    disturbed' = [u \in Users |->
        \/ disturbed[u]
        \/ /\ balance'["yt"][u] # balance["yt"][u]
           /\ IF position[u] = NoPosition THEN owed[u] # 0
              ELSE position[u].last_fee_index < fee_index]

-----------------------------------------------------------------------------
CreateMarket(maturity) ==
    /\ SplitterRegistered
    /\ ~splitter_authority
    /\ market' = "open"
    /\ splitter_authority' = TRUE
    /\ maturity_ts' = maturity
    /\ UNCHANGED <<vaultVars, issueVars, yieldVars, disturbed>>

\* Mutant: only PT is counted.
IssuePtOnly(amount) ==
    /\ total_pt_issued + amount <= U64Max
    /\ total_pt_issued' = total_pt_issued + amount
    /\ UNCHANGED total_yt_issued

\* The two counters move together.
Issue(amount) ==
    /\ total_pt_issued + amount <= U64Max
    /\ total_yt_issued + amount <= U64Max
    /\ total_pt_issued' = total_pt_issued + amount
    /\ total_yt_issued' = total_yt_issued + amount

MintPtYt(u, amount) ==
    /\ market = "open"
    /\ Exchange(u, amount, {"sy"}, {"pt", "yt"})
    /\ Issue(amount)
    /\ position' = IF position[u] # NoPosition THEN position
                   ELSE [position EXCEPT ![u] =
                            [last_fee_index |-> fee_index,
                             pending_yield_scaled |-> 0]]
    /\ Disturb
    /\ UNCHANGED <<marketVars, fee_index, owed>>

\* compute_yield_claim: the claim is cast to u64, the remainder is kept.
ScaledClaim(u, new_fee_index) ==
    (new_fee_index - position[u].last_fee_index) * balance["yt"][u]
        + position[u].pending_yield_scaled
Claimable(u, new_fee_index) ==
    (ScaledClaim(u, new_fee_index) \div FEE_INDEX_SCALE) % (U64Max + 1)

\* Mutant: the fraction below one unit is dropped.
RemainderDropped(u, new_fee_index) == 0

Remainder(u, new_fee_index) ==
    ScaledClaim(u, new_fee_index) % FEE_INDEX_SCALE

\* The index may not fall, nor (in compute_yield_claim) precede the position's.
IndexValid(u, new_fee_index) ==
    /\ new_fee_index >= fee_index
    /\ position[u].last_fee_index <= new_fee_index

\* A claim that rounds to zero calls nobody and so ignores the vault's pause.
RedeemYield(u, new_fee_index) ==
    /\ market = "open"
    /\ position[u] # NoPosition
    /\ IndexValid(u, new_fee_index)
    /\ balance["yt"][u] > 0
    /\ LET claimable == Claimable(u, new_fee_index)
       IN  /\ IF claimable = 0 THEN UNCHANGED vaultVars
                               ELSE TransferFeesForSplitter(claimable)
           /\ owed' = [v \in Users |->
                 owed[v] + (new_fee_index - fee_index) * balance["yt"][v]
                   - (IF v = u THEN claimable * FEE_INDEX_SCALE ELSE 0)]
    /\ fee_index' = new_fee_index
    /\ position' = [position EXCEPT ![u] =
                      [last_fee_index |-> new_fee_index,
                       pending_yield_scaled |-> Remainder(u, new_fee_index)]]
    /\ UNCHANGED <<marketVars, issueVars, disturbed>>

\* All that redeem_principal checks, its calls of the vault included.
RedeemPrincipalAccepted(u, amount) ==
    /\ market = "open"
    /\ now >= maturity_ts
    /\ ExchangeAccepted(u, amount, {"pt", "yt"}, {"sy"})
    /\ total_pt_issued >= amount
    /\ total_yt_issued >= amount

RedeemPrincipal(u, amount) ==
    /\ RedeemPrincipalAccepted(u, amount)
    /\ Exchange(u, amount, {"pt", "yt"}, {"sy"})
    /\ total_pt_issued' = total_pt_issued - amount
    /\ total_yt_issued' = total_yt_issued - amount
    /\ Disturb
    /\ UNCHANGED <<marketVars, yieldVars>>

\* Signed by the creator and the admin; the PDA of the splitter stays behind.
CloseMarket ==
    /\ market = "open"
    /\ total_pt_issued = 0
    /\ supply["pt"] = 0
    /\ total_yt_issued = supply["yt"]
    /\ total_yt_issued = 0
    /\ market' = "closed"
    /\ UNCHANGED <<vaultVars, splitter_authority, maturity_ts, issueVars,
                   yieldVars, disturbed>>

-----------------------------------------------------------------------------
\* Steps of the vault that the splitter is no party to.
VaultStep ==
    /\ CreatorStep \/ AdminStep \/ FeeStep \/ SplStep
    /\ Disturb
    /\ UNCHANGED <<marketVars, issueVars, yieldVars>>

SplitterStep ==
    \/ \E t \in Maturities : CreateMarket(t)
    \/ \E u \in Users, a \in Amounts : MintPtYt(u, a) \/ RedeemPrincipal(u, a)
    \/ \E u \in Users, i \in 0..MaxFeeIndex : RedeemYield(u, i)
    \/ CloseMarket

SplitterNext == SplitterStep \/ VaultStep

SplitterSpec == SplitterInit /\ [][SplitterNext]_allVars

-----------------------------------------------------------------------------
SplitterTypeOK ==
    /\ VaultTypeOK
    /\ market \in {"none", "open", "closed"}
    /\ splitter_authority \in BOOLEAN
    /\ maturity_ts \in Nat
    /\ fee_index \in 0..MaxFeeIndex
    /\ total_pt_issued \in 0..U64Max
    /\ total_yt_issued \in 0..U64Max
    /\ position \in [Users -> Position \cup {NoPosition}]
    /\ owed \in [Users -> Int]
    /\ disturbed \in [Users -> BOOLEAN]

\* Every SY ever wrapped is still SY, or locked in an unredeemed PT, or was
\* burned by its holder: splitting and redeeming never create or lose one,
\* although redeem_principal mints SY outside wrap_fees.
SyAccounting ==
    total_sy_minted = supply["sy"] + total_pt_issued + burned["sy"]

\* PT and YT are issued in pairs and the market's counters, which only the
\* splitter writes, stay in step with mints that holders can burn directly;
\* the checked_sub of redeem_principal can therefore never underflow.
SplitCoverage ==
    /\ total_pt_issued = supply["pt"] + burned["pt"]
    /\ total_yt_issued = supply["yt"] + burned["yt"]
    /\ total_pt_issued = total_yt_issued

\* Whoever holds a matched pair after maturity gets its SY back, in any state
\* of the market and the vault but a pause: no counter or supply is in the way.
MatchedPairRedeemable ==
    \A u \in Users, a \in Amounts :
        /\ market = "open" /\ now >= maturity_ts /\ SplitterMayCall
        /\ balance["pt"][u] >= a /\ balance["yt"][u] >= a
        => RedeemPrincipalAccepted(u, a)

\* No position runs ahead of its market, so compute_yield_claim never fails
\* its subtraction and no interval of the index is claimed twice.
PositionsLag ==
    \A u \in Users : position[u] # NoPosition =>
        position[u].last_fee_index <= fee_index

\* A holder with a position whose YT never moved while it lagged has been paid,
\* to the scaled unit, what the index gave its YT, whoever else moved the
\* index in between and however the claims were rounded.
SteadyHolderPaidExactly ==
    \A u \in Users : position[u] # NoPosition /\ ~disturbed[u] =>
        owed[u] = position[u].pending_yield_scaled
                  + (fee_index - position[u].last_fee_index) * balance["yt"][u]

\* A market is closed only when no PT or YT is out, and none is minted after.
ClosedMarketHasNoTokens ==
    market # "open" => supply["pt"] = 0 /\ supply["yt"] = 0

\* What any holder may count on when minting, redeeming or closing: no SY is
\* created or lost, the counters follow the mints, no position runs ahead of
\* its market, and a market that closes has nobody left in it.
SplitterInv ==
    /\ SplitterTypeOK
    /\ SyAccounting
    /\ SplitCoverage
    /\ PositionsLag
    /\ ClosedMarketHasNoTokens
=============================================================================
