# attn markets: a TLA+ model

This directory models the parts of attn markets whose correctness rests on
state and order: the four Solana programs that hold money
(`protocol/programs`); of the API server the advance desk
(`protocol/crates/attn_api/src/advance.rs`) and the Squads Safe requests
(`squads.rs`, `main.rs`); the worker that makes the Safes
(`services/squads-safe-worker`); and the two frontends (`apps/dapp-prod`,
`apps/dapp`), whose handlers wait, overlap and write what they read before the
wait. TLC checks small instances; TLAPS proves the properties named below for
every value of the constants.

Contents: 1 the system; 2 the modules and the code; 3 the runs; 4 fairness;
5 the proofs; 6 where code and documents disagree; 7 what is not modelled;
8 the plan.

## 1. The system

| part | state it keeps | operations | talks to |
|---|---|---|---|
| `creator_vault` | vault account (admin, pause, lock and its expiry, reward split, totals), sweeper account, fee token account; mint authority of SY, PT, YT | wrap, withdraw, lock/unlock, delegate sweep, admin, mint and pay for the splitter | called by `splitter`; read by `stable_vault` |
| `splitter` | market account (maturity, fee index, issue counters), one position per user, one authority PDA per vault | create market, mint PT+YT, redeem yield, redeem principal, close | calls `creator_vault` |
| `rewards_vault` | pool (index, pending rewards, last treasury balance, last id), stake positions, SOL treasury | stake, unstake, claim, fund, admin | called by `stable_vault` |
| `stable_vault` | vault (assets, shares, pending SOL, ids, roles, accepted mints), stablecoin treasury, SOL vault | deposit, redeem, sweep, convert, roles, mints, dust | calls `rewards_vault`, reads `creator_vault` |
| advance desk | quote cache (two maps, in-flight and consumed sets), execution book (usage per epoch and wallet) | quote, sell, buyback | read and written by concurrent requests |
| Squads safe requests | one row per request (status, addresses, key, attempts, times) and one nonce per wallet, in Postgres | create, link, import, resubmit, override; status poll and stalled retry by two background workers | upstream Squads service |
| Safe worker | none: the chain is its state | create a Safe, look one up | the RPC node; called by the API |
| dapp-prod: Safe panel | the shown record, its form, per-wallet cache, storage, tour | look up, nonce, sign, submit, refresh, link, admin calls | the API |
| dapp-prod: application state | mode, wallet, pool, position, creators; health checks, loads; `localStorage` | switch mode, connect, load, list, deposit, borrow, repay | the bridge, the wallet adapter, the mock files |
| dapp-prod: advance page | quotes, busy flags, shown trades; retries in `api()` | quote, advance, buy back, close | the bridge proxy and through it the desk, the chain |
| dapp (demo) | pool, position, own creator, histories; timers; `localStorage` | connect, deposit, withdraw, borrow, repay, edit revenues | its storage |
| indexer | Postgres projections of the chain accounts | ingest, checkpoint | RPC node |
| landing, CLI, SDK types, notifier | none that outlives a request | | the API |

What is hard about each, with its line, is the `hazards` list of
`PROJECT.json`. In short:

- **Programs.** A transaction is atomic and a failed one leaves nothing, so the
  hard behaviour is the order of many transactions by different signers:
  a lock that lapses while the account still says it is locked; a role handed
  over between two steps; tokens that move or burn outside the program that
  counts them; integer rounding over a moving price or index; SOL balances with
  a rent floor; operation ids shared by two programs.
- **API.** Handlers run concurrently and lose their locks at every wait; a
  client that disconnects drops its handler there; expiry is decided with a
  clock read before the wait.
- **Worker.** It keeps nothing, so a repeated creation meets the first only on
  the chain, where that one may be pending, done, failed or expired.
- **Frontends.** Effects and handlers are closures over the render they were
  made in. A wait (a fetch, a wallet prompt, a timer) ends in a page whose
  wallet, mode or document has changed; answers overtake each other; flags that
  disable a button are lowered by hand on each way out; several writers share
  one storage key.
- **Safe requests.** Handlers and workers write to a row by its id, unlocked
  and without a look at its status, after a wait for an outside service; what
  they write was decided on what they read before. A dropped handler or a
  restart leaves a row nobody waits for.

What makes each part correct, in the terms of the modules:

- vault: fees leave a locked vault only with the admin or as yield, the lock
  ends only as agreed, and the creator is not shut out after it;
- splitter: SY is conserved through split and merge, counters stay in step with
  mints, matched pairs stay redeemable, and yield is paid exactly once;
- rewards: the pool is solvent under every rounding, nobody earns for an
  interval before its stake, and stakers can leave;
- stable vault: no step dilutes the remaining holders, the accounts hold what
  the vault counts, and what is counted can be redeemed or converted;
- desk: a quote is executed at most once and never after it lapsed, its
  in-flight mark is given back, and caps hold;
- safe requests: a nonce admits one request, a retry asks for the Safe already
  asked for, the worker gives up after the configured attempts, a ready request
  is not unmade, and no request is left unanswered;
- Safe worker: one idempotency key leads to one Safe, and what is answered as
  ready is on the chain;
- Safe panel: what it tells is true of the record it shows, one submission runs
  at a time and none repeats what was refused, and every lookup ends;
- application state: an unhealthy service is never shown as live, an answer is
  shown only to those who asked for it, a reload continues where the tab was,
  and loading ends;
- advance page: a quote is settled at most once by the wallet it was executed
  for, and a trade without its payment is told of, unless the user left the page
  or switched the data mode meanwhile;
- demo: pool, position and histories agree in memory and in the storage, and an
  advance fits the pool.

## 2. The modules and the code

| module | models | composed with |
|---|---|---|
| `CreatorVault` | `creator_vault/src/lib.rs` and the SPL ledger of SY, PT, YT | |
| `Splitter` | `splitter/src/lib.rs` | EXTENDS `CreatorVault`; a cross-program call is part of the caller's action |
| `RewardsVault` | `rewards_vault/src/lib.rs` | |
| `StableVault` | `stable_vault/src/lib.rs` | EXTENDS `RewardsVault`; attnUSD is the token both use |
| `QuoteLifecycle` | the promise of the advance desk, abstractly | |
| `Quotes` | `attn_api/src/advance.rs` | implements `QuoteLifecycle` |
| `SafeRequests` | `squads.rs`, and the routes and workers of `main.rs` that use it | |
| `SafeWorker` | `squads-safe-worker/src/server.ts`, `env.ts` | the upstream service of `SafeRequests`, on its own |
| `SafeOnboarding` | `SquadsSafeOnboarding.tsx`, `sponsor/page.tsx`, the tour overlay, and the routes of `main.rs` as the panel sees them | |
| `LiveApp` | of `apps/dapp-prod`: `AppContext.tsx`, `DataModeContext.tsx`, `runtime.ts`, navigation, pages, the bridge provider, `middleware.ts` | |
| `AdvanceClient` | `markets/[market]/page.tsx`, `lib/api.ts`, the bridge route, the four actions | INSTANCE of `QuoteLifecycle` as the desk, which `Quotes` implements |
| `LendingPool` | what the demo's pool promises, abstractly: the context's pool functions as if they ran at the click | |
| `DemoLending` | `apps/dapp`: `AppContext.tsx`, the user and deposit pages, sliders, terms, `middleware.ts` | implements `LendingPool` |
| `MC...` | instances for TLC | |
| `...Proofs` | the theorems about the module of that name (section 5); `SplitterProofs` has those about `CreatorVault` too, `StableVaultProofs` those about `RewardsVault`, `SafeRequestsProofs` those about `SafeWorker` | |

Conventions. In the program modules one action is one successful transaction:
each `require!`, account constraint and checked operation is a guard, and
failure is a step that does not happen. Signatures are modelled where they
decide something: in `CreatorVault` an action has the set of its `signers`,
kept in a history variable so that properties can ask who signed; in
`RewardsVault` the signer of an administrative call is whoever `pool_admin`
names at that moment and needs no parameter. Account creation, PDA seeds,
events and sizes are left out. Amounts are natural numbers bounded by `U64Max`, where
`checked_add` fails. Variables called *history* in their comment are not state
of the program; properties use them and no guard does (the one bound on them,
`MaxBurned`, keeps the model finite).

Outside actors are actions: what holders do with the token program alone (tokens
passed from wallet to wallet and burned, attnUSD sent into the pool's custody), SOL
sent to any account, fees paid in, the clock. The map in `PROJECT.json` marks them
external.

How the less obvious parts correspond:

- *Lock expiry* (`CreatorVault`). `refresh_lock` runs at the start of
  `withdraw_fees` and `delegate_sweep` and clears a lapsed lock. `RefreshLock`
  is conjoined to those actions and its effect lands with theirs; nothing
  refreshes on the clock alone, so the flag goes stale as it does on chain.
- *Yield* (`Splitter`). `fee_index` is an argument of `redeem_yield`; the
  caller, who alone signs, names it. `Claimable` keeps the cast
  to u64 (`% (U64Max + 1)`). `owed` sums what the index gave each holder,
  `disturbed` marks holders whose YT moved while their position lagged: the
  code settles nothing on a transfer or a second mint.
- *Index and debt* (`RewardsVault`). `PendingAmount` divides the accrual and
  compares it with a debt that is not divided, as `pending_amount` and
  `scaled_index` do.
- *Rent* (`SolTransferable`). The runtime refuses a debit that leaves an
  account between zero and its rent-exempt minimum.
- *Operation ids*. The last id again is `Ok` without effect, in
  `fund_rewards` (`FundDuplicate`) and in the two keeper calls (a stutter). A
  sweep whose funding met a duplicate goes through all the same.
- *Locks of the desk* (`Quotes`). One action is what a request does while it
  holds one lock, from taking it to dropping it; the phases of `request` are
  the waits between. `DropRequest` is the client that disconnects at a wait.
  Comparisons of floats with `EPSILON` at equality may go either way
  (`Exceeds`), since amounts are six-decimal doubles.
- *Statements and waits* (`SafeRequests`). One action is one SQL statement or
  transaction with the code up to the next wait. A handler's record says what
  it does next and what it carries across the wait: in `resubmit` the status it
  decided on, in the workers' jobs the row as it was read. `saw` and `asked`,
  `auto` serve properties; `attempts` and `address` of a job are what
  `process_stalled_safe` and `process_status_job` decide on.
- *Rows* (`SafeRequests`). The table holds one creator on one cluster, so a row
  is an attn wallet and the uuid needs no value of its own (rows are not
  deleted). Addresses and the status URL are set or not; `next_retry_at` is
  null, ahead or past; `fresh` is `last_attempt_at` against `STALLED_STALE_SECS`.
  The back-offs are shorter than that, so a row is not stale before it is due.
- *The upstream service* is external. Its calls are told apart by the
  idempotency key alone, which is the client's or, for want of one, made from
  the row (`KeyOf`). An accepted creation always becomes `ready`
  (`Submitted`): `create_safe_http` never leaves the address empty.

- *Instances* (`SafeWorker`). Nothing is shared between two calls but the chain,
  so several instances are several calls. `Interrupted` is an RPC error or an
  instance that stops; what was sent stays sent and `Executes` may still come.
- *The panel* (`SafeOnboarding`). A request in `calls` is made, served and
  answered in three steps, so answers overtake each other and may fail after
  they were served (`Fault`). Effects run after each step, in the order of the
  component and for three rounds (`Settle`), after which none of them has anything
  left to do (`EffectsAtRest`, which is proved). A request remembers the button,
  effect or form it was made by (`by`), which decides what its answer does, and
  `"gone"` once the panel it belongs to is unmounted.
- *The tab* (`LiveApp`). Effects are part of the step that renders them. A load
  remembers the mode and the wallet it was asked for (`LoadKey`); a cancelled
  one becomes `late`, whose failure still changes the mode, as the code's
  `catch` does. A handler that waits is a job with the memory of its click.
  Runtime configuration (`Deployments`) is chosen at the start: what
  `runtime.ts` makes of it is `runtimeEnv`.
- *The advance page* (`AdvanceClient`). A job is one `runAdvance` or
  `runBuyback` and survives its page: `mount` says which visit started it and
  `Mine` whether its `setState` still reaches anyone. `strays` are posts the
  client gave up on and the proxy still forwards. The desk is the abstract
  `QuoteLifecycle`: the refinement checked in `quotes` is what makes that
  enough. The page has one `error`, and while `loading` it renders its loading
  screen in place of it: a job that fails then leaves its message `waiting`, for the
  data to show it or for the next load, switch or error to erase it. The history
  says which quote came to what: `told`, `left`, `unheard`.
- *Timers* (`DemoLending`). A handler counts down in half seconds and then
  writes what it computes from `snap`, the state of its click. What it writes is a
  set of fields and a state that has their new values (`Sets`); `Becomes` puts the
  fields into the memory and the storage alike (`With`), as each of the context's
  functions sets its state and saves. The
  terms of an advance are computed as `borrowingCalculations.ts` does, in units
  of 100 USDC rounded down.

## 3. The runs

All runs pass; the times are those of two workers on one machine.

| run | question | states | time |
|---|---|---|---|
| `creator_vault` | does the lock hold, lapse and let go as agreed? | 258,845 | 7 s |
| `splitter` | is SY conserved and yield paid exactly, with burns and trades outside the program? | 898,906 | 22 s |
| `rewards_vault` | is the pool solvent, fair and leavable? | 2,267,728 | 39 s |
| `stable_nav` | does any step dilute a share? | 2,534,752 | 109 s |
| `stable_sweep` | do the accounts of the two programs hold what both believe? | 2,079,808 | 40 s |
| `quotes` | is a quote executed at most once, and released, under concurrency and disconnects? | 546,778 | 40 s |
| `safe_requests` | with late and lost answers, stale jobs and a restart: are nonces single-use, retries bounded and idempotent, ready rows kept, all rows settled? | 1,966,938 | 115 s |
| `safe_worker` | does a repeated, lost or rejected creation still lead to one Safe? | 145,068 | 4 s |
| `safe_onboarding` | does the panel tell the truth and come to rest, whatever the order of its answers? | 343,216 | 60 s |
| `live_app` | is live shown only while it is, and to whom it was asked for? | 616,431 | 112 s |
| `advance_client` | is a trade settled once, and its loss told of? | 554,904 | 90 s |
| `demo_lending` | do pool, position, histories and storage agree, and does the pool move as if nothing waited, under handlers that write late? | 121,748 | 25 s |

What the properties say is in the comments above each. Several of them are
conjunctions of named parts, which belong to one argument and are listed in the
module beside the conjunction:

| property | parts |
|---|---|
| `SplitterInv` | types, SY conserved, issue counters cover the tokens (`SplitCoverage`), positions lag the index, a closed market left no tokens |
| `RewardsInv` | types, solvency, the custody covers the recorded stakes, which are those of the positions and at least the receipts (`StakeBacking`), the treasury cache never above the account |
| `HoldersWhole` | types, a share never below par, a redemption always pays |
| `BooksMatchAccounts` | the vault's accounts hold what it counts, the pool is solvent |
| `QuotesInv` | types, the two maps of the cache agree, in-flight marks have holders, quotes are asked for in time, caps respected |
| `KeyNamesOneSafe` | types, one Safe per key |
| `PanelTellsTruth` | types, the notice matches the record, a Safe ends the tour, the effects come to rest |
| `PanelSettles` | every lookup settles, every submission ends |
| `StorageFollows` | types, the wallet is stored, the demo is stored |
| `OneDealPerQuote` | types, a quote is settled once |
| `DemoBooks` | types, TVL is the seed and the deposits, a reload loses nothing |
| `WritesAreCurrent` | the yield follows its inputs, what is lent fits the pool, the storage implements `LendingPool` (`MovesOneAtATime`) |

What each run shows, and why its bounds are enough:

- `creator_vault`: two holders, two admins, one delegate, a clock of three, expiries from
  none to the last second. The clock reaches before, at and after each expiry;
  two admins give a rotation during a lock; amounts of one and two make a
  withdrawal partial or whole. The splitter's calls run freely, with any amount.
- `splitter`: two holders, units of one, `U64Max = 2`, `MaxBurned = 1` per mint,
  index 0..3 over a scale of 3, so that a claim is below, at and above one unit
  and remainders carry over several redemptions. Lock, sweeper and split are at
  rest, since the splitter reads none of them. With these bounds index times
  balance stays below 2^w for the modelled width, so the u64 truncation of
  `Claimable` cannot happen in this run; section 7 says what that leaves open.
- `rewards_vault`: two stakers with two attnUSD each, scale 2 and rent 2, so that
  increments round and the treasury can fall to its rent; three funding ids;
  strangers' SOL. Two tokens each make a stake partial or whole and let the rest
  go into the custody as a gift, or a receipt be burned before its stake leaves.
- `stable_nav`: two wallets, amounts 1..3, two conversion ids. Two conversions
  suffice to move the price off par twice and round deposits and redemptions
  both ways; staking and burns move shares out of the wallets.
- `stable_sweep`: one wallet, amounts of two lamports, a split of none or half,
  so a sweep funds the pool, queues the rest, or both; the pool's own funder
  uses the same ids. The creator vault is paused and re-split in between.
- `quotes`: two requests, two wallets, two quotes, a lifetime of one second and
  a clock of two: a quote lives, expires in flight and after it. A sell price of two
  against caps of two and three puts the second trade of an epoch exactly on
  the tolerance, where both outcomes are explored; a
  buyback costs more than a sale brought in, as in `build_quote`. No symmetry, since the run
  checks liveness.
- `safe_requests`: one row, two handlers, two nonces, one key that a client
  sends or leaves out, one act of an admin or importer, one restart. Two
  handlers and the two workers are four writers to the row, enough for a stale
  answer to meet every state of it; a limit of three attempts lets the worker
  retry, retry again and give up; one restart falls in every wait. More rows
  would only meet through the unique index on keys (`KeyIsFree`), which this
  run leaves at rest; the theorems of section 5 hold for any number of rows.
- `safe_worker`: four calls, two keys, three bodies (one of them refused), money
  for one or two Safes. Two calls with one key and two with the other race on
  the chain in each order, and the money may run out between a preflight and
  the execution.
- `safe_onboarding`: two wallets, one of which the creators' list gives a vault,
  two nonces, two keys, two requests at once. Each scenario spends its budget of
  acts, page moves and faults differently: four acts of the user bring a
  refused submission and its recovery; two moves leave the panel and come back
  to answers of the old one; a fault takes the answer of any request. Two
  requests at once are what it takes to overtake.
- `live_app`: four deployments (both modes offered; live enforced; a refused
  local API; malformed programs), three answers of the service, four acts.
  Checks and loads need no acts, so four acts suffice for a switch there and
  back around a wait, or a wallet change between two handlers.
- `advance_client`: two sell quotes and one to buy back, one retry, two visits
  of the page, five acts. A retry, a late forward and a second visit can all
  meet one quote; two accounts, one with the market's roles.
- `demo_lending`: one tab, nine acts, slider stops of 50 and 100 percent, two
  revenues, deposits of 50 over a pool so small that an advance may or may not
  fit. Nine acts reach two handlers in flight over a deposit, an advance and a
  change of revenues. `TvlIsSeedPlusDeposits` and `MovesOneAtATime` are properties of
  one tab: section 6 says what two do.

Deadlock checking is on in every run but those where the users' budget is spent
in the end and nobody owes a step: `safe_requests`, `safe_worker`,
`safe_onboarding`, `live_app`, `advance_client`, `demo_lending`.

## 4. Fairness

The programs have none: nothing on chain runs by itself, every transaction is
somebody's choice. What must not be blocked is stated of the checks instead
(`CreatorCanWithdraw`, `MatchedPairRedeemable`, `StakerCanExit`,
`RedeemAlwaysPays`, `PendingSolSpendable`): in every reachable state, whatever
happened before, the party that is owed passes all the checks of the handler
that pays it. `WithdrawAccepted`, `RedeemPrincipalAccepted`, `UnstakeAccepted`,
`RedeemAccepted` and `ConversionAccepted` name those checks, the token program's
and the runtime's included; the actions are these checks and assignments of the
next state, so each of the five says that the action is ENABLED.

The desk assumes weak fairness of each request's steps: tokio polls a task that
is ready, and its `RwLock` queues waiters in order, so a request that waits for
a lock gets it. Nothing is assumed of clients: they may disconnect at any wait
and never come back, hence the exception in `InflightReleased`.

`SafeRequests` assumes that time passes (`BecomesDue`, `BecomesStale`) and that
the stalled-request worker goes on. It is a loop spawned at start-up that
sleeps, fetches and works through its batch, and logs errors instead of ending.
The HTTP client has no timeout, so this includes that the service answers or
fails in the end: one that never did would hold up the loop. No handler owes an
answer, and the status worker is not assumed to run; `Settles` needs neither.

The frontends assume what a browser does by itself. `DemoLending`: timers fire
and fetches end. `SafeOnboarding`: `attn_api` answers or the browser gives up,
and React handles the answer; the user owes nothing. `AdvanceClient`: requests
and waits of `api()` end, and a job goes on, which includes that a wallet's
prompt is answered or dismissed and a confirmation times out.
`LiveApp`: loads and health checks end (weak fairness), and the mock files,
served by the app's own origin, do not for ever lose the race against a health
check (strong fairness of `DemoLoads`). The last is needed: a service whose
`readyz` answers while every data request fails lets a tab go to and fro between
the modes, and each switch cancels the load of the other (section 6);
`LoadingEnds` says that even then the loading screen goes in between.

`SafeWorker` has no fairness: it promises what an answer means and not that one
comes.

## 5. The proofs

Eight modules of proofs, checked by TLAPS, for every value of the constants
that satisfies the assumptions named in the modules. A property named here is
the very definition the run of section 3 checks. Each module first names its
inductive invariant, then has one lemma per action (or per part of the state an
action disturbs), then the theorems.

**`SplitterProofs`**, the vault on its own: `VaultTypeCorrect` (`VaultTypeOK`),
`LockIsHonoured` (`LockHonoured`), `LockEndsAsAgreed` (`LockEndsProperly`),
`TheCreatorIsNeverLocked` (`CreatorCanWithdraw`).
`VaultTypeOK` is inductive as it stands. The work is in the arithmetic: the fee
of a delegate is part of the amount swept (`DelegateFeeBound`), so the balance
cannot underflow, and the splitter's payout is bounded by the balance. The two
action properties share one lemma per step (`LockStep`): a withdrawal under a
lock in force is only possible if `RefreshLock` kept it, and then
`withdraw_fees` demands the admin of that state. Of `VaultAssumption` two parts
matter: bounds are naturals, and the splitter's PDA is no admin key (a PDA has
no private key and cannot sign `update_admin`).

**`SplitterProofs`**, the splitter with its vault: `SplitterIsSound` (`SplitterInv`)
and `SteadyHoldersArePaid` (`SteadyHolderPaidExactly`). `SplitterInv` is
inductive; each of the splitter's five transactions and the vault's steps has a
lemma. The second theorem carries a hypothesis, `[][ClaimsFit]_allVars`: no claim
redeemed exceeds a u64. Without it the statement is false, because
`compute_yield_claim` casts the quotient unchecked (lib.rs:495) and a larger
claim is truncated; so the theorem says that this cast is the only way a steady
holder loses. In the run `splitter` no index jump is large enough, and the
property holds there as it stands. A third theorem, `MatchedPairsAreNeverLocked`
(`MatchedPairRedeemable`), needs that no holder has more of a token than its supply, for a burn subtracts from
both. That alone is not inductive: a burn of one holder lowers the supply, so
the others' balances count too. `Ledger` says that the tokens of a mint can be told
apart, each owned by at most one holder (`Backed`). `MintIsBacked` and
`BurnIsBacked` carry that over every step, a transfer being a burn and a mint,
without a sum over the holders; `SplitterInv` does the rest: the two counters
cover the supplies, and the SY returned fits a u64 because it was minted before.

**`StableVaultProofs`**, the rewards pool on its own: `ThePoolIsSolvent`
(`RewardsInv`), `NothingIsRetroactive` (`NoRetroactiveRewards`) and
`StakersAreNeverLocked` (`StakerCanExit`).
`RewardsInv` bounds a sum of rounded payments by what was distributed; it is
not inductive, since nothing in it ties a position's debt to the index.
`PoolInv` adds that a debt is the stake at the index the position was settled at
(`DebtIsSettled`) and that this index is not ahead of the pool's
(`SettledBehind`); TLC checked it on the instance of the run before it was
proved. `StakeBacking` is two inequalities, the custody at least the recorded stake and
that at least the receipts, since holders send attnUSD into the custody and burn
receipts outside the program. Sums over the stakers are sums over a finite set
(`IsFiniteSet(Users)`, any number of them). Since induction theorems cannot be instantiated here, the
sum lemmas argue by a smallest counterexample: among the subsets of `Users` on
which a claim fails there is a smallest (`SmallestSubset`), and removing the element
`CHOOSE` picks gives a smaller one. `StakersAreNeverLocked` needs two facts more:
a stake has a position account (`StakeHasPosition`), and what one settlement
pays is covered by what is unclaimed (`PaidIsCovered`), for the accruals of all
stakes add up to no more.

**`StableVaultProofs`**, the vault over the pool: `BothBooksMatch`
(`BooksMatchAccounts`), `NoShareIsDiluted` (`NavNeverDiluted`),
`HoldersAreNeverLocked` (`HoldersWhole`), `QueuedSolCanBeSpent`
(`PendingSolSpendable`). The inductive `VaultInv` is
`PoolInv`, the types, `ParFloor` and `Custody` (what the accounts hold against
what is counted); par is needed for the price lemmas and custody for
solvency under sweeps. `NavNeverDiluted` compares two quotients by cross
multiplication; `DepositPreview` and `RedeemPreview` bound the rounding.
`StableAssumption` has `InitialAttn = 0`: in this program the vault is the only
mint authority of attnUSD, which `RewardsVault` alone leaves open; and the list
of accepted mints is finite.

**`QuotesProofs`**: `TheDeskIsSound` (`QuotesInv`) and `TheDeskKeepsItsPromise`
(`KeepsLifecycle`), for any number of concurrent requests, wallets and quotes.
The inductive `DeskInv` adds to `QuotesInv` what a request knows across its
waits: its quote exists (`TradesExist`), a request that holds a quote in flight
is its only holder (`HeldIsInflight`), the book's usage is what was applied
(`BookAgrees`), and an executed quote is spent or still in flight
(`ExecutedIsSpent`). The second theorem is the refinement of `QuoteLifecycle`:
initial states map to initial states and every step of the desk is a step or a
stutter of the abstract life of a quote. `ExecutedIsSpent` is what excludes a
second execution there.

**`AdvanceClientProofs`**: `AQuoteIsOneDeal` (`OneDealPerQuote`), `NoLossIsSilent`
(`NoSilentLoss`), `WhatIsShownWasDone` (`ShownTradeWasDone`). None of the three is
inductive. `ClientInv` says of the jobs in flight that one that mints or pays
is the only one for its quote and finds on the chain what it has done so far
(`SettlersFit`), of a page that its busy flags cover its jobs (`JobsFit`), of the
chain what each quote can have come to (`BooksFit`), of an executed quote
that somebody minds it, including posts the client gave up on (`AllMinded`), and of a
page that is loading that each of its jobs has seen the mode change, and that what
waits behind the loading screen has too (`HiddenFit`).

**`SafeRequestsProofs`**, for any sets of rows, keys and handlers, from
`SafesAssumption` (null is no row, key or request; bounds are naturals):

- `SafesTypeCorrect` (`SafesTypeOK`). Beside the types it says that whoever
  writes by id writes to a row that exists, which is what lets the code ignore
  a missing row; `WriteKeeps` and `ProceedKeeps` carry it over every statement
  and every wait.
- `AutoRetriesAreBounded` (`AutoRetriesBounded`). Not inductive: the worker
  decides on attempts it read before. `AutoInv` adds that a row has more attempts
  than automatic retries, that every job the worker still holds says so of its
  own reading, and that it holds one job for a row, so a retry cannot be counted
  against a reading another retry has outdated.
- `NoncesAreSpentOnce` (`NonceSpentOnce`). `NonceInv` adds that a handler's
  nonce was issued before: `consume_nonce` removes the nonce that admits and a
  later one is new, so an admitted nonce never comes back.
- `ARetryAsksForTheSameSafe` (`RetryAsksForSameSafe`). The invariant `AskInv` says
  that the key a row has now is among those the service has seen for it. Every
  step is either `Quiet` (no call, every key kept) or asks under the key of the
  row it leaves (`AsksFor`), and only a creation with its own key changes that.
- `AReadyRequestStays` (`ReadyStays`). A case for every write: those the
  property excuses are shown to be what it names. `ResubmitSaw` is the one
  invariant it takes, that a resubmission under way read a status that may be resubmitted.

Of the service it calls, `SafeWorker`, the same module has `AKeyNamesOneSafe` (`KeyNamesOneSafe`) and
`AReadySafeExists` (`ReadyIsCreated`), for any calls, keys and bodies
(`WorkerAssumption`: the money is a natural number). `WorkerInv` adds that a
call past a check has what it checked, that a transaction in the pool was asked for by a
call, that a Safe sits at the address of its key, and that a confirmed one
exists or the money has run out: the address is a function of the key alone and
`Executes` looks before it creates.

**`LiveAppProofs`**: `AFailureFallsBack` (`FailureFallsBack`),
`TheAnswerShownIsCurrent` (`ShownIsCurrent`), `TheStorageFollows` (`StorageFollows`),
for any deployments, answers and number of acts. `LiveAssumption` says what the
schema of the service promises of an answer: rows of strings, positions that are not
negative. A step of `LiveApp` is a change of the tab and then the effects, so the
proof is in two parts. `Rendered` says what a change owes the effects: that the load
under way is still the one of the document before, that the wallet is in the storage, and that
demo data may be out of step with the storage only where the mode has just changed.
`EffectsRest` shows that the six effects, in their order, turn every such tab into
one at rest (`Good`), whatever the change was; the rest of the proof is one lemma
per kind of change. `LiveInv` says that the tab is at rest between steps. It adds to the three
properties that a build without a service has no health check under way (a check that
passes would leave the demo), that a handler which writes an entry had a wallet when it
was clicked, and that a withdrawal left a deposit then (`JobTyped`). TLC checked it
on the instance of the run before it was proved.

**`SafeOnboardingProofs`**: `PanelAlwaysTells` (`PanelTellsTruth`),
`OneSubmissionAtATime` (`OneSubmission`), `RefusedIsNeverResent`
(`RefusedNeverResent`), for any wallets, list of creators and bounds
(`OnboardingAssumption`). A step is a change of the browser or of the server and
then `Settle`, and the proof has the same two parts. Of the effects: what they leave
alone (`Quiet`) and that three rounds always bring the panel to rest (`Rest`). The
first fills the form, the second sees what was looked up or restored, the third ends
the tour, and `AtRest` says that a fourth changes nothing, whatever the panel was
before. Of the changes: the
inductive `PanelInv` says (`Fit`) that the notice matches the record (`Tells`), that
whatever the browser shows, stores or is answered names a row the server has
(`Filed`), that one call at a time belongs to a submission (`OneAtATime`) and to the
wallet's prompt (`PromptOpen`), and that nonces and keys are new when they are made
(`NeverStale`). The last part is what `RefusedIsNeverResent` takes: a nonce or key
the server has refused is replaced before the form can send again. TLC checked `PanelInv` on the instance of the run before it was proved.

**`DemoLendingProofs`**: `BooksAgree` (`DemoBooks`), `HandlersWriteWhatIsCurrent`
(`WritesAreCurrent`), with `HandlersSeemAtomic` (its part `MovesOneAtATime`), for any
seed, rates, revenues, slider stops, amounts and number of acts (`DemoAssumption`:
amounts are positive, stops are percentages) and for one tab (`OneTab`, a hypothesis of
all three: section 6 has what a second tab does).

A handler writes what it computed from the state of its click, a second or more ago, so
the inductive `DemoInv` says of every timer what still holds of that state where the
timer writes (`JobFits`). On the user page the pool does not change at all; on the
deposit page one handler at a time changes it, because the other's button waits for the
same flag, and nothing there changes the advance. `DemoInv` also says that the memory
of a tab that has a pool is the storage (`Matches`) and that both agree with the
history (`Booked`). `Right` is what a write owes in return: a pool that agrees with its
history and has moved at most once, the yield that follows from it, an advance that
fits. One lemma per function of the context shows its writes right, `BecomesFits` that
a right write keeps the invariant whatever the page's effects do, and the rest is a
lemma per action. `HandlersSeemAtomic` is a refinement: the pool, the position and the
LP history of the storage map to those of `LendingPool`, where a deposit or a
withdrawal reads and writes at once. The write of a timer maps to that step
(`MoveIsPoolStep`), the fetched state to the opening, a reset to the closing, and
everything else to a stutter; in a storage without a pool there is neither a position
nor a history (`ClosedStays`). The sum of the LP history is a fold of the library over
a sequence of any length; `ItemAdds` (a new item adds its amount) is proved without
induction, from the shortest history for which it would fail. TLC checked `DemoInv` on
the instance of the run before it was proved.

Only model-checked: liveness (`InflightReleased`, `Settles`, `PanelSettles`,
`LoadingEnds`, `ProcessingEnds`, `ButtonsComeBack`), which the provers do not have. Every
invariant and every action property of the runs is a theorem.

## 6. Where code and documents disagree

Met while modelling, and visible in the definitions named. No run is made to
fail: the properties of section 3 are those the code keeps.

The programs:

- Only the wallet of a user position redeems yield, and a position is made by
  `mint_pt_yt` alone: who bought its YT has none (`RedeemYield`). README.md:138
  has "YT holders redeem yield directly", advance.md:11 "Any remaining YT held
  by external buyers settles into that period's fees".
- `pending_amount` divides the accrual by `INDEX_SCALE` and compares it with a
  debt that is not divided (`PendingAmount`, `SetStake`): after a first
  claim, later rewards are withheld (attn-markets-backend-spec.md:113).
- A sweep with an operation id the rewards pool has already seen goes through,
  moves no SOL to the pool and reports rewards as funded
  (attn-markets-architecture.md:63-64; `FundDuplicate`).
- PT alone redeems nothing: `redeem_principal` burns as much YT as PT from the
  same wallet, while README.md:139 and advance.md:11 describe PT holders who
  have sold their YT redeeming principal (`RedeemPrincipal`).
- `close_market` leaves the splitter-authority PDA, so a vault has one market
  in its life; README.md:139 speaks of rolling into a fresh tranche.
- `close_market` needs the issue counters at zero; a token its holder burned
  directly stays counted, so the market cannot close at zero supply
  (attn-markets-backend-spec.md:74).
- A second `mint_pt_yt` into a lagging position is paid for the interval before
  the mint (attn-markets-architecture.md:71 says pro rata). This is why
  `SteadyHolderPaidExactly` speaks of undisturbed holders.
- A repeated `fund_rewards` id is `Ok`, where attn-markets-mvp.md:74 says it is
  rejected.
- Accepted mints beyond the primary one cannot be deposited (`has_one =
  stable_mint`), while README.md:128 lists four stablecoins.
- `withdraw_sol_dust` debits an account that `initialize_stable_vault` gives to
  the system program; the runtime refuses that debit, so `WithdrawSolDust` is
  defined but in no next-state relation.

The API:

- A buyback lowers the epoch's usage by its full amount while the wallet's is
  clamped at zero, so the wallets' usages together may exceed the epoch cap
  (advance.md:19, 27; `ApplyTrade`).
- `link_squads_safe_governance` never looks at the status, and a stalled job
  that read the row earlier may take a ready and linked row back to pending
  (squads-safe-api.md:30; `Link`, `Prepared`).
- `list_rewards` versions its ETag by the newest update in whole seconds
  (main.rs:1577-1580): two changes within one second, or a pool that
  disappears, are answered 304.
- A sell quote made just before maturity can be executed just after it;
  `finalize_execution` does not look at the maturity again.
- `create_squads_safe` checks the new account (`verify_safe_account`) after the
  row is ready, and only warns; squads-safe-api.md:54-55 has the check first.
- `update_submission` never yields `submitted`, since `create_safe_http` makes
  an address up when the service names none. So a row may be ready with an
  address nobody created (`Submitted`), and the status worker sees only rows an
  admin or a failed poll made `submitted`.
- `mark_status_ready` takes an answer without an address, so a row can be ready
  without one, which the admin's override refuses (`PolledReady`, `Override`).
- `create_pending` returns a ready row as it is, and the handler asks the
  service all the same and may then mark the row failed: the second exception
  of `ReadyStays`. The third is the stale job just named.
- A ready row that an admin sets to `submitted` keeps a null `next_retry_at`
  and is never polled (`Due`).
- `create_pending` resets a row and keeps its governance link (`Reset`).
- The import of a pair that has no row yet always fails: `upsert_imported_safe` inserts
  `on conflict on constraint squads_safe_requests_uniqueness_idx` (squads.rs:1656),
  which migration 006:36 makes an expression index and not a constraint, so Postgres
  refuses the statement (`Import`). squads-safe-remediation.md:47 has it that the
  function no longer relies on the index.
- The "exponential backoff" of squads-safe-api.md:51-52 is a constant.
- The Safe worker does not look at the error in `confirmTransaction`'s result
  (server.ts:106-115), so a transaction that failed on the chain is answered as
  ready: the exception of `ReadyIsCreated`. A key already used answers the
  existing Safe without a look at its members (server.ts:117-119).

The frontends:

- `onSafeDetected` may fire more than once for one request
  (SquadsSafeOnboarding.tsx:583-586); sponsor-onboarding-status.md:23 says once.
- `addCreatorToList` saves live creators as demo data
  (dapp-prod AppContext.tsx:1104-1105; attn-markets-frontend-spec.md:196).
- A cancelled live load that fails still switches the mode
  (AppContext.tsx:843-845; `LateLoads`), and a service that is ready and fails
  its data requests makes a tab alternate between the modes without end.
- Handlers that end after a mode switch write the memory of their click.
- Borrowing and listing are not gated by a governance pause
  (attn-markets-frontend-spec.md:34; `handleBorrow`, `signAndListCreator`).
- `api()` repeats refusals too, because its `catch` ("network or parse error",
  lib/api.ts:61-73) also catches the `ApiError` it throws. A post that was executed and
  whose answer was lost is then refused as consumed, and the user is told of a
  failure while the desk has executed the quote.
- A failure of an advance may never be seen: one that arrives while the page loads is
  behind the loading screen (page.tsx:308), and the next switch of the mode clears it
  (page.tsx:69), as a load that fails (page.tsx:80) or leaving the page does. Confirm,
  switch to the demo and back, let the job fail, switch again: the desk may have
  executed the quote and the page has said nothing (`Fails`, `LoadEffect`).
  `NoSilentLoss` counts these quotes as `unheard` and says that the mode was switched
  during each of them.
- advance.md:11 has the LP's USDC arrive in the transaction that sells the YT;
  the page's transaction moves the YT alone (`sellYt`).
- `middleware.ts` sends `/markets/*` home, so the advance page is not reachable
  as deployed (advance.md:33; `Pages`).
- Two tabs of the demo overwrite each other's saved state: with `Tabs = {t1, t2}`
  `TvlIsSeedPlusDeposits` fails.
- The debounced update of revenues writes the creators of its own render, and
  an advance taken in the half second between is gone from them
  (dapp user/page.tsx:302-316; `updateCreatorEarnings`).
- The early payment of a demo advance opens a real one (user/page.tsx:615), and
  a withdrawal does not look at what is lent.
- The leaderboard's connect and list, and `signAndListCreator` of the demo, are
  wired to nothing; `cleanupContaminatedHistory` does nothing.

## 7. What is not modelled

- The u64 truncation of a yield claim at scale, and u128 overflow of index
  times stake. `Claimable` has the cast, and `SteadyHoldersArePaid` names the
  condition it needs (`ClaimsFit`); a run in which it bites is planned.
- The floating-point price formula of the desk: a quote has one of `Prices`.
- The indexer and the rate limiter: projections and counters of one process,
  candidates for later modules.
- Which Safe a request ends with: an address is set or not. What the service
  does with a key it has seen is its own promise.
- Signature checks and on-chain wallet checks of the Safe routes: they let a
  handler go on or end it (`Drop`), and write nothing.
- The amm program (a placeholder), the notifier (a stub), HTTP reads, KMS
  clients, CLI, deployment scripts: no state that order could break. `sdk/types`
  is generated from the programs; `apps/landing` is static; the data providers
  and the data-mode context of `apps/dapp` are used by no page; the mock API
  server gives canned answers to tests.
- Of the frontends: layout, texts and notifications; the panel's periodic API
  health check, its bearer token and its test hooks; the earnings field, the histories
  and several tabs of dapp-prod (the demo application has the same code for the
  first two, and is where they are modelled); the building of a transaction for
  staking; `demo.ts`'s trade builder, which nothing reaches.
- The loading screen of `sponsor/page.tsx` (line 1021) in place of the panel while
  AppContext loads after a change of the wallet or the mode: `ConnectWallet` keeps the
  panel mounted. That a panel goes away and its requests are answered into nothing is
  what `SwitchMode` and `Reload` bring.
- Of the demo: the single keystrokes of the revenues field, each of which sets its own
  two-second timer, so that the first one's ends the editing of the later ones
  (dapp user/page.tsx:333; `handleEarningsChange` merges them); revenues of zero (an
  emptied field; the sliders' buttons are disabled then), and the other creators, who never act and count as what they borrowed.
- The panel and `SafeRequests` are not composed: `SafeOnboarding` keeps of the
  server a row, a nonce and a key per wallet, served by the same routes.
- The growth of the desk's `consumed` set, which is never pruned: a bounded
  model does not show it.

## 8. The plan

1. An abstract life of one Safe request (asked, answered, given up, unmade by
   an admin) that `SafeRequests` refines, as `QuoteLifecycle` is to `Quotes`.
2. `Indexer`: ingest order against stored state, restart between two writes.
3. A run of `Splitter` at a width where a claim truncates.
