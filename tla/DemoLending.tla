---------------------------- MODULE DemoLending ----------------------------
(***************************************************************************)
(* The demo frontend, apps/dapp: a lending pool kept in the memory of a    *)
(* browser tab (AppContext.tsx) and copied to localStorage on every change.*)
(* A page's handler waits a second or two and then calls the context's     *)
(* functions as they were when the button was clicked: everything it reads *)
(* (the pool, the position, the histories) is as old as the click.  Links  *)
(* are plain anchors, so a visit of another page is a new document that    *)
(* restores its memory from the storage.  Tabs share the storage.  With    *)
(* one tab, the pool in the storage implements LendingPool.                *)
(*                                                                         *)
(* The other creators never act: they count as LENT, what they borrowed.   *)
(* Notifications are left out.  An advance's terms are computed, in units  *)
(* of 100 USDC, rounded down; rates are in tenths of a percent, a monthly  *)
(* yield is kept as deposit * rate; a handler's waits are counted in half  *)
(* seconds.                                                                *)
(***************************************************************************)
EXTENDS Integers, Sequences, SequencesExt

CONSTANTS Tabs,        \* the browser's tabs
          SEED,        \* POOL_CONFIG.baseSeedAmount
          LENT,        \* what the demo's other creators borrowed
          LENTRATE,    \* their weighted rate
          FEES,        \* the default weekly revenues
          Earnings,    \* the weekly revenues a user types
          Slices,      \* the stops of the two sliders, in percent
          Amounts,     \* the amounts a user deposits or withdraws
          MaxActs      \* bound: what users click, type and open

\* An emptied revenues field, which counts as 0, is left out; at 0 the sliders' buttons
\* are disabled.
ASSUME DemoAssumption == /\ {SEED, FEES} \cup Earnings \cup Amounts \subseteq Nat \ {0}
                         /\ {LENT, LENTRATE, MaxActs} \subseteq Nat
                         /\ Slices \subseteq 1 .. 100

VARIABLES disk,   \* localStorage: the state every tab saves to
          tabs,   \* each tab's document
          acts    \* what users did so far
vars == <<disk, tabs, acts>>

\* The middleware sends every other path to one of these.
Pages == {"closed", "user", "deposit", "other"}
NoPool == 0
NoLoan == [amount |-> 0]
Unlisted == [fees |-> 0, loan |-> NoLoan]

\* AppState: the pool, the position with its estimated yield, the own creator, the two histories (the
\* newest item first) and whether the wallet is connected.
Blank == [tvl |-> NoPool, deposited |-> 0, additional |-> 0, yield |-> 0, creator |-> Unlisted,
          loans |-> <<>>, lp |-> <<>>, wallet |-> FALSE]
Fresh(wallet) == [Blank EXCEPT !.tvl = SEED, !.wallet = wallet]

Listed(s) == s.creator # Unlisted
calculatePoolTVL(deposits) == SEED + deposits
TotalBorrowed(s) == LENT + s.creator.loan.amount
Liquidity(s) == IF s.tvl = NoPool \/ s.tvl < TotalBorrowed(s) THEN 0
                                                    ELSE s.tvl - TotalBorrowed(s)
\* (mutant: no liquidity check)
validateAnyAmount(s, amount) == s.tvl # NoPool /\ amount >= 0
validateBorrowingRequest(s, amount) == s.tvl # NoPool /\ amount =< s.tvl - TotalBorrowed(s)

\* What LPs earn: 90% of the borrowers' interest, spread over the pool and rounded
\* to a tenth of a percent, or the base rate.
calculateLPAPR(tvl, loan) ==
  LET interest == LENT * LENTRATE + IF loan = NoLoan THEN 0 ELSE loan.amount * loan.apr
      rate == (18 * interest + 10 * tvl) \div (20 * tvl)
  IN IF tvl = NoPool \/ rate < 85 THEN 85 ELSE rate
calculateMonthlyYield(deposit, tvl, loan) == deposit * calculateLPAPR(tvl, loan)
YieldNow(s) == calculateMonthlyYield(s.deposited, s.tvl, s.creator.loan)

-----------------------------------------------------------------------------
(* An advance's terms, utils/borrowingCalculations.ts: the APR in tenths of
   a percent, the share of the daily revenues that repays it, its days.    *)
CeilDiv(a, b) == (a + b - 1) \div b
Tier(pct) == IF pct =< 50 THEN 50 ELSE IF pct =< 75 THEN 75 ELSE 100
calculateBorrowingTerms(fees, pct) ==
  LET apr == 500 + 4 * pct
      estimated == CeilDiv(14 * pct, Tier(pct))
      amount == (2 * fees * pct) \div 100
  IN [amount |-> amount, apr |-> apr, tier |-> Tier(pct),
      owed |-> (amount * (364000 + apr * estimated)) \div 364000,
      days |-> CeilDiv(14 * pct * (364000 + apr * estimated), Tier(pct) * 364000)]
\* The user page's simulatedLoan: what is owed and what it started from.
Simulated(amount, owed, apr, fees, tier) ==
  [amount |-> amount, total |-> owed, owed |-> owed, apr |-> apr, fees |-> fees, tier |-> tier]
DemoLoan == Simulated((15 * FEES) \div 10, (1575 * FEES) \div 1000, 650, FEES, 75)
Rebuilt(c) == Simulated(c.loan.amount,
                        (c.loan.amount * (365000 + c.loan.apr * c.loan.days)) \div 365000,
                        c.loan.apr, c.fees, c.loan.tier)
\* calculateLoanDetails: an early payment forgives 5% of its interest.
EarlyPayment(sim, cut) ==
  (((sim.owed * cut) \div 100) * (20 * sim.total - (sim.total - sim.amount)))
     \div (20 * sim.total)
Remaining(sim) == IF sim = NoLoan THEN 0 ELSE sim.owed
DaysLeft(sim, owed) == LET d == CeilDiv(owed * 700, sim.fees * sim.tier)
                       IN IF d < 1 THEN 1 ELSE d

-----------------------------------------------------------------------------
(* The context's functions, applied to the state s of the click: each      *)
(* yields the fields it sets, in memory and in the storage alike, and a    *)
(* state that has their new values.                                        *)
Sets(fields, s) == [of |-> fields, to |-> s]
Nothing == Sets({}, Blank)
With(s, ch) ==
  LET field(k) == IF k \in ch.of THEN ch.to[k] ELSE s[k]
  IN [tvl |-> field("tvl"), deposited |-> field("deposited"), additional |-> field("additional"),
      yield |-> field("yield"), creator |-> field("creator"), loans |-> field("loans"),
      lp |-> field("lp"), wallet |-> field("wallet")]
\* setCreators and the like: every writer of the creators also writes the position it
\* read, with the yield under the new creators.
setCreators(s, c) ==
  IF s.tvl = NoPool THEN Sets({"creator"}, [s EXCEPT !.creator = c])
  ELSE Sets({"creator", "deposited", "additional", "yield"},
            [s EXCEPT !.creator = c,
                      !.yield = calculateMonthlyYield(s.deposited, s.tvl, c.loan)])
Moved(s) == Sets({"tvl", "deposited", "additional", "lp", "yield"}, [s EXCEPT !.yield = YieldNow(s)])
depositToPool(s, a) ==
  IF s.tvl = NoPool THEN Nothing
  ELSE Moved([s EXCEPT !.tvl = @ + a, !.deposited = @ + a, !.additional = @ + a,
                       !.lp = <<a>> \o @])
withdrawFromPool(s, a) ==
  IF s.tvl = NoPool \/ a > s.deposited THEN Nothing
  ELSE Moved([s EXCEPT !.tvl = @ - a, !.deposited = @ - a,
                       !.additional = @ - (IF a < @ THEN a ELSE @), !.lp = <<-a>> \o @])
\* A history item is added to the history of the click, whatever else is written.
addLoanHistoryItem(ch, s, kind) ==
  Sets(ch.of \cup {"loans"}, [ch.to EXCEPT !.loans = <<kind>> \o s.loans])
addCreatorToList(s, fees) == setCreators(s, [fees |-> fees, loan |-> s.creator.loan])
addCreatorLoan(s, loan) ==
  IF ~validateBorrowingRequest(s, loan.amount) THEN Nothing
  ELSE LET c == [fees |-> IF Listed(s) THEN s.creator.fees ELSE FEES, loan |-> loan]
       IN addLoanHistoryItem(setCreators(s, c), s, "loan")
removeCreatorLoan(s) == setCreators(s, [s.creator EXCEPT !.loan = NoLoan])
updateCreatorEarnings(s, fees) ==
  IF Listed(s) /\ s.creator.fees = fees THEN Nothing
  ELSE Sets({"creator"}, [s EXCEPT !.creator = IF Listed(s) THEN [@ EXCEPT !.fees = fees] ELSE @])
setCurrentUserWallet(s) ==
  Sets({"wallet"} \cup IF s.loans = <<>> THEN {"loans"} ELSE {}, [s EXCEPT !.wallet = TRUE])

-----------------------------------------------------------------------------
(* A document: its page, whether it still loads, its memory, the flags that *)
(* disable its buttons, the user page's fields and its pending timers.     *)
Job(kind, left, snap, arg) == [kind |-> kind, left |-> left, snap |-> snap, arg |-> arg]
Closed == [page |-> "closed", loading |-> FALSE, mem |-> Blank, busy |-> {}, sim |-> NoLoan,
           repaying |-> FALSE, earn |-> FEES, editing |-> FALSE, jobs |-> {}]
Document(page, saved) ==
  [Closed EXCEPT !.page = page, !.loading = TRUE, !.mem = [Blank EXCEPT !.wallet = saved.wallet]]

\* The user page's effects after d became e: the simulated advance follows the
\* creators, the revenues at their default are read from them, and edited
\* revenues are written back half a second after the edit, from the closure of
\* the moment the edit ended.
SyncSimulated(e) ==
  IF ~e.mem.wallet \/ ~Listed(e.mem) THEN e
  ELSE IF e.mem.creator.loan # NoLoan /\ e.sim = NoLoan
       THEN [e EXCEPT !.sim = Rebuilt(e.mem.creator)]
       ELSE IF e.mem.creator.loan = NoLoan THEN [e EXCEPT !.sim = NoLoan] ELSE e
LoadEarnings(e) ==
  IF e.mem.wallet /\ Listed(e.mem) /\ e.earn = FEES
  THEN [e EXCEPT !.earn = e.mem.creator.fees] ELSE e
UpdateEarnings(d, e) ==
  LET others == {j \in e.jobs : j.kind # "earnings"}
      due == e.mem.wallet /\ ~e.editing /\ Listed(e.mem) /\ e.mem.creator.fees # e.earn
  IN IF <<d.earn, d.mem.wallet, d.editing>> = <<e.earn, e.mem.wallet, e.editing>> THEN e
     ELSE [e EXCEPT !.jobs = IF due THEN others \cup {Job("earnings", 1, e.mem, e.earn)}
                                    ELSE others]
Effects(d, e, creatorsSet) ==
  IF e.page # "user" THEN e
  ELSE IF creatorsSet \/ d.mem.wallet # e.mem.wallet
       THEN UpdateEarnings(d, LoadEarnings(SyncSimulated(e)))
       ELSE UpdateEarnings(d, e)

\* Tab t becomes e, with the fields ch set in its memory and saved.
\* (mutant: the loan history is not saved)
BecomesUnsavedLoans(t, e, ch) ==
  \E c \in {ch} : \E f \in {[e EXCEPT !.mem = With(@, c)]} :
    /\ tabs' = [tabs EXCEPT ![t] = Effects(tabs[t], f, "creator" \in c.of)]
    /\ disk' = With(disk, [c EXCEPT !.of = @ \ {"loans"}])
Becomes(t, e, ch) ==
  \E c \in {ch} : \E f \in {[e EXCEPT !.mem = With(@, c)]} :
    /\ tabs' = [tabs EXCEPT ![t] = Effects(tabs[t], f, "creator" \in c.of)]
    /\ disk' = With(disk, c)
Act == acts < MaxActs /\ acts' = acts + 1
Start(t, flag, kind, left, arg) ==
  LET d == tabs[t]
  IN Becomes(t, [d EXCEPT !.busy = @ \cup flag,
                          !.jobs = @ \cup {Job(kind, left, d.mem, arg)}], Nothing)

DemoInit == disk = Blank /\ tabs = [t \in Tabs |-> Closed] /\ acts = 0

-----------------------------------------------------------------------------
(* Opening a page, following a link, reloading: the old document and its   *)
(* timers are gone.  A saved state is restored at once; without one the    *)
(* mock files are fetched, and the fresh state is saved.                   *)
Load(t) ==
  /\ Act
  /\ \E p \in Pages \ {"closed"} :
       LET d == Document(p, disk)
       IN tabs' = [tabs EXCEPT ![t] =
                     IF disk.tvl = NoPool THEN d
                     ELSE Effects(d, [d EXCEPT !.loading = FALSE, !.mem = disk], TRUE)]
  /\ UNCHANGED disk
\* The mount's closure supplies the wallet.
Fetched(t) ==
  /\ tabs[t].loading
  /\ LET fresh == Fresh(tabs[t].mem.wallet)
     IN Becomes(t, [tabs[t] EXCEPT !.loading = FALSE], Sets(DOMAIN fresh, fresh))
  /\ UNCHANGED acts
FetchFails(t) ==
  /\ tabs[t].loading
  /\ tabs' = [tabs EXCEPT ![t].loading = FALSE]
  /\ UNCHANGED <<disk, acts>>
\* Reset, and Disconnect once the wallet is connected.
resetToDefaults(t) ==
  /\ Act /\ tabs[t].page # "closed" /\ ~tabs[t].loading
  /\ disk' = Blank
  /\ tabs' = [tabs EXCEPT ![t] = Document(tabs[t].page, Blank)]

Ready(t, page) == tabs[t].page = page /\ ~tabs[t].loading
NavConnect(t) ==
  /\ Act /\ tabs[t].page # "closed" /\ ~tabs[t].loading
  /\ ~tabs[t].mem.wallet /\ "nav" \notin tabs[t].busy
  /\ Start(t, {"nav"}, "nav", 2, 0)
ConnectUser(t) ==
  /\ Act /\ Ready(t, "user") /\ ~tabs[t].mem.wallet
  /\ {"connect", "transition"} \cap tabs[t].busy = {}
  /\ Start(t, {"connect", "transition"}, "connect", 2, tabs[t].earn)
ConnectDeposit(t) ==
  /\ Act /\ Ready(t, "deposit") /\ ~tabs[t].mem.wallet /\ "connect" \notin tabs[t].busy
  /\ Start(t, {"connect"}, "join", 2, 0)

\* The deposit page's form, shown to a connected wallet.
handleDeposit(t) ==
  /\ Act /\ Ready(t, "deposit") /\ tabs[t].mem.wallet /\ "process" \notin tabs[t].busy
  /\ \E a \in Amounts : Start(t, {"process"}, "deposit", 3, a)
\* (mutant: the two buttons do not wait for each other)
handleWithdrawMeanwhile(t) ==
  /\ Act /\ Ready(t, "deposit") /\ tabs[t].mem.wallet
  /\ \E a \in Amounts \cup {tabs[t].mem.deposited} :
       /\ 0 < a /\ a =< tabs[t].mem.deposited
       /\ Start(t, {"process"}, "withdraw", 3, a)
handleWithdraw(t) ==
  /\ Act /\ Ready(t, "deposit") /\ tabs[t].mem.wallet /\ "process" \notin tabs[t].busy
  /\ \E a \in Amounts \cup {tabs[t].mem.deposited} :
       /\ 0 < a /\ a =< tabs[t].mem.deposited
       /\ Start(t, {"process"}, "withdraw", 3, a)

\* The user page's form, and its switch between advance and repayment.
FormShown(t) == Ready(t, "user") /\ tabs[t].mem.wallet /\ "transition" \notin tabs[t].busy
RevenuesShown(t) == Ready(t, "user") /\ tabs[t].mem.wallet
handleEarningsChange(t) ==
  /\ Act /\ RevenuesShown(t)
  /\ \E e \in Earnings \ {tabs[t].earn} :
       LET d == tabs[t]
       IN Becomes(t, [d EXCEPT !.earn = e, !.editing = TRUE,
                               !.jobs = @ \cup {Job("edited", 4, Blank, e)}], Nothing)
  \* (keystrokes within the two seconds are merged into one; in the code each has a timer
  \* of its own that lowers the flag, and that of the first lowers it for all)
  /\ ~tabs[t].editing
ShowRepay(t) ==
  /\ Act /\ Ready(t, "user") /\ Listed(tabs[t].mem)
  /\ tabs' = [tabs EXCEPT ![t].repaying = ~@]
  /\ UNCHANGED disk
TryDemo(t) ==
  /\ Act /\ Ready(t, "user") /\ tabs[t].repaying
  /\ tabs[t].mem.creator.loan = NoLoan /\ tabs[t].sim = NoLoan
  /\ tabs' = [tabs EXCEPT ![t].sim = DemoLoan]
  /\ UNCHANGED disk
\* The sliders snap to their stops; the advance's ends where the liquidity does, and is
\* disabled for an unlisted wallet.  The percentage the page proposes is 50, or, when that
\* is more than the liquidity, what fits, though at least 25.  A repayment's slider is
\* there while something is owed.
maxAllowedPercentage(s, fees) ==
  LET most == calculateBorrowingTerms(fees, 100).amount
      fits == IF most = 0 THEN 0 ELSE (100 * Liquidity(s)) \div most
  IN IF fits > 100 THEN 100 ELSE fits
SliderStops(limit) == {IF p < limit THEN p ELSE limit : p \in Slices}
BorrowStops(s, fees) ==
  LET limit == maxAllowedPercentage(s, fees)
  IN {50, IF limit < 25 THEN 25 ELSE limit} \cup IF Listed(s) THEN SliderStops(limit) ELSE {}
RepaySlider == Slices
RepayStops(sim) == IF Remaining(sim) > 0 THEN RepaySlider ELSE {}
handleBorrow(t) ==
  /\ Act /\ FormShown(t) /\ ~tabs[t].repaying /\ "borrow" \notin tabs[t].busy
  /\ tabs[t].mem.creator.loan = NoLoan
  /\ \E p \in BorrowStops(tabs[t].mem, tabs[t].earn) :
       LET terms == calculateBorrowingTerms(tabs[t].earn, p)
       IN /\ 0 < terms.amount /\ terms.amount =< Liquidity(tabs[t].mem)
          /\ Start(t, {"borrow"}, "borrow", 6, <<terms, tabs[t].earn>>)
handleRepay(t) ==
  /\ Act /\ FormShown(t) /\ tabs[t].repaying /\ "repay" \notin tabs[t].busy
  /\ \E cut \in RepayStops(tabs[t].sim) : Start(t, {"repay"}, "repay", 4, <<tabs[t].sim, cut>>)

-----------------------------------------------------------------------------
(* The timers.  Done(t, j) is the document once j is over; a handler that  *)
(* waits again leaves another timer, with the closure it started from.     *)
Done(t, j, flags, next) == [tabs[t] EXCEPT !.jobs = (@ \ {j}) \cup next, !.busy = @ \ flags]
Again(j, kind) == {Job(kind, 1, j.snap, j.arg)}

Connected(t, j) ==
  \/ /\ j.kind = "nav"
     /\ Becomes(t, Done(t, j, {}, Again(j, "navEnds")), Sets({"wallet"}, [j.snap EXCEPT !.wallet = TRUE]))
  \/ /\ j.kind = "navEnds"
     /\ Becomes(t, Done(t, j, {"nav"}, {}), Nothing)
  \/ /\ j.kind = "join"
     /\ Becomes(t, Done(t, j, {}, Again(j, "joinEnds")), setCurrentUserWallet(j.snap))
  \/ /\ j.kind = "joinEnds"
     /\ Becomes(t, Done(t, j, {"connect"}, {}), Nothing)
  \/ /\ j.kind = "connect"
     /\ Becomes(t, Done(t, j, {}, {Job("listing", 2, j.snap, j.arg)}),
                setCurrentUserWallet(j.snap))
  \/ /\ j.kind = "listing"
     /\ Becomes(t, Done(t, j, {}, Again(j, "listed")), addCreatorToList(j.snap, j.arg))
  \/ /\ j.kind = "listed"
     /\ Becomes(t, Done(t, j, {"connect", "transition"}, {}), Nothing)

\* (mutant: the deposit's handler ends without setIsProcessing(false))
MovedFundsStuck(t, j) ==
  \/ /\ j.kind = "deposit"
     /\ Becomes(t, Done(t, j, {}, {}), depositToPool(j.snap, j.arg))
  \/ /\ j.kind = "withdraw"
     /\ Becomes(t, Done(t, j, {"process"}, {}), withdrawFromPool(j.snap, j.arg))

MovedFunds(t, j) ==
  \/ /\ j.kind = "deposit"
     /\ Becomes(t, Done(t, j, {"process"}, {}), depositToPool(j.snap, j.arg))
  \/ /\ j.kind = "withdraw"
     /\ Becomes(t, Done(t, j, {"process"}, {}), withdrawFromPool(j.snap, j.arg))

\* handleBorrow after its waits: an unlisted creator is added first, and the
\* advance follows a moment later, from the same closure.
Advanced(t, j) ==
  LET terms == j.arg[1]
      loan == [amount |-> terms.amount, apr |-> terms.apr, tier |-> terms.tier,
               days |-> terms.days]
      ch == addCreatorLoan(j.snap, loan)
      done == Done(t, j, {"borrow"}, {})
  IN \/ /\ j.kind = "borrow" /\ ~Listed(j.snap)
        /\ Becomes(t, Done(t, j, {}, Again(j, "opening")), addCreatorToList(j.snap, j.arg[2]))
     \/ /\ j.kind = "opening" \/ (j.kind = "borrow" /\ Listed(j.snap))
        /\ Becomes(t, IF ch = Nothing THEN done
                      ELSE [done EXCEPT !.sim = Simulated(terms.amount, terms.owed, terms.apr,
                                                          j.arg[2], terms.tier)], ch)

\* handleRepay after its waits.  addCreatorLoan's verdict is ignored, and the
\* history item that follows it is computed from the click's history again.
PaidOff(t, j) ==
  /\ j.arg[2] = 100
  /\ Becomes(t, [Done(t, j, {"repay"}, {}) EXCEPT !.sim = NoLoan, !.repaying = FALSE],
             addLoanHistoryItem(removeCreatorLoan(j.snap), j.snap, "full_payoff"))
PaidEarly(t, j) ==
  LET sim == j.arg[1]
      owed == sim.owed - EarlyPayment(sim, j.arg[2])
      loan == [amount |-> owed, apr |-> sim.apr, tier |-> sim.tier, days |-> DaysLeft(sim, owed)]
  IN /\ j.arg[2] < 100
     /\ Becomes(t, [Done(t, j, {"repay"}, {}) EXCEPT !.sim = [sim EXCEPT !.owed = owed]],
                addLoanHistoryItem(addCreatorLoan(j.snap, loan), j.snap, "early_payment"))
Repaid(t, j) == j.kind = "repay" /\ (PaidOff(t, j) \/ PaidEarly(t, j))

Edited(t, j) ==
  \/ /\ j.kind = "edited"
     /\ Becomes(t, [Done(t, j, {}, {}) EXCEPT !.editing = FALSE], Nothing)
  \/ /\ j.kind = "earnings"
     /\ Becomes(t, Done(t, j, {}, {}), updateCreatorEarnings(j.snap, j.arg))

Timeout(t) ==
  /\ UNCHANGED acts
  /\ \E j \in tabs[t].jobs :
       j.left = 0 /\ (Connected(t, j) \/ MovedFunds(t, j) \/ Advanced(t, j)
                        \/ Repaid(t, j) \/ Edited(t, j))

Pending == UNION {tabs[t].jobs : t \in Tabs}
Tick ==
  /\ Pending # {} /\ \A j \in Pending : j.left > 0
  /\ tabs' = [t \in Tabs |-> [tabs[t] EXCEPT !.jobs = {[j EXCEPT !.left = @ - 1] : j \in @}]]
  /\ UNCHANGED <<disk, acts>>

-----------------------------------------------------------------------------
Visit(t) == Load(t) \/ Fetched(t) \/ FetchFails(t) \/ resetToDefaults(t)
Connect(t) == NavConnect(t) \/ ConnectUser(t) \/ ConnectDeposit(t)
Lend(t) == handleDeposit(t) \/ handleWithdraw(t)
Borrow(t) == handleEarningsChange(t) \/ ShowRepay(t) \/ TryDemo(t) \/ handleBorrow(t)
               \/ handleRepay(t)
DemoNext == \/ \E t \in Tabs : Visit(t) \/ Connect(t) \/ Lend(t) \/ Borrow(t) \/ Timeout(t)
            \/ Tick

\* A browser fires its timers, and a fetch ends.
DemoFairness == /\ WF_vars(Tick)
                /\ \A t \in Tabs : WF_vars(Timeout(t)) /\ WF_vars(Fetched(t) \/ FetchFails(t))
DemoSpec == DemoInit /\ [][DemoNext]_vars /\ DemoFairness
-----------------------------------------------------------------------------
Stores == {disk} \cup {tabs[t].mem : t \in Tabs}
StoreOK(s) ==
  /\ {s.tvl, s.deposited, s.additional, s.creator.fees, s.creator.loan.amount} \subseteq Nat
  /\ \A i \in DOMAIN s.loans : s.loans[i] \in {"loan", "early_payment", "full_payoff"}
  /\ s.wallet \in BOOLEAN

\* Every document, timer and saved state has its shape, and no amount of the
\* pool, the position or an advance is negative.
DemoTypeOK ==
  /\ acts \in 0 .. MaxActs
  /\ \A s \in Stores : StoreOK(s)
  /\ \A t \in Tabs : /\ tabs[t].page \in Pages
                     /\ Remaining(tabs[t].sim) >= 0
                     /\ \A j \in tabs[t].jobs : j.left \in 0 .. 6 /\ StoreOK(j.snap)

\* AppContext.tsx:29, "Pool TVL = Base Seed + User Deposits": the pool's size is the
\* seed and the position's deposits, and what the LP history tells, in memory and
\* in the storage, though every handler computes them from the state of its click
\* and every writer of the creators writes the position again.
TvlIsSeedPlusDeposits ==
  \A s \in Stores : s.tvl # NoPool =>
    /\ s.tvl = calculatePoolTVL(s.deposited)
    /\ s.tvl = SEED + FoldSeq(LAMBDA a, b : a + b, 0, s.lp)

\* Nothing a tab shows is lost by a reload: while one tab is open, what it has in
\* memory is what the storage holds, whichever timers are still running, once there
\* is a pool (a document whose mock files failed to load keeps none).
ReloadLosesNothing ==
  \A t \in Tabs : tabs[t].mem.tvl # NoPool => tabs[t].mem = disk

\* The position's yield is written together with what it is derived from: whenever it
\* or the pool changes, it is the yield of the new pool under the new advances, though
\* each handler computes it from its click.  (Written revenues leave it alone.)
YieldFollows ==
  [][ disk'.tvl # NoPool /\ <<disk.yield, disk.tvl>> # <<disk'.yield, disk'.tvl>>
        => disk'.yield = YieldNow(disk') ]_vars

\* An advance that the history records never takes more than the pool has: when the
\* own advance grows with a new history item (a borrow, or the early payment of a
\* demo advance, which opens a real one), what is lent stays within the pool.
LentWithinPool ==
  [][ disk'.creator.loan.amount > disk.creator.loan.amount /\ disk'.loans # disk.loans
        => TotalBorrowed(disk') =< disk'.tvl ]_vars

\* The context's depositToPool and withdrawFromPool, called seconds after the click with
\* the state of the click, still behave as if nothing had waited: the storage is that of
\* LendingPool, whose deposits and withdrawals happen at once and one at a time.
PoolNow == [tvl |-> disk.tvl, deposited |-> disk.deposited, lp |-> disk.lp]
Pool == INSTANCE LendingPool WITH pool <- PoolNow
MovesOneAtATime == Pool!PoolSpec

\* A button disabled by a handler comes back: no flag stays up for good.
ButtonsComeBack ==
  \A t \in Tabs : \A flag \in {"nav", "connect", "transition", "borrow", "repay", "process"} :
    (flag \in tabs[t].busy) ~> (flag \notin tabs[t].busy)

\* The pool, the position and the histories agree, in memory and in the storage.
DemoBooks ==
  /\ DemoTypeOK
  /\ TvlIsSeedPlusDeposits
  /\ ReloadLosesNothing

\* What a handler computes from the state of its click is right when it is written: the
\* yield, the advance, and the pool.
WritesAreCurrent == YieldFollows /\ LentWithinPool /\ MovesOneAtATime
=============================================================================
