------------------------------ MODULE LiveApp ------------------------------
(***************************************************************************)
(* The demo/live frontend, apps/dapp-prod: one browser tab whose data mode *)
(* (DataModeContext.tsx) decides whether AppContext.tsx shows the demo data*)
(* it keeps in localStorage or what the service answers.  The mode, the    *)
(* wallet and the creators are changed by health checks, by loads, by the  *)
(* wallet adapter and by handlers that wait and then write the closure of  *)
(* their click, all of them in any order.                                  *)
(*                                                                         *)
(* Amounts, histories and the revenues are left out: a list of creators or *)
(* a pool is told by where it came from, an own entry by its status and    *)
(* whether it has an advance.  What React runs after an update (effects)   *)
(* is part of the step that caused it; an effect's load that the same      *)
(* update already replaces is not told apart.                              *)
(***************************************************************************)
EXTENDS Integers, Sequences

CONSTANTS Deployments, \* the environments the frontend is built in
          LiveAnswers, \* what the service may answer a load: its markets, the adapter
                       \* wallet's positions, and governance
          PageLimit,   \* how many creators are asked for (100 in the code)
          MaxActs      \* bound: what the user and the wallet do

\* What the service's schema promises of an answer: a status is any string, a position is
\* not negative.
ASSUME LiveAssumption ==
  /\ \A a \in LiveAnswers :
       /\ a.markets \in Seq([authority : STRING, status : STRING, vault : STRING])
       /\ a.positions \in Seq(Nat)
  /\ PageLimit \in Nat /\ MaxActs \in Nat

VARIABLES build,  \* runtimeEnv, of which whether it is valid and its default mode
          disk,   \* localStorage
          doc,    \* the tab's document
          acts    \* what the user and the wallet did so far
vars == <<build, disk, doc, acts>>

NoWallet == ""
Demo == "demo wallet"     \* the constant address both frontends use
Key == "adapter wallet"   \* the address of the wallet extension
Wallets == {Demo, Key}
Modes == {"demo", "live"}
\* The middleware sends every other path to one of these.
Pages == {"home", "leaderboard", "deposit", "user"}

Absent == [status |-> "absent", loan |-> FALSE, vault |-> FALSE]
Pending == [Absent EXCEPT !.status = "pending"]
NoOwn == [w \in Wallets |-> Absent]
\* poolData, userPosition, creators: the pool and the other creators by their origin.
NoData == [pool |-> "none", book |-> "none", own |-> NoOwn, dep |-> 0]
HasCreators(s) == s.book # "none" \/ s.own # NoOwn
Listed(mem, w) == w # NoWallet /\ mem.own[w].status \notin {"absent", "pending"}
Data(s) == [pool |-> s.pool, book |-> s.book, own |-> s.own, dep |-> s.dep]
NoStorage == [pool |-> "none", book |-> "none", own |-> NoOwn, dep |-> 0,
              mode |-> "none", wallet |-> NoWallet]
\* s, where the fields of ch take its place.
Over(ch, s) == [k \in DOMAIN s |-> IF k \in DOMAIN ch THEN ch[k] ELSE s[k]]

\* What a health check was started by, and the loads that may be under way.
\* ("left": a header that is gone, with the flag its check would clear).
Checkers == {"startup", "nav", "enable", "left"}
LoadKeys == Modes \X (Wallets \cup {NoWallet})
NoLoad == <<"none", NoWallet>>

\* runtime.ts, the environment e of a deployment: malformed program addresses are
\* skipped, a local API is refused in production unless it is allowed, and without an
\* API and the cluster's programs there is no live mode.
parseMode(raw) == IF raw = "live" THEN "live" ELSE "demo"
parseProgramIds(e) == {c \in DOMAIN e.programs : "base58" \in e.programs[c]}
runtimeEnv(e) ==
  LET refused == e.api = "empty" \/ (e.api = "local" /\ e.production /\ ~e.allowLocal)
      isValid == ~refused /\ e.cluster \in parseProgramIds(e)
  IN [isValid |-> isValid, defaultMode |-> IF isValid THEN parseMode(e.mode) ELSE "demo"]

Forced == build.isValid /\ build.defaultMode = "live"
getStoredMode(s) == IF s.mode = "none" THEN build.defaultMode ELSE s.mode
InitialMode(s) == IF ~build.isValid THEN "demo"
                  ELSE IF Forced THEN "live" ELSE getStoredMode(s)
Closed == [page |-> "closed", mode |-> "demo", health |-> "healthy", initial |-> "demo",
           checks |-> [k \in Checkers |-> 0], load |-> NoLoad, late |-> 0, loading |-> FALSE, shown |-> NoLoad,
           mem |-> NoData, paused |-> FALSE, wallet |-> NoWallet, adapter |-> FALSE, busy |-> {}, jobs |-> {},
           safe |-> FALSE, sim |-> FALSE, repaying |-> FALSE]
Connected(d) == d.adapter \/ d.wallet # NoWallet
writeEnabled(d) == d.mode = "live" /\ Connected(d) /\ ~d.paused

-----------------------------------------------------------------------------
(* The effects, on the tab w == [doc, disk] as it was rendered.            *)
AdapterEffect(w) ==
  IF w.doc.adapter /\ w.doc.wallet # Key
  THEN [w EXCEPT !.doc.wallet = Key, !.disk.wallet = Key] ELSE w
Hydrate(w) ==
  IF w.doc.wallet = NoWallet THEN [w EXCEPT !.doc.wallet = w.disk.wallet] ELSE w

\* A new mode or wallet cancels the load under way and starts another; saved
\* demo data are shown at once.  Of the cancelled loads only the live ones are counted,
\* a cancelled fetch of the mock files does nothing when it ends.
LoadKey(d) == <<d.mode, d.wallet>>
Restorable(s) == s.pool # "none" /\ HasCreators(s)
Cancelled(d) == [d EXCEPT !.load = NoLoad,
                          !.late = IF d.load[1] = "live" THEN @ + 1 ELSE @]
StartLoad(w) ==
  LET d == Cancelled(w.doc)
  IN [w EXCEPT !.doc =
        IF d.mode = "demo" /\ Restorable(w.disk)
        THEN [d EXCEPT !.mem = Data(w.disk), !.loading = FALSE, !.shown = LoadKey(d)]
        ELSE [d EXCEPT !.load = LoadKey(d), !.loading = TRUE]]
\* (mutant: the wallet is not among the effect's dependencies)
LoadEffectByMode(prev, w) == IF prev.mode = w.doc.mode /\ prev.page # "closed" THEN w
                                                                 ELSE StartLoad(w)
LoadEffect(prev, w) == IF LoadKey(prev) = LoadKey(w.doc) /\ prev.page # "closed" THEN w
                                                                 ELSE StartLoad(w)

\* Where the fields ch are set in memory and saved, whatever the mode.
Save(w, ch) == [w EXCEPT !.doc.mem = Over(ch, @), !.disk = Over(ch, @)]
Creators(mem, w, entry) ==
  LET own == [mem.own EXCEPT ![w] = entry]
  IN IF mem.pool = "none" THEN [book |-> mem.book, own |-> own]
     ELSE [book |-> mem.book, own |-> own, dep |-> mem.dep]
PreviewEffect(w) ==
  LET d == w.doc
  IN IF d.mode = "live" /\ d.wallet # NoWallet /\ d.mem.own[d.wallet] = Absent
     THEN Save(w, Creators(d.mem, d.wallet, Pending)) ELSE w

\* The mode's provider reads the stored mode whenever its mode or health changes,
\* and revalidates the service when that turns to live.
StartupEffect(prev, w) ==
  LET now == InitialMode(w.disk)
      d == [w.doc EXCEPT !.initial = now]
  IN IF <<prev.mode, prev.health>> = <<w.doc.mode, w.doc.health>> /\ prev.page # "closed" THEN w
     ELSE IF now = "live" /\ (prev.initial # "live" \/ prev.page = "closed")
          THEN [w EXCEPT !.doc = [d EXCEPT !.health = "checking", !.checks["startup"] = @ + 1]]
          ELSE [w EXCEPT !.doc = d]

\* The user page: a creator vault is a detected safe, and the simulated advance
\* follows the creators.
PageEffects(w) ==
  LET d == w.doc
      own == IF d.wallet = NoWallet THEN Absent ELSE d.mem.own[d.wallet]
  IN IF d.page # "user" THEN w
     ELSE [w EXCEPT !.doc.safe = @ \/ own.vault,
                    !.doc.sim = IF own = Absent THEN @ ELSE own.loan]

\* What the tab w becomes, a set of one (so that TLC evaluates each effect once).
Settle(prev, w) ==
  {PageEffects(s) : s \in {StartupEffect(prev, p) : p \in {PreviewEffect(l) :
     l \in {LoadEffect(prev, h) : h \in {Hydrate(a) : a \in {AdapterEffect(x) : x \in {w}}}}}}}
Becomes(w) == \E s \in Settle(doc, w) : doc' = s.doc /\ disk' = s.disk
Now(d) == [doc |-> d, disk |-> disk]

LiveInit == /\ build \in {runtimeEnv(e) : e \in Deployments}
            /\ disk = NoStorage
            /\ doc = Closed
            /\ acts = 0
Act == acts < MaxActs /\ acts' = acts + 1 /\ UNCHANGED build
Free == UNCHANGED <<build, acts>>

-----------------------------------------------------------------------------
(* Documents: a visit or a reload forgets the memory, the timers and the   *)
(* requests of the old one; the home page's guide routes within it.        *)
Document(page, s) ==
  LET m == InitialMode(s)
  IN [Closed EXCEPT !.page = page, !.mode = m, !.initial = m, !.wallet = s.wallet,
                    !.health = IF m = "demo" THEN "healthy" ELSE "unknown"]
Open(page, s) ==
  \E n \in Settle(Closed, [doc |-> Document(page, s),
                           disk |-> IF Forced THEN [s EXCEPT !.mode = "live"] ELSE s]) :
    doc' = n.doc /\ disk' = n.disk
FirstVisit == doc.page = "closed" /\ Free /\ \E p \in Pages : Open(p, disk)
Visit == Act /\ doc.page # "closed" /\ \E p \in Pages : Open(p, disk)
Ready == doc.page # "closed" /\ ~doc.loading
Guide == /\ Act /\ Ready /\ doc.page = "home"
         /\ \E p \in {"user", "deposit"} :
              Becomes(Now([doc EXCEPT !.page = p, !.checks["nav"] = 0,
                                      !.checks["left"] = @ + doc.checks["nav"]]))

\* Reset, and the disconnect button of the demo mode.
resetToDefaults ==
  /\ Act /\ Ready /\ doc.mode = "demo"
  /\ Open(doc.page, Over(NoData, [disk EXCEPT !.wallet = NoWallet]))

-----------------------------------------------------------------------------
(* The mode: chosen in the header or on the deposit page, and the answers  *)
(* of the health checks.                                                   *)
ToDemo(w) == [w EXCEPT !.doc.mode = "demo", !.doc.health = "healthy", !.disk.mode = "demo"]
\* (mutant: the mode is not stored after a failure)
UnhealthyUnstored(w) == IF Forced THEN [w EXCEPT !.doc.health = "unhealthy"]
                        ELSE [w EXCEPT !.doc.health = "unhealthy", !.doc.mode = "demo"]
Unhealthy(w) == IF Forced THEN [w EXCEPT !.doc.health = "unhealthy"]
                ELSE [w EXCEPT !.doc.health = "unhealthy", !.doc.mode = "demo",
                               !.disk.mode = "demo"]
modeChanging == doc.checks["nav"] > 0
ChooseDemo == /\ Act /\ Ready /\ ~Forced /\ doc.mode = "live" /\ ~modeChanging
              /\ Becomes(ToDemo(Now(doc)))
setModeLive(by) ==
  Becomes(IF ~build.isValid THEN Unhealthy(Now(doc))
          ELSE Now([doc EXCEPT !.mode = "live", !.health = "checking", !.checks[by] = @ + 1]))
ChooseLive == /\ Act /\ Ready /\ ~Forced /\ doc.mode = "demo" /\ doc.health # "checking" /\ ~modeChanging
              /\ setModeLive("nav")
EnableLive == /\ Act /\ Ready /\ doc.page = "deposit" /\ doc.mode = "demo"
              /\ doc.health # "checking" /\ doc.checks["enable"] = 0
              /\ setModeLive("enable")

Checked(k) == [doc EXCEPT !.checks[k] = @ - 1]
CheckPasses(k) ==
  /\ Free /\ doc.checks[k] > 0
  /\ LET d == [Checked(k) EXCEPT !.health = "healthy", !.mode = IF k = "startup" THEN "live" ELSE @]
     IN Becomes([doc |-> d, disk |-> [disk EXCEPT !.mode = "live"]])
CheckFails(k) == Free /\ doc.checks[k] > 0 /\ Becomes(Unhealthy(Now(Checked(k))))

-----------------------------------------------------------------------------
(* The answers of a load.  Only the last one is shown; but any live load   *)
(* that fails, a cancelled one too, turns the mode to demo.                *)
Loaded(mem, paused) ==
  [doc EXCEPT !.load = NoLoad, !.loading = FALSE, !.shown = doc.load,
              !.mem = mem, !.paused = paused]
DemoLoads ==
  /\ Free /\ doc.load # NoLoad /\ doc.load[1] = "demo"
  /\ LET fresh == [NoData EXCEPT !.pool = "demo", !.book = "demo"]
     IN Becomes([doc |-> Loaded(fresh, FALSE),
                 disk |-> Over(fresh, [disk EXCEPT !.wallet = doc.load[2]])])

\* bridge.ts, on the service's answers a.  The pool needs the stablecoin's state; a
\* failed overview only leaves the fees out.
getPoolOverview(a) == a.attnusd
\* Any other status counts as active.
normalizeMarketSummary(m) ==
  [m EXCEPT !.status = IF @ \in {"settled", "matured"} THEN @ ELSE "active"]
getMarkets(a) == [i \in DOMAIN a.markets |-> normalizeMarketSummary(a.markets[i])]
\* A market without an authority is listed by its own address.
mapMarketsToCreators(ms) ==
  [i \in DOMAIN ms |-> [wallet |-> IF ms[i].authority = NoWallet THEN "market" ELSE ms[i].authority,
                        status |-> ms[i].status, vault |-> ms[i].vault]]
paginate(items) == SubSeq(items, 1, IF Len(items) > PageLimit THEN PageLimit ELSE Len(items))
getCreators(a) == paginate(mapMarketsToCreators(getMarkets(a)))
\* No portfolio, and one that fails, leave the position empty; the first counts.
getUserPortfolio(a, w) == IF w = Key /\ a.positions # <<>> THEN Head(a.positions) ELSE 0

\* The first entry of the wallet; its vault counts when governance knows it.
Entry(a, w) ==
  LET cs == getCreators(a)
      mine == {i \in DOMAIN cs : cs[i].wallet = w /\ \A k \in 1 .. i - 1 : cs[k].wallet # w}
  IN IF mine = {} THEN Absent
     ELSE LET c == cs[CHOOSE i \in mine : TRUE]
          IN [Absent EXCEPT !.status = c.status, !.vault = c.vault \in a.vaults]
LiveLoads ==
  /\ Free /\ doc.load # NoLoad /\ doc.load[1] = "live"
  /\ \E a \in LiveAnswers :
       /\ getPoolOverview(a)
       /\ Becomes(Now(Loaded([pool |-> "live", book |-> "live",
                              dep |-> getUserPortfolio(a, doc.load[2]),
                              own |-> [w \in Wallets |-> Entry(a, w)]], a.paused)))
FallBack(w, mode) == IF mode = "live" /\ ~Forced THEN ToDemo(w) ELSE w
\* (mutant: the error path forgets setLoading(false))
LoadFailsStuck ==
  /\ Free /\ doc.load # NoLoad
  /\ Becomes(FallBack(Now([doc EXCEPT !.load = NoLoad, !.shown = NoLoad, !.paused = FALSE]),
                      doc.load[1]))
LoadFails ==
  /\ Free /\ doc.load # NoLoad
  /\ Becomes(FallBack(Now([doc EXCEPT !.load = NoLoad, !.loading = FALSE, !.shown = NoLoad,
                                      !.paused = FALSE]), doc.load[1]))
LateLoads ==
  /\ Free /\ doc.late > 0
  /\ \E w \in {Now([doc EXCEPT !.late = @ - 1])} : Becomes(w) \/ Becomes(FallBack(w, "live"))

-----------------------------------------------------------------------------
(* The wallet.                                                             *)
Job(kind, arg) == [kind |-> kind, arg |-> arg, mode |-> doc.mode, wallet |-> doc.wallet,
                   mem |-> doc.mem]
Start(flag, kind, arg) ==
  Becomes(Now([doc EXCEPT !.busy = @ \cup flag, !.jobs = @ \cup {Job(kind, arg)}]))
Done(j, flags, next) == [doc EXCEPT !.jobs = (@ \ {j}) \cup next, !.busy = @ \ flags]
Then(j, kind) == {[j EXCEPT !.kind = kind]}

\* The extension connects (autoConnect, or the modal) or drops the connection.
AdapterChanges == /\ Act /\ doc.page # "closed"
                  /\ Becomes(Now([doc EXCEPT !.adapter = ~@]))
connectWallet ==
  /\ Act /\ Ready /\ ~Connected(doc) /\ "connect" \notin doc.busy
  /\ Start({"connect"}, "connect", 0)
disconnectWallet == /\ Act /\ Ready /\ doc.mode = "live" /\ Connected(doc)
                    /\ Start({}, "disconnect", 0)
UserChecklist == doc.page = "user" /\ ~doc.safe
LeaderboardChecklist == /\ doc.page = "leaderboard"
                        /\ ~Listed(doc.mem, doc.wallet) \/ ~doc.mem.own[doc.wallet].vault
signAndListCreator ==
  /\ Act /\ Ready /\ doc.mode = "live" /\ doc.wallet # NoWallet /\ "list" \notin doc.busy
  /\ UserChecklist \/ LeaderboardChecklist
  /\ Start({"list"}, "list", 0)
\* The two pages' own connect buttons always bring the demo wallet.
ConnectDeposit ==
  /\ Act /\ Ready /\ doc.page = "deposit" /\ ~Connected(doc) /\ "join" \notin doc.busy
  /\ Start({"join"}, "join", 0)
LoanInterface == Ready /\ doc.page = "user" /\ (doc.mode = "demo" \/ doc.safe)
ConnectUser ==
  /\ Act /\ LoanInterface /\ doc.wallet = NoWallet /\ "setup" \notin doc.busy
  /\ Start({"setup"}, "setup", 0)

\* A connection that succeeded is taken for a failure: the handler looks at the
\* key of its click.  In demo mode it then goes on to the demo wallet.
ConnectEnds(j) ==
  /\ j.kind = "connect"
  /\ \E ok \in BOOLEAN :
       LET d == [Done(j, {}, {}) EXCEPT !.adapter = @ \/ ok]
       IN Becomes(Now(IF j.mode = "demo" THEN [d EXCEPT !.jobs = @ \cup Then(j, "generate")]
                      ELSE [d EXCEPT !.busy = @ \ {"connect"}]))
SetWallet(d, w) == [doc |-> [d EXCEPT !.wallet = w], disk |-> [disk EXCEPT !.wallet = w]]
DisconnectEnds(j) ==
  /\ j.kind = "disconnect"
  /\ \E ok \in BOOLEAN : Becomes(SetWallet([Done(j, {}, {}) EXCEPT !.adapter = @ /\ ~ok], NoWallet))
\* The user page's setup goes on to list the wallet, from the memory of its click.
SetupEnds(j) == j.kind = "setup" /\ Becomes(SetWallet(Done(j, {}, Then(j, "listing")), Demo))
WalletJob(j) ==
  \/ ConnectEnds(j)
  \/ DisconnectEnds(j)
  \/ j.kind = "generate" /\ Becomes(SetWallet(Done(j, {"connect"}, {}), Demo))
  \/ j.kind = "join" /\ Becomes(SetWallet(Done(j, {"join"}, {}), Demo))
  \/ SetupEnds(j)

-----------------------------------------------------------------------------
(* The writers: each starts from the memory of its click.                  *)
\* The deposit page shows its forms to who may write; a is the amount, negative on the
\* tab that withdraws.
canTransact == Ready /\ doc.page = "deposit" /\ writeEnabled(doc)
DepositForm(a) == /\ canTransact /\ doc.wallet # NoWallet /\ "process" \notin doc.busy
                  /\ doc.mem.dep + a >= 0
handleDeposit == Act /\ \E a \in {1, -1} : DepositForm(a) /\ Start({"process"}, "deposit", a)
\* The stake is a transaction of the wallet: nothing of it stays in the tab.
StakeForm == canTransact /\ doc.adapter /\ "stake" \notin doc.busy
handleStake == Act /\ StakeForm /\ Start({"stake"}, "stake", 0)
SafeDetected == /\ Act /\ Ready /\ doc.page = "user" /\ doc.mode = "live" /\ ~doc.safe
                /\ Becomes(Now([doc EXCEPT !.safe = TRUE]))
Own == IF doc.wallet = NoWallet THEN Absent ELSE doc.mem.own[doc.wallet]
ShowRepay == /\ Act /\ LoanInterface /\ Listed(doc.mem, doc.wallet)
             /\ Becomes(Now([doc EXCEPT !.repaying = ~@]))
TryDemo == /\ Act /\ LoanInterface /\ doc.repaying /\ ~Own.loan /\ ~doc.sim
           /\ Becomes(Now([doc EXCEPT !.sim = TRUE]))
ActionShown == LoanInterface /\ doc.wallet # NoWallet /\ "setup" \notin doc.busy
handleBorrow == /\ Act /\ ActionShown /\ ~doc.repaying /\ ~Own.loan /\ doc.mem.pool # "none"
                /\ "borrow" \notin doc.busy
                /\ Start({"borrow"}, "borrow", 0)
\* calculateLoanDetails, of which only whether anything is owed is kept.
Owes == doc.sim \/ Own.loan
handleRepay == /\ Act /\ ActionShown /\ doc.repaying /\ Owes
               /\ "repay" \notin doc.busy
               /\ \E kind \in {"payoff", "early"} : Start({"repay"}, kind, 0)

\* addCreatorToList: a known entry is merged, its advance kept.
AddListed(j, w) == Creators(j.mem, w, [j.mem.own[w] EXCEPT !.status = "listed"])
AddActive(j) == Creators(j.mem, j.wallet, [j.mem.own[j.wallet] EXCEPT !.status = "active", !.loan = TRUE])
RemoveLoan(j) ==
  IF j.mem.own[j.wallet] = Absent THEN Creators(j.mem, j.wallet, Absent)
  ELSE Creators(j.mem, j.wallet, [j.mem.own[j.wallet] EXCEPT !.status = "listed", !.loan = FALSE])
ListJob(j) ==
  \/ /\ j.kind = "list"
     /\ Becomes(Save(Now(Done(j, {"list"}, {})), AddListed(j, j.wallet)))
  \/ /\ j.kind = "listing"
     /\ Becomes(Save(Now(Done(j, {"setup"}, {})),
                     Creators(j.mem, Demo, [j.mem.own[Demo] EXCEPT !.status = "listed",
                                                                   !.vault = FALSE])))
\* (mutant: the deposit is shown and not saved)
DepositJobUnsaved(j) ==
  \/ /\ j.kind = "deposit"
     /\ Becomes(Now([Done(j, {"process"}, {}) EXCEPT !.mem.dep = j.mem.dep + j.arg,
                                                     !.mem.pool = j.mem.pool]))
DepositJob(j) ==
  \/ /\ j.kind = "deposit"
     /\ Becomes(Save(Now(Done(j, {"process"}, {})),
                     IF j.mem.pool = "none" THEN <<>>
                     ELSE [dep |-> j.mem.dep + j.arg, pool |-> j.mem.pool]))
StakeEnds(j) == j.kind = "stake" /\ Becomes(Now(Done(j, {"stake"}, {})))
\* A pending or unknown creator is listed first, and the advance follows from the
\* same click.
BorrowJob(j) ==
  \/ /\ j.kind = "borrow" /\ ~Listed(j.mem, j.wallet)
     /\ Becomes(Save(Now(Done(j, {}, Then(j, "opening"))), AddListed(j, j.wallet)))
  \/ /\ j.kind = "opening" \/ (j.kind = "borrow" /\ Listed(j.mem, j.wallet))
     /\ Becomes(Save(Now([Done(j, {"borrow"}, {}) EXCEPT !.sim = TRUE]), AddActive(j)))
\* An early payment's new amount may not fit the pool.
RepayJob(j) ==
  \/ /\ j.kind = "payoff"
     /\ Becomes(Save(Now([Done(j, {"repay"}, {}) EXCEPT !.sim = FALSE, !.repaying = FALSE]),
                     RemoveLoan(j)))
  \/ /\ j.kind = "early"
     /\ \E ch \in {<<>>, AddActive(j)} :
          Becomes(Save(Now([Done(j, {"repay"}, {}) EXCEPT !.sim = TRUE]), ch))
JobEnds == /\ Free
           /\ \E j \in doc.jobs : \/ WalletJob(j) \/ ListJob(j) \/ DepositJob(j)
                                \/ StakeEnds(j) \/ BorrowJob(j) \/ RepayJob(j)

-----------------------------------------------------------------------------
Mode == ChooseDemo \/ ChooseLive \/ EnableLive
Wallet == AdapterChanges \/ connectWallet \/ disconnectWallet \/ ConnectDeposit \/ ConnectUser
Write == signAndListCreator \/ handleDeposit \/ handleStake \/ SafeDetected \/ ShowRepay
           \/ TryDemo \/ handleBorrow \/ handleRepay
Answered == DemoLoads \/ LiveLoads \/ LoadFails
CheckEnds == \E k \in Checkers : CheckPasses(k) \/ CheckFails(k)
LiveNext == \/ FirstVisit \/ Visit \/ Guide \/ resetToDefaults \/ Mode \/ Wallet \/ Write
            \/ CheckEnds \/ Answered \/ LateLoads \/ JobEnds
\* A browser ends every request; and the mock files, which the app's own origin
\* serves, do not for ever lose the race against a health check.
LiveFairness == WF_vars(Answered) /\ SF_vars(DemoLoads) /\ WF_vars(CheckEnds)
LiveSpec == LiveInit /\ [][LiveNext]_vars /\ LiveFairness
-----------------------------------------------------------------------------
EntryOK(e) == e.status \in {"absent", "pending", "listed", "active", "matured", "settled"}
                /\ {e.loan, e.vault} \subseteq BOOLEAN
DataOK(s) == /\ s.pool \in {"none", "demo", "live"} /\ s.book \in {"none", "demo", "live"}
             /\ \A w \in Wallets : EntryOK(s.own[w])
             /\ s.dep \in Nat
Opened == doc.page # "closed"

\* The tab, its timers and the storage have their shapes.
LiveTypeOK ==
  /\ build \in [isValid : BOOLEAN, defaultMode : Modes] /\ acts \in 0 .. MaxActs
  /\ disk.mode \in Modes \cup {"none"} /\ DataOK(disk) /\ DataOK(doc.mem)
  /\ {disk.wallet, doc.wallet} \subseteq Wallets \cup {NoWallet}
  /\ doc.mode \in Modes /\ doc.health \in {"healthy", "unknown", "checking", "unhealthy"}
  /\ doc.load \in LoadKeys \cup {NoLoad} /\ doc.shown \in LoadKeys \cup {NoLoad}
  /\ \A k \in Checkers : doc.checks[k] \in Nat /\ doc.late \in Nat
  /\ \A j \in doc.jobs : DataOK(j.mem)

\* attn-markets-frontend-spec.md:178, "If either health check fails, the UI
\* automatically reverts to Demo": whatever checks and loads are under way, a tab
\* that reports an unhealthy service shows the demo and will start in it again; an
\* enforced live mode is never left, and a build without a service never enters it.
FailureFallsBack ==
  Opened => /\ (doc.health = "unhealthy" => Forced \/ (doc.mode = "demo" /\ disk.mode = "demo"))
            /\ (Forced => doc.mode = "live")
            /\ (~build.isValid => doc.mode = "demo")

\* AppContext.tsx, the loading effect: an answer is shown only while the mode and
\* the wallet it was asked for are still the tab's, and the loading screen is shown
\* exactly while the answer to them is awaited.
ShownIsCurrent ==
  Opened => /\ (doc.loading <=> doc.load = LoadKey(doc))
            /\ (~doc.loading => doc.load = NoLoad /\ doc.shown \in {NoLoad, LoadKey(doc)})

\* The wallet a tab shows is the one the next document starts with, though the
\* adapter, five handlers and a fetched demo state all write it.
WalletIsStored == Opened => doc.wallet = disk.wallet

\* In demo mode a reload shows what the tab shows: the memory is the storage's, even
\* after live mode and its handlers wrote to either (a failed fetch shows nothing).
DemoIsStored ==
  Opened /\ doc.mode = "demo" /\ ~doc.loading /\ doc.shown # NoLoad => doc.mem = Data(disk)

\* The loading screen goes and a health check's verdict comes: a mode switched, a wallet
\* changed or a load that fails in the meantime never leaves the tab waiting for good.
Waiting == doc.loading \/ doc.health = "checking"
LoadingEnds == Waiting ~> ~Waiting

\* The next document starts where this one is: nothing the tab shows, the wallet or
\* the demo, is only in its memory.
StorageFollows ==
  /\ LiveTypeOK
  /\ WalletIsStored
  /\ DemoIsStored
=============================================================================
