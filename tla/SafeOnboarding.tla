--------------------------- MODULE SafeOnboarding ---------------------------
(***************************************************************************)
(* The Squads Safe panel of the user page of dapp-prod                     *)
(* (SquadsSafeOnboarding.tsx, and the part of sponsor/page.tsx it talks    *)
(* to): the form in which a creator asks for a Safe, the record it shows,  *)
(* the browser storage it keeps records and the tour's state in, and the   *)
(* requests it has sent.  A handler runs up to its next await in one       *)
(* action, followed by every effect React then runs, until none changes    *)
(* anything (Settle).  The answer of a request is read on the server in    *)
(* one action and handled by the page in another, so that answers arrive   *)
(* late and out of order.  The cluster is fixed, as it is in the form, and *)
(* the texts of the form, the governance form and the notices are left     *)
(* out.  The server is attn_api, as much of it as the panel can notice.    *)
(***************************************************************************)
EXTENDS Naturals, FiniteSets

CONSTANTS
    Wallets,
    None,
    CreatorVault,  \* what the creators' list says of a wallet's vault:
                   \* "none", "flag" (it has one) or "address"
    MaxNonces,     \* bound on the nonces attn_api issues
    MaxKeys,       \* bound on the idempotency keys made, but for one recovery's
    MaxCalls,      \* bound on the requests in flight
    Scenarios      \* a behaviour is one of these: bounds on the acts of the user
                   \* in the form, the moves elsewhere and the faults; whether
                   \* an older version left its tour key; the status of the
                   \* requests attn_api already has

VARIABLES
    ui,       \* the panel's state and refs
    page,     \* the page around it, the connected wallet and the mode
    store,    \* localStorage
    calls,    \* requests sent and not yet handled
    server,   \* attn_api
    spent,    \* bounds: keys made, and the acts, moves and faults left
    refused   \* history: keys and nonces the server has refused

vars == <<ui, page, store, calls, server, spent, refused>>

-----------------------------------------------------------------------------
(* Records *)

Statuses == {"pending", "ready", "failed"}

\* from tells a row of attn_api from what buildCreatorDerivedSafe makes up.
RecordType ==
    [from : {"api", "creator"}, wallet : Wallets, status : Statuses,
     address : BOOLEAN, vault : BOOLEAN]

IdType == {"api", "creator"} \X Wallets

Id(r) == <<r.from, r.wallet>>

NoticeType ==
    [type : {"new", "existing"}, id : IdType,
     state : {"pending", "ready", "failed"}]

\* What a wallet signs, the nonce 0 while it is asked for.
SignedType == [wallet : Wallets, nonce : 0..MaxNonces]

ASSUME OnboardingAssumption ==
    /\ None \notin Wallets \cup RecordType \cup IdType \cup NoticeType \cup SignedType
    /\ CreatorVault \in [Wallets -> {"none", "flag", "address"}]
    /\ {MaxNonces, MaxKeys, MaxCalls} \subseteq Nat
    /\ Scenarios \subseteq
         [acts : Nat, moves : Nat, faults : Nat, legacyTour : BOOLEAN,
          status : {"ready", "failed"}]

Lifecycle(r) ==
    CASE r.status = "failed" -> "failed"
      [] r.status # "failed" /\ r.address -> "ready"
      [] OTHER -> "pending"

\* What the panel says of a record when it is answered or found.
composeSuccessNotice(r, type) == [type |-> type, id |-> Id(r), state |-> Lifecycle(r)]

buildCreatorDerivedSafe(w) ==
    IF w = None \/ CreatorVault[w] = "none" THEN None
    ELSE [from |-> "creator", wallet |-> w, status |-> "ready",
          address |-> CreatorVault[w] = "address",
          vault |-> CreatorVault[w] = "address"]

HasVault(w) == w # None /\ CreatorVault[w] # "none"

-----------------------------------------------------------------------------
(* The browser: what effects read and write. *)

\* What Step makes of the browser b, which is evaluated once.
Then(b, Step(_)) == CHOOSE c \in {Step(a) : a \in {b}} : TRUE

Browser == [ui |-> ui, page |-> page, store |-> store, calls |-> calls]

\* The browser b once a part of it has changed.
SetUi(b, u) == [b EXCEPT !.ui = u]
SetPage(b, p) == [b EXCEPT !.page = p]
SetStore(b, t) == [b EXCEPT !.store = t]
SetCalls(b, k) == [b EXCEPT !.calls = k]

\* The storage t once it has that the tour of w is over, the record r, or no
\* record of w.
TourDone(t, w) == [t EXCEPT !.tour = @ \cup {w}]
Stored(t, r) == [t EXCEPT !.safes = [t.safes EXCEPT ![r.wallet] = r]]
Forget(t, w) == [t EXCEPT !.safes = [t.safes EXCEPT ![w] = None]]

\* The tour's key of the page: the connected wallet's, or "anonymous".
TourKey(b) == b.page.wallet

markTourComplete(b, r) ==
    IF b.ui.tourRef = r.wallet THEN b
    ELSE SetStore(SetUi(b, [b.ui EXCEPT !.tourRef = r.wallet]), TourDone(b.store, r.wallet))

\* handleSafeDetected and handleDismissLiveTour of the page.
handleSafeDetected(b, w) ==
    SetStore(SetPage(b, [b.page EXCEPT !.safeDetected = TRUE, !.tour = FALSE]),
             TourDone(b.store, w))

notifySafeDetected(b, r) ==
    IF Lifecycle(r) = "failed" \/ b.ui.detected = Id(r) THEN b
    ELSE markTourComplete(
           handleSafeDetected(
             SetUi(b, [b.ui EXCEPT !.detected = Id(r)]), r.wallet), r)

\* Mutant: the notice is left as it was composed.
setResultOnly(b, r) ==
    Then(SetStore(SetUi(b, [b.ui EXCEPT !.result = r]), Stored(b.store, r)),
         LAMBDA a : notifySafeDetected(a, r))

\* setResult, and the effects a new result has: the notice about the same
\* request is composed again, the record is announced and stored.
setResult(b, r) ==
    LET Notice(n) == IF n # None /\ n.id = Id(r) THEN composeSuccessNotice(r, n.type) ELSE n
        shown == [b.ui EXCEPT !.result = r, !.notice = Notice(b.ui.notice)]
    IN  Then(SetStore(SetUi(b, shown), Stored(b.store, r)),
             LAMBDA a : notifySafeDetected(a, r))

\* What an answer, the cache or the creators' list does with a record.
Show(b, r, type) ==
    setResult(SetUi(b, [b.ui EXCEPT !.notice = composeSuccessNotice(r, type)]), r)

syncResult(b, r) ==
    IF b.ui.result # None /\ Id(b.ui.result) = Id(r) THEN setResult(b, r) ELSE b

NoReply == [code |-> "none", row |-> None, nonce |-> 0]

\* A request; from tells whose record it is about, by which handler made it.
Call(kind, w, by) ==
    [kind |-> kind, wallet |-> w, by |-> by, from |-> "api", key |-> 0,
     nonce |-> 0, signature |-> None, reply |-> NoReply]

Ask(b, call) == SetCalls(b, b.calls \cup {call})

\* fetchExistingSafe up to its await.  by: what called it.  pstate and pkey
\* are those of the caller's render.
fetchExistingSafe(b, w, by, pstate, pkey) ==
    IF by = "effect" /\ (b.ui.fetching = w \/ (pkey = w /\ pstate \in {"loading", "done"}))
    THEN b
    ELSE Ask(SetUi(b, [b.ui EXCEPT !.fetching = w, !.pstate = "loading", !.pkey = w]),
             Call("lookup", w, by))

-----------------------------------------------------------------------------
(* Effects.  Each reads the render s it was made in and writes to b. *)

FirstCached(s) == CHOOSE w \in Wallets : s.store.safes[w] # None

findAnyCachedSafeForCluster(s, b) ==
    IF s.ui.result # None \/ s.ui.wallet # None
       \/ \A w \in Wallets : s.store.safes[w] = None
    THEN b
    ELSE LET r == s.store.safes[FirstCached(s)]
         IN  Show(SetUi(b, [b.ui EXCEPT !.wallet = r.wallet]), r, "existing")

MigrateTour(s, b) ==
    LET w == IF s.ui.wallet # None THEN s.ui.wallet ELSE s.page.wallet
    IN  IF s.store.legacyTour /\ w # None
        THEN SetStore(SetUi(b, [b.ui EXCEPT !.tourRef = w]),
                      [TourDone(b.store, w) EXCEPT !.legacyTour = FALSE])
        ELSE b

RestoreSafe(s, b) ==
    LET w == s.ui.wallet
        r == IF s.store.safes[w] # None THEN s.store.safes[w]
             ELSE buildCreatorDerivedSafe(s.page.wallet)
    IN  IF s.ui.result # None \/ w = None \/ r = None THEN b
        ELSE Then(Show(b, r, "existing"),
                  LAMBDA a : SetUi(a, [a.ui EXCEPT !.pstate = "done", !.pkey = w]))

\* Mutant: a failed lookup is not made again.
PrefetchOnce(s, b) ==
    LET w == s.ui.wallet
    IN  CASE w = None \/ ~s.page.live ->
               SetUi(b, [b.ui EXCEPT !.pstate = "idle", !.pkey = None])
          [] w # None /\ s.page.live /\ s.ui.pkey = w /\ s.ui.pstate # "idle" -> b
          [] OTHER -> fetchExistingSafe(b, w, "effect", s.ui.pstate, s.ui.pkey)

Prefetch(s, b) ==
    LET w == s.ui.wallet
        known == s.ui.result # None /\ s.ui.result.wallet = w
    IN  CASE w = None \/ ~s.page.live ->
               SetUi(b, [b.ui EXCEPT !.pstate = "idle", !.pkey = None])
          [] w # None /\ s.page.live
             /\ s.ui.pkey = w /\ s.ui.pstate \in {"loading", "done"} -> b
          [] w # None /\ s.page.live /\ known
             /\ ~(s.ui.pkey = w /\ s.ui.pstate \in {"loading", "done"}) ->
               SetUi(b, [b.ui EXCEPT !.pstate = "done", !.pkey = w])
          [] OTHER -> fetchExistingSafe(b, w, "effect", s.ui.pstate, s.ui.pkey)

AutofillWallet(s, b) ==
    IF s.page.wallet # None /\ ~s.ui.edited /\ s.ui.wallet # s.page.wallet
    THEN SetUi(b, [b.ui EXCEPT !.wallet = s.page.wallet]) ELSE b

NoLongerEdited(s, b) ==
    IF s.ui.edited /\ s.page.wallet # None /\ s.ui.wallet = s.page.wallet
    THEN SetUi(b, [b.ui EXCEPT !.edited = FALSE]) ELSE b

\* The panel's effects, in the order it declares them.
PanelEffects(s) ==
    LET b1 == Then(s, LAMBDA b : findAnyCachedSafeForCluster(s, b))
        b2 == Then(b1, LAMBDA b : MigrateTour(s, b))
        b3 == Then(b2, LAMBDA b : RestoreSafe(s, b))
        b4 == Then(b3, LAMBDA b : Prefetch(s, b))
        b5 == Then(b4, LAMBDA b : AutofillWallet(s, b))
    IN  Then(b5, LAMBDA b : NoLongerEdited(s, b))

hasSquadsSafe(s) == HasVault(s.page.wallet) \/ s.page.safeDetected

MigratePageTour(s, b) ==
    IF s.store.legacyTour /\ b.store.legacyTour
    THEN SetStore(b, [TourDone(b.store, TourKey(s)) EXCEPT !.legacyTour = FALSE])
    ELSE b

StartTour(s, b) ==
    IF s.page.startTour
    THEN SetStore(SetPage(b, [b.page EXCEPT !.tour = TRUE, !.startTour = FALSE]),
                  [b.store EXCEPT !.tour = @ \ {TourKey(s)}])
    ELSE b

ShowTour(s, b) ==
    CASE ~s.page.live \/ hasSquadsSafe(s) -> SetPage(b, [b.page EXCEPT !.tour = FALSE])
      [] s.page.live /\ ~hasSquadsSafe(s) /\ TourKey(s) \notin b.store.tour ->
           SetPage(b, [b.page EXCEPT !.tour = TRUE])
      [] OTHER -> b

DetectVault(s, b) ==
    IF HasVault(s.page.wallet) THEN handleSafeDetected(b, s.page.wallet) ELSE b

PageEffects(s, b) ==
    LET b1 == Then(b, LAMBDA c : MigratePageTour(s, c))
        b2 == Then(b1, LAMBDA c : StartTour(s, c))
        b3 == Then(b2, LAMBDA c : ShowTour(s, c))
    IN  Then(b3, LAMBDA c : DetectVault(s, c))

\* A child's effects run before its parent's; the panel is mounted in live
\* mode only.
Effects(b) == PageEffects(b, IF b.page.live THEN PanelEffects(b) ELSE b)

\* Effects run again until none changes anything, which takes three rounds at
\* most: a wallet is filled in, its record found, the tour put away.
Settle(b) ==
    LET once == Then(b, Effects)
        twice == Then(once, Effects)
    IN  Then(twice, Effects)

Become(b) ==
    \E c \in {Then(b, Settle)} :
        /\ Cardinality(c.calls) <= MaxCalls
        /\ ui' = c.ui /\ page' = c.page /\ store' = c.store /\ calls' = c.calls

-----------------------------------------------------------------------------
(* Mounting *)

\* useState and useRef of a panel that mounts with idempotency key k; a panel
\* that is not mounted has key 0.
Mounted(k) ==
    [wallet |-> None, edited |-> FALSE, nonce |-> 0, signature |-> None,
     key |-> k, result |-> None, notice |-> None,
     pstate |-> "idle", pkey |-> None, fetching |-> None,
     submitting |-> "no", cooling |-> FALSE, askingNonce |-> FALSE,
     signing |-> None, polling |-> FALSE, linking |-> FALSE,
     admin |-> "none", rows |-> FALSE,
     detected |-> None, tourRef |-> None]

Row(w, status, vault) ==
    [from |-> "api", wallet |-> w, status |-> status,
     address |-> status = "ready", vault |-> vault]

\* spent after an act or a move that makes k keys.
Spend(what, k) ==
    /\ spent[what] > 0 /\ spent.keys + k <= MaxKeys
    /\ spent' = [spent EXCEPT ![what] = @ - 1, !.keys = @ + k]

\* An unmounted panel aborts its requests, and no answer reaches it; what a
\* submission it aborts does on the server is done all the same.
Aborted(b) ==
    SetCalls(b, {[c EXCEPT !.by = "gone"] :
                   c \in {d \in b.calls : d.kind = "submit" /\ d.reply = NoReply}})

\* The mode is switched, or the page is loaded again, with ?startTour or not:
\* the panel mounts anew, with a new key, if the mode is live.
Mount(b, live) ==
    /\ Spend("moves", IF live THEN 1 ELSE 0)
    /\ Become(SetPage(SetUi(Aborted(b), Mounted(IF live THEN spent.keys + 1 ELSE 0)),
                      [b.page EXCEPT !.live = live]))
    /\ UNCHANGED <<server, refused>>

SwitchMode == Mount(Browser, ~page.live)

Reload(startTour) ==
    Mount(SetPage(Browser, [page EXCEPT !.safeDetected = FALSE, !.tour = FALSE,
                                        !.startTour = startTour]), page.live)

\* The wallet adapter connects, switches account or disconnects; AppContext
\* has currentUserWallet follow it.  (Its page shows a loading screen in place of the panel
\* while AppContext loads after a change; here the panel stays mounted through the change,
\* and its unmounting is that of SwitchMode and Reload, which Mount it again.)
ConnectWallet(w) ==
    /\ Spend("moves", 0)
    /\ w # page.wallet
    /\ Become(SetPage(Browser, [page EXCEPT !.wallet = w]))
    /\ UNCHANGED <<server, refused>>

DismissTour ==
    /\ Spend("moves", 0)
    /\ page.tour
    /\ Become(SetStore(SetPage(Browser, [page EXCEPT !.tour = FALSE]),
                       TourDone(store, TourKey(Browser))))
    /\ UNCHANGED <<server, refused>>

\* A stored record is older than SAFE_CACHE_MAX_AGE_MS; it is as good as none.
CacheExpires(w) ==
    /\ Spend("moves", 0)
    /\ store.safes[w] # None
    /\ store' = Forget(store, w)
    /\ UNCHANGED <<ui, page, calls, server, refused>>

-----------------------------------------------------------------------------
(* The form *)

SafeIsReady == ui.result # None /\ ui.result.status = "ready"

FormShown == page.live /\ ui.key # 0 /\ ~SafeIsReady

\* A handler of the form, or of the panels below it; the server is left alone.
Handle(what, b) == Spend(what, 0) /\ Become(b) /\ UNCHANGED <<server, refused>>

handleCreatorWalletChange(w) ==
    LET typed == SetUi(Browser, [ui EXCEPT !.wallet = w, !.edited = w # page.wallet])
    IN  /\ FormShown /\ w # ui.wallet
        /\ Handle("acts", IF w = None THEN typed
                  ELSE fetchExistingSafe(typed, w, "typed", ui.pstate, ui.pkey))

\* issueNonce up to its await, for the wallet of the caller's render.
issueNonce(b, w, by) ==
    Ask(SetUi(b, [b.ui EXCEPT !.askingNonce = TRUE]), Call("nonce", w, by))

handleRequestNonce ==
    /\ FormShown /\ ~ui.askingNonce /\ ui.wallet # None
    /\ Handle("acts", issueNonce(Browser, ui.wallet, "button"))

Prompt(b, w, n) == SetUi(b, [b.ui EXCEPT !.signing = [wallet |-> w, nonce |-> n]])

SignShown ==
    /\ FormShown /\ ui.signing = None /\ ~ui.askingNonce
    /\ ui.wallet # None /\ ui.wallet = page.wallet

\* ensureActiveNonce keeps the nonce it has unless its time is up.
handleSignWithWallet ==
    /\ SignShown
    /\ \/ /\ ui.nonce # 0
          /\ Handle("acts", Prompt(Browser, ui.wallet, ui.nonce))
       \/ Handle("acts", issueNonce(Prompt(Browser, ui.wallet, 0), ui.wallet, "sign"))

\* The wallet signs the message of the click, or refuses to.
WalletSigns(signs) ==
    /\ ui.signing # None /\ ui.signing.nonce # 0
    /\ Become(SetUi(Browser, [ui EXCEPT !.signing = None,
                                        !.signature = IF signs THEN ui.signing ELSE @]))
    /\ UNCHANGED <<server, spent, refused>>

\* The message is signed elsewhere and the signature pasted, or removed.
EditSignature(signed) ==
    /\ FormShown
    /\ signed => ui.nonce # 0 /\ ui.wallet # None
    /\ Handle("acts", SetUi(Browser, [ui EXCEPT !.signature =
                 IF signed THEN [wallet |-> ui.wallet, nonce |-> ui.nonce] ELSE None]))

NewIdempotencyKey ==
    /\ FormShown /\ Spend("acts", 1)
    /\ Become(SetUi(Browser, [ui EXCEPT !.key = spent.keys + 1]))
    /\ UNCHANGED <<server, refused>>

resetAndClear ==
    /\ FormShown /\ Spend("acts", 1)
    /\ LET b == SetUi(Browser, [ui EXCEPT !.wallet = None, !.signature = None,
                                          !.result = None, !.notice = None,
                                          !.nonce = 0, !.key = spent.keys + 1])
       IN  Become(IF ui.wallet = None THEN b ELSE SetStore(b, Forget(store, ui.wallet)))
    /\ UNCHANGED <<server, refused>>

Submission ==
    [Call("submit", ui.wallet, "form") EXCEPT
        !.key = ui.key, !.nonce = ui.nonce, !.signature = ui.signature]

\* Mutant: only the cooldown keeps the button from a second click.
SubmitCooled == FormShown /\ ~ui.cooling /\ ~ui.askingNonce

SubmitShown == FormShown /\ ui.submitting = "no" /\ ~ui.cooling /\ ~ui.askingNonce

\* A form that is not complete is not sent, but its notice is gone.
handleSubmitIncomplete ==
    /\ SubmitShown
    /\ ui.notice # None
    /\ ui.wallet = None \/ ui.nonce = 0 \/ ui.signature = None
    /\ Handle("acts", SetUi(Browser, [ui EXCEPT !.notice = None]))

handleSubmit ==
    /\ SubmitShown
    /\ ui.wallet # None /\ ui.nonce # 0 /\ ui.signature # None
    /\ Handle("acts", Ask(SetUi(Browser, [ui EXCEPT !.notice = None, !.submitting = "post",
                                                    !.cooling = TRUE]), Submission))

CooldownOver ==
    /\ ui.cooling
    /\ Become(SetUi(Browser, [ui EXCEPT !.cooling = FALSE]))
    /\ UNCHANGED <<server, spent, refused>>

-----------------------------------------------------------------------------
(* The record's panel and the admin's *)

AboutResult(kind) == [Call(kind, ui.result.wallet, "panel") EXCEPT !.from = ui.result.from]

RecordShown == page.live /\ ui.result # None

handleRefreshStatus ==
    /\ RecordShown /\ ~ui.polling
    /\ Handle("moves", Ask(SetUi(Browser, [ui EXCEPT !.polling = TRUE]), AboutResult("refresh")))

GovernanceShown == RecordShown /\ (ui.result.status = "ready" \/ ui.result.vault)

handleLinkGovernance ==
    /\ GovernanceShown /\ ~ui.linking
    /\ Handle("moves", Ask(SetUi(Browser, [ui EXCEPT !.linking = TRUE]), AboutResult("link")))

AskAdmin(what, call) == Ask(SetUi(Browser, [ui EXCEPT !.admin = what]), call)

AdminFree == page.live /\ ui.key # 0 /\ ui.admin = "none"

handleAdminFetch ==
    /\ AdminFree
    /\ Handle("moves", AskAdmin("fetch", Call("list", None, "admin")))

handleAdminResubmit(w) ==
    /\ AdminFree /\ ui.rows /\ server.row[w] # None
    /\ Handle("moves", AskAdmin("resubmit", Call("resubmit", w, "admin")))

\* The status the admin types is the call's from.
handleAdminOverride(w, status) ==
    /\ AdminFree /\ ui.rows /\ server.row[w] # None
    /\ Handle("moves", AskAdmin("override",
                  [Call("override", w, "admin") EXCEPT !.from = status]))

-----------------------------------------------------------------------------
(* attn_api *)

Reply(c, code, row, n) ==
    calls' = (calls \ {c}) \cup
               IF c.by = "gone" THEN {}
               ELSE {[c EXCEPT !.reply = [code |-> code, row |-> row, nonce |-> n]]}

ReplyRow(c, code, row) == Reply(c, code, row, 0)

ServeLookup(c) ==
    /\ c.kind = "lookup"
    /\ LET row == server.row[c.wallet]
       IN  ReplyRow(c, IF row = None THEN "missing" ELSE "ok", row)
    /\ UNCHANGED <<server, refused>>

\* A nonce replaces the one the wallet had.
ServeNonce(c) ==
    /\ c.kind = "nonce"
    /\ \/ /\ server.issued < MaxNonces
          /\ server' = [server EXCEPT !.issued = @ + 1,
                                      !.nonce[c.wallet] = server.issued + 1]
          /\ Reply(c, "ok", None, server.issued + 1)
       \/ /\ server.issued = MaxNonces
          /\ ReplyRow(c, "error", None)
          /\ UNCHANGED server
    /\ UNCHANGED refused

KeyOwners(k) == {w \in Wallets : server.key[w] = k}

\* A key that a row has, or a request that has not failed, is the answer.
ServeKnown(c) ==
    /\ c.kind = "submit"
    /\ \E w \in Wallets :
          /\ IF KeyOwners(c.key) # {} THEN w \in KeyOwners(c.key)
             ELSE w = c.wallet /\ server.row[w] # None
                  /\ server.row[w].status # "failed"
          /\ ReplyRow(c, "ok", server.row[w])
    /\ UNCHANGED <<server, refused>>

Unknown(c) ==
    /\ c.kind = "submit" /\ KeyOwners(c.key) = {}
    /\ server.row[c.wallet] # None => server.row[c.wallet].status = "failed"

ServeNonceInvalid(c) ==
    /\ Unknown(c)
    /\ server.nonce[c.wallet] # c.nonce
    /\ ReplyRow(c, "nonce_invalid", None)
    /\ refused' = refused \cup {<<"nonce", c.nonce>>}
    /\ UNCHANGED server

\* The nonce is consumed; then the signature is looked at, the row is written
\* and the Safe asked for.  Another attn wallet's row may be in the way.
ServeCreation(c) ==
    /\ Unknown(c)
    /\ server.nonce[c.wallet] = c.nonce
    /\ LET consumed == [server EXCEPT !.nonce[c.wallet] = 0]
           created(status) == [consumed EXCEPT
                                 !.row[c.wallet] = Row(c.wallet, status, FALSE),
                                 !.key[c.wallet] = c.key]
           signed == c.signature = [wallet |-> c.wallet, nonce |-> c.nonce]
       IN  \/ /\ ~signed
              /\ server' = consumed
              /\ ReplyRow(c, "error", None)
              /\ UNCHANGED refused
           \/ \E status \in {"pending", "ready"} :
                 /\ signed
                 /\ server' = created(status)
                 /\ ReplyRow(c, "new", Row(c.wallet, status, FALSE))
                 /\ UNCHANGED refused
           \/ /\ signed
              /\ server' = created("failed")
              /\ ReplyRow(c, "error", None)
              /\ UNCHANGED refused
           \/ /\ signed /\ server.row[c.wallet] # None /\ spent.keys < MaxKeys
              /\ server' = consumed
              /\ ReplyRow(c, "duplicate", None)
              /\ refused' = refused \cup {<<"key", c.key>>}

\* What the other calls do, by the row's id; a made-up record has no row.
Written(c) ==
    LET row == server.row[c.wallet]
    IN  CASE c.kind = "link" -> [row EXCEPT !.vault = TRUE]
          [] c.kind = "resubmit" /\ row.status # "ready" -> Row(c.wallet, "pending", row.vault)
          [] c.kind = "override" -> Row(c.wallet, c.from, row.vault)
          [] OTHER -> row

ServeRow(c) ==
    /\ c.kind \in {"refresh", "link", "resubmit", "override"}
    /\ IF c.from = "creator" \/ (c.kind = "link" /\ server.row[c.wallet].status # "ready")
       THEN ReplyRow(c, "error", None) /\ UNCHANGED server
       ELSE /\ server' = [server EXCEPT !.row[c.wallet] = Written(c)]
            /\ ReplyRow(c, "ok", Written(c))
    /\ UNCHANGED refused

ServeList(c) == c.kind = "list" /\ ReplyRow(c, "ok", None) /\ UNCHANGED <<server, refused>>

Serve(c) ==
    /\ c.reply = NoReply
    /\ \/ ServeLookup(c) \/ ServeNonce(c) \/ ServeKnown(c) \/ ServeNonceInvalid(c)
       \/ ServeCreation(c) \/ ServeRow(c) \/ ServeList(c)
    /\ UNCHANGED <<ui, page, store, spent>>

\* The request or its answer is lost, or the bridge answers with an error.
Fault(c) ==
    /\ spent.faults > 0
    /\ c.reply.code \notin {"error", "duplicate", "nonce_invalid"}
    /\ spent' = [spent EXCEPT !.faults = @ - 1]
    /\ ReplyRow(c, "error", None)
    /\ UNCHANGED <<ui, page, store, server, refused>>

\* The Safe of a pending request is made, or it is given up.
SafeMade(w, status) ==
    /\ server.row[w] # None /\ server.row[w].status = "pending"
    /\ server' = [server EXCEPT !.row[w] = Row(w, status, server.row[w].vault)]
    /\ UNCHANGED <<ui, page, store, calls, spent, refused>>

-----------------------------------------------------------------------------
(* Answers *)

Handled(c) == SetCalls(Browser, calls \ {c})

Answered(c, kinds) == c.kind \in kinds /\ c.reply.code # "none" /\ c.by # "gone"

\* What recoverFromExistingSafe does once it has looked the wallet up.
RecoverNonce(b, w) ==
    issueNonce(SetUi(b, [b.ui EXCEPT !.signature = None, !.nonce = 0,
                                     !.submitting = "nonce"]), w, "recover")

LookedUp(b, c) ==
    LET free == SetUi(b, [b.ui EXCEPT !.fetching = IF @ = c.wallet THEN None ELSE @,
                                      !.pkey = c.wallet,
                                      !.pstate = IF c.reply.code = "error" THEN "error"
                                                 ELSE "done"])
    IN  IF c.reply.code = "ok" THEN Show(free, c.reply.row, "existing") ELSE free

AnswerLookup(c) ==
    /\ Answered(c, {"lookup"})
    /\ LET b == LookedUp(Handled(c), c)
       IN  Become(IF c.by = "recover" THEN RecoverNonce(b, c.wallet) ELSE b)
    /\ UNCHANGED <<server, spent, refused>>

AnswerNonce(c) ==
    /\ Answered(c, {"nonce"})
    /\ LET n == c.reply.nonce
           u == [ui EXCEPT !.askingNonce = FALSE, !.nonce = IF n # 0 THEN n ELSE @]
       IN  Become(SetUi(Handled(c),
             CASE c.by = "sign" ->
                    [u EXCEPT !.signing = IF n # 0 THEN [ui.signing EXCEPT !.nonce = n] ELSE None]
               [] c.by = "recover" -> [u EXCEPT !.submitting = "no"]
               [] OTHER -> u))
    /\ UNCHANGED <<server, spent, refused>>

\* handleSubmit after its await, when there is a record.
SubmitAnswered(c) ==
    /\ Answered(c, {"submit"})
    /\ c.reply.row # None
    /\ Become(Show(SetUi(Handled(c), [ui EXCEPT !.submitting = "no"]), c.reply.row,
                   IF c.reply.code = "new" THEN "new" ELSE "existing"))
    /\ UNCHANGED <<server, spent, refused>>

SubmitFailed(c) ==
    /\ Answered(c, {"submit"})
    /\ c.reply.code = "error"
    /\ Become(SetUi(Handled(c), [ui EXCEPT !.submitting = "no"]))
    /\ UNCHANGED <<server, spent, refused>>

\* Mutant: the key the server has refused is kept.
SubmitRecoversKept(c) ==
    /\ Answered(c, {"submit"})
    /\ c.reply.code \in {"duplicate", "nonce_invalid"}
    /\ Become(fetchExistingSafe(SetUi(Handled(c), [ui EXCEPT !.submitting = "lookup"]),
                                c.wallet, "recover", ui.pstate, ui.pkey))
    /\ UNCHANGED <<server, spent, refused>>

\* duplicate_request has the key renewed, nonce_invalid has not; both look the
\* wallet up and ask for a nonce before the form may be submitted again.
SubmitRecovers(c) ==
    /\ Answered(c, {"submit"})
    /\ c.reply.code \in {"duplicate", "nonce_invalid"}
    /\ LET new == IF c.reply.code = "duplicate" THEN 1 ELSE 0
       IN  /\ spent' = [spent EXCEPT !.keys = @ + new]
           /\ Become(fetchExistingSafe(
                SetUi(Handled(c), [ui EXCEPT !.submitting = "lookup",
                                             !.key = IF new = 1 THEN spent.keys + 1 ELSE @]),
                c.wallet, "recover", ui.pstate, ui.pkey))
    /\ UNCHANGED <<server, refused>>

\* A refresh, a governance link or an admin's call has been answered.
AnswerRow(c) ==
    /\ Answered(c, {"refresh", "link", "resubmit", "override", "list"})
    /\ LET b == SetUi(Handled(c), [ui EXCEPT
                   !.polling = @ /\ c.kind # "refresh",
                   !.linking = @ /\ c.kind # "link",
                   !.admin = IF c.by = "admin" THEN "none" ELSE @,
                   !.rows = @ \/ (c.kind = "list" /\ c.reply.code = "ok")])
       IN  Become(IF c.reply.row # None THEN syncResult(b, c.reply.row) ELSE b)
    /\ UNCHANGED <<server, spent, refused>>

Answer(c) ==
    \/ AnswerLookup(c) \/ AnswerNonce(c) \/ SubmitAnswered(c) \/ SubmitFailed(c)
    \/ SubmitRecovers(c) \/ AnswerRow(c)

-----------------------------------------------------------------------------
UserStep ==
    \/ SwitchMode
    \/ \E start \in BOOLEAN : Reload(start)
    \/ \E w \in Wallets \cup {None} : ConnectWallet(w) \/ handleCreatorWalletChange(w)
    \/ DismissTour
    \/ handleRequestNonce \/ handleSignWithWallet
    \/ \E signed \in BOOLEAN : EditSignature(signed)
    \/ NewIdempotencyKey \/ resetAndClear
    \/ handleSubmitIncomplete \/ handleSubmit
    \/ handleRefreshStatus \/ handleLinkGovernance \/ handleAdminFetch
    \/ \E w \in Wallets : handleAdminResubmit(w)
    \/ \E w \in Wallets, status \in Statuses : handleAdminOverride(w, status)

ServerStep == \E c \in calls : Serve(c)

AnswerStep == \E c \in calls : Answer(c)

OnboardingNext ==
    \/ UserStep
    \/ \E signs \in BOOLEAN : WalletSigns(signs)
    \/ CooldownOver
    \/ \E w \in Wallets : CacheExpires(w)
    \/ ServerStep \/ AnswerStep
    \/ \E c \in calls : Fault(c)
    \/ \E w \in Wallets, status \in {"ready", "failed"} : SafeMade(w, status)

\* The panel has not been used before in this session, but the storage and
\* attn_api may know a wallet, and an older version may have left its tour key.
OnboardingInit ==
    \E live, remembers \in BOOLEAN, have \in SUBSET Wallets,
       w \in Wallets \cup {None}, given \in Scenarios :
       LET rows == [v \in Wallets |-> IF v \in have THEN Row(v, given.status, FALSE) ELSE None]
           b == Settle(
                  [ui |-> Mounted(IF live THEN 1 ELSE 0),
                   page |-> [wallet |-> w, live |-> live, tour |-> FALSE,
                             safeDetected |-> FALSE, startTour |-> FALSE],
                   store |-> [safes |-> [v \in Wallets |->
                                           IF remembers THEN rows[v] ELSE None],
                              tour |-> {}, legacyTour |-> given.legacyTour],
                   calls |-> {}])
       IN  /\ ui = b.ui /\ page = b.page /\ store = b.store /\ calls = b.calls
           /\ server = [row |-> rows, nonce |-> [v \in Wallets |-> 0], issued |-> 0,
                        key |-> [v \in Wallets |-> 0]]
           /\ spent = [keys |-> 1, acts |-> given.acts, moves |-> given.moves,
                       faults |-> given.faults]
           /\ refused = {}

\* attn_api answers in the end, or the browser gives up on it, and React
\* handles the answer; the user owes nothing.
OnboardingSpec ==
    /\ OnboardingInit /\ [][OnboardingNext]_vars
    /\ WF_vars(ServerStep) /\ WF_vars(AnswerStep)

-----------------------------------------------------------------------------
UiType ==
    [wallet : Wallets \cup {None}, edited : BOOLEAN, nonce : 0..MaxNonces,
     signature : SignedType \cup {None}, key : 0..MaxKeys + 1,
     result : RecordType \cup {None}, notice : NoticeType \cup {None},
     pstate : {"idle", "loading", "done", "error"}, pkey : Wallets \cup {None},
     fetching : Wallets \cup {None}, submitting : {"no", "post", "lookup", "nonce"},
     cooling : BOOLEAN, askingNonce : BOOLEAN, signing : SignedType \cup {None},
     polling : BOOLEAN, linking : BOOLEAN,
     admin : {"none", "fetch", "resubmit", "override"}, rows : BOOLEAN,
     detected : IdType \cup {None},
     tourRef : Wallets \cup {None}]

PageType ==
    [wallet : Wallets \cup {None}, live : BOOLEAN, tour : BOOLEAN,
     safeDetected : BOOLEAN, startTour : BOOLEAN]

StoreType ==
    [safes : [Wallets -> RecordType \cup {None}],
     tour : SUBSET (Wallets \cup {None}), legacyTour : BOOLEAN]

CallType ==
    [kind : {"lookup", "nonce", "submit", "refresh", "link", "list", "resubmit", "override"},
     wallet : Wallets \cup {None},
     by : {"effect", "typed", "recover", "button", "sign", "form", "panel", "admin", "gone"},
     from : {"api", "creator"} \cup Statuses, key : 0..MaxKeys + 1, nonce : 0..MaxNonces,
     signature : SignedType \cup {None},
     reply : [code : {"none", "ok", "new", "missing", "duplicate", "nonce_invalid", "error"},
              row : RecordType \cup {None}, nonce : 0..MaxNonces]]

ServerType ==
    [row : [Wallets -> RecordType \cup {None}], nonce : [Wallets -> 0..MaxNonces],
     issued : 0..MaxNonces, key : [Wallets -> 0..MaxKeys + 1]]

\* Type invariant of the panel, its page, its requests and attn_api.
OnboardingTypeOK ==
    /\ ui \in UiType /\ page \in PageType /\ store \in StoreType
    /\ calls \subseteq CallType
    /\ server \in ServerType

\* The notice above the form tells the truth about the record below it: when
\* both are about one request they give the same state, whichever of a lookup,
\* a refresh, a governance link or an admin's call wrote the record last.
NoticeMatchesResult ==
    ui.notice # None /\ ui.result # None /\ ui.notice.id = Id(ui.result)
        => ui.notice.state = Lifecycle(ui.result)

\* The form is submitted once at a time: while the panel waits for the answer
\* of a submission, or recovers from a refusal by looking the wallet up and
\* asking for a nonce, no second submission of it is in flight.
OneSubmission ==
    /\ Cardinality({c \in calls : c.kind = "submit" /\ c.by = "form"}) <= 1
    /\ ui.submitting # "no" <=>
         \E c \in calls : c.by \in {"form", "recover"}

\* A submission never carries a key that was refused as duplicate_request or a
\* nonce that was refused as nonce_invalid to the page that sends it: the
\* recovery replaces them before the button works again.
RefusedNeverResent ==
    [][\A c \in calls' \ calls :
          c.kind = "submit" /\ c.reply = NoReply /\ c.by = "form"
              => <<"key", c.key>> \notin refused /\ <<"nonce", c.nonce>> \notin refused]_vars

\* A record that the panel shows, unless its request failed, has done away
\* with the live tour, whether it came from attn_api, the storage or the
\* creators' list, and whatever the storage says of the tour.
SafeEndsTour ==
    ui.result # None /\ Lifecycle(ui.result) # "failed"
        => ~(page.tour /\ page.live /\ ~hasSquadsSafe(Browser))

\* Every wallet that stays in the form of a live panel is looked up in the
\* end, or its record shown, although lookups fail, answers come in any order
\* and each of them overwrites the key of the last one.
LookupSettles ==
    \A w \in Wallets :
        (page.live /\ ui.wallet = w) ~>
            (~page.live \/ ui.wallet # w \/ (ui.pkey = w /\ ui.pstate = "done"))

\* A submission always lets go of the form, also when the recovery fails.
SubmissionEnds == (ui.submitting # "no") ~> (ui.submitting = "no")

\* The effects come to rest: React never renders the panel for ever, although
\* they set what others of them depend on, whatever a handler or an answer left.
EffectsAtRest == Effects(Browser) = Browser

\* What the panel tells is true of the record it shows: its notice and the tour.
PanelTellsTruth ==
    /\ OnboardingTypeOK
    /\ NoticeMatchesResult
    /\ SafeEndsTour
    /\ EffectsAtRest

\* The panel comes to rest: every lookup and every submission ends.
PanelSettles == LookupSettles /\ SubmissionEnds
=============================================================================
