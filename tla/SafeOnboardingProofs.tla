------------------------- MODULE SafeOnboardingProofs -------------------------
(***************************************************************************)
(* Proofs about the Squads Safe panel, for any wallets, any creators' list *)
(* and any bounds.  Every step of it is a change of the browser that its   *)
(* effects then settle, so three things are shown apart: what the effects  *)
(* do to a browser (Quiet), that three rounds of them always bring it to   *)
(* rest (Rest), and that every handler and every answer leaves a browser   *)
(* that fits what attn_api has and has refused (Fit).                      *)
(***************************************************************************)
EXTENDS SafeOnboarding, FiniteSetTheorems, TLAPS

BrowserType ==
    [ui : UiType, page : PageType, store : StoreType, calls : SUBSET CallType]

SpentType == [keys : Nat, acts : Nat, moves : Nat, faults : Nat]

\* NoticeMatchesResult and SafeEndsTour, of a browser: a record that has not failed was
\* announced, and the page keeps that it was told of one.
Tells(b) ==
    /\ b.ui.notice # None /\ b.ui.result # None /\ b.ui.notice.id = Id(b.ui.result)
          => b.ui.notice.state = Lifecycle(b.ui.result)
    /\ b.ui.detected # None => b.page.safeDetected
    /\ b.ui.result # None /\ Lifecycle(b.ui.result) # "failed"
          => b.ui.detected = Id(b.ui.result)

\* The records that the browser has: shown, stored or answered.
Has(b, r) ==
    \/ b.ui.result = r
    \/ \E w \in Wallets : b.store.safes[w] = r
    \/ \E c \in b.calls : c.reply.row = r

HasRow(sv, w) == w \in Wallets /\ sv.row[w] # None

\* What attn_api is asked to do to a row is about a row it has.
CallFiled(c, sv) ==
    /\ c.kind # "list" => c.wallet \in Wallets
    /\ c.kind = "override" => c.from \in Statuses
    /\ c.kind \in {"refresh", "link", "resubmit", "override"} /\ c.from # "creator"
          => HasRow(sv, c.wallet)
    /\ c.kind = "lookup" /\ c.reply.code = "ok" => c.reply.row # None
    /\ c.reply.row # None => c.reply.code \in {"ok", "new"}

\* A record of attn_api that the browser has, has a row there.
Filed(b, sv) ==
    /\ \A r \in RecordType : Has(b, r) /\ r.from = "api" => HasRow(sv, r.wallet)
    /\ \A c \in b.calls : CallFiled(c, sv)

Submits(c) == c.by \in {"form", "recover"}

\* How far a submission is, by the call that is under way for it.
StageOf(c) ==
    CASE c.by = "form" -> "post"
      [] c.by = "recover" /\ c.kind = "lookup" -> "lookup"
      [] OTHER -> "nonce"

\* One call at a time belongs to the submission under way.
OneAtATime(b) ==
    /\ \A c \in b.calls : /\ c.kind = "submit" <=> c.by \in {"form", "gone"}
                          /\ c.by = "recover" => c.kind \in {"lookup", "nonce"}
                          /\ Submits(c) => b.ui.submitting = StageOf(c)
    /\ \A c, d \in b.calls : Submits(c) /\ Submits(d) => c = d
    /\ b.ui.submitting # "no" => \E c \in b.calls : Submits(c)

\* The wallet's prompt is open while its nonce is asked for.
PromptOpen(b) ==
    /\ \A c \in b.calls : c.by = "sign" => c.kind = "nonce" /\ b.ui.signing # None
                                           /\ b.ui.signing.nonce = 0
    /\ \A c, d \in b.calls : c.by = "sign" /\ d.by = "sign" => c = d

Refusable(sv, k) == ({"key"} \X (1..k)) \cup ({"nonce"} \X (1..sv.issued))

FormCode(b, code) == \E c \in b.calls : c.by = "form" /\ c.reply.code = code

\* Nonces are new when they are issued and keys when they are made, so that what was
\* refused to one submission is not what the form holds for the next.
NeverStale(b, sv, k, rf) ==
    /\ k \in 0..MaxKeys + 1 /\ sv.issued \in Nat /\ rf \subseteq Refusable(sv, k)
    /\ FormCode(b, "duplicate") => k <= MaxKeys
    /\ b.ui.key <= k /\ b.ui.nonce <= sv.issued
    /\ \A c \in b.calls :
          /\ c.nonce <= sv.issued /\ c.reply.nonce <= sv.issued
          /\ c.kind = "submit" => c.key \in 1..k /\ c.nonce # 0
          /\ c.by = "gone" => c.key # b.ui.key /\ c.nonce # b.ui.nonce
          /\ c.reply.nonce # 0 => /\ c.reply.nonce # b.ui.nonce
                                  /\ <<"nonce", c.reply.nonce>> \notin rf
    /\ \A c, d \in b.calls :
          c.reply.nonce # 0 => /\ d.nonce # c.reply.nonce
                               /\ d.reply.nonce = c.reply.nonce => d = c
    /\ <<"key", b.ui.key>> \in rf => FormCode(b, "duplicate")
    /\ <<"nonce", b.ui.nonce>> \in rf
          => FormCode(b, "nonce_invalid") \/ b.ui.submitting = "lookup"

Fit(b, sv, k, rf) ==
    /\ b \in BrowserType /\ Tells(b)
    /\ Filed(b, sv) /\ OneAtATime(b) /\ PromptOpen(b) /\ NeverStale(b, sv, k, rf)

RowsNamed(sv) == \A w \in Wallets : sv.row[w] # None => sv.row[w].wallet = w

Cached(b) == \E w \in Wallets : b.store.safes[w] # None

\* What the effects leave, from the first, the second and the third round on.
FormFilled(b) ==
    /\ b.ui.result # None \/ b.ui.wallet # None \/ ~Cached(b)
    /\ b.page.wallet = None \/ b.ui.edited \/ b.ui.wallet = b.page.wallet

AfterOne(b) ==
    /\ ~b.store.legacyTour /\ ~b.page.startTour
    /\ HasVault(b.page.wallet)
          => b.page.safeDetected /\ ~b.page.tour /\ b.page.wallet \in b.store.tour
    /\ b.page.live => FormFilled(b)

Restored(b) ==
    \/ b.ui.result # None \/ b.ui.wallet = None
    \/ b.store.safes[b.ui.wallet] = None /\ buildCreatorDerivedSafe(b.page.wallet) = None

Looked(b) ==
    LET w == b.ui.wallet
    IN  IF w = None THEN b.ui.pstate = "idle" /\ b.ui.pkey = None
        ELSE \/ b.ui.pkey = w /\ b.ui.pstate \in {"loading", "done"}
             \/ b.ui.fetching = w /\ (b.ui.result = None \/ b.ui.result.wallet # w)

AfterTwo(b) ==
    /\ AfterOne(b)
    /\ b.page.live =>
          /\ Restored(b) /\ Looked(b)
          /\ ~(b.ui.edited /\ b.page.wallet # None /\ b.ui.wallet = b.page.wallet)

TourShown(b) ==
    /\ ~b.page.live \/ hasSquadsSafe(b) => ~b.page.tour
    /\ b.page.live /\ ~hasSquadsSafe(b) /\ TourKey(b) \notin b.store.tour => b.page.tour

Rest(b) == AfterTwo(b) /\ TourShown(b)

PanelInv ==
    /\ Fit(Browser, server, spent.keys, refused)
    /\ Rest(Browser)
    /\ server \in ServerType /\ RowsNamed(server)
    /\ spent \in SpentType

-----------------------------------------------------------------------------
(* Types.                                                                  *)

\* None is no record, no wallet, no notice and nothing that is signed.
LEMMA NothingIsNone ==
    /\ \A r \in RecordType : r # None /\ Id(r) # None /\ Id(r) \in IdType /\ r.wallet \in Wallets
    /\ \A n \in NoticeType : n # None
    /\ \A w \in Wallets : w # None
    /\ \A s \in SignedType : s # None
BY OnboardingAssumption DEF RecordType, IdType, Id

\* A browser is its panel, its page, its storage and its calls.
LEMMA Parts ==
    ASSUME NEW b \in BrowserType
    PROVE  /\ b.ui \in UiType /\ b.page \in PageType /\ b.store \in StoreType
           /\ b.calls \subseteq CallType
           /\ b = [ui |-> b.ui, page |-> b.page, store |-> b.store, calls |-> b.calls]
BY DEF BrowserType

\* SetUi changes the panel only.
LEMMA UiSet ==
    ASSUME NEW b \in BrowserType, NEW u \in UiType
    PROVE  LET c == SetUi(b, u)
           IN  /\ c \in BrowserType /\ c.ui = u
               /\ c.page = b.page /\ c.store = b.store /\ c.calls = b.calls
BY DEF BrowserType, SetUi

\* SetPage changes the page only.
LEMMA PageSet ==
    ASSUME NEW b \in BrowserType, NEW p \in PageType
    PROVE  LET c == SetPage(b, p)
           IN  /\ c \in BrowserType /\ c.page = p
               /\ c.ui = b.ui /\ c.store = b.store /\ c.calls = b.calls
BY DEF BrowserType, SetPage

\* SetStore changes the storage only.
LEMMA StoreSet ==
    ASSUME NEW b \in BrowserType, NEW t \in StoreType
    PROVE  LET c == SetStore(b, t)
           IN  /\ c \in BrowserType /\ c.store = t
               /\ c.ui = b.ui /\ c.page = b.page /\ c.calls = b.calls
BY DEF BrowserType, SetStore

\* SetCalls changes the calls only.
LEMMA CallsSet ==
    ASSUME NEW b \in BrowserType, NEW k \in SUBSET CallType
    PROVE  LET c == SetCalls(b, k)
           IN  /\ c \in BrowserType /\ c.calls = k
               /\ c.ui = b.ui /\ c.page = b.page /\ c.store = b.store
BY DEF BrowserType, SetCalls

\* TourDone adds one wallet to those whose tour is over.
LEMMA TourDoneInStore ==
    ASSUME NEW t \in StoreType, NEW w \in Wallets \cup {None}
    PROVE  LET d == TourDone(t, w)
           IN  /\ d \in StoreType /\ d.tour = t.tour \cup {w}
               /\ d.safes = t.safes /\ d.legacyTour = t.legacyTour
BY DEF StoreType, TourDone

\* Stored writes the record of its wallet and nothing else.
LEMMA StoredInStore ==
    ASSUME NEW t \in StoreType, NEW r \in RecordType
    PROVE  LET d == Stored(t, r)
           IN  /\ d \in StoreType /\ d.safes = [t.safes EXCEPT ![r.wallet] = r]
               /\ d.tour = t.tour /\ d.legacyTour = t.legacyTour
BY NothingIsNone DEF StoreType, Stored

\* Forget removes the record of one wallet and nothing else.
LEMMA ForgottenInStore ==
    ASSUME NEW t \in StoreType, NEW w \in Wallets
    PROVE  LET d == Forget(t, w)
           IN  /\ d \in StoreType /\ d.safes = [t.safes EXCEPT ![w] = None]
               /\ d.tour = t.tour /\ d.legacyTour = t.legacyTour
BY DEF StoreType, Forget

\* The notice composed about a record has its id and its state.
LEMMA NoticeComposed ==
    ASSUME NEW r \in RecordType, NEW type \in {"new", "existing"}
    PROVE  /\ composeSuccessNotice(r, type) \in NoticeType
           /\ composeSuccessNotice(r, type).id = Id(r)
           /\ composeSuccessNotice(r, type).state = Lifecycle(r)
           /\ composeSuccessNotice(r, type).type = type
BY NothingIsNone DEF composeSuccessNotice, NoticeType, Lifecycle

-----------------------------------------------------------------------------
(* A record is shown.                                                      *)

\* The fields of the panel that have nothing to do with the record.
Beside(u, v) ==
    /\ v.key = u.key /\ v.nonce = u.nonce /\ v.submitting = u.submitting
    /\ v.signing = u.signing
    /\ v.wallet = u.wallet /\ v.edited = u.edited
    /\ v.fetching = u.fetching /\ v.pstate = u.pstate /\ v.pkey = u.pkey

\* What an announcement leaves alone, and that it only ever puts the tour away.
Announces(b, c) ==
    /\ c \in BrowserType /\ Beside(b.ui, c.ui) /\ c.calls = b.calls
    /\ c.page.wallet = b.page.wallet /\ c.page.live = b.page.live
    /\ c.page.startTour = b.page.startTour /\ c.store.legacyTour = b.store.legacyTour
    /\ b.page.safeDetected => c.page.safeDetected
    /\ c.page.tour => b.page.tour
    /\ b.store.tour \subseteq c.store.tour

\* markTourComplete is an announcement that leaves the record alone.
LEMMA MarkedComplete ==
    ASSUME NEW b \in BrowserType, NEW r \in RecordType
    PROVE  LET c == markTourComplete(b, r)
           IN  /\ Announces(b, c)
               /\ c.ui.result = b.ui.result /\ c.ui.notice = b.ui.notice
               /\ c.ui.detected = b.ui.detected
               /\ c.page = b.page /\ c.store.safes = b.store.safes
<1> DEFINE u == [b.ui EXCEPT !.tourRef = r.wallet]
           c == SetStore(SetUi(b, u), TourDone(b.store, r.wallet))
<1>1. r.wallet \in Wallets
  BY NothingIsNone
<1>2. /\ u \in UiType /\ Beside(b.ui, u)
      /\ u.result = b.ui.result /\ u.notice = b.ui.notice /\ u.detected = b.ui.detected
  BY <1>1, Parts DEF UiType, Beside
<1>3. TourDone(b.store, r.wallet) \in StoreType
  BY <1>1, Parts, TourDoneInStore
<1> HIDE DEF u
<1>4. /\ c \in BrowserType /\ c.ui = u /\ c.page = b.page /\ c.calls = b.calls
      /\ c.store = TourDone(b.store, r.wallet)
  BY <1>2, <1>3, UiSet, StoreSet
<1>5. /\ b.store.tour \subseteq c.store.tour /\ c.store.safes = b.store.safes
      /\ c.store.legacyTour = b.store.legacyTour
  BY <1>1, <1>4, Parts, TourDoneInStore
<1>6. markTourComplete(b, r) = b \/ markTourComplete(b, r) = c
  BY DEF markTourComplete, u
<1> HIDE DEF c
<1>7. QED BY <1>2, <1>4, <1>5, <1>6 DEF Announces, Beside

\* handleSafeDetected keeps that a Safe was detected and puts the tour away.
LEMMA PageTold ==
    ASSUME NEW b \in BrowserType, NEW w \in Wallets
    PROVE  LET c == handleSafeDetected(b, w)
           IN  /\ Announces(b, c) /\ c.ui = b.ui
               /\ c.page.safeDetected /\ ~c.page.tour
               /\ c.store.safes = b.store.safes /\ w \in c.store.tour
<1> DEFINE p == [b.page EXCEPT !.safeDetected = TRUE, !.tour = FALSE]
           c == SetStore(SetPage(b, p), TourDone(b.store, w))
<1>1. /\ p \in PageType /\ p.safeDetected /\ ~p.tour
      /\ p.wallet = b.page.wallet /\ p.live = b.page.live /\ p.startTour = b.page.startTour
  BY Parts DEF PageType
<1>2. handleSafeDetected(b, w) = c
  BY DEF handleSafeDetected
<1> HIDE DEF p
<1>3. /\ c \in BrowserType /\ c.ui = b.ui /\ c.page = p /\ c.calls = b.calls
      /\ c.store = TourDone(b.store, w)
  BY <1>1, Parts, TourDoneInStore, PageSet, StoreSet
<1>4. /\ c.store.tour = b.store.tour \cup {w} /\ c.store.safes = b.store.safes
      /\ c.store.legacyTour = b.store.legacyTour
  BY <1>3, Parts, TourDoneInStore
<1> HIDE DEF c
<1>5. QED BY <1>1, <1>2, <1>3, <1>4 DEF Announces, Beside

\* A record that has not failed is announced once.
LEMMA Notified ==
    ASSUME NEW b \in BrowserType, NEW r \in RecordType,
           b.ui.detected # None => b.page.safeDetected
    PROVE  LET c == notifySafeDetected(b, r)
           IN  /\ Announces(b, c)
               /\ c.ui.result = b.ui.result /\ c.ui.notice = b.ui.notice
               /\ c.store.safes = b.store.safes
               /\ c.ui.detected # None => c.page.safeDetected
               /\ Lifecycle(r) # "failed" => c.ui.detected = Id(r)
<1> DEFINE u == [b.ui EXCEPT !.detected = Id(r)]
           a == SetUi(b, u)
           d == handleSafeDetected(a, r.wallet)
           c == markTourComplete(d, r)
<1>1. r.wallet \in Wallets /\ Id(r) \in IdType
  BY NothingIsNone
<1>2. /\ u \in UiType /\ Beside(b.ui, u) /\ u.detected = Id(r)
      /\ u.result = b.ui.result /\ u.notice = b.ui.notice
  BY <1>1, Parts DEF UiType, Beside
<1>3. CASE Lifecycle(r) = "failed" \/ b.ui.detected = Id(r)
  BY <1>3 DEF notifySafeDetected, Announces, Beside
<1>4. CASE ~(Lifecycle(r) = "failed" \/ b.ui.detected = Id(r))
  <2>1. notifySafeDetected(b, r) = c
    BY <1>4 DEF notifySafeDetected
  <2> HIDE DEF u
  <2>2. /\ a \in BrowserType /\ a.ui = u /\ a.page = b.page /\ a.store = b.store
        /\ a.calls = b.calls
    BY <1>2, UiSet
  <2> HIDE DEF a
  <2>3. /\ Announces(a, d) /\ d.ui = a.ui /\ d.page.safeDetected
        /\ d.store.safes = a.store.safes
    BY <1>1, <2>2, PageTold
  <2> HIDE DEF d
  <2>4. /\ Announces(d, c) /\ c.ui.result = d.ui.result /\ c.ui.notice = d.ui.notice
        /\ c.ui.detected = d.ui.detected /\ c.page = d.page /\ c.store.safes = d.store.safes
    <3>1. d \in BrowserType
      BY <2>3 DEF Announces
    <3>2. QED BY <3>1, MarkedComplete
  <2> HIDE DEF c
  <2>5. Announces(b, c)
    BY <1>2, <2>2, <2>3, <2>4 DEF Announces, Beside
  <2>6. QED BY <1>2, <2>1, <2>2, <2>3, <2>4, <2>5
<1>5. QED BY <1>3, <1>4
\* setResult shows the record r, stores it, and tells of it.
LEMMA ResultIsSet ==
    ASSUME NEW b \in BrowserType, NEW r \in RecordType,
           b.ui.detected # None => b.page.safeDetected
    PROVE  LET c == setResult(b, r)
           IN  /\ Announces(b, c) /\ Tells(c)
               /\ c.ui.result = r /\ c.store.safes = [b.store.safes EXCEPT ![r.wallet] = r]
<1> DEFINE n == IF b.ui.notice # None /\ b.ui.notice.id = Id(r)
                THEN composeSuccessNotice(r, b.ui.notice.type) ELSE b.ui.notice
           u == [b.ui EXCEPT !.result = r, !.notice = n]
           a == SetStore(SetUi(b, u), Stored(b.store, r))
           c == notifySafeDetected(a, r)
<1>1. /\ n \in NoticeType \cup {None}
      /\ n # None /\ n.id = Id(r) => n.state = Lifecycle(r)
  <2>1. b.ui.notice \in NoticeType \cup {None}
    BY Parts DEF UiType
  <2>2. CASE b.ui.notice # None /\ b.ui.notice.id = Id(r)
    <3>1. b.ui.notice.type \in {"new", "existing"}
      BY <2>1, <2>2 DEF NoticeType
    <3>2. QED BY <2>2, <3>1, NoticeComposed
  <2>3. CASE ~(b.ui.notice # None /\ b.ui.notice.id = Id(r))
    BY <2>1, <2>3
  <2>4. QED BY <2>2, <2>3
<1>2. setResult(b, r) = c
  BY DEF setResult, Then
<1> HIDE DEF n
<1>3. /\ u \in UiType /\ Beside(b.ui, u) /\ u.result = r /\ u.notice = n
      /\ u.detected = b.ui.detected
  <2>1. b.ui \in UiType /\ n \in NoticeType \cup {None} /\ r \in RecordType
    BY <1>1, Parts
  <2>2. u \in UiType
    BY <2>1 DEF UiType
  <2>3. Beside(b.ui, u) /\ u.detected = b.ui.detected
    BY <2>1 DEF UiType, Beside
  <2>4. u.result = r /\ u.notice = n
    BY <2>1 DEF UiType
  <2>5. QED BY <2>2, <2>3, <2>4
<1> HIDE DEF u
<1>4. /\ a \in BrowserType /\ a.ui = u /\ a.page = b.page /\ a.calls = b.calls
      /\ a.store = Stored(b.store, r)
  <2> DEFINE x == SetUi(b, u)
  <2>1. /\ x \in BrowserType /\ x.ui = u /\ x.page = b.page /\ x.calls = b.calls
    BY <1>3, UiSet
  <2>2. Stored(b.store, r) \in StoreType
    BY Parts, StoredInStore
  <2> HIDE DEF x
  <2>3. QED BY <2>1, <2>2, StoreSet DEF x
<1>5. /\ a.store.tour = b.store.tour /\ a.store.legacyTour = b.store.legacyTour
      /\ a.store.safes = [b.store.safes EXCEPT ![r.wallet] = r]
  BY <1>4, Parts, StoredInStore
<1> HIDE DEF a
<1>6. /\ Announces(a, c)
      /\ c.ui.result = a.ui.result /\ c.ui.notice = a.ui.notice
      /\ c.store.safes = a.store.safes
      /\ c.ui.detected # None => c.page.safeDetected
      /\ Lifecycle(r) # "failed" => c.ui.detected = Id(r)
  BY <1>3, <1>4, Notified
<1> HIDE DEF c
<1>7. Announces(b, c)
  BY <1>3, <1>4, <1>5, <1>6 DEF Announces, Beside
<1>8. Tells(c)
  BY <1>1, <1>3, <1>4, <1>6 DEF Tells
<1>9. QED BY <1>2, <1>3, <1>4, <1>5, <1>6, <1>7, <1>8

\* Show does what setResult does, and the notice is about the record.
LEMMA ResultIsShown ==
    ASSUME NEW b \in BrowserType, NEW r \in RecordType, NEW type \in {"new", "existing"},
           b.ui.detected # None => b.page.safeDetected
    PROVE  LET c == Show(b, r, type)
           IN  /\ Announces(b, c) /\ Tells(c)
               /\ c.ui.result = r /\ c.store.safes = [b.store.safes EXCEPT ![r.wallet] = r]
<1> DEFINE u == [b.ui EXCEPT !.notice = composeSuccessNotice(r, type)]
           a == SetUi(b, u)
           c == setResult(a, r)
<1>1. /\ u \in UiType /\ Beside(b.ui, u) /\ u.detected = b.ui.detected
  BY Parts, NoticeComposed DEF UiType, Beside
<1>2. Show(b, r, type) = c
  BY DEF Show
<1> HIDE DEF u
<1>3. /\ a \in BrowserType /\ a.ui = u /\ a.page = b.page /\ a.store = b.store
      /\ a.calls = b.calls
  BY <1>1, UiSet
<1> HIDE DEF a
<1>4. /\ Announces(a, c) /\ Tells(c)
      /\ c.ui.result = r /\ c.store.safes = [a.store.safes EXCEPT ![r.wallet] = r]
  BY <1>1, <1>3, ResultIsSet
<1> HIDE DEF c
<1>5. Announces(b, c)
  BY <1>1, <1>3, <1>4 DEF Announces, Beside
<1>6. QED BY <1>2, <1>3, <1>4, <1>5

-----------------------------------------------------------------------------
(* What the effects leave alone.                                           *)

\* What the submission and the wallet's prompt depend on, but for the calls.
SameForm(b, c) ==
    /\ c.ui.key = b.ui.key /\ c.ui.nonce = b.ui.nonce
    /\ c.ui.submitting = b.ui.submitting /\ c.ui.signing = b.ui.signing

\* The lookups of the effects, which belong to nobody's submission.
Prefetches == {Call("lookup", w, "effect") : w \in Wallets}

\* A step that shows no record but one the browser has or makes up, and asks for nothing
\* but lookups; it forgets neither the result nor the wallet, and brings back neither the
\* older version's tour key nor the request to start the tour.
Quiet(b, c) ==
    /\ c \in BrowserType /\ SameForm(b, c)
    /\ Tells(b) => Tells(c)
    /\ c.page.wallet = b.page.wallet /\ c.page.live = b.page.live
    /\ \A r \in RecordType : Has(c, r) => Has(b, r) \/ r.from = "creator"
    /\ b.calls \subseteq c.calls /\ c.calls \subseteq b.calls \cup Prefetches
    /\ b.ui.result # None => c.ui.result # None
    /\ b.ui.wallet # None => c.ui.wallet # None
    /\ c.store.legacyTour => b.store.legacyTour
    /\ c.page.startTour => b.page.startTour

\* Two quiet steps are one.
LEMMA QuietTwice ==
    ASSUME NEW b, NEW c, NEW d, Quiet(b, c), Quiet(c, d)
    PROVE  Quiet(b, d)
BY DEF Quiet, SameForm

\* A step that touches neither the records nor the submission is quiet.
LEMMA QuietAside ==
    ASSUME NEW b \in BrowserType, NEW c \in BrowserType, SameForm(b, c),
           c.ui.result = b.ui.result, c.ui.notice = b.ui.notice,
           c.ui.detected = b.ui.detected, c.store.safes = b.store.safes,
           c.calls = b.calls,
           c.page.wallet = b.page.wallet, c.page.live = b.page.live,
           b.page.safeDetected => c.page.safeDetected,
           b.ui.wallet # None => c.ui.wallet # None,
           c.store.legacyTour => b.store.legacyTour,
           c.page.startTour => b.page.startTour
    PROVE  Quiet(b, c)
BY DEF Quiet, Tells, Has

\* Showing a record is quiet when the browser has it or makes it up.
LEMMA QuietlyShown ==
    ASSUME NEW b \in BrowserType, Tells(b), NEW r \in RecordType, NEW c,
           NEW type \in {"new", "existing"}, c = Show(b, r, type),
           Has(b, r) \/ r.from = "creator"
    PROVE  Quiet(b, c)
<1>1. /\ Announces(b, c) /\ Tells(c) /\ c.ui.result = r
      /\ c.store.safes = [b.store.safes EXCEPT ![r.wallet] = r]
  BY ResultIsShown DEF Tells
<1>2. \A x \in RecordType : Has(c, x) => Has(b, x) \/ x = r
  BY <1>1, Parts DEF Has, Announces, StoreType
<1>3. QED BY <1>1, <1>2, NothingIsNone DEF Quiet, Announces, Beside, SameForm

-----------------------------------------------------------------------------
(* The panel's effects, one by one.                                        *)

\* The fields that decide whether an effect acts.
SameFields(u, v) ==
    /\ v.wallet = u.wallet /\ v.edited = u.edited
    /\ v.fetching = u.fetching /\ v.pstate = u.pstate /\ v.pkey = u.pkey

\* The first effect shows a stored record when the form is empty, and fills its wallet in.
LEMMA AnyCachedFound ==
    ASSUME NEW s \in BrowserType, Tells(s)
    PROVE  LET c == findAnyCachedSafeForCluster(s, s)
           IN  /\ Quiet(s, c)
               /\ c.ui.edited = s.ui.edited
               /\ IF s.ui.result # None \/ s.ui.wallet # None \/ ~Cached(s) THEN c = s
                  ELSE c.ui.result # None
<1> DEFINE w == FirstCached(s)
           r == s.store.safes[w]
           u == [s.ui EXCEPT !.wallet = r.wallet]
           a == SetUi(s, u)
           c == Show(a, r, "existing")
<1>1. CASE s.ui.result # None \/ s.ui.wallet # None \/ ~Cached(s)
  <2>1. findAnyCachedSafeForCluster(s, s) = s
    BY <1>1 DEF findAnyCachedSafeForCluster, Cached
  <2>2. Quiet(s, s)
    BY DEF Quiet, SameForm
  <2>3. QED BY <1>1, <2>1, <2>2
<1>2. CASE ~(s.ui.result # None \/ s.ui.wallet # None \/ ~Cached(s))
  <2>1. w \in Wallets /\ r # None
    BY <1>2 DEF Cached, FirstCached
  <2>2. r \in RecordType /\ Has(s, r)
    BY <2>1, Parts DEF StoreType, Has
  <2>3. findAnyCachedSafeForCluster(s, s) = c
    BY <1>2 DEF findAnyCachedSafeForCluster, Cached
  <2> HIDE DEF r
  <2>4. u \in UiType
    BY <2>2, Parts, NothingIsNone DEF UiType
  <2>5. /\ u.result = s.ui.result /\ u.notice = s.ui.notice /\ u.detected = s.ui.detected
        /\ u.key = s.ui.key /\ u.nonce = s.ui.nonce /\ u.submitting = s.ui.submitting
        /\ u.signing = s.ui.signing /\ u.edited = s.ui.edited
    BY Parts DEF UiType
  <2>6. u.wallet # None
    BY <2>2, Parts, NothingIsNone DEF UiType
  <2> HIDE DEF u
  <2>7. /\ a \in BrowserType /\ a.ui = u /\ a.page = s.page /\ a.store = s.store
        /\ a.calls = s.calls
    BY <2>4, UiSet
  <2> HIDE DEF a
  <2>8. Quiet(s, a)
    BY <2>5, <2>6, <2>7, QuietAside DEF SameForm
  <2>9. Has(a, r) /\ Tells(a)
    BY <2>2, <2>5, <2>7, <2>8 DEF Has, Quiet
  <2>10. Quiet(a, c)
    BY <2>2, <2>7, <2>9, QuietlyShown
  <2>11. c.ui.result = r /\ c.ui.edited = a.ui.edited
    BY <2>2, <2>7, <2>9, ResultIsShown DEF Announces, Beside, Tells
  <2> HIDE DEF c
  <2>12. Quiet(s, c)
    BY <2>8, <2>10, QuietTwice
  <2>13. QED BY <1>2, <2>1, <2>3, <2>5, <2>7, <2>11, <2>12, NothingIsNone, <2>2
<1>3. QED BY <1>1, <1>2

\* The second effect moves the older version's tour key, and nothing of the form.
LEMMA TourMigrated ==
    ASSUME NEW s \in BrowserType, NEW b \in BrowserType
    PROVE  LET c == MigrateTour(s, b)
           IN  /\ Quiet(b, c) /\ SameFields(b.ui, c.ui)
               /\ c.ui.result = b.ui.result /\ c.store.safes = b.store.safes
               /\ ~s.store.legacyTour => c = b
<1> DEFINE w == IF s.ui.wallet # None THEN s.ui.wallet ELSE s.page.wallet
           u == [b.ui EXCEPT !.tourRef = w]
           t == [TourDone(b.store, w) EXCEPT !.legacyTour = FALSE]
           c == SetStore(SetUi(b, u), t)
<1>1. CASE ~(s.store.legacyTour /\ w # None)
  <2>1. MigrateTour(s, b) = b
    BY <1>1 DEF MigrateTour
  <2>2. QED BY <2>1 DEF Quiet, SameForm, SameFields
<1>2. CASE s.store.legacyTour /\ w # None
  <2>1. MigrateTour(s, b) = c
    BY <1>2 DEF MigrateTour
  <2>2. w \in Wallets \cup {None}
    BY Parts DEF UiType, PageType
  <2> HIDE DEF w
  <2>3. u \in UiType
    BY <2>2, Parts DEF UiType
  <2>4. /\ u.result = b.ui.result /\ u.notice = b.ui.notice /\ u.detected = b.ui.detected
        /\ u.key = b.ui.key /\ u.nonce = b.ui.nonce /\ u.submitting = b.ui.submitting
        /\ u.signing = b.ui.signing /\ SameFields(b.ui, u)
    BY Parts DEF UiType, SameFields
  <2> HIDE DEF u
  <2>5. TourDone(b.store, w) \in StoreType /\ TourDone(b.store, w).safes = b.store.safes
    BY <2>2, Parts, TourDoneInStore
  <2>6. t \in StoreType /\ ~t.legacyTour /\ t.safes = b.store.safes
    BY <2>5 DEF StoreType
  <2> HIDE DEF t
  <2>7. /\ c \in BrowserType /\ c.ui = u /\ c.page = b.page /\ c.store = t
        /\ c.calls = b.calls
    BY <2>3, <2>6, UiSet, StoreSet
  <2> HIDE DEF c
  <2>8. Quiet(b, c)
    BY <2>4, <2>6, <2>7, QuietAside DEF SameForm, SameFields
  <2>9. QED BY <1>2, <2>1, <2>4, <2>6, <2>7, <2>8
<1>3. QED BY <1>1, <1>2

\* The record that RestoreSafe shows, if any.
Restorable(s) ==
    IF s.store.safes[s.ui.wallet] # None THEN s.store.safes[s.ui.wallet]
    ELSE buildCreatorDerivedSafe(s.page.wallet)

\* What buildCreatorDerivedSafe makes up is a record of the creators' list.
LEMMA DerivedRecord ==
    ASSUME NEW w \in Wallets \cup {None}, buildCreatorDerivedSafe(w) # None
    PROVE  /\ buildCreatorDerivedSafe(w) \in RecordType
           /\ buildCreatorDerivedSafe(w).from = "creator"
BY NothingIsNone DEF buildCreatorDerivedSafe, RecordType, Statuses

\* The third effect shows the stored record of the wallet in the form, or one made up.
LEMMA SafeRestored ==
    ASSUME NEW s \in BrowserType, NEW b \in BrowserType, Quiet(s, b), Tells(s)
    PROVE  LET c == RestoreSafe(s, b)
           IN  /\ Quiet(s, c)
               /\ c.ui.wallet = b.ui.wallet /\ c.ui.edited = b.ui.edited
               /\ c.ui.fetching = b.ui.fetching
               /\ IF s.ui.result # None \/ s.ui.wallet = None \/ Restorable(s) = None
                  THEN c = b
                  ELSE /\ c.ui.result # None
                       /\ c.ui.pstate = "done" /\ c.ui.pkey = s.ui.wallet
<1> DEFINE w == s.ui.wallet
           r == Restorable(s)
           a == Show(b, r, "existing")
           u == [a.ui EXCEPT !.pstate = "done", !.pkey = w]
           c == SetUi(a, u)
<1>1. CASE s.ui.result # None \/ w = None \/ r = None
  <2>1. RestoreSafe(s, b) = b
    BY <1>1 DEF RestoreSafe, Restorable
  <2>2. QED BY <1>1, <2>1
<1>2. CASE ~(s.ui.result # None \/ w = None \/ r = None)
  <2>1. RestoreSafe(s, b) = c
    BY <1>2 DEF RestoreSafe, Restorable, Then
  <2>2. w \in Wallets
    BY <1>2, Parts DEF UiType
  <2>3. r \in RecordType /\ (Has(s, r) \/ r.from = "creator")
    <3>1. CASE s.store.safes[w] # None
      <4>1. r = s.store.safes[w]
        BY <3>1 DEF Restorable
      <4>2. r \in RecordType
        BY <2>2, <3>1, <4>1, Parts DEF StoreType
      <4>3. QED BY <2>2, <4>1, <4>2 DEF Has
    <3>2. CASE s.store.safes[w] = None
      <4>1. r = buildCreatorDerivedSafe(s.page.wallet)
        BY <3>2 DEF Restorable
      <4>2. s.page.wallet \in Wallets \cup {None}
        BY Parts DEF PageType
      <4>3. QED BY <1>2, <4>1, <4>2, DerivedRecord
    <3>3. QED BY <3>1, <3>2
  <2> HIDE DEF r
  <2>4. Tells(b)
    BY DEF Quiet
  <2>5. Announces(b, a) /\ Tells(a) /\ a.ui.result = r
        /\ a.store.safes = [b.store.safes EXCEPT ![r.wallet] = r]
    BY <2>3, <2>4, ResultIsShown DEF Tells
  <2>6. a \in BrowserType
    BY <2>5 DEF Announces
  <2>7. a.ui \in UiType
    BY <2>6, Parts
  <2> HIDE DEF a, w
  <2>8. u \in UiType
    BY <2>2, <2>7 DEF UiType
  <2>9. /\ u.result = a.ui.result /\ u.notice = a.ui.notice /\ u.detected = a.ui.detected
        /\ u.key = a.ui.key /\ u.nonce = a.ui.nonce /\ u.submitting = a.ui.submitting
        /\ u.signing = a.ui.signing /\ u.wallet = a.ui.wallet /\ u.edited = a.ui.edited
        /\ u.fetching = a.ui.fetching /\ u.pstate = "done" /\ u.pkey = w
    BY <2>7 DEF UiType
  <2> HIDE DEF u
  <2>10. /\ c \in BrowserType /\ c.ui = u /\ c.page = a.page /\ c.store = a.store
         /\ c.calls = a.calls
    BY <2>6, <2>8, UiSet
  <2> HIDE DEF c
  <2>11. Tells(c)
    BY <2>5, <2>9, <2>10 DEF Tells
  <2>12. \A x \in RecordType : Has(c, x) => Has(b, x) \/ x = r
    BY <2>3, <2>5, <2>9, <2>10, Parts DEF Has, Announces, StoreType
  <2>13. \A x \in RecordType : Has(c, x) => Has(s, x) \/ x.from = "creator"
    BY <2>3, <2>12 DEF Quiet
  <2>14. Quiet(s, c)
    BY <2>3, <2>5, <2>9, <2>10, <2>11, <2>13, NothingIsNone
       DEF Quiet, Announces, Beside, SameForm
  <2>15. QED BY <1>2, <2>1, <2>3, <2>5, <2>9, <2>10, <2>14, NothingIsNone
             DEF Announces, Beside, w, r
<1>3. QED BY <1>1, <1>2

Kinds == {"lookup", "nonce", "submit", "refresh", "link", "list", "resubmit", "override"}

Callers == {"effect", "typed", "recover", "button", "sign", "form", "panel", "admin", "gone"}

\* What a request is when it is made.
LEMMA CallMade ==
    ASSUME NEW kind \in Kinds, NEW w \in Wallets \cup {None}, NEW by \in Callers
    PROVE  LET c == Call(kind, w, by)
           IN  /\ c \in CallType
               /\ c.kind = kind /\ c.wallet = w /\ c.by = by /\ c.from = "api"
               /\ c.key = 0 /\ c.nonce = 0 /\ c.reply = NoReply
               /\ c.reply.row = None /\ c.reply.code = "none" /\ c.reply.nonce = 0
BY OnboardingAssumption DEF Call, CallType, NoReply, Kinds, Callers

\* Asking adds a call and nothing else.
LEMMA Asked ==
    ASSUME NEW b \in BrowserType, NEW call \in CallType
    PROVE  LET c == Ask(b, call)
           IN  /\ c \in BrowserType /\ c.calls = b.calls \cup {call}
               /\ c.ui = b.ui /\ c.page = b.page /\ c.store = b.store
BY Parts, CallsSet DEF Ask

\* The state u of the panel when the wallet w has been looked up, or is being.
LookedAt(u, f, pstate, w) == [u EXCEPT !.fetching = f, !.pstate = pstate, !.pkey = w]

\* What a lookup writes into the panel, and what it leaves alone.
LEMMA Looking ==
    ASSUME NEW u \in UiType, NEW w \in Wallets, NEW pstate \in {"loading", "done"},
           NEW f \in Wallets \cup {None}
    PROVE  LET v == LookedAt(u, f, pstate, w)
           IN  /\ v \in UiType
               /\ v.result = u.result /\ v.notice = u.notice /\ v.detected = u.detected
               /\ v.key = u.key /\ v.nonce = u.nonce /\ v.submitting = u.submitting
               /\ v.signing = u.signing /\ v.wallet = u.wallet /\ v.edited = u.edited
               /\ v.fetching = f /\ v.pstate = pstate /\ v.pkey = w
<1> DEFINE v == LookedAt(u, f, pstate, w)
<1>1. v \in UiType
  BY DEF UiType, LookedAt
<1>2. /\ v.result = u.result /\ v.notice = u.notice /\ v.detected = u.detected
      /\ v.key = u.key /\ v.nonce = u.nonce /\ v.submitting = u.submitting
  BY DEF UiType, LookedAt
<1>3. /\ v.signing = u.signing /\ v.wallet = u.wallet /\ v.edited = u.edited
      /\ v.fetching = f /\ v.pstate = pstate /\ v.pkey = w
  BY DEF UiType, LookedAt
<1> HIDE DEF v
<1>4. QED BY <1>1, <1>2, <1>3 DEF v

\* fetchExistingSafe either finds the wallet being looked up, or asks for it.
LEMMA Fetched ==
    ASSUME NEW b \in BrowserType, NEW w \in Wallets,
           NEW by \in {"effect", "typed", "recover"}, NEW pstate, NEW pkey
    PROVE  LET c == fetchExistingSafe(b, w, by, pstate, pkey)
           IN  \/ /\ c = b /\ by = "effect"
                  /\ b.ui.fetching = w \/ (pkey = w /\ pstate \in {"loading", "done"})
               \/ /\ c \in BrowserType
                  /\ c.ui = LookedAt(b.ui, w, "loading", w)
                  /\ c.page = b.page /\ c.store = b.store
                  /\ c.calls = b.calls \cup {Call("lookup", w, by)}
<1> DEFINE u == LookedAt(b.ui, w, "loading", w)
           a == SetUi(b, u)
           call == Call("lookup", w, by)
<1>1. b.ui \in UiType
  BY Parts
<1>2. u \in UiType
  BY <1>1, Looking
<1>3. call \in CallType
  BY CallMade DEF Kinds, Callers
<1>4. /\ a \in BrowserType /\ a.ui = u /\ a.page = b.page /\ a.store = b.store
      /\ a.calls = b.calls
  BY <1>2, UiSet
<1>5. \/ /\ fetchExistingSafe(b, w, by, pstate, pkey) = b /\ by = "effect"
         /\ b.ui.fetching = w \/ (pkey = w /\ pstate \in {"loading", "done"})
      \/ fetchExistingSafe(b, w, by, pstate, pkey) = Ask(a, call)
  BY DEF fetchExistingSafe, LookedAt
<1> HIDE DEF a, call
<1>6. /\ Ask(a, call) \in BrowserType /\ Ask(a, call).calls = a.calls \cup {call}
      /\ Ask(a, call).ui = a.ui /\ Ask(a, call).page = a.page /\ Ask(a, call).store = a.store
  BY <1>3, <1>4, Asked
<1>7. QED BY <1>4, <1>5, <1>6 DEF call

\* The fourth effect leaves the wallet of the form looked up, being looked up or asked for.
LEMMA Prefetched ==
    ASSUME NEW s \in BrowserType, NEW b \in BrowserType, s.page.live
    PROVE  LET w == s.ui.wallet
               c == Prefetch(s, b)
           IN  /\ Quiet(b, c)
               /\ c.ui.wallet = b.ui.wallet /\ c.ui.edited = b.ui.edited
               /\ c.ui.result = b.ui.result /\ c.store.safes = b.store.safes
               /\ IF w = None THEN c.ui.pstate = "idle" /\ c.ui.pkey = None
                  ELSE \/ c = b /\ s.ui.pkey = w /\ s.ui.pstate \in {"loading", "done"}
                       \/ c.ui.pkey = w /\ c.ui.pstate \in {"loading", "done"}
                       \/ /\ c = b /\ b.ui.fetching = w
                          /\ s.ui.result = None \/ s.ui.result.wallet # w
<1> DEFINE w == s.ui.wallet
           known == s.ui.result # None /\ s.ui.result.wallet = w
           seen == s.ui.pkey = w /\ s.ui.pstate \in {"loading", "done"}
           c == Prefetch(s, b)
<1>1. w \in Wallets \cup {None} /\ b.ui \in UiType
  BY Parts DEF UiType
<1>2. CASE w = None
  <2> DEFINE u == [b.ui EXCEPT !.pstate = "idle", !.pkey = None]
  <2>1. c = SetUi(b, u)
    BY <1>2 DEF Prefetch
  <2>2. u \in UiType
    BY <1>1 DEF UiType
  <2>3. /\ u.result = b.ui.result /\ u.notice = b.ui.notice /\ u.detected = b.ui.detected
        /\ u.key = b.ui.key /\ u.nonce = b.ui.nonce /\ u.submitting = b.ui.submitting
        /\ u.signing = b.ui.signing /\ u.wallet = b.ui.wallet /\ u.edited = b.ui.edited
        /\ u.pstate = "idle" /\ u.pkey = None
    BY <1>1 DEF UiType
  <2> HIDE DEF u, c
  <2>4. /\ c \in BrowserType /\ c.ui = u /\ c.page = b.page /\ c.store = b.store
        /\ c.calls = b.calls
    BY <2>1, <2>2, UiSet
  <2>5. Quiet(b, c)
    BY <2>3, <2>4, QuietAside DEF SameForm
  <2>6. QED BY <1>2, <2>3, <2>4, <2>5 DEF c
<1>3. CASE w # None /\ seen
  <2>1. c = b
    BY <1>3 DEF Prefetch
  <2>2. Quiet(b, b)
    BY DEF Quiet, SameForm
  <2>3. QED BY <1>3, <2>1, <2>2
<1>4. CASE w # None /\ ~seen /\ known
  <2> DEFINE u == [b.ui EXCEPT !.pstate = "done", !.pkey = w]
             f == b.ui.fetching
             v == LookedAt(b.ui, f, "done", w)
  <2>1. c = SetUi(b, u)
    BY <1>4 DEF Prefetch
  <2>2. u = v
    BY <1>1, <1>4 DEF UiType, LookedAt
  <2>3. w \in Wallets /\ f \in Wallets \cup {None} /\ b.ui \in UiType
    BY <1>1, <1>4 DEF UiType
  <2> HIDE DEF w, c, known, seen, u, f
  <2>4. /\ v \in UiType
        /\ v.result = b.ui.result /\ v.notice = b.ui.notice /\ v.detected = b.ui.detected
        /\ v.key = b.ui.key /\ v.nonce = b.ui.nonce /\ v.submitting = b.ui.submitting
        /\ v.signing = b.ui.signing /\ v.wallet = b.ui.wallet /\ v.edited = b.ui.edited
        /\ v.pstate = "done" /\ v.pkey = w
    <3>1. b.ui \in UiType /\ w \in Wallets /\ f \in Wallets \cup {None}
      BY <2>3
    <3> DEFINE q == b.ui
    <3>2. q \in UiType
      BY <3>1
    <3> HIDE DEF q, v
    <3>3. v = LookedAt(q, f, "done", w)
      BY DEF v, q
    <3>4. \A g \in Wallets \cup {None}, x \in Wallets :
             LET y == LookedAt(q, g, "done", x)
             IN  /\ y \in UiType
                 /\ y.result = q.result /\ y.notice = q.notice /\ y.detected = q.detected
                 /\ y.key = q.key /\ y.nonce = q.nonce /\ y.submitting = q.submitting
                 /\ y.signing = q.signing /\ y.wallet = q.wallet
                 /\ y.edited = q.edited /\ y.pstate = "done" /\ y.pkey = x
      BY <3>2, Looking
    <3>5. QED BY <3>1, <3>3, <3>4 DEF q
  <2> HIDE DEF v
  <2>5. /\ c \in BrowserType /\ c.ui = u /\ c.page = b.page /\ c.store = b.store
        /\ c.calls = b.calls
    BY <2>1, <2>2, <2>4, UiSet
  <2>6. Quiet(b, c)
    BY <2>2, <2>4, <2>5, QuietAside DEF SameForm
  <2>7. QED BY <1>4, <2>2, <2>4, <2>5, <2>6 DEF c, w
<1>5. CASE w # None /\ ~seen /\ ~known
  <2>1. c = fetchExistingSafe(b, w, "effect", s.ui.pstate, s.ui.pkey)
    BY <1>5 DEF Prefetch
  <2> DEFINE u == LookedAt(b.ui, w, "loading", w)
  <2>2. \/ c = b /\ b.ui.fetching = w
        \/ /\ c \in BrowserType /\ c.ui = u
           /\ c.page = b.page /\ c.store = b.store
           /\ c.calls = b.calls \cup {Call("lookup", w, "effect")}
    <3> DEFINE pstate == s.ui.pstate
               pkey == s.ui.pkey
    <3>1. w \in Wallets /\ ~(pkey = w /\ pstate \in {"loading", "done"})
      BY <1>1, <1>5
    <3>2. c = fetchExistingSafe(b, w, "effect", pstate, pkey)
      BY <2>1
    <3> HIDE DEF c, w, known, seen, pstate, pkey
    <3>3. QED BY <3>1, <3>2, Fetched
  <2>3. CASE c = b /\ b.ui.fetching = w
    <3>1. Quiet(b, b)
      BY DEF Quiet, SameForm
    <3>2. QED BY <1>5, <2>3, <3>1
  <2>4. CASE ~(c = b /\ b.ui.fetching = w)
    <3>1. /\ u.result = b.ui.result /\ u.notice = b.ui.notice /\ u.detected = b.ui.detected
          /\ u.key = b.ui.key /\ u.nonce = b.ui.nonce /\ u.submitting = b.ui.submitting
          /\ u.signing = b.ui.signing /\ u.wallet = b.ui.wallet /\ u.edited = b.ui.edited
          /\ u.pstate = "loading" /\ u.pkey = w
      <4>1. w \in Wallets
        BY <1>1, <1>5
      <4> HIDE DEF c, w, known, seen
      <4>2. QED BY <1>1, <4>1, Looking
    <3> HIDE DEF u, c
    <3>2. Tells(b) => Tells(c)
      BY <2>2, <2>4, <3>1 DEF Tells
    <3>3. Call("lookup", w, "effect") \in Prefetches
      BY <1>1, <1>5 DEF Prefetches
    <3>4. Call("lookup", w, "effect").reply.row = None
      BY <1>1, CallMade DEF Kinds, Callers
    <3>5. \A r \in RecordType : Has(c, r) => Has(b, r)
      BY <2>2, <2>4, <3>1, <3>4, NothingIsNone DEF Has
    <3>6. Quiet(b, c)
      BY <2>2, <2>4, <3>1, <3>2, <3>3, <3>5 DEF Quiet, SameForm
    <3>7. QED BY <1>5, <2>2, <2>4, <3>1, <3>6 DEF c
  <2>5. QED BY <2>3, <2>4
<1>6. QED BY <1>1, <1>2, <1>3, <1>4, <1>5

\* The fifth effect fills in the connected wallet, unless the user has edited the form.
LEMMA WalletFilled ==
    ASSUME NEW s \in BrowserType, NEW b \in BrowserType
    PROVE  LET c == AutofillWallet(s, b)
           IN  /\ Quiet(b, c) /\ c.page = b.page /\ c.store = b.store
               /\ c.ui.result = b.ui.result /\ c.ui.edited = b.ui.edited
               /\ c.ui.fetching = b.ui.fetching
               /\ c.ui.pstate = b.ui.pstate /\ c.ui.pkey = b.ui.pkey
               /\ IF s.page.wallet # None /\ ~s.ui.edited /\ s.ui.wallet # s.page.wallet
                  THEN c.ui.wallet = s.page.wallet ELSE c = b
<1> DEFINE u == [b.ui EXCEPT !.wallet = s.page.wallet]
           c == AutofillWallet(s, b)
<1>1. CASE ~(s.page.wallet # None /\ ~s.ui.edited /\ s.ui.wallet # s.page.wallet)
  <2>1. c = b
    BY <1>1 DEF AutofillWallet
  <2>2. Quiet(b, b)
    BY DEF Quiet, SameForm
  <2>3. QED BY <1>1, <2>1, <2>2
<1>2. CASE s.page.wallet # None /\ ~s.ui.edited /\ s.ui.wallet # s.page.wallet
  <2>1. c = SetUi(b, u)
    BY <1>2 DEF AutofillWallet
  <2>2. b.ui \in UiType /\ s.page.wallet \in Wallets \cup {None}
    BY Parts DEF PageType
  <2>3. u \in UiType
    BY <2>2 DEF UiType
  <2>4. /\ u.result = b.ui.result /\ u.notice = b.ui.notice /\ u.detected = b.ui.detected
        /\ u.key = b.ui.key /\ u.nonce = b.ui.nonce /\ u.submitting = b.ui.submitting
        /\ u.signing = b.ui.signing
    BY <2>2 DEF UiType
  <2>5. /\ u.wallet = s.page.wallet /\ u.edited = b.ui.edited
        /\ u.fetching = b.ui.fetching /\ u.pstate = b.ui.pstate /\ u.pkey = b.ui.pkey
    BY <2>2 DEF UiType
  <2> HIDE DEF u, c
  <2>6. /\ c \in BrowserType /\ c.ui = u /\ c.page = b.page /\ c.store = b.store
        /\ c.calls = b.calls
    BY <2>1, <2>3, UiSet
  <2>7. Quiet(b, c)
    BY <1>2, <2>4, <2>5, <2>6, QuietAside DEF SameForm
  <2>8. QED BY <1>2, <2>4, <2>5, <2>6, <2>7 DEF c
<1>3. QED BY <1>1, <1>2

\* The sixth effect forgets the edit once the form has the connected wallet.
LEMMA EditForgotten ==
    ASSUME NEW s \in BrowserType, NEW b \in BrowserType
    PROVE  LET c == NoLongerEdited(s, b)
           IN  /\ Quiet(b, c) /\ c.page = b.page /\ c.store = b.store
               /\ c.ui.result = b.ui.result /\ c.ui.wallet = b.ui.wallet
               /\ c.ui.fetching = b.ui.fetching
               /\ c.ui.pstate = b.ui.pstate /\ c.ui.pkey = b.ui.pkey
               /\ IF s.ui.edited /\ s.page.wallet # None /\ s.ui.wallet = s.page.wallet
                  THEN ~c.ui.edited ELSE c = b
<1> DEFINE u == [b.ui EXCEPT !.edited = FALSE]
           c == NoLongerEdited(s, b)
<1>1. CASE ~(s.ui.edited /\ s.page.wallet # None /\ s.ui.wallet = s.page.wallet)
  <2>1. c = b
    BY <1>1 DEF NoLongerEdited
  <2>2. Quiet(b, b)
    BY DEF Quiet, SameForm
  <2>3. QED BY <1>1, <2>1, <2>2
<1>2. CASE s.ui.edited /\ s.page.wallet # None /\ s.ui.wallet = s.page.wallet
  <2>1. c = SetUi(b, u)
    BY <1>2 DEF NoLongerEdited
  <2>2. b.ui \in UiType
    BY Parts
  <2>3. u \in UiType
    BY <2>2 DEF UiType
  <2>4. /\ u.result = b.ui.result /\ u.notice = b.ui.notice /\ u.detected = b.ui.detected
        /\ u.key = b.ui.key /\ u.nonce = b.ui.nonce /\ u.submitting = b.ui.submitting
        /\ u.signing = b.ui.signing
    BY <2>2 DEF UiType
  <2>5. /\ u.wallet = b.ui.wallet /\ ~u.edited
        /\ u.fetching = b.ui.fetching /\ u.pstate = b.ui.pstate /\ u.pkey = b.ui.pkey
    BY <2>2 DEF UiType
  <2> HIDE DEF u, c
  <2>6. /\ c \in BrowserType /\ c.ui = u /\ c.page = b.page /\ c.store = b.store
        /\ c.calls = b.calls
    BY <2>1, <2>3, UiSet
  <2>7. Quiet(b, c)
    BY <2>4, <2>5, <2>6, QuietAside DEF SameForm
  <2>8. QED BY <1>2, <2>4, <2>5, <2>6, <2>7 DEF c
<1>3. QED BY <1>1, <1>2

-----------------------------------------------------------------------------
(* A round of the panel's effects.                                         *)

\* What one round of the panel's effects does to the form, and what the next does when
\* nothing is left to fill in.
LEMMA PanelRun ==
    ASSUME NEW s \in BrowserType, Tells(s), s.page.live
    PROVE  LET c == PanelEffects(s)
           IN  /\ Quiet(s, c) /\ FormFilled(c)
               /\ FormFilled(s) =>
                    /\ Restored(c) /\ Looked(c)
                    /\ ~(c.ui.edited /\ c.page.wallet # None /\ c.ui.wallet = c.page.wallet)
<1> DEFINE b1 == findAnyCachedSafeForCluster(s, s)
           b2 == MigrateTour(s, b1)
           b3 == RestoreSafe(s, b2)
           b4 == Prefetch(s, b3)
           b5 == AutofillWallet(s, b4)
           c == NoLongerEdited(s, b5)
           idle == s.ui.result # None \/ s.ui.wallet = None \/ Restorable(s) = None
           fills == s.page.wallet # None /\ ~s.ui.edited /\ s.ui.wallet # s.page.wallet
           back == s.ui.edited /\ s.page.wallet # None /\ s.ui.wallet = s.page.wallet
<1>1. PanelEffects(s) = c
  BY DEF PanelEffects, Then
<1>2. /\ Quiet(s, b1) /\ b1 \in BrowserType
      /\ b1.ui.edited = s.ui.edited
      /\ IF s.ui.result # None \/ s.ui.wallet # None \/ ~Cached(s) THEN b1 = s
         ELSE b1.ui.result # None
  BY AnyCachedFound DEF Quiet
<1> HIDE DEF b1
<1>3. /\ Quiet(b1, b2) /\ SameFields(b1.ui, b2.ui) /\ b2 \in BrowserType
      /\ b2.ui.result = b1.ui.result /\ b2.store.safes = b1.store.safes
  BY <1>2, TourMigrated DEF Quiet
<1>4. Quiet(s, b2)
  BY <1>2, <1>3, QuietTwice
<1> HIDE DEF b2
<1>5. /\ Quiet(s, b3) /\ b3 \in BrowserType
      /\ b3.ui.wallet = b2.ui.wallet /\ b3.ui.edited = b2.ui.edited
      /\ b3.ui.fetching = b2.ui.fetching
      /\ IF idle THEN b3 = b2
         ELSE /\ b3.ui.result # None
              /\ b3.ui.pstate = "done" /\ b3.ui.pkey = s.ui.wallet
  BY <1>3, <1>4, SafeRestored DEF Quiet
<1> HIDE DEF b3
<1>6. /\ Quiet(b3, b4) /\ b4 \in BrowserType
      /\ b4.ui.wallet = b3.ui.wallet /\ b4.ui.edited = b3.ui.edited
      /\ b4.ui.result = b3.ui.result /\ b4.store.safes = b3.store.safes
      /\ IF s.ui.wallet = None THEN b4.ui.pstate = "idle" /\ b4.ui.pkey = None
         ELSE \/ b4 = b3 /\ s.ui.pkey = s.ui.wallet /\ s.ui.pstate \in {"loading", "done"}
              \/ b4.ui.pkey = s.ui.wallet /\ b4.ui.pstate \in {"loading", "done"}
              \/ /\ b4 = b3 /\ b3.ui.fetching = s.ui.wallet
                 /\ s.ui.result = None \/ s.ui.result.wallet # s.ui.wallet
  BY <1>5, Prefetched DEF Quiet
<1> HIDE DEF b4
<1>7. /\ Quiet(b4, b5) /\ b5 \in BrowserType /\ b5.page = b4.page /\ b5.store = b4.store
      /\ b5.ui.result = b4.ui.result /\ b5.ui.edited = b4.ui.edited
      /\ b5.ui.fetching = b4.ui.fetching
      /\ b5.ui.pstate = b4.ui.pstate /\ b5.ui.pkey = b4.ui.pkey
      /\ IF fills THEN b5.ui.wallet = s.page.wallet ELSE b5 = b4
  BY <1>6, WalletFilled DEF Quiet
<1> HIDE DEF b5
<1>8. /\ Quiet(b5, c) /\ c.page = b5.page /\ c.store = b5.store
      /\ c.ui.result = b5.ui.result /\ c.ui.wallet = b5.ui.wallet
      /\ c.ui.fetching = b5.ui.fetching
      /\ c.ui.pstate = b5.ui.pstate /\ c.ui.pkey = b5.ui.pkey
      /\ IF back THEN ~c.ui.edited ELSE c = b5
  BY <1>7, EditForgotten
<1> HIDE DEF c
<1>9. Quiet(s, c)
  <2>1. Quiet(s, b4)
    BY <1>5, <1>6, QuietTwice
  <2>2. Quiet(s, b5)
    BY <1>7, <2>1, QuietTwice
  <2>3. QED BY <1>8, <2>2, QuietTwice
<1>10. c.page.wallet = s.page.wallet
  BY <1>9 DEF Quiet
\* The wallet is the one of the render, unless it is filled in.
<1>11. s.ui.result # None \/ s.ui.wallet # None \/ ~Cached(s) =>
         /\ b2.ui.result = s.ui.result /\ b2.store.safes = s.store.safes
         /\ SameFields(s.ui, b2.ui)
  BY <1>2, <1>3
<1>12. FormFilled(c)
  <2>1. c.ui.result # None \/ c.ui.wallet # None \/ ~Cached(c)
    <3>1. CASE s.ui.result # None \/ s.ui.wallet # None
      BY <1>9, <3>1 DEF Quiet
    <3>2. CASE s.ui.result = None /\ s.ui.wallet = None /\ Cached(s)
      BY <1>2, <1>3, <1>5, <1>6, <1>7, <1>8, <3>2
    <3>3. CASE s.ui.wallet = None /\ ~Cached(s)
      BY <1>5, <1>6, <1>7, <1>8, <1>11, <3>3 DEF Cached
    <3>4. QED BY <3>1, <3>2, <3>3
  <2>2. c.page.wallet = None \/ c.ui.edited \/ c.ui.wallet = c.page.wallet
    <3>1. CASE s.page.wallet = None
      BY <1>10, <3>1
    <3>2. CASE s.page.wallet # None /\ ~s.ui.edited
      <4>1. CASE s.ui.wallet # s.page.wallet
        BY <1>7, <1>8, <1>10, <3>2, <4>1
      <4>2. CASE s.ui.wallet = s.page.wallet
        BY <1>5, <1>6, <1>7, <1>8, <1>10, <1>11, <3>2, <4>2 DEF SameFields
      <4>3. QED BY <4>1, <4>2
    <3>3. CASE s.page.wallet # None /\ s.ui.edited
      <4>1. CASE back
        BY <1>5, <1>6, <1>7, <1>8, <1>10, <1>11, <3>3, <4>1 DEF SameFields
      <4>2. CASE ~back
        BY <1>2, <1>3, <1>5, <1>6, <1>7, <1>8, <3>3, <4>2 DEF SameFields
      <4>3. QED BY <4>1, <4>2
    <3>4. QED BY <3>1, <3>2, <3>3
  <2>3. QED BY <2>1, <2>2 DEF FormFilled
<1>13. ASSUME FormFilled(s)
       PROVE  /\ Restored(c) /\ Looked(c)
              /\ ~(c.ui.edited /\ c.page.wallet # None /\ c.ui.wallet = c.page.wallet)
  <2>1. ~fills
    BY <1>13 DEF FormFilled
  <2>2. /\ b2.ui.result = s.ui.result /\ b2.store.safes = s.store.safes
        /\ SameFields(s.ui, b2.ui)
    BY <1>11, <1>13 DEF FormFilled
  <2>3. c.ui.wallet = s.ui.wallet
    BY <1>5, <1>6, <1>7, <1>8, <2>1, <2>2 DEF SameFields
  <2>4. Restored(c)
    <3>1. CASE s.ui.result # None
      BY <1>9, <3>1 DEF Quiet, Restored
    <3>2. CASE s.ui.wallet = None
      BY <2>3, <3>2 DEF Restored
    <3>3. CASE s.ui.result = None /\ s.ui.wallet # None /\ Restorable(s) = None
      <4>1. c.store.safes = s.store.safes
        BY <1>5, <1>6, <1>7, <1>8, <2>2, <3>3
      <4>2. QED BY <1>10, <2>3, <3>3, <4>1 DEF Restored, Restorable
    <3>4. CASE ~idle
      BY <1>5, <1>6, <1>7, <1>8, <3>4 DEF Restored
    <3>5. QED BY <3>1, <3>2, <3>3, <3>4
  <2>5. Looked(c)
    <3>1. CASE s.ui.wallet = None
      BY <1>6, <1>7, <1>8, <2>3, <3>1 DEF Looked
    <3>2. CASE s.ui.wallet # None /\ ~idle
      BY <1>5, <1>6, <1>7, <1>8, <2>3, <3>2 DEF Looked
    <3>3. CASE s.ui.wallet # None /\ idle
      BY <1>5, <1>6, <1>7, <1>8, <2>2, <2>3, <3>3 DEF Looked, SameFields
    <3>4. QED BY <3>1, <3>2, <3>3
  <2>6. ~(c.ui.edited /\ c.page.wallet # None /\ c.ui.wallet = c.page.wallet)
    BY <1>5, <1>6, <1>7, <1>8, <1>10, <2>2, <2>3 DEF SameFields
  <2>7. QED BY <2>4, <2>5, <2>6
<1>14. QED BY <1>1, <1>9, <1>12, <1>13

\* The panel's effects change nothing in a browser at rest.
LEMMA PanelRests ==
    ASSUME NEW s \in BrowserType, AfterTwo(s), s.page.live
    PROVE  PanelEffects(s) = s
<1>1. /\ ~s.store.legacyTour /\ FormFilled(s) /\ Restored(s) /\ Looked(s)
      /\ ~(s.ui.edited /\ s.page.wallet # None /\ s.ui.wallet = s.page.wallet)
  BY DEF AfterTwo, AfterOne
<1>2. findAnyCachedSafeForCluster(s, s) = s
  BY <1>1 DEF findAnyCachedSafeForCluster, FormFilled, Cached
<1>3. MigrateTour(s, s) = s
  BY <1>1 DEF MigrateTour
<1>4. RestoreSafe(s, s) = s
  BY <1>1 DEF RestoreSafe, Restored
<1>5. Prefetch(s, s) = s
  <2> DEFINE w == s.ui.wallet
             u == [s.ui EXCEPT !.pstate = "idle", !.pkey = None]
  <2>1. CASE w = None
    <3>1. s.ui.pstate = "idle" /\ s.ui.pkey = None
      BY <1>1, <2>1 DEF Looked
    <3>2. Prefetch(s, s) = SetUi(s, u)
      BY <2>1 DEF Prefetch
    <3>3. u = s.ui
      BY <3>1, Parts DEF UiType
    <3>4. QED BY <3>2, <3>3, Parts DEF SetUi
  <2>2. CASE w # None
    BY <1>1, <2>2 DEF Prefetch, Looked, fetchExistingSafe
  <2>3. QED BY <2>1, <2>2
<1>6. AutofillWallet(s, s) = s
  BY <1>1 DEF AutofillWallet, FormFilled
<1>7. NoLongerEdited(s, s) = s
  BY <1>1 DEF NoLongerEdited
<1>8. QED BY <1>2, <1>3, <1>4, <1>5, <1>6, <1>7 DEF PanelEffects, Then

-----------------------------------------------------------------------------
(* A round of the page's effects, and the rounds.                          *)

\* A step of the page: the panel, its records and its calls are left alone.
OfPage(b, c) ==
    /\ c \in BrowserType /\ c.ui = b.ui /\ c.store.safes = b.store.safes
    /\ c.calls = b.calls
    /\ c.page.wallet = b.page.wallet /\ c.page.live = b.page.live
    /\ b.page.safeDetected => c.page.safeDetected
    /\ c.store.legacyTour => b.store.legacyTour
    /\ c.page.startTour => b.page.startTour

\* What the page's effects do is quiet.
LEMMA OfPageIsQuiet ==
    ASSUME NEW b \in BrowserType, NEW c, OfPage(b, c)
    PROVE  Quiet(b, c)
BY QuietAside DEF OfPage, SameForm

\* The page moves the older version's tour key when the panel has not.
LEMMA PageTourMigrated ==
    ASSUME NEW s \in BrowserType, NEW b \in BrowserType,
           b.store.legacyTour => s.store.legacyTour
    PROVE  LET c == MigratePageTour(s, b)
           IN  OfPage(b, c) /\ ~c.store.legacyTour
<1> DEFINE c == MigratePageTour(s, b)
           t == [TourDone(b.store, TourKey(s)) EXCEPT !.legacyTour = FALSE]
<1>1. CASE ~(s.store.legacyTour /\ b.store.legacyTour)
  BY <1>1 DEF MigratePageTour, OfPage
<1>2. CASE s.store.legacyTour /\ b.store.legacyTour
  <2>1. c = SetStore(b, t)
    BY <1>2 DEF MigratePageTour
  <2>2. TourKey(s) \in Wallets \cup {None}
    BY Parts DEF TourKey, PageType
  <2>3. TourDone(b.store, TourKey(s)) \in StoreType
        /\ TourDone(b.store, TourKey(s)).safes = b.store.safes
    BY <2>2, Parts, TourDoneInStore
  <2>4. t \in StoreType /\ ~t.legacyTour /\ t.safes = b.store.safes
    BY <2>3 DEF StoreType
  <2> HIDE DEF t, c
  <2>5. c \in BrowserType /\ c.ui = b.ui /\ c.page = b.page /\ c.store = t /\ c.calls = b.calls
    BY <2>1, <2>4, StoreSet
  <2>6. QED BY <2>4, <2>5 DEF OfPage, c
<1>3. QED BY <1>1, <1>2

\* The page starts the tour it was loaded to start, once.
LEMMA TourStarted ==
    ASSUME NEW s \in BrowserType, NEW b \in BrowserType,
           b.page.startTour => s.page.startTour
    PROVE  LET c == StartTour(s, b)
           IN  /\ OfPage(b, c) /\ ~c.page.startTour
               /\ c.store.legacyTour = b.store.legacyTour
<1> DEFINE c == StartTour(s, b)
           p == [b.page EXCEPT !.tour = TRUE, !.startTour = FALSE]
           t == [b.store EXCEPT !.tour = @ \ {TourKey(s)}]
<1>1. CASE ~s.page.startTour
  BY <1>1 DEF StartTour, OfPage
<1>2. CASE s.page.startTour
  <2>1. c = SetStore(SetPage(b, p), t)
    BY <1>2 DEF StartTour
  <2>2. /\ p \in PageType /\ ~p.startTour /\ p.wallet = b.page.wallet
        /\ p.live = b.page.live /\ p.safeDetected = b.page.safeDetected
    BY Parts DEF PageType
  <2>3. t \in StoreType /\ t.legacyTour = b.store.legacyTour /\ t.safes = b.store.safes
    BY Parts DEF StoreType
  <2> HIDE DEF p, t, c
  <2>4. c \in BrowserType /\ c.ui = b.ui /\ c.page = p /\ c.store = t /\ c.calls = b.calls
    BY <2>1, <2>2, <2>3, PageSet, StoreSet
  <2>5. QED BY <2>2, <2>3, <2>4 DEF OfPage, c
<1>3. QED BY <1>1, <1>2

\* The page shows the tour when there is one to show, and puts it away when not.
LEMMA TourIsShown ==
    ASSUME NEW s \in BrowserType, NEW b \in BrowserType
    PROVE  LET c == ShowTour(s, b)
           IN  /\ OfPage(b, c) /\ c.store = b.store
               /\ c.page.safeDetected = b.page.safeDetected
               /\ c.page.startTour = b.page.startTour
               /\ c.page.tour \in BOOLEAN
               /\ ~s.page.live \/ hasSquadsSafe(s) => ~c.page.tour
               /\ s.page.live /\ ~hasSquadsSafe(s) /\ TourKey(s) \notin b.store.tour => c.page.tour
               /\ s.page.live /\ ~hasSquadsSafe(s) /\ TourKey(s) \in b.store.tour => c = b
<1> DEFINE c == ShowTour(s, b)
           p(x) == [b.page EXCEPT !.tour = x]
<1>1. \A x \in BOOLEAN : SetPage(b, p(x)) \in BrowserType /\ SetPage(b, p(x)).page = p(x)
                         /\ SetPage(b, p(x)).ui = b.ui /\ SetPage(b, p(x)).store = b.store
                         /\ SetPage(b, p(x)).calls = b.calls
  <2>1. \A x \in BOOLEAN : p(x) \in PageType
    BY Parts DEF PageType
  <2> HIDE DEF p
  <2>2. QED BY <2>1, PageSet
<1>2. \A x \in BOOLEAN : /\ p(x).tour = x /\ p(x).wallet = b.page.wallet
                         /\ p(x).live = b.page.live
                         /\ p(x).safeDetected = b.page.safeDetected
                         /\ p(x).startTour = b.page.startTour
  BY Parts DEF PageType
<1>3. CASE ~s.page.live \/ hasSquadsSafe(s)
  <2>1. c = SetPage(b, p(FALSE))
    BY <1>3 DEF ShowTour
  <2> HIDE DEF p, c
  <2>2. QED BY <1>1, <1>2, <1>3, <2>1 DEF OfPage, c
<1>4. CASE s.page.live /\ ~hasSquadsSafe(s) /\ TourKey(s) \notin b.store.tour
  <2>1. c = SetPage(b, p(TRUE))
    BY <1>4 DEF ShowTour
  <2> HIDE DEF p, c
  <2>2. QED BY <1>1, <1>2, <1>4, <2>1 DEF OfPage, c
<1>5. CASE s.page.live /\ ~hasSquadsSafe(s) /\ TourKey(s) \in b.store.tour
  <2>1. c = b
    BY <1>5 DEF ShowTour
  <2>2. b.page.tour \in BOOLEAN
    BY Parts DEF PageType
  <2>3. QED BY <1>5, <2>1, <2>2 DEF OfPage
<1>6. QED BY <1>3, <1>4, <1>5

\* The page detects the vault that the creators' list gives the connected wallet.
LEMMA VaultDetected ==
    ASSUME NEW s \in BrowserType, NEW b \in BrowserType, b.page.wallet = s.page.wallet
    PROVE  LET c == DetectVault(s, b)
           IN  /\ OfPage(b, c)
               /\ HasVault(c.page.wallet) => /\ c.page.safeDetected /\ ~c.page.tour
                                             /\ c.page.wallet \in c.store.tour
<1> DEFINE w == s.page.wallet
           c == DetectVault(s, b)
<1>1. CASE ~HasVault(w)
  BY <1>1 DEF DetectVault, OfPage
<1>2. CASE HasVault(w)
  <2>1. w \in Wallets
    BY <1>2, Parts DEF HasVault, PageType
  <2>2. c = handleSafeDetected(b, w)
    BY <1>2 DEF DetectVault
  <2>3. /\ Announces(b, c) /\ c.ui = b.ui /\ c.page.safeDetected /\ ~c.page.tour
        /\ c.store.safes = b.store.safes /\ w \in c.store.tour
    BY <2>1, <2>2, PageTold
  <2>4. QED BY <2>3 DEF OfPage, Announces
<1>3. QED BY <1>1, <1>2

\* A round of the page's effects, and what it leaves of the tour.
LEMMA PageRun ==
    ASSUME NEW s \in BrowserType, NEW b \in BrowserType, Quiet(s, b)
    PROVE  LET c == PageEffects(s, b)
           IN  /\ OfPage(b, c)
               /\ ~c.store.legacyTour /\ ~c.page.startTour
               /\ HasVault(c.page.wallet) => /\ c.page.safeDetected /\ ~c.page.tour
                                             /\ c.page.wallet \in c.store.tour
<1> DEFINE b1 == MigratePageTour(s, b)
           b2 == StartTour(s, b1)
           b3 == ShowTour(s, b2)
           c == DetectVault(s, b3)
<1>1. PageEffects(s, b) = c
  BY DEF PageEffects, Then
<1>2. OfPage(b, b1) /\ ~b1.store.legacyTour /\ b1 \in BrowserType
  BY PageTourMigrated DEF Quiet, OfPage
<1>3. b1.page.startTour => s.page.startTour
  BY <1>2 DEF Quiet, OfPage
<1> HIDE DEF b1
<1>4. OfPage(b1, b2) /\ ~b2.page.startTour /\ b2 \in BrowserType
  BY <1>2, <1>3, TourStarted DEF OfPage
<1> HIDE DEF b2
<1>5. OfPage(b2, b3) /\ b3 \in BrowserType
  BY <1>4, TourIsShown DEF OfPage
<1> HIDE DEF b3
<1>6. b3.page.wallet = s.page.wallet
  BY <1>2, <1>4, <1>5 DEF Quiet, OfPage
<1>7. /\ OfPage(b3, c)
      /\ HasVault(c.page.wallet) => /\ c.page.safeDetected /\ ~c.page.tour
                                    /\ c.page.wallet \in c.store.tour
  BY <1>5, <1>6, VaultDetected
<1> HIDE DEF c
<1>8. OfPage(b, c) /\ ~c.store.legacyTour /\ ~c.page.startTour
  BY <1>2, <1>4, <1>5, <1>7 DEF OfPage
<1>9. QED BY <1>1, <1>7, <1>8

\* The page's effects change nothing in a browser at rest.
LEMMA PageRests ==
    ASSUME NEW s \in BrowserType, AfterOne(s)
    PROVE  PageEffects(s, s) = ShowTour(s, s)
<1> DEFINE b == ShowTour(s, s)
<1>1. MigratePageTour(s, s) = s /\ StartTour(s, s) = s
  BY DEF AfterOne, MigratePageTour, StartTour
<1>2. PageEffects(s, s) = DetectVault(s, b)
  BY <1>1 DEF PageEffects, Then
<1>3. CASE ~HasVault(s.page.wallet)
  BY <1>2, <1>3 DEF DetectVault
<1>4. CASE HasVault(s.page.wallet)
  <2> DEFINE w == s.page.wallet
             p == [b.page EXCEPT !.safeDetected = TRUE, !.tour = FALSE]
  <2>1. s.page.safeDetected /\ w \in s.store.tour
    BY <1>4 DEF AfterOne
  <2>2. /\ b \in BrowserType /\ b.store = s.store /\ b.page.safeDetected /\ ~b.page.tour
        /\ b.page.tour \in BOOLEAN
    BY <1>4, <2>1, TourIsShown DEF hasSquadsSafe, OfPage
  <2>3. DetectVault(s, b) = SetStore(SetPage(b, p), TourDone(b.store, w))
    BY <1>4 DEF DetectVault, handleSafeDetected
  <2> HIDE DEF b
  <2>4. p = b.page
    BY <2>2, Parts DEF PageType
  <2>5. TourDone(b.store, w) = b.store
    <3>1. b.store \in StoreType /\ b.store.tour \cup {w} = b.store.tour
      BY <2>1, <2>2, Parts
    <3>2. QED BY <3>1 DEF StoreType, TourDone
  <2>6. SetPage(b, b.page) = b /\ SetStore(b, b.store) = b
    BY <2>2 DEF BrowserType, SetPage, SetStore
  <2>7. QED BY <1>2, <2>3, <2>4, <2>5, <2>6 DEF b
<1>5. QED BY <1>3, <1>4

\* The effects of one round: what they leave after the first and the second.
LEMMA Round ==
    ASSUME NEW s \in BrowserType, Tells(s)
    PROVE  LET c == Effects(s)
           IN  Quiet(s, c) /\ AfterOne(c) /\ (AfterOne(s) => AfterTwo(c))
<1> DEFINE b == IF s.page.live THEN PanelEffects(s) ELSE s
           c == PageEffects(s, b)
<1>1. Effects(s) = c
  BY DEF Effects
<1>2. /\ Quiet(s, b)
      /\ s.page.live => FormFilled(b)
      /\ s.page.live /\ FormFilled(s) =>
           /\ Restored(b) /\ Looked(b)
           /\ ~(b.ui.edited /\ b.page.wallet # None /\ b.ui.wallet = b.page.wallet)
  <2>1. Quiet(s, s)
    BY DEF Quiet, SameForm
  <2>2. QED BY <2>1, PanelRun
<1> HIDE DEF b
<1>3. b \in BrowserType /\ b.page.live = s.page.live
  BY <1>2 DEF Quiet
<1>4. /\ OfPage(b, c)
      /\ ~c.store.legacyTour /\ ~c.page.startTour
      /\ HasVault(c.page.wallet) => /\ c.page.safeDetected /\ ~c.page.tour
                                    /\ c.page.wallet \in c.store.tour
  BY <1>2, <1>3, PageRun
<1> HIDE DEF c
<1>5. Quiet(s, c)
  BY <1>2, <1>3, <1>4, OfPageIsQuiet, QuietTwice
<1>6. FormFilled(b) => FormFilled(c)
  BY <1>4 DEF OfPage, FormFilled, Cached
<1>7. AfterOne(c)
  BY <1>2, <1>3, <1>4, <1>6 DEF AfterOne, OfPage
<1>8. ASSUME AfterOne(s)
      PROVE  AfterTwo(c)
  <2>1. CASE ~s.page.live
    BY <1>3, <1>4, <1>7, <2>1 DEF AfterTwo, OfPage
  <2>2. CASE s.page.live
    <3>1. FormFilled(s)
      BY <1>8, <2>2 DEF AfterOne
    <3>2. QED BY <1>2, <1>4, <1>7, <2>2, <3>1 DEF AfterTwo, OfPage, Restored, Looked
  <2>3. QED BY <2>1, <2>2
<1>9. QED BY <1>1, <1>5, <1>7, <1>8

\* From the third round on only the tour is shown or put away.
LEMMA RoundOfTour ==
    ASSUME NEW s \in BrowserType, AfterTwo(s)
    PROVE  Effects(s) = ShowTour(s, s)
<1>1. AfterOne(s)
  BY DEF AfterTwo
<1>2. s.page.live => PanelEffects(s) = s
  BY PanelRests
<1>3. QED BY <1>1, <1>2, PageRests DEF Effects

\* The third round puts the tour as it is to be, and changes nothing else.
LEMMA ThirdRound ==
    ASSUME NEW s \in BrowserType, AfterTwo(s)
    PROVE  Rest(Effects(s))
<1> DEFINE c == ShowTour(s, s)
<1>1. Effects(s) = c
  BY RoundOfTour
<1>2. /\ OfPage(s, c) /\ c.store = s.store
      /\ c.page.safeDetected = s.page.safeDetected
      /\ c.page.startTour = s.page.startTour
      /\ ~s.page.live \/ hasSquadsSafe(s) => ~c.page.tour
      /\ s.page.live /\ ~hasSquadsSafe(s) /\ TourKey(s) \notin s.store.tour => c.page.tour
  BY TourIsShown
<1> HIDE DEF c
<1>3. hasSquadsSafe(c) = hasSquadsSafe(s) /\ TourKey(c) = TourKey(s)
  BY <1>2 DEF hasSquadsSafe, TourKey, OfPage
<1>4. AfterTwo(c)
  BY <1>2 DEF AfterTwo, AfterOne, FormFilled, Cached, Restored, Looked, OfPage, hasSquadsSafe
<1>5. TourShown(c)
  BY <1>2, <1>3 DEF TourShown, OfPage
<1>6. QED BY <1>1, <1>4, <1>5 DEF Rest

\* At rest the effects change nothing.
LEMMA AtRest ==
    ASSUME NEW s \in BrowserType, Rest(s)
    PROVE  Effects(s) = s
<1>1. AfterTwo(s) /\ TourShown(s)
  BY DEF Rest
<1>2. Effects(s) = ShowTour(s, s)
  BY <1>1, RoundOfTour
<1>3. s.page \in PageType /\ \A p \in PageType : p = s.page => SetPage(s, p) = s
  BY Parts DEF SetPage
<1>4. CASE ~s.page.live \/ hasSquadsSafe(s)
  <2>1. [s.page EXCEPT !.tour = FALSE] = s.page
    BY <1>1, <1>3, <1>4 DEF TourShown, PageType
  <2>2. QED BY <1>2, <1>3, <1>4, <2>1 DEF ShowTour
<1>5. CASE s.page.live /\ ~hasSquadsSafe(s) /\ TourKey(s) \notin s.store.tour
  <2>1. [s.page EXCEPT !.tour = TRUE] = s.page
    BY <1>1, <1>3, <1>5 DEF TourShown, PageType
  <2>2. QED BY <1>2, <1>3, <1>5, <2>1 DEF ShowTour
<1>6. CASE s.page.live /\ ~hasSquadsSafe(s) /\ TourKey(s) \in s.store.tour
  BY <1>2, <1>6 DEF ShowTour
<1>7. QED BY <1>4, <1>5, <1>6

\* The effects come to rest in three rounds, whatever a handler left.
LEMMA Settled ==
    ASSUME NEW s \in BrowserType, Tells(s)
    PROVE  Quiet(s, Settle(s)) /\ Rest(Settle(s))
<1> DEFINE one == Effects(s)
           two == Effects(one)
           c == Effects(two)
<1>1. Settle(s) = c
  BY DEF Settle, Then
<1>2. Quiet(s, one) /\ AfterOne(one)
  BY Round
<1> HIDE DEF one
<1>3. one \in BrowserType /\ Tells(one)
  BY <1>2 DEF Quiet
<1>4. Quiet(one, two) /\ AfterTwo(two)
  BY <1>2, <1>3, Round
<1> HIDE DEF two
<1>5. two \in BrowserType /\ Tells(two)
  BY <1>3, <1>4 DEF Quiet
<1>6. Quiet(two, c) /\ Rest(c)
  BY <1>4, <1>5, Round, ThirdRound
<1> HIDE DEF c
<1>7. Quiet(s, c)
  <2>1. Quiet(s, two)
    BY <1>2, <1>4, QuietTwice
  <2>2. QED BY <1>6, <2>1, QuietTwice
<1>8. QED BY <1>1, <1>6, <1>7

-----------------------------------------------------------------------------
(* What keeps a browser fit.                                               *)

\* A request that belongs to no submission and no prompt.
Plain(c, sv) ==
    /\ c \in CallType /\ CallFiled(c, sv)
    /\ c.kind # "submit" /\ c.by \notin {"form", "recover", "gone", "sign"}
    /\ c.nonce = 0 /\ c.reply = NoReply

\* A fit browser stays fit when it gets records attn_api has and sends plain requests.
LEMMA FitGrows ==
    ASSUME NEW b, NEW sv, NEW k, NEW rf, Fit(b, sv, k, rf),
           NEW c \in BrowserType, SameForm(b, c), Tells(c),
           \A r \in RecordType :
              Has(c, r) => Has(b, r) \/ r.from = "creator" \/ HasRow(sv, r.wallet),
           b.calls \subseteq c.calls,
           \A x \in c.calls \ b.calls : Plain(x, sv)
    PROVE  Fit(c, sv, k, rf)
<1>1. Filed(c, sv)
  BY DEF Fit, Filed, Plain
<1>2. OneAtATime(c)
  BY DEF Fit, OneAtATime, Plain, SameForm, Submits, StageOf
<1>3. PromptOpen(c)
  BY DEF Fit, PromptOpen, Plain, SameForm
<1>4. NeverStale(c, sv, k, rf)
  <2>1. \A x \in c.calls \ b.calls : /\ x.nonce = 0 /\ x.reply.nonce = 0
                                     /\ x.kind # "submit" /\ x.by \notin {"form", "gone"}
    BY DEF Plain, NoReply
  <2>2. \A code : FormCode(c, code) <=> FormCode(b, code)
    BY <2>1 DEF FormCode
  <2>3. NeverStale(b, sv, k, rf)
    BY DEF Fit
  <2>4. ASSUME NEW x \in c.calls
        PROVE  /\ x.nonce <= sv.issued /\ x.reply.nonce <= sv.issued
               /\ x.kind = "submit" => x.key \in 1..k /\ x.nonce # 0
               /\ x.by = "gone" => x.key # c.ui.key /\ x.nonce # c.ui.nonce
               /\ x.reply.nonce # 0 => /\ x.reply.nonce # c.ui.nonce
                                       /\ <<"nonce", x.reply.nonce>> \notin rf
    <3>1. CASE x \in b.calls
      BY <2>3, <3>1 DEF NeverStale, SameForm
    <3>2. CASE x \notin b.calls
      <4>1. sv.issued \in Nat
        BY <2>3 DEF NeverStale
      <4>2. QED BY <2>1, <3>2, <4>1
    <3>3. QED BY <3>1, <3>2
  <2>5. \A x, y \in c.calls :
           x.reply.nonce # 0 => /\ y.nonce # x.reply.nonce
                                /\ y.reply.nonce = x.reply.nonce => y = x
    BY <2>1, <2>3 DEF NeverStale
  <2>6. QED BY <2>2, <2>3, <2>4, <2>5 DEF NeverStale, SameForm
<1>5. QED BY <1>1, <1>2, <1>3, <1>4 DEF Fit

\* A fit browser stays fit in a quiet step.
LEMMA FitQuiet ==
    ASSUME NEW b, NEW sv, NEW k, NEW rf, Fit(b, sv, k, rf), NEW c, Quiet(b, c)
    PROVE  Fit(c, sv, k, rf)
<1>1. \A x \in Prefetches : Plain(x, sv)
  BY CallMade, NothingIsNone DEF Prefetches, Plain, CallFiled, Kinds, Callers
<1>2. QED BY <1>1, FitGrows DEF Quiet, Fit

\* A handled answer to a request that belongs to no submission.
LEMMA FitHandled ==
    ASSUME NEW b, NEW sv, NEW k, NEW rf, Fit(b, sv, k, rf),
           NEW x \in b.calls, ~Submits(x),
           NEW c, c = SetCalls(b, b.calls \ {x})
    PROVE  Fit(c, sv, k, rf)
<1>1. /\ c \in BrowserType /\ c.calls = b.calls \ {x}
      /\ c.ui = b.ui /\ c.page = b.page /\ c.store = b.store
  BY Parts, CallsSet DEF Fit
<1>2. Tells(c) /\ Filed(c, sv)
  BY <1>1 DEF Fit, Tells, Filed, Has
<1>3. OneAtATime(c)
  BY <1>1 DEF Fit, OneAtATime
<1>4. PromptOpen(c)
  BY <1>1 DEF Fit, PromptOpen
<1>5. \A code : FormCode(c, code) <=> FormCode(b, code)
  BY <1>1 DEF FormCode, Submits
<1>6. NeverStale(c, sv, k, rf)
  BY <1>1, <1>5 DEF Fit, NeverStale
<1>7. QED BY <1>1, <1>2, <1>3, <1>4, <1>6 DEF Fit

\* attn_api keeps its rows and never takes a nonce back.
Grows(sv, sw) ==
    /\ \A w \in Wallets : sv.row[w] # None => sw.row[w] # None
    /\ sv.issued \in Nat /\ sw.issued \in Nat /\ sv.issued <= sw.issued

\* A fit browser stays fit when attn_api gets rows and issues nonces.
LEMMA FitServed ==
    ASSUME NEW b, NEW sv, NEW k, NEW rf, Fit(b, sv, k, rf), NEW sw, Grows(sv, sw)
    PROVE  Fit(b, sw, k, rf)
<1>1. Filed(b, sw)
  BY DEF Fit, Filed, Grows, HasRow, CallFiled
<1>2. b.ui \in UiType /\ b.calls \subseteq CallType
  BY Parts DEF Fit
<1>3. /\ b.ui.nonce \in Nat
      /\ \A c \in b.calls : c.nonce \in Nat /\ c.reply.nonce \in Nat
  BY <1>2, OnboardingAssumption DEF UiType, CallType
<1>4. Refusable(sv, k) \subseteq Refusable(sw, k)
  BY DEF Refusable, Grows
<1>5. NeverStale(b, sw, k, rf)
  BY <1>3, <1>4 DEF Fit, NeverStale, Grows
<1>6. QED BY <1>1, <1>5 DEF Fit

-----------------------------------------------------------------------------
(* The steps.                                                              *)

\* What a step sends that is new, as RefusedNeverResent has it.
Resends ==
    \E c \in calls' \ calls :
       /\ c.kind = "submit" /\ c.reply = NoReply /\ c.by = "form"
       /\ <<"key", c.key>> \in refused \/ <<"nonce", c.nonce>> \in refused

\* The invariant by its parts.
LEMMA PanelParts ==
    ASSUME PanelInv
    PROVE  /\ Browser \in BrowserType /\ Tells(Browser)
           /\ Browser.ui = ui /\ Browser.page = page /\ Browser.store = store
           /\ Browser.calls = calls
           /\ ui \in UiType /\ page \in PageType /\ store \in StoreType
           /\ calls \subseteq CallType
           /\ server \in ServerType /\ spent \in SpentType
           /\ spent.keys \in 0..MaxKeys + 1 /\ server.issued \in Nat
<1>1. Browser \in BrowserType /\ Tells(Browser) /\ NeverStale(Browser, server, spent.keys, refused)
  BY DEF PanelInv, Fit
<1>2. /\ Browser.ui = ui /\ Browser.page = page /\ Browser.store = store
      /\ Browser.calls = calls
  BY DEF Browser
<1>3. QED BY <1>1, <1>2, Parts DEF PanelInv, NeverStale

\* Become leaves a browser that has come to rest.
LEMMA Settles ==
    ASSUME NEW b \in BrowserType, Tells(b), Become(b)
    PROVE  Quiet(b, Browser') /\ Rest(Browser')
<1> DEFINE c == Settle(b)
<1>1. Quiet(b, c) /\ Rest(c)
  BY Settled
<1>2. ui' = c.ui /\ page' = c.page /\ store' = c.store /\ calls' = c.calls
  BY DEF Become, Then
<1> HIDE DEF c
<1>3. c \in BrowserType
  BY <1>1 DEF Quiet
<1>4. Browser' = c
  BY <1>2, <1>3, Parts DEF Browser
<1>5. QED BY <1>1, <1>4

\* The effects keep what a handler or an answer leaves fit.
LEMMA BecomeKeeps ==
    ASSUME NEW b, Become(b), Fit(b, server', spent'.keys, refused'),
           server' \in ServerType, RowsNamed(server'), spent' \in SpentType,
           \A c \in b.calls \ calls : c.kind = "submit" => c.by # "form"
    PROVE  PanelInv' /\ ~Resends
<1>1. b \in BrowserType /\ Tells(b)
  BY DEF Fit
<1>2. Quiet(b, Browser') /\ Rest(Browser')
  BY <1>1, Settles
<1>3. Fit(Browser', server', spent'.keys, refused')
  BY <1>2, FitQuiet
<1>4. \A c \in Prefetches : c.kind # "submit"
  BY DEF Prefetches, Call
<1>5. calls' \subseteq b.calls \cup Prefetches
  <2>1. Browser'.calls = calls'
    BY DEF Browser
  <2>2. QED BY <1>2, <2>1 DEF Quiet
<1>6. QED BY <1>2, <1>3, <1>4, <1>5 DEF PanelInv, Resends

\* The same, of a step that leaves attn_api alone.
LEMMA HandlerKeeps ==
    ASSUME PanelInv, NEW b, Become(b), UNCHANGED <<server, refused>>,
           Fit(b, server, spent'.keys, refused), spent' \in SpentType,
           \A c \in b.calls \ calls : c.kind = "submit" => c.by # "form"
    PROVE  PanelInv' /\ ~Resends
<1>1. server' \in ServerType /\ RowsNamed(server')
  BY DEF PanelInv
<1>2. Fit(b, server', spent'.keys, refused')
  OBVIOUS
<1>3. QED BY <1>1, <1>2, BecomeKeeps

\* What an act or a move leaves of its bounds.
LEMMA Spends ==
    ASSUME spent \in SpentType, NEW what \in {"acts", "moves"}, NEW k \in Nat, Spend(what, k)
    PROVE  /\ spent' \in SpentType /\ spent'.keys = spent.keys + k
           /\ spent.keys + k <= MaxKeys
<1>1. /\ spent.acts \in Nat /\ spent.moves \in Nat /\ spent.keys \in Nat
      /\ spent.faults \in Nat
      /\ spent = [keys |-> spent.keys, acts |-> spent.acts, moves |-> spent.moves,
                   faults |-> spent.faults]
  BY DEF SpentType
<1>2. CASE what = "acts"
  <2>1. spent.acts > 0
    BY <1>2 DEF Spend
  <2>2. spent' = [keys |-> spent.keys + k, acts |-> spent.acts - 1, moves |-> spent.moves,
                  faults |-> spent.faults]
    BY <1>1, <1>2 DEF Spend
  <2>3. spent.acts - 1 \in Nat /\ spent.keys + k \in Nat
    BY <1>1, <2>1
  <2>4. spent' \in SpentType
    BY <1>1, <2>2, <2>3 DEF SpentType
  <2>5. spent'.keys = spent.keys + k
    BY <2>2
  <2>6. QED BY <2>4, <2>5 DEF Spend
<1>3. CASE what = "moves"
  <2>1. spent.moves > 0
    BY <1>3 DEF Spend
  <2>2. spent' = [keys |-> spent.keys + k, acts |-> spent.acts, moves |-> spent.moves - 1,
                  faults |-> spent.faults]
    BY <1>1, <1>3 DEF Spend
  <2>3. spent.moves - 1 \in Nat /\ spent.keys + k \in Nat
    BY <1>1, <2>1
  <2>4. spent' \in SpentType
    BY <1>1, <2>2, <2>3 DEF SpentType
  <2>5. spent'.keys = spent.keys + k
    BY <2>2
  <2>6. QED BY <2>4, <2>5 DEF Spend
<1>4. QED BY <1>2, <1>3

\* A handler that touches neither the submission nor the records asks for nothing but
\* what is plain.
LEMMA PlainHandler ==
    ASSUME PanelInv, NEW what \in {"acts", "moves"}, NEW b \in BrowserType, Handle(what, b),
           SameForm(Browser, b), Tells(b),
           b.ui.result = ui.result, b.store.safes = store.safes,
           calls \subseteq b.calls,
           \A x \in b.calls \ calls : Plain(x, server)
    PROVE  PanelInv' /\ ~Resends
<1>1. Spend(what, 0) /\ Become(b) /\ UNCHANGED <<server, refused>>
  BY DEF Handle
<1>2. spent' \in SpentType /\ spent'.keys = spent.keys
  <2>1. spent \in SpentType /\ spent.keys \in Nat
    BY PanelParts DEF SpentType
  <2>2. QED BY <1>1, <2>1, Spends
<1>3. Browser.calls = calls /\ Browser.ui = ui /\ Browser.store = store
  BY DEF Browser
<1>4. \A r \in RecordType : Has(b, r) => Has(Browser, r)
  <2>1. \A x \in b.calls \ calls : x.reply.row = None
    BY DEF Plain, NoReply
  <2>2. QED BY <1>3, <2>1, NothingIsNone DEF Has
<1>5. Fit(b, server, spent'.keys, refused)
  <2>1. Fit(Browser, server, spent.keys, refused)
    BY DEF PanelInv
  <2>2. QED BY <1>2, <1>3, <1>4, <2>1, FitGrows
<1>6. \A c \in b.calls \ calls : c.kind # "submit"
  BY DEF Plain
<1>7. QED BY <1>1, <1>2, <1>5, <1>6, HandlerKeeps

\* The form with other fields: its submission and its record are the same, and a notice is
\* kept or gone.
LEMMA FormSet ==
    ASSUME PanelInv, NEW u \in UiType,
           u.key = ui.key, u.nonce = ui.nonce, u.submitting = ui.submitting,
           u.signing = ui.signing, u.result = ui.result, u.detected = ui.detected,
           u.notice \in {ui.notice, None}
    PROVE  LET b == SetUi(Browser, u)
           IN  /\ b \in BrowserType /\ SameForm(Browser, b) /\ Tells(b)
               /\ b.ui = u /\ b.page = page /\ b.store = store /\ b.calls = calls
<1> DEFINE b == SetUi(Browser, u)
<1>1. /\ b \in BrowserType /\ b.ui = u /\ b.page = page /\ b.store = store
      /\ b.calls = calls
  BY PanelParts, UiSet
<1> HIDE DEF b
<1>2. Tells(Browser) /\ Browser.ui = ui /\ Browser.page = page
  BY PanelParts
<1>3. SameForm(Browser, b) /\ Tells(b)
  BY <1>1, <1>2 DEF SameForm, Tells
<1>4. QED BY <1>1, <1>3 DEF b

\* handleCreatorWalletChange keeps the invariant.
LEMMA WalletTyped ==
    ASSUME PanelInv, NEW w \in Wallets \cup {None}, handleCreatorWalletChange(w)
    PROVE  PanelInv' /\ ~Resends
<1> DEFINE edited == w # page.wallet
           u == [ui EXCEPT !.wallet = w, !.edited = edited]
           a == SetUi(Browser, u)
           c == fetchExistingSafe(a, w, "typed", ui.pstate, ui.pkey)
           b == IF w = None THEN a ELSE c
<1>1. Handle("acts", b)
  BY DEF handleCreatorWalletChange
<1>2. ui \in UiType /\ edited \in BOOLEAN
  BY PanelParts
<1> HIDE DEF edited
<1>3. u \in UiType
  BY <1>2 DEF UiType
<1>4. /\ u.key = ui.key /\ u.nonce = ui.nonce /\ u.submitting = ui.submitting
      /\ u.signing = ui.signing /\ u.result = ui.result /\ u.detected = ui.detected
      /\ u.notice = ui.notice
  BY <1>2 DEF UiType
<1> HIDE DEF u
<1>5. /\ a \in BrowserType /\ SameForm(Browser, a) /\ Tells(a)
      /\ a.ui = u /\ a.page = page /\ a.store = store /\ a.calls = calls
  BY <1>3, <1>4, FormSet
<1> HIDE DEF a
<1>6. CASE w = None
  BY <1>1, <1>4, <1>5, <1>6, PlainHandler
<1>7. CASE w # None
  <2> DEFINE pstate == ui.pstate
             pkey == ui.pkey
             call == Call("lookup", w, "typed")
             v == LookedAt(a.ui, w, "loading", w)
  <2>1. w \in Wallets /\ c = fetchExistingSafe(a, w, "typed", pstate, pkey)
    BY <1>7
  <2> HIDE DEF pstate, pkey, c
  <2>2. /\ c \in BrowserType /\ c.ui = v /\ c.page = a.page /\ c.store = a.store
        /\ c.calls = a.calls \cup {call}
    BY <1>5, <2>1, Fetched
  <2>3. /\ v.result = u.result /\ v.notice = u.notice /\ v.detected = u.detected
        /\ v.key = u.key /\ v.nonce = u.nonce /\ v.submitting = u.submitting
        /\ v.signing = u.signing
    BY <1>3, <1>5, <2>1, Looking
  <2>4. Plain(call, server)
    BY <2>1, CallMade DEF Plain, CallFiled, Kinds, Callers
  <2> HIDE DEF v, call
  <2>5. SameForm(Browser, c) /\ Tells(c)
    BY <1>5, <2>2, <2>3 DEF SameForm, Tells
  <2>6. QED BY <1>1, <1>4, <1>5, <1>7, <2>2, <2>3, <2>4, <2>5, PlainHandler
<1>8. QED BY <1>6, <1>7

\* Asking for something plain with another field of the form set.
LEMMA PlainAsk ==
    ASSUME PanelInv, NEW what \in {"acts", "moves"}, NEW u \in UiType, NEW call,
           u.key = ui.key, u.nonce = ui.nonce, u.submitting = ui.submitting,
           u.signing = ui.signing, u.result = ui.result, u.detected = ui.detected,
           u.notice \in {ui.notice, None},
           Plain(call, server), Handle(what, Ask(SetUi(Browser, u), call))
    PROVE  PanelInv' /\ ~Resends
<1> DEFINE a == SetUi(Browser, u)
           b == Ask(a, call)
<1>1. /\ a \in BrowserType /\ SameForm(Browser, a) /\ Tells(a)
      /\ a.ui = u /\ a.page = page /\ a.store = store /\ a.calls = calls
  BY FormSet
<1>2. Handle(what, b)
  OBVIOUS
<1> HIDE DEF a
<1>3. /\ b \in BrowserType /\ b.calls = a.calls \cup {call}
      /\ b.ui = a.ui /\ b.page = a.page /\ b.store = a.store
  BY <1>1, Asked DEF Plain
<1> HIDE DEF b
<1>4. SameForm(Browser, b) /\ Tells(b)
  BY <1>1, <1>3 DEF SameForm, Tells
<1>5. QED BY <1>1, <1>2, <1>3, <1>4, PlainHandler

\* handleRequestNonce keeps the invariant.
LEMMA NonceRequested ==
    ASSUME PanelInv, handleRequestNonce
    PROVE  PanelInv' /\ ~Resends
<1> DEFINE u == [ui EXCEPT !.askingNonce = TRUE]
           call == Call("nonce", ui.wallet, "button")
<1>1. Handle("acts", Ask(SetUi(Browser, u), call)) /\ ui.wallet # None
  BY DEF handleRequestNonce, issueNonce, Browser
<1>2. ui \in UiType
  BY PanelParts
<1>3. u \in UiType
  BY <1>2 DEF UiType
<1>4. /\ u.key = ui.key /\ u.nonce = ui.nonce /\ u.submitting = ui.submitting
      /\ u.signing = ui.signing /\ u.result = ui.result /\ u.detected = ui.detected
      /\ u.notice = ui.notice
  BY <1>2 DEF UiType
<1>5. ui.wallet \in Wallets
  BY <1>1, <1>2 DEF UiType
<1>6. Plain(call, server)
  BY <1>5, CallMade DEF Plain, CallFiled, Kinds, Callers
<1> HIDE DEF u, call
<1>7. QED BY <1>1, <1>3, <1>4, <1>6, PlainAsk

\* A record of attn_api that is shown has a row there.
LEMMA ResultHasRow ==
    ASSUME PanelInv, ui.result # None
    PROVE  /\ ui.result \in RecordType /\ ui.result.wallet \in Wallets
           /\ ui.result.from # "creator" => HasRow(server, ui.result.wallet)
<1>1. ui.result \in RecordType /\ Browser.ui = ui
  BY PanelParts DEF UiType
<1>2. Filed(Browser, server)
  BY DEF PanelInv, Fit
<1>3. QED BY <1>1, <1>2 DEF Filed, Has, RecordType

\* What is asked about the record on show is a plain request.
LEMMA AboutIt ==
    ASSUME PanelInv, ui.result # None, NEW kind \in {"refresh", "link"}
    PROVE  Plain(AboutResult(kind), server)
<1> DEFINE a == Call(kind, ui.result.wallet, "panel")
           c == AboutResult(kind)
<1>1. /\ ui.result.wallet \in Wallets /\ ui.result.from \in {"api", "creator"}
      /\ ui.result.from # "creator" => HasRow(server, ui.result.wallet)
  BY ResultHasRow DEF RecordType
<1>2. /\ a \in CallType
      /\ a.kind = kind /\ a.wallet = ui.result.wallet /\ a.by = "panel"
      /\ a.key = 0 /\ a.nonce = 0 /\ a.reply = NoReply
  BY <1>1, CallMade DEF Kinds, Callers
<1>3. c = [a EXCEPT !.from = ui.result.from]
  BY DEF AboutResult
<1> HIDE DEF a, c
<1>4. /\ c \in CallType
      /\ c.kind = kind /\ c.wallet = ui.result.wallet /\ c.by = "panel"
      /\ c.from = ui.result.from /\ c.nonce = 0 /\ c.reply = NoReply
  BY <1>1, <1>2, <1>3 DEF CallType
<1>5. QED BY <1>1, <1>4 DEF Plain, CallFiled, NoReply, c

\* handleRefreshStatus keeps the invariant.
LEMMA StatusRefreshed ==
    ASSUME PanelInv, handleRefreshStatus
    PROVE  PanelInv' /\ ~Resends
<1> DEFINE u == [ui EXCEPT !.polling = TRUE]
           call == AboutResult("refresh")
<1>1. Handle("moves", Ask(SetUi(Browser, u), call)) /\ ui.result # None
  BY DEF handleRefreshStatus, RecordShown
<1>2. ui \in UiType
  BY PanelParts
<1>3. u \in UiType
  BY <1>2 DEF UiType
<1>4. /\ u.key = ui.key /\ u.nonce = ui.nonce /\ u.submitting = ui.submitting
      /\ u.signing = ui.signing /\ u.result = ui.result /\ u.detected = ui.detected
      /\ u.notice = ui.notice
  BY <1>2 DEF UiType
<1>5. Plain(call, server)
  BY <1>1, AboutIt
<1> HIDE DEF u, call
<1>6. QED BY <1>1, <1>3, <1>4, <1>5, PlainAsk

\* handleLinkGovernance keeps the invariant.
LEMMA GovernanceLinked ==
    ASSUME PanelInv, handleLinkGovernance
    PROVE  PanelInv' /\ ~Resends
<1> DEFINE u == [ui EXCEPT !.linking = TRUE]
           call == AboutResult("link")
<1>1. Handle("moves", Ask(SetUi(Browser, u), call)) /\ ui.result # None
  BY DEF handleLinkGovernance, GovernanceShown, RecordShown
<1>2. ui \in UiType
  BY PanelParts
<1>3. u \in UiType
  BY <1>2 DEF UiType
<1>4. /\ u.key = ui.key /\ u.nonce = ui.nonce /\ u.submitting = ui.submitting
      /\ u.signing = ui.signing /\ u.result = ui.result /\ u.detected = ui.detected
      /\ u.notice = ui.notice
  BY <1>2 DEF UiType
<1>5. Plain(call, server)
  BY <1>1, AboutIt
<1> HIDE DEF u, call
<1>6. QED BY <1>1, <1>3, <1>4, <1>5, PlainAsk

\* The admin's calls are about rows that attn_api has listed.
LEMMA AdminAsks ==
    ASSUME PanelInv, NEW what \in {"fetch", "resubmit", "override"}, NEW call,
           Plain(call, server), Handle("moves", AskAdmin(what, call))
    PROVE  PanelInv' /\ ~Resends
<1> DEFINE u == [ui EXCEPT !.admin = what]
<1>1. Handle("moves", Ask(SetUi(Browser, u), call))
  BY DEF AskAdmin
<1>2. ui \in UiType
  BY PanelParts
<1>3. u \in UiType
  BY <1>2 DEF UiType
<1>4. /\ u.key = ui.key /\ u.nonce = ui.nonce /\ u.submitting = ui.submitting
      /\ u.signing = ui.signing /\ u.result = ui.result /\ u.detected = ui.detected
      /\ u.notice = ui.notice
  BY <1>2 DEF UiType
<1> HIDE DEF u
<1>5. QED BY <1>1, <1>3, <1>4, PlainAsk

\* handleAdminFetch keeps the invariant.
LEMMA AdminFetches ==
    ASSUME PanelInv, handleAdminFetch
    PROVE  PanelInv' /\ ~Resends
<1> DEFINE call == Call("list", None, "admin")
<1>1. Handle("moves", AskAdmin("fetch", call))
  BY DEF handleAdminFetch
<1>2. Plain(call, server)
  BY CallMade DEF Plain, CallFiled, Kinds, Callers
<1> HIDE DEF call
<1>3. QED BY <1>1, <1>2, AdminAsks

\* handleAdminResubmit keeps the invariant.
LEMMA AdminResubmits ==
    ASSUME PanelInv, NEW w \in Wallets, handleAdminResubmit(w)
    PROVE  PanelInv' /\ ~Resends
<1> DEFINE call == Call("resubmit", w, "admin")
<1>1. Handle("moves", AskAdmin("resubmit", call)) /\ HasRow(server, w)
  BY DEF handleAdminResubmit, HasRow
<1>2. Plain(call, server)
  BY <1>1, CallMade DEF Plain, CallFiled, Kinds, Callers
<1> HIDE DEF call
<1>3. QED BY <1>1, <1>2, AdminAsks

\* handleAdminOverride keeps the invariant.
LEMMA AdminOverrides ==
    ASSUME PanelInv, NEW w \in Wallets, NEW status \in Statuses, handleAdminOverride(w, status)
    PROVE  PanelInv' /\ ~Resends
<1> DEFINE a == Call("override", w, "admin")
           call == [a EXCEPT !.from = status]
<1>1. Handle("moves", AskAdmin("override", call)) /\ HasRow(server, w)
  BY DEF handleAdminOverride, HasRow
<1>2. /\ a \in CallType
      /\ a.kind = "override" /\ a.wallet = w /\ a.by = "admin"
      /\ a.nonce = 0 /\ a.reply = NoReply
  BY CallMade DEF Kinds, Callers
<1> HIDE DEF a
<1>3. /\ call \in CallType
      /\ call.kind = "override" /\ call.wallet = w /\ call.by = "admin"
      /\ call.from = status /\ call.nonce = 0 /\ call.reply = NoReply
  BY <1>2 DEF CallType
<1> HIDE DEF call
<1>4. Plain(call, server)
  BY <1>1, <1>3 DEF Plain, CallFiled, NoReply
<1>5. QED BY <1>1, <1>4, AdminAsks

\* handleSubmit of an incomplete form keeps the invariant.
LEMMA SubmissionIncomplete ==
    ASSUME PanelInv, handleSubmitIncomplete
    PROVE  PanelInv' /\ ~Resends
<1> DEFINE u == [ui EXCEPT !.notice = None]
           b == SetUi(Browser, u)
<1>1. Handle("acts", b)
  BY DEF handleSubmitIncomplete
<1>2. ui \in UiType
  BY PanelParts
<1>3. u \in UiType
  BY <1>2 DEF UiType
<1>4. /\ u.key = ui.key /\ u.nonce = ui.nonce /\ u.submitting = ui.submitting
      /\ u.signing = ui.signing /\ u.result = ui.result /\ u.detected = ui.detected
      /\ u.notice = None
  BY <1>2 DEF UiType
<1> HIDE DEF u
<1>5. /\ b \in BrowserType /\ SameForm(Browser, b) /\ Tells(b)
      /\ b.ui = u /\ b.store = store /\ b.calls = calls
  BY <1>3, <1>4, FormSet
<1> HIDE DEF b
<1>6. QED BY <1>1, <1>4, <1>5, PlainHandler

\* A signature that is pasted or removed keeps the invariant.
LEMMA SignatureEdited ==
    ASSUME PanelInv, NEW signed \in BOOLEAN, EditSignature(signed)
    PROVE  PanelInv' /\ ~Resends
<1> DEFINE g == IF signed THEN [wallet |-> ui.wallet, nonce |-> ui.nonce] ELSE None
           u == [ui EXCEPT !.signature = g]
           b == SetUi(Browser, u)
<1>1. Handle("acts", b)
  BY DEF EditSignature
<1>2. ui \in UiType
  BY PanelParts
<1>3. g \in SignedType \cup {None}
  BY <1>2 DEF EditSignature, SignedType, UiType
<1> HIDE DEF g
<1>4. u \in UiType
  BY <1>2, <1>3 DEF UiType
<1>5. /\ u.key = ui.key /\ u.nonce = ui.nonce /\ u.submitting = ui.submitting
      /\ u.signing = ui.signing /\ u.result = ui.result /\ u.detected = ui.detected
      /\ u.notice = ui.notice
  BY <1>2 DEF UiType
<1> HIDE DEF u
<1>6. /\ b \in BrowserType /\ SameForm(Browser, b) /\ Tells(b)
      /\ b.ui = u /\ b.store = store /\ b.calls = calls
  BY <1>4, <1>5, FormSet
<1> HIDE DEF b
<1>7. QED BY <1>1, <1>5, <1>6, PlainHandler

\* The form with no other call: its record and submission are the same.
LEMMA AsideKeeps ==
    ASSUME PanelInv, NEW b \in BrowserType, Become(b), UNCHANGED <<server, refused>>,
           spent' \in SpentType, spent'.keys = spent.keys,
           SameForm(Browser, b), Tells(b), b.calls = calls,
           b.ui.result = ui.result, b.store.safes = store.safes
    PROVE  PanelInv' /\ ~Resends
<1>1. Browser.calls = calls /\ Browser.ui = ui /\ Browser.store = store
  BY DEF Browser
<1>2. \A r \in RecordType : Has(b, r) => Has(Browser, r)
  BY <1>1 DEF Has
<1>3. Fit(b, server, spent'.keys, refused)
  <2>1. Fit(Browser, server, spent.keys, refused)
    BY DEF PanelInv
  <2>2. QED BY <1>1, <1>2, <2>1, FitGrows
<1>4. QED BY <1>3, HandlerKeeps

\* The end of the cooldown keeps the invariant.
LEMMA CooledDown ==
    ASSUME PanelInv, CooldownOver
    PROVE  PanelInv' /\ ~Resends
<1> DEFINE u == [ui EXCEPT !.cooling = FALSE]
           b == SetUi(Browser, u)
<1>1. Become(b) /\ UNCHANGED <<server, spent, refused>>
  BY DEF CooldownOver
<1>2. ui \in UiType /\ spent \in SpentType
  BY PanelParts
<1>3. u \in UiType
  BY <1>2 DEF UiType
<1>4. /\ u.key = ui.key /\ u.nonce = ui.nonce /\ u.submitting = ui.submitting
      /\ u.signing = ui.signing /\ u.result = ui.result /\ u.detected = ui.detected
      /\ u.notice = ui.notice
  BY <1>2 DEF UiType
<1> HIDE DEF u
<1>5. /\ b \in BrowserType /\ SameForm(Browser, b) /\ Tells(b)
      /\ b.ui = u /\ b.store = store /\ b.calls = calls
  BY <1>3, <1>4, FormSet
<1> HIDE DEF b
<1>6. spent' \in SpentType /\ spent'.keys = spent.keys /\ UNCHANGED <<server, refused>>
  BY <1>1, <1>2
<1>7. QED BY <1>1, <1>4, <1>5, <1>6, AsideKeeps

\* A move spends nothing but itself.
LEMMA Moved ==
    ASSUME PanelInv, NEW what \in {"acts", "moves"}, Spend(what, 0)
    PROVE  spent' \in SpentType /\ spent'.keys = spent.keys
<1>1. spent \in SpentType /\ spent.keys \in Nat
  BY PanelParts DEF SpentType
<1>2. QED BY <1>1, Spends

\* The wallet adapter's moves keep the invariant.
LEMMA WalletConnected ==
    ASSUME PanelInv, NEW w \in Wallets \cup {None}, ConnectWallet(w)
    PROVE  PanelInv' /\ ~Resends
<1> DEFINE p == [page EXCEPT !.wallet = w]
           b == SetPage(Browser, p)
<1>1. Become(b) /\ UNCHANGED <<server, refused>> /\ Spend("moves", 0)
  BY DEF ConnectWallet
<1>2. page \in PageType /\ Browser \in BrowserType /\ Tells(Browser)
      /\ Browser.ui = ui /\ Browser.page = page /\ Browser.store = store
      /\ Browser.calls = calls
  BY PanelParts
<1>3. p \in PageType /\ p.safeDetected = page.safeDetected
  BY <1>2 DEF PageType
<1> HIDE DEF p
<1>4. b \in BrowserType /\ b.ui = ui /\ b.page = p /\ b.store = store /\ b.calls = calls
  BY <1>2, <1>3, PageSet
<1> HIDE DEF b
<1>5. SameForm(Browser, b) /\ Tells(b)
  BY <1>2, <1>3, <1>4 DEF SameForm, Tells
<1>6. QED BY <1>1, <1>4, <1>5, Moved, AsideKeeps

\* handleDismissLiveTour keeps the invariant.
LEMMA TourDismissed ==
    ASSUME PanelInv, DismissTour
    PROVE  PanelInv' /\ ~Resends
<1> DEFINE p == [page EXCEPT !.tour = FALSE]
           t == TourDone(store, TourKey(Browser))
           b == SetStore(SetPage(Browser, p), t)
<1>1. Become(b) /\ UNCHANGED <<server, refused>> /\ Spend("moves", 0)
  BY DEF DismissTour
<1>2. page \in PageType /\ store \in StoreType /\ Browser \in BrowserType /\ Tells(Browser)
      /\ Browser.ui = ui /\ Browser.page = page /\ Browser.store = store
      /\ Browser.calls = calls
  BY PanelParts
<1>3. p \in PageType /\ p.safeDetected = page.safeDetected
  BY <1>2 DEF PageType
<1>4. t \in StoreType /\ t.safes = store.safes
  <2>1. TourKey(Browser) \in Wallets \cup {None}
    BY <1>2 DEF TourKey, PageType
  <2>2. QED BY <1>2, <2>1, TourDoneInStore
<1> HIDE DEF p, t
<1>5. b \in BrowserType /\ b.ui = ui /\ b.page = p /\ b.store = t /\ b.calls = calls
  <2> DEFINE a == SetPage(Browser, p)
  <2>1. a \in BrowserType /\ a.ui = ui /\ a.page = p /\ a.store = store /\ a.calls = calls
    BY <1>2, <1>3, PageSet
  <2> HIDE DEF a
  <2>2. QED BY <1>4, <2>1, StoreSet DEF a
<1> HIDE DEF b
<1>6. SameForm(Browser, b) /\ Tells(b)
  BY <1>2, <1>3, <1>5 DEF SameForm, Tells
<1>7. QED BY <1>1, <1>4, <1>5, <1>6, Moved, AsideKeeps

\* A stored record that is too old is missed by nothing: what the effects found at rest
\* they find still.
LEMMA CacheExpired ==
    ASSUME PanelInv, NEW w \in Wallets, CacheExpires(w)
    PROVE  PanelInv' /\ ~Resends
<1> DEFINE b == Browser'
<1>1. /\ Spend("moves", 0) /\ store' = Forget(store, w)
      /\ UNCHANGED <<ui, page, calls, server, refused>>
  BY DEF CacheExpires
<1>2. /\ Browser \in BrowserType /\ Tells(Browser) /\ ui \in UiType /\ page \in PageType
      /\ store \in StoreType /\ calls \subseteq CallType
      /\ Browser.ui = ui /\ Browser.page = page /\ Browser.store = store
      /\ Browser.calls = calls
  BY PanelParts
<1>3. /\ store' \in StoreType /\ store'.safes = [store.safes EXCEPT ![w] = None]
      /\ store'.tour = store.tour /\ store'.legacyTour = store.legacyTour
  BY <1>1, <1>2, ForgottenInStore
<1>4. /\ b \in BrowserType /\ b.ui = ui /\ b.page = page /\ b.store = store'
      /\ b.calls = calls
  BY <1>1, <1>2, <1>3 DEF Browser, BrowserType
<1>5. store.safes \in [Wallets -> RecordType \cup {None}]
  BY <1>2 DEF StoreType
<1> HIDE DEF b
<1>6. \A v \in Wallets : b.store.safes[v] \in {store.safes[v], None}
  BY <1>3, <1>4, <1>5
<1>7. \A r \in RecordType : Has(b, r) => Has(Browser, r)
  BY <1>2, <1>4, <1>6, NothingIsNone DEF Has
<1>8. SameForm(Browser, b) /\ Tells(b)
  BY <1>2, <1>4 DEF SameForm, Tells
<1>9. Fit(b, server, spent.keys, refused)
  <2>1. Fit(Browser, server, spent.keys, refused)
    BY DEF PanelInv
  <2>2. QED BY <1>2, <1>4, <1>7, <1>8, <2>1, FitGrows
<1>10. Rest(b)
  <2>1. Rest(Browser)
    BY DEF PanelInv
  <2>2. Cached(b) => Cached(Browser)
    BY <1>2, <1>6 DEF Cached
  <2>3. b.ui.wallet # None => b.ui.wallet \in Wallets
    BY <1>2, <1>4 DEF UiType
  <2>4. AfterOne(b)
    BY <1>2, <1>3, <1>4, <2>1, <2>2 DEF Rest, AfterTwo, AfterOne, FormFilled
  <2>5. AfterTwo(b)
    BY <1>2, <1>4, <1>6, <2>1, <2>3, <2>4 DEF Rest, AfterTwo, Restored, Looked
  <2>6. TourShown(b)
    BY <1>2, <1>3, <1>4, <2>1 DEF Rest, TourShown, hasSquadsSafe, TourKey
  <2>7. QED BY <2>5, <2>6 DEF Rest
<1>11. server' = server /\ refused' = refused /\ calls' = calls
       /\ spent' \in SpentType /\ spent'.keys = spent.keys
  BY <1>1, Moved
<1>12. QED BY <1>9, <1>10, <1>11 DEF PanelInv, Resends, b

-----------------------------------------------------------------------------
(* The submission.                                                         *)

\* A key made anew was never refused, and no call carries it.
LEMMA KeyRenewed ==
    ASSUME PanelInv, NEW b \in BrowserType, Tells(b), b.calls = calls,
           \A r \in RecordType : Has(b, r) => Has(Browser, r),
           b.ui.key = spent.keys + 1, b.ui.nonce \in {ui.nonce, 0},
           b.ui.submitting = ui.submitting, b.ui.signing = ui.signing,
           spent.keys + 1 <= MaxKeys
    PROVE  Fit(b, server, spent.keys + 1, refused)
<1> DEFINE k == spent.keys
<1>1. /\ Browser.ui = ui /\ Browser.calls = calls /\ ui \in UiType
      /\ k \in 0..MaxKeys + 1 /\ server.issued \in Nat /\ MaxKeys \in Nat
  BY PanelParts, OnboardingAssumption
<1>2. /\ Filed(Browser, server) /\ OneAtATime(Browser) /\ PromptOpen(Browser)
      /\ NeverStale(Browser, server, k, refused)
  BY DEF PanelInv, Fit
<1> HIDE DEF k
<1>3. Filed(b, server)
  BY <1>1, <1>2 DEF Filed
<1>4. OneAtATime(b)
  BY <1>1, <1>2 DEF OneAtATime
<1>5. PromptOpen(b)
  BY <1>1, <1>2 DEF PromptOpen
<1>6. refused \subseteq Refusable(server, k) /\ Refusable(server, k) \subseteq Refusable(server, k + 1)
  BY <1>1, <1>2 DEF NeverStale, Refusable
<1>7. <<"key", k + 1>> \notin refused /\ <<"nonce", 0>> \notin refused
  BY <1>1, <1>6 DEF Refusable
<1>8. NeverStale(b, server, k + 1, refused)
  <2>1. k + 1 \in 0..MaxKeys + 1 /\ k + 1 <= MaxKeys
    BY <1>1 DEF k
  <2>2. \A code : FormCode(b, code) <=> FormCode(Browser, code)
    BY <1>1 DEF FormCode
  <2>3. ASSUME NEW c \in calls
        PROVE  /\ c.nonce <= server.issued /\ c.reply.nonce <= server.issued
               /\ c.kind = "submit" => c.key \in 1..(k + 1) /\ c.nonce # 0
               /\ c.by = "gone" => c.key # b.ui.key /\ c.nonce # b.ui.nonce
               /\ c.reply.nonce # 0 => /\ c.reply.nonce # b.ui.nonce
                                       /\ <<"nonce", c.reply.nonce>> \notin refused
    <3>1. c.kind = "submit" => c.key \in 1..k /\ c.nonce # 0
      BY <1>1, <1>2 DEF NeverStale
    <3>2. c.by = "gone" => c.kind = "submit"
      BY <1>1, <1>2 DEF OneAtATime
    <3>3. b.ui.key = k + 1
      BY DEF k
    <3>4. \A x \in 1..k : x # k + 1 /\ x \in 1..(k + 1)
      BY <1>1
    <3>5. /\ c.nonce <= server.issued /\ c.reply.nonce <= server.issued
          /\ c.by = "gone" => c.nonce # ui.nonce
          /\ c.reply.nonce # 0 => /\ c.reply.nonce # ui.nonce
                                  /\ <<"nonce", c.reply.nonce>> \notin refused
      BY <1>1, <1>2 DEF NeverStale
    <3>6. QED BY <3>1, <3>2, <3>3, <3>4, <3>5
  <2>4. ui.nonce <= server.issued /\ b.ui.nonce <= server.issued
    BY <1>1, <1>2 DEF NeverStale
  <2>5. \A c, d \in calls :
           c.reply.nonce # 0 => /\ d.nonce # c.reply.nonce
                                /\ d.reply.nonce = c.reply.nonce => d = c
    BY <1>1, <1>2 DEF NeverStale
  <2>6. <<"nonce", ui.nonce>> \in refused
          => FormCode(Browser, "nonce_invalid") \/ ui.submitting = "lookup"
    BY <1>1, <1>2 DEF NeverStale
  <2>7. b.ui.key <= k + 1
    BY <2>1 DEF k
  <2>8. QED BY <1>1, <1>6, <1>7, <2>1, <2>2, <2>3, <2>4, <2>5, <2>6, <2>7 DEF NeverStale, k
<1>9. QED BY <1>3, <1>4, <1>5, <1>8 DEF Fit, k

\* A new key keeps the invariant.
LEMMA KeyMade ==
    ASSUME PanelInv, NewIdempotencyKey
    PROVE  PanelInv' /\ ~Resends
<1> DEFINE u == [ui EXCEPT !.key = spent.keys + 1]
           b == SetUi(Browser, u)
<1>1. Spend("acts", 1) /\ Become(b) /\ UNCHANGED <<server, refused>>
  BY DEF NewIdempotencyKey
<1>2. /\ Browser \in BrowserType /\ Tells(Browser) /\ ui \in UiType
      /\ Browser.ui = ui /\ Browser.page = page /\ Browser.store = store
      /\ Browser.calls = calls
      /\ spent \in SpentType /\ spent.keys \in 0..MaxKeys + 1 /\ MaxKeys \in Nat
  BY PanelParts, OnboardingAssumption
<1>3. spent' \in SpentType /\ spent'.keys = spent.keys + 1 /\ spent.keys + 1 <= MaxKeys
  BY <1>1, <1>2, Spends
<1>4. spent.keys + 1 \in 0..MaxKeys + 1
  BY <1>2, <1>3
<1>5. u \in UiType
  BY <1>2, <1>4 DEF UiType
<1>6. /\ u.key = spent.keys + 1 /\ u.nonce = ui.nonce /\ u.submitting = ui.submitting
      /\ u.signing = ui.signing /\ u.result = ui.result /\ u.detected = ui.detected
      /\ u.notice = ui.notice
  BY <1>2 DEF UiType
<1> HIDE DEF u
<1>7. b \in BrowserType /\ b.ui = u /\ b.page = page /\ b.store = store /\ b.calls = calls
  BY <1>2, <1>5, UiSet
<1> HIDE DEF b
<1>8. Tells(b) /\ \A r \in RecordType : Has(b, r) => Has(Browser, r)
  BY <1>2, <1>6, <1>7 DEF Tells, Has
<1>9. Fit(b, server, spent.keys + 1, refused)
  BY <1>3, <1>6, <1>7, <1>8, KeyRenewed
<1>10. QED BY <1>1, <1>3, <1>7, <1>9, HandlerKeeps

\* resetAndClear keeps the invariant.
LEMMA FormReset ==
    ASSUME PanelInv, resetAndClear
    PROVE  PanelInv' /\ ~Resends
<1> DEFINE u == [ui EXCEPT !.wallet = None, !.signature = None,
                           !.result = None, !.notice = None,
                           !.nonce = 0, !.key = spent.keys + 1]
           a == SetUi(Browser, u)
           b == IF ui.wallet = None THEN a ELSE SetStore(a, Forget(store, ui.wallet))
<1>1. Spend("acts", 1) /\ Become(b) /\ UNCHANGED <<server, refused>>
  BY DEF resetAndClear
<1>2. /\ Browser \in BrowserType /\ Tells(Browser) /\ ui \in UiType /\ store \in StoreType
      /\ Browser.ui = ui /\ Browser.page = page /\ Browser.store = store
      /\ Browser.calls = calls
      /\ spent \in SpentType /\ spent.keys \in 0..MaxKeys + 1
      /\ MaxKeys \in Nat /\ MaxNonces \in Nat
  BY PanelParts, OnboardingAssumption
<1>3. spent' \in SpentType /\ spent'.keys = spent.keys + 1 /\ spent.keys + 1 <= MaxKeys
  BY <1>1, <1>2, Spends
<1>4. spent.keys + 1 \in 0..MaxKeys + 1 /\ 0 \in 0..MaxNonces
  BY <1>2, <1>3
<1>5. u \in UiType
  BY <1>2, <1>4 DEF UiType
<1>6. /\ u.key = spent.keys + 1 /\ u.nonce = 0 /\ u.submitting = ui.submitting
      /\ u.signing = ui.signing /\ u.result = None /\ u.detected = ui.detected
      /\ u.notice = None
  BY <1>2 DEF UiType
<1> HIDE DEF u
<1>7. a \in BrowserType /\ a.ui = u /\ a.page = page /\ a.store = store /\ a.calls = calls
  BY <1>2, <1>5, UiSet
<1> HIDE DEF a
<1>8. /\ b \in BrowserType /\ b.ui = u /\ b.page = page /\ b.calls = calls
      /\ \A v \in Wallets : b.store.safes[v] \in {store.safes[v], None}
  <2>1. CASE ui.wallet = None
    BY <1>7, <2>1
  <2>2. CASE ui.wallet # None
    <3> DEFINE t == Forget(store, ui.wallet)
    <3>1. ui.wallet \in Wallets
      BY <1>2, <2>2 DEF UiType
    <3>2. t \in StoreType /\ t.safes = [store.safes EXCEPT ![ui.wallet] = None]
      BY <1>2, <3>1, ForgottenInStore
    <3>3. b = SetStore(a, t)
      BY <2>2
    <3>4. store.safes \in [Wallets -> RecordType \cup {None}]
      BY <1>2 DEF StoreType
    <3> HIDE DEF b, t
    <3>5. b \in BrowserType /\ b.ui = u /\ b.page = page /\ b.store = t /\ b.calls = calls
      BY <1>7, <3>2, <3>3, StoreSet
    <3>6. QED BY <3>2, <3>4, <3>5
  <2>3. QED BY <2>1, <2>2
<1> HIDE DEF b
<1>9. Tells(b) /\ \A r \in RecordType : Has(b, r) => Has(Browser, r)
  BY <1>2, <1>6, <1>8, NothingIsNone DEF Tells, Has
<1>10. Fit(b, server, spent.keys + 1, refused)
  BY <1>3, <1>6, <1>8, <1>9, KeyRenewed
<1>11. QED BY <1>1, <1>3, <1>8, <1>10, HandlerKeeps

\* The wallet's prompt may change while no nonce is asked for on its behalf.
LEMMA PromptChanged ==
    ASSUME PanelInv, NEW b \in BrowserType, \A c \in calls : c.by # "sign",
           b.calls = calls, b.page = page, b.store = store,
           b.ui.key = ui.key, b.ui.nonce = ui.nonce, b.ui.submitting = ui.submitting,
           b.ui.result = ui.result, b.ui.notice = ui.notice, b.ui.detected = ui.detected
    PROVE  Fit(b, server, spent.keys, refused)
<1>1. /\ Browser.ui = ui /\ Browser.page = page /\ Browser.store = store
      /\ Browser.calls = calls
  BY PanelParts
<1>2. /\ Tells(Browser) /\ Filed(Browser, server) /\ OneAtATime(Browser)
      /\ NeverStale(Browser, server, spent.keys, refused)
  BY DEF PanelInv, Fit
<1>3. Tells(b)
  BY <1>1, <1>2 DEF Tells
<1>4. Filed(b, server)
  BY <1>1, <1>2 DEF Filed, Has
<1>5. OneAtATime(b)
  BY <1>1, <1>2 DEF OneAtATime
<1>6. PromptOpen(b)
  BY DEF PromptOpen
<1>7. NeverStale(b, server, spent.keys, refused)
  <2>1. \A code : FormCode(b, code) <=> FormCode(Browser, code)
    BY <1>1 DEF FormCode
  <2>2. QED BY <1>1, <1>2, <2>1 DEF NeverStale
<1>8. QED BY <1>3, <1>4, <1>5, <1>6, <1>7 DEF Fit

\* A prompt that is not open, or waits for the wallet alone, has no nonce asked for.
LEMMA NoNonceToSign ==
    ASSUME PanelInv, ui.signing = None \/ ui.signing.nonce # 0
    PROVE  \A c \in calls : c.by # "sign"
<1>1. PromptOpen(Browser) /\ Browser.ui = ui /\ Browser.calls = calls
  BY PanelParts DEF PanelInv, Fit
<1>2. QED BY <1>1 DEF PromptOpen

\* A nonce that is asked for on behalf of the prompt.
LEMMA FitAsksToSign ==
    ASSUME NEW b, NEW sv, NEW k, NEW rf, Fit(b, sv, k, rf),
           b.ui.signing # None, b.ui.signing.nonce = 0, \A c \in b.calls : c.by # "sign",
           NEW w \in Wallets, NEW c, c = Ask(b, Call("nonce", w, "sign"))
    PROVE  Fit(c, sv, k, rf)
<1> DEFINE call == Call("nonce", w, "sign")
<1>1. /\ call \in CallType /\ call.kind = "nonce" /\ call.wallet = w /\ call.by = "sign"
      /\ call.nonce = 0 /\ call.from = "api"
      /\ call.reply.row = None /\ call.reply.code = "none" /\ call.reply.nonce = 0
  BY CallMade DEF Kinds, Callers
<1> HIDE DEF call
<1>2. /\ c \in BrowserType /\ c.calls = b.calls \cup {call}
      /\ c.ui = b.ui /\ c.page = b.page /\ c.store = b.store
  BY <1>1, Asked DEF Fit, call
<1>3. Tells(c)
  BY <1>2 DEF Fit, Tells
<1>4. Filed(c, sv)
  <2>1. \A r \in RecordType : Has(c, r) => Has(b, r)
    BY <1>1, <1>2, NothingIsNone DEF Has
  <2>2. CallFiled(call, sv)
    BY <1>1 DEF CallFiled
  <2>3. QED BY <1>2, <2>1, <2>2 DEF Fit, Filed
<1>5. OneAtATime(c)
  BY <1>1, <1>2 DEF Fit, OneAtATime, Submits, StageOf
<1>6. PromptOpen(c)
  BY <1>1, <1>2 DEF PromptOpen
<1>7. NeverStale(c, sv, k, rf)
  <2>1. NeverStale(b, sv, k, rf)
    BY DEF Fit
  <2>2. \A code : FormCode(c, code) <=> FormCode(b, code)
    BY <1>1, <1>2 DEF FormCode
  <2>3. ASSUME NEW x \in c.calls
        PROVE  /\ x.nonce <= sv.issued /\ x.reply.nonce <= sv.issued
               /\ x.kind = "submit" => x.key \in 1..k /\ x.nonce # 0
               /\ x.by = "gone" => x.key # c.ui.key /\ x.nonce # c.ui.nonce
               /\ x.reply.nonce # 0 => /\ x.reply.nonce # c.ui.nonce
                                       /\ <<"nonce", x.reply.nonce>> \notin rf
    <3>1. CASE x \in b.calls
      BY <1>2, <2>1, <3>1 DEF NeverStale
    <3>2. CASE x = call
      <4>1. sv.issued \in Nat
        BY <2>1 DEF NeverStale
      <4>2. QED BY <1>1, <3>2, <4>1
    <3>3. QED BY <1>2, <3>1, <3>2
  <2>4. \A x, y \in c.calls :
           x.reply.nonce # 0 => /\ y.nonce # x.reply.nonce
                                /\ y.reply.nonce = x.reply.nonce => y = x
    BY <1>1, <1>2, <2>1 DEF NeverStale
  <2>5. QED BY <1>2, <2>1, <2>2, <2>3, <2>4 DEF NeverStale
<1>8. QED BY <1>2, <1>3, <1>4, <1>5, <1>6, <1>7 DEF Fit

\* What sets only the wallet's prompt and the signature keeps the browser fit.
LEMMA PromptSet ==
    ASSUME PanelInv, NEW g \in SignedType \cup {None},
           ui.signing = None \/ ui.signing.nonce # 0,
           NEW u \in UiType, u.signing = g,
           u.key = ui.key, u.nonce = ui.nonce, u.submitting = ui.submitting,
           u.result = ui.result, u.detected = ui.detected, u.notice = ui.notice
    PROVE  LET b == SetUi(Browser, u)
           IN  /\ Fit(b, server, spent.keys, refused)
               /\ b \in BrowserType /\ b.ui = u /\ b.calls = calls
               /\ \A c \in calls : c.by # "sign"
<1> DEFINE b == SetUi(Browser, u)
<1>1. b \in BrowserType /\ b.ui = u /\ b.page = page /\ b.store = store /\ b.calls = calls
  BY PanelParts, UiSet
<1> HIDE DEF b
<1>2. \A c \in calls : c.by # "sign"
  BY NoNonceToSign
<1>3. Fit(b, server, spent.keys, refused)
  BY <1>1, <1>2, PromptChanged
<1>4. QED BY <1>1, <1>2, <1>3 DEF b

\* handleSignWithWallet keeps the invariant.
LEMMA SignClicked ==
    ASSUME PanelInv, handleSignWithWallet
    PROVE  PanelInv' /\ ~Resends
<1> DEFINE w == ui.wallet
<1>1. /\ ui.signing = None /\ w # None
      /\ \/ Handle("acts", Prompt(Browser, w, ui.nonce))
         \/ Handle("acts", issueNonce(Prompt(Browser, w, 0), w, "sign"))
  BY DEF handleSignWithWallet, SignShown
<1>2. ui \in UiType /\ Browser.ui = ui /\ Browser \in BrowserType
  BY PanelParts
<1>3. w \in Wallets /\ ui.nonce \in 0..MaxNonces /\ 0 \in 0..MaxNonces
  BY <1>1, <1>2, OnboardingAssumption DEF UiType
<1> HIDE DEF w
<1>4. CASE Handle("acts", Prompt(Browser, w, ui.nonce))
  <2> DEFINE g == [wallet |-> w, nonce |-> ui.nonce]
             u == [ui EXCEPT !.signing = g]
             b == SetUi(Browser, u)
  <2>1. g \in SignedType
    BY <1>3 DEF SignedType
  <2>2. Handle("acts", b)
    BY <1>2, <1>4 DEF Prompt
  <2> HIDE DEF g
  <2>3. u \in UiType
    BY <1>2, <2>1 DEF UiType
  <2>4. /\ u.signing = g /\ u.key = ui.key /\ u.nonce = ui.nonce
        /\ u.submitting = ui.submitting
        /\ u.result = ui.result /\ u.detected = ui.detected /\ u.notice = ui.notice
    BY <1>2 DEF UiType
  <2> HIDE DEF u
  <2>5. Fit(b, server, spent.keys, refused) /\ b.calls = calls
    BY <1>1, <2>1, <2>3, <2>4, PromptSet
  <2> HIDE DEF b
  <2>6. Become(b) /\ UNCHANGED <<server, refused>> /\ Spend("acts", 0)
    BY <2>2 DEF Handle
  <2>7. spent' \in SpentType /\ spent'.keys = spent.keys
    BY <2>6, Moved
  <2>8. QED BY <2>5, <2>6, <2>7, HandlerKeeps
<1>5. CASE Handle("acts", issueNonce(Prompt(Browser, w, 0), w, "sign"))
  <2> DEFINE g == [wallet |-> w, nonce |-> 0]
             v == [ui EXCEPT !.signing = g]
             a == SetUi(Browser, v)
             u == [v EXCEPT !.askingNonce = TRUE]
             b == SetUi(Browser, u)
             c == Ask(b, Call("nonce", w, "sign"))
  <2>1. g \in SignedType /\ g.nonce = 0
    BY <1>3 DEF SignedType
  <2> HIDE DEF g
  <2>2. v \in UiType
    BY <1>2, <2>1 DEF UiType
  <2>3. /\ v.signing = g /\ v.key = ui.key /\ v.nonce = ui.nonce
        /\ v.submitting = ui.submitting
        /\ v.result = ui.result /\ v.detected = ui.detected /\ v.notice = ui.notice
    BY <1>2 DEF UiType
  <2>4. a.ui = v
    BY <1>2, <2>2, UiSet
  <2>5. a = Prompt(Browser, w, 0)
    BY <1>2 DEF Prompt, g
  <2>6. SetUi(a, u) = b
    BY DEF SetUi
  <2>7. issueNonce(a, w, "sign") = c
    BY <2>4, <2>6 DEF issueNonce
  <2>8. Handle("acts", c)
    BY <1>5, <2>5, <2>7
  <2> HIDE DEF v, a
  <2>9. u \in UiType
    BY <2>2 DEF UiType
  <2>10. /\ u.signing = g /\ u.key = ui.key /\ u.nonce = ui.nonce
         /\ u.submitting = ui.submitting
         /\ u.result = ui.result /\ u.detected = ui.detected /\ u.notice = ui.notice
    BY <2>2, <2>3 DEF UiType
  <2> HIDE DEF u
  <2>11. /\ Fit(b, server, spent.keys, refused) /\ b.calls = calls /\ b.ui = u
         /\ b \in BrowserType
         /\ \A x \in calls : x.by # "sign"
    BY <1>1, <2>1, <2>9, <2>10, PromptSet
  <2> HIDE DEF b
  <2>12. Fit(c, server, spent.keys, refused)
    BY <1>3, <2>1, <2>10, <2>11, NothingIsNone, FitAsksToSign
  <2>13. \A x \in c.calls \ calls : x.kind # "submit"
    <3>1. Call("nonce", w, "sign") \in CallType /\ Call("nonce", w, "sign").kind = "nonce"
      BY <1>3, CallMade DEF Kinds, Callers
    <3>2. c.calls = calls \cup {Call("nonce", w, "sign")}
      BY <2>11, <3>1, Asked
    <3>3. QED BY <3>1, <3>2
  <2> HIDE DEF c
  <2>14. Become(c) /\ UNCHANGED <<server, refused>> /\ Spend("acts", 0)
    BY <2>8 DEF Handle
  <2>15. spent' \in SpentType /\ spent'.keys = spent.keys
    BY <2>14, Moved
  <2>16. QED BY <2>12, <2>13, <2>14, <2>15, HandlerKeeps
<1>6. QED BY <1>1, <1>4, <1>5

\* The wallet's answer to its prompt keeps the invariant.
LEMMA WalletAnswers ==
    ASSUME PanelInv, NEW signs \in BOOLEAN, WalletSigns(signs)
    PROVE  PanelInv' /\ ~Resends
<1> DEFINE g == IF signs THEN ui.signing ELSE ui.signature
           u == [ui EXCEPT !.signing = None, !.signature = g]
           b == SetUi(Browser, u)
<1>1. /\ ui.signing.nonce # 0 /\ Become(b) /\ UNCHANGED <<server, spent, refused>>
  BY DEF WalletSigns
<1>2. ui \in UiType /\ spent \in SpentType
  BY PanelParts
<1>3. g \in SignedType \cup {None}
  BY <1>2 DEF UiType
<1> HIDE DEF g
<1>4. u \in UiType
  BY <1>2, <1>3 DEF UiType
<1>5. /\ u.signing = None /\ u.key = ui.key /\ u.nonce = ui.nonce
      /\ u.submitting = ui.submitting
      /\ u.result = ui.result /\ u.detected = ui.detected /\ u.notice = ui.notice
  BY <1>2 DEF UiType
<1> HIDE DEF u
<1>6. Fit(b, server, spent.keys, refused) /\ b.calls = calls
  BY <1>1, <1>4, <1>5, PromptSet
<1> HIDE DEF b
<1>7. QED BY <1>1, <1>2, <1>6, HandlerKeeps

\* What a submission carries: the form's key, nonce and wallet.
LEMMA SubmissionTyped ==
    ASSUME PanelInv, ui.wallet # None
    PROVE  /\ Submission \in CallType /\ Submission.kind = "submit" /\ Submission.by = "form"
           /\ Submission.wallet = ui.wallet /\ Submission.wallet \in Wallets
           /\ Submission.key = ui.key /\ Submission.nonce = ui.nonce
           /\ Submission.from = "api" /\ Submission.reply.code = "none"
           /\ Submission.reply.row = None /\ Submission.reply.nonce = 0
<1> DEFINE a == Call("submit", ui.wallet, "form")
           c == Submission
<1>1. /\ ui.wallet \in Wallets /\ ui.key \in 0..MaxKeys + 1 /\ ui.nonce \in 0..MaxNonces
      /\ ui.signature \in SignedType \cup {None}
  BY PanelParts DEF UiType
<1>2. /\ a \in CallType /\ a.kind = "submit" /\ a.by = "form" /\ a.wallet = ui.wallet
      /\ a.from = "api" /\ a.reply = NoReply
  BY <1>1, CallMade DEF Kinds, Callers
<1>3. c = [a EXCEPT !.key = ui.key, !.nonce = ui.nonce, !.signature = ui.signature]
  BY DEF Submission
<1> HIDE DEF a, c
<1>4. c \in CallType
  BY <1>1, <1>2, <1>3 DEF CallType
<1>5. /\ c.kind = "submit" /\ c.by = "form" /\ c.wallet = ui.wallet
      /\ c.from = "api" /\ c.reply = NoReply /\ c.key = ui.key /\ c.nonce = ui.nonce
  BY <1>2, <1>3 DEF CallType
<1>6. QED BY <1>1, <1>4, <1>5 DEF c, NoReply

\* The button that sends the form is not shown while a submission is under way, and what
\* the form then holds has not been refused.
LEMMA FormIsFree ==
    ASSUME PanelInv, ui.submitting = "no"
    PROVE  /\ \A c \in calls : ~Submits(c) /\ (c.kind = "submit" => c.by = "gone")
           /\ <<"key", ui.key>> \notin refused /\ <<"nonce", ui.nonce>> \notin refused
<1>1. /\ OneAtATime(Browser) /\ NeverStale(Browser, server, spent.keys, refused)
      /\ Browser.ui = ui /\ Browser.calls = calls
  BY PanelParts DEF PanelInv, Fit
<1>2. \A c \in calls : ~Submits(c)
  BY <1>1 DEF OneAtATime, StageOf
<1>3. \A code : ~FormCode(Browser, code)
  BY <1>1, <1>2 DEF FormCode, Submits
<1>4. \A c \in calls : c.kind = "submit" => c.by = "gone"
  BY <1>1, <1>2 DEF OneAtATime, Submits
<1>5. QED BY <1>1, <1>2, <1>3, <1>4 DEF NeverStale

\* handleSubmit keeps the invariant and sends nothing that was refused.
LEMMA Submitted ==
    ASSUME PanelInv, handleSubmit
    PROVE  PanelInv' /\ ~Resends
<1> DEFINE u == [ui EXCEPT !.notice = None, !.submitting = "post", !.cooling = TRUE]
           a == SetUi(Browser, u)
           call == Submission
           b == Ask(a, call)
<1>1. /\ Handle("acts", b) /\ ui.submitting = "no" /\ ui.key # 0
      /\ ui.wallet # None /\ ui.nonce # 0
  BY DEF handleSubmit, SubmitShown, FormShown
<1>2. /\ Browser \in BrowserType /\ Tells(Browser) /\ ui \in UiType
      /\ Browser.ui = ui /\ Browser.page = page /\ Browser.store = store
      /\ Browser.calls = calls /\ spent.keys \in 0..MaxKeys + 1 /\ server.issued \in Nat
  BY PanelParts
<1>3. u \in UiType
  <2>1. ui \in UiType
    BY <1>2
  <2> DEFINE v == [ui EXCEPT !.notice = None, !.submitting = "post"]
  <2>2. v \in UiType
    BY <2>1 DEF UiType
  <2>3. u = [v EXCEPT !.cooling = TRUE]
    BY <2>1 DEF UiType
  <2> HIDE DEF u, v
  <2>4. QED BY <2>2, <2>3 DEF UiType
<1>4. /\ u.key = ui.key /\ u.nonce = ui.nonce /\ u.submitting = "post"
      /\ u.signing = ui.signing /\ u.result = ui.result /\ u.detected = ui.detected
      /\ u.notice = None
  BY <1>2 DEF UiType
<1> HIDE DEF u
<1>5. /\ call \in CallType /\ call.kind = "submit" /\ call.by = "form"
      /\ call.wallet \in Wallets /\ call.key = ui.key /\ call.nonce = ui.nonce
      /\ call.reply.code = "none" /\ call.reply.row = None /\ call.reply.nonce = 0
  BY <1>1, SubmissionTyped
<1>6. a \in BrowserType /\ a.ui = u /\ a.page = page /\ a.store = store /\ a.calls = calls
  BY <1>2, <1>3, UiSet
<1> HIDE DEF a, call
<1>7. /\ b \in BrowserType /\ b.ui = u /\ b.page = page /\ b.store = store
      /\ b.calls = calls \cup {call}
  BY <1>5, <1>6, Asked
<1> HIDE DEF b
<1>8. /\ \A c \in calls : ~Submits(c) /\ (c.kind = "submit" => c.by = "gone")
      /\ <<"key", ui.key>> \notin refused /\ <<"nonce", ui.nonce>> \notin refused
  BY <1>1, FormIsFree
<1>9. /\ Filed(Browser, server) /\ OneAtATime(Browser) /\ PromptOpen(Browser)
      /\ NeverStale(Browser, server, spent.keys, refused)
  BY DEF PanelInv, Fit
<1>10. Tells(b)
  BY <1>2, <1>4, <1>7 DEF Tells
<1>11. Filed(b, server)
  <2>1. \A r \in RecordType : Has(b, r) => Has(Browser, r)
    BY <1>2, <1>4, <1>5, <1>7, NothingIsNone DEF Has
  <2>2. CallFiled(call, server)
    BY <1>5 DEF CallFiled
  <2>3. QED BY <1>2, <1>7, <1>9, <2>1, <2>2 DEF Filed
<1>12. OneAtATime(b)
  BY <1>2, <1>4, <1>5, <1>7, <1>8, <1>9 DEF OneAtATime, Submits, StageOf
<1>13. PromptOpen(b)
  BY <1>2, <1>4, <1>5, <1>7, <1>9 DEF PromptOpen
<1>14. NeverStale(b, server, spent.keys, refused)
  <2>1. NeverStale(Browser, server, spent.keys, refused)
    BY <1>9
  <2>2. ~FormCode(b, "duplicate")
    BY <1>5, <1>7, <1>8 DEF FormCode, Submits
  <2>3. ui.key \in 1..spent.keys
    <3>1. ui.key \in Nat /\ ui.key <= spent.keys
      BY <1>2, <2>1, OnboardingAssumption DEF NeverStale, UiType
    <3>2. QED BY <1>1, <1>2, <3>1
  <2>4. ASSUME NEW x \in b.calls
        PROVE  /\ x.nonce <= server.issued /\ x.reply.nonce <= server.issued
               /\ x.kind = "submit" => x.key \in 1..spent.keys /\ x.nonce # 0
               /\ x.by = "gone" => x.key # b.ui.key /\ x.nonce # b.ui.nonce
               /\ x.reply.nonce # 0 => /\ x.reply.nonce # b.ui.nonce
                                       /\ <<"nonce", x.reply.nonce>> \notin refused
    <3>1. CASE x \in calls
      BY <1>2, <1>4, <1>7, <2>1, <3>1 DEF NeverStale
    <3>2. CASE x = call
      <4>1. ui.nonce <= server.issued
        BY <1>2, <2>1 DEF NeverStale
      <4>2. QED BY <1>1, <1>2, <1>5, <2>3, <3>2, <4>1
    <3>3. QED BY <1>7, <3>1, <3>2
  <2>5. \A x \in calls : x.reply.nonce # 0 => ui.nonce # x.reply.nonce
    BY <1>2, <2>1 DEF NeverStale
  <2>6. \A x, y \in b.calls :
           x.reply.nonce # 0 => /\ y.nonce # x.reply.nonce
                                /\ y.reply.nonce = x.reply.nonce => y = x
    BY <1>2, <1>5, <1>7, <2>1, <2>5 DEF NeverStale
  <2>7. b.ui.key = ui.key /\ b.ui.nonce = ui.nonce
    BY <1>4, <1>7
  <2>8. QED BY <1>2, <1>8, <2>1, <2>2, <2>4, <2>6, <2>7 DEF NeverStale
<1>15. Fit(b, server, spent.keys, refused)
  BY <1>7, <1>10, <1>11, <1>12, <1>13, <1>14 DEF Fit
<1>16. Become(b) /\ UNCHANGED <<server, refused>> /\ Spend("acts", 0)
  BY <1>1 DEF Handle
<1>17. spent' \in SpentType /\ spent'.keys = spent.keys
  BY <1>16, Moved
\* What it sends is the form's, which has not been refused.
<1>18. PanelInv'
  <2>1. server' \in ServerType /\ RowsNamed(server')
    BY <1>16 DEF PanelInv
  <2>2. Quiet(b, Browser') /\ Rest(Browser')
    BY <1>7, <1>10, <1>16, Settles
  <2>3. Fit(Browser', server', spent'.keys, refused')
    BY <1>15, <1>16, <1>17, <2>2, FitQuiet
  <2>4. QED BY <1>17, <2>1, <2>2, <2>3 DEF PanelInv
<1>19. ~Resends
  <2>1. calls' \subseteq calls \cup {call} \cup Prefetches
    <3>1. Quiet(b, Browser') /\ Browser'.calls = calls'
      BY <1>7, <1>10, <1>16, Settles DEF Browser
    <3>2. QED BY <1>7, <3>1 DEF Quiet
  <2>2. \A c \in Prefetches : c.kind # "submit"
    BY DEF Prefetches, Call
  <2>3. QED BY <1>5, <1>8, <2>1, <2>2 DEF Resends
<1>20. QED BY <1>18, <1>19

-----------------------------------------------------------------------------
(* Mounting.                                                               *)

\* What a panel has when it mounts.
LEMMA MountedTyped ==
    ASSUME NEW k \in 0..MaxKeys + 1
    PROVE  LET u == Mounted(k)
           IN  /\ u \in UiType /\ u.key = k /\ u.nonce = 0 /\ u.submitting = "no"
               /\ u.signing = None /\ u.result = None /\ u.notice = None
               /\ u.detected = None
<1>1. 0 \in 0..MaxNonces
  BY OnboardingAssumption
<1>2. QED BY <1>1 DEF Mounted, UiType

\* Of the aborted calls only the unanswered submissions are left, and they reach nobody.
LEMMA CallsAborted ==
    ASSUME NEW b \in BrowserType, NEW c, c = Aborted(b)
    PROVE  /\ c \in BrowserType /\ c.ui = b.ui /\ c.page = b.page /\ c.store = b.store
           /\ \A x \in c.calls :
                /\ x.kind = "submit" /\ x.by = "gone"
                /\ x.reply.code = "none" /\ x.reply.row = None /\ x.reply.nonce = 0
                /\ \E y \in b.calls : /\ y.kind = "submit" /\ x.wallet = y.wallet
                                      /\ x.from = y.from
                                      /\ x.key = y.key /\ x.nonce = y.nonce
<1> DEFINE sent == {d \in b.calls : d.kind = "submit" /\ d.reply = NoReply}
           gone(y) == [y EXCEPT !.by = "gone"]
           k == {gone(y) : y \in sent}
<1>1. b.calls \subseteq CallType
  BY Parts
<1>2. \A y \in sent : /\ gone(y) \in CallType
                      /\ gone(y).kind = "submit" /\ gone(y).by = "gone"
                      /\ gone(y).reply = NoReply /\ gone(y).wallet = y.wallet
                      /\ gone(y).from = y.from
                      /\ gone(y).key = y.key /\ gone(y).nonce = y.nonce
  BY <1>1 DEF CallType
<1>3. c = SetCalls(b, k)
  BY DEF Aborted
<1> HIDE DEF gone
<1>4. k \subseteq CallType
  BY <1>2
<1>5. /\ c \in BrowserType /\ c.calls = k
      /\ c.ui = b.ui /\ c.page = b.page /\ c.store = b.store
  BY <1>3, <1>4, CallsSet
<1>6. QED BY <1>2, <1>5 DEF NoReply

\* A panel that mounts has a new key, or none, and has nothing under way.
LEMMA MountKeeps ==
    ASSUME PanelInv, NEW b \in BrowserType, b.ui = ui, b.store = store, b.calls = calls,
           NEW live \in BOOLEAN, Mount(b, live)
    PROVE  PanelInv' /\ ~Resends
<1> DEFINE n == IF live THEN 1 ELSE 0
           key == IF live THEN spent.keys + 1 ELSE 0
           p == [b.page EXCEPT !.live = live]
           a == Aborted(b)
           u == Mounted(key)
           d == SetUi(a, u)
           c == SetPage(d, p)
<1>1. Spend("moves", n) /\ Become(c) /\ UNCHANGED <<server, refused>>
  BY DEF Mount
<1>2. /\ Browser.ui = ui /\ Browser.store = store /\ Browser.calls = calls
      /\ spent \in SpentType /\ spent.keys \in 0..MaxKeys + 1 /\ MaxKeys \in Nat
      /\ server.issued \in Nat
  BY PanelParts, OnboardingAssumption
<1>3. /\ spent' \in SpentType /\ spent'.keys = spent.keys + n /\ spent.keys + n <= MaxKeys
      /\ n \in {0, 1}
  BY <1>1, <1>2, Spends
<1>4. key \in 0..MaxKeys + 1
  BY <1>2, <1>3
<1>5. p \in PageType
  BY Parts DEF PageType
<1>6. /\ a \in BrowserType /\ a.store = store
      /\ \A x \in a.calls :
           /\ x.kind = "submit" /\ x.by = "gone"
           /\ x.reply.code = "none" /\ x.reply.row = None /\ x.reply.nonce = 0
           /\ \E y \in calls : /\ y.kind = "submit" /\ x.wallet = y.wallet
                               /\ x.from = y.from
                               /\ x.key = y.key /\ x.nonce = y.nonce
  BY CallsAborted
<1>7. /\ u \in UiType /\ u.key = key /\ u.nonce = 0 /\ u.submitting = "no"
      /\ u.signing = None /\ u.result = None /\ u.notice = None /\ u.detected = None
  BY <1>4, MountedTyped
<1> HIDE DEF a, u, p
<1>8. d \in BrowserType /\ d.ui = u /\ d.store = store /\ d.calls = a.calls
  BY <1>6, <1>7, UiSet
<1> HIDE DEF d
<1>9. c \in BrowserType /\ c.ui = u /\ c.store = store /\ c.calls = a.calls
  BY <1>5, <1>8, PageSet
<1> HIDE DEF c
<1>10. /\ Filed(Browser, server) /\ OneAtATime(Browser)
       /\ NeverStale(Browser, server, spent.keys, refused)
  BY DEF PanelInv, Fit
<1>11. Tells(c)
  BY <1>7, <1>9 DEF Tells
<1>12. Filed(c, server)
  <2>1. \A r \in RecordType : Has(c, r) => Has(Browser, r)
    BY <1>2, <1>6, <1>7, <1>9, NothingIsNone DEF Has
  <2>2. \A x \in c.calls : CallFiled(x, server)
    BY <1>2, <1>6, <1>9, <1>10 DEF Filed, CallFiled
  <2>3. QED BY <1>10, <2>1, <2>2 DEF Filed
<1>13. OneAtATime(c)
  BY <1>6, <1>7, <1>9 DEF OneAtATime, Submits
<1>14. PromptOpen(c)
  BY <1>6, <1>9 DEF PromptOpen
<1>15. NeverStale(c, server, spent.keys + n, refused)
  <2>1. \A y \in calls : y.kind = "submit" => /\ y.key \in 1..spent.keys /\ y.nonce # 0
                                              /\ y.nonce <= server.issued
    BY <1>2, <1>10 DEF NeverStale
  <2>2. refused \subseteq Refusable(server, spent.keys)
    BY <1>10 DEF NeverStale
  <2>3. <<"key", key>> \notin refused /\ <<"nonce", 0>> \notin refused
    BY <1>2, <2>2 DEF Refusable
  <2>4. refused \subseteq Refusable(server, spent.keys + n)
    BY <1>2, <1>3, <2>2 DEF Refusable
  <2>5. \A x \in 1..spent.keys : x # key /\ x \in 1..(spent.keys + n)
    BY <1>2, <1>3
  <2>6. spent.keys + n \in 0..MaxKeys + 1 /\ key <= spent.keys + n
    BY <1>2, <1>3
  <2>7. \A code : ~FormCode(c, code)
    BY <1>6, <1>9 DEF FormCode
  <2> HIDE DEF key, n
  <2>8. ASSUME NEW x \in c.calls
        PROVE  /\ x.nonce <= server.issued /\ x.reply.nonce = 0
               /\ x.key \in 1..(spent.keys + n) /\ x.nonce # 0
               /\ x.key # key
    <3>1. PICK y \in calls : y.kind = "submit" /\ x.key = y.key /\ x.nonce = y.nonce
      BY <1>6, <1>9
    <3>2. QED BY <1>6, <1>9, <2>1, <2>5, <3>1
  <2>9. QED BY <1>2, <1>7, <1>9, <2>3, <2>4, <2>6, <2>7, <2>8 DEF NeverStale
<1>16. Fit(c, server, spent'.keys, refused)
  BY <1>3, <1>9, <1>11, <1>12, <1>13, <1>14, <1>15 DEF Fit
<1>17. \A x \in c.calls : x.by # "form"
  BY <1>6, <1>9
<1>18. QED BY <1>1, <1>3, <1>16, <1>17, HandlerKeeps

\* A change of the mode keeps the invariant.
LEMMA ModeSwitched ==
    ASSUME PanelInv, SwitchMode
    PROVE  PanelInv' /\ ~Resends
<1>1. (~page.live) \in BOOLEAN /\ Mount(Browser, ~page.live)
  BY DEF SwitchMode
<1>2. /\ Browser \in BrowserType /\ Browser.ui = ui /\ Browser.store = store
      /\ Browser.calls = calls
  BY PanelParts
<1>3. QED BY <1>1, <1>2, MountKeeps

\* Loading the page again keeps the invariant.
LEMMA PageReloaded ==
    ASSUME PanelInv, NEW startTour \in BOOLEAN, Reload(startTour)
    PROVE  PanelInv' /\ ~Resends
<1> DEFINE p == [page EXCEPT !.safeDetected = FALSE, !.tour = FALSE, !.startTour = startTour]
           b == SetPage(Browser, p)
<1>1. Mount(b, page.live)
  BY DEF Reload
<1>2. /\ Browser \in BrowserType /\ page \in PageType
      /\ Browser.ui = ui /\ Browser.store = store /\ Browser.calls = calls
  BY PanelParts
<1>3. p \in PageType /\ page.live \in BOOLEAN
  BY <1>2 DEF PageType
<1> HIDE DEF p
<1>4. b \in BrowserType /\ b.ui = ui /\ b.store = store /\ b.calls = calls
  BY <1>2, <1>3, PageSet
<1> HIDE DEF b
<1>5. QED BY <1>1, <1>3, <1>4, MountKeeps

-----------------------------------------------------------------------------
(* What attn_api answers.                                                  *)

Codes == {"ok", "new", "missing", "duplicate", "nonce_invalid", "error"}

\* The request x with an answer.
With(x, code, row, n) == [x EXCEPT !.reply = [code |-> code, row |-> row, nonce |-> n]]

\* An answered request is the request but for its answer.
LEMMA WithReply ==
    ASSUME NEW x \in CallType, NEW code \in Codes, NEW row \in RecordType \cup {None},
           NEW n \in 0..MaxNonces
    PROVE  LET y == With(x, code, row, n)
           IN  /\ y \in CallType
               /\ y.kind = x.kind /\ y.wallet = x.wallet /\ y.by = x.by /\ y.from = x.from
               /\ y.key = x.key /\ y.nonce = x.nonce
               /\ y.reply.code = code /\ y.reply.row = row /\ y.reply.nonce = n
<1> DEFINE q == [code |-> code, row |-> row, nonce |-> n]
<1>1. q \in [code : {"none", "ok", "new", "missing", "duplicate", "nonce_invalid", "error"},
             row : RecordType \cup {None}, nonce : 0..MaxNonces]
  BY DEF Codes
<1>2. q.code = code /\ q.row = row /\ q.nonce = n
  OBVIOUS
<1>3. With(x, code, row, n) = [x EXCEPT !.reply = q]
  BY DEF With
<1> HIDE DEF q
<1>4. QED BY <1>1, <1>2, <1>3 DEF CallType

\* What the server adds to what it has refused, by an answer with the given code.
Refuses(x, code, k, rf, rg) ==
    \/ rg = rf /\ code \notin {"duplicate", "nonce_invalid"}
    \/ code = "duplicate" /\ x.kind = "submit" /\ k <= MaxKeys /\ rg = rf \cup {<<"key", x.key>>}
    \/ code = "nonce_invalid" /\ x.kind = "submit" /\ rg = rf \cup {<<"nonce", x.nonce>>}

\* A nonce that is in the hands of nobody.
Fresh(b, sv, rf, n) ==
    /\ n <= sv.issued /\ n # b.ui.nonce /\ <<"nonce", n>> \notin rf
    /\ \A d \in b.calls : d.nonce # n /\ d.reply.nonce # n

\* A fit browser stays fit when one of its requests is answered.
LEMMA Replied ==
    ASSUME NEW b, NEW sv, NEW k, NEW rf, Fit(b, sv, k, rf),
           NEW x \in b.calls, x.reply.code \notin {"duplicate", "nonce_invalid"},
           NEW code \in Codes, NEW row \in RecordType \cup {None}, NEW n \in 0..MaxNonces,
           row # None => code \in {"ok", "new"} /\ HasRow(sv, row.wallet),
           x.kind = "lookup" /\ code = "ok" => row # None,
           n # 0 => Fresh(b, sv, rf, n) /\ x.kind # "submit" /\ code = "ok",
           NEW rg, Refuses(x, code, k, rf, rg),
           NEW c, c = SetCalls(b, (b.calls \ {x}) \cup
                                    IF x.by = "gone" THEN {} ELSE {With(x, code, row, n)})
    PROVE  Fit(c, sv, k, rg)
<1> DEFINE y == With(x, code, row, n)
           new == IF x.by = "gone" THEN {} ELSE {y}
<1>1. b \in BrowserType /\ b.calls \subseteq CallType
  BY Parts DEF Fit
<1>2. /\ y \in CallType
      /\ y.kind = x.kind /\ y.wallet = x.wallet /\ y.by = x.by /\ y.from = x.from
      /\ y.key = x.key /\ y.nonce = x.nonce
      /\ y.reply.code = code /\ y.reply.row = row /\ y.reply.nonce = n
  BY <1>1, WithReply
<1> HIDE DEF y
<1>3. /\ c \in BrowserType /\ c.calls = (b.calls \ {x}) \cup new
      /\ c.ui = b.ui /\ c.page = b.page /\ c.store = b.store
  BY <1>1, <1>2, CallsSet DEF y
<1>4. /\ Tells(b) /\ Filed(b, sv) /\ OneAtATime(b) /\ PromptOpen(b)
      /\ NeverStale(b, sv, k, rf)
  BY DEF Fit
<1>0. ASSUME NEW z \in c.calls
        PROVE  (z \in b.calls /\ z # x) \/ z = y
  BY <1>3
<1>5. Tells(c)
  BY <1>3, <1>4 DEF Tells
<1>6. Filed(c, sv)
  <2>1. \A r \in RecordType : Has(c, r) => Has(b, r) \/ r = row
    BY <1>2, <1>3 DEF Has
  <2>2. CallFiled(y, sv)
    BY <1>2, <1>4 DEF Filed, CallFiled
  <2>3. \A z \in c.calls : CallFiled(z, sv)
    BY <1>3, <1>4, <2>2 DEF Filed
  <2>4. QED BY <1>4, <2>1, <2>3, NothingIsNone DEF Filed
<1>7. OneAtATime(c)
  <2>1. y.by # "gone" => (y.kind = "submit" <=> y.by \in {"form", "gone"})
                         /\ (y.by = "recover" => y.kind \in {"lookup", "nonce"})
                         /\ (Submits(y) => c.ui.submitting = StageOf(y))
    BY <1>2, <1>3, <1>4 DEF OneAtATime, Submits, StageOf
  <2>2. \A z \in c.calls : /\ z.kind = "submit" <=> z.by \in {"form", "gone"}
                           /\ z.by = "recover" => z.kind \in {"lookup", "nonce"}
                           /\ Submits(z) => c.ui.submitting = StageOf(z)
    BY <1>2, <1>3, <1>4, <2>1 DEF OneAtATime
  <2>3. ASSUME NEW z \in c.calls, NEW d \in c.calls, Submits(z), Submits(d)
        PROVE  z = d
    <3>1. \A v, w \in b.calls : Submits(v) /\ Submits(w) => v = w
      BY <1>4 DEF OneAtATime
    <3>2. Submits(y) <=> Submits(x)
      BY <1>2 DEF Submits
    <3>3. (z \in b.calls /\ z # x) \/ z = y
      BY <1>0
    <3>4. (d \in b.calls /\ d # x) \/ d = y
      BY <1>0
    <3>5. QED BY <2>3, <3>1, <3>2, <3>3, <3>4
  <2>4. c.ui.submitting # "no" => \E z \in c.calls : Submits(z)
    BY <1>2, <1>3, <1>4 DEF OneAtATime, Submits
  <2>5. QED BY <2>2, <2>3, <2>4 DEF OneAtATime
<1>8. PromptOpen(c)
  <2>1. \A z \in c.calls : z.by = "sign" => z.kind = "nonce" /\ c.ui.signing # None
                                            /\ c.ui.signing.nonce = 0
    BY <1>0, <1>2, <1>3, <1>4 DEF PromptOpen
  <2>2. ASSUME NEW z \in c.calls, NEW d \in c.calls, z.by = "sign", d.by = "sign"
        PROVE  z = d
    <3>1. \A v, w \in b.calls : v.by = "sign" /\ w.by = "sign" => v = w
      BY <1>4 DEF PromptOpen
    <3>2. (z \in b.calls /\ z # x) \/ z = y
      BY <1>0
    <3>3. (d \in b.calls /\ d # x) \/ d = y
      BY <1>0
    <3>4. QED BY <1>2, <2>2, <3>1, <3>2, <3>3
  <2>3. QED BY <2>1, <2>2 DEF PromptOpen
<1>9. NeverStale(c, sv, k, rg)
  <2>1. x.kind = "submit" => /\ x.by \in {"form", "gone"}
                             /\ x.key \in 1..k /\ x.nonce # 0 /\ x.nonce <= sv.issued
                             /\ x.by = "gone" => x.key # b.ui.key /\ x.nonce # b.ui.nonce
    BY <1>4 DEF OneAtATime, NeverStale
  <2>2. x.nonce \in Nat /\ k \in Nat /\ sv.issued \in Nat
    BY <1>1, <1>4, OnboardingAssumption DEF CallType, NeverStale
  <2>3. rg \subseteq Refusable(sv, k)
    <3>1. rf \subseteq Refusable(sv, k)
      BY <1>4 DEF NeverStale
    <3>2. x.kind = "submit" => /\ <<"key", x.key>> \in Refusable(sv, k)
                               /\ <<"nonce", x.nonce>> \in Refusable(sv, k)
      BY <2>1, <2>2 DEF Refusable
    <3>3. QED BY <3>1, <3>2 DEF Refuses
  \* Who had been answered otherwise, still is.
  <2>4. ASSUME NEW z \in {"duplicate", "nonce_invalid"}, FormCode(b, z)
        PROVE  FormCode(c, z)
    BY <1>3, <2>4 DEF FormCode
  <2>5. FormCode(c, "duplicate") => k <= MaxKeys
    BY <1>2, <1>3, <1>4 DEF FormCode, NeverStale, Refuses
  <2>6. <<"key", c.ui.key>> \in rg => FormCode(c, "duplicate")
    <3>1. CASE <<"key", b.ui.key>> \in rf
      BY <1>3, <1>4, <2>4, <3>1 DEF NeverStale
    <3>2. CASE <<"key", b.ui.key>> \notin rf /\ <<"key", c.ui.key>> \in rg
      <4>1. code = "duplicate" /\ x.kind = "submit" /\ x.key = b.ui.key
        BY <1>3, <3>2 DEF Refuses
      <4>2. x.by = "form"
        BY <2>1, <4>1
      <4>3. QED BY <1>2, <1>3, <4>1, <4>2 DEF FormCode
    <3>3. QED BY <1>3, <3>1, <3>2
  <2>7. <<"nonce", c.ui.nonce>> \in rg
          => FormCode(c, "nonce_invalid") \/ c.ui.submitting = "lookup"
    <3>1. CASE <<"nonce", b.ui.nonce>> \in rf
      BY <1>3, <1>4, <2>4, <3>1 DEF NeverStale
    <3>2. CASE <<"nonce", b.ui.nonce>> \notin rf /\ <<"nonce", c.ui.nonce>> \in rg
      <4>1. code = "nonce_invalid" /\ x.kind = "submit" /\ x.nonce = b.ui.nonce
        BY <1>3, <3>2 DEF Refuses
      <4>2. x.by = "form"
        BY <2>1, <4>1
      <4>3. QED BY <1>2, <1>3, <4>1, <4>2 DEF FormCode
    <3>3. QED BY <1>3, <3>1, <3>2
  <2>8. \A z \in b.calls : z.reply.nonce # 0 => <<"nonce", z.reply.nonce>> \notin rg
    <3>1. \A z \in b.calls : z.reply.nonce # 0 => x.nonce # z.reply.nonce
                                                 /\ <<"nonce", z.reply.nonce>> \notin rf
      BY <1>4 DEF NeverStale
    <3>2. QED BY <3>1 DEF Refuses
  <2>9. ASSUME NEW z \in c.calls
        PROVE  /\ z.nonce <= sv.issued /\ z.reply.nonce <= sv.issued
               /\ z.kind = "submit" => z.key \in 1..k /\ z.nonce # 0
               /\ z.by = "gone" => z.key # c.ui.key /\ z.nonce # c.ui.nonce
               /\ z.reply.nonce # 0 => /\ z.reply.nonce # c.ui.nonce
                                       /\ <<"nonce", z.reply.nonce>> \notin rg
    <3>1. CASE z \in b.calls
      BY <1>3, <1>4, <2>8, <3>1 DEF NeverStale
    <3>2. CASE z = y /\ x.by # "gone"
      <4>1. /\ x.nonce <= sv.issued
            /\ x.kind = "submit" => x.key \in 1..k /\ x.nonce # 0
        BY <1>4 DEF NeverStale
      <4>2. n # 0 => /\ n <= sv.issued /\ n # b.ui.nonce
                     /\ rg = rf /\ <<"nonce", n>> \notin rf
        BY DEF Fresh, Refuses
      <4>3. n <= sv.issued
        BY <2>2, <4>2
      <4>4. QED BY <1>2, <1>3, <3>2, <4>1, <4>2, <4>3
    <3>3. QED BY <1>3, <3>1, <3>2
  <2>10. ASSUME NEW z \in c.calls, NEW d \in c.calls, z.reply.nonce # 0
         PROVE  d.nonce # z.reply.nonce /\ (d.reply.nonce = z.reply.nonce => d = z)
    <3>1. \A v, w \in b.calls :
             v.reply.nonce # 0 => /\ w.nonce # v.reply.nonce
                                  /\ w.reply.nonce = v.reply.nonce => w = v
      BY <1>4 DEF NeverStale
    <3>2. n # 0 => \A v \in b.calls : v.nonce # n /\ v.reply.nonce # n
      BY DEF Fresh
    <3>3. (z \in b.calls /\ z # x) \/ z = y
      BY <1>0
    <3>4. (d \in b.calls /\ d # x) \/ d = y
      BY <1>0
    <3>5. CASE z = y
      <4>1. n # 0 /\ z.reply.nonce = n
        BY <1>2, <2>10, <3>5
      <4>2. QED BY <1>2, <3>2, <3>4, <3>5, <4>1
    <3>6. CASE z \in b.calls /\ z # x
      <4>1. CASE d = y
        <5>1. x.nonce # z.reply.nonce
          BY <2>10, <3>1, <3>6
        <5>2. n # z.reply.nonce
          BY <2>10, <3>2, <3>6
        <5>3. QED BY <1>2, <4>1, <5>1, <5>2
      <4>2. CASE d \in b.calls
        BY <2>10, <3>1, <3>6, <4>2
      <4>3. QED BY <3>4, <4>1, <4>2
    <3>7. QED BY <3>3, <3>5, <3>6
  <2>11. QED BY <1>3, <1>4, <2>3, <2>5, <2>6, <2>7, <2>9, <2>10 DEF NeverStale
<1>10. QED BY <1>3, <1>5, <1>6, <1>7, <1>8, <1>9 DEF Fit

\* Coming to rest does not depend on the calls.
LEMMA RestSame ==
    ASSUME NEW b, NEW c, Rest(b), c.ui = b.ui, c.page = b.page, c.store = b.store
    PROVE  Rest(c)
BY DEF Rest, AfterTwo, AfterOne, FormFilled, Cached, Restored, Looked, TourShown,
       hasSquadsSafe, TourKey

\* An answer of attn_api keeps the invariant.
LEMMA ReplyKeeps ==
    ASSUME PanelInv, NEW x \in calls, NEW code \in Codes,
           NEW row \in RecordType \cup {None}, NEW n \in 0..MaxNonces,
           Reply(x, code, row, n), UNCHANGED <<ui, page, store>>,
           spent' \in SpentType, spent'.keys = spent.keys,
           server' \in ServerType, RowsNamed(server'), Grows(server, server'),
           x.reply.code \notin {"duplicate", "nonce_invalid"},
           row # None => code \in {"ok", "new"} /\ HasRow(server', row.wallet),
           x.kind = "lookup" /\ code = "ok" => row # None,
           n # 0 => /\ Fresh(Browser, server', refused, n) /\ x.kind # "submit"
                    /\ code = "ok",
           Refuses(x, code, spent.keys, refused, refused')
    PROVE  PanelInv' /\ ~Resends
<1> DEFINE y == With(x, code, row, n)
           k == (calls \ {x}) \cup IF x.by = "gone" THEN {} ELSE {y}
           c == SetCalls(Browser, k)
<1>1. /\ Browser \in BrowserType /\ Browser.ui = ui /\ Browser.page = page
      /\ Browser.store = store /\ Browser.calls = calls /\ calls \subseteq CallType
  BY PanelParts
<1>2. y \in CallType /\ y.reply.code = code
  BY <1>1, WithReply
<1>3. calls' = k
  BY DEF Reply, With
<1> HIDE DEF y
<1>4. k \subseteq CallType
  BY <1>1, <1>2
<1>5. Browser' = c
  BY <1>1, <1>3 DEF Browser, SetCalls
<1>6. Fit(Browser, server', spent.keys, refused)
  BY FitServed DEF PanelInv
<1>7. Fit(c, server', spent.keys, refused')
  BY <1>1, <1>6, Replied DEF y
<1>8. Rest(c)
  <2>1. c.ui = ui /\ c.page = page /\ c.store = store
    BY <1>1, <1>4, CallsSet
  <2>2. Rest(Browser)
    BY DEF PanelInv
  <2>3. QED BY <1>1, <2>1, <2>2, RestSame
<1> HIDE DEF c
<1>9. \A z \in calls' \ calls : z.reply # NoReply
  BY <1>2, <1>3 DEF NoReply, Codes
<1>10. QED BY <1>5, <1>7, <1>8, <1>9 DEF PanelInv, Resends

\* What is known of a request that attn_api has received.
LEMMA Received ==
    ASSUME PanelInv, NEW x \in calls
    PROVE  /\ x \in CallType /\ CallFiled(x, server)
           /\ x.kind = "submit" => /\ x.by \in {"form", "gone"} /\ x.key \in 1..spent.keys
                                   /\ x.wallet \in Wallets
           /\ x.kind # "list" => x.wallet \in Wallets
           /\ Grows(server, server)
<1>1. x \in Browser.calls /\ x \in CallType /\ server.issued \in Nat
  BY PanelParts
<1>2. /\ Filed(Browser, server) /\ OneAtATime(Browser)
      /\ NeverStale(Browser, server, spent.keys, refused)
  BY DEF PanelInv, Fit
<1>3. CallFiled(x, server)
  BY <1>1, <1>2 DEF Filed
<1>4. x.kind = "submit" => x.by \in {"form", "gone"} /\ x.key \in 1..spent.keys
  BY <1>1, <1>2 DEF OneAtATime, NeverStale
<1>5. Grows(server, server)
  BY <1>1 DEF Grows
<1>6. QED BY <1>1, <1>3, <1>4, <1>5 DEF CallFiled

\* An answer that changes nothing at attn_api.
LEMMA PlainlyAnswered ==
    ASSUME PanelInv, NEW x \in calls, x.reply.code \notin {"duplicate", "nonce_invalid"},
           NEW code \in {"ok", "missing", "error"}, NEW row \in RecordType \cup {None},
           ReplyRow(x, code, row), UNCHANGED <<ui, page, store, server, refused>>,
           spent' \in SpentType, spent'.keys = spent.keys,
           row # None => code = "ok" /\ HasRow(server, row.wallet),
           x.kind = "lookup" /\ code = "ok" => row # None
    PROVE  PanelInv' /\ ~Resends
<1>1. server' \in ServerType /\ RowsNamed(server') /\ Grows(server, server')
  BY Received DEF PanelInv
<1>2. Refuses(x, code, spent.keys, refused, refused')
  BY DEF Refuses
<1>3. 0 \in 0..MaxNonces /\ Reply(x, code, row, 0)
  BY OnboardingAssumption DEF ReplyRow
<1>4. code \in Codes /\ (row # None => HasRow(server', row.wallet))
  BY DEF Codes
<1>5. QED BY <1>1, <1>2, <1>3, <1>4, ReplyKeeps

\* The rows of attn_api have their types and their wallets.
LEMMA RowFound ==
    ASSUME PanelInv, NEW w \in Wallets
    PROVE  /\ server.row[w] \in RecordType \cup {None}
           /\ server.row[w] # None => /\ server.row[w] \in RecordType
                                      /\ server.row[w].wallet = w
                                      /\ HasRow(server, server.row[w].wallet)
BY DEF PanelInv, ServerType, RowsNamed, HasRow

\* A request that has not been answered.
LEMMA Unanswered ==
    ASSUME NEW x, x.reply = NoReply
    PROVE  x.reply.code = "none" /\ x.reply.row = None /\ x.reply.nonce = 0
BY DEF NoReply

\* A lookup that is answered keeps the invariant.
LEMMA LookupServed ==
    ASSUME PanelInv, NEW x \in calls, x.reply = NoReply, ServeLookup(x),
           UNCHANGED <<ui, page, store, spent>>
    PROVE  PanelInv' /\ ~Resends
<1> DEFINE row == server.row[x.wallet]
           code == IF row = None THEN "missing" ELSE "ok"
<1>1. x.kind = "lookup" /\ ReplyRow(x, code, row) /\ UNCHANGED <<server, refused>>
  BY DEF ServeLookup
<1>2. x.wallet \in Wallets
  BY <1>1, Received
<1>3. row \in RecordType \cup {None} /\ (row # None => HasRow(server, row.wallet))
  BY <1>2, RowFound
<1>4. code \in {"ok", "missing", "error"} /\ (code = "ok" <=> row # None)
  OBVIOUS
<1>5. spent' \in SpentType /\ spent'.keys = spent.keys
  BY PanelParts
<1> HIDE DEF row, code
<1>6. QED BY <1>1, <1>3, <1>4, <1>5, Unanswered, PlainlyAnswered

\* The admin's list keeps the invariant.
LEMMA ListServed ==
    ASSUME PanelInv, NEW x \in calls, x.reply = NoReply, ServeList(x),
           UNCHANGED <<ui, page, store, spent>>
    PROVE  PanelInv' /\ ~Resends
<1>1. x.kind = "list" /\ ReplyRow(x, "ok", None) /\ UNCHANGED <<server, refused>>
  BY DEF ServeList
<1>2. spent' \in SpentType /\ spent'.keys = spent.keys
  BY PanelParts
<1>3. QED BY <1>1, <1>2, Unanswered, PlainlyAnswered

\* A submission whose key or wallet attn_api knows keeps the invariant.
LEMMA KnownServed ==
    ASSUME PanelInv, NEW x \in calls, x.reply = NoReply, ServeKnown(x),
           UNCHANGED <<ui, page, store, spent>>
    PROVE  PanelInv' /\ ~Resends
<1>1. x.kind = "submit" /\ UNCHANGED <<server, refused>>
  BY DEF ServeKnown
<1>2. PICK w \in Wallets : ReplyRow(x, "ok", server.row[w])
  BY DEF ServeKnown
<1>3. spent' \in SpentType /\ spent'.keys = spent.keys
  BY PanelParts
<1>4. /\ server.row[w] \in RecordType \cup {None}
      /\ server.row[w] # None => HasRow(server, server.row[w].wallet)
  BY RowFound
<1>5. QED BY <1>1, <1>2, <1>3, <1>4, Unanswered, PlainlyAnswered

\* The nonce that is issued is in the hands of nobody yet.
LEMMA NextNonceIsFresh ==
    ASSUME PanelInv, NEW sw, sw.issued = server.issued + 1
    PROVE  Fresh(Browser, sw, refused, server.issued + 1)
<1> DEFINE n == server.issued + 1
<1>1. server.issued \in Nat /\ NeverStale(Browser, server, spent.keys, refused)
  BY PanelParts DEF PanelInv, Fit
<1>2. ui \in UiType /\ Browser.ui = ui /\ Browser.calls \subseteq CallType
  BY PanelParts
<1>3. Browser.ui.nonce \in Nat /\ Browser.ui.nonce <= server.issued
  BY <1>1, <1>2, OnboardingAssumption DEF UiType, NeverStale
<1>4. \A d \in Browser.calls : /\ d.nonce \in Nat /\ d.nonce <= server.issued
                               /\ d.reply.nonce \in Nat /\ d.reply.nonce <= server.issued
  <2>1. \A d \in CallType : d.nonce \in Nat /\ d.reply.nonce \in Nat
    BY OnboardingAssumption DEF CallType
  <2>2. \A d \in Browser.calls : d.nonce <= server.issued /\ d.reply.nonce <= server.issued
    BY <1>1 DEF NeverStale
  <2>3. QED BY <1>2, <2>1, <2>2
<1>5. <<"nonce", n>> \notin refused
  <2>1. n \notin 1..server.issued
    BY <1>1
  <2>2. refused \subseteq Refusable(server, spent.keys)
    BY <1>1 DEF NeverStale
  <2>3. QED BY <2>1, <2>2 DEF Refusable
<1>6. QED BY <1>1, <1>3, <1>4, <1>5 DEF Fresh

\* A nonce that is issued, or refused at the bound, keeps the invariant.
LEMMA NonceServed ==
    ASSUME PanelInv, NEW x \in calls, x.reply = NoReply, ServeNonce(x),
           UNCHANGED <<ui, page, store, spent>>
    PROVE  PanelInv' /\ ~Resends
<1>1. x.kind = "nonce" /\ refused' = refused
  BY DEF ServeNonce
<1>2. x.wallet \in Wallets
  BY <1>1, Received
<1>3. /\ server \in ServerType /\ RowsNamed(server) /\ server.issued \in Nat
      /\ spent' \in SpentType /\ spent'.keys = spent.keys
  BY PanelParts DEF PanelInv
<1>4. CASE /\ server.issued = MaxNonces /\ ReplyRow(x, "error", None) /\ UNCHANGED server
  BY <1>1, <1>3, <1>4, Unanswered, PlainlyAnswered
<1>5. CASE /\ server.issued < MaxNonces
           /\ server' = [server EXCEPT !.issued = @ + 1, !.nonce[x.wallet] = server.issued + 1]
           /\ Reply(x, "ok", None, server.issued + 1)
  <2> DEFINE n == server.issued + 1
             f == [server.nonce EXCEPT ![x.wallet] = n]
  <2>1. n \in 0..MaxNonces /\ n \in Nat /\ server.issued <= n
    BY <1>3, <1>5, OnboardingAssumption
  <2>2. f \in [Wallets -> 0..MaxNonces]
    BY <1>2, <1>3, <2>1 DEF ServerType
  <2>3. server' = [server EXCEPT !.issued = n, !.nonce = f]
    BY <1>3, <1>5 DEF ServerType
  <2> HIDE DEF f
  <2>4. server' \in ServerType /\ server'.issued = n /\ server'.row = server.row
    BY <1>3, <2>1, <2>2, <2>3 DEF ServerType
  <2>5. RowsNamed(server') /\ Grows(server, server')
    BY <1>3, <2>1, <2>4 DEF RowsNamed, Grows
  <2>6. Fresh(Browser, server', refused, n)
    BY <2>4, NextNonceIsFresh
  <2>7. Refuses(x, "ok", spent.keys, refused, refused')
    BY <1>1 DEF Refuses
  <2>8. Reply(x, "ok", None, n)
    BY <1>5
  <2> HIDE DEF n
  <2>9. QED BY <1>1, <1>3, <2>1, <2>4, <2>5, <2>6, <2>7, <2>8, Unanswered, ReplyKeeps
              DEF Codes
<1>6. QED BY <1>4, <1>5 DEF ServeNonce

\* What a refusal of a submission adds to what has been refused.
LEMMA Refused ==
    ASSUME PanelInv, NEW x \in calls, x.kind = "submit", x.reply = NoReply,
           NEW code \in {"duplicate", "nonce_invalid"},
           ReplyRow(x, code, None), UNCHANGED <<ui, page, store, spent>>,
           server' \in ServerType, RowsNamed(server'), Grows(server, server'),
           code = "duplicate" => /\ spent.keys < MaxKeys
                                 /\ refused' = refused \cup {<<"key", x.key>>},
           code = "nonce_invalid" => refused' = refused \cup {<<"nonce", x.nonce>>}
    PROVE  PanelInv' /\ ~Resends
<1>1. /\ spent' \in SpentType /\ spent'.keys = spent.keys
      /\ spent.keys \in Nat /\ MaxKeys \in Nat
  BY PanelParts, OnboardingAssumption
<1>2. Refuses(x, code, spent.keys, refused, refused')
  BY <1>1 DEF Refuses
<1>3. 0 \in 0..MaxNonces /\ Reply(x, code, None, 0) /\ code \in Codes
  BY OnboardingAssumption DEF ReplyRow, Codes
<1>4. QED BY <1>1, <1>2, <1>3, Unanswered, ReplyKeeps

\* A submission with another nonce than the wallet's keeps the invariant.
LEMMA NonceInvalidServed ==
    ASSUME PanelInv, NEW x \in calls, x.reply = NoReply, ServeNonceInvalid(x),
           UNCHANGED <<ui, page, store, spent>>
    PROVE  PanelInv' /\ ~Resends
<1>1. /\ x.kind = "submit" /\ ReplyRow(x, "nonce_invalid", None)
      /\ refused' = refused \cup {<<"nonce", x.nonce>>} /\ UNCHANGED server
  BY DEF ServeNonceInvalid, Unknown
<1>2. server' \in ServerType /\ RowsNamed(server') /\ Grows(server, server')
  BY <1>1, Received DEF PanelInv
<1>3. QED BY <1>1, <1>2, Refused

\* A row of attn_api is a record of its wallet.
LEMMA RowTyped ==
    ASSUME NEW w \in Wallets, NEW status \in Statuses, NEW vault \in BOOLEAN
    PROVE  Row(w, status, vault) \in RecordType /\ Row(w, status, vault).wallet = w
BY DEF Row, RecordType

\* attn_api with a row of the wallet w written.
LEMMA RowWritten ==
    ASSUME NEW sv \in ServerType, RowsNamed(sv), sv.issued \in Nat,
           NEW w \in Wallets, NEW r \in RecordType, r.wallet = w
    PROVE  LET sw == [sv EXCEPT !.row[w] = r]
           IN  /\ sw \in ServerType /\ RowsNamed(sw) /\ Grows(sv, sw)
               /\ HasRow(sw, w)
<1> DEFINE f == [sv.row EXCEPT ![w] = r]
           sw == [sv EXCEPT !.row = f]
<1>1. r # None
  BY NothingIsNone
<1>2. /\ f \in [Wallets -> RecordType \cup {None}] /\ f[w] = r
      /\ \A v \in Wallets : v # w => f[v] = sv.row[v]
  BY DEF ServerType
<1>3. [sv EXCEPT !.row[w] = r] = sw
  OBVIOUS
<1> HIDE DEF f
<1>4. sw \in ServerType /\ sw.row = f /\ sw.issued = sv.issued
  BY <1>2 DEF ServerType
<1> HIDE DEF sw
<1>5. RowsNamed(sw) /\ Grows(sv, sw) /\ HasRow(sw, w)
  BY <1>1, <1>2, <1>4 DEF RowsNamed, Grows, HasRow
<1>6. QED BY <1>3, <1>4, <1>5

\* attn_api once the nonce of w is consumed.
LEMMA NonceConsumed ==
    ASSUME NEW sv \in ServerType, RowsNamed(sv), sv.issued \in Nat, NEW w \in Wallets
    PROVE  LET sw == [sv EXCEPT !.nonce[w] = 0]
           IN  /\ sw \in ServerType /\ RowsNamed(sw) /\ Grows(sv, sw)
               /\ sw.row = sv.row /\ sw.issued = sv.issued
<1> DEFINE f == [sv.nonce EXCEPT ![w] = 0]
           sw == [sv EXCEPT !.nonce = f]
<1>1. f \in [Wallets -> 0..MaxNonces]
  BY OnboardingAssumption DEF ServerType
<1>2. [sv EXCEPT !.nonce[w] = 0] = sw
  OBVIOUS
<1> HIDE DEF f
<1>3. sw \in ServerType /\ sw.row = sv.row /\ sw.issued = sv.issued
  BY <1>1 DEF ServerType
<1> HIDE DEF sw
<1>4. RowsNamed(sw) /\ Grows(sv, sw)
  BY <1>3 DEF RowsNamed, Grows
<1>5. QED BY <1>2, <1>3, <1>4

\* attn_api once the row and the key of w are written.
LEMMA RowCreated ==
    ASSUME NEW sv \in ServerType, RowsNamed(sv), sv.issued \in Nat,
           NEW w \in Wallets, NEW r \in RecordType, r.wallet = w, NEW k \in 0..MaxKeys + 1
    PROVE  LET sw == [sv EXCEPT !.row[w] = r, !.key[w] = k]
           IN  /\ sw \in ServerType /\ RowsNamed(sw) /\ Grows(sv, sw)
               /\ HasRow(sw, w)
<1> DEFINE a == [sv EXCEPT !.row[w] = r]
           f == [sv.key EXCEPT ![w] = k]
           sw == [a EXCEPT !.key = f]
<1>1. a \in ServerType /\ RowsNamed(a) /\ Grows(sv, a) /\ HasRow(a, w) /\ a.key = sv.key
  <2>1. a.key = sv.key
    BY DEF ServerType
  <2> HIDE DEF a
  <2>2. QED BY <2>1, RowWritten DEF a
<1>2. [sv EXCEPT !.row[w] = r, !.key[w] = k] = sw
  BY <1>1
<1>3. f \in [Wallets -> 0..MaxKeys + 1]
  BY DEF ServerType
<1> HIDE DEF a, f
<1>4. sw \in ServerType /\ sw.row = a.row /\ sw.issued = a.issued
  BY <1>1, <1>3 DEF ServerType
<1> HIDE DEF sw
<1>5. RowsNamed(sw) /\ Grows(sv, sw) /\ HasRow(sw, w)
  BY <1>1, <1>4 DEF RowsNamed, Grows, HasRow
<1>6. QED BY <1>2, <1>4, <1>5

\* What attn_api keeps in two steps it keeps in one.
LEMMA GrowsTwice ==
    ASSUME NEW sv, NEW sw, NEW sx, Grows(sv, sw), Grows(sw, sx)
    PROVE  Grows(sv, sx)
BY DEF Grows

\* A submission that is not refused, and leaves the key that it was made with.
LEMMA CreationServed ==
    ASSUME PanelInv, NEW x \in calls, x.reply = NoReply, ServeCreation(x),
           UNCHANGED <<ui, page, store, spent>>
    PROVE  PanelInv' /\ ~Resends
<1> DEFINE w == x.wallet
           consumed == [server EXCEPT !.nonce[w] = 0]
           created(status) == [consumed EXCEPT !.row[w] = Row(w, status, FALSE),
                                               !.key[w] = x.key]
<1>1. x.kind = "submit"
  BY DEF ServeCreation, Unknown
<1>2. /\ w \in Wallets /\ x.key \in 0..MaxKeys + 1
      /\ server \in ServerType /\ RowsNamed(server) /\ server.issued \in Nat
      /\ spent' \in SpentType /\ spent'.keys = spent.keys
  BY <1>1, Received, PanelParts DEF PanelInv, CallType
<1>3. \/ /\ server' = consumed /\ ReplyRow(x, "error", None) /\ UNCHANGED refused
      \/ \E status \in {"pending", "ready"} :
            /\ server' = created(status)
            /\ ReplyRow(x, "new", Row(w, status, FALSE)) /\ UNCHANGED refused
      \/ /\ server' = created("failed") /\ ReplyRow(x, "error", None) /\ UNCHANGED refused
      \/ /\ spent.keys < MaxKeys
         /\ server' = consumed /\ ReplyRow(x, "duplicate", None)
         /\ refused' = refused \cup {<<"key", x.key>>}
  <2> DEFINE signed == x.signature = [wallet |-> x.wallet, nonce |-> x.nonce]
  <2>1. \/ /\ ~signed
           /\ server' = consumed
           /\ ReplyRow(x, "error", None)
           /\ UNCHANGED refused
        \/ \E status \in {"pending", "ready"} :
              /\ signed
              /\ server' = created(status)
              /\ ReplyRow(x, "new", Row(x.wallet, status, FALSE))
              /\ UNCHANGED refused
        \/ /\ signed
           /\ server' = created("failed")
           /\ ReplyRow(x, "error", None)
           /\ UNCHANGED refused
        \/ /\ signed /\ server.row[x.wallet] # None /\ spent.keys < MaxKeys
           /\ server' = consumed
           /\ ReplyRow(x, "duplicate", None)
           /\ refused' = refused \cup {<<"key", x.key>>}
    BY Zenon DEF ServeCreation
  <2> HIDE DEF signed, consumed, created
  <2>2. QED BY <2>1
<1>4. /\ consumed \in ServerType /\ RowsNamed(consumed) /\ Grows(server, consumed)
      /\ consumed.issued \in Nat
  BY <1>2, NonceConsumed
<1>5. ASSUME NEW status \in Statuses
      PROVE  /\ created(status) \in ServerType /\ RowsNamed(created(status))
             /\ Grows(server, created(status)) /\ HasRow(created(status), w)
             /\ Row(w, status, FALSE) \in RecordType /\ Row(w, status, FALSE).wallet = w
  <2> DEFINE r == Row(w, status, FALSE)
  <2>1. r \in RecordType /\ r.wallet = w
    BY <1>2, RowTyped
  <2> HIDE DEF w, consumed, r
  <2>2. /\ created(status) \in ServerType /\ RowsNamed(created(status))
        /\ Grows(consumed, created(status)) /\ HasRow(created(status), w)
    BY <1>2, <1>4, <2>1, RowCreated DEF r
  <2>3. QED BY <1>4, <2>1, <2>2, GrowsTwice DEF r
<1> HIDE DEF consumed, created, w
<1>6. 0 \in 0..MaxNonces
  BY OnboardingAssumption
<1>7. ASSUME NEW code \in {"new", "error"}, NEW row \in RecordType \cup {None},
             row # None => code = "new" /\ HasRow(server', row.wallet),
             ReplyRow(x, code, row), refused' = refused,
             server' \in ServerType, RowsNamed(server'), Grows(server, server')
      PROVE  PanelInv' /\ ~Resends
  <2>1. Refuses(x, code, spent.keys, refused, refused') /\ code \in Codes
    BY <1>7 DEF Refuses, Codes
  <2>2. Reply(x, code, row, 0)
    BY <1>7 DEF ReplyRow
  <2>3. QED BY <1>1, <1>2, <1>6, <1>7, <2>1, <2>2, Unanswered, ReplyKeeps
<1>8. CASE /\ server' = consumed /\ ReplyRow(x, "error", None) /\ UNCHANGED refused
  BY <1>4, <1>7, <1>8
<1>9. CASE \E status \in {"pending", "ready"} :
              /\ server' = created(status)
              /\ ReplyRow(x, "new", Row(w, status, FALSE)) /\ UNCHANGED refused
  <2>1. PICK status \in Statuses :
           /\ server' = created(status)
           /\ ReplyRow(x, "new", Row(w, status, FALSE)) /\ UNCHANGED refused
    BY <1>9 DEF Statuses
  <2>2. QED BY <1>5, <1>7, <2>1
<1>10. CASE /\ server' = created("failed") /\ ReplyRow(x, "error", None)
            /\ UNCHANGED refused
  <2>1. "failed" \in Statuses
    BY DEF Statuses
  <2>2. QED BY <1>5, <1>7, <1>10, <2>1
<1>11. CASE /\ spent.keys < MaxKeys
            /\ server' = consumed /\ ReplyRow(x, "duplicate", None)
            /\ refused' = refused \cup {<<"key", x.key>>}
  BY <1>1, <1>4, <1>11, Refused
<1>12. QED BY <1>3, <1>8, <1>9, <1>10, <1>11

\* A call about a row keeps the invariant.
LEMMA RowServed ==
    ASSUME PanelInv, NEW x \in calls, x.reply = NoReply, ServeRow(x),
           UNCHANGED <<ui, page, store, spent>>
    PROVE  PanelInv' /\ ~Resends
<1> DEFINE w == x.wallet
           row == server.row[w]
           r == Written(x)
           sw == [server EXCEPT !.row[w] = r]
<1>1. /\ x.kind \in {"refresh", "link", "resubmit", "override"} /\ UNCHANGED refused
      /\ \/ ReplyRow(x, "error", None) /\ UNCHANGED server
         \/ x.from # "creator" /\ server' = sw /\ ReplyRow(x, "ok", r)
  BY DEF ServeRow
<1>2. /\ w \in Wallets /\ CallFiled(x, server)
      /\ server \in ServerType /\ RowsNamed(server) /\ server.issued \in Nat
      /\ spent' \in SpentType /\ spent'.keys = spent.keys
  BY <1>1, Received, PanelParts DEF PanelInv
<1>3. CASE ReplyRow(x, "error", None) /\ UNCHANGED server
  BY <1>1, <1>2, <1>3, Unanswered, PlainlyAnswered
<1>4. CASE x.from # "creator" /\ server' = sw /\ ReplyRow(x, "ok", r)
  <2>1. row # None /\ (x.kind = "override" => x.from \in Statuses)
    BY <1>1, <1>2, <1>4 DEF CallFiled, HasRow
  <2>2. row \in RecordType /\ row.wallet = w /\ row.vault \in BOOLEAN
    BY <1>2, <2>1, RowFound DEF RecordType
  <2>3. r \in RecordType /\ r.wallet = w
    <3>1. [row EXCEPT !.vault = TRUE] \in RecordType
          /\ [row EXCEPT !.vault = TRUE].wallet = w
      BY <2>2 DEF RecordType
    <3>2. "pending" \in Statuses
      BY DEF Statuses
    <3>3. CASE x.kind = "link"
      BY <3>1, <3>3 DEF Written
    <3>4. CASE x.kind = "resubmit" /\ row.status # "ready"
      BY <1>2, <2>2, <3>2, <3>4, RowTyped DEF Written
    <3>5. CASE x.kind = "override"
      BY <1>2, <2>1, <2>2, <3>5, RowTyped DEF Written
    <3>6. CASE ~(x.kind = "link" \/ x.kind = "override"
                 \/ (x.kind = "resubmit" /\ row.status # "ready"))
      BY <2>2, <3>6 DEF Written
    <3>7. QED BY <3>3, <3>4, <3>5, <3>6
  <2> HIDE DEF w, r, row
  <2>4. sw \in ServerType /\ RowsNamed(sw) /\ Grows(server, sw) /\ HasRow(sw, w)
    BY <1>2, <2>3, RowWritten
  <2> HIDE DEF sw
  <2>5. Refuses(x, "ok", spent.keys, refused, refused')
    BY <1>1 DEF Refuses
  <2>6. Reply(x, "ok", r, 0) /\ 0 \in 0..MaxNonces
    BY <1>4, OnboardingAssumption DEF ReplyRow
  <2>7. "ok" \in Codes /\ HasRow(server', r.wallet)
    BY <1>4, <2>3, <2>4 DEF Codes
  <2>8. QED BY <1>1, <1>2, <1>4, <2>3, <2>4, <2>5, <2>6, <2>7, Unanswered, ReplyKeeps
<1>5. QED BY <1>1, <1>3, <1>4

\* Every answer of attn_api keeps the invariant.
LEMMA Served ==
    ASSUME PanelInv, NEW x \in calls, Serve(x)
    PROVE  PanelInv' /\ ~Resends
<1>1. x.reply = NoReply /\ UNCHANGED <<ui, page, store, spent>>
  BY DEF Serve
<1>2. QED BY <1>1, LookupServed, NonceServed, KnownServed, NonceInvalidServed,
             CreationServed, RowServed, ListServed DEF Serve

\* A lost request or answer keeps the invariant.
LEMMA Faulted ==
    ASSUME PanelInv, NEW x \in calls, Fault(x)
    PROVE  PanelInv' /\ ~Resends
<1>1. /\ x.reply.code \notin {"duplicate", "nonce_invalid"} /\ ReplyRow(x, "error", None)
      /\ UNCHANGED <<ui, page, store, server, refused>>
      /\ spent.faults > 0 /\ spent' = [spent EXCEPT !.faults = @ - 1]
  BY DEF Fault
<1>2. spent' \in SpentType /\ spent'.keys = spent.keys
  BY <1>1, PanelParts DEF SpentType
<1>3. QED BY <1>1, <1>2, PlainlyAnswered

\* A pending request that is settled keeps the invariant.
LEMMA MadeSafe ==
    ASSUME PanelInv, NEW w \in Wallets, NEW status \in {"ready", "failed"},
           SafeMade(w, status)
    PROVE  PanelInv' /\ ~Resends
<1> DEFINE r == Row(w, status, server.row[w].vault)
<1>1. /\ server.row[w] # None /\ server' = [server EXCEPT !.row[w] = r]
      /\ UNCHANGED <<ui, page, store, calls, spent, refused>>
  BY DEF SafeMade
<1>2. server \in ServerType /\ RowsNamed(server) /\ server.issued \in Nat
  BY PanelParts DEF PanelInv
<1>3. r \in RecordType /\ r.wallet = w
  BY <1>1, RowFound, RowTyped DEF RecordType, Statuses
<1> HIDE DEF r
<1>4. server' \in ServerType /\ RowsNamed(server') /\ Grows(server, server')
  BY <1>1, <1>2, <1>3, RowWritten
<1>5. Fit(Browser, server', spent.keys, refused)
  BY <1>4, FitServed DEF PanelInv
<1>6. Browser' = Browser
  BY <1>1 DEF Browser
<1>7. QED BY <1>1, <1>4, <1>5, <1>6 DEF PanelInv, Resends

-----------------------------------------------------------------------------
(* What the page makes of the answers.                                     *)

\* The browser c has no record that b had not.
NoNewRecord(b, c) == \A r \in RecordType : Has(c, r) => Has(b, r)

\* An answer that is handled, to a request that belongs to no submission, and shows
\* nothing but what was answered.
LEMMA FitFinished ==
    ASSUME NEW b, NEW sv, NEW k, NEW rf, Fit(b, sv, k, rf),
           NEW x \in b.calls, ~Submits(x),
           NEW c \in BrowserType, SameForm(b, c), Tells(c), NoNewRecord(b, c),
           c.calls = b.calls \ {x}
    PROVE  Fit(c, sv, k, rf)
<1> DEFINE a == SetCalls(b, b.calls \ {x})
<1>1. Fit(a, sv, k, rf)
  BY FitHandled
<1>2. /\ b \in BrowserType /\ b.calls \ {x} \subseteq CallType
  BY Parts DEF Fit
<1>3. a.ui = b.ui /\ a.calls = c.calls
  BY <1>2, CallsSet
<1> HIDE DEF a
<1>4. SameForm(a, c) /\ a.calls \subseteq c.calls /\ c.calls \ a.calls = {}
  BY <1>3 DEF SameForm
<1>5. ASSUME NEW r \in RecordType, Has(c, r)
      PROVE  r.from = "creator" \/ HasRow(sv, r.wallet)
  <2>1. Has(b, r) /\ r.from \in {"api", "creator"}
    BY <1>5 DEF NoNewRecord, RecordType
  <2>2. QED BY <2>1 DEF Fit, Filed
<1>6. QED BY <1>1, <1>4, <1>5, FitGrows

\* The request by which a refused submission goes on.
Recovery(y) ==
    /\ y \in CallType /\ y.by = "recover" /\ y.kind \in {"lookup", "nonce"}
    /\ y.wallet \in Wallets /\ y.nonce = 0 /\ y.reply = NoReply

\* Where the key and the nonce come from that the form holds once x is answered, if k keys
\* were made before and l are made now.
FormFrom(b, x, k, l, c) ==
    /\ \/ l = k /\ c.ui.key = b.ui.key
       \/ l = k + 1 /\ l \in 0..MaxKeys + 1 /\ c.ui.key = l
    /\ c.ui.nonce \in {b.ui.nonce, 0, x.reply.nonce}

\* The form of an answered request holds nothing stale, nor does what is in flight.
LEMMA NotStaleAnswered ==
    ASSUME NEW b \in BrowserType, NEW sv, NEW k, NEW rf,
           NeverStale(b, sv, k, rf), OneAtATime(b),
           NEW x \in b.calls, NEW new,
           \A y \in new : /\ y.nonce = 0 /\ y.reply.nonce = 0
                          /\ y.kind # "submit" /\ y.by \notin {"form", "gone"},
           NEW l, NEW c \in BrowserType, c.calls = (b.calls \ {x}) \cup new,
           FormFrom(b, x, k, l, c),
           FormCode(c, "duplicate") => l <= MaxKeys,
           <<"key", c.ui.key>> \in rf => FormCode(c, "duplicate"),
           <<"nonce", c.ui.nonce>> \in rf
              => FormCode(c, "nonce_invalid") \/ c.ui.submitting = "lookup"
    PROVE  NeverStale(c, sv, l, rf)
<1>1. /\ k \in 0..MaxKeys + 1 /\ k \in Nat /\ sv.issued \in Nat
      /\ rf \subseteq Refusable(sv, k) /\ b.ui.key <= k /\ b.ui.nonce <= sv.issued
  BY OnboardingAssumption DEF NeverStale
<1>2. l \in 0..MaxKeys + 1 /\ l \in Nat /\ k <= l /\ c.ui.key <= l
  BY <1>1, OnboardingAssumption DEF FormFrom
<1>3. Refusable(sv, k) \subseteq Refusable(sv, l)
  BY <1>1, <1>2 DEF Refusable
<1>4. \A d \in b.calls : /\ d.nonce <= sv.issued /\ d.reply.nonce <= sv.issued
                         /\ d.kind = "submit" => d.key \in 1..k /\ d.nonce # 0
                         /\ d.by = "gone" => d.key # b.ui.key /\ d.nonce # b.ui.nonce
                         /\ d.reply.nonce # 0 => /\ d.reply.nonce # b.ui.nonce
                                                 /\ <<"nonce", d.reply.nonce>> \notin rf
  BY DEF NeverStale
<1>5. \A d, e \in b.calls :
         d.reply.nonce # 0 => /\ e.nonce # d.reply.nonce
                              /\ e.reply.nonce = d.reply.nonce => e = d
  BY DEF NeverStale
<1>6. \A d \in b.calls : d.by = "gone" => d.kind = "submit"
  BY DEF OneAtATime
<1>7. c.ui.nonce <= sv.issued
  BY <1>1, <1>4 DEF FormFrom
<1>8. ASSUME NEW d \in b.calls, d # x
      PROVE  /\ d.nonce <= sv.issued /\ d.reply.nonce <= sv.issued
             /\ d.kind = "submit" => d.key \in 1..l /\ d.nonce # 0
             /\ d.by = "gone" => d.key # c.ui.key /\ d.nonce # c.ui.nonce
             /\ d.reply.nonce # 0 => /\ d.reply.nonce # c.ui.nonce
                                     /\ <<"nonce", d.reply.nonce>> \notin rf
  <2>1. d.kind = "submit" => d.key \in 1..l /\ d.nonce # 0
    <3>1. 1..k \subseteq 1..l
      BY <1>1, <1>2
    <3>2. d.kind = "submit" => d.key \in 1..k /\ d.nonce # 0
      BY <1>4
    <3>3. QED BY <3>1, <3>2
  <2>2. d.by = "gone" => d.key # c.ui.key
    <3>1. d.by = "gone" => d.key \in 1..k /\ d.key # b.ui.key
      BY <1>4, <1>6
    <3>2. \A i \in 1..k : i # k + 1
      BY <1>1
    <3>3. QED BY <3>1, <3>2 DEF FormFrom
  <2>3. d.by = "gone" => d.nonce # c.ui.nonce
    <3>1. d.by = "gone" => d.nonce # b.ui.nonce /\ d.nonce # 0
      BY <1>4, <1>6
    <3>2. x.reply.nonce # 0 => d.nonce # x.reply.nonce
      BY <1>5
    <3>3. QED BY <3>1, <3>2 DEF FormFrom
  <2>4. d.reply.nonce # 0 => d.reply.nonce # c.ui.nonce
    <3>1. d.reply.nonce # 0 => d.reply.nonce # b.ui.nonce /\ x.reply.nonce # d.reply.nonce
      BY <1>4, <1>5, <1>8
    <3>2. QED BY <3>1 DEF FormFrom
  <2>5. QED BY <1>4, <2>1, <2>2, <2>3, <2>4
<1>9. ASSUME NEW d \in c.calls
      PROVE  /\ d.nonce <= sv.issued /\ d.reply.nonce <= sv.issued
             /\ d.kind = "submit" => d.key \in 1..l /\ d.nonce # 0
             /\ d.by = "gone" => d.key # c.ui.key /\ d.nonce # c.ui.nonce
             /\ d.reply.nonce # 0 => /\ d.reply.nonce # c.ui.nonce
                                     /\ <<"nonce", d.reply.nonce>> \notin rf
  <2>1. CASE d \in b.calls /\ d # x
    BY <1>8, <2>1
  <2>2. CASE d \in new
    BY <1>1, <2>2
  <2>3. QED BY <2>1, <2>2
<1>10. ASSUME NEW d \in c.calls, NEW e \in c.calls, d.reply.nonce # 0
       PROVE  e.nonce # d.reply.nonce /\ (e.reply.nonce = d.reply.nonce => e = d)
  <2>1. d \in b.calls
    BY <1>10
  <2>2. CASE e \in b.calls
    BY <1>5, <1>10, <2>1, <2>2
  <2>3. CASE e \in new
    BY <1>10, <2>3
  <2>4. QED BY <2>2, <2>3
<1>11. QED BY <1>1, <1>2, <1>3, <1>7, <1>9, <1>10 DEF NeverStale

\* A submission that is answered is over, or goes on by one request.
LEMMA FitAdvances ==
    ASSUME NEW b, NEW sv, NEW k, NEW rf, Fit(b, sv, k, rf),
           NEW x \in b.calls, Submits(x), NEW new,
           NEW c \in BrowserType, Tells(c), NoNewRecord(b, c),
           c.calls = (b.calls \ {x}) \cup new, c.ui.signing = b.ui.signing,
           \/ new = {} /\ c.ui.submitting = "no"
           \/ \E y : new = {y} /\ Recovery(y) /\ c.ui.submitting = StageOf(y),
           NEW l, FormFrom(b, x, k, l, c), <<"key", c.ui.key>> \notin rf,
           <<"nonce", c.ui.nonce>> \notin rf \/ c.ui.submitting = "lookup"
    PROVE  Fit(c, sv, l, rf)
<1>1. /\ b \in BrowserType /\ OneAtATime(b) /\ PromptOpen(b) /\ Filed(b, sv)
      /\ NeverStale(b, sv, k, rf)
  BY DEF Fit
<1>2. \A y \in new : Recovery(y) /\ c.ui.submitting = StageOf(y) /\ new = {y}
  OBVIOUS
<1>3. \A d \in b.calls : d # x => ~Submits(d)
  BY <1>1 DEF OneAtATime
<1>4. Filed(c, sv)
  <2>1. \A y \in new : CallFiled(y, sv)
    BY <1>2 DEF Recovery, CallFiled, NoReply
  <2>2. QED BY <1>1, <2>1 DEF Filed, NoNewRecord
<1>5. OneAtATime(c)
  <2>1. ASSUME NEW d \in c.calls
        PROVE  /\ d.kind = "submit" <=> d.by \in {"form", "gone"}
               /\ d.by = "recover" => d.kind \in {"lookup", "nonce"}
               /\ Submits(d) => d \in new /\ c.ui.submitting = StageOf(d)
    <3>1. CASE d \in new
      BY <1>2, <3>1 DEF Recovery, Submits
    <3>2. CASE d \in b.calls /\ d # x
      BY <1>1, <1>3, <3>2 DEF OneAtATime
    <3>3. QED BY <3>1, <3>2
  <2>2. \A d, e \in c.calls : Submits(d) /\ Submits(e) => d = e
    BY <1>2, <2>1
  <2>3. c.ui.submitting # "no" => \E d \in c.calls : Submits(d)
    BY DEF Recovery, Submits
  <2>4. QED BY <2>1, <2>2, <2>3 DEF OneAtATime
<1>6. PromptOpen(c)
  BY <1>1, <1>2 DEF PromptOpen, Recovery
<1>7. ~FormCode(c, "duplicate")
  BY <1>2, <1>3 DEF FormCode, Submits, Recovery
<1>8. \A y \in new : /\ y.nonce = 0 /\ y.reply.nonce = 0
                     /\ y.kind # "submit" /\ y.by \notin {"form", "gone"}
  BY <1>2 DEF Recovery, NoReply
<1>9. NeverStale(c, sv, l, rf)
  BY <1>1, <1>7, <1>8, NotStaleAnswered
<1>10. QED BY <1>4, <1>5, <1>6, <1>9 DEF Fit

\* The request of the recovery, and the stage it stands for.
LEMMA RecoveryMade ==
    ASSUME NEW w \in Wallets, NEW kind \in {"lookup", "nonce"}
    PROVE  /\ Recovery(Call(kind, w, "recover"))
           /\ StageOf(Call(kind, w, "recover")) = kind
<1>1. kind \in Kinds /\ "recover" \in Callers
  BY DEF Kinds, Callers
<1>2. QED BY <1>1, CallMade DEF Recovery, StageOf

\* What a lookup's answer makes of the browser, whoever asked for it.
LEMMA LookupIsShown ==
    ASSUME PanelInv, NEW x \in calls, x.kind = "lookup"
    PROVE  LET c == LookedUp(Handled(x), x)
           IN  /\ c \in BrowserType /\ SameForm(Browser, c) /\ Tells(c)
               /\ NoNewRecord(Browser, c) /\ c.calls = calls \ {x}
<1> DEFINE a == Handled(x)
           f == IF a.ui.fetching = x.wallet THEN None ELSE a.ui.fetching
           s == IF x.reply.code = "error" THEN "error" ELSE "done"
           u == [a.ui EXCEPT !.fetching = f, !.pkey = x.wallet, !.pstate = s]
           free == SetUi(a, u)
           c == LookedUp(a, x)
<1>1. /\ Browser \in BrowserType /\ Tells(Browser) /\ Browser.calls = calls
      /\ calls \subseteq CallType /\ CallFiled(x, server)
  BY PanelParts, Received
<1>2. x.wallet \in Wallets /\ (x.reply.code = "ok" => x.reply.row # None)
  BY <1>1 DEF CallFiled
<1>3. /\ a \in BrowserType /\ a.ui = Browser.ui /\ a.page = Browser.page
      /\ a.store = Browser.store /\ a.calls = calls \ {x}
  BY <1>1, CallsSet DEF Handled
<1> HIDE DEF a
<1>4. /\ a.ui \in UiType /\ f \in Wallets \cup {None}
      /\ s \in {"idle", "loading", "done", "error"}
  BY <1>3, Parts DEF UiType
<1>5. c = IF x.reply.code = "ok" THEN Show(free, x.reply.row, "existing") ELSE free
  BY <1>3 DEF LookedUp
<1> HIDE DEF f, s, c
<1>6. u \in UiType
  BY <1>2, <1>4 DEF UiType
<1>7. /\ u.result = a.ui.result /\ u.notice = a.ui.notice /\ u.detected = a.ui.detected
      /\ u.key = a.ui.key /\ u.nonce = a.ui.nonce /\ u.submitting = a.ui.submitting
      /\ u.signing = a.ui.signing
  BY <1>4 DEF UiType
<1> HIDE DEF u
<1>8. /\ free \in BrowserType /\ free.ui = u /\ free.page = a.page
      /\ free.store = a.store /\ free.calls = a.calls
  BY <1>3, <1>6, UiSet
<1> HIDE DEF free
<1>9. SameForm(Browser, free) /\ Tells(free) /\ NoNewRecord(Browser, free)
  BY <1>1, <1>3, <1>7, <1>8 DEF SameForm, Tells, NoNewRecord, Has
<1>10. CASE x.reply.code # "ok"
  <2>1. /\ c \in BrowserType /\ SameForm(Browser, c) /\ Tells(c)
        /\ NoNewRecord(Browser, c) /\ c.calls = calls \ {x}
    BY <1>3, <1>5, <1>8, <1>9, <1>10
  <2>2. QED BY <2>1 DEF c, a
<1>11. CASE x.reply.code = "ok"
  <2> DEFINE r == x.reply.row
  <2>1. r \in RecordType /\ Has(Browser, r)
    BY <1>1, <1>2, <1>11 DEF CallType, Has
  <2>2. /\ Announces(free, c) /\ Tells(c) /\ c.ui.result = r
        /\ c.store.safes = [free.store.safes EXCEPT ![r.wallet] = r]
    <3>1. c = Show(free, r, "existing")
      BY <1>5, <1>11
    <3>2. free.ui.detected # None => free.page.safeDetected
      BY <1>9 DEF Tells
    <3>3. QED BY <1>8, <2>1, <3>1, <3>2, ResultIsShown
  <2>3. c \in BrowserType /\ SameForm(Browser, c) /\ c.calls = calls \ {x}
    BY <1>3, <1>8, <1>9, <2>2 DEF Announces, Beside, SameForm
  <2>4. \A v \in RecordType : Has(c, v) => Has(free, v) \/ v = r
    <3>1. free.store.safes \in [Wallets -> RecordType \cup {None}]
      BY <1>8, Parts DEF StoreType
    <3>2. QED BY <2>2, <3>1 DEF Has, Announces
  <2>5. NoNewRecord(Browser, c)
    BY <1>9, <2>1, <2>4 DEF NoNewRecord
  <2>6. QED BY <2>2, <2>3, <2>5 DEF c, a
<1>12. QED BY <1>10, <1>11

\* The answer of a lookup keeps the invariant, also in a recovery.
LEMMA LookupAnswered ==
    ASSUME PanelInv, NEW x \in calls, AnswerLookup(x)
    PROVE  PanelInv' /\ ~Resends
<1> DEFINE b == LookedUp(Handled(x), x)
           w == x.wallet
<1>1. /\ x.kind = "lookup" /\ x.by # "gone" /\ UNCHANGED <<server, spent, refused>>
      /\ Become(IF x.by = "recover" THEN RecoverNonce(b, w) ELSE b)
  BY DEF AnswerLookup, Answered
<1>2. /\ Browser \in BrowserType /\ Browser.calls = calls /\ Browser.ui = ui
      /\ spent' \in SpentType /\ x \in CallType
      /\ w \in Wallets /\ Fit(Browser, server, spent.keys, refused)
  BY <1>1, PanelParts, Received DEF PanelInv
<1>3. OneAtATime(Browser) /\ NeverStale(Browser, server, spent.keys, refused)
  BY <1>2 DEF Fit
<1>4. /\ b \in BrowserType /\ SameForm(Browser, b) /\ Tells(b)
      /\ NoNewRecord(Browser, b) /\ b.calls = calls \ {x}
  BY <1>1, LookupIsShown
<1> HIDE DEF b, w
<1>5. CASE x.by # "recover"
  <2>1. ~Submits(x)
    BY <1>1, <1>2, <1>3, <1>5 DEF OneAtATime, Submits
  <2>2. Fit(b, server, spent.keys, refused)
    BY <1>2, <1>4, <2>1, FitFinished
  <2>3. Become(b) /\ \A d \in b.calls \ calls : d.kind = "submit" => d.by # "form"
    BY <1>1, <1>4, <1>5
  <2>4. QED BY <1>1, <1>2, <2>2, <2>3, HandlerKeeps
<1>6. CASE x.by = "recover"
  <2> DEFINE v == [b.ui EXCEPT !.signature = None, !.nonce = 0, !.submitting = "nonce"]
             a == SetUi(b, v)
             u == [v EXCEPT !.askingNonce = TRUE]
             e == SetUi(b, u)
             y == Call("nonce", w, "recover")
             c == Ask(e, y)
  <2>1. b.ui \in UiType
    BY <1>4, Parts
  <2>2. v \in UiType
    <3>1. 0 \in 0..MaxNonces
      BY OnboardingAssumption
    <3>2. [b.ui EXCEPT !.signature = None] \in UiType
      BY <2>1 DEF UiType
    <3> DEFINE g == [b.ui EXCEPT !.signature = None]
    <3>3. v = [g EXCEPT !.nonce = 0, !.submitting = "nonce"]
      BY <2>1 DEF UiType
    <3> HIDE DEF v
    <3>4. g \in UiType
      BY <3>2
    <3> HIDE DEF g
    <3>5. QED BY <3>1, <3>3, <3>4 DEF UiType
  <2>3. /\ v.nonce = 0 /\ v.submitting = "nonce" /\ v.key = b.ui.key
        /\ v.signing = b.ui.signing /\ v.result = b.ui.result
        /\ v.detected = b.ui.detected /\ v.notice = b.ui.notice
    BY <2>1 DEF UiType
  <2>4. a.ui = v
    BY <1>4, <2>2, UiSet
  <2>5. SetUi(a, u) = e
    BY DEF SetUi
  <2>6. RecoverNonce(b, w) = c
    BY <2>4, <2>5 DEF RecoverNonce, issueNonce
  <2> HIDE DEF v, a
  <2>7. /\ u \in UiType
        /\ u.nonce = 0 /\ u.submitting = "nonce" /\ u.key = b.ui.key
        /\ u.signing = b.ui.signing /\ u.result = b.ui.result
        /\ u.detected = b.ui.detected /\ u.notice = b.ui.notice
    BY <2>2, <2>3 DEF UiType
  <2> HIDE DEF u
  <2>8. /\ e \in BrowserType /\ e.ui = u /\ e.page = b.page /\ e.store = b.store
        /\ e.calls = b.calls
    BY <1>4, <2>7, UiSet
  <2> HIDE DEF e
  <2>9. Recovery(y) /\ StageOf(y) = "nonce" /\ y.reply.row = None
    BY <1>2, RecoveryMade DEF Recovery, NoReply
  <2> HIDE DEF y
  <2>10. /\ c \in BrowserType /\ c.ui = u /\ c.page = b.page /\ c.store = b.store
         /\ c.calls = (calls \ {x}) \cup {y}
    BY <1>4, <2>8, <2>9, Asked DEF Recovery
  <2> HIDE DEF c
  <2>11. Tells(c)
    BY <1>4, <2>7, <2>10 DEF Tells
  <2>12. NoNewRecord(Browser, c)
    <3>1. \A r \in RecordType : Has(c, r) => Has(b, r)
      BY <1>4, <2>7, <2>9, <2>10, NothingIsNone DEF Has
    <3>2. QED BY <1>4, <3>1 DEF NoNewRecord
  <2>13. FormFrom(Browser, x, spent.keys, spent.keys, c)
    BY <1>4, <2>7, <2>10 DEF FormFrom, SameForm
  <2>14. <<"key", c.ui.key>> \notin refused
    <3>1. ~FormCode(Browser, "duplicate")
      BY <1>2, <1>3, <1>6 DEF FormCode, OneAtATime, Submits
    <3>2. c.ui.key = Browser.ui.key
      BY <1>4, <2>7, <2>10 DEF SameForm
    <3>3. QED BY <1>3, <3>1, <3>2 DEF NeverStale
  <2>15. <<"nonce", c.ui.nonce>> \notin refused
    <3>1. refused \subseteq Refusable(server, spent.keys)
      BY <1>3 DEF NeverStale
    <3>2. QED BY <2>7, <2>10, <3>1 DEF Refusable
  <2>16. Fit(c, server, spent.keys, refused)
    <3>1. Submits(x) /\ c.ui.signing = Browser.ui.signing /\ c.ui.submitting = StageOf(y)
      BY <1>4, <1>6, <2>7, <2>9, <2>10 DEF Submits, SameForm
    <3>2. QED BY <1>2, <2>9, <2>10, <2>11, <2>12, <2>13, <2>14, <2>15, <3>1, FitAdvances
  <2>17. Become(c) /\ \A d \in c.calls \ calls : d.kind = "submit" => d.by # "form"
    BY <1>1, <1>6, <2>6, <2>9, <2>10 DEF Recovery
  <2>18. QED BY <1>1, <1>2, <2>16, <2>17, HandlerKeeps
<1>7. QED BY <1>5, <1>6

\* The panel u with the same record, whatever it has of the form.
SameRecord(u) ==
    u.result = ui.result /\ u.detected = ui.detected /\ u.notice = ui.notice

\* An answer that changes the form only shows the same record.
LEMMA RecordKept ==
    ASSUME PanelInv, NEW x \in calls, NEW u \in UiType, SameRecord(u)
    PROVE  LET c == SetUi(Handled(x), u)
           IN  /\ c \in BrowserType /\ c.ui = u /\ c.page = page /\ c.store = store
               /\ c.calls = calls \ {x}
               /\ Tells(c) /\ NoNewRecord(Browser, c)
<1> DEFINE a == Handled(x)
           c == SetUi(a, u)
<1>1. /\ Browser \in BrowserType /\ Tells(Browser) /\ Browser.calls = calls
      /\ Browser.ui = ui /\ Browser.page = page /\ Browser.store = store
      /\ calls \subseteq CallType
  BY PanelParts
<1>2. /\ a \in BrowserType /\ a.page = page /\ a.store = store /\ a.calls = calls \ {x}
  BY <1>1, CallsSet DEF Handled
<1> HIDE DEF a
<1>3. /\ c \in BrowserType /\ c.ui = u /\ c.page = page /\ c.store = store
      /\ c.calls = calls \ {x}
  BY <1>2, UiSet
<1> HIDE DEF c
<1>4. Tells(c) /\ NoNewRecord(Browser, c)
  BY <1>1, <1>3 DEF SameRecord, Tells, NoNewRecord, Has
<1>5. QED BY <1>3, <1>4 DEF c, a

\* A submission that is answered: nothing of the form has been refused, but for what the
\* answer says.
LEMMA SubmissionInForm ==
    ASSUME PanelInv, NEW x \in calls, x.kind = "submit", x.by # "gone"
    PROVE  /\ x.by = "form" /\ Submits(x) /\ ui.submitting = "post"
           /\ x.reply.code # "duplicate" => <<"key", ui.key>> \notin refused
           /\ x.reply.code = "duplicate" => spent.keys <= MaxKeys
           /\ x.reply.code # "nonce_invalid" => <<"nonce", ui.nonce>> \notin refused
<1>1. Browser.calls = calls /\ Browser.ui = ui
  BY PanelParts
<1>2. OneAtATime(Browser) /\ NeverStale(Browser, server, spent.keys, refused)
  BY DEF PanelInv, Fit
<1>3. x.by = "form"
  BY <1>1, <1>2 DEF OneAtATime
<1>4. Submits(x) /\ ui.submitting = "post"
  BY <1>1, <1>2, <1>3 DEF OneAtATime, Submits, StageOf
<1>5. ASSUME NEW code PROVE FormCode(Browser, code) <=> x.reply.code = code
  BY <1>1, <1>2, <1>3 DEF FormCode, OneAtATime, Submits
<1>6. QED BY <1>1, <1>2, <1>3, <1>4, <1>5 DEF NeverStale

\* A submission that fails keeps the invariant.
LEMMA FailureAnswered ==
    ASSUME PanelInv, NEW x \in calls, SubmitFailed(x)
    PROVE  PanelInv' /\ ~Resends
<1> DEFINE u == [ui EXCEPT !.submitting = "no"]
           c == SetUi(Handled(x), u)
<1>1. /\ x.kind = "submit" /\ x.by # "gone" /\ x.reply.code = "error"
      /\ Become(c) /\ UNCHANGED <<server, spent, refused>>
  BY DEF SubmitFailed, Answered
<1>2. /\ ui \in UiType /\ spent' \in SpentType /\ Browser.ui = ui /\ Browser.calls = calls
      /\ Fit(Browser, server, spent.keys, refused)
  BY <1>1, PanelParts DEF PanelInv
<1>3. /\ u \in UiType /\ SameRecord(u)
      /\ u.submitting = "no" /\ u.key = ui.key /\ u.nonce = ui.nonce
      /\ u.signing = ui.signing
  BY <1>2 DEF UiType, SameRecord
<1> HIDE DEF u
<1>4. /\ c \in BrowserType /\ c.ui = u /\ c.calls = calls \ {x}
      /\ Tells(c) /\ NoNewRecord(Browser, c)
  BY <1>3, RecordKept
<1> HIDE DEF c
<1>5. /\ Submits(x) /\ <<"key", ui.key>> \notin refused /\ <<"nonce", ui.nonce>> \notin refused
  BY <1>1, SubmissionInForm
<1>6. FormFrom(Browser, x, spent.keys, spent.keys, c)
  BY <1>2, <1>3, <1>4 DEF FormFrom
<1>7. Fit(c, server, spent.keys, refused)
  <2>1. c.calls = (calls \ {x}) \cup {}
    BY <1>4
  <2>2. QED BY <1>2, <1>3, <1>4, <1>5, <1>6, <2>1, FitAdvances
<1>8. QED BY <1>1, <1>2, <1>4, <1>7, HandlerKeeps

\* A submission that is answered by a record keeps the invariant.
LEMMA SubmissionAnswered ==
    ASSUME PanelInv, NEW x \in calls, SubmitAnswered(x)
    PROVE  PanelInv' /\ ~Resends
<1> DEFINE u == [ui EXCEPT !.submitting = "no"]
           a == SetUi(Handled(x), u)
           r == x.reply.row
           type == IF x.reply.code = "new" THEN "new" ELSE "existing"
           c == Show(a, r, type)
<1>1. /\ x.kind = "submit" /\ x.by # "gone" /\ r # None
      /\ Become(c) /\ UNCHANGED <<server, spent, refused>>
  BY DEF SubmitAnswered, Answered
<1>2. /\ ui \in UiType /\ spent' \in SpentType /\ Browser.ui = ui /\ Browser.calls = calls
      /\ Fit(Browser, server, spent.keys, refused)
      /\ x \in CallType /\ CallFiled(x, server)
  BY <1>1, PanelParts, Received DEF PanelInv
<1>3. /\ u \in UiType /\ SameRecord(u)
      /\ u.submitting = "no" /\ u.key = ui.key /\ u.nonce = ui.nonce
      /\ u.signing = ui.signing
  BY <1>2 DEF UiType, SameRecord
<1> HIDE DEF u
<1>4. /\ a \in BrowserType /\ a.ui = u /\ a.calls = calls \ {x}
      /\ Tells(a) /\ NoNewRecord(Browser, a)
  BY <1>3, RecordKept
<1>5. r \in RecordType /\ Has(Browser, r) /\ x.reply.code \in {"ok", "new"}
  BY <1>1, <1>2 DEF CallType, CallFiled, Has
<1>6. type \in {"new", "existing"}
  OBVIOUS
<1> HIDE DEF a, type
<1>7. /\ Announces(a, c) /\ Tells(c) /\ c.ui.result = r
      /\ c.store.safes = [a.store.safes EXCEPT ![r.wallet] = r]
  <2>1. a.ui.detected # None => a.page.safeDetected
    BY <1>4 DEF Tells
  <2>2. QED BY <1>4, <1>5, <1>6, <2>1, ResultIsShown
<1> HIDE DEF c
<1>8. /\ c \in BrowserType /\ c.calls = calls \ {x}
      /\ c.ui.key = ui.key /\ c.ui.nonce = ui.nonce
      /\ c.ui.submitting = "no" /\ c.ui.signing = ui.signing
  BY <1>3, <1>4, <1>7 DEF Announces, Beside
<1>9. NoNewRecord(Browser, c)
  <2>1. a.store.safes \in [Wallets -> RecordType \cup {None}]
    BY <1>4, Parts DEF StoreType
  <2>2. \A v \in RecordType : Has(c, v) => Has(a, v) \/ v = r
    BY <1>7, <2>1 DEF Has, Announces
  <2>3. QED BY <1>4, <1>5, <2>2 DEF NoNewRecord
<1>10. /\ Submits(x) /\ <<"key", ui.key>> \notin refused
       /\ <<"nonce", ui.nonce>> \notin refused
  BY <1>1, <1>5, SubmissionInForm
<1>11. FormFrom(Browser, x, spent.keys, spent.keys, c)
  BY <1>2, <1>8 DEF FormFrom
<1>12. Fit(c, server, spent.keys, refused)
  <2>1. c.calls = (calls \ {x}) \cup {}
    BY <1>8
  <2>2. QED BY <1>2, <1>7, <1>8, <1>9, <1>10, <1>11, <2>1, FitAdvances
<1>13. QED BY <1>1, <1>2, <1>8, <1>12, HandlerKeeps

\* A refused submission keeps the invariant: a refused key is replaced, and a refused nonce
\* is looked after by the recovery.
LEMMA RefusalAnswered ==
    ASSUME PanelInv, NEW x \in calls, SubmitRecovers(x)
    PROVE  PanelInv' /\ ~Resends
<1> DEFINE new == IF x.reply.code = "duplicate" THEN 1 ELSE 0
           l == spent.keys + new
           k == IF new = 1 THEN spent.keys + 1 ELSE ui.key
           u == [ui EXCEPT !.submitting = "lookup", !.key = k]
           a == SetUi(Handled(x), u)
           w == x.wallet
           y == Call("lookup", w, "recover")
           c == fetchExistingSafe(a, w, "recover", ui.pstate, ui.pkey)
<1>1. /\ x.kind = "submit" /\ x.by # "gone"
      /\ x.reply.code \in {"duplicate", "nonce_invalid"}
      /\ spent' = [spent EXCEPT !.keys = @ + new]
      /\ UNCHANGED <<server, refused>>
  BY DEF SubmitRecovers, Answered
<1>2. Become(c)
  BY DEF SubmitRecovers
<1>3. /\ ui \in UiType /\ Browser.ui = ui /\ Browser.calls = calls
      /\ spent \in SpentType /\ spent.keys \in 0..MaxKeys + 1 /\ spent.keys \in Nat
      /\ MaxKeys \in Nat
      /\ Fit(Browser, server, spent.keys, refused)
      /\ w \in Wallets
  BY <1>1, PanelParts, Received, OnboardingAssumption DEF PanelInv, SpentType
<1>4. /\ Submits(x)
      /\ x.reply.code # "duplicate" => <<"key", ui.key>> \notin refused
      /\ x.reply.code = "duplicate" => spent.keys <= MaxKeys
  BY <1>1, SubmissionInForm
<1>5. /\ spent' \in SpentType /\ spent'.keys = l
      /\ \/ l = spent.keys /\ k = ui.key /\ x.reply.code # "duplicate"
         \/ l = spent.keys + 1 /\ k = l /\ l \in 0..MaxKeys + 1
  BY <1>1, <1>3, <1>4 DEF SpentType
<1>6. k \in 0..MaxKeys + 1
  BY <1>3, <1>5 DEF UiType
<1> HIDE DEF new, l, k, w
<1>7. /\ u \in UiType /\ SameRecord(u)
      /\ u.submitting = "lookup" /\ u.key = k /\ u.nonce = ui.nonce
      /\ u.signing = ui.signing
  <2>1. [ui EXCEPT !.submitting = "lookup"] \in UiType
    BY <1>3 DEF UiType
  <2>2. u \in UiType
    BY <1>6, <2>1 DEF UiType
  <2>3. QED BY <1>3, <2>2 DEF UiType, SameRecord
<1> HIDE DEF u
<1>8. /\ a \in BrowserType /\ a.ui = u /\ a.page = page /\ a.store = store
      /\ a.calls = calls \ {x} /\ Tells(a) /\ NoNewRecord(Browser, a)
  BY <1>7, RecordKept
<1>9. Recovery(y) /\ StageOf(y) = "lookup" /\ y.reply.row = None
  BY <1>3, RecoveryMade DEF Recovery, NoReply
<1> HIDE DEF a
<1>10. /\ c \in BrowserType /\ c.page = a.page /\ c.store = a.store
       /\ c.ui = LookedAt(a.ui, w, "loading", w) /\ c.calls = a.calls \cup {y}
  BY <1>3, <1>8, Fetched
<1> HIDE DEF c, y
<1>11. /\ c.ui.submitting = "lookup" /\ c.ui.key = k /\ c.ui.nonce = ui.nonce
       /\ c.ui.signing = ui.signing /\ c.ui.result = a.ui.result
       /\ c.ui.detected = a.ui.detected /\ c.ui.notice = a.ui.notice
  BY <1>3, <1>7, <1>8, <1>10, Looking
<1>12. Tells(c)
  BY <1>8, <1>10, <1>11 DEF Tells
<1>13. NoNewRecord(Browser, c)
  <2>1. \A r \in RecordType : Has(c, r) => Has(a, r)
    BY <1>9, <1>10, <1>11, NothingIsNone DEF Has
  <2>2. QED BY <1>8, <2>1 DEF NoNewRecord
<1>14. FormFrom(Browser, x, spent.keys, l, c)
  BY <1>3, <1>5, <1>11 DEF FormFrom
<1>15. <<"key", c.ui.key>> \notin refused
  <2>1. CASE l = spent.keys /\ k = ui.key /\ x.reply.code # "duplicate"
    BY <1>4, <1>11, <2>1
  <2>2. CASE l = spent.keys + 1 /\ k = l
    <3>1. refused \subseteq Refusable(server, spent.keys)
      BY <1>3 DEF Fit, NeverStale
    <3>2. k \notin 1..spent.keys
      BY <1>3, <2>2
    <3>3. QED BY <1>11, <3>1, <3>2 DEF Refusable
  <2>3. QED BY <1>5, <2>1, <2>2
<1>16. Fit(c, server, l, refused)
  <2>1. c.calls = (Browser.calls \ {x}) \cup {y} /\ c.ui.signing = Browser.ui.signing
        /\ c.ui.submitting = StageOf(y)
    BY <1>3, <1>8, <1>9, <1>10, <1>11
  <2>2. QED BY <1>3, <1>4, <1>9, <1>10, <1>11, <1>12, <1>13, <1>14, <1>15, <2>1, FitAdvances
<1>17. \A d \in c.calls \ calls : d.kind = "submit" => d.by # "form"
  BY <1>8, <1>9, <1>10 DEF Recovery
<1>18. QED BY <1>1, <1>2, <1>5, <1>16, <1>17, HandlerKeeps

\* The answer of a call about a row keeps the invariant.
LEMMA RowAnswered ==
    ASSUME PanelInv, NEW x \in calls, AnswerRow(x)
    PROVE  PanelInv' /\ ~Resends
<1> DEFINE po == ui.polling /\ x.kind # "refresh"
           li == ui.linking /\ x.kind # "link"
           ad == IF x.by = "admin" THEN "none" ELSE ui.admin
           ro == ui.rows \/ (x.kind = "list" /\ x.reply.code = "ok")
           u == [ui EXCEPT !.polling = po, !.linking = li, !.admin = ad, !.rows = ro]
           a == SetUi(Handled(x), u)
           r == x.reply.row
           c == IF r # None THEN syncResult(a, r) ELSE a
<1>1. /\ x.kind \in {"refresh", "link", "resubmit", "override", "list"} /\ x.by # "gone"
      /\ Become(c) /\ UNCHANGED <<server, spent, refused>>
  BY DEF AnswerRow, Answered
<1>2. /\ ui \in UiType /\ spent' \in SpentType /\ Browser.ui = ui /\ Browser.calls = calls
      /\ Fit(Browser, server, spent.keys, refused)
      /\ x \in CallType
  BY <1>1, PanelParts, Received DEF PanelInv
<1>3. ~Submits(x)
  BY <1>1, <1>2 DEF Fit, OneAtATime, Submits
<1>4. /\ po \in BOOLEAN /\ li \in BOOLEAN /\ ro \in BOOLEAN
      /\ ad \in {"none", "fetch", "resubmit", "override"}
  BY <1>2 DEF UiType
<1> HIDE DEF po, li, ad, ro
<1>5. u \in UiType
  <2> DEFINE v == [ui EXCEPT !.polling = po, !.linking = li]
  <2>1. v \in UiType
    <3>1. [ui EXCEPT !.polling = po] \in UiType
      BY <1>2, <1>4 DEF UiType
    <3> DEFINE q == [ui EXCEPT !.polling = po]
    <3>2. v = [q EXCEPT !.linking = li]
      BY <1>2 DEF UiType
    <3>3. q \in UiType
      BY <3>1
    <3> HIDE DEF v, q
    <3>4. QED BY <1>4, <3>2, <3>3 DEF UiType
  <2>2. u = [v EXCEPT !.admin = ad, !.rows = ro]
    BY <1>2 DEF UiType
  <2> HIDE DEF u, v
  <2>3. QED BY <1>4, <2>1, <2>2 DEF UiType
<1>6. /\ SameRecord(u) /\ u.submitting = ui.submitting /\ u.key = ui.key
      /\ u.nonce = ui.nonce /\ u.signing = ui.signing
  BY <1>2 DEF UiType, SameRecord
<1> HIDE DEF u
<1>7. /\ a \in BrowserType /\ a.ui = u /\ a.calls = calls \ {x}
      /\ Tells(a) /\ NoNewRecord(Browser, a)
  BY <1>5, <1>6, RecordKept
<1>8. SameForm(Browser, a)
  BY <1>2, <1>6, <1>7 DEF SameForm
<1> HIDE DEF a
<1>9. c = a \/ (c = setResult(a, r) /\ r # None)
  BY DEF syncResult
<1>10. /\ c \in BrowserType /\ SameForm(Browser, c) /\ Tells(c)
       /\ NoNewRecord(Browser, c) /\ c.calls = calls \ {x}
  <2>1. CASE c = a
    BY <1>7, <1>8, <2>1
  <2>2. CASE c = setResult(a, r) /\ r # None
    <3>1. r \in RecordType /\ Has(Browser, r)
      BY <1>2, <2>2 DEF CallType, Has
    <3>2. a.ui.detected # None => a.page.safeDetected
      BY <1>7 DEF Tells
    <3> HIDE DEF c
    <3>3. /\ Announces(a, c) /\ Tells(c) /\ c.ui.result = r
          /\ c.store.safes = [a.store.safes EXCEPT ![r.wallet] = r]
      BY <1>7, <2>2, <3>1, <3>2, ResultIsSet
    <3>4. c \in BrowserType /\ SameForm(Browser, c) /\ c.calls = calls \ {x}
      BY <1>7, <1>8, <3>3 DEF Announces, Beside, SameForm
    <3>5. a.store.safes \in [Wallets -> RecordType \cup {None}]
      BY <1>7, Parts DEF StoreType
    <3>6. \A v \in RecordType : Has(c, v) => Has(a, v) \/ v = r
      BY <3>3, <3>5 DEF Has, Announces
    <3>7. NoNewRecord(Browser, c)
      BY <1>7, <3>1, <3>6 DEF NoNewRecord
    <3>8. QED BY <3>3, <3>4, <3>7
  <2>3. QED BY <1>9, <2>1, <2>2
<1> HIDE DEF c
<1>11. Fit(c, server, spent.keys, refused)
  BY <1>2, <1>3, <1>10, FitFinished
<1>12. QED BY <1>1, <1>2, <1>10, <1>11, HandlerKeeps

\* The answer of a nonce request keeps the invariant, whoever asked for it.
LEMMA NonceAnswered ==
    ASSUME PanelInv, NEW x \in calls, AnswerNonce(x)
    PROVE  PanelInv' /\ ~Resends
<1> DEFINE n == x.reply.nonce
           m == IF n # 0 THEN n ELSE ui.nonce
           g == IF x.by # "sign" THEN ui.signing
                ELSE IF n # 0 THEN [ui.signing EXCEPT !.nonce = n] ELSE None
           s == IF x.by = "recover" THEN "no" ELSE ui.submitting
           v == [ui EXCEPT !.askingNonce = FALSE, !.nonce = m]
           u == CASE x.by = "sign" ->
                       [v EXCEPT !.signing = IF n # 0 THEN [ui.signing EXCEPT !.nonce = n]
                                             ELSE None]
                  [] x.by = "recover" -> [v EXCEPT !.submitting = "no"]
                  [] OTHER -> v
           c == SetUi(Handled(x), u)
<1>1. /\ x.kind = "nonce" /\ x.by # "gone" /\ UNCHANGED <<server, spent, refused>>
      /\ Become(SetUi(Handled(x),
            CASE x.by = "sign" ->
                   [[ui EXCEPT !.askingNonce = FALSE, !.nonce = IF n # 0 THEN n ELSE @]
                      EXCEPT !.signing = IF n # 0 THEN [ui.signing EXCEPT !.nonce = n]
                                         ELSE None]
              [] x.by = "recover" ->
                   [[ui EXCEPT !.askingNonce = FALSE, !.nonce = IF n # 0 THEN n ELSE @]
                      EXCEPT !.submitting = "no"]
              [] OTHER -> [ui EXCEPT !.askingNonce = FALSE,
                                     !.nonce = IF n # 0 THEN n ELSE @]))
  BY DEF AnswerNonce, Answered
<1>2. /\ ui \in UiType /\ spent' \in SpentType /\ Browser.ui = ui /\ Browser.calls = calls
      /\ Browser \in BrowserType
      /\ Fit(Browser, server, spent.keys, refused)
      /\ x \in CallType
  BY <1>1, PanelParts, Received DEF PanelInv
<1>3. Become(c)
  <2>1. [ui EXCEPT !.askingNonce = FALSE, !.nonce = IF n # 0 THEN n ELSE @] = v
    BY <1>2 DEF UiType
  <2> HIDE DEF v, n
  <2>2. QED BY <1>1, <2>1
<1>4. /\ OneAtATime(Browser) /\ PromptOpen(Browser) /\ Filed(Browser, server)
      /\ NeverStale(Browser, server, spent.keys, refused)
  BY <1>2 DEF Fit
<1>5. n \in 0..MaxNonces /\ m \in 0..MaxNonces
  BY <1>2 DEF UiType, CallType
<1>6. g \in SignedType \cup {None}
  <2>1. x.by = "sign" => ui.signing # None
    BY <1>2, <1>4 DEF PromptOpen
  <2>2. ui.signing \in SignedType \cup {None}
    BY <1>2 DEF UiType
  <2> HIDE DEF n
  <2>3. ui.signing # None => [ui.signing EXCEPT !.nonce = n] \in SignedType
    BY <1>5, <2>2 DEF SignedType
  <2>4. QED BY <2>1, <2>2, <2>3
<1>7. v \in UiType
  <2>1. ui \in UiType
    BY <1>2
  <2> DEFINE q == [ui EXCEPT !.askingNonce = FALSE]
  <2> HIDE DEF m
  <2>2. q \in UiType
    BY <2>1 DEF UiType
  <2>3. v = [q EXCEPT !.nonce = m]
    BY <2>1 DEF UiType
  <2> HIDE DEF q, v
  <2>4. QED BY <1>5, <2>2, <2>3 DEF UiType
<1>8. /\ v.nonce = m /\ v.key = ui.key /\ v.submitting = ui.submitting
      /\ v.signing = ui.signing /\ v.result = ui.result
      /\ v.detected = ui.detected /\ v.notice = ui.notice
  <2> HIDE DEF m
  <2>1. QED BY <1>2 DEF UiType
<1>9. u = [v EXCEPT !.signing = g, !.submitting = s]
  <2> HIDE DEF n, m
  <2>1. v = [v EXCEPT !.signing = v.signing, !.submitting = v.submitting]
    <3> HIDE DEF v
    <3>1. QED BY <1>7 DEF UiType
  <2> HIDE DEF v
  <2>2. CASE x.by = "sign"
    BY <1>7, <1>8, <2>2 DEF UiType
  <2>3. CASE x.by = "recover"
    BY <1>7, <1>8, <2>3 DEF UiType
  <2>4. CASE x.by \notin {"sign", "recover"}
    BY <1>8, <2>1, <2>4
  <2>5. QED BY <2>2, <2>3, <2>4
<1>10. s \in {"no", "post", "lookup", "nonce"}
  BY <1>2 DEF UiType
<1> HIDE DEF v, m, g, s, u
<1>11. /\ u \in UiType /\ u.signing = g /\ u.submitting = s /\ SameRecord(u)
       /\ u.key = ui.key /\ u.nonce = m
  <2>1. [v EXCEPT !.signing = g] \in UiType
    BY <1>6, <1>7 DEF UiType
  <2>2. u \in UiType
    BY <1>9, <1>10, <2>1 DEF UiType
  <2>3. QED BY <1>7, <1>8, <1>9, <2>2 DEF UiType, SameRecord
<1>12. /\ c \in BrowserType /\ c.ui = u /\ c.calls = calls \ {x}
       /\ Tells(c) /\ NoNewRecord(Browser, c)
  BY <1>11, RecordKept
<1> HIDE DEF c
<1>13. FormFrom(Browser, x, spent.keys, spent.keys, c)
  BY <1>2, <1>11, <1>12 DEF FormFrom, m
\* The nonce that came is new, or the form keeps the one it had.
<1>14. <<"nonce", m>> \in refused => m = ui.nonce
  <2>1. n # 0 => <<"nonce", n>> \notin refused
    BY <1>2, <1>4 DEF NeverStale
  <2>2. QED BY <2>1 DEF m
<1>15. CASE x.by = "recover"
  <2>1. Submits(x) /\ ui.submitting = "nonce"
    BY <1>1, <1>2, <1>4, <1>15 DEF Submits, OneAtATime, StageOf
  <2>2. \A code : ~FormCode(Browser, code)
    BY <1>2, <1>4, <1>15 DEF FormCode, OneAtATime, Submits
  <2>3. <<"key", ui.key>> \notin refused /\ <<"nonce", m>> \notin refused
    BY <1>2, <1>4, <1>14, <2>1, <2>2 DEF NeverStale
  <2>4. c.ui.submitting = "no" /\ c.ui.signing = Browser.ui.signing
    BY <1>2, <1>11, <1>12, <1>15 DEF s, g
  <2>5. Fit(c, server, spent.keys, refused)
    <3>1. c.calls = (Browser.calls \ {x}) \cup {}
      BY <1>2, <1>12
    <3>2. QED BY <1>2, <1>11, <1>12, <1>13, <2>1, <2>3, <2>4, <3>1, FitAdvances
  <2>6. QED BY <1>1, <1>2, <1>3, <1>12, <2>5, HandlerKeeps
<1>16. CASE x.by # "recover"
  <2>1. ~Submits(x) /\ c.ui.submitting = ui.submitting
    BY <1>1, <1>2, <1>4, <1>11, <1>12, <1>16 DEF OneAtATime, Submits, s
  <2>2. Filed(c, server)
    BY <1>2, <1>4, <1>12 DEF Filed, NoNewRecord
  <2>3. OneAtATime(c)
    BY <1>2, <1>4, <1>12, <2>1 DEF OneAtATime
  <2>4. PromptOpen(c)
    <3>1. CASE x.by = "sign"
      BY <1>2, <1>4, <1>12, <3>1 DEF PromptOpen
    <3>2. CASE x.by # "sign"
      <4>1. c.ui.signing = ui.signing
        BY <1>11, <1>12, <3>2 DEF g
      <4>2. QED BY <1>2, <1>4, <1>12, <4>1 DEF PromptOpen
    <3>3. QED BY <3>1, <3>2
  <2>5. \A code : FormCode(c, code) <=> FormCode(Browser, code)
    BY <1>2, <1>12, <2>1 DEF FormCode, Submits
  <2>6. /\ FormCode(c, "duplicate") => spent.keys <= MaxKeys
        /\ <<"key", c.ui.key>> \in refused => FormCode(c, "duplicate")
        /\ <<"nonce", c.ui.nonce>> \in refused
              => FormCode(c, "nonce_invalid") \/ c.ui.submitting = "lookup"
    BY <1>2, <1>4, <1>11, <1>12, <1>14, <2>1, <2>5 DEF NeverStale
  <2>7. NeverStale(c, server, spent.keys, refused)
    <3>1. c.calls = (Browser.calls \ {x}) \cup {}
      BY <1>2, <1>12
    <3>2. QED BY <1>2, <1>4, <1>12, <1>13, <2>6, <3>1, NotStaleAnswered
  <2>8. Fit(c, server, spent.keys, refused)
    BY <1>12, <2>2, <2>3, <2>4, <2>7 DEF Fit
  <2>9. QED BY <1>1, <1>2, <1>3, <1>12, <2>8, HandlerKeeps
<1>17. QED BY <1>15, <1>16

\* Every answer the page handles keeps the invariant.
LEMMA AnswerHandled ==
    ASSUME PanelInv, NEW x \in calls, Answer(x)
    PROVE  PanelInv' /\ ~Resends
BY LookupAnswered, NonceAnswered, SubmissionAnswered, FailureAnswered, RefusalAnswered,
   RowAnswered DEF Answer

-----------------------------------------------------------------------------
(* The theorems.                                                           *)

\* The browser before its effects have run for the first time.
LEMMA FirstBrowser ==
    ASSUME NEW live \in BOOLEAN, NEW w \in Wallets \cup {None}, NEW legacy \in BOOLEAN,
           NEW safes \in [Wallets -> RecordType \cup {None}], NEW sv \in ServerType,
           sv.issued = 0,
           \A v \in Wallets : safes[v] # None => HasRow(sv, safes[v].wallet)
    PROVE  Fit([ui |-> Mounted(IF live THEN 1 ELSE 0),
                page |-> [wallet |-> w, live |-> live, tour |-> FALSE,
                          safeDetected |-> FALSE, startTour |-> FALSE],
                store |-> [safes |-> safes, tour |-> {}, legacyTour |-> legacy],
                calls |-> {}], sv, 1, {})
<1> DEFINE n == IF live THEN 1 ELSE 0
           u == Mounted(n)
           p == [wallet |-> w, live |-> live, tour |-> FALSE,
                 safeDetected |-> FALSE, startTour |-> FALSE]
           t == [safes |-> safes, tour |-> {}, legacyTour |-> legacy]
           b == [ui |-> u, page |-> p, store |-> t, calls |-> {}]
<1>1. n \in 0..MaxKeys + 1 /\ n <= 1 /\ MaxKeys \in Nat
  BY OnboardingAssumption
<1> HIDE DEF n
<1>2. /\ u \in UiType /\ u.key = n /\ u.nonce = 0 /\ u.submitting = "no"
      /\ u.result = None /\ u.notice = None /\ u.detected = None
  BY <1>1, MountedTyped DEF Mounted
<1> HIDE DEF u
<1>3. p \in PageType
  BY DEF PageType
<1>4. t \in StoreType /\ t.safes = safes
  BY DEF StoreType
<1> HIDE DEF p, t
<1>5. b \in BrowserType /\ b.ui = u /\ b.page = p /\ b.store = t /\ b.calls = {}
  BY <1>2, <1>3, <1>4 DEF BrowserType
<1> HIDE DEF b
<1>6. Tells(b)
  BY <1>2, <1>5 DEF Tells
<1>7. Filed(b, sv)
  <2>1. ASSUME NEW r \in RecordType, Has(b, r) PROVE HasRow(sv, r.wallet)
    BY <1>2, <1>4, <1>5, <2>1, NothingIsNone DEF Has
  <2>2. QED BY <1>5, <2>1 DEF Filed
<1>8. OneAtATime(b) /\ PromptOpen(b)
  BY <1>2, <1>5 DEF OneAtATime, PromptOpen
<1>9. NeverStale(b, sv, 1, {})
  BY <1>1, <1>2, <1>5 DEF NeverStale, FormCode
<1>10. Fit(b, sv, 1, {})
  BY <1>5, <1>6, <1>7, <1>8, <1>9 DEF Fit
<1>11. QED BY <1>10 DEF b, p, t, u, n

\* The panel starts with what its invariant says.
LEMMA PanelStarts ==
    OnboardingInit => PanelInv
<1> SUFFICES ASSUME OnboardingInit PROVE PanelInv
  OBVIOUS
<1>1. PICK live \in BOOLEAN, remembers \in BOOLEAN, have \in SUBSET Wallets,
           w \in Wallets \cup {None}, given \in Scenarios :
         LET rows == [v \in Wallets |->
                        IF v \in have THEN Row(v, given.status, FALSE) ELSE None]
             b == Settle(
                    [ui |-> Mounted(IF live THEN 1 ELSE 0),
                     page |-> [wallet |-> w, live |-> live, tour |-> FALSE,
                               safeDetected |-> FALSE, startTour |-> FALSE],
                     store |-> [safes |-> [v \in Wallets |->
                                             IF remembers THEN rows[v] ELSE None],
                                tour |-> {}, legacyTour |-> given.legacyTour],
                     calls |-> {}])
         IN  /\ ui = b.ui /\ page = b.page /\ store = b.store /\ calls = b.calls
             /\ server = [row |-> rows, nonce |-> [v \in Wallets |-> 0], issued |-> 0,
                          key |-> [v \in Wallets |-> 0]]
             /\ spent = [keys |-> 1, acts |-> given.acts, moves |-> given.moves,
                         faults |-> given.faults]
             /\ refused = {}
  BY DEF OnboardingInit
<1> DEFINE rows == [v \in Wallets |-> IF v \in have THEN Row(v, given.status, FALSE) ELSE None]
           safes == [v \in Wallets |-> IF remembers THEN rows[v] ELSE None]
           a == [ui |-> Mounted(IF live THEN 1 ELSE 0),
                 page |-> [wallet |-> w, live |-> live, tour |-> FALSE,
                           safeDetected |-> FALSE, startTour |-> FALSE],
                 store |-> [safes |-> safes, tour |-> {}, legacyTour |-> given.legacyTour],
                 calls |-> {}]
           b == Settle(a)
<1>2. /\ ui = b.ui /\ page = b.page /\ store = b.store /\ calls = b.calls
      /\ server = [row |-> rows, nonce |-> [v \in Wallets |-> 0], issued |-> 0,
                   key |-> [v \in Wallets |-> 0]]
      /\ spent = [keys |-> 1, acts |-> given.acts, moves |-> given.moves,
                  faults |-> given.faults]
      /\ refused = {}
  BY <1>1
<1>3. /\ given.acts \in Nat /\ given.moves \in Nat /\ given.faults \in Nat
      /\ given.legacyTour \in BOOLEAN /\ given.status \in {"ready", "failed"}
  BY OnboardingAssumption
<1>4. \A v \in Wallets : /\ Row(v, given.status, FALSE) \in RecordType
                         /\ Row(v, given.status, FALSE).wallet = v
  BY <1>3, RowTyped DEF Statuses
<1>5. /\ rows \in [Wallets -> RecordType \cup {None}]
      /\ \A v \in Wallets : rows[v] # None => rows[v].wallet = v
  BY <1>4
<1> HIDE DEF rows
<1>6. /\ safes \in [Wallets -> RecordType \cup {None}]
      /\ \A v \in Wallets : safes[v] # None => safes[v] = rows[v]
  BY <1>5
<1> HIDE DEF safes
<1>7. /\ server \in ServerType /\ server.row = rows /\ server.issued = 0
      /\ RowsNamed(server)
  <2>1. 0 \in 0..MaxNonces /\ 0 \in 0..MaxKeys + 1
    BY OnboardingAssumption
  <2>2. QED BY <1>2, <1>5, <2>1 DEF ServerType, RowsNamed
<1>8. spent \in SpentType /\ spent.keys = 1
  BY <1>2, <1>3 DEF SpentType
<1>9. \A v \in Wallets : safes[v] # None => HasRow(server, safes[v].wallet)
  BY <1>5, <1>6, <1>7 DEF HasRow
<1>10. Fit(a, server, 1, {})
  BY <1>3, <1>6, <1>7, <1>9, FirstBrowser
<1> HIDE DEF a
<1>11. Quiet(a, b) /\ Rest(b)
  BY <1>10, Settled DEF Fit
<1>12. Fit(b, server, 1, {})
  BY <1>10, <1>11, FitQuiet
<1>13. Browser = b
  <2> HIDE DEF b
  <2>1. b \in BrowserType
    BY <1>12 DEF Fit
  <2>2. QED BY <1>2, <2>1, Parts DEF Browser
<1> HIDE DEF b
<1>14. QED BY <1>2, <1>7, <1>8, <1>11, <1>12, <1>13 DEF PanelInv

\* What the user does, in the form, below it and elsewhere.
LEMMA UserSteps ==
    ASSUME PanelInv, UserStep
    PROVE  PanelInv' /\ ~Resends
<1>1. ASSUME NEW w \in Wallets \cup {None}, ConnectWallet(w) \/ handleCreatorWalletChange(w)
      PROVE  PanelInv' /\ ~Resends
  BY <1>1, WalletConnected, WalletTyped
<1>2. ASSUME NEW w \in Wallets, handleAdminResubmit(w)
      PROVE  PanelInv' /\ ~Resends
  BY <1>2, AdminResubmits
<1>3. ASSUME NEW w \in Wallets, NEW status \in Statuses, handleAdminOverride(w, status)
      PROVE  PanelInv' /\ ~Resends
  BY <1>3, AdminOverrides
<1>4. ASSUME NEW start \in BOOLEAN, Reload(start) \/ EditSignature(start)
      PROVE  PanelInv' /\ ~Resends
  BY <1>4, PageReloaded, SignatureEdited
<1>5. QED BY <1>1, <1>2, <1>3, <1>4, ModeSwitched, TourDismissed, NonceRequested, SignClicked,
             KeyMade, FormReset, SubmissionIncomplete, Submitted, StatusRefreshed,
             GovernanceLinked, AdminFetches DEF UserStep

\* Every step keeps the panel's invariant and sends nothing that was refused.
LEMMA PanelSteps ==
    ASSUME PanelInv, [OnboardingNext]_vars
    PROVE  PanelInv' /\ ~Resends
<1>1. CASE UserStep
  BY <1>1, UserSteps
<1>2. ASSUME NEW signs \in BOOLEAN, WalletSigns(signs) PROVE PanelInv' /\ ~Resends
  BY <1>2, WalletAnswers
<1>3. CASE CooldownOver
  BY <1>3, CooledDown
<1>4. ASSUME NEW w \in Wallets, CacheExpires(w) PROVE PanelInv' /\ ~Resends
  BY <1>4, CacheExpired
<1>5. ASSUME NEW c \in calls, Serve(c) PROVE PanelInv' /\ ~Resends
  BY <1>5, Served
<1>6. ASSUME NEW c \in calls, Answer(c) PROVE PanelInv' /\ ~Resends
  BY <1>6, AnswerHandled
<1>7. ASSUME NEW c \in calls, Fault(c) PROVE PanelInv' /\ ~Resends
  BY <1>7, Faulted
<1>8. ASSUME NEW w \in Wallets, NEW status \in {"ready", "failed"}, SafeMade(w, status)
      PROVE  PanelInv' /\ ~Resends
  BY <1>8, MadeSafe
<1>9. CASE UNCHANGED vars
  <2>1. Browser' = Browser /\ UNCHANGED <<server, spent, refused, calls>>
    BY <1>9 DEF vars, Browser
  <2>2. QED BY <2>1 DEF PanelInv, Resends
<1>10. QED BY <1>1, <1>2, <1>3, <1>4, <1>5, <1>6, <1>7, <1>8, <1>9
           DEF OnboardingNext, ServerStep, AnswerStep

\* The inductive invariant holds in every state: the browser fits what attn_api has and has
\* refused, and its effects have nothing left to do.
THEOREM PanelInvariant == OnboardingSpec => []PanelInv
<1>1. PanelInv /\ [OnboardingNext]_vars => PanelInv'
  BY PanelSteps
<1>2. QED BY PanelStarts, <1>1, PTL DEF OnboardingSpec

\* The panel always tells the truth: its state has its types, the notice above the form
\* agrees with the record below it, a record that has not failed has put the tour away,
\* and the effects have come to rest, whatever handlers and answers came in what order.
THEOREM PanelAlwaysTells == OnboardingSpec => []PanelTellsTruth
<1>1. PanelInv => PanelTellsTruth
  <2> SUFFICES ASSUME PanelInv PROVE PanelTellsTruth
    OBVIOUS
  <2>1. /\ Browser.ui = ui /\ Browser.page = page /\ Browser \in BrowserType
        /\ Tells(Browser) /\ OnboardingTypeOK
    BY PanelParts DEF OnboardingTypeOK
  <2>2. NoticeMatchesResult
    BY <2>1 DEF Tells, NoticeMatchesResult
  <2>3. SafeEndsTour
    <3>1. ui \in UiType
      BY <2>1 DEF OnboardingTypeOK
    <3>2. ui.result # None => Id(ui.result) # None
      BY <3>1, NothingIsNone DEF UiType
    <3>3. QED BY <2>1, <3>2 DEF Tells, SafeEndsTour, hasSquadsSafe
  <2>4. EffectsAtRest
    BY <2>1, AtRest DEF PanelInv, EffectsAtRest
  <2>5. QED BY <2>1, <2>2, <2>3, <2>4 DEF PanelTellsTruth
<1>2. QED BY PanelInvariant, <1>1, PTL

\* The form never has two submissions under way, and waits exactly while one of them, or
\* its recovery, has a request in flight.
THEOREM OneSubmissionAtATime == OnboardingSpec => []OneSubmission
<1>1. PanelInv => OneSubmission
  <2> SUFFICES ASSUME PanelInv PROVE OneSubmission
    OBVIOUS
  <2> DEFINE S == {c \in calls : c.kind = "submit" /\ c.by = "form"}
  <2>1. OneAtATime(Browser) /\ Browser.calls = calls /\ Browser.ui = ui
    BY PanelParts DEF PanelInv, Fit
  <2>2. Cardinality(S) <= 1
    <3>1. CASE S = {}
      BY <3>1, FS_EmptySet
    <3>2. CASE S # {}
      <4>1. PICK c : c \in S
        BY <3>2
      <4>2. S = {c}
        BY <2>1, <4>1 DEF OneAtATime, Submits
      <4>3. QED BY <4>2, FS_Singleton
    <3>3. QED BY <3>1, <3>2
  <2>3. ui.submitting # "no" <=> \E c \in calls : c.by \in {"form", "recover"}
    BY <2>1 DEF OneAtATime, Submits, StageOf
  <2>4. QED BY <2>2, <2>3 DEF OneSubmission
<1>2. QED BY PanelInvariant, <1>1, PTL

\* A submission never carries the key or the nonce of a refusal that has reached the page.
THEOREM RefusedIsNeverResent == OnboardingSpec => RefusedNeverResent
<1>1. PanelInv /\ [OnboardingNext]_vars
         => [\A c \in calls' \ calls :
               c.kind = "submit" /\ c.reply = NoReply /\ c.by = "form"
                  => <<"key", c.key>> \notin refused /\ <<"nonce", c.nonce>> \notin refused]_vars
  BY PanelSteps DEF Resends
<1>2. QED BY PanelInvariant, <1>1, PTL DEF OnboardingSpec, RefusedNeverResent
=============================================================================
