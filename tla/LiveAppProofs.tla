---------------------------- MODULE LiveAppProofs ----------------------------
(***************************************************************************)
(* Proofs about the demo/live frontend, for any deployments, any answers   *)
(* of the service and any number of acts.  A step is a change of the tab   *)
(* followed by the effects it triggers; what each change owes the effects  *)
(* (Rendered) and what the effects then restore (Good) are kept apart.     *)
(***************************************************************************)
EXTENDS LiveApp, TLAPS

Origins == {"none", "demo", "live"}
Healths == {"healthy", "unknown", "checking", "unhealthy"}
EntryType ==
  [status : {"absent", "pending", "listed", "active", "matured", "settled"},
   loan : BOOLEAN, vault : BOOLEAN]
OwnType == [Wallets -> EntryType]
DataFields == {"pool", "book", "own", "dep"}
DataType == [pool : Origins, book : Origins, own : OwnType, dep : Nat]

\* A handler under way: who writes an entry had a wallet when it was clicked, and a
\* deposit or a withdrawal leaves a deposit.
JobTyped(j) ==
  /\ DOMAIN j = {"kind", "arg", "mode", "wallet", "mem"}
  /\ j.mem \in DataType /\ j.wallet \in Wallets \cup {NoWallet}
  /\ j.kind \in {"list", "borrow", "opening", "payoff", "early"} => j.wallet \in Wallets
  /\ j.kind = "deposit" => j.mem.dep + j.arg \in Nat

DocTyped(d) ==
  /\ DOMAIN d = DOMAIN Closed
  /\ d.page \in Pages \cup {"closed"} /\ d.mode \in Modes
  /\ d.health \in Healths /\ d.checks \in [Checkers -> Nat]
  /\ d.load \in LoadKeys \cup {NoLoad} /\ d.shown \in LoadKeys \cup {NoLoad}
  /\ d.late \in Nat /\ d.mem \in DataType
  /\ d.wallet \in Wallets \cup {NoWallet}
  /\ \A j \in d.jobs : JobTyped(j)
DiskTyped(s) ==
  /\ DOMAIN s = DataFields \cup {"mode", "wallet"}
  /\ Data(s) \in DataType
  /\ s.mode \in Modes \cup {"none"} /\ s.wallet \in Wallets \cup {NoWallet}
TabTyped(w) == DOMAIN w = {"doc", "disk"} /\ DocTyped(w.doc) /\ DiskTyped(w.disk)

\* FailureFallsBack, and that a build without a service has no check under way.
FallsBack(d, s) ==
  /\ d.health = "unhealthy" => Forced \/ (d.mode = "demo" /\ s.mode = "demo")
  /\ Forced => d.mode = "live"
  /\ ~build.isValid => d.mode = "demo" /\ \A k \in Checkers : d.checks[k] = 0

\* ShownIsCurrent, of the mode and wallet k.
CurrentFor(k, d) ==
  /\ d.loading <=> d.load = k
  /\ ~d.loading => d.load = NoLoad /\ d.shown \in {NoLoad, k}

\* DemoIsStored.
DemoStored(d, s) ==
  d.mode = "demo" /\ ~d.loading /\ d.shown # NoLoad => d.mem = Data(s)

\* A tab at rest: nothing was rendered that an effect has not seen.
Good(d, s) ==
  /\ DocTyped(d) /\ DiskTyped(s)
  /\ IF d.page = "closed" THEN d = Closed
     ELSE /\ FallsBack(d, s) /\ CurrentFor(LoadKey(d), d)
          /\ d.wallet = s.wallet /\ DemoStored(d, s)

\* A deployment without a service starts in the demo.
BuildTyped ==
  /\ build \in [isValid : BOOLEAN, defaultMode : Modes]
  /\ ~build.isValid => build.defaultMode = "demo"

LiveInv == BuildTyped /\ acts \in 0 .. MaxActs /\ Good(doc, disk)

\* What a tab w may be when the effects run after the document prev: the load still is
\* prev's, and demo data may only be out of step where the mode has changed.
Rendered(prev, w) ==
  /\ TabTyped(w) /\ w.doc.page # "closed"
  /\ FallsBack(w.doc, w.disk) /\ w.doc.wallet = w.disk.wallet
  /\ prev.page # "closed" => /\ CurrentFor(LoadKey(prev), w.doc)
                             /\ w.doc.mode = prev.mode => DemoStored(w.doc, w.disk)

-----------------------------------------------------------------------------
(* The effects.                                                            *)

\* The effects of the wallet touch the wallet alone, in memory as in the storage.
LEMMA WalletEffects ==
  ASSUME NEW w, TabTyped(w), w.doc.wallet = w.disk.wallet,
         NEW t, t = Hydrate(AdapterEffect(w))
  PROVE  /\ TabTyped(t) /\ t.doc.wallet = t.disk.wallet
         /\ t.doc.page = w.doc.page /\ t.doc.mode = w.doc.mode /\ t.doc.health = w.doc.health
         /\ t.doc.checks = w.doc.checks /\ t.doc.load = w.doc.load
         /\ t.doc.loading = w.doc.loading /\ t.doc.shown = w.doc.shown
         /\ t.doc.mem = w.doc.mem /\ t.disk.mode = w.disk.mode /\ Data(t.disk) = Data(w.disk)
<1> DEFINE a == AdapterEffect(w)
<1>1. /\ TabTyped(a) /\ a.doc.wallet = a.disk.wallet
      /\ a.doc.page = w.doc.page /\ a.doc.mode = w.doc.mode /\ a.doc.health = w.doc.health
      /\ a.doc.checks = w.doc.checks /\ a.doc.load = w.doc.load
      /\ a.doc.loading = w.doc.loading /\ a.doc.shown = w.doc.shown
      /\ a.doc.mem = w.doc.mem /\ a.disk.mode = w.disk.mode /\ Data(a.disk) = Data(w.disk)
  <2>1. CASE a = w
    BY <2>1
  <2>2. CASE a = [w EXCEPT !.doc.wallet = Key, !.disk.wallet = Key]
    <3>1. /\ DOMAIN a = {"doc", "disk"} /\ DOMAIN a.doc = DOMAIN Closed
          /\ DOMAIN a.disk = DataFields \cup {"mode", "wallet"}
          /\ a.doc.wallet = Key /\ a.disk.wallet = Key
          /\ a.doc.page = w.doc.page /\ a.doc.mode = w.doc.mode /\ a.doc.health = w.doc.health
          /\ a.doc.checks = w.doc.checks /\ a.doc.load = w.doc.load
          /\ a.doc.loading = w.doc.loading /\ a.doc.shown = w.doc.shown
          /\ a.doc.mem = w.doc.mem /\ a.doc.late = w.doc.late /\ a.doc.jobs = w.doc.jobs
          /\ a.disk.mode = w.disk.mode
          /\ a.disk.pool = w.disk.pool /\ a.disk.book = w.disk.book
          /\ a.disk.own = w.disk.own /\ a.disk.dep = w.disk.dep
      BY <2>2 DEF TabTyped, DocTyped, DiskTyped, Closed, DataFields
    <3>2. QED BY <3>1 DEF TabTyped, DocTyped, DiskTyped, Data, Wallets
  <2>3. QED BY <2>1, <2>2 DEF AdapterEffect
<1>2. t = Hydrate(a)
  OBVIOUS
<1> HIDE DEF a
<1>3. CASE t = a
  BY <1>1, <1>3
<1>4. CASE /\ t = [a EXCEPT !.doc.wallet = a.disk.wallet]
           /\ a.doc.wallet = NoWallet
  <2>1. /\ DOMAIN t = {"doc", "disk"} /\ DOMAIN t.doc = DOMAIN Closed /\ t.disk = a.disk
        /\ t.doc.wallet = a.disk.wallet
        /\ t.doc.page = a.doc.page /\ t.doc.mode = a.doc.mode /\ t.doc.health = a.doc.health
        /\ t.doc.checks = a.doc.checks /\ t.doc.load = a.doc.load
        /\ t.doc.loading = a.doc.loading /\ t.doc.shown = a.doc.shown
        /\ t.doc.mem = a.doc.mem /\ t.doc.late = a.doc.late /\ t.doc.jobs = a.doc.jobs
    BY <1>1, <1>4 DEF TabTyped, DocTyped, DiskTyped, Closed
  <2>2. QED BY <1>1, <2>1 DEF TabTyped, DocTyped, DiskTyped
<1>5. QED BY <1>2, <1>3, <1>4 DEF Hydrate

\* A tab whose document differs from a typed one in these fields only is typed.
LEMMA DocKeeps ==
  ASSUME NEW d, DocTyped(d), NEW e, DOMAIN e = DOMAIN Closed,
         e.page = d.page, e.mode = d.mode, e.health = d.health, e.checks = d.checks,
         e.wallet = d.wallet, e.jobs = d.jobs, e.mem \in DataType,
         e.load \in LoadKeys \cup {NoLoad}, e.shown \in LoadKeys \cup {NoLoad},
         e.late \in Nat
  PROVE  DocTyped(e)
BY DEF DocTyped

\* A mode and a wallet make a load, and not the absent one.
LEMMA KeysTyped ==
  ASSUME NEW d, DocTyped(d)
  PROVE  LoadKey(d) \in LoadKeys /\ LoadKey(d) # NoLoad
BY DEF DocTyped, LoadKey, LoadKeys, NoLoad, Modes

\* A new load replaces the one under way; demo data that are saved are shown at once.
LEMMA LoadStarts ==
  ASSUME NEW w, TabTyped(w), NEW t, t = StartLoad(w)
  PROVE  /\ TabTyped(t) /\ t.disk = w.disk
         /\ t.doc.page = w.doc.page /\ t.doc.mode = w.doc.mode /\ t.doc.health = w.doc.health
         /\ t.doc.checks = w.doc.checks /\ t.doc.wallet = w.doc.wallet
         /\ CurrentFor(LoadKey(t.doc), t.doc) /\ DemoStored(t.doc, t.disk)
<1> DEFINE d == Cancelled(w.doc)
<1>1. DocTyped(w.doc) /\ DiskTyped(w.disk) /\ DOMAIN w = {"doc", "disk"}
  BY DEF TabTyped
<1>2. /\ DOMAIN d = DOMAIN Closed /\ d.late \in Nat /\ d.load = NoLoad
      /\ d.page = w.doc.page /\ d.mode = w.doc.mode /\ d.health = w.doc.health
      /\ d.checks = w.doc.checks /\ d.wallet = w.doc.wallet /\ d.jobs = w.doc.jobs
      /\ d.mem = w.doc.mem /\ d.shown = w.doc.shown
  BY <1>1 DEF DocTyped, Cancelled, Closed
<1>3. LoadKey(w.doc) \in LoadKeys /\ LoadKey(w.doc) # NoLoad /\ LoadKey(d) = LoadKey(w.doc)
  BY <1>1, <1>2, KeysTyped DEF LoadKey
<1>4. t = [w EXCEPT !.doc =
             IF d.mode = "demo" /\ Restorable(w.disk)
             THEN [d EXCEPT !.mem = Data(w.disk), !.loading = FALSE, !.shown = LoadKey(d)]
             ELSE [d EXCEPT !.load = LoadKey(d), !.loading = TRUE]]
  BY DEF StartLoad
<1> HIDE DEF d
<1>5. DOMAIN t = {"doc", "disk"} /\ t.disk = w.disk
  BY <1>1, <1>4
<1>6. CASE t.doc = [d EXCEPT !.mem = Data(w.disk), !.loading = FALSE, !.shown = LoadKey(d)]
  <2>1. /\ DOMAIN t.doc = DOMAIN Closed /\ t.doc.load = NoLoad /\ t.doc.late \in Nat
        /\ t.doc.page = d.page /\ t.doc.mode = d.mode /\ t.doc.health = d.health
        /\ t.doc.checks = d.checks /\ t.doc.wallet = d.wallet /\ t.doc.jobs = d.jobs
        /\ t.doc.mem = Data(w.disk) /\ t.doc.loading = FALSE /\ t.doc.shown = LoadKey(d)
    BY <1>2, <1>6 DEF Closed
  <2>2. LoadKey(t.doc) = LoadKey(d)
    BY <2>1 DEF LoadKey
  <2>3. DocTyped(t.doc)
    BY <1>1, <1>2, <1>3, <2>1, DocKeeps DEF DiskTyped
  <2>4. QED BY <1>1, <1>2, <1>3, <1>5, <2>1, <2>2, <2>3 DEF TabTyped, CurrentFor, DemoStored
<1>7. CASE t.doc = [d EXCEPT !.load = LoadKey(d), !.loading = TRUE]
  <2>1. /\ DOMAIN t.doc = DOMAIN Closed /\ t.doc.load = LoadKey(d) /\ t.doc.late \in Nat
        /\ t.doc.page = d.page /\ t.doc.mode = d.mode /\ t.doc.health = d.health
        /\ t.doc.checks = d.checks /\ t.doc.wallet = d.wallet /\ t.doc.jobs = d.jobs
        /\ t.doc.mem = d.mem /\ t.doc.loading = TRUE /\ t.doc.shown = d.shown
    BY <1>2, <1>7 DEF Closed
  <2>2. LoadKey(t.doc) = LoadKey(d)
    BY <2>1 DEF LoadKey
  <2>3. DocTyped(t.doc)
    <3>1. d.mem \in DataType /\ d.shown \in LoadKeys \cup {NoLoad}
      BY <1>1, <1>2 DEF DocTyped
    <3>2. QED BY <1>1, <1>2, <1>3, <2>1, <3>1, DocKeeps
  <2>4. QED BY <1>1, <1>2, <1>3, <1>5, <2>1, <2>2, <2>3 DEF TabTyped, CurrentFor, DemoStored
<1>8. QED BY <1>1, <1>4, <1>6, <1>7

\* After the effect of the load, what is shown is for the tab's mode and wallet.
LEMMA LoadEffectKeeps ==
  ASSUME NEW prev, NEW w, TabTyped(w),
         prev.page # "closed" => /\ CurrentFor(LoadKey(prev), w.doc)
                                 /\ w.doc.mode = prev.mode => DemoStored(w.doc, w.disk),
         NEW t, t = LoadEffect(prev, w)
  PROVE  /\ TabTyped(t) /\ t.disk = w.disk
         /\ t.doc.page = w.doc.page /\ t.doc.mode = w.doc.mode /\ t.doc.health = w.doc.health
         /\ t.doc.checks = w.doc.checks /\ t.doc.wallet = w.doc.wallet
         /\ CurrentFor(LoadKey(t.doc), t.doc) /\ DemoStored(t.doc, t.disk)
<1>1. CASE LoadKey(prev) = LoadKey(w.doc) /\ prev.page # "closed"
  <2>1. t = w /\ w.doc.mode = prev.mode
    BY <1>1 DEF LoadEffect, LoadKey
  <2>2. QED BY <1>1, <2>1
<1>2. CASE ~(LoadKey(prev) = LoadKey(w.doc) /\ prev.page # "closed")
  <2>1. t = StartLoad(w)
    BY <1>2 DEF LoadEffect
  <2>2. QED BY <2>1, LoadStarts
<1>3. QED BY <1>1, <1>2

\* What a writer may change: fields of the data, with data.
ChangeTyped(ch) ==
  /\ DOMAIN ch \subseteq DataFields
  /\ "pool" \in DOMAIN ch => ch.pool \in Origins
  /\ "book" \in DOMAIN ch => ch.book \in Origins
  /\ "own" \in DOMAIN ch => ch.own \in OwnType
  /\ "dep" \in DOMAIN ch => ch.dep \in Nat

\* Memory and storage take a change alike.
LEMMA OverKeeps ==
  ASSUME NEW ch, ChangeTyped(ch), NEW m \in DataType, NEW s, DiskTyped(s)
  PROVE  /\ Over(ch, m) \in DataType /\ DiskTyped(Over(ch, s))
         /\ Over(ch, s).mode = s.mode /\ Over(ch, s).wallet = s.wallet
         /\ m = Data(s) => Over(ch, m) = Data(Over(ch, s))
<1>1. /\ s.pool \in Origins /\ s.book \in Origins /\ s.own \in OwnType /\ s.dep \in Nat
  BY DEF DiskTyped, Data, DataType
<1>2. DOMAIN s = DataFields \cup {"mode", "wallet"}
  BY DEF DiskTyped
<1> DEFINE n == Over(ch, s)
<1>3. /\ DOMAIN n = DOMAIN s /\ n.mode = s.mode /\ n.wallet = s.wallet
      /\ n.pool = IF "pool" \in DOMAIN ch THEN ch.pool ELSE s.pool
      /\ n.book = IF "book" \in DOMAIN ch THEN ch.book ELSE s.book
      /\ n.own = IF "own" \in DOMAIN ch THEN ch.own ELSE s.own
      /\ n.dep = IF "dep" \in DOMAIN ch THEN ch.dep ELSE s.dep
  BY <1>2 DEF Over, ChangeTyped, DataFields
<1> DEFINE o == Over(ch, m)
<1>4. o = [pool |-> IF "pool" \in DOMAIN ch THEN ch.pool ELSE m.pool,
           book |-> IF "book" \in DOMAIN ch THEN ch.book ELSE m.book,
           own |-> IF "own" \in DOMAIN ch THEN ch.own ELSE m.own,
           dep |-> IF "dep" \in DOMAIN ch THEN ch.dep ELSE m.dep]
  BY DEF Over, DataType
<1> HIDE DEF n, o
<1>5. o \in DataType
  BY <1>4 DEF DataType, ChangeTyped
<1>6. Data(n) = [pool |-> n.pool, book |-> n.book, own |-> n.own, dep |-> n.dep]
  BY DEF Data
<1>7. Data(n) \in DataType
  BY <1>1, <1>3, <1>6 DEF DataType, ChangeTyped
<1>8. m = Data(s) => o = Data(n)
  BY <1>3, <1>4, <1>6 DEF Data
<1>9. DiskTyped(n)
  BY <1>2, <1>3, <1>7 DEF DiskTyped
<1>10. QED BY <1>3, <1>5, <1>8, <1>9 DEF n, o

\* The creators with one entry written are such a change.
LEMMA CreatorsTyped ==
  ASSUME NEW m \in DataType, NEW w, NEW e, w \in Wallets => e \in EntryType
  PROVE  ChangeTyped(Creators(m, w, e))
<1>1. [m.own EXCEPT ![w] = e] \in OwnType
  BY DEF DataType, OwnType
<1>2. QED BY <1>1 DEF Creators, ChangeTyped, DataType, DataFields

\* Saving a change leaves the rest of the tab alone, and what was saved is still saved.
LEMMA SaveKeeps ==
  ASSUME NEW w, TabTyped(w), NEW ch, ChangeTyped(ch), NEW t, t = Save(w, ch)
  PROVE  /\ TabTyped(t)
         /\ t.doc.page = w.doc.page /\ t.doc.mode = w.doc.mode /\ t.doc.health = w.doc.health
         /\ t.doc.checks = w.doc.checks /\ t.doc.load = w.doc.load
         /\ t.doc.loading = w.doc.loading /\ t.doc.shown = w.doc.shown
         /\ t.doc.wallet = w.doc.wallet /\ t.disk.wallet = w.disk.wallet
         /\ t.disk.mode = w.disk.mode
         /\ DemoStored(w.doc, w.disk) => DemoStored(t.doc, t.disk)
<1>1. DocTyped(w.doc) /\ DiskTyped(w.disk) /\ DOMAIN w = {"doc", "disk"}
  BY DEF TabTyped
<1>2. w.doc.mem \in DataType
  BY <1>1 DEF DocTyped
<1> DEFINE m == Over(ch, w.doc.mem)
           s == Over(ch, w.disk)
<1>3. /\ m \in DataType /\ DiskTyped(s) /\ s.mode = w.disk.mode /\ s.wallet = w.disk.wallet
      /\ w.doc.mem = Data(w.disk) => m = Data(s)
  BY <1>1, <1>2, OverKeeps
<1>4. t = [w EXCEPT !.doc.mem = m, !.disk = s]
  BY DEF Save
<1> HIDE DEF m, s
<1>5. /\ DOMAIN t = {"doc", "disk"} /\ t.disk = s /\ DOMAIN t.doc = DOMAIN Closed
      /\ t.doc.page = w.doc.page /\ t.doc.mode = w.doc.mode /\ t.doc.health = w.doc.health
      /\ t.doc.checks = w.doc.checks /\ t.doc.load = w.doc.load
      /\ t.doc.loading = w.doc.loading /\ t.doc.shown = w.doc.shown
      /\ t.doc.wallet = w.doc.wallet /\ t.doc.late = w.doc.late /\ t.doc.jobs = w.doc.jobs
      /\ t.doc.mem = m
  BY <1>1, <1>4 DEF DocTyped, Closed
<1>6. DocTyped(t.doc)
  BY <1>1, <1>3, <1>5 DEF DocTyped
<1>7. QED BY <1>3, <1>5, <1>6 DEF TabTyped, DemoStored

\* The preview of a wallet the service does not list writes in live mode only.
LEMMA PreviewKeeps ==
  ASSUME NEW w, TabTyped(w), DemoStored(w.doc, w.disk), NEW t, t = PreviewEffect(w)
  PROVE  /\ TabTyped(t)
         /\ t.doc.page = w.doc.page /\ t.doc.mode = w.doc.mode /\ t.doc.health = w.doc.health
         /\ t.doc.checks = w.doc.checks /\ t.doc.load = w.doc.load
         /\ t.doc.loading = w.doc.loading /\ t.doc.shown = w.doc.shown
         /\ t.doc.wallet = w.doc.wallet /\ t.disk.wallet = w.disk.wallet
         /\ t.disk.mode = w.disk.mode
         /\ DemoStored(t.doc, t.disk)
<1>1. CASE t = w
  BY <1>1
<1>2. CASE t = Save(w, Creators(w.doc.mem, w.doc.wallet, Pending))
  <2>1. Pending \in EntryType /\ w.doc.mem \in DataType
    BY DEF Pending, Absent, EntryType, TabTyped, DocTyped
  <2> DEFINE ch == Creators(w.doc.mem, w.doc.wallet, Pending)
  <2>2. ChangeTyped(ch)
    BY <2>1, CreatorsTyped
  <2>3. t = Save(w, ch)
    BY <1>2
  <2> HIDE DEF ch
  <2>4. QED BY <2>2, <2>3, SaveKeeps
<1>3. QED BY <1>1, <1>2 DEF PreviewEffect

\* The stored mode is a mode, and the demo where there is no service.
LEMMA InitialModeTyped ==
  ASSUME BuildTyped, NEW s, s.mode \in Modes \cup {"none"}
  PROVE  /\ InitialMode(s) \in Modes
         /\ ~build.isValid => InitialMode(s) = "demo"
         /\ Forced => InitialMode(s) = "live"
BY DEF BuildTyped, InitialMode, getStoredMode, Forced, Modes

\* The revalidation at a start touches the health alone, where there is a service.
LEMMA StartupKeeps ==
  ASSUME BuildTyped, NEW prev, NEW w, TabTyped(w), FallsBack(w.doc, w.disk),
         NEW t, t = StartupEffect(prev, w)
  PROVE  /\ TabTyped(t) /\ FallsBack(t.doc, t.disk) /\ t.disk = w.disk
         /\ t.doc.page = w.doc.page /\ t.doc.mode = w.doc.mode
         /\ t.doc.load = w.doc.load /\ t.doc.loading = w.doc.loading
         /\ t.doc.shown = w.doc.shown /\ t.doc.mem = w.doc.mem
         /\ t.doc.wallet = w.doc.wallet
<1> DEFINE now == InitialMode(w.disk)
           d == [w.doc EXCEPT !.initial = now]
<1>1. DocTyped(w.doc) /\ DiskTyped(w.disk) /\ DOMAIN w = {"doc", "disk"}
  BY DEF TabTyped
<1>2. ~build.isValid => now = "demo"
  BY <1>1, InitialModeTyped DEF DiskTyped
<1>3. \/ t = w
      \/ t = [w EXCEPT !.doc = d]
      \/ now = "live" /\ t = [w EXCEPT !.doc = [d EXCEPT !.health = "checking",
                                                         !.checks["startup"] = @ + 1]]
  BY DEF StartupEffect
<1>4. /\ DOMAIN d = DOMAIN Closed /\ d.late = w.doc.late /\ d.load = w.doc.load
      /\ d.page = w.doc.page /\ d.mode = w.doc.mode /\ d.health = w.doc.health
      /\ d.checks = w.doc.checks /\ d.wallet = w.doc.wallet /\ d.jobs = w.doc.jobs
      /\ d.mem = w.doc.mem /\ d.shown = w.doc.shown /\ d.loading = w.doc.loading
  BY <1>1 DEF DocTyped, Closed
<1>5. DocTyped(d)
  BY <1>1, <1>4 DEF DocTyped
<1> HIDE DEF now, d
<1>6. CASE t = w
  BY <1>6
<1>7. CASE t = [w EXCEPT !.doc = d]
  <2>1. t.doc = d /\ t.disk = w.disk /\ DOMAIN t = {"doc", "disk"}
    BY <1>1, <1>7
  <2>2. QED BY <1>1, <1>4, <1>5, <2>1 DEF TabTyped, FallsBack
<1>8. CASE now = "live" /\ t = [w EXCEPT !.doc = [d EXCEPT !.health = "checking",
                                                           !.checks["startup"] = @ + 1]]
  <2>1. t.disk = w.disk /\ DOMAIN t = {"doc", "disk"}
        /\ t.doc = [d EXCEPT !.health = "checking", !.checks["startup"] = @ + 1]
    BY <1>1, <1>8
  <2>2. /\ DOMAIN t.doc = DOMAIN Closed /\ t.doc.late = d.late /\ t.doc.load = d.load
        /\ t.doc.page = d.page /\ t.doc.mode = d.mode /\ t.doc.health = "checking"
        /\ t.doc.checks = [d.checks EXCEPT !["startup"] = @ + 1]
        /\ t.doc.wallet = d.wallet /\ t.doc.jobs = d.jobs
        /\ t.doc.mem = d.mem /\ t.doc.shown = d.shown /\ t.doc.loading = d.loading
    BY <1>4, <2>1 DEF Closed
  <2>3. t.doc.checks \in [Checkers -> Nat]
    BY <1>5, <2>2 DEF DocTyped, Checkers
  <2>4. DocTyped(t.doc)
    BY <1>5, <2>2, <2>3 DEF DocTyped, Healths
  <2>5. build.isValid
    BY <1>2, <1>8
  <2>6. QED BY <1>1, <1>4, <2>1, <2>2, <2>4, <2>5 DEF TabTyped, FallsBack
<1>9. QED BY <1>3, <1>6, <1>7, <1>8

\* The effects of the user page touch that page alone.
LEMMA PageKeeps ==
  ASSUME NEW w, TabTyped(w), FallsBack(w.doc, w.disk), NEW t, t = PageEffects(w)
  PROVE  /\ TabTyped(t) /\ FallsBack(t.doc, t.disk) /\ t.disk = w.disk
         /\ t.doc.page = w.doc.page /\ t.doc.mode = w.doc.mode
         /\ t.doc.load = w.doc.load /\ t.doc.loading = w.doc.loading
         /\ t.doc.shown = w.doc.shown /\ t.doc.mem = w.doc.mem
         /\ t.doc.wallet = w.doc.wallet
<1>1. DocTyped(w.doc) /\ DiskTyped(w.disk) /\ DOMAIN w = {"doc", "disk"}
  BY DEF TabTyped
<1>2. PICK safe, sim : t = w \/ t = [w EXCEPT !.doc.safe = safe, !.doc.sim = sim]
  BY DEF PageEffects
<1>3. CASE t = w
  BY <1>3
<1>4. CASE t = [w EXCEPT !.doc.safe = safe, !.doc.sim = sim]
  <2> DEFINE v == [w EXCEPT !.doc.safe = safe]
  <2>1. /\ DOMAIN v = {"doc", "disk"} /\ v.disk = w.disk /\ DOMAIN v.doc = DOMAIN Closed
        /\ v.doc.page = w.doc.page /\ v.doc.mode = w.doc.mode /\ v.doc.health = w.doc.health
        /\ v.doc.checks = w.doc.checks /\ v.doc.load = w.doc.load
        /\ v.doc.loading = w.doc.loading /\ v.doc.shown = w.doc.shown
        /\ v.doc.wallet = w.doc.wallet /\ v.doc.late = w.doc.late /\ v.doc.jobs = w.doc.jobs
        /\ v.doc.mem = w.doc.mem
    BY <1>1 DEF DocTyped, Closed
  <2>2. t = [v EXCEPT !.doc.sim = sim]
    BY <1>4
  <2> HIDE DEF v
  <2>3. /\ DOMAIN t = {"doc", "disk"} /\ t.disk = v.disk /\ DOMAIN t.doc = DOMAIN Closed
        /\ t.doc.page = v.doc.page /\ t.doc.mode = v.doc.mode /\ t.doc.health = v.doc.health
        /\ t.doc.checks = v.doc.checks /\ t.doc.load = v.doc.load
        /\ t.doc.loading = v.doc.loading /\ t.doc.shown = v.doc.shown
        /\ t.doc.wallet = v.doc.wallet /\ t.doc.late = v.doc.late /\ t.doc.jobs = v.doc.jobs
        /\ t.doc.mem = v.doc.mem
    BY <2>1, <2>2 DEF Closed
  <2>4. QED BY <1>1, <2>1, <2>3 DEF TabTyped, DocTyped, FallsBack
<1>5. QED BY <1>2, <1>3, <1>4

\* The effects bring what was rendered to rest.
LEMMA EffectsRest ==
  ASSUME BuildTyped, NEW prev, NEW w, Rendered(prev, w), NEW t, t \in Settle(prev, w)
  PROVE  Good(t.doc, t.disk) /\ t.doc.page = w.doc.page
<1> DEFINE a == Hydrate(AdapterEffect(w))
           b == LoadEffect(prev, a)
           c == PreviewEffect(b)
           e == StartupEffect(prev, c)
<1>1. t = PageEffects(e)
  BY DEF Settle
<1>2. /\ TabTyped(a) /\ a.doc.wallet = a.disk.wallet
      /\ a.doc.page = w.doc.page /\ a.doc.mode = w.doc.mode /\ a.doc.health = w.doc.health
      /\ a.doc.checks = w.doc.checks /\ a.doc.load = w.doc.load
      /\ a.doc.loading = w.doc.loading /\ a.doc.shown = w.doc.shown
      /\ a.doc.mem = w.doc.mem /\ a.disk.mode = w.disk.mode /\ Data(a.disk) = Data(w.disk)
  BY WalletEffects DEF Rendered
<1>3. prev.page # "closed" => /\ CurrentFor(LoadKey(prev), a.doc)
                              /\ a.doc.mode = prev.mode => DemoStored(a.doc, a.disk)
  BY <1>2 DEF Rendered, CurrentFor, DemoStored
<1> HIDE DEF a
<1>4. /\ TabTyped(b) /\ b.disk = a.disk
      /\ b.doc.page = a.doc.page /\ b.doc.mode = a.doc.mode /\ b.doc.health = a.doc.health
      /\ b.doc.checks = a.doc.checks /\ b.doc.wallet = a.doc.wallet
      /\ CurrentFor(LoadKey(b.doc), b.doc) /\ DemoStored(b.doc, b.disk)
  BY <1>2, <1>3, LoadEffectKeeps
<1> HIDE DEF b
<1>5. /\ TabTyped(c)
      /\ c.doc.page = b.doc.page /\ c.doc.mode = b.doc.mode /\ c.doc.health = b.doc.health
      /\ c.doc.checks = b.doc.checks /\ c.doc.load = b.doc.load
      /\ c.doc.loading = b.doc.loading /\ c.doc.shown = b.doc.shown
      /\ c.doc.wallet = b.doc.wallet /\ c.disk.wallet = b.disk.wallet
      /\ c.disk.mode = b.disk.mode
      /\ DemoStored(c.doc, c.disk)
  BY <1>4, PreviewKeeps
<1> HIDE DEF c
<1>6. FallsBack(c.doc, c.disk)
  BY <1>2, <1>4, <1>5 DEF Rendered, FallsBack
<1>7. /\ TabTyped(e) /\ FallsBack(e.doc, e.disk) /\ e.disk = c.disk
      /\ e.doc.page = c.doc.page /\ e.doc.mode = c.doc.mode
      /\ e.doc.load = c.doc.load /\ e.doc.loading = c.doc.loading
      /\ e.doc.shown = c.doc.shown /\ e.doc.mem = c.doc.mem
      /\ e.doc.wallet = c.doc.wallet
  BY <1>5, <1>6, StartupKeeps
<1> HIDE DEF e
<1>8. /\ TabTyped(t) /\ FallsBack(t.doc, t.disk) /\ t.disk = e.disk
      /\ t.doc.page = e.doc.page /\ t.doc.mode = e.doc.mode
      /\ t.doc.load = e.doc.load /\ t.doc.loading = e.doc.loading
      /\ t.doc.shown = e.doc.shown /\ t.doc.mem = e.doc.mem
      /\ t.doc.wallet = e.doc.wallet
  BY <1>1, <1>7, PageKeeps
<1>9. /\ t.doc.page # "closed" /\ t.doc.page = w.doc.page
      /\ t.doc.wallet = t.disk.wallet
  BY <1>2, <1>4, <1>5, <1>7, <1>8 DEF Rendered
<1>10. CurrentFor(LoadKey(t.doc), t.doc) /\ DemoStored(t.doc, t.disk)
  BY <1>4, <1>5, <1>7, <1>8 DEF CurrentFor, LoadKey, DemoStored
<1>11. QED BY <1>8, <1>9, <1>10 DEF Good, TabTyped

-----------------------------------------------------------------------------
(* What is rendered.                                                       *)

\* A step that renders such a tab leaves the tab at rest.
LEMMA BecomesRests ==
  ASSUME LiveInv, NEW w, Rendered(doc, w), Becomes(w), Act \/ Free
  PROVE  LiveInv'
<1>1. PICK t \in Settle(doc, w) : doc' = t.doc /\ disk' = t.disk
  BY DEF Becomes
<1>2. Good(t.doc, t.disk) /\ t.doc.page = w.doc.page
  BY EffectsRest DEF LiveInv
<1>3. build' = build /\ acts' \in 0 .. MaxActs
  BY LiveAssumption DEF Act, Free, LiveInv
<1>4. Good(doc', disk')
  BY <1>1, <1>2
<1>5. Good(doc, disk)'
  BY <1>3, <1>4
     DEF Good, FallsBack, Forced, CurrentFor, DemoStored, DocTyped, DiskTyped, LoadKey, Closed,
         JobTyped
<1>6. QED BY <1>3, <1>5 DEF LiveInv, BuildTyped

\* What a tab is while it is open.
LEMMA OpenTab ==
  ASSUME LiveInv, doc.page # "closed"
  PROVE  /\ BuildTyped /\ DocTyped(doc) /\ DiskTyped(disk) /\ FallsBack(doc, disk)
         /\ CurrentFor(LoadKey(doc), doc) /\ doc.wallet = disk.wallet /\ DemoStored(doc, disk)
BY DEF LiveInv, Good

\* A document that keeps what the effects look at, but for the page and the checks.
LEMMA FlagsRendered ==
  ASSUME LiveInv, doc.page # "closed", NEW d, DOMAIN d = DOMAIN Closed,
         d.page \in Pages, d.mode = doc.mode, d.health = doc.health,
         d.checks \in [Checkers -> Nat],
         ~build.isValid => \A k \in Checkers : d.checks[k] = 0,
         d.load = doc.load, d.loading = doc.loading, d.shown = doc.shown,
         d.wallet = doc.wallet, d.mem = doc.mem, d.late \in Nat,
         \A j \in d.jobs : JobTyped(j)
  PROVE  Rendered(doc, Now(d)) /\ Now(d).doc = d /\ Now(d).disk = disk
<1>1. DOMAIN Now(d) = {"doc", "disk"} /\ Now(d).doc = d /\ Now(d).disk = disk
  BY DEF Now
<1>2. DocTyped(d)
  BY OpenTab DEF DocTyped
<1>3. d.page # "closed"
  BY DEF Pages
<1>4. FallsBack(d, disk) /\ d.wallet = disk.wallet
  BY OpenTab DEF FallsBack
<1>5. CurrentFor(LoadKey(doc), d) /\ DemoStored(d, disk)
  BY OpenTab DEF CurrentFor, DemoStored
<1>6. QED BY <1>1, <1>2, <1>3, <1>4, <1>5, OpenTab DEF Rendered, TabTyped

\* The checks of a tab, one of them over or none.
LEMMA ChecksTyped ==
  ASSUME LiveInv, doc.page # "closed"
  PROVE  /\ doc.checks \in [Checkers -> Nat]
         /\ ~build.isValid => \A k \in Checkers : doc.checks[k] = 0
         /\ doc.page \in Pages /\ doc.late \in Nat /\ doc.mem \in DataType
         /\ DOMAIN doc = DOMAIN Closed
         /\ \A j \in doc.jobs : JobTyped(j)
BY OpenTab DEF DocTyped, FallsBack

\* A click that only starts a handler.
LEMMA StartRests ==
  ASSUME LiveInv, doc.page # "closed", Act, NEW flag, NEW kind, NEW arg,
         kind \in {"list", "borrow", "opening", "payoff", "early"} => doc.wallet \in Wallets,
         kind = "deposit" => doc.mem.dep + arg \in Nat,
         Start(flag, kind, arg)
  PROVE  LiveInv'
<1> DEFINE j == Job(kind, arg)
           d == [doc EXCEPT !.busy = @ \cup flag, !.jobs = @ \cup {j}]
<1>1. JobTyped(j)
  BY OpenTab DEF Job, JobTyped, DocTyped
<1>2. Becomes(Now(d))
  BY DEF Start
<1> HIDE DEF j
<1>3. /\ DOMAIN d = DOMAIN Closed /\ d.page = doc.page /\ d.mode = doc.mode
      /\ d.health = doc.health /\ d.checks = doc.checks /\ d.load = doc.load
      /\ d.loading = doc.loading /\ d.shown = doc.shown /\ d.wallet = doc.wallet
      /\ d.mem = doc.mem /\ d.late = doc.late /\ d.jobs = doc.jobs \cup {j}
  BY ChecksTyped DEF Closed
<1> HIDE DEF d
<1>4. Rendered(doc, Now(d))
  BY <1>1, <1>3, ChecksTyped, FlagsRendered
<1>5. QED BY <1>2, <1>4, BecomesRests

\* A closed tab has nothing under way, so only a visit changes it.
LEMMA ClosedTab ==
  ASSUME LiveInv, doc.page = "closed"
  PROVE  /\ doc.load = NoLoad /\ doc.late = 0 /\ doc.jobs = {}
         /\ \A k \in Checkers : doc.checks[k] = 0
BY DEF LiveInv, Good, Closed

\* The clicks that start a handler.
LEMMA ClicksRest ==
  ASSUME LiveInv,
         \/ connectWallet \/ disconnectWallet \/ ConnectDeposit \/ ConnectUser
         \/ signAndListCreator \/ handleDeposit \/ handleStake \/ handleBorrow \/ handleRepay
  PROVE  LiveInv'
<1>1. CASE connectWallet
  BY <1>1, StartRests DEF connectWallet, Ready
<1>2. CASE disconnectWallet
  BY <1>2, StartRests DEF disconnectWallet, Ready
<1>3. CASE ConnectDeposit
  BY <1>3, StartRests DEF ConnectDeposit, Ready
<1>4. CASE ConnectUser
  BY <1>4, StartRests DEF ConnectUser, LoanInterface, Ready
<1>5. CASE signAndListCreator
  <2>1. doc.page # "closed" /\ doc.wallet # NoWallet /\ Act /\ Start({"list"}, "list", 0)
    BY <1>5 DEF signAndListCreator, Ready
  <2>2. doc.wallet \in Wallets
    BY <2>1, OpenTab DEF DocTyped
  <2>3. QED BY <2>1, <2>2, StartRests
<1>6. CASE handleDeposit
  <2>1. PICK a \in {1, -1} : DepositForm(a) /\ Start({"process"}, "deposit", a)
    BY <1>6 DEF handleDeposit
  <2>2. doc.page # "closed" /\ doc.mem.dep + a >= 0 /\ Act
    BY <1>6, <2>1 DEF handleDeposit, DepositForm, canTransact, Ready
  <2>3. doc.mem.dep + a \in Nat
    BY <2>2, ChecksTyped DEF DataType
  <2>4. QED BY <2>1, <2>2, <2>3, StartRests
<1>7. CASE handleStake
  BY <1>7, StartRests DEF handleStake, StakeForm, canTransact, Ready
<1>8. CASE handleBorrow
  <2>1. doc.page # "closed" /\ doc.wallet # NoWallet /\ Act /\ Start({"borrow"}, "borrow", 0)
    BY <1>8 DEF handleBorrow, ActionShown, LoanInterface, Ready
  <2>2. doc.wallet \in Wallets
    BY <2>1, OpenTab DEF DocTyped
  <2>3. QED BY <2>1, <2>2, StartRests
<1>9. CASE handleRepay
  <2>1. PICK kind \in {"payoff", "early"} : Start({"repay"}, kind, 0)
    BY <1>9 DEF handleRepay
  <2>2. doc.page # "closed" /\ doc.wallet # NoWallet /\ Act
    BY <1>9 DEF handleRepay, ActionShown, LoanInterface, Ready
  <2>3. doc.wallet \in Wallets
    BY <2>2, OpenTab DEF DocTyped
  <2>4. QED BY <2>1, <2>2, <2>3, StartRests
<1>10. QED BY <1>1, <1>2, <1>3, <1>4, <1>5, <1>6, <1>7, <1>8, <1>9

\* The clicks that set a flag of the page, and the adapter.
LEMMA FlagsRest ==
  ASSUME LiveInv, Guide \/ AdapterChanges \/ SafeDetected \/ ShowRepay \/ TryDemo
  PROVE  LiveInv'
<1>1. doc.page # "closed" /\ Act
  BY DEF Guide, AdapterChanges, SafeDetected, ShowRepay, TryDemo, LoanInterface, Ready
<1>2. CASE Guide
  <2> DEFINE c == [doc.checks EXCEPT !["nav"] = 0, !["left"] = @ + doc.checks["nav"]]
  <2>1. PICK p \in {"user", "deposit"} :
          Becomes(Now([doc EXCEPT !.page = p, !.checks["nav"] = 0,
                                  !.checks["left"] = @ + doc.checks["nav"]]))
    BY <1>2 DEF Guide
  <2> DEFINE d == [doc EXCEPT !.page = p, !.checks["nav"] = 0,
                              !.checks["left"] = @ + doc.checks["nav"]]
  <2>2. /\ DOMAIN d = DOMAIN Closed /\ d.page = p /\ d.mode = doc.mode
        /\ d.health = doc.health /\ d.checks = c /\ d.load = doc.load
        /\ d.loading = doc.loading /\ d.shown = doc.shown /\ d.wallet = doc.wallet
        /\ d.mem = doc.mem /\ d.late = doc.late /\ d.jobs = doc.jobs
    BY <1>1, ChecksTyped DEF Closed
  <2>3. c \in [Checkers -> Nat] /\ (~build.isValid => \A k \in Checkers : c[k] = 0)
    BY <1>1, ChecksTyped DEF Checkers
  <2>4. Becomes(Now(d))
    BY <2>1
  <2> HIDE DEF c, d
  <2>5. Rendered(doc, Now(d))
    BY <1>1, <2>2, <2>3, ChecksTyped, FlagsRendered DEF Pages
  <2>6. QED BY <1>1, <2>4, <2>5, BecomesRests
<1>3. CASE AdapterChanges \/ SafeDetected \/ ShowRepay \/ TryDemo
  <2> DEFINE Flag(d) == \/ d = [doc EXCEPT !.adapter = ~@]
                        \/ d = [doc EXCEPT !.safe = TRUE]
                        \/ d = [doc EXCEPT !.repaying = ~@]
                        \/ d = [doc EXCEPT !.sim = TRUE]
  <2>1. PICK d : Flag(d) /\ Becomes(Now(d))
    BY <1>3 DEF AdapterChanges, SafeDetected, ShowRepay, TryDemo
  <2>2. /\ DOMAIN d = DOMAIN Closed /\ d.page = doc.page /\ d.mode = doc.mode
        /\ d.health = doc.health /\ d.checks = doc.checks /\ d.load = doc.load
        /\ d.loading = doc.loading /\ d.shown = doc.shown /\ d.wallet = doc.wallet
        /\ d.mem = doc.mem /\ d.late = doc.late /\ d.jobs = doc.jobs
    BY <1>1, <2>1, ChecksTyped DEF Closed
  <2>3. Rendered(doc, Now(d))
    BY <1>1, <2>2, ChecksTyped, FlagsRendered
  <2>4. QED BY <1>1, <2>1, <2>3, BecomesRests
<1>4. QED BY <1>2, <1>3

\* A visit starts from the storage alone.
LEMMA OpenRests ==
  ASSUME LiveInv, NEW p \in Pages, NEW s, DiskTyped(s), Open(p, s), Act \/ Free
  PROVE  LiveInv'
<1> DEFINE d == Document(p, s)
           k == IF Forced THEN [s EXCEPT !.mode = "live"] ELSE s
           w == [doc |-> d, disk |-> k]
<1>1. BuildTyped
  BY DEF LiveInv
<1>2. /\ InitialMode(s) \in Modes
      /\ ~build.isValid => InitialMode(s) = "demo"
      /\ Forced => InitialMode(s) = "live"
  BY <1>1, InitialModeTyped DEF DiskTyped
<1>3. /\ DOMAIN d = DOMAIN Closed /\ d.page = p /\ d.mode = InitialMode(s)
      /\ d.health \in {"healthy", "unknown"} /\ d.checks = [c \in Checkers |-> 0]
      /\ d.load = NoLoad /\ d.shown = NoLoad /\ d.late = 0 /\ d.mem = NoData
      /\ d.wallet = s.wallet /\ d.jobs = {}
  BY DEF Document, Closed
<1>4. /\ DiskTyped(k) /\ k.wallet = s.wallet
  <2>1. CASE k = s
    BY <2>1
  <2>2. CASE k = [s EXCEPT !.mode = "live"]
    <3>1. /\ DOMAIN k = DOMAIN s /\ k.mode = "live" /\ k.wallet = s.wallet /\ k.pool = s.pool
          /\ k.book = s.book /\ k.own = s.own /\ k.dep = s.dep
      BY <2>2 DEF DiskTyped, DataFields
    <3>2. QED BY <3>1 DEF DiskTyped, Data, Modes
  <2>3. QED BY <2>1, <2>2
<1>5. PICK t \in Settle(Closed, w) : doc' = t.doc /\ disk' = t.disk
  BY DEF Open
<1>6. NoData \in DataType
  BY DEF NoData, NoOwn, Absent, DataType, OwnType, EntryType, Origins
<1> HIDE DEF d, k
<1>7. DocTyped(d)
  BY <1>2, <1>3, <1>4, <1>6 DEF DocTyped, Healths, DiskTyped
<1>8. Rendered(Closed, w)
  <2>1. w.doc = d /\ w.disk = k /\ DOMAIN w = {"doc", "disk"}
    OBVIOUS
  <2>2. FallsBack(d, k)
    BY <1>2, <1>3 DEF FallsBack, Forced, Modes
  <2>3. Closed.page = "closed" /\ p # "closed"
    BY DEF Closed, Pages
  <2> HIDE DEF w
  <2>4. QED BY <1>3, <1>4, <1>7, <2>1, <2>2, <2>3 DEF Rendered, TabTyped
<1>9. Good(doc', disk')
  BY <1>1, <1>5, <1>8, EffectsRest
<1>10. build' = build /\ acts' \in 0 .. MaxActs
  BY LiveAssumption DEF Act, Free, LiveInv
<1>11. Good(doc, disk)'
  BY <1>9, <1>10
     DEF Good, FallsBack, Forced, CurrentFor, DemoStored, DocTyped, DiskTyped, LoadKey, Closed,
         JobTyped
<1>12. QED BY <1>10, <1>11 DEF LiveInv, BuildTyped

\* Visits, reloads and the reset.
LEMMA VisitsRest ==
  ASSUME LiveInv, FirstVisit \/ Visit \/ resetToDefaults
  PROVE  LiveInv'
<1>1. DiskTyped(disk)
  BY DEF LiveInv, Good
<1>2. CASE FirstVisit \/ Visit
  BY <1>1, <1>2, OpenRests DEF FirstVisit, Visit
<1>3. CASE resetToDefaults
  <2> DEFINE k == [disk EXCEPT !.wallet = NoWallet]
             s == Over(NoData, k)
  <2>1. doc.page # "closed" /\ Act /\ Open(doc.page, s)
    BY <1>3 DEF resetToDefaults, Ready
  <2>2. DiskTyped(k)
    <3>1. /\ DOMAIN k = DOMAIN disk /\ k.mode = disk.mode /\ k.wallet = NoWallet
          /\ k.pool = disk.pool /\ k.book = disk.book /\ k.own = disk.own /\ k.dep = disk.dep
      BY <1>1 DEF DiskTyped, DataFields
    <3>2. QED BY <1>1, <3>1 DEF DiskTyped, Data
  <2>3. ChangeTyped(NoData) /\ NoData \in DataType
    BY DEF ChangeTyped, NoData, NoOwn, Absent, DataType, OwnType, EntryType, Origins, DataFields
  <2> HIDE DEF k
  <2>4. DiskTyped(s)
    BY <2>2, <2>3, OverKeeps
  <2>5. doc.page \in Pages
    BY <2>1, ChecksTyped
  <2> HIDE DEF s
  <2>6. QED BY <2>1, <2>4, <2>5, OpenRests
<1>4. QED BY <1>2, <1>3

-----------------------------------------------------------------------------
(* The mode.                                                               *)

\* Falling back writes the mode, here and in the storage, and the health.
LEMMA FallingBack ==
  ASSUME NEW w, TabTyped(w), NEW t,
         \/ t = ToDemo(w)
         \/ ~Forced /\ t = Unhealthy(w)
  PROVE  /\ DOMAIN t = {"doc", "disk"} /\ DOMAIN t.doc = DOMAIN Closed
         /\ t.doc.health \in {"healthy", "unhealthy"} /\ t.doc.mode = "demo"
         /\ t.doc.page = w.doc.page /\ t.doc.checks = w.doc.checks
         /\ t.doc.load = w.doc.load /\ t.doc.loading = w.doc.loading
         /\ t.doc.shown = w.doc.shown /\ t.doc.wallet = w.doc.wallet
         /\ t.doc.late = w.doc.late /\ t.doc.jobs = w.doc.jobs /\ t.doc.mem = w.doc.mem
         /\ t.disk = [w.disk EXCEPT !.mode = "demo"]
<1>1. DocTyped(w.doc) /\ DiskTyped(w.disk) /\ DOMAIN w = {"doc", "disk"}
  BY DEF TabTyped
<1>2. PICK h \in {"healthy", "unhealthy"} :
        \/ t = [w EXCEPT !.doc.mode = "demo", !.doc.health = h, !.disk.mode = "demo"]
        \/ t = [w EXCEPT !.doc.health = h, !.doc.mode = "demo", !.disk.mode = "demo"]
  BY DEF ToDemo, Unhealthy
<1> DEFINE c == [w.doc EXCEPT !.mode = "demo", !.health = h]
           d == [w.doc EXCEPT !.health = h, !.mode = "demo"]
           k == [w.disk EXCEPT !.mode = "demo"]
<1>3. DOMAIN t = {"doc", "disk"} /\ t.disk = k /\ (t.doc = c \/ t.doc = d)
  BY <1>1, <1>2
<1>4. QED BY <1>1, <1>3 DEF DocTyped, Closed

\* Falling back to the demo, whatever else was rendered in the mode of before.
LEMMA DemoRendered ==
  ASSUME NEW prev, prev.page # "closed", NEW w, Rendered(prev, w), ~Forced,
         w.doc.mode = prev.mode, NEW t, t = ToDemo(w) \/ t = Unhealthy(w)
  PROVE  Rendered(prev, t)
<1>1. DocTyped(w.doc) /\ DiskTyped(w.disk) /\ TabTyped(w)
  BY DEF Rendered, TabTyped
<1>2. /\ DOMAIN t = {"doc", "disk"} /\ DOMAIN t.doc = DOMAIN Closed
      /\ t.doc.health \in {"healthy", "unhealthy"} /\ t.doc.mode = "demo"
      /\ t.doc.page = w.doc.page /\ t.doc.checks = w.doc.checks
      /\ t.doc.load = w.doc.load /\ t.doc.loading = w.doc.loading
      /\ t.doc.shown = w.doc.shown /\ t.doc.wallet = w.doc.wallet
      /\ t.doc.late = w.doc.late /\ t.doc.jobs = w.doc.jobs /\ t.doc.mem = w.doc.mem
      /\ t.disk = [w.disk EXCEPT !.mode = "demo"]
  BY <1>1, FallingBack
<1>3. /\ DOMAIN t.disk = DOMAIN w.disk /\ t.disk.mode = "demo"
      /\ t.disk.wallet = w.disk.wallet /\ t.disk.pool = w.disk.pool
      /\ t.disk.book = w.disk.book /\ t.disk.own = w.disk.own /\ t.disk.dep = w.disk.dep
  BY <1>1, <1>2 DEF DiskTyped, DataFields
<1>4. DocTyped(t.doc) /\ DiskTyped(t.disk) /\ Data(t.disk) = Data(w.disk)
  BY <1>1, <1>2, <1>3 DEF DocTyped, DiskTyped, Data, Healths, Modes
<1>5. FallsBack(t.doc, t.disk)
  BY <1>2, <1>3 DEF Rendered, FallsBack
<1>6. CurrentFor(LoadKey(prev), t.doc)
  BY <1>2 DEF Rendered, CurrentFor
<1>7. t.doc.mode = prev.mode => DemoStored(t.doc, t.disk)
  BY <1>2, <1>4 DEF Rendered, DemoStored
<1>8. QED BY <1>2, <1>3, <1>4, <1>5, <1>6, <1>7 DEF Rendered, TabTyped

\* A document that keeps what the effects look at, but for a health that does not ask for
\* the demo, or asks for it where the mode is enforced; a mode that turns live; and the
\* checks.  The storage may keep another mode.
LEMMA ModeRendered ==
  ASSUME LiveInv, doc.page # "closed", NEW d, NEW k,
         DOMAIN d = DOMAIN Closed, d.page = doc.page,
         d.mode = doc.mode \/ (d.mode = "live" /\ build.isValid),
         d.health \in {"healthy", "checking"} \/ (d.health = "unhealthy" /\ Forced),
         d.checks \in [Checkers -> Nat],
         ~build.isValid => \A c \in Checkers : d.checks[c] = 0,
         d.load = doc.load, d.loading = doc.loading, d.shown = doc.shown,
         d.wallet = doc.wallet, d.mem = doc.mem, d.late = doc.late, d.jobs = doc.jobs,
         k = disk \/ k = [disk EXCEPT !.mode = "live"]
  PROVE  Rendered(doc, [doc |-> d, disk |-> k])
<1>1. DiskTyped(k) /\ k.wallet = disk.wallet /\ Data(k) = Data(disk)
  <2>1. CASE k = disk
    BY <2>1, OpenTab
  <2>2. CASE k = [disk EXCEPT !.mode = "live"]
    <3>1. /\ DOMAIN k = DOMAIN disk /\ k.mode = "live" /\ k.wallet = disk.wallet
          /\ k.pool = disk.pool /\ k.book = disk.book /\ k.own = disk.own /\ k.dep = disk.dep
      BY <2>2, OpenTab DEF DiskTyped, DataFields
    <3>2. QED BY <3>1, OpenTab DEF DiskTyped, Data, Modes
  <2>3. QED BY <2>1, <2>2
<1>2. DocTyped(d)
  BY OpenTab DEF DocTyped, Healths, Modes
<1>3. FallsBack(d, k)
  BY OpenTab DEF FallsBack
<1>4. CurrentFor(LoadKey(doc), d) /\ (d.mode = doc.mode => DemoStored(d, k))
  BY <1>1, OpenTab DEF CurrentFor, DemoStored
<1> DEFINE w == [doc |-> d, disk |-> k]
<1>5. DOMAIN w = {"doc", "disk"} /\ w.doc = d /\ w.disk = k
  OBVIOUS
<1> HIDE DEF w
<1>6. Rendered(doc, w)
  BY <1>1, <1>2, <1>3, <1>4, <1>5, OpenTab DEF Rendered, TabTyped
<1>7. QED BY <1>6 DEF w

\* The tab as it is may be rendered again.
LEMMA SameRendered ==
  ASSUME LiveInv, doc.page # "closed"
  PROVE  Rendered(doc, Now(doc)) /\ Now(doc).doc = doc /\ Now(doc).disk = disk
BY ChecksTyped, FlagsRendered

\* The mode chosen by hand.
LEMMA ModeRests ==
  ASSUME LiveInv, Mode
  PROVE  LiveInv'
<1>1. doc.page # "closed" /\ Act
  BY DEF Mode, ChooseDemo, ChooseLive, EnableLive, Ready
<1>2. Rendered(doc, Now(doc)) /\ Now(doc).doc = doc
  BY <1>1, SameRendered
<1>3. CASE ChooseDemo
  <2>1. Rendered(doc, ToDemo(Now(doc)))
    BY <1>1, <1>2, <1>3, DemoRendered DEF ChooseDemo
  <2>2. QED BY <1>1, <1>3, <2>1, BecomesRests DEF ChooseDemo
<1>4. CASE ChooseLive \/ EnableLive
  <2>1. PICK by \in {"nav", "enable"} : setModeLive(by)
    BY <1>4 DEF ChooseLive, EnableLive
  <2>2. CASE ~build.isValid
    <3>1. ~Forced
      BY <2>2 DEF Forced
    <3>2. Rendered(doc, Unhealthy(Now(doc)))
      BY <1>1, <1>2, <3>1, DemoRendered
    <3>3. QED BY <1>1, <2>1, <2>2, <3>2, BecomesRests DEF setModeLive
  <2>3. CASE build.isValid
    <3> DEFINE d == [doc EXCEPT !.mode = "live", !.health = "checking", !.checks[by] = @ + 1]
               c == [doc.checks EXCEPT ![by] = @ + 1]
    <3>1. Becomes([doc |-> d, disk |-> disk])
      BY <2>1, <2>3 DEF setModeLive, Now
    <3>2. /\ DOMAIN d = DOMAIN Closed /\ d.page = doc.page /\ d.mode = "live"
          /\ d.health = "checking" /\ d.checks = c /\ d.load = doc.load
          /\ d.loading = doc.loading /\ d.shown = doc.shown /\ d.wallet = doc.wallet
          /\ d.mem = doc.mem /\ d.late = doc.late /\ d.jobs = doc.jobs
      BY <1>1, ChecksTyped DEF Closed
    <3>3. c \in [Checkers -> Nat]
      BY <1>1, ChecksTyped DEF Checkers
    <3> HIDE DEF d, c
    <3>4. Rendered(doc, [doc |-> d, disk |-> disk])
      BY <1>1, <2>3, <3>2, <3>3, ModeRendered
    <3>5. QED BY <1>1, <3>1, <3>4, BecomesRests
  <2>4. QED BY <2>2, <2>3
<1>5. QED BY <1>3, <1>4 DEF Mode

\* The answers of the health checks.
LEMMA CheckRests ==
  ASSUME LiveInv, NEW k \in Checkers, CheckPasses(k) \/ CheckFails(k)
  PROVE  LiveInv'
<1> DEFINE e == Checked(k)
           c == [doc.checks EXCEPT ![k] = @ - 1]
<1>1. doc.checks[k] > 0 /\ Free
  BY DEF CheckPasses, CheckFails
<1>2. doc.page # "closed" /\ build.isValid
  BY <1>1, ClosedTab, ChecksTyped
<1>3. c \in [Checkers -> Nat]
  BY <1>1, <1>2, ChecksTyped
<1>4. /\ DOMAIN e = DOMAIN Closed /\ e.page = doc.page /\ e.mode = doc.mode
      /\ e.health = doc.health /\ e.checks = c /\ e.load = doc.load
      /\ e.loading = doc.loading /\ e.shown = doc.shown /\ e.wallet = doc.wallet
      /\ e.mem = doc.mem /\ e.late = doc.late /\ e.jobs = doc.jobs
  BY <1>2, ChecksTyped DEF Checked, Closed
<1> HIDE DEF c
<1>5. CASE CheckPasses(k)
  <2> DEFINE d == [e EXCEPT !.health = "healthy", !.mode = IF k = "startup" THEN "live" ELSE @]
             s == [disk EXCEPT !.mode = "live"]
  <2>1. Becomes([doc |-> d, disk |-> s])
    BY <1>5 DEF CheckPasses
  <2> HIDE DEF e
  <2>2. /\ DOMAIN d = DOMAIN Closed /\ d.page = doc.page /\ d.mode \in {"live", doc.mode}
        /\ d.health = "healthy" /\ d.checks = c /\ d.load = doc.load
        /\ d.loading = doc.loading /\ d.shown = doc.shown /\ d.wallet = doc.wallet
        /\ d.mem = doc.mem /\ d.late = doc.late /\ d.jobs = doc.jobs
    BY <1>4 DEF Closed
  <2> HIDE DEF d
  <2>3. Rendered(doc, [doc |-> d, disk |-> s])
    BY <1>2, <1>3, <2>2, ModeRendered
  <2>4. QED BY <1>1, <2>1, <2>3, BecomesRests
<1>6. CASE CheckFails(k)
  <2>1. Becomes(Unhealthy(Now(e)))
    BY <1>6 DEF CheckFails
  <2> HIDE DEF e
  <2>2. Rendered(doc, Now(e)) /\ Now(e).doc = e /\ Now(e).disk = disk
    BY <1>2, <1>3, <1>4, ChecksTyped, FlagsRendered
  <2>3. CASE Forced
    <3> DEFINE d == [e EXCEPT !.health = "unhealthy"]
    <3>1. Unhealthy(Now(e)) = [doc |-> d, disk |-> disk]
      BY <2>3 DEF Unhealthy, Now
    <3>2. /\ DOMAIN d = DOMAIN Closed /\ d.page = doc.page /\ d.mode = doc.mode
          /\ d.health = "unhealthy" /\ d.checks = c /\ d.load = doc.load
          /\ d.loading = doc.loading /\ d.shown = doc.shown /\ d.wallet = doc.wallet
          /\ d.mem = doc.mem /\ d.late = doc.late /\ d.jobs = doc.jobs
      BY <1>4 DEF Closed
    <3> HIDE DEF d
    <3>3. Rendered(doc, [doc |-> d, disk |-> disk])
      BY <1>2, <1>3, <2>3, <3>2, ModeRendered
    <3>4. QED BY <1>1, <2>1, <3>1, <3>3, BecomesRests
  <2>4. CASE ~Forced
    <3>1. Rendered(doc, Unhealthy(Now(e)))
      BY <1>2, <1>4, <2>2, <2>4, DemoRendered
    <3>2. QED BY <1>1, <2>1, <3>1, BecomesRests
  <2>5. QED BY <2>3, <2>4
<1>7. QED BY <1>5, <1>6

-----------------------------------------------------------------------------
(* The loads.                                                              *)

\* The end of a load, whose answer is shown and saved, or is neither.
LEMMA LoadedRendered ==
  ASSUME LiveInv, doc.load # NoLoad, NEW d, NEW s,
         DOMAIN d = DOMAIN Closed, d.page = doc.page, d.mode = doc.mode,
         d.health = doc.health, d.checks = doc.checks, d.load = NoLoad, d.loading = FALSE,
         d.shown \in {NoLoad, doc.load}, d.wallet = doc.wallet, d.mem \in DataType,
         d.late = doc.late, d.jobs = doc.jobs,
         DiskTyped(s), s.mode = disk.mode, s.wallet = disk.wallet,
         doc.mode = "demo" /\ d.shown # NoLoad => d.mem = Data(s)
  PROVE  doc.page # "closed" /\ Rendered(doc, [doc |-> d, disk |-> s])
<1>1. doc.page # "closed"
  BY ClosedTab
<1>2. doc.load = LoadKey(doc)
  BY <1>1, OpenTab DEF CurrentFor
<1>3. DocTyped(d)
  BY <1>1, OpenTab DEF DocTyped
<1>4. FallsBack(d, s) /\ d.wallet = s.wallet
  BY <1>1, OpenTab DEF FallsBack
<1>5. LoadKey(doc) # NoLoad
  BY <1>1, OpenTab, KeysTyped
<1>6. CurrentFor(LoadKey(doc), d) /\ (d.mode = doc.mode => DemoStored(d, s))
  BY <1>2, <1>5 DEF CurrentFor, DemoStored
<1> DEFINE w == [doc |-> d, disk |-> s]
<1>7. DOMAIN w = {"doc", "disk"} /\ w.doc = d /\ w.disk = s
  OBVIOUS
<1> HIDE DEF w
<1>8. Rendered(doc, w)
  BY <1>1, <1>3, <1>4, <1>6, <1>7 DEF Rendered, TabTyped
<1>9. QED BY <1>1, <1>8 DEF w

\* The load under way is for the tab's mode and wallet.
LEMMA LoadIsCurrent ==
  ASSUME LiveInv, doc.load # NoLoad
  PROVE  /\ doc.page # "closed" /\ doc.load[1] = doc.mode /\ doc.load[2] = doc.wallet
         /\ doc.load \in LoadKeys
<1>1. doc.page # "closed"
  BY ClosedTab
<1>2. doc.load = LoadKey(doc)
  BY <1>1, OpenTab DEF CurrentFor
<1>3. QED BY <1>1, <1>2, OpenTab, KeysTyped DEF LoadKey

\* A demo load.
LEMMA DemoLoadRests ==
  ASSUME LiveInv, DemoLoads
  PROVE  LiveInv'
<1> DEFINE fresh == [NoData EXCEPT !.pool = "demo", !.book = "demo"]
           d == Loaded(fresh, FALSE)
           k == [disk EXCEPT !.wallet = doc.load[2]]
           s == Over(fresh, k)
<1>1. doc.load # NoLoad /\ Free /\ Becomes([doc |-> d, disk |-> s])
  BY DEF DemoLoads
<1>2. doc.page # "closed" /\ doc.load[2] = doc.wallet /\ doc.wallet = disk.wallet
  BY <1>1, LoadIsCurrent, OpenTab
<1>3. /\ fresh \in DataType /\ ChangeTyped(fresh) /\ DOMAIN fresh = DataFields
      /\ fresh = [pool |-> fresh.pool, book |-> fresh.book, own |-> fresh.own, dep |-> fresh.dep]
  <2>1. NoData \in DataType
    BY DEF NoData, NoOwn, Absent, DataType, OwnType, EntryType, Origins
  <2>2. fresh \in DataType
    BY <2>1 DEF DataType, Origins
  <2> HIDE DEF fresh
  <2>3. QED BY <2>2 DEF DataType, ChangeTyped, DataFields
<1> HIDE DEF fresh
<1>4. /\ DOMAIN d = DOMAIN Closed /\ d.page = doc.page /\ d.mode = doc.mode
      /\ d.health = doc.health /\ d.checks = doc.checks /\ d.load = NoLoad
      /\ d.loading = FALSE /\ d.shown = doc.load /\ d.wallet = doc.wallet
      /\ d.mem = fresh /\ d.late = doc.late /\ d.jobs = doc.jobs
  BY <1>2, ChecksTyped DEF Loaded, Closed
<1>5. /\ DOMAIN k = DOMAIN disk /\ k.mode = disk.mode /\ k.wallet = disk.wallet
      /\ k.pool = disk.pool /\ k.book = disk.book /\ k.own = disk.own /\ k.dep = disk.dep
      /\ DiskTyped(k)
  BY <1>2, OpenTab DEF DiskTyped, DataFields, Data
<1> HIDE DEF d, k
<1>6. /\ DiskTyped(s) /\ s.mode = disk.mode /\ s.wallet = disk.wallet
  BY <1>3, <1>5, OverKeeps
<1>7. Data(s) = fresh
  <2>1. s.pool = fresh.pool /\ s.book = fresh.book /\ s.own = fresh.own /\ s.dep = fresh.dep
    BY <1>3, <1>5, <1>2, OpenTab DEF Over, DiskTyped, DataFields
  <2>2. QED BY <1>3, <2>1 DEF Data
<1> HIDE DEF s
<1>8. Rendered(doc, [doc |-> d, disk |-> s])
  BY <1>1, <1>3, <1>4, <1>6, <1>7, LoadedRendered
<1>9. QED BY <1>1, <1>8, BecomesRests

\* The entry of a wallet in the service's list has one of the statuses the page knows.
LEMMA EntryTyped ==
  ASSUME NEW a \in LiveAnswers, NEW w \in Wallets
  PROVE  Entry(a, w) \in EntryType
<1> DEFINE items == mapMarketsToCreators(getMarkets(a))
           n == IF Len(items) > PageLimit THEN PageLimit ELSE Len(items)
           cs == getCreators(a)
           mine == {i \in DOMAIN cs : cs[i].wallet = w /\ \A k \in 1 .. i - 1 : cs[k].wallet # w}
           Row == [authority : STRING, status : STRING, vault : STRING]
<1>1. a.markets \in Seq(Row) /\ PageLimit \in Nat
  BY LiveAssumption
<1>2. /\ DOMAIN getMarkets(a) = 1 .. Len(a.markets)
      /\ \A i \in 1 .. Len(a.markets) :
           getMarkets(a)[i].status \in {"settled", "matured", "active"}
  <2>1. getMarkets(a) = [i \in 1 .. Len(a.markets) |-> normalizeMarketSummary(a.markets[i])]
    BY <1>1 DEF getMarkets
  <2>2. ASSUME NEW m \in Row
        PROVE  normalizeMarketSummary(m).status \in {"settled", "matured", "active"}
    BY DEF normalizeMarketSummary
  <2> HIDE DEF Row
  <2>3. \A i \in 1 .. Len(a.markets) : a.markets[i] \in Row
    BY <1>1
  <2>4. QED BY <2>1, <2>2, <2>3
<1>3. /\ DOMAIN items = 1 .. Len(a.markets) /\ Len(a.markets) \in Nat
      /\ \A i \in 1 .. Len(a.markets) : items[i].status \in {"settled", "matured", "active"}
  BY <1>1, <1>2 DEF mapMarketsToCreators
<1>4. Len(items) = Len(a.markets)
  <2>1. items = [i \in 1 .. Len(a.markets) |-> items[i]]
    BY <1>2 DEF mapMarketsToCreators
  <2> HIDE DEF items
  <2>2. items \in Seq({items[i] : i \in 1 .. Len(a.markets)})
    BY <1>3, <2>1
  <2>3. QED BY <1>3, <2>2
<1> HIDE DEF items
<1>5. n \in Nat /\ n <= Len(a.markets)
  BY <1>1, <1>3, <1>4
<1>6. cs = SubSeq(items, 1, n)
  BY DEF getCreators, paginate, items
<1>7. \A i \in DOMAIN cs : cs[i].status \in {"settled", "matured", "active"}
  <2>1. DOMAIN cs = 1 .. n /\ \A i \in 1 .. n : cs[i] = items[i]
    BY <1>3, <1>4, <1>5, <1>6
  <2>2. QED BY <1>3, <1>5, <2>1
<1>8. Absent \in EntryType
  BY DEF Absent, EntryType
<1> HIDE DEF cs
<1>9. CASE mine = {}
  BY <1>8, <1>9 DEF Entry, cs
<1>10. CASE mine # {}
  <2> DEFINE i == CHOOSE j \in mine : TRUE
  <2>1. i \in DOMAIN cs
    BY <1>10
  <2>2. Entry(a, w) = [Absent EXCEPT !.status = cs[i].status, !.vault = cs[i].vault \in a.vaults]
    BY <1>10 DEF Entry, cs
  <2>3. cs[i].status \in {"settled", "matured", "active"}
    BY <1>7, <2>1
  <2> HIDE DEF i
  <2>4. (cs[i].vault \in a.vaults) \in BOOLEAN
    OBVIOUS
  <2>5. QED BY <2>2, <2>3, <2>4 DEF Absent, EntryType
<1>11. QED BY <1>9, <1>10

\* A live load.
LEMMA LiveLoadRests ==
  ASSUME LiveInv, LiveLoads
  PROVE  LiveInv'
<1>1. PICK a \in LiveAnswers :
        Becomes(Now(Loaded([pool |-> "live", book |-> "live",
                            dep |-> getUserPortfolio(a, doc.load[2]),
                            own |-> [w \in Wallets |-> Entry(a, w)]], a.paused)))
  BY DEF LiveLoads
<1> DEFINE m == [pool |-> "live", book |-> "live", dep |-> getUserPortfolio(a, doc.load[2]),
                 own |-> [w \in Wallets |-> Entry(a, w)]]
           d == Loaded(m, a.paused)
<1>2. doc.load # NoLoad /\ doc.load[1] = "live" /\ Free
  BY DEF LiveLoads
<1>3. doc.page # "closed" /\ doc.mode = "live"
  BY <1>2, LoadIsCurrent
<1>4. getUserPortfolio(a, doc.load[2]) \in Nat
  <2>1. a.positions \in Seq(Nat)
    BY LiveAssumption
  <2>2. QED BY <2>1 DEF getUserPortfolio
<1>5. m \in DataType
  BY <1>4, EntryTyped DEF DataType, OwnType, Origins
<1>6. Becomes([doc |-> d, disk |-> disk])
  BY <1>1 DEF Now
<1> HIDE DEF m
<1>7. /\ DOMAIN d = DOMAIN Closed /\ d.page = doc.page /\ d.mode = doc.mode
      /\ d.health = doc.health /\ d.checks = doc.checks /\ d.load = NoLoad
      /\ d.loading = FALSE /\ d.shown = doc.load /\ d.wallet = doc.wallet
      /\ d.mem = m /\ d.late = doc.late /\ d.jobs = doc.jobs
  BY <1>3, ChecksTyped DEF Loaded, Closed
<1> HIDE DEF d
<1>8. Rendered(doc, [doc |-> d, disk |-> disk])
  BY <1>2, <1>3, <1>5, <1>7, OpenTab, LoadedRendered
<1>9. QED BY <1>2, <1>6, <1>8, BecomesRests

\* A load that fails.
LEMMA FailedLoadRests ==
  ASSUME LiveInv, LoadFails
  PROVE  LiveInv'
<1> DEFINE d == [doc EXCEPT !.load = NoLoad, !.loading = FALSE, !.shown = NoLoad,
                            !.paused = FALSE]
<1>1. doc.load # NoLoad /\ Free /\ Becomes(FallBack(Now(d), doc.load[1]))
  BY DEF LoadFails
<1>2. doc.page # "closed"
  BY <1>1, LoadIsCurrent
<1>3. /\ DOMAIN d = DOMAIN Closed /\ d.page = doc.page /\ d.mode = doc.mode
      /\ d.health = doc.health /\ d.checks = doc.checks /\ d.load = NoLoad
      /\ d.loading = FALSE /\ d.shown = NoLoad /\ d.wallet = doc.wallet
      /\ d.mem = doc.mem /\ d.late = doc.late /\ d.jobs = doc.jobs
  BY <1>2, ChecksTyped DEF Closed
<1> HIDE DEF d
<1>4. Rendered(doc, Now(d)) /\ Now(d).doc = d
  BY <1>1, <1>2, <1>3, OpenTab, ChecksTyped, LoadedRendered DEF Now
<1>5. Rendered(doc, FallBack(Now(d), doc.load[1]))
  BY <1>2, <1>3, <1>4, DemoRendered DEF FallBack
<1>6. QED BY <1>1, <1>5, BecomesRests

\* A cancelled load that ends.
LEMMA LateLoadRests ==
  ASSUME LiveInv, LateLoads
  PROVE  LiveInv'
<1> DEFINE d == [doc EXCEPT !.late = @ - 1]
<1>1. doc.late > 0 /\ Free /\ (Becomes(Now(d)) \/ Becomes(FallBack(Now(d), "live")))
  BY DEF LateLoads
<1>2. doc.page # "closed"
  BY <1>1, ClosedTab
<1>3. /\ DOMAIN d = DOMAIN Closed /\ d.page = doc.page /\ d.mode = doc.mode
      /\ d.health = doc.health /\ d.checks = doc.checks /\ d.load = doc.load
      /\ d.loading = doc.loading /\ d.shown = doc.shown /\ d.wallet = doc.wallet
      /\ d.mem = doc.mem /\ d.late \in Nat /\ d.jobs = doc.jobs
  BY <1>1, <1>2, ChecksTyped DEF Closed
<1> HIDE DEF d
<1>4. Rendered(doc, Now(d)) /\ Now(d).doc = d
  BY <1>2, <1>3, ChecksTyped, FlagsRendered
<1>5. Rendered(doc, FallBack(Now(d), "live"))
  BY <1>2, <1>3, <1>4, DemoRendered DEF FallBack
<1>6. QED BY <1>1, <1>4, <1>5, BecomesRests

-----------------------------------------------------------------------------
(* The handlers that end.                                                  *)

\* The document after a handler: its flags and what is under way may have changed.
Ended(d) ==
  /\ DOMAIN d = DOMAIN Closed /\ d.page = doc.page /\ d.mode = doc.mode
  /\ d.health = doc.health /\ d.checks = doc.checks /\ d.load = doc.load
  /\ d.loading = doc.loading /\ d.shown = doc.shown /\ d.wallet = doc.wallet
  /\ d.mem = doc.mem /\ d.late = doc.late /\ \A j \in d.jobs : JobTyped(j)

\* A handler under way is of an open tab.
LEMMA UnderWay ==
  ASSUME LiveInv, NEW j \in doc.jobs
  PROVE  doc.page # "closed" /\ \A i \in doc.jobs : JobTyped(i)
BY ClosedTab, ChecksTyped

\* A handler that ends leaves such a document, whatever it goes on to.
LEMMA DoneEnded ==
  ASSUME LiveInv, NEW j \in doc.jobs, NEW flags, NEW next, \A i \in next : JobTyped(i)
  PROVE  Ended(Done(j, flags, next))
<1>1. doc.page # "closed"
  BY UnderWay
<1>2. \A i \in doc.jobs : JobTyped(i)
  BY UnderWay
<1> DEFINE d == Done(j, flags, next)
<1>3. /\ DOMAIN d = DOMAIN Closed /\ d.page = doc.page /\ d.mode = doc.mode
      /\ d.health = doc.health /\ d.checks = doc.checks /\ d.load = doc.load
      /\ d.loading = doc.loading /\ d.shown = doc.shown /\ d.wallet = doc.wallet
      /\ d.mem = doc.mem /\ d.late = doc.late /\ d.jobs = (doc.jobs \ {j}) \cup next
  BY <1>1, ChecksTyped DEF Done, Closed
<1> HIDE DEF d
<1>4. Ended(d)
  BY <1>2, <1>3 DEF Ended
<1>5. QED BY <1>4 DEF d

\* Nor do the flags that a handler sets, the adapter's among them, disturb it.
LEMMA FlagEnded ==
  ASSUME NEW d, Ended(d), NEW v
  PROVE  /\ Ended([d EXCEPT !.sim = v]) /\ Ended([d EXCEPT !.repaying = v])
         /\ Ended([d EXCEPT !.adapter = v]) /\ Ended([d EXCEPT !.busy = v])
         /\ (\A j \in v : JobTyped(j)) => Ended([d EXCEPT !.jobs = v])
<1>1. Ended([d EXCEPT !.sim = v])
  BY DEF Ended, Closed
<1>2. Ended([d EXCEPT !.repaying = v])
  BY DEF Ended, Closed
<1>3. Ended([d EXCEPT !.adapter = v])
  BY DEF Ended, Closed
<1>4. Ended([d EXCEPT !.busy = v])
  BY DEF Ended, Closed
<1>5. (\A j \in v : JobTyped(j)) => Ended([d EXCEPT !.jobs = v])
  BY DEF Ended, Closed
<1>6. QED BY <1>1, <1>2, <1>3, <1>4, <1>5

\* The document of a handler that wrote nothing may be rendered.
LEMMA EndedRendered ==
  ASSUME LiveInv, doc.page # "closed", NEW d, Ended(d)
  PROVE  Rendered(doc, Now(d)) /\ Now(d).doc = d /\ Now(d).disk = disk
BY ChecksTyped, FlagsRendered DEF Ended

\* A handler that saves a change.
LEMMA SavedRests ==
  ASSUME LiveInv, doc.page # "closed", Free, NEW d, Ended(d), NEW ch, ChangeTyped(ch),
         Becomes(Save(Now(d), ch))
  PROVE  LiveInv'
<1> DEFINE w == Now(d)
           t == Save(w, ch)
<1>1. Rendered(doc, w)
  BY EndedRendered
<1>2. w.doc.mode = doc.mode
  BY EndedRendered DEF Ended
<1>3. TabTyped(w)
  BY <1>1 DEF Rendered
<1> HIDE DEF w
<1>4. /\ TabTyped(t)
      /\ t.doc.page = w.doc.page /\ t.doc.mode = w.doc.mode /\ t.doc.health = w.doc.health
      /\ t.doc.checks = w.doc.checks /\ t.doc.load = w.doc.load
      /\ t.doc.loading = w.doc.loading /\ t.doc.shown = w.doc.shown
      /\ t.doc.wallet = w.doc.wallet /\ t.disk.wallet = w.disk.wallet
      /\ t.disk.mode = w.disk.mode
      /\ DemoStored(w.doc, w.disk) => DemoStored(t.doc, t.disk)
  BY <1>3, SaveKeeps
<1>5. Becomes(t)
  BY DEF w
<1> HIDE DEF t
<1>6. Rendered(doc, t)
  BY <1>1, <1>4 DEF Rendered, FallsBack, CurrentFor
<1>7. QED BY <1>5, <1>6, BecomesRests

\* A handler that sets the wallet, in memory and in the storage.
LEMMA WalletRests ==
  ASSUME LiveInv, doc.page # "closed", Free, NEW d, Ended(d),
         NEW x \in Wallets \cup {NoWallet}, Becomes(SetWallet(d, x))
  PROVE  LiveInv'
<1> DEFINE e == [d EXCEPT !.wallet = x]
           k == [disk EXCEPT !.wallet = x]
           t == [doc |-> e, disk |-> k]
<1>1. Becomes(t)
  BY DEF SetWallet
<1>2. DocTyped(doc) /\ DiskTyped(disk) /\ FallsBack(doc, disk)
  BY OpenTab
<1>3. /\ DOMAIN e = DOMAIN Closed /\ e.page = doc.page /\ e.mode = doc.mode
      /\ e.health = doc.health /\ e.checks = doc.checks /\ e.load = doc.load
      /\ e.loading = doc.loading /\ e.shown = doc.shown /\ e.wallet = x
      /\ e.mem = doc.mem /\ e.late = doc.late /\ e.jobs = d.jobs
  BY DEF Ended, Closed
<1>4. /\ DOMAIN k = DOMAIN disk /\ k.mode = disk.mode /\ k.wallet = x
      /\ k.pool = disk.pool /\ k.book = disk.book /\ k.own = disk.own /\ k.dep = disk.dep
  BY <1>2 DEF DiskTyped, DataFields
<1>5. \A j \in d.jobs : JobTyped(j)
  BY DEF Ended
<1> HIDE DEF e, k
<1>6. DocTyped(e)
  BY <1>2, <1>3, <1>5 DEF DocTyped
<1>7. DiskTyped(k) /\ Data(k) = Data(disk)
  BY <1>2, <1>4 DEF DiskTyped, Data
<1>8. FallsBack(e, k) /\ e.wallet = k.wallet
  BY <1>2, <1>3, <1>4 DEF FallsBack
<1>9. CurrentFor(LoadKey(doc), e) /\ DemoStored(e, k)
  BY <1>3, <1>7, OpenTab DEF CurrentFor, DemoStored
<1>10. DOMAIN t = {"doc", "disk"} /\ t.doc = e /\ t.disk = k
  OBVIOUS
<1> HIDE DEF t
<1>11. Rendered(doc, t)
  BY <1>3, <1>6, <1>7, <1>8, <1>9, <1>10 DEF Rendered, TabTyped
<1>12. QED BY <1>1, <1>11, BecomesRests

\* What a handler goes on to is typed, where it had the wallet this needs.
LEMMA ThenTyped ==
  ASSUME NEW j, JobTyped(j), NEW kind \in {"generate", "listing", "opening"},
         kind = "opening" => j.wallet \in Wallets
  PROVE  \A i \in Then(j, kind) : JobTyped(i)
<1> DEFINE i == [j EXCEPT !.kind = kind]
<1>1. /\ DOMAIN i = {"kind", "arg", "mode", "wallet", "mem"} /\ i.mem = j.mem
      /\ i.wallet = j.wallet /\ i.kind = kind
  BY DEF JobTyped
<1> HIDE DEF i
<1>2. JobTyped(i)
  BY <1>1 DEF JobTyped
<1>3. QED BY <1>2 DEF Then, i

\* The handlers of the wallet.
LEMMA WalletJobRests ==
  ASSUME LiveInv, Free, NEW j \in doc.jobs, WalletJob(j)
  PROVE  LiveInv'
<1>1. doc.page # "closed" /\ JobTyped(j)
  BY UnderWay
<1>2. /\ \A f : Ended(Done(j, f, {})) /\ Ended(Done(j, f, Then(j, "listing")))
      /\ \A i \in Then(j, "generate") : JobTyped(i)
  BY <1>1, ThenTyped, DoneEnded
<1>3. Demo \in Wallets /\ NoWallet \in Wallets \cup {NoWallet}
  BY DEF Wallets
<1>4. CASE ConnectEnds(j)
  <2>1. PICK ok \in BOOLEAN :
          LET d == [Done(j, {}, {}) EXCEPT !.adapter = @ \/ ok]
          IN Becomes(Now(IF j.mode = "demo" THEN [d EXCEPT !.jobs = @ \cup Then(j, "generate")]
                         ELSE [d EXCEPT !.busy = @ \ {"connect"}]))
    BY <1>4 DEF ConnectEnds
  <2> DEFINE o == Done(j, {}, {})
             d == [o EXCEPT !.adapter = @ \/ ok]
  <2>2. Ended(d)
    BY <1>2, FlagEnded
  <2>3. \/ Becomes(Now([d EXCEPT !.jobs = d.jobs \cup Then(j, "generate")]))
        \/ Becomes(Now([d EXCEPT !.busy = d.busy \ {"connect"}]))
    BY <2>1
  <2> HIDE DEF d
  <2>4. Ended([d EXCEPT !.busy = d.busy \ {"connect"}])
    BY <2>2, FlagEnded
  <2>5. Ended([d EXCEPT !.jobs = d.jobs \cup Then(j, "generate")])
    <3>1. \A i \in d.jobs \cup Then(j, "generate") : JobTyped(i)
      BY <1>2, <2>2 DEF Ended
    <3>2. QED BY <2>2, <3>1, FlagEnded
  <2>6. PICK e : Ended(e) /\ Becomes(Now(e))
    BY <2>3, <2>4, <2>5
  <2>7. QED BY <1>1, <2>6, EndedRendered, BecomesRests
<1>5. CASE DisconnectEnds(j)
  <2>1. PICK ok \in BOOLEAN :
          Becomes(SetWallet([Done(j, {}, {}) EXCEPT !.adapter = @ /\ ~ok], NoWallet))
    BY <1>5 DEF DisconnectEnds
  <2> DEFINE d == [Done(j, {}, {}) EXCEPT !.adapter = @ /\ ~ok]
  <2>2. Ended(d)
    BY <1>2, FlagEnded
  <2>3. Becomes(SetWallet(d, NoWallet))
    BY <2>1
  <2> HIDE DEF d
  <2>4. QED BY <1>1, <1>3, <2>2, <2>3, WalletRests
<1>6. CASE ~ConnectEnds(j) /\ ~DisconnectEnds(j)
  <2>1. PICK d : Ended(d) /\ Becomes(SetWallet(d, Demo))
    BY <1>2, <1>6 DEF WalletJob, SetupEnds
  <2>2. QED BY <1>1, <1>3, <2>1, WalletRests
<1>7. QED BY <1>4, <1>5, <1>6

\* The entries that the writers make are entries.
LEMMA WrittenTyped ==
  ASSUME NEW j, JobTyped(j), j.wallet \in Wallets
  PROVE  /\ ChangeTyped(AddListed(j, j.wallet)) /\ ChangeTyped(AddActive(j))
         /\ ChangeTyped(RemoveLoan(j))
<1> DEFINE e == j.mem.own[j.wallet]
<1>1. j.mem \in DataType /\ e \in EntryType
  BY DEF JobTyped, DataType, OwnType
<1> HIDE DEF e
<1>2. /\ [e EXCEPT !.status = "listed"] \in EntryType
      /\ [e EXCEPT !.status = "active", !.loan = TRUE] \in EntryType
      /\ [e EXCEPT !.status = "listed", !.loan = FALSE] \in EntryType
      /\ Absent \in EntryType
  BY <1>1 DEF EntryType, Absent
<1>3. /\ ChangeTyped(Creators(j.mem, j.wallet, [e EXCEPT !.status = "listed"]))
      /\ ChangeTyped(Creators(j.mem, j.wallet, [e EXCEPT !.status = "active", !.loan = TRUE]))
      /\ ChangeTyped(Creators(j.mem, j.wallet, [e EXCEPT !.status = "listed", !.loan = FALSE]))
      /\ ChangeTyped(Creators(j.mem, j.wallet, Absent))
  BY <1>1, <1>2, CreatorsTyped
<1>4. QED BY <1>3 DEF AddListed, AddActive, RemoveLoan, e

\* The handlers that write data: all of them save a change, or write nothing.
LEMMA WriteJobRests ==
  ASSUME LiveInv, Free, NEW j \in doc.jobs,
         ListJob(j) \/ DepositJob(j) \/ StakeEnds(j) \/ BorrowJob(j) \/ RepayJob(j)
  PROVE  LiveInv'
<1>1. doc.page # "closed" /\ JobTyped(j)
  BY UnderWay
<1>2. \A f : Ended(Done(j, f, {}))
  BY DoneEnded
<1>3. j.mem \in DataType /\ ChangeTyped(<<>>)
  BY <1>1 DEF JobTyped, ChangeTyped
<1> DEFINE Saves == \E d, ch : Ended(d) /\ ChangeTyped(ch) /\ Becomes(Save(Now(d), ch))
<1>4. CASE StakeEnds(j)
  <2>1. PICK d : Ended(d) /\ Becomes(Now(d))
    BY <1>2, <1>4 DEF StakeEnds
  <2>2. QED BY <1>1, <2>1, EndedRendered, BecomesRests
<1>5. CASE ListJob(j)
  <2>1. CASE j.kind = "list"
    <3>1. ChangeTyped(AddListed(j, j.wallet))
      BY <1>1, <2>1, WrittenTyped DEF JobTyped
    <3>2. Saves
      BY <1>2, <1>5, <2>1, <3>1 DEF ListJob
    <3>3. QED BY <1>1, <3>2, SavedRests
  <2>2. CASE j.kind = "listing"
    <3> DEFINE e == [j.mem.own[Demo] EXCEPT !.status = "listed", !.vault = FALSE]
    <3>1. j.mem.own[Demo] \in EntryType
      BY <1>3 DEF DataType, OwnType, Wallets
    <3>2. e \in EntryType
      BY <3>1 DEF EntryType
    <3>3. Becomes(Save(Now(Done(j, {"setup"}, {})), Creators(j.mem, Demo, e)))
      BY <1>5, <2>2 DEF ListJob
    <3> HIDE DEF e
    <3>4. ChangeTyped(Creators(j.mem, Demo, e))
      BY <1>3, <3>2, CreatorsTyped
    <3>5. Saves
      BY <1>2, <3>3, <3>4
    <3>6. QED BY <1>1, <3>5, SavedRests
  <2>3. QED BY <1>5, <2>1, <2>2 DEF ListJob
<1>6. CASE DepositJob(j)
  <2> DEFINE c == [dep |-> j.mem.dep + j.arg, pool |-> j.mem.pool]
             ch == IF j.mem.pool = "none" THEN <<>> ELSE c
  <2>1. j.mem.dep + j.arg \in Nat /\ j.mem.pool \in Origins
    BY <1>1, <1>3, <1>6 DEF DepositJob, JobTyped, DataType
  <2>2. ChangeTyped(c)
    BY <2>1 DEF ChangeTyped, DataFields
  <2>3. Becomes(Save(Now(Done(j, {"process"}, {})), ch))
    BY <1>6 DEF DepositJob
  <2>4. ChangeTyped(ch)
    BY <1>3, <2>2
  <2> HIDE DEF ch
  <2>5. Saves
    BY <1>2, <2>3, <2>4
  <2>6. QED BY <1>1, <2>5, SavedRests
<1>7. CASE BorrowJob(j)
  <2>1. j.wallet \in Wallets
    BY <1>1, <1>7 DEF BorrowJob, JobTyped
  <2>2. ChangeTyped(AddListed(j, j.wallet)) /\ ChangeTyped(AddActive(j))
    BY <1>1, <2>1, WrittenTyped
  <2>3. Ended(Done(j, {}, Then(j, "opening")))
    BY <1>1, <2>1, ThenTyped, DoneEnded
  <2>4. Ended([Done(j, {"borrow"}, {}) EXCEPT !.sim = TRUE])
    BY <1>2, FlagEnded
  <2>5. Saves
    BY <1>7, <2>2, <2>3, <2>4 DEF BorrowJob
  <2>6. QED BY <1>1, <2>5, SavedRests
<1>8. CASE RepayJob(j)
  <2>1. j.wallet \in Wallets
    BY <1>1, <1>8 DEF RepayJob, JobTyped
  <2>2. ChangeTyped(RemoveLoan(j)) /\ ChangeTyped(AddActive(j))
    BY <1>1, <2>1, WrittenTyped
  <2> DEFINE o == Done(j, {"repay"}, {})
             d == [o EXCEPT !.sim = FALSE, !.repaying = FALSE]
  <2>3. Ended([o EXCEPT !.sim = TRUE])
    BY <1>2, FlagEnded
  <2>4. Ended(d)
    <3>1. Ended(o)
      BY <1>2
    <3> HIDE DEF o
    <3>2. QED BY <3>1 DEF Ended, Closed
  <2>5. \/ Becomes(Save(Now(d), RemoveLoan(j)))
        \/ \E ch \in {<<>>, AddActive(j)} : Becomes(Save(Now([o EXCEPT !.sim = TRUE]), ch))
    BY <1>8 DEF RepayJob
  <2> HIDE DEF o, d
  <2>6. Saves
    BY <1>3, <2>2, <2>3, <2>4, <2>5
  <2>7. QED BY <1>1, <2>6, SavedRests
<1>9. QED BY <1>4, <1>5, <1>6, <1>7, <1>8

-----------------------------------------------------------------------------
(* The specification.                                                      *)

\* The start: a deployment, an empty storage and a closed tab.
LEMMA LiveStarts ==
  ASSUME LiveInit
  PROVE  LiveInv
<1>1. BuildTyped
  <2>1. PICK e \in Deployments : build = runtimeEnv(e)
    BY DEF LiveInit
  <2>2. PICK v \in BOOLEAN :
          build = [isValid |-> v, defaultMode |-> IF v THEN parseMode(e.mode) ELSE "demo"]
    BY <2>1, Zenon DEF runtimeEnv
  <2>3. QED BY <2>2 DEF BuildTyped, parseMode, Modes
<1>2. NoOwn \in OwnType
  BY DEF NoOwn, Absent, OwnType, EntryType
<1>3. DiskTyped(disk)
  <2>1. disk = NoStorage
    BY DEF LiveInit
  <2>2. QED BY <1>2, <2>1 DEF DiskTyped, NoStorage, Data, DataType, DataFields, Origins
<1>4. doc = Closed /\ acts \in 0 .. MaxActs
  BY LiveAssumption DEF LiveInit
<1>5. DocTyped(Closed) /\ Closed.page = "closed"
  BY <1>2
     DEF DocTyped, Closed, NoData, DataType, Origins, Modes, Healths, Checkers
<1>6. QED BY <1>1, <1>3, <1>4, <1>5 DEF LiveInv, Good

\* Every step leaves the tab at rest.
LEMMA LiveStep ==
  ASSUME LiveInv, [LiveNext]_vars
  PROVE  LiveInv'
<1>1. CASE FirstVisit \/ Visit \/ resetToDefaults
  BY <1>1, VisitsRest
<1>2. CASE Guide
  BY <1>2, FlagsRest
<1>3. CASE Mode
  BY <1>3, ModeRests
<1>4. CASE Wallet
  BY <1>4, ClicksRest, FlagsRest DEF Wallet
<1>5. CASE Write
  BY <1>5, ClicksRest, FlagsRest DEF Write
<1>6. CASE CheckEnds
  BY <1>6, CheckRests DEF CheckEnds
<1>7. CASE Answered
  BY <1>7, DemoLoadRests, LiveLoadRests, FailedLoadRests DEF Answered
<1>8. CASE LateLoads
  BY <1>8, LateLoadRests
<1>9. CASE JobEnds
  BY <1>9, WalletJobRests, WriteJobRests DEF JobEnds
<1>10. CASE UNCHANGED vars
  BY <1>10
     DEF vars, LiveInv, BuildTyped, Good, FallsBack, Forced, CurrentFor, DemoStored, DocTyped,
         DiskTyped, LoadKey, Closed, JobTyped
<1>11. QED
  BY <1>1, <1>2, <1>3, <1>4, <1>5, <1>6, <1>7, <1>8, <1>9, <1>10 DEF LiveNext

\* What the runs check of a tab at rest.
LEMMA RestingTab ==
  ASSUME LiveInv
  PROVE  FailureFallsBack /\ ShownIsCurrent /\ StorageFollows
<1>1. DocTyped(doc) /\ DiskTyped(disk)
  BY DEF LiveInv, Good
<1>2. FailureFallsBack
  BY OpenTab DEF FailureFallsBack, Opened, FallsBack
<1>3. ShownIsCurrent
  BY OpenTab DEF ShownIsCurrent, Opened, CurrentFor
<1>4. WalletIsStored /\ DemoIsStored
  BY OpenTab DEF WalletIsStored, DemoIsStored, Opened, DemoStored
<1>5. ASSUME NEW m \in DataType PROVE DataOK(m)
  BY DEF DataType, DataOK, OwnType, EntryType, EntryOK, Origins
<1>6. DataOK(doc.mem) /\ \A j \in doc.jobs : DataOK(j.mem)
  BY <1>1, <1>5 DEF DocTyped, JobTyped
<1>7. DataOK(disk)
  <2>1. DataOK(Data(disk))
    BY <1>1, <1>5 DEF DiskTyped
  <2>2. QED BY <2>1 DEF DataOK, Data
<1>8. LiveTypeOK
  BY <1>1, <1>6, <1>7 DEF LiveTypeOK, LiveInv, BuildTyped, DocTyped, DiskTyped, Healths
<1>9. QED BY <1>2, <1>3, <1>4, <1>8 DEF StorageFollows

\* A service that fails a check or a load, whichever of those under way it is, sends the
\* tab and its storage to the demo, unless the deployment enforces the live mode.
THEOREM AFailureFallsBack == LiveSpec => []FailureFallsBack
<1>1. LiveSpec => []LiveInv
  BY LiveStarts, LiveStep, PTL DEF LiveSpec
<1>2. QED BY <1>1, RestingTab, PTL

\* No answer is shown for a mode or a wallet that the tab has left, and no loading screen
\* stays without a load of its own.
THEOREM TheAnswerShownIsCurrent == LiveSpec => []ShownIsCurrent
<1>1. LiveSpec => []LiveInv
  BY LiveStarts, LiveStep, PTL DEF LiveSpec
<1>2. QED BY <1>1, RestingTab, PTL

\* The wallet and the demo that a tab shows are those its next document starts from,
\* though handlers of older clicks write both.
THEOREM TheStorageFollows == LiveSpec => []StorageFollows
<1>1. LiveSpec => []LiveInv
  BY LiveStarts, LiveStep, PTL DEF LiveSpec
<1>2. QED BY <1>1, RestingTab, PTL
==============================================================================
