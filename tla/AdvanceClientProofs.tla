------------------------- MODULE AdvanceClientProofs -------------------------
(***************************************************************************)
(* Proofs about one user's advances and buybacks, for any quotes, accounts *)
(* and retries, and any number of visits of the page: a quote is settled   *)
(* at most once, no executed quote is lost without a word, and what the    *)
(* page shows as done was done.                                            *)
(***************************************************************************)
EXTENDS AdvanceClient, TLAPS

DetailType == [source : {"none", "demo", "live"}, allowed : BOOLEAN, empty : BOOLEAN]
PageType ==
  [mount : 1 .. MaxMounts, loading : BOOLEAN, error : BOOLEAN, detail : DetailType,
   quote : [Sides -> Ids \cup {DemoQuote, None}], trade : [Sides -> Ids \cup {None}],
   quoting : [Sides -> BOOLEAN], busy : [Sides -> BOOLEAN], closing : BOOLEAN,
   waiting : Ids \cup {DemoQuote, None}]
JobType ==
  [side : Sides \cup {"close"}, mount : 1 .. MaxMounts, id : Ids \cup {DemoQuote, None},
   wallet : Wallets, phase : {"post", "backoff", "mint", "pay", "close"},
   attempt : 0 .. maxRetries]
ChainType ==
  [market : {"open", "closed"}, minted : [Ids -> Nat], paid : [Ids -> Seq(Wallets)]]

Typed ==
  /\ status \in [Ids -> {"new", "offered", "lapsed", "executed"}]
  /\ executions \in [Ids -> Nat]
  /\ owner \in [Ids -> Accounts] /\ strays \subseteq Ids \X Wallets
  /\ open \in BOOLEAN /\ chain \in ChainType /\ wallet \in Accounts /\ live \in BOOLEAN
  /\ page \in PageType /\ jobs \subseteq JobType /\ acts \in 0 .. MaxActs

\* A page quotes and shows a side's own quotes, and what it shows was paid by its owner.
PageShows ==
  \A s \in Sides :
    /\ page.quote[s] \in Ids => page.quote[s][1] = s
    /\ page.trade[s] # None =>
         /\ page.trade[s][1] = s /\ owner[page.trade[s]] # None
         /\ chain.paid[page.trade[s]] = <<owner[page.trade[s]]>>

\* A job is of one side, and its page keeps the side's button busy while it runs.
JobsFit ==
  /\ \A j \in jobs :
       /\ j.mount <= page.mount
       /\ j.phase = "close" <=> j.side = "close"
       /\ j.side = "close" => j.id = None
       /\ j.id \in Ids => j.id[1] = j.side
       /\ j.phase = "mint" => j.side = "sell"
       /\ j.phase \in {"mint", "pay"} => j.id \in Ids
       /\ Mine(j) => IF j.side = "close" THEN page.closing ELSE page.busy[j.side]
  /\ \A j, k \in jobs : j.side = k.side /\ j.mount = k.mount => j = k

\* A job that settles a quote has it executed for its own wallet, is alone with it,
\* and finds on the chain what it has done so far.
Settling(j) == j.phase \in {"mint", "pay"}
SettlersFit ==
  /\ \A j \in jobs : Settling(j) =>
       /\ status[j.id] = "executed" /\ owner[j.id] = j.wallet
       /\ chain.paid[j.id] = <<>>
       /\ chain.minted[j.id] = IF j.phase = "pay" /\ j.side = "sell" THEN 1 ELSE 0
  /\ \A j, k \in jobs : Settling(j) /\ Settling(k) /\ j.id = k.id => j = k

\* What is settled on the chain, of each quote.
BooksFit ==
  \A id \in Ids :
    /\ status[id] # "executed" =>
         owner[id] = None /\ chain.minted[id] = 0 /\ chain.paid[id] = <<>>
    /\ chain.minted[id] \in {0, 1} /\ (id[1] = "buyback" => chain.minted[id] = 0)
    /\ chain.paid[id] # <<>> =>
         /\ owner[id] # None /\ chain.paid[id] = <<owner[id]>>
         /\ id[1] = "sell" => chain.minted[id] = 1

\* A quote that this user executed, or may still execute by a post the client has given
\* up on, is worked on, is settled, or its failure was shown, left behind or hidden by
\* the loading screen.
Failed == (told \cup left \cup unheard) \cap Ids
Minded(id) == id \in Deals(jobs) \cup Failed \/ chain.paid[id] # <<>>
AllMinded ==
  /\ \A id \in Ids : owner[id] # None => Minded(id)
  /\ \A p \in strays : Minded(p[1])

ClientInv == Typed /\ PageShows /\ JobsFit /\ SettlersFit /\ BooksFit /\ AllMinded
-----------------------------------------------------------------------------
(* What keeps each part of the invariant. *)

\* What a page shows stays true while a quote that was paid keeps its owner and payment.
LEMMA ShownStays ==
  ASSUME Typed, PageShows,
         \A id \in Ids : owner[id] # None /\ chain.paid[id] # <<>> =>
           owner'[id] = owner[id] /\ chain'.paid[id] = chain.paid[id],
         \A s \in Sides : page'.quote[s] = page.quote[s] \/ page'.quote[s] \notin Ids
                            \/ page'.quote[s][1] = s,
         \A s \in Sides : page'.trade[s] \in {page.trade[s], None}
  PROVE  PageShows'
<1> SUFFICES ASSUME NEW s \in Sides
             PROVE  /\ page'.quote[s] \in Ids => page'.quote[s][1] = s
                    /\ page'.trade[s] # None =>
                         /\ page'.trade[s][1] = s /\ owner'[page'.trade[s]] # None
                         /\ chain'.paid[page'.trade[s]] = <<owner'[page'.trade[s]]>>
  BY DEF PageShows
<1>1. page'.quote[s] \in Ids => page'.quote[s][1] = s
  BY DEF PageShows
<1>2. ASSUME page'.trade[s] # None
      PROVE  /\ page'.trade[s][1] = s /\ owner'[page'.trade[s]] # None
             /\ chain'.paid[page'.trade[s]] = <<owner'[page'.trade[s]]>>
  <2> DEFINE id == page.trade[s]
  <2>1. page'.trade[s] = id /\ id # None
    BY <1>2
  <2>2. id \in Ids
    BY <2>1 DEF Typed, PageType
  <2>3. id[1] = s /\ owner[id] # None /\ chain.paid[id] = <<owner[id]>>
    BY <2>1 DEF PageShows
  <2>4. chain.paid[id] # <<>>
    BY <2>3
  <2>5. owner'[id] = owner[id] /\ chain'.paid[id] = chain.paid[id]
    BY <2>2, <2>3, <2>4
  <2> HIDE DEF id
  <2>6. QED BY <2>1, <2>3, <2>5
<1>3. QED BY <1>1, <1>2

\* The jobs fit while they are some of those there were and busy buttons stay busy.
LEMMA FewerJobs ==
  ASSUME Typed, JobsFit, jobs' \subseteq jobs,
         page.mount \in Nat, page'.mount \in Nat, page.mount <= page'.mount,
         \A j \in jobs' : page'.mount = page.mount /\ Mine(j) =>
           IF j.side = "close" THEN page.closing => page'.closing
                               ELSE page.busy[j.side] => page'.busy[j.side]
  PROVE  JobsFit'
<1> SUFFICES ASSUME NEW j \in jobs'
             PROVE  /\ j.mount <= page'.mount
                    /\ Mine(j)' => IF j.side = "close" THEN page'.closing ELSE page'.busy[j.side]
  BY DEF JobsFit
<1>1. j \in jobs /\ j.mount \in Nat /\ j.mount <= page.mount
  BY DEF JobsFit, Typed, JobType
<1>2. j.mount <= page'.mount
  BY <1>1
<1>3. ASSUME Mine(j)'
      PROVE  IF j.side = "close" THEN page'.closing ELSE page'.busy[j.side]
  <2>1. j.mount = page'.mount /\ page'.mount = page.mount
    BY <1>1, <1>3 DEF Mine
  <2>2. Mine(j)
    BY <2>1 DEF Mine
  <2>3. QED BY <1>1, <2>1, <2>2 DEF JobsFit
<1>4. QED BY <1>2, <1>3

\* The jobs fit when one of them goes on as itself, in another of its phases.
LEMMA JobGoesOn ==
  ASSUME Typed, JobsFit, NEW j \in jobs, NEW k,
         jobs' = (jobs \ {j}) \cup {k},
         k.side = j.side, k.mount = j.mount, k.id = j.id,
         (k.phase = "close") <=> (j.phase = "close"),
         k.phase = "mint" => j.side = "sell", k.phase \in {"mint", "pay"} => j.id \in Ids,
         page'.mount = page.mount, page'.busy = page.busy, page'.closing = page.closing
  PROVE  JobsFit'
<1>1. ASSUME NEW i \in jobs'
      PROVE  /\ i.mount <= page'.mount
             /\ i.phase = "close" <=> i.side = "close"
             /\ i.side = "close" => i.id = None
             /\ i.id \in Ids => i.id[1] = i.side
             /\ i.phase = "mint" => i.side = "sell"
             /\ i.phase \in {"mint", "pay"} => i.id \in Ids
             /\ Mine(i)' => IF i.side = "close" THEN page'.closing ELSE page'.busy[i.side]
  <2>1. CASE i = k
    BY <2>1 DEF JobsFit, Mine
  <2>2. CASE i \in jobs
    BY <2>2 DEF JobsFit, Mine
  <2>3. QED BY <2>1, <2>2
<1>2. \A i, l \in jobs' : i.side = l.side /\ i.mount = l.mount => i = l
  BY DEF JobsFit
<1>3. QED BY <1>1, <1>2 DEF JobsFit

\* Who settles a quote goes on while the quote's books stay as they are.
LEMMA SettlersStay ==
  ASSUME SettlersFit,
         \A j \in jobs' : Settling(j) => j \in jobs /\ status'[j.id] = "executed"
           /\ owner'[j.id] = owner[j.id] /\ chain'.paid[j.id] = chain.paid[j.id]
           /\ chain'.minted[j.id] = chain.minted[j.id]
  PROVE  SettlersFit'
BY DEF SettlersFit, Settling

\* Nothing that is minded is forgotten while jobs that end have failed or are paid.
LEMMA MindedStays ==
  ASSUME Deals(jobs) \subseteq Deals(jobs') \cup Failed'
           \cup {id \in Ids : chain'.paid[id] # <<>>},
         Failed \subseteq Failed',
         \A id \in Ids : chain.paid[id] # <<>> => chain'.paid[id] # <<>>
  PROVE  \A id \in Ids : Minded(id) => Minded(id)'
BY DEF Minded

\* The deals of jobs of which one goes on with the same quote, and of which one ends.
LEMMA DealsOf ==
  ASSUME NEW js, NEW j \in js
  PROVE  /\ \A k : k.id = j.id => Deals((js \ {j}) \cup {k}) = Deals(js)
         /\ Deals(js) \subseteq Deals(js \ {j}) \cup Deals({j})
         /\ j.id \in Ids => j.id \in Deals(js)
         /\ \A id \in Deals({j}) : id = j.id /\ id \in Ids
BY DEF Deals

\* What the desk's execution of a quote changes: the quote was offered and nobody's.
LEMMA ExecuteFits ==
  ASSUME Typed, BooksFit, NEW id, NEW w \in Wallets, Execute(id, w)
  PROVE  /\ id \in Ids /\ status[id] = "offered" /\ status'[id] = "executed"
         /\ owner[id] = None /\ owner'[id] = w /\ w # None
         /\ chain.minted[id] = 0 /\ chain.paid[id] = <<>>
         /\ \A i \in Ids : i # id => status'[i] = status[i] /\ owner'[i] = owner[i]
         /\ status' \in [Ids -> {"new", "offered", "lapsed", "executed"}]
         /\ executions' \in [Ids -> Nat]
         /\ owner' \in [Ids -> Accounts]
<1>1. id \in Ids /\ w # None /\ w \in Accounts
  BY AdvanceAssumption DEF Execute, Accounts, AdvanceAssumption
<1>2. status[id] = "offered" /\ status' = [status EXCEPT ![id] = "executed"]
      /\ executions' = [executions EXCEPT ![id] = @ + 1] /\ owner' = [owner EXCEPT ![id] = w]
  BY DEF Execute, Quote!Execute
<1>3. owner[id] = None /\ chain.minted[id] = 0 /\ chain.paid[id] = <<>>
  BY <1>1, <1>2 DEF BooksFit
<1>4. QED BY <1>1, <1>2, <1>3 DEF Typed

\* The books fit after it.
LEMMA ExecutedBooks ==
  ASSUME Typed, BooksFit, NEW id, NEW w \in Wallets, Execute(id, w), chain' = chain
  PROVE  BooksFit'
BY ExecuteFits DEF BooksFit
-----------------------------------------------------------------------------
(* The page, the user and the others. *)

\* Any move of the page, the user or other clients keeps the invariant if it leaves the
\* jobs, the chain and this user's trades alone, and the buttons of a mounted page busy.
LEMMA OtherMoves ==
  ASSUME ClientInv, UNCHANGED <<owner, strays, chain, jobs>>, Failed \subseteq Failed',
         status' \in [Ids -> {"new", "offered", "lapsed", "executed"}],
         executions' \in [Ids -> Nat],
         \A id \in Ids : status[id] = "executed" => status'[id] = "executed",
         open' \in BOOLEAN, wallet' \in Accounts, live' \in BOOLEAN, acts' \in 0 .. MaxActs,
         page' \in PageType, page.mount <= page'.mount,
         page'.mount = page.mount => page'.busy = page.busy /\ page'.closing = page.closing,
         \A s \in Sides : page'.quote[s] = page.quote[s] \/ page'.quote[s] \notin Ids
                            \/ page'.quote[s][1] = s,
         \A s \in Sides : page'.trade[s] \in {page.trade[s], None}
  PROVE  ClientInv'
<1>1. Typed'
  BY DEF ClientInv, Typed
<1>2. PageShows'
  BY ShownStays DEF ClientInv
<1>3. JobsFit'
  <2>1. page.mount \in Nat /\ page'.mount \in Nat
    BY DEF ClientInv, Typed, PageType
  <2>2. QED BY <2>1, FewerJobs DEF ClientInv
<1>4. SettlersFit'
  <2>1. \A j \in jobs : Settling(j) => j.id \in Ids /\ status[j.id] = "executed"
    BY DEF ClientInv, JobsFit, SettlersFit, Settling
  <2>2. QED BY <2>1, SettlersStay DEF ClientInv
<1>5. BooksFit'
  BY <1>1 DEF ClientInv, BooksFit
<1>6. AllMinded'
  BY DEF ClientInv, AllMinded, Minded
<1>7. QED BY <1>1, <1>2, <1>3, <1>4, <1>5, <1>6 DEF ClientInv

\* A new page, and the load of one, in either mode.
LEMMA LoadedPage ==
  ASSUME NEW p \in PageType, NEW toLive \in BOOLEAN
  PROVE  /\ LoadEffect(p, toLive) \in PageType
         /\ LoadEffect(p, toLive).mount = p.mount
         /\ LoadEffect(p, toLive).busy = p.busy /\ LoadEffect(p, toLive).closing = p.closing
         /\ LoadEffect(p, toLive).quote = p.quote /\ LoadEffect(p, toLive).trade = p.trade
<1>1. DemoDetail \in DetailType
  BY DEF DemoDetail, DetailType
<1>2. QED BY <1>1 DEF LoadEffect, PageType

\* A page just mounted is typed and shows nothing.
LEMMA FreshPage ==
  ASSUME NEW n \in 1 .. MaxMounts
  PROVE  /\ Fresh(n) \in PageType /\ Fresh(n).mount = n
         /\ \A s \in Sides : Fresh(n).quote[s] = None /\ Fresh(n).trade[s] = None
<1>1. NoDetail \in DetailType
  BY DEF NoDetail, DetailType
<1>2. QED BY <1>1 DEF Fresh, PageType

\* What the user does counts, up to the bound.
LEMMA ActCounts ==
  ASSUME Typed, Act
  PROVE  acts' \in 0 .. MaxActs
BY AdvanceAssumption DEF Typed, Act, AdvanceAssumption

\* The page's data comes, or the mode or the account is switched.
LEMMA DataMoves ==
  ASSUME ClientInv, Loads \/ SwitchMode \/ SwitchAccount \/ Pauses
  PROVE  ClientInv'
<1>1. Typed /\ page \in PageType /\ page.mount \in Nat /\ live \in BOOLEAN
  BY DEF ClientInv, Typed, PageType
<1>2. status' = status /\ executions' = executions
      /\ UNCHANGED <<owner, strays, chain, jobs>> /\ Failed \subseteq Failed'
  BY DEF Loads, SwitchMode, SwitchAccount, Pauses, desk, fates, Failed
<1>3. /\ status' \in [Ids -> {"new", "offered", "lapsed", "executed"}]
      /\ executions' \in [Ids -> Nat]
      /\ \A id \in Ids : status[id] = "executed" => status'[id] = "executed"
  BY <1>1, <1>2 DEF Typed
<1>4. /\ open' \in BOOLEAN /\ wallet' \in Accounts /\ live' \in BOOLEAN
      /\ acts' \in 0 .. MaxActs
  BY <1>1, ActCounts DEF Loads, SwitchMode, SwitchAccount, Pauses, Typed
<1>5. /\ page' \in PageType /\ page'.mount = page.mount
      /\ page'.busy = page.busy /\ page'.closing = page.closing
      /\ page'.quote = page.quote /\ page'.trade = page.trade
  <2>1. CASE Loads
    <3>1. advancePolicy(open, ~Supply) \in DetailType
      BY <1>1 DEF advancePolicy, DetailType, Typed
    <3>2. QED BY <1>1, <2>1, <3>1 DEF Loads, PageType
  <2>2. CASE SwitchMode
    BY <1>1, <2>2, LoadedPage DEF SwitchMode
  <2>3. CASE SwitchAccount \/ Pauses
    BY <1>1, <2>3 DEF SwitchAccount, Pauses
  <2>4. QED BY <2>1, <2>2, <2>3
<1>6. QED BY <1>1, <1>2, <1>3, <1>4, <1>5, OtherMoves

\* Another page and back.
LEMMA ReturnMoves ==
  ASSUME ClientInv, Return
  PROVE  ClientInv'
<1>1. Typed /\ page.mount \in 1 .. MaxMounts /\ live \in BOOLEAN /\ MaxMounts \in Nat
  BY AdvanceAssumption DEF ClientInv, Typed, PageType, AdvanceAssumption
<1>2. page.mount + 1 \in 1 .. MaxMounts
  BY <1>1 DEF Return
<1>3. page' = LoadEffect(Fresh(page.mount + 1), live)
  BY DEF Return
<1>4. /\ page' \in PageType /\ page'.mount = page.mount + 1
      /\ \A s \in Sides : page'.quote[s] = None /\ page'.trade[s] = None
  BY <1>1, <1>2, <1>3, FreshPage, LoadedPage
<1>5. page.mount <= page'.mount /\ page'.mount # page.mount
  BY <1>1, <1>4
<1>6. /\ UNCHANGED <<owner, strays, chain, jobs>> /\ Failed \subseteq Failed'
      /\ status' \in [Ids -> {"new", "offered", "lapsed", "executed"}]
      /\ executions' \in [Ids -> Nat]
      /\ \A id \in Ids : status[id] = "executed" => status'[id] = "executed"
      /\ open' \in BOOLEAN /\ wallet' \in Accounts /\ live' \in BOOLEAN
      /\ acts' \in 0 .. MaxActs
  BY <1>1, ActCounts DEF Return, desk, fates, Failed, Typed
<1>7. \A s \in Sides : page'.quote[s] \notin Ids
  BY <1>4, AdvanceAssumption DEF AdvanceAssumption
<1>8. QED BY <1>4, <1>5, <1>6, <1>7, OtherMoves

\* A quote is asked for, and the answer shown.
LEMMA QuoteMoves ==
  ASSUME ClientInv, NEW s \in Sides, asks(s) \/ Quoted(s)
  PROVE  ClientInv'
<1>1. Typed /\ page \in PageType /\ page.mount \in Nat
  BY DEF ClientInv, Typed, PageType
<1>2. UNCHANGED <<owner, strays, open, chain, wallet, live, jobs>> /\ Failed \subseteq Failed'
  BY DEF asks, Quoted, desk, fates, Failed
<1>3. /\ open' \in BOOLEAN /\ wallet' \in Accounts /\ live' \in BOOLEAN
      /\ acts' \in 0 .. MaxActs
  BY <1>1, <1>2, ActCounts DEF asks, Quoted, Typed
<1>4. /\ status' \in [Ids -> {"new", "offered", "lapsed", "executed"}]
      /\ executions' \in [Ids -> Nat]
      /\ \A id \in Ids : status[id] = "executed" => status'[id] = "executed"
  <2>1. CASE UNCHANGED desk
    BY <1>1, <2>1 DEF desk, Typed
  <2>2. CASE \E id \in Ids : Quote!Refresh({}, {id})
    <3>1. PICK id \in Ids : Quote!Refresh({}, {id})
      BY <2>2
    <3>2. status[id] = "new" /\ executions' = executions
          /\ \A i \in Ids : status'[i] = IF i = id THEN "offered" ELSE status[i]
      BY <3>1 DEF Quote!Refresh, Quote!Having
    <3>3. DOMAIN status' = Ids /\ status' = [i \in Ids |-> status'[i]]
      BY <3>1 DEF Quote!Refresh
    <3>4. QED BY <1>1, <3>2, <3>3 DEF Typed
  <2>3. QED BY <2>1, <2>2 DEF asks, Quoted
<1>5. /\ page' \in PageType /\ page'.mount = page.mount
      /\ page'.busy = page.busy /\ page'.closing = page.closing
      /\ \A t \in Sides : /\ page'.quote[t] \in {page.quote[t], DemoQuote} \/ page'.quote[t][1] = t
                          /\ page'.trade[t] \in {page.trade[t], None}
  <2>1. \/ page' = [page EXCEPT !.quoting[s] = TRUE, !.error = FALSE]
        \/ page' = [page EXCEPT !.quote[s] = DemoQuote, !.trade[s] = None, !.error = FALSE]
        \/ page' = [page EXCEPT !.quoting[s] = FALSE, !.error = TRUE, !.waiting = None]
        \/ \E id \in Ids : /\ id[1] = s
                           /\ page' = [page EXCEPT !.quoting[s] = FALSE, !.quote[s] = id,
                                                   !.trade[s] = None]
    BY DEF asks, Quoted
  <2>2. CASE \/ page' = [page EXCEPT !.quoting[s] = TRUE, !.error = FALSE]
             \/ page' = [page EXCEPT !.quoting[s] = FALSE, !.error = TRUE, !.waiting = None]
    BY <1>1, <2>2 DEF PageType
  <2>3. ASSUME NEW id \in Ids \cup {DemoQuote}, NEW quoting \in [Sides -> BOOLEAN],
               NEW error \in BOOLEAN, id = DemoQuote \/ id[1] = s,
               page' = [page EXCEPT !.quoting = quoting, !.quote[s] = id, !.trade[s] = None,
                                    !.error = error]
        PROVE  /\ page' \in PageType /\ page'.mount = page.mount
               /\ page'.busy = page.busy /\ page'.closing = page.closing
               /\ \A t \in Sides :
                    /\ page'.quote[t] \in {page.quote[t], DemoQuote} \/ page'.quote[t][1] = t
                    /\ page'.trade[t] \in {page.trade[t], None}
    <3>1. page' \in PageType /\ page'.mount = page.mount
          /\ page'.busy = page.busy /\ page'.closing = page.closing
      BY <1>1, <2>3 DEF PageType
    <3>2. /\ page'.quote = [page.quote EXCEPT ![s] = id]
          /\ page'.trade = [page.trade EXCEPT ![s] = None]
      BY <1>1, <2>3 DEF PageType
    <3>3. page.quote \in [Sides -> Ids \cup {DemoQuote, None}]
          /\ page.trade \in [Sides -> Ids \cup {None}]
      BY <1>1 DEF PageType
    <3>4. QED BY <2>3, <3>1, <3>2, <3>3
  <2>4. CASE page' = [page EXCEPT !.quote[s] = DemoQuote, !.trade[s] = None, !.error = FALSE]
    <3>1. /\ page.quoting \in [Sides -> BOOLEAN]
          /\ page' = [page EXCEPT !.quoting = page.quoting, !.quote[s] = DemoQuote,
                                  !.trade[s] = None, !.error = FALSE]
      BY <1>1, <2>4 DEF PageType
    <3>2. QED BY <2>3, <3>1
  <2>5. CASE \E id \in Ids : /\ id[1] = s
                             /\ page' = [page EXCEPT !.quoting[s] = FALSE, !.quote[s] = id,
                                                     !.trade[s] = None]
    <3>1. PICK id \in Ids : /\ id[1] = s
                            /\ page' = [page EXCEPT !.quoting[s] = FALSE, !.quote[s] = id,
                                                    !.trade[s] = None]
      BY <2>5
    <3> DEFINE quoting == [page.quoting EXCEPT ![s] = FALSE]
    <3>2. /\ quoting \in [Sides -> BOOLEAN] /\ page.error \in BOOLEAN
          /\ page' = [page EXCEPT !.quoting = quoting, !.quote[s] = id, !.trade[s] = None,
                                  !.error = page.error]
      BY <1>1, <3>1 DEF PageType
    <3> HIDE DEF quoting
    <3>3. QED BY <2>3, <3>1, <3>2
  <2>6. QED BY <2>1, <2>2, <2>4, <2>5
<1>6. DemoQuote \notin Ids
  BY AdvanceAssumption DEF AdvanceAssumption
<1>7. QED BY <1>1, <1>2, <1>3, <1>4, <1>5, <1>6, OtherMoves

\* A quote expires, or another client executes one.
LEMMA DeskMoves ==
  ASSUME ClientInv, Expire \/ OtherExecutes
  PROVE  ClientInv'
<1>1. Typed /\ page.mount \in Nat
  BY DEF ClientInv, Typed, PageType
<1>2. /\ UNCHANGED <<owner, strays, open, chain, wallet, live, page, jobs, acts>>
      /\ Failed \subseteq Failed'
  BY DEF Expire, OtherExecutes, fates, Failed
<1>3. /\ status' \in [Ids -> {"new", "offered", "lapsed", "executed"}]
      /\ executions' \in [Ids -> Nat]
      /\ \A id \in Ids : status[id] = "executed" => status'[id] = "executed"
  <2>1. CASE Expire
    <3>1. PICK id \in Quote!Having("offered") : Quote!Refresh({id}, {})
      BY <2>1 DEF Expire
    <3>2. status[id] = "offered" /\ executions' = executions
          /\ \A i \in Ids : status'[i] = IF i = id THEN "lapsed" ELSE status[i]
      BY <3>1 DEF Quote!Refresh, Quote!Having
    <3>3. DOMAIN status' = Ids /\ status' = [i \in Ids |-> status'[i]]
      BY <3>1 DEF Quote!Refresh
    <3>4. QED BY <1>1, <3>2, <3>3 DEF Typed
  <2>2. CASE OtherExecutes
    BY <1>1, <2>2 DEF OtherExecutes, Quote!Execute, Typed
  <2>3. QED BY <2>1, <2>2
<1>4. QED BY <1>1, <1>2, <1>3, OtherMoves DEF Typed

\* A reload ends the jobs and leaves their deals behind; what was posted may still arrive.
LEMMA ReloadMoves ==
  ASSUME ClientInv, Reload
  PROVE  ClientInv'
<1>1. Typed /\ page.mount \in 1 .. MaxMounts /\ live \in BOOLEAN /\ MaxMounts \in Nat
  BY AdvanceAssumption DEF ClientInv, Typed, PageType, AdvanceAssumption
<1>2. page.mount + 1 \in 1 .. MaxMounts
  BY <1>1 DEF Reload
<1>3. /\ page' = LoadEffect(Fresh(page.mount + 1), live) /\ jobs' = {}
      /\ left' = left \cup Deals(jobs)
      /\ strays' = strays \cup UNION {Posted(j) : j \in jobs}
      /\ UNCHANGED <<status, executions, owner, open, chain, wallet, live, told, unheard>>
  BY DEF Reload
<1>4. /\ page' \in PageType /\ page'.mount = page.mount + 1
      /\ \A s \in Sides : page'.quote[s] = None /\ page'.trade[s] = None
  BY <1>1, <1>2, <1>3, FreshPage, LoadedPage
<1>5. \A p \in strays' : p \in strays
                          \/ (p \in Ids \X Wallets /\ p[1] \in Deals(jobs))
  <2>1. \A j \in jobs : \A p \in Posted(j) : p \in Ids \X Wallets /\ p[1] \in Deals(jobs)
    BY <1>1 DEF Posted, Typed, JobType, Deals
  <2>2. QED BY <1>3, <2>1
<1>6. Typed'
  <2>1. acts' \in 0 .. MaxActs
    BY <1>1, ActCounts DEF Reload
  <2>2. strays' \subseteq Ids \X Wallets
    BY <1>1, <1>5 DEF Typed
  <2>3. QED BY <1>1, <1>3, <1>4, <2>1, <2>2 DEF Typed
<1>7. PageShows'
  BY <1>4, AdvanceAssumption DEF PageShows, AdvanceAssumption
<1>8. JobsFit' /\ SettlersFit'
  BY <1>3 DEF JobsFit, SettlersFit
<1>9. BooksFit'
  BY <1>3 DEF ClientInv, BooksFit
<1>10. AllMinded'
  <2>1. Failed \subseteq Failed' /\ Deals(jobs) \subseteq Failed'
    BY <1>3 DEF Failed, Deals
  <2>2. \A p \in strays : p[1] \in Ids
    BY <1>1 DEF Typed
  <2>3. \A id \in Deals(jobs) : Minded(id)'
    BY <2>1 DEF Minded
  <2>4. \A id \in Ids : Minded(id) => Minded(id)'
    BY <1>3, <2>1, MindedStays
  <2>5. QED BY <1>3, <1>5, <2>2, <2>3, <2>4 DEF ClientInv, AllMinded
<1>11. QED BY <1>6, <1>7, <1>8, <1>9, <1>10 DEF ClientInv
-----------------------------------------------------------------------------
(* The jobs. *)

\* A job starts on a button that was not busy, and makes it so.
LEMMA JobStarts ==
  ASSUME ClientInv, Act, NEW k \in JobType, jobs' = jobs \cup {k},
         UNCHANGED <<desk, open, chain, wallet, live, fates>>,
         k.mount = page.mount, k.phase \in {"post", "close"},
         k.phase = "close" <=> k.side = "close", k.side = "close" => k.id = None,
         k.id \in Ids => k.id[1] = k.side,
         IF k.side = "close" THEN ~page.closing ELSE ~page.busy[k.side],
         page' = IF k.side = "close" THEN [page EXCEPT !.closing = TRUE]
                                     ELSE [page EXCEPT !.busy[k.side] = TRUE]
  PROVE  ClientInv'
<1>1. Typed /\ page \in PageType
  BY DEF ClientInv, Typed
<1>2. k.side \in Sides \cup {"close"} /\ "close" \notin Sides
  BY DEF JobType, Sides
<1>3. /\ page' \in PageType /\ page'.mount = page.mount
      /\ page'.quote = page.quote /\ page'.trade = page.trade
      /\ page.closing => page'.closing
      /\ \A s \in Sides : page.busy[s] => page'.busy[s]
      /\ IF k.side = "close" THEN page'.closing ELSE page'.busy[k.side]
  <2>1. CASE k.side = "close"
    BY <1>1, <2>1 DEF PageType
  <2>2. CASE k.side # "close"
    BY <1>1, <1>2, <2>2 DEF PageType
  <2>3. QED BY <2>1, <2>2
<1>4. Typed'
  BY <1>1, <1>3, ActCounts DEF Typed, desk
<1>5. PageShows'
  BY <1>1, <1>3, ShownStays DEF ClientInv, desk
<1>6. JobsFit'
  <2>1. \A i \in jobs : i.mount = k.mount => i.side # k.side
    BY DEF ClientInv, JobsFit, Mine
  <2>2. page.mount \in Nat
    BY <1>1 DEF PageType
  <2>3. ASSUME NEW i \in jobs'
        PROVE  /\ i.mount <= page'.mount
               /\ i.phase = "close" <=> i.side = "close"
               /\ i.side = "close" => i.id = None
               /\ i.id \in Ids => i.id[1] = i.side
               /\ i.phase = "mint" => i.side = "sell"
               /\ i.phase \in {"mint", "pay"} => i.id \in Ids
               /\ Mine(i)' => IF i.side = "close" THEN page'.closing ELSE page'.busy[i.side]
    <3>1. CASE i = k
      BY <1>3, <2>2, <3>1
    <3>2. CASE i \in jobs
      <4>1. i.side \in Sides \cup {"close"}
        BY <1>1, <3>2 DEF Typed, JobType
      <4>2. QED BY <1>3, <3>2, <4>1 DEF ClientInv, JobsFit, Mine
    <3>3. QED BY <3>1, <3>2
  <2>4. \A i, l \in jobs' : i.side = l.side /\ i.mount = l.mount => i = l
    BY <2>1 DEF ClientInv, JobsFit
  <2>5. QED BY <2>3, <2>4 DEF JobsFit
<1>7. SettlersFit'
  <2>1. \A j \in jobs : Settling(j) => j.id \in Ids /\ status[j.id] = "executed"
    BY DEF ClientInv, JobsFit, SettlersFit, Settling
  <2>2. QED BY <2>1, SettlersStay DEF ClientInv, Settling, desk
<1>8. BooksFit'
  BY DEF ClientInv, BooksFit, desk
<1>9. AllMinded'
  <2>1. Deals(jobs) \subseteq Deals(jobs')
    BY DEF Deals
  <2>2. QED BY <2>1 DEF ClientInv, AllMinded, Minded, Failed, fates, desk
<1>10. QED BY <1>4, <1>5, <1>6, <1>7, <1>8, <1>9 DEF ClientInv

\* The user confirms a quote, or closes the market.
LEMMA UserStarts ==
  ASSUME ClientInv, runAdvance \/ runBuyback \/ handleCloseMarket
  PROVE  ClientInv'
<1>1. Typed /\ page \in PageType /\ 0 \in 0 .. maxRetries
  BY AdvanceAssumption DEF ClientInv, Typed, AdvanceAssumption
<1>2. ASSUME NEW s \in Sides, Confirm(s), page.quote[s] # None, ~page.busy[s]
      PROVE  ClientInv'
  <2>1. Act /\ UNCHANGED <<desk, open, chain, wallet, live, fates>>
    BY <1>2 DEF Confirm
  <2>2. CASE canExecuteAdvance
    <3> DEFINE k == [side |-> s, mount |-> page.mount, id |-> page.quote[s],
                     wallet |-> wallet, phase |-> "post", attempt |-> 0]
    <3>1. jobs' = jobs \cup {k} /\ page' = [page EXCEPT !.busy[s] = TRUE]
      BY <1>2, <2>2 DEF Confirm
    <3>2. k \in JobType
      <4>1. wallet \in Wallets
        BY <1>1, <2>2 DEF canExecuteAdvance, Typed, Accounts
      <4>2. page.mount \in 1 .. MaxMounts /\ page.quote[s] \in Ids \cup {DemoQuote, None}
        BY <1>1 DEF PageType
      <4>3. QED BY <1>1, <4>1, <4>2 DEF JobType
    <3>3. /\ k.side = s /\ k.mount = page.mount /\ k.phase = "post" /\ s # "close"
          /\ k.id \in Ids => k.id[1] = s
      BY DEF ClientInv, PageShows, Sides
    <3> HIDE DEF k
    <3>4. QED BY <1>2, <2>1, <3>1, <3>2, <3>3, JobStarts
  <2>3. CASE ~canExecuteAdvance
    <3>1. page' = [page EXCEPT !.error = TRUE] /\ jobs' = jobs
      BY <1>2, <2>3 DEF Confirm
    <3>2. /\ page' \in PageType /\ page'.mount = page.mount
          /\ page'.busy = page.busy /\ page'.closing = page.closing
          /\ page'.quote = page.quote /\ page'.trade = page.trade
      BY <1>1, <3>1 DEF PageType
    <3>3. page.mount \in Nat /\ acts' \in 0 .. MaxActs
      BY <1>1, <2>1, ActCounts DEF PageType
    <3>4. /\ UNCHANGED <<owner, strays, chain, jobs>> /\ Failed \subseteq Failed'
          /\ status' \in [Ids -> {"new", "offered", "lapsed", "executed"}]
          /\ executions' \in [Ids -> Nat]
          /\ \A id \in Ids : status[id] = "executed" => status'[id] = "executed"
          /\ open' \in BOOLEAN /\ wallet' \in Accounts /\ live' \in BOOLEAN
      BY <1>1, <2>1, <3>1 DEF Typed, desk, fates, Failed
    <3>5. QED BY <3>2, <3>3, <3>4, OtherMoves
  <2>4. QED BY <2>2, <2>3
<1>3. CASE runAdvance
  <2>1. Confirm("sell") /\ page.quote["sell"] # None /\ ~page.busy["sell"]
    BY <1>3 DEF runAdvance, SellSection, Pressable
  <2>2. QED BY <1>2, <2>1 DEF Sides
<1>4. CASE runBuyback
  <2>1. Confirm("buyback") /\ page.quote["buyback"] # None /\ ~page.busy["buyback"]
    BY <1>4 DEF runBuyback, BuybackSection, Pressable
  <2>2. QED BY <1>2, <2>1 DEF Sides
<1>5. CASE handleCloseMarket
  <2> DEFINE k == [side |-> "close", mount |-> page.mount, id |-> None,
                   wallet |-> wallet, phase |-> "close", attempt |-> 0]
  <2>1. /\ Act /\ UNCHANGED <<desk, open, chain, wallet, live, fates>>
        /\ jobs' = jobs \cup {k} /\ page' = [page EXCEPT !.closing = TRUE]
        /\ wallet = Admin /\ ~page.closing
    BY <1>5 DEF handleCloseMarket, CloseSection, canCloseMarket
  <2>2. k \in JobType
    BY <1>1, <2>1, AdvanceAssumption DEF JobType, PageType, AdvanceAssumption
  <2>3. /\ k.side = "close" /\ k.mount = page.mount /\ k.phase = "close" /\ k.id = None
        /\ None \notin Ids
    BY AdvanceAssumption DEF AdvanceAssumption
  <2> HIDE DEF k
  <2>4. QED BY <2>1, <2>2, <2>3, JobStarts
<1>6. QED BY <1>3, <1>4, <1>5

\* What the client gave up on arrives: the desk executes it, or not.
LEMMA ForwardedMoves ==
  ASSUME ClientInv, Forwarded
  PROVE  ClientInv'
<1>1. Typed /\ BooksFit
  BY DEF ClientInv
<1>2. /\ UNCHANGED <<open, chain, wallet, live, page, jobs, acts>> /\ Failed' = Failed
      /\ strays' \subseteq strays
      /\ \/ \E p \in strays : Execute(p[1], p[2])
         \/ UNCHANGED <<status, executions, owner>>
  BY DEF Forwarded, fates, Failed
<1>3. CASE UNCHANGED <<status, executions, owner>>
  <2>1. Typed'
    BY <1>1, <1>2, <1>3 DEF Typed
  <2>2. PageShows' /\ JobsFit' /\ BooksFit'
    BY <1>2, <1>3 DEF ClientInv, PageShows, JobsFit, BooksFit, Mine
  <2>3. SettlersFit' /\ AllMinded'
    BY <1>2, <1>3 DEF ClientInv, SettlersFit, AllMinded, Minded
  <2>4. QED BY <2>1, <2>2, <2>3 DEF ClientInv
<1>4. ASSUME NEW p \in strays, Execute(p[1], p[2])
      PROVE  ClientInv'
  <2> DEFINE id == p[1]
             w == p[2]
  <2>1. w \in Wallets /\ Execute(id, w) /\ Minded(id)
    BY <1>1, <1>4 DEF Typed, ClientInv, AllMinded
  <2> HIDE DEF id, w
  <2>2. Typed'
    BY <1>1, <1>2, <2>1, ExecuteFits DEF Typed
  <2>3. PageShows'
    BY <1>1, <1>2, <2>1, ExecuteFits, ShownStays DEF ClientInv
  <2>4. JobsFit'
    BY <1>2 DEF ClientInv, JobsFit, Mine
  <2>5. SettlersFit'
    <3>1. \A j \in jobs : Settling(j) => j.id \in Ids /\ status[j.id] = "executed"
      BY DEF ClientInv, JobsFit, SettlersFit, Settling
    <3>2. QED BY <1>1, <1>2, <2>1, <3>1, ExecuteFits, SettlersStay DEF ClientInv
  <2>6. BooksFit'
    BY <1>1, <1>2, <2>1, ExecutedBooks
  <2>7. AllMinded'
    BY <1>1, <1>2, <2>1, ExecuteFits DEF ClientInv, AllMinded, Minded
  <2>8. QED BY <2>2, <2>3, <2>4, <2>5, <2>6, <2>7 DEF ClientInv
<1>5. QED BY <1>2, <1>3, <1>4

\* The post is answered with the trade, and the job goes on to settle it.
LEMMA TradedMoves ==
  ASSUME ClientInv, NEW j \in jobs, postSellYt(j) \/ postBuybackYt(j)
  PROVE  ClientInv'
<1> DEFINE phase == IF j.side = "sell" THEN "mint" ELSE "pay"
           k == [j EXCEPT !.phase = phase]
<1>1. Typed /\ BooksFit /\ j \in JobType /\ j.wallet \in Wallets
  BY DEF ClientInv, Typed, JobType
<1>2. /\ j.phase = "post" /\ Execute(j.id, j.wallet) /\ jobs' = (jobs \ {j}) \cup {k}
      /\ UNCHANGED <<strays, open, chain, wallet, live, page, acts>> /\ Failed' = Failed
  BY DEF postSellYt, postBuybackYt, Traded, Goes, fates, Failed
<1>3. /\ k \in JobType /\ k.side = j.side /\ k.mount = j.mount /\ k.id = j.id
      /\ k.wallet = j.wallet /\ k.phase \in {"mint", "pay"}
      /\ k.phase = "mint" <=> j.side = "sell"
  BY <1>1 DEF JobType
<1> HIDE DEF k, phase
<1>4. j.id \in Ids /\ j.id[1] = j.side
  BY <1>1, <1>2, ExecuteFits DEF ClientInv, JobsFit
<1>5. Typed'
  BY <1>1, <1>2, <1>3, ExecuteFits DEF Typed
<1>6. PageShows'
  BY <1>1, <1>2, ExecuteFits, ShownStays DEF ClientInv
<1>7. JobsFit'
  BY <1>1, <1>2, <1>3, <1>4, JobGoesOn DEF ClientInv
<1>8. BooksFit'
  BY <1>1, <1>2, ExecutedBooks
<1>9. SettlersFit'
  <2>1. \A i \in jobs : Settling(i) => i.id \in Ids /\ status[i.id] = "executed"
    BY DEF ClientInv, JobsFit, SettlersFit, Settling
  <2>2. \A i \in jobs : Settling(i) => i.id # j.id
    BY <1>1, <1>2, <2>1, ExecuteFits
  <2>3. ASSUME NEW i \in jobs', Settling(i)
        PROVE  /\ status'[i.id] = "executed" /\ owner'[i.id] = i.wallet
               /\ chain'.paid[i.id] = <<>>
               /\ chain'.minted[i.id] = IF i.phase = "pay" /\ i.side = "sell" THEN 1 ELSE 0
    <3>1. CASE i = k
      BY <1>1, <1>2, <1>3, <3>1, ExecuteFits
    <3>2. CASE i \in jobs
      BY <1>1, <1>2, <2>1, <2>2, <2>3, <3>2, ExecuteFits DEF ClientInv, SettlersFit
    <3>3. QED BY <1>2, <3>1, <3>2
  <2>4. \A i, l \in jobs' : Settling(i) /\ Settling(l) /\ i.id = l.id => i = l
    BY <1>2, <1>3, <2>2 DEF ClientInv, SettlersFit
  <2>5. QED BY <2>3, <2>4 DEF SettlersFit
<1>10. AllMinded'
  <2>1. Deals(jobs') = Deals(jobs) /\ j.id \in Deals(jobs)
    BY <1>2, <1>3, <1>4, DealsOf
  <2>2. \A id \in Ids : owner'[id] # None => id = j.id \/ owner[id] # None
    BY <1>1, <1>2, ExecuteFits
  <2>3. QED BY <1>2, <2>1, <2>2 DEF ClientInv, AllMinded, Minded
<1>11. QED BY <1>5, <1>6, <1>7, <1>8, <1>9, <1>10 DEF ClientInv

\* A job that ends gives back its own button and no other.
LEMMA JobEnds ==
  ASSUME ClientInv, NEW j \in jobs, jobs' = jobs \ {j}, page'.mount = page.mount,
         page.closing => page'.closing \/ (Mine(j) /\ j.side = "close"),
         \A s \in Sides : page.busy[s] => page'.busy[s] \/ (Mine(j) /\ j.side = s)
  PROVE  JobsFit'
<1>1. page.mount \in Nat /\ Typed /\ JobsFit
  BY DEF ClientInv, Typed, PageType
<1>2. ASSUME NEW i \in jobs', Mine(i)
      PROVE  IF i.side = "close" THEN page.closing => page'.closing
                                 ELSE page.busy[i.side] => page'.busy[i.side]
  <2>1. ~(Mine(j) /\ j.side = i.side)
    BY <1>1, <1>2 DEF JobsFit, Mine
  <2>2. i.side \in Sides \cup {"close"}
    BY <1>1 DEF Typed, JobType
  <2>3. QED BY <2>1, <2>2
<1>3. QED BY <1>1, <1>2, FewerJobs

\* The catch and the finally of a job: its failure is shown, or its page is gone.
LEMMA FailsEffect ==
  ASSUME ClientInv, NEW j \in jobs, j.side # "close", Fails(j)
  PROVE  /\ page' \in PageType /\ page'.mount = page.mount
         /\ page'.quote = page.quote /\ page'.trade = page.trade
         /\ JobsFit'
         /\ Failed \subseteq Failed'
         /\ Deals({j}) \subseteq Failed'
         /\ Deals(jobs) \subseteq Deals(jobs') \cup Failed'
         /\ jobs' = jobs \ {j}
<1>1. page \in PageType /\ j.side \in Sides
  BY DEF ClientInv, Typed, JobType
<1>2. /\ page' \in PageType /\ page'.mount = page.mount
      /\ page'.quote = page.quote /\ page'.trade = page.trade
      /\ page'.closing = page.closing
      /\ \A s \in Sides : page.busy[s] => page'.busy[s] \/ (Mine(j) /\ j.side = s)
  <2>1. CASE Mine(j)
    <3>1. page' = [page EXCEPT !.busy[j.side] = FALSE, !.error = TRUE,
                               !.waiting = IF page.loading THEN j.id ELSE None]
      BY <2>1 DEF Fails
    <3>2. j.id \in Ids \cup {DemoQuote, None}
      BY DEF ClientInv, Typed, JobType
    <3>3. QED BY <1>1, <2>1, <3>1, <3>2 DEF PageType
  <2>2. CASE ~Mine(j)
    BY <1>1, <2>2 DEF Fails
  <2>3. QED BY <2>1, <2>2
<1>3. jobs' = jobs \ {j} /\ Failed \subseteq Failed'
      /\ Deals({j}) \subseteq Failed'
  BY DEF Fails, Failed, Deals
<1>4. JobsFit'
  BY <1>2, <1>3, JobEnds
<1>5. Deals(jobs) \subseteq Deals(jobs') \cup Deals({j})
  BY <1>3, DealsOf
<1>6. QED BY <1>2, <1>3, <1>4, <1>5

\* An attempt is over without an answer of use: the desk may have executed the quote all
\* the same, or may still be asked to; the job waits to post again, or fails.
LEMMA AttemptMoves ==
  ASSUME ClientInv, NEW j \in jobs, AttemptFails(j) \/ Retry(j)
  PROVE  ClientInv'
<1>1. /\ Typed /\ BooksFit /\ PageShows /\ JobsFit /\ SettlersFit /\ AllMinded
      /\ j \in JobType /\ j.wallet \in Wallets /\ maxRetries \in Nat /\ page \in PageType
  BY AdvanceAssumption DEF ClientInv, Typed, JobType, AdvanceAssumption
<1>2. j.phase \in {"post", "backoff"} /\ j.side # "close"
  BY <1>1 DEF AttemptFails, Retry, JobsFit
<1>3. UNCHANGED <<open, chain, wallet, live, acts>>
  BY DEF AttemptFails, Retry
<1>4. \/ UNCHANGED desk
      \/ Execute(j.id, j.wallet) /\ UNCHANGED strays
      \/ /\ strays' = strays \cup Posted(j) /\ UNCHANGED <<status, executions, owner>>
  BY DEF AttemptFails, Retry
<1>5. /\ strays' \subseteq strays \cup Posted(j)
      /\ Posted(j) \subseteq Ids \X Wallets
      /\ \A p \in Posted(j) : p[1] = j.id
  BY <1>1, <1>4 DEF Posted, desk
<1>6. /\ \A i \in Ids : owner[i] # None /\ chain.paid[i] # <<>> => owner'[i] = owner[i]
      /\ \A i \in Ids : status[i] = "executed" =>
            status'[i] = "executed" /\ owner'[i] = owner[i]
      /\ \A i \in Ids : owner'[i] # None => owner[i] # None \/ i = j.id
      /\ status' \in [Ids -> {"new", "offered", "lapsed", "executed"}]
      /\ executions' \in [Ids -> Nat] /\ owner' \in [Ids -> Accounts]
      /\ BooksFit'
  <2>1. CASE UNCHANGED <<status, executions, owner>>
    BY <1>1, <1>3, <2>1 DEF Typed, BooksFit
  <2>2. CASE Execute(j.id, j.wallet)
    BY <1>1, <1>3, <2>2, ExecuteFits, ExecutedBooks
  <2>3. QED BY <1>4, <2>1, <2>2 DEF desk
<1>7. /\ page' \in PageType /\ page'.quote = page.quote /\ page'.trade = page.trade
      /\ JobsFit' /\ Failed \subseteq Failed' /\ jobs' \subseteq JobType
      /\ Deals(jobs) \subseteq Deals(jobs') \cup Failed'
      /\ j.id \in Ids => j.id \in Deals(jobs') \cup Failed'
      /\ \A i \in jobs' : Settling(i) => i \in jobs
  <2>1. CASE Fails(j)
    <3>1. jobs' \subseteq jobs /\ jobs \subseteq JobType
      BY <1>1, <2>1 DEF Fails, Typed
    <3>2. j.id \in Ids => j.id \in Deals(jobs)
      BY DealsOf
    <3>3. QED BY <1>2, <2>1, <3>1, <3>2, FailsEffect
  <2>2. ASSUME NEW k \in JobType, jobs' = (jobs \ {j}) \cup {k},
               k.side = j.side, k.mount = j.mount, k.id = j.id,
               k.phase \in {"post", "backoff"}, UNCHANGED <<page, fates>>
        PROVE  /\ page' \in PageType /\ page'.quote = page.quote /\ page'.trade = page.trade
               /\ JobsFit' /\ Failed \subseteq Failed'
               /\ jobs' \subseteq JobType
               /\ Deals(jobs) \subseteq Deals(jobs') \cup Failed'
               /\ j.id \in Ids => j.id \in Deals(jobs') \cup Failed'
               /\ \A i \in jobs' : Settling(i) => i \in jobs
    <3>1. JobsFit'
      BY <1>1, <1>2, <2>2, JobGoesOn
    <3>2. Deals(jobs') = Deals(jobs) /\ (j.id \in Ids => j.id \in Deals(jobs))
      BY <2>2, DealsOf
    <3>3. \A i \in jobs' : Settling(i) => i \in jobs
      BY <2>2 DEF Settling
    <3>4. QED BY <1>1, <2>2, <3>1, <3>2, <3>3 DEF Typed, fates, Failed
  <2>3. CASE Retry(j)
    <3> DEFINE k == [j EXCEPT !.phase = "post"]
    <3>1. /\ k \in JobType /\ k.side = j.side /\ k.mount = j.mount /\ k.id = j.id
          /\ k.phase = "post"
      BY <1>1 DEF JobType
    <3>2. jobs' = (jobs \ {j}) \cup {k} /\ UNCHANGED <<page, fates>>
      BY <2>3 DEF Retry, Goes
    <3> HIDE DEF k
    <3>3. QED BY <2>2, <3>1, <3>2
  <2>4. CASE /\ AttemptFails(j) /\ j.attempt # maxRetries
    <3> DEFINE k == [j EXCEPT !.phase = "backoff", !.attempt = @ + 1]
    <3>1. j.attempt \in 0 .. maxRetries /\ j.attempt + 1 \in 0 .. maxRetries
      BY <1>1, <2>4 DEF JobType
    <3>2. /\ k \in JobType /\ k.side = j.side /\ k.mount = j.mount /\ k.id = j.id
          /\ k.phase = "backoff"
      BY <1>1, <3>1 DEF JobType
    <3>3. jobs' = (jobs \ {j}) \cup {k} /\ UNCHANGED <<page, fates>>
      BY <2>4 DEF AttemptFails
    <3> HIDE DEF k
    <3>4. QED BY <2>2, <3>2, <3>3
  <2>5. QED BY <2>1, <2>3, <2>4 DEF AttemptFails
<1>8. Typed'
  BY <1>1, <1>3, <1>5, <1>6, <1>7 DEF Typed
<1>9. PageShows'
  BY <1>1, <1>3, <1>6, <1>7, ShownStays
<1>10. SettlersFit'
  <2>1. \A i \in jobs : Settling(i) => i.id \in Ids /\ status[i.id] = "executed"
    BY <1>1 DEF JobsFit, SettlersFit, Settling
  <2>2. QED BY <1>1, <1>3, <1>6, <1>7, <2>1, SettlersStay
<1>11. AllMinded'
  <2>1. \A id \in Ids : Minded(id) => Minded(id)'
    BY <1>3, <1>7, MindedStays
  <2>2. j.id \in Ids => Minded(j.id)'
    BY <1>7 DEF Minded
  <2>3. \A p \in strays' : p[1] \in Ids /\ (p \in strays \/ p[1] = j.id)
    BY <1>1, <1>5 DEF Typed
  <2>4. QED BY <1>1, <1>6, <2>1, <2>2, <2>3 DEF AllMinded
<1>12. QED BY <1>6, <1>7, <1>8, <1>9, <1>10, <1>11 DEF ClientInv

\* The quote that a job settles is its own, and its books are as the job left them.
LEMMA SettlersQuote ==
  ASSUME ClientInv, NEW j \in jobs, Settling(j)
  PROVE  /\ j.id \in Ids /\ j.id[1] = j.side /\ j.side # "close" /\ j.wallet \in Wallets
         /\ status[j.id] = "executed" /\ owner[j.id] = j.wallet /\ j.wallet # None
         /\ chain.paid[j.id] = <<>>
         /\ chain.minted[j.id] = IF j.phase = "pay" /\ j.side = "sell" THEN 1 ELSE 0
         /\ \A i \in jobs : Settling(i) /\ i # j => i.id # j.id
         /\ \A i \in jobs : Settling(i) => i.id \in Ids /\ status[i.id] = "executed"
<1>1. j.wallet \in Wallets /\ j.wallet # None
  BY AdvanceAssumption DEF ClientInv, Typed, JobType, AdvanceAssumption
<1>2. j.id \in Ids /\ j.id[1] = j.side /\ j.side # "close"
  BY DEF ClientInv, JobsFit, Settling
<1>3. \A i \in jobs : Settling(i) => i.id \in Ids /\ status[i.id] = "executed"
  BY DEF ClientInv, JobsFit, SettlersFit, Settling
<1>4. QED BY <1>1, <1>2, <1>3 DEF ClientInv, SettlersFit

\* PT and YT are minted for the quote, once, and the job goes on to pay, or fails.
LEMMA MintMoves ==
  ASSUME ClientInv, NEW j \in jobs, mintPtYt(j)
  PROVE  ClientInv'
<1>1. /\ Typed /\ BooksFit /\ PageShows /\ JobsFit /\ SettlersFit /\ AllMinded
      /\ j \in JobType /\ page \in PageType /\ chain \in ChainType
  BY DEF ClientInv, Typed
<1>2. /\ j.phase = "mint" /\ Settling(j) /\ j.side = "sell"
      /\ UNCHANGED <<desk, open, wallet, live, acts>>
  BY <1>1 DEF mintPtYt, Settling, JobsFit
<1>3. PICK landed \in BOOLEAN, seen \in BOOLEAN :
        /\ seen => landed
        /\ chain' = IF landed THEN [chain EXCEPT !.minted[j.id] = @ + 1] ELSE chain
        /\ IF seen THEN Goes(j, "pay") /\ UNCHANGED <<page, fates>> ELSE Fails(j)
  BY DEF mintPtYt
<1>4. /\ j.id \in Ids /\ j.id[1] = "sell" /\ status[j.id] = "executed"
      /\ chain.paid[j.id] = <<>> /\ chain.minted[j.id] = 0 /\ owner[j.id] = j.wallet
  BY <1>2, SettlersQuote
<1>5. /\ chain' \in ChainType /\ chain'.paid = chain.paid
      /\ \A i \in Ids : i # j.id => chain'.minted[i] = chain.minted[i]
      /\ chain'.minted[j.id] = IF landed THEN 1 ELSE 0
  <2>1. CASE landed
    <3> DEFINE minted == [chain.minted EXCEPT ![j.id] = @ + 1]
    <3>1. chain' = [chain EXCEPT !.minted = minted]
      BY <1>1, <1>3, <2>1 DEF ChainType
    <3>2. /\ minted \in [Ids -> Nat] /\ minted[j.id] = 1
          /\ \A i \in Ids : i # j.id => minted[i] = chain.minted[i]
      BY <1>1, <1>4 DEF ChainType
    <3> HIDE DEF minted
    <3>3. chain' \in ChainType /\ chain'.paid = chain.paid /\ chain'.minted = minted
      BY <1>1, <3>1, <3>2 DEF ChainType
    <3>4. QED BY <2>1, <3>2, <3>3
  <2>2. CASE ~landed
    BY <1>1, <1>3, <1>4, <2>2
  <2>3. QED BY <2>1, <2>2
<1> DEFINE k == [j EXCEPT !.phase = "pay"]
<1>6. /\ k \in JobType /\ k.side = j.side /\ k.mount = j.mount /\ k.id = j.id
      /\ k.phase = "pay" /\ k.wallet = j.wallet
  BY <1>1 DEF JobType
<1>7. \/ jobs' = (jobs \ {j}) \cup {k} /\ UNCHANGED <<page, fates>> /\ landed
      \/ jobs' = jobs \ {j} /\ Fails(j)
  BY <1>3 DEF Goes, Fails
<1> HIDE DEF k
<1>8. /\ page' \in PageType /\ page'.quote = page.quote /\ page'.trade = page.trade
      /\ JobsFit' /\ Failed \subseteq Failed'
      /\ Deals(jobs) \subseteq Deals(jobs') \cup Failed'
  <2>1. CASE jobs' = (jobs \ {j}) \cup {k} /\ UNCHANGED <<page, fates>>
    <3>1. JobsFit'
      BY <1>1, <1>2, <1>4, <1>6, <2>1, JobGoesOn
    <3>2. Deals(jobs') = Deals(jobs)
      BY <1>6, <2>1, DealsOf
    <3>3. QED BY <1>1, <2>1, <3>1, <3>2 DEF fates, Failed
  <2>2. CASE jobs' = jobs \ {j} /\ Fails(j)
    BY <1>2, <2>2, FailsEffect
  <2>3. QED BY <1>7, <2>1, <2>2
<1>9. Typed'
  BY <1>1, <1>2, <1>5, <1>6, <1>7, <1>8 DEF Typed, desk
<1>10. PageShows'
  BY <1>1, <1>2, <1>5, <1>8, ShownStays DEF desk
<1>11. SettlersFit'
  <2>1. \A i \in jobs : Settling(i) /\ i # j => /\ i.id # j.id /\ i.id \in Ids
    BY <1>2, SettlersQuote
  <2>2. ASSUME NEW i \in jobs', Settling(i)
        PROVE  /\ status'[i.id] = "executed" /\ owner'[i.id] = i.wallet
               /\ chain'.paid[i.id] = <<>>
               /\ chain'.minted[i.id] = IF i.phase = "pay" /\ i.side = "sell" THEN 1 ELSE 0
    <3>1. CASE i \in jobs /\ i # j
      BY <1>1, <1>2, <1>5, <2>1, <2>2, <3>1 DEF SettlersFit, desk
    <3>2. CASE i = k /\ landed
      BY <1>2, <1>4, <1>5, <1>6, <3>2 DEF desk
    <3>3. QED BY <1>7, <3>1, <3>2
  <2>3. \A i, l \in jobs' : Settling(i) /\ Settling(l) /\ i.id = l.id => i = l
    BY <1>1, <1>6, <1>7, <2>1 DEF SettlersFit
  <2>4. QED BY <2>2, <2>3 DEF SettlersFit
<1>12. BooksFit'
  BY <1>1, <1>2, <1>4, <1>5 DEF BooksFit, desk
<1>13. AllMinded'
  <2>1. \A id \in Ids : Minded(id) => Minded(id)'
    BY <1>5, <1>8, MindedStays
  <2>2. QED BY <1>1, <1>2, <2>1 DEF AllMinded, Typed, desk
<1>14. QED BY <1>8, <1>9, <1>10, <1>11, <1>12, <1>13 DEF ClientInv

\* The LP is paid for the quote, once, by the wallet it was executed for; the page, if it
\* is still there, shows it when the payment is seen.
LEMMA PayMoves ==
  ASSUME ClientInv, NEW j \in jobs, sellYt(j) \/ buybackYt(j)
  PROVE  ClientInv'
<1>1. /\ Typed /\ BooksFit /\ PageShows /\ JobsFit /\ SettlersFit /\ AllMinded
      /\ j \in JobType /\ page \in PageType /\ chain \in ChainType
  BY DEF ClientInv, Typed
<1>2. /\ j.phase = "pay" /\ Settling(j) /\ j.side \in Sides
      /\ UNCHANGED <<desk, open, wallet, live, acts>>
  BY DEF sellYt, buybackYt, pays, Settling, Sides
<1>3. PICK landed \in BOOLEAN, seen \in BOOLEAN :
        /\ seen => landed
        /\ chain' = IF landed THEN [chain EXCEPT !.paid[j.id] = Append(@, j.wallet)] ELSE chain
        /\ IF seen
           THEN /\ jobs' = jobs \ {j}
                /\ page' = IF Mine(j) THEN [page EXCEPT !.busy[j.side] = FALSE,
                                                        !.trade[j.side] = j.id]
                           ELSE page
                /\ UNCHANGED fates
           ELSE Fails(j)
  BY DEF sellYt, buybackYt, pays
<1>4. /\ j.id \in Ids /\ j.id[1] = j.side /\ status[j.id] = "executed"
      /\ chain.paid[j.id] = <<>> /\ owner[j.id] = j.wallet /\ j.wallet \in Wallets
      /\ j.wallet # None
      /\ chain.minted[j.id] = IF j.side = "sell" THEN 1 ELSE 0
  BY <1>2, SettlersQuote
<1>5. /\ chain' \in ChainType /\ chain'.minted = chain.minted
      /\ \A i \in Ids : i # j.id => chain'.paid[i] = chain.paid[i]
      /\ chain'.paid[j.id] = IF landed THEN <<j.wallet>> ELSE <<>>
  <2>1. CASE landed
    <3> DEFINE paid == [chain.paid EXCEPT ![j.id] = <<j.wallet>>]
    <3>1. chain' = [chain EXCEPT !.paid = paid]
      <4>1. chain' = [chain EXCEPT !.paid[j.id] = Append(@, j.wallet)]
        BY <1>3, <2>1
      <4>2. Append(chain.paid[j.id], j.wallet) = <<j.wallet>>
        BY <1>4
      <4>3. QED BY <1>1, <4>1, <4>2 DEF ChainType
    <3>2. <<j.wallet>> \in Seq(Wallets)
      BY <1>4
    <3>3. /\ paid \in [Ids -> Seq(Wallets)] /\ paid[j.id] = <<j.wallet>>
          /\ \A i \in Ids : i # j.id => paid[i] = chain.paid[i]
      BY <1>1, <1>4, <3>2 DEF ChainType
    <3> HIDE DEF paid
    <3>4. chain' \in ChainType /\ chain'.minted = chain.minted /\ chain'.paid = paid
      BY <1>1, <3>1, <3>3 DEF ChainType
    <3>5. QED BY <2>1, <3>3, <3>4
  <2>2. CASE ~landed
    BY <1>1, <1>3, <1>4, <2>2
  <2>3. QED BY <2>1, <2>2
<1>6. \A i \in Ids : owner[i] # None /\ chain.paid[i] # <<>> =>
         owner'[i] = owner[i] /\ chain'.paid[i] = chain.paid[i]
  BY <1>2, <1>4, <1>5 DEF desk
<1>7. /\ page' \in PageType /\ PageShows' /\ JobsFit' /\ jobs' = jobs \ {j}
      /\ Failed \subseteq Failed'
      /\ Deals(jobs) \subseteq Deals(jobs') \cup Failed'
            \cup {id \in Ids : chain'.paid[id] # <<>>}
  <2>1. CASE seen
    <3>1. /\ jobs' = jobs \ {j} /\ UNCHANGED fates /\ chain'.paid[j.id] = <<j.wallet>>
          /\ page' = IF Mine(j) THEN [page EXCEPT !.busy[j.side] = FALSE,
                                                  !.trade[j.side] = j.id]
                     ELSE page
      BY <1>3, <1>5, <2>1
    <3>2. /\ page' \in PageType /\ page'.mount = page.mount /\ page'.closing = page.closing
          /\ page'.quote = page.quote
          /\ \A s \in Sides : page.busy[s] => page'.busy[s] \/ (Mine(j) /\ j.side = s)
          /\ \A s \in Sides : \/ page'.trade[s] = page.trade[s]
                              \/ s = j.side /\ page'.trade[s] = j.id
      <4>1. CASE Mine(j)
        <5> DEFINE busy == [page.busy EXCEPT ![j.side] = FALSE]
                   trade == [page.trade EXCEPT ![j.side] = j.id]
        <5>1. page' = [page EXCEPT !.busy = busy, !.trade = trade]
          BY <1>1, <3>1, <4>1 DEF PageType
        <5>2. /\ busy \in [Sides -> BOOLEAN] /\ trade \in [Sides -> Ids \cup {None}]
              /\ \A s \in Sides : s # j.side =>
                    busy[s] = page.busy[s] /\ trade[s] = page.trade[s]
              /\ trade[j.side] = j.id
          BY <1>1, <1>2, <1>4 DEF PageType
        <5> HIDE DEF busy, trade
        <5>3. /\ page' \in PageType /\ page'.mount = page.mount /\ page'.closing = page.closing
              /\ page'.quote = page.quote /\ page'.busy = busy /\ page'.trade = trade
          BY <1>1, <5>1, <5>2 DEF PageType
        <5>4. QED BY <4>1, <5>2, <5>3
      <4>2. CASE ~Mine(j)
        BY <1>1, <3>1, <4>2
      <4>3. QED BY <4>1, <4>2
    <3>3. JobsFit'
      BY <3>1, <3>2, JobEnds
    <3>4. Deals(jobs) \subseteq Deals(jobs') \cup {j.id}
      BY <3>1, DealsOf
    <3>5. chain'.paid[j.id] # <<>>
      BY <3>1
    <3>6. PageShows'
      <4> SUFFICES ASSUME NEW s \in Sides
                   PROVE  /\ page'.quote[s] \in Ids => page'.quote[s][1] = s
                          /\ page'.trade[s] # None =>
                               /\ page'.trade[s][1] = s /\ owner'[page'.trade[s]] # None
                               /\ chain'.paid[page'.trade[s]] = <<owner'[page'.trade[s]]>>
        BY DEF PageShows
      <4>1. page'.quote[s] \in Ids => page'.quote[s][1] = s
        BY <1>1, <3>2 DEF PageShows
      <4>2. CASE s = j.side /\ page'.trade[s] = j.id
        BY <1>2, <1>4, <3>1, <4>1, <4>2 DEF desk
      <4>3. CASE page'.trade[s] = page.trade[s]
        <5>1. page.trade[s] \in Ids \cup {None}
          BY <1>1 DEF PageType
        <5>2. page.trade[s] # None =>
                /\ page.trade[s][1] = s /\ owner[page.trade[s]] # None
                /\ chain.paid[page.trade[s]] = <<owner[page.trade[s]]>>
          BY <1>1 DEF PageShows
        <5>3. CASE page.trade[s] = None
          BY <4>1, <4>3, <5>3
        <5>4. CASE page.trade[s] # None
          <6> DEFINE id == page.trade[s]
          <6>1. id \in Ids /\ id[1] = s /\ owner[id] # None /\ chain.paid[id] = <<owner[id]>>
            BY <5>1, <5>2, <5>4
          <6>2. chain.paid[id] # <<>>
            BY <6>1
          <6>3. owner'[id] = owner[id] /\ chain'.paid[id] = chain.paid[id]
            BY <1>6, <6>1, <6>2
          <6> HIDE DEF id
          <6>4. page'.trade[s] = id
            BY <4>3 DEF id
          <6>5. QED BY <4>1, <6>1, <6>3, <6>4
        <5>5. QED BY <5>3, <5>4
      <4>4. QED BY <3>2, <4>2, <4>3
    <3>7. Failed' = Failed
      BY <3>1 DEF fates, Failed
    <3>8. QED BY <1>4, <3>1, <3>2, <3>3, <3>4, <3>5, <3>6, <3>7
  <2>2. CASE ~seen
    <3>1. Fails(j) /\ j.side # "close"
      BY <1>2, <1>3, <2>2 DEF Sides
    <3>2. QED BY <1>1, <1>6, <3>1, FailsEffect, ShownStays
  <2>3. QED BY <2>1, <2>2
<1>8. Typed'
  BY <1>1, <1>2, <1>5, <1>7 DEF Typed, desk
<1>9. SettlersFit'
  <2>1. \A i \in jobs' : Settling(i) =>
           i.id \in Ids /\ i.id # j.id /\ status[i.id] = "executed"
    BY <1>2, <1>7, SettlersQuote
  <2>2. QED BY <1>1, <1>2, <1>5, <1>7, <2>1, SettlersStay DEF desk
<1>10. BooksFit'
  BY <1>1, <1>2, <1>4, <1>5 DEF BooksFit, desk
<1>11. AllMinded'
  <2>1. \A i \in Ids : chain.paid[i] # <<>> => chain'.paid[i] # <<>>
    BY <1>4, <1>5
  <2>2. \A id \in Ids : Minded(id) => Minded(id)'
    BY <1>7, <2>1, MindedStays
  <2>3. QED BY <1>1, <1>2, <2>2 DEF AllMinded, Typed, desk
<1>12. QED BY <1>7, <1>8, <1>9, <1>10, <1>11 DEF ClientInv

\* The market is closed, or not; quotes and their settlements are as they were.
LEMMA CloseMoves ==
  ASSUME ClientInv, NEW j \in jobs, closeMarket(j)
  PROVE  ClientInv'
<1>1. /\ Typed /\ page \in PageType /\ chain \in ChainType
  BY DEF ClientInv, Typed
<1>2. /\ j.phase = "close" /\ j.side = "close" /\ jobs' = jobs \ {j} /\ j.id \notin Ids
      /\ UNCHANGED <<desk, open, wallet, live, fates, acts>>
  BY AdvanceAssumption DEF closeMarket, ClientInv, JobsFit, AdvanceAssumption
<1>3. chain' \in ChainType /\ chain'.paid = chain.paid /\ chain'.minted = chain.minted
  BY <1>1 DEF closeMarket, ChainType
<1>4. /\ page' \in PageType /\ page'.mount = page.mount /\ page'.quote = page.quote
      /\ page'.trade = page.trade /\ page'.busy = page.busy
      /\ page.closing => page'.closing \/ (Mine(j) /\ j.side = "close")
  BY <1>1, <1>2 DEF closeMarket, PageType
<1>5. Typed'
  BY <1>1, <1>2, <1>3, <1>4 DEF Typed, desk
<1>6. PageShows'
  BY <1>1, <1>2, <1>3, <1>4, ShownStays DEF ClientInv, desk
<1>7. JobsFit'
  BY <1>2, <1>4, JobEnds
<1>8. SettlersFit' /\ BooksFit'
  BY <1>2, <1>3 DEF ClientInv, SettlersFit, BooksFit, desk
<1>9. AllMinded'
  <2>1. Deals(jobs) \subseteq Deals(jobs')
    BY <1>2 DEF Deals
  <2>2. QED BY <1>2, <1>3, <2>1 DEF ClientInv, AllMinded, Minded, Failed, fates, desk
<1>10. QED BY <1>5, <1>6, <1>7, <1>8, <1>9 DEF ClientInv

\* At first there is a page, and nothing on it.
LEMMA ClientStarts == AdvanceInit => ClientInv
<1> SUFFICES ASSUME AdvanceInit PROVE ClientInv
  OBVIOUS
<1>1. /\ status = [id \in Ids |-> "new"] /\ executions = [id \in Ids |-> 0]
      /\ owner = [id \in Ids |-> None] /\ strays = {}
      /\ open \in BOOLEAN /\ wallet \in Accounts /\ live \in BOOLEAN
      /\ page = LoadEffect(Fresh(1), live) /\ jobs = {} /\ acts = 0
      /\ 1 \in 1 .. MaxMounts /\ 0 \in 0 .. MaxActs
  BY AdvanceAssumption DEF AdvanceInit, Quote!LifecycleInit, AdvanceAssumption
<1>2. /\ chain \in ChainType
      /\ \A id \in Ids : chain.minted[id] = 0 /\ chain.paid[id] = <<>>
  BY DEF AdvanceInit, ChainType
<1>3. /\ page \in PageType
      /\ \A s \in Sides : page.quote[s] = None /\ page.trade[s] = None
  BY <1>1, FreshPage, LoadedPage
<1>4. Typed
  BY <1>1, <1>2, <1>3 DEF Typed, Accounts
<1>5. PageShows
  BY <1>3, AdvanceAssumption DEF PageShows, AdvanceAssumption
<1>6. JobsFit /\ SettlersFit
  BY <1>1 DEF JobsFit, SettlersFit
<1>7. BooksFit /\ AllMinded
  BY <1>1, <1>2 DEF BooksFit, AllMinded
<1>8. QED BY <1>4, <1>5, <1>6, <1>7 DEF ClientInv

\* Every step keeps the invariant.
LEMMA ClientStep == ClientInv /\ [AdvanceNext]_vars => ClientInv'
<1> SUFFICES ASSUME ClientInv, [AdvanceNext]_vars PROVE ClientInv'
  OBVIOUS
<1>1. CASE Loads \/ SwitchMode \/ SwitchAccount \/ Pauses
  BY <1>1, DataMoves
<1>2. CASE Return \/ Reload
  BY <1>2, ReturnMoves, ReloadMoves
<1>3. CASE getQuote \/ getBuyQuote \/ \E s \in Sides : Quoted(s)
  BY <1>3, QuoteMoves DEF getQuote, getBuyQuote, Sides
<1>4. CASE runAdvance \/ runBuyback \/ handleCloseMarket
  BY <1>4, UserStarts
<1>5. CASE Expire \/ OtherExecutes \/ Forwarded
  BY <1>5, DeskMoves, ForwardedMoves
<1>6. ASSUME NEW j \in jobs, JobStep(j) PROVE ClientInv'
  BY <1>6, TradedMoves, AttemptMoves, MintMoves, PayMoves, CloseMoves DEF JobStep
<1>7. CASE UNCHANGED vars
  <2>1. UNCHANGED <<status, executions, owner, strays, open, chain, wallet, live, page, jobs,
                    acts>> /\ Failed' = Failed
    BY <1>7 DEF vars, Failed
  <2>2. page.mount \in Nat
    BY DEF ClientInv, Typed, PageType
  <2>3. QED BY <2>1, <2>2, OtherMoves DEF ClientInv, Typed
<1>8. QED BY <1>1, <1>2, <1>3, <1>4, <1>5, <1>6, <1>7 DEF AdvanceNext, User

\* Only a deal during which the data mode changed fails behind the loading screen: while
\* the page loads, the jobs of this visit are older than the switch that made it load.
HiddenFit ==
  /\ unheard \subseteq switched
  /\ \A j \in jobs : Mine(j) /\ page.loading /\ j.id \in Ids => j.id \in switched

\* A job that fails behind the loading screen was under way at a switch.
LEMMA FailsHidden ==
  ASSUME ClientInv, HiddenFit, NEW j \in jobs, Fails(j)
  PROVE  /\ unheard' \subseteq switched' /\ switched' = switched /\ jobs' = jobs \ {j}
         /\ page'.mount = page.mount /\ page'.loading = page.loading
<1>1. page \in PageType
  BY DEF ClientInv, Typed
<1>2. unheard' \subseteq switched' /\ switched' = switched /\ jobs' = jobs \ {j}
  BY DEF Fails, HiddenFit, Deals
<1>3. page'.mount = page.mount /\ page'.loading = page.loading
  BY <1>1 DEF Fails, PageType
<1>4. QED BY <1>2, <1>3

\* What the page, the desk and others do keeps it.
LEMMA PageHides ==
  ASSUME ClientInv, HiddenFit,
         \/ Loads \/ SwitchMode \/ SwitchAccount \/ Pauses \/ Return \/ Reload
         \/ Expire \/ OtherExecutes \/ Forwarded
         \/ \E s \in Sides : asks(s) \/ Quoted(s)
  PROVE  HiddenFit'
<1>1. page \in PageType /\ page.mount \in Nat
  BY DEF ClientInv, Typed, PageType
<1>2. CASE Loads
  BY <1>1, <1>2 DEF Loads, HiddenFit, PageType
<1>3. CASE SwitchMode
  BY <1>3 DEF SwitchMode, HiddenFit, Deals
<1>4. CASE Return
  <2>1. page'.mount = page.mount + 1 /\ jobs' = jobs /\ UNCHANGED <<unheard, switched>>
    BY <1>4 DEF Return, LoadEffect, Fresh, DemoDetail, fates
  <2>2. \A j \in jobs : j.mount \in Nat /\ j.mount <= page.mount
    BY DEF ClientInv, Typed, JobType, JobsFit
  <2>3. \A j \in jobs' : ~Mine(j)'
    BY <1>1, <2>1, <2>2 DEF Mine
  <2>4. QED BY <2>1, <2>3 DEF HiddenFit
<1>5. CASE Reload
  BY <1>5 DEF Reload, HiddenFit
<1>6. CASE \/ SwitchAccount \/ Pauses \/ Expire \/ OtherExecutes \/ Forwarded
           \/ \E s \in Sides : asks(s) \/ Quoted(s)
  <2>1. UNCHANGED <<jobs, unheard, switched>>
    BY <1>6 DEF SwitchAccount, Pauses, Expire, OtherExecutes, Forwarded, asks, Quoted, fates
  <2>2. page'.mount = page.mount /\ page'.loading = page.loading
    BY <1>1, <1>6 DEF SwitchAccount, Pauses, Expire, OtherExecutes, Forwarded, asks, Quoted,
                      PageType
  <2>3. QED BY <2>1, <2>2 DEF HiddenFit, Mine
<1>7. QED BY <1>2, <1>3, <1>4, <1>5, <1>6

\* A job starts on a page that is not loading.
LEMMA StartsHide ==
  ASSUME ClientInv, HiddenFit, runAdvance \/ runBuyback \/ handleCloseMarket
  PROVE  HiddenFit'
<1>1. page \in PageType
  BY DEF ClientInv, Typed
<1>2. ~page.loading
  BY DEF runAdvance, runBuyback, handleCloseMarket, SellSection, BuybackSection,
         CloseSection, Forms
<1>3. page'.loading = page.loading
  BY <1>1 DEF runAdvance, runBuyback, handleCloseMarket, Confirm, PageType
<1>4. UNCHANGED <<unheard, switched>>
  BY DEF runAdvance, runBuyback, handleCloseMarket, Confirm, fates
<1>5. QED BY <1>2, <1>3, <1>4 DEF HiddenFit

\* A job goes on with its own quote, ends well, or fails.
LEMMA JobHides ==
  ASSUME ClientInv, HiddenFit, NEW j \in jobs, JobStep(j)
  PROVE  HiddenFit'
<1>1. page \in PageType /\ j \in JobType
  BY DEF ClientInv, Typed
<1>2. CASE Fails(j)
  BY <1>2, FailsHidden DEF HiddenFit, Mine
<1>3. ASSUME NEW phase, NEW attempt,
             jobs' = (jobs \ {j}) \cup {[j EXCEPT !.phase = phase, !.attempt = attempt]},
             UNCHANGED <<page, fates>>
      PROVE  HiddenFit'
  <2> DEFINE k == [j EXCEPT !.phase = phase, !.attempt = attempt]
  <2>1. k.id = j.id /\ k.mount = j.mount /\ jobs' = (jobs \ {j}) \cup {k}
    BY <1>1, <1>3 DEF JobType
  <2> HIDE DEF k
  <2>2. QED BY <1>3, <2>1 DEF HiddenFit, Mine, fates
<1>4. ASSUME NEW phase, Goes(j, phase), UNCHANGED <<page, fates>>
      PROVE  HiddenFit'
  <2>1. [j EXCEPT !.phase = phase] = [j EXCEPT !.phase = phase, !.attempt = j.attempt]
    BY <1>1 DEF JobType
  <2>2. QED BY <1>3, <1>4, <2>1 DEF Goes
<1>5. CASE jobs' = jobs \ {j} /\ UNCHANGED fates
             /\ page'.mount = page.mount /\ page'.loading = page.loading
  BY <1>5 DEF HiddenFit, Mine, fates
<1>6. CASE postSellYt(j) \/ postBuybackYt(j) \/ Retry(j)
  BY <1>4, <1>6 DEF postSellYt, postBuybackYt, Traded, Retry
<1>7. CASE AttemptFails(j)
  BY <1>2, <1>3, <1>7 DEF AttemptFails
<1>8. CASE mintPtYt(j)
  BY <1>2, <1>4, <1>8 DEF mintPtYt
<1>9. CASE sellYt(j) \/ buybackYt(j)
  <2>1. \/ Fails(j)
        \/ /\ jobs' = jobs \ {j} /\ UNCHANGED fates
           /\ page' = IF Mine(j) THEN [page EXCEPT !.busy[j.side] = FALSE,
                                                   !.trade[j.side] = j.id]
                      ELSE page
    BY <1>9 DEF sellYt, buybackYt, pays
  <2>2. Fails(j) \/ (page'.mount = page.mount /\ page'.loading = page.loading)
    BY <1>1, <2>1 DEF PageType
  <2>3. QED BY <1>2, <1>5, <2>1, <2>2
<1>10. CASE closeMarket(j)
  BY <1>1, <1>5, <1>10 DEF closeMarket, PageType
<1>11. QED BY <1>6, <1>7, <1>8, <1>9, <1>10 DEF JobStep

\* Every step keeps it, on top of the invariant of the deals.
LEMMA HiddenStep == ClientInv /\ HiddenFit /\ [AdvanceNext]_vars => HiddenFit'
<1> SUFFICES ASSUME ClientInv, HiddenFit, [AdvanceNext]_vars PROVE HiddenFit'
  OBVIOUS
<1>1. CASE User \/ Loads \/ Forwarded \/ Expire \/ OtherExecutes \/ Pauses
             \/ \E s \in Sides : Quoted(s)
  BY <1>1, PageHides, StartsHide DEF User, getQuote, getBuyQuote, Sides
<1>2. CASE \E j \in jobs : JobStep(j)
  BY <1>2, JobHides
<1>3. CASE UNCHANGED vars
  BY <1>3 DEF vars, HiddenFit, Mine
<1>4. QED BY <1>1, <1>2, <1>3 DEF AdvanceNext

\* The invariant of every behaviour, with or without fairness.
LEMMA ClientIsSound == AdvanceSpec => [](ClientInv /\ HiddenFit)
<1>1. AdvanceInit => HiddenFit
  BY DEF AdvanceInit, HiddenFit
<1>2. QED BY <1>1, ClientStarts, ClientStep, HiddenStep, PTL DEF AdvanceSpec
-----------------------------------------------------------------------------
(* What the user can rely on. *)

\* Whatever is posted again, forwarded late, reloaded or confirmed in several visits of
\* the page, a quote is settled once at most, by the wallet it was executed for, and its
\* YT is minted once, before it is sold.
THEOREM AQuoteIsOneDeal == AdvanceSpec => []OneDealPerQuote
<1>1. ClientInv => OneDealPerQuote
  <2> SUFFICES ASSUME ClientInv PROVE OneDealPerQuote
    OBVIOUS
  <2>1. ClientTypeOK
    <3>1. Quote!Having("new") \cup Quote!Having("offered") \cup Quote!Having("lapsed")
            \cup Quote!Having("executed") = Ids
      BY DEF ClientInv, Typed, Quote!Having
    <3>2. /\ owner \in [Ids -> Accounts] /\ strays \subseteq Ids \X Wallets
          /\ chain.market \in {"open", "closed"} /\ wallet \in Accounts /\ live \in BOOLEAN
          /\ page.mount \in 1 .. MaxMounts /\ acts \in 0 .. MaxActs
      BY DEF ClientInv, Typed, ChainType, PageType
    <3>3. \A s \in Sides :
            /\ page.quote[s] \in {id \in Ids : id[1] = s} \cup {DemoQuote, None}
            /\ page.trade[s] \in {id \in Ids : id[1] = s} \cup {None}
      <4>1. \A s \in Sides : /\ page.quote[s] \in Ids \cup {DemoQuote, None}
                             /\ page.trade[s] \in Ids \cup {None}
        BY DEF ClientInv, Typed, PageType
      <4>2. QED BY <4>1 DEF ClientInv, PageShows
    <3>4. \A j \in jobs : /\ j.wallet \in Wallets /\ j.attempt \in 0 .. maxRetries
                          /\ j.phase \in {"mint", "pay"} => j.id \in Ids
      BY DEF ClientInv, Typed, JobType, JobsFit
    <3>5. \A j, k \in jobs : j # k => <<j.side, j.mount>> # <<k.side, k.mount>>
      BY DEF ClientInv, JobsFit
    <3>6. QED BY <3>1, <3>2, <3>3, <3>4, <3>5 DEF ClientTypeOK
  <2>2. SettledOnce
    <3> SUFFICES ASSUME NEW id \in Ids
                 PROVE  LET paid == chain.paid[id] IN
                          /\ Len(paid) + chain.minted[id] \in 0 .. IF id[1] = "sell" THEN 2 ELSE 1
                          /\ chain.minted[id] > 0 => id[1] = "sell" /\ status[id] = "executed"
                          /\ paid # <<>> => /\ Len(paid) = 1 /\ status[id] = "executed"
                                            /\ paid[1] = owner[id]
                                            /\ id[1] = "sell" => chain.minted[id] = 1
      BY DEF SettledOnce
    <3> DEFINE paid == chain.paid[id]
               minted == chain.minted[id]
    <3>1. id[1] \in {"sell", "buyback"}
      BY AdvanceAssumption DEF AdvanceAssumption, Sides
    <3>2. /\ status[id] # "executed" => minted = 0 /\ paid = <<>>
          /\ minted \in {0, 1} /\ (id[1] = "buyback" => minted = 0)
          /\ paid # <<>> => /\ paid = <<owner[id]>> /\ (id[1] = "sell" => minted = 1)
      BY DEF ClientInv, BooksFit
    <3> HIDE DEF paid, minted
    <3>3. Len(paid) \in {0, 1} /\ (paid # <<>> => Len(paid) = 1 /\ paid[1] = owner[id])
      BY <3>2
    <3>4. Len(paid) + minted \in 0 .. IF id[1] = "sell" THEN 2 ELSE 1
      <4>1. CASE id[1] = "sell"
        <5> DEFINE n == Len(paid)
        <5>1. n \in {0, 1} /\ minted \in {0, 1}
          BY <3>2, <3>3
        <5> HIDE DEF n
        <5>2. n + minted \in 0 .. 2
          BY <5>1
        <5>3. QED BY <4>1, <5>2 DEF n
      <4>2. CASE id[1] = "buyback"
        <5>1. minted = 0
          BY <3>2, <4>2
        <5>2. Len(paid) + minted \in 0 .. 1
          BY <3>3, <5>1
        <5>3. QED BY <4>2, <5>2
      <4>3. QED BY <3>1, <4>1, <4>2
    <3>5. /\ minted > 0 => id[1] = "sell" /\ status[id] = "executed"
          /\ paid # <<>> => /\ Len(paid) = 1 /\ status[id] = "executed"
                            /\ paid[1] = owner[id] /\ (id[1] = "sell" => minted = 1)
      BY <3>1, <3>2, <3>3
    <3>6. QED BY <3>4, <3>5 DEF paid, minted
  <2>3. QED BY <2>1, <2>2 DEF OneDealPerQuote
<1>2. QED BY <1>1, ClientIsSound, PTL

\* What the desk executed for this user and the LP never got is still being worked on, or
\* the page has shown its failure, or the user had left the page, or the failure came
\* behind the loading screen and has not been shown since, which befalls only a deal
\* during which the data mode changed.
THEOREM NoLossIsSilent == AdvanceSpec => []NoSilentLoss
<1>1. ClientInv /\ HiddenFit => NoSilentLoss
  BY DEF ClientInv, AllMinded, Minded, Failed, HiddenFit, NoSilentLoss
<1>2. QED BY <1>1, ClientIsSound, PTL

\* "Advance recorded" is shown only for what was executed for one of the user's wallets
\* and paid by it, whatever was quoted, switched or left meanwhile.
THEOREM WhatIsShownWasDone == AdvanceSpec => []ShownTradeWasDone
<1>1. ClientInv => ShownTradeWasDone
  BY DEF ClientInv, PageShows, ShownTradeWasDone
<1>2. QED BY <1>1, ClientIsSound, PTL
=============================================================================
