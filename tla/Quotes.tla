------------------------------- MODULE Quotes -------------------------------
(***************************************************************************)
(* The advance desk of attn_api (advance.rs): a cache of RFQ quotes and a  *)
(* book of what each wallet has been advanced in an epoch, each under a    *)
(* lock of its own.  A request reads the clock, waits for the cache, drops *)
(* it, waits for the book, and waits for the cache again; it may be        *)
(* dropped at each wait, when its client disconnects.  One action is what  *)
(* a request does while it holds a lock.  Amounts are in millionths of a   *)
(* USDC, the unit round_six keeps.                                         *)
(***************************************************************************)
EXTENDS Integers, Sequences, Functions

CONSTANTS
    Requests,      \* requests in progress at once
    Wallets,
    Allowlist,     \* wallets that may trade
    IsDevnet,      \* whether the cluster is devnet
    Epochs,        \* a market and its maturity
    Maturity,      \* [Epochs -> time]
    Sizes,         \* YT sizes asked for
    Prices,        \* [Sides -> prices a quote is built with]
    Ttl,           \* how long a quote lives
    WalletLimit, EpochLimit,   \* 0: no limit
    MaxQuotes,     \* bound on the quotes ever built
    MaxTime        \* bound on the clock

EPSILON == 1
Sides == {"sell", "buyback"}
Keys == [epoch : Epochs, side : Sides, size : Sizes]
QuoteIds == 1..MaxQuotes

ASSUME QuotesAssumption ==
    /\ Allowlist \subseteq Wallets
    /\ IsDevnet \in BOOLEAN
    /\ Maturity \in [Epochs -> Nat]
    /\ Prices \in [Sides -> SUBSET Nat]
    /\ Ttl \in Nat
    /\ WalletLimit \in Nat /\ EpochLimit \in Nat
    /\ MaxQuotes \in Nat /\ MaxTime \in Nat

VARIABLES
    clock,
    quotes,         \* every quote built, its id being its place
    by_id,          \* ids in the cache
    by_key,         \* the cached id of a key
    inflight, consumed,
    epoch_total,    \* [Epochs -> amount]
    wallet_total,   \* [Epochs -> [Wallets -> amount]]
    request,        \* what each request is waiting to do
    applied,        \* history: how often the book took a quote
    abandoned       \* history: quotes whose request was dropped

cacheVars == <<by_id, by_key, inflight, consumed>>
bookVars  == <<epoch_total, wallet_total, applied>>
quoteVars == <<clock, quotes, cacheVars, bookVars, request, abandoned>>

Idle == [phase |-> "idle"]

QuotesInit ==
    /\ clock = 0
    /\ quotes = <<>>
    /\ by_id = {} /\ by_key = <<>>
    /\ inflight = {} /\ consumed = {}
    /\ epoch_total = [e \in Epochs |-> 0]
    /\ wallet_total = [e \in Epochs |-> [w \in Wallets |-> 0]]
    /\ request = [r \in Requests |-> Idle]
    /\ applied = [id \in QuoteIds |-> 0]
    /\ abandoned = {}

-----------------------------------------------------------------------------
(* The cache.                                                              *)

IsExpired(id, now) == quotes[id].expires_at <= now

\* remove_by_id, for several quotes.
Dropped(ids) ==
    [by_id  |-> by_id \ ids,
     by_key |-> Restrict(by_key, {k \in DOMAIN by_key : by_key[k] \notin ids})]

Expired(now) == {id \in by_id : IsExpired(id, now)}

Release(r) == request' = [request EXCEPT ![r] = Idle]

\* get_or_create_quote, up to its wait for the cache.
AskQuote(r, k) ==
    /\ request[r] = Idle
    /\ k.side = "sell" => Maturity[k.epoch] > clock
    /\ request' = [request EXCEPT
                     ![r] = [phase |-> "quote", now |-> clock, key |-> k]]
    /\ UNCHANGED <<clock, quotes, cacheVars, bookVars, abandoned>>

ServeQuote(r) ==
    /\ request[r].phase = "quote"
    /\ LET gone == Expired(request[r].now)
           kept == Dropped(gone)
           k    == request[r].key
           id   == Len(quotes) + 1
       IN  /\ inflight' = inflight \ gone
           /\ consumed' = consumed \ gone
           /\ \/ /\ k \in DOMAIN kept.by_key
                 /\ by_id' = kept.by_id
                 /\ by_key' = kept.by_key
                 /\ UNCHANGED quotes
              \/ /\ k \notin DOMAIN kept.by_key
                 /\ id <= MaxQuotes
                 /\ \E p \in Prices[k.side] :
                       quotes' = Append(quotes,
                          [key |-> k, price |-> p, expires_at |-> clock + Ttl])
                 /\ by_id' = kept.by_id \cup {id}
                 /\ by_key' = [x \in DOMAIN kept.by_key \cup {k} |->
                                 IF x = k THEN id ELSE kept.by_key[x]]
    /\ Release(r)
    /\ UNCHANGED <<clock, bookVars, abandoned>>

-----------------------------------------------------------------------------
(* finalize_execution.                                                     *)

SideOf(direction) == IF direction = "advance" THEN "sell" ELSE "buyback"

\* Up to its wait for the cache.
AskTrade(r, id, w, d) ==
    /\ request[r] = Idle
    /\ IsDevnet
    /\ w \in Allowlist
    /\ request' = [request EXCEPT
                     ![r] = [phase |-> "check", now |-> clock, id |-> id,
                             wallet |-> w, direction |-> d]]
    /\ UNCHANGED <<clock, quotes, cacheVars, bookVars, abandoned>>

\* Mutant: an execution in progress is not looked at.
FreeUnlessConsumed(id) == id \notin consumed

Free(id) == id \notin consumed /\ id \notin inflight

\* The checks under the cache's lock.  The expired quotes go in any case.
CheckQuote(r) ==
    /\ request[r].phase = "check"
    /\ LET q    == request[r]
           gone == Expired(q.now)
           kept == Dropped(gone)
       IN  /\ by_id' = kept.by_id
           /\ by_key' = kept.by_key
           /\ consumed' = consumed \ gone
           /\ IF /\ Free(q.id)
                 /\ q.id \in kept.by_id
                 /\ quotes[q.id].key.side = SideOf(q.direction)
              THEN /\ inflight' = (inflight \ gone) \cup {q.id}
                   /\ request' = [request EXCEPT ![r].phase = "apply"]
              ELSE /\ inflight' = inflight \ gone
                   /\ Release(r)
    /\ UNCHANGED <<clock, quotes, bookVars, abandoned>>

\* x > EPSILON in floating point: equality can fall on either side.
Exceeds(x) == IF x = EPSILON THEN BOOLEAN ELSE {x > EPSILON}

Within(total, amount, limit) ==
    limit = 0 \/ FALSE \in Exceeds(total + amount - limit)

Refused(total, amount, limit) ==
    limit # 0 /\ TRUE \in Exceeds(total + amount - limit)

Clamped(x) == IF x > 0 THEN x ELSE 0

Outcome(r, phase) ==
    request' = [request EXCEPT ![r] = [phase |-> phase, id |-> request[r].id]]

\* The book takes the trade: dust is forgotten, an empty epoch starts anew.
Record(r, e, w, wallet_new, epoch_new) ==
    \E kept \in Exceeds(wallet_new) :
        LET wallets == [wallet_total[e] EXCEPT
                          ![w] = IF kept THEN wallet_new ELSE 0]
            empty   == \A v \in Wallets : wallets[v] = 0
        IN  /\ wallet_total' = [wallet_total EXCEPT ![e] = wallets]
            /\ epoch_total' = [epoch_total EXCEPT
                  ![e] = IF empty /\ epoch_new <= EPSILON THEN 0 ELSE epoch_new]
            /\ applied' = [applied EXCEPT ![request[r].id] = @ + 1]
            /\ Outcome(r, "applied")

\* ExecutionBook::apply, under the book's lock.
ApplyTrade(r) ==
    /\ request[r].phase = "apply"
    /\ LET q == quotes[request[r].id]
           e == q.key.epoch
           w == request[r].wallet
           wallet_used == wallet_total[e][w]
       IN  \/ /\ request[r].direction = "advance"
              /\ Within(wallet_used, q.price, WalletLimit)
              /\ Within(epoch_total[e], q.price, EpochLimit)
              /\ Record(r, e, w, wallet_used + q.price, epoch_total[e] + q.price)
           \/ /\ request[r].direction = "advance"
              /\ \/ Refused(wallet_used, q.price, WalletLimit)
                 \/ Refused(epoch_total[e], q.price, EpochLimit)
              /\ Outcome(r, "refused")
              /\ UNCHANGED bookVars
           \/ /\ request[r].direction = "buyback"
              /\ Record(r, e, w, Clamped(wallet_used - q.price),
                        Clamped(epoch_total[e] - q.price))
    /\ UNCHANGED <<clock, quotes, cacheVars, abandoned>>

\* Mutant: the quote is not marked consumed.
FinishUnmarked(r) ==
    /\ request[r].phase = "applied"
    /\ inflight' = inflight \ {request[r].id}
    /\ Release(r)
    /\ UNCHANGED <<clock, quotes, by_id, by_key, consumed, bookVars, abandoned>>

\* Under the cache's lock again.
FinishApplied(r) ==
    /\ request[r].phase = "applied"
    /\ LET id == request[r].id
           kept == Dropped({id})
       IN  /\ inflight' = inflight \ {id}
           /\ consumed' = consumed \cup {id}
           /\ by_id' = kept.by_id
           /\ by_key' = kept.by_key
    /\ Release(r)
    /\ UNCHANGED <<clock, quotes, bookVars, abandoned>>

\* Mutant: a refusal leaves the quote in flight.
FinishWithoutRelease(r) ==
    /\ request[r].phase = "refused"
    /\ Release(r)
    /\ UNCHANGED <<clock, quotes, cacheVars, bookVars, abandoned>>

FinishRefused(r) ==
    /\ request[r].phase = "refused"
    /\ inflight' = inflight \ {request[r].id}
    /\ Release(r)
    /\ UNCHANGED <<clock, quotes, by_id, by_key, consumed, bookVars, abandoned>>

-----------------------------------------------------------------------------
Holding(r) == request[r].phase \in {"apply", "applied", "refused"}

\* The server drops a request whose client has gone, at any of its waits.
DropRequest(r) ==
    /\ request[r] # Idle
    /\ abandoned' = IF Holding(r) THEN abandoned \cup {request[r].id}
                                  ELSE abandoned
    /\ Release(r)
    /\ UNCHANGED <<clock, quotes, cacheVars, bookVars>>

Tick ==
    /\ clock < MaxTime
    /\ clock' = clock + 1
    /\ UNCHANGED <<quotes, cacheVars, bookVars, request, abandoned>>

\* What the server does for a request once the lock it waits for is its own.
RequestStep(r) ==
    \/ ServeQuote(r)
    \/ CheckQuote(r)
    \/ ApplyTrade(r)
    \/ FinishApplied(r)
    \/ FinishRefused(r)

QuotesNext ==
    \/ \E r \in Requests, k \in Keys : AskQuote(r, k)
    \/ \E r \in Requests, id \in 1..Len(quotes), w \in Wallets,
          d \in {"advance", "buyback"} : AskTrade(r, id, w, d)
    \/ \E r \in Requests : RequestStep(r) \/ DropRequest(r)
    \/ Tick

\* tokio's RwLock is fair: a request that waits for a lock gets it.
QuotesFairness == \A r \in Requests : WF_quoteVars(RequestStep(r))

QuotesSpec == QuotesInit /\ [][QuotesNext]_quoteVars

FairQuotesSpec == QuotesSpec /\ QuotesFairness

-----------------------------------------------------------------------------
QuoteType ==
    [key : Keys, price : Nat, expires_at : 0..(MaxTime + Ttl)]

TradeType ==
    [phase : {"check", "apply"}, now : 0..MaxTime, id : QuoteIds,
     wallet : Allowlist, direction : {"advance", "buyback"}]
        \cup [phase : {"applied", "refused"}, id : QuoteIds]

QuotesTypeOK ==
    /\ clock \in 0..MaxTime
    /\ quotes \in Seq(QuoteType)
    /\ Len(quotes) <= MaxQuotes
    /\ by_id \subseteq 1..Len(quotes)
    /\ DOMAIN by_key \subseteq Keys
    /\ inflight \subseteq QuoteIds /\ consumed \subseteq QuoteIds
    /\ epoch_total \in [Epochs -> Nat]
    /\ wallet_total \in [Epochs -> [Wallets -> Nat]]
    /\ request \in [Requests ->
          {Idle} \cup [phase : {"quote"}, now : 0..MaxTime, key : Keys]
                 \cup TradeType]
    /\ applied \in [QuoteIds -> Nat]
    /\ abandoned \subseteq QuoteIds

\* The two maps of the cache tell the same quotes: a key never leads to a
\* quote that the cache cannot execute, nor hides one that it can.
CacheAgrees ==
    /\ \A k \in DOMAIN by_key : by_key[k] \in by_id /\ quotes[by_key[k]].key = k
    /\ \A id \in by_id : quotes[id].key \in DOMAIN by_key
                         /\ by_key[quotes[id].key] = id

\* Nothing stays in flight longer than its quote is cached, and a quote in
\* flight has one request at work on it, unless that request was dropped.
InflightHeld ==
    /\ inflight \subseteq by_id
    /\ \A id \in inflight \ abandoned :
          \E r \in Requests : Holding(r) /\ request[r].id = id
    /\ \A r, s \in Requests :
          Holding(r) /\ Holding(s) /\ request[r].id = request[s].id => r = s

\* A trade is executed on a quote only if it was asked for before the quote's
\* expiry, however long it waited for the locks.
AskedInTime ==
    \A r \in Requests : request[r].phase = "apply" =>
        request[r].now < quotes[request[r].id].expires_at

\* advance.md: caps are enforced per wallet and epoch, to the tolerance.
CapsRespected ==
    \A e \in Epochs :
        /\ EpochLimit > 0 => epoch_total[e] <= EpochLimit + EPSILON
        /\ WalletLimit > 0 => \A w \in Wallets :
              wallet_total[e][w] <= WalletLimit + EPSILON

\* A quote in flight is released again, unless its request was dropped.
InflightReleased ==
    \A id \in QuoteIds :
        id \in inflight ~> (id \notin inflight \/ id \in abandoned)

\* A quote is offered while it is cached or a request still holds it.
Status ==
    [id \in QuoteIds |->
        IF applied[id] > 0 THEN "executed"
        ELSE IF id > Len(quotes) THEN "new"
        ELSE IF \/ id \in by_id
                \/ \E r \in Requests : /\ request[r].phase = "apply"
                                       /\ request[r].id = id
             THEN "offered" ELSE "lapsed"]

Lifecycle == INSTANCE QuoteLifecycle
                WITH Ids <- QuoteIds, status <- Status, executions <- applied

\* The desk keeps the promise of QuoteLifecycle: "consumed quotes cannot be
\* replayed", whatever is dropped, expires or runs at once.
KeepsLifecycle == Lifecycle!LifecycleSpec

\* The desk's cache, its in-flight set and its caps agree whenever no lock is
\* held: what can be quoted can be executed once, by whoever asked in time.
QuotesInv ==
    /\ QuotesTypeOK
    /\ CacheAgrees
    /\ InflightHeld
    /\ AskedInTime
    /\ CapsRespected
=============================================================================
