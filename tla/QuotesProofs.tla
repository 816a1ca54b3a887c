----------------------------- MODULE QuotesProofs -----------------------------
(***************************************************************************)
(* Proofs about the advance desk for any wallets, epochs, prices, limits   *)
(* and number of requests at once: its cache, its in-flight set and its    *)
(* caps agree, and it implements QuoteLifecycle.                           *)
(***************************************************************************)
EXTENDS Quotes, TLAPS

\* A request, between two of its waits.
AskType == [phase : {"quote"}, now : 0..MaxTime, key : Keys]
RequestType == {Idle} \cup AskType \cup TradeType

Trading(r) == request[r].phase \in {"check", "apply", "applied", "refused"}

\* A trade names a quote that was built.
TradesExist == \A r \in Requests : Trading(r) => request[r].id \in 1..Len(quotes)

\* What a request holds is in flight for as long as the cache knows it.
HeldIsInflight ==
    \A r \in Requests : Holding(r) => request[r].id \in inflight \/ request[r].id \notin by_id

\* Before the book has answered, and after it has refused, it has not taken the quote;
\* after it has accepted, it has.
BookAgrees ==
    \A r \in Requests :
        /\ request[r].phase \in {"apply", "refused"} => applied[request[r].id] = 0
        /\ request[r].phase = "applied" => applied[request[r].id] > 0

\* A quote that the book took was built, and is in flight or out of the cache.
ExecutedIsSpent ==
    \A id \in QuoteIds : applied[id] > 0 =>
        id <= Len(quotes) /\ (id \in by_id => id \in inflight)

DeskInv == /\ QuotesInv
           /\ TradesExist /\ HeldIsInflight /\ BookAgrees /\ ExecutedIsSpent
-----------------------------------------------------------------------------
(* Requests, quotes and the cache.                                         *)

\* What a request carries, by its phase.
LEMMA RequestShape ==
    ASSUME QuotesTypeOK, NEW r \in Requests
    PROVE  /\ request[r] \in RequestType
           /\ request[r].phase \in {"idle", "quote", "check", "apply", "applied", "refused"}
           /\ request[r].phase = "idle" <=> request[r] = Idle
           /\ request[r].phase = "quote" => request[r] \in AskType
           /\ request[r].phase \in {"check", "apply"} =>
                request[r] \in [phase : {"check", "apply"}, now : 0..MaxTime, id : QuoteIds,
                                wallet : Allowlist, direction : {"advance", "buyback"}]
           /\ request[r].phase \in {"applied", "refused"} =>
                request[r] \in [phase : {"applied", "refused"}, id : QuoteIds]
           /\ Trading(r) => request[r].id \in QuoteIds
<1>1. request[r] \in RequestType
  BY DEF QuotesTypeOK, RequestType, AskType
<1>2. CASE request[r] = Idle
  BY <1>1, <1>2 DEF Idle, Trading
<1>3. CASE request[r] \in AskType
  BY <1>1, <1>3 DEF Idle, AskType, Trading
<1>4. CASE request[r] \in TradeType
  BY <1>1, <1>4 DEF Idle, TradeType, Trading
<1>5. QED BY <1>1, <1>2, <1>3, <1>4 DEF RequestType

\* The requests keep their type when one of them is given another of its values.
LEMMA RequestUpdate ==
    ASSUME QuotesTypeOK, NEW r \in Requests, NEW q \in RequestType,
           request' = [request EXCEPT ![r] = q]
    PROVE  /\ request' \in [Requests -> RequestType]
           /\ request'[r] = q
           /\ \A s \in Requests : s # r => request'[s] = request[s]
<1>1. request \in [Requests -> RequestType]
  BY DEF QuotesTypeOK, RequestType, AskType
<1>2. QED BY <1>1

\* The two maps, as CacheAgrees has them, of any cache.
AgreeOn(ids, keys, built) ==
    /\ \A k \in DOMAIN keys : keys[k] \in ids /\ built[keys[k]].key = k
    /\ \A id \in ids : built[id].key \in DOMAIN keys /\ keys[built[id].key] = id

\* Quotes that leave the cache leave both maps.
LEMMA DroppedAgree ==
    ASSUME CacheAgrees, NEW gone
    PROVE  /\ Dropped(gone).by_id = by_id \ gone
           /\ DOMAIN Dropped(gone).by_key \subseteq DOMAIN by_key
           /\ AgreeOn(Dropped(gone).by_id, Dropped(gone).by_key, quotes)
<1> DEFINE stay == {k \in DOMAIN by_key : by_key[k] \notin gone}
<1>1. /\ Dropped(gone).by_id = by_id \ gone
      /\ Dropped(gone).by_key = [k \in stay |-> by_key[k]]
  BY DEF Dropped, Restrict
<1>2. DOMAIN Dropped(gone).by_key = stay
  BY <1>1
<1>3. \A k \in stay : Dropped(gone).by_key[k] = by_key[k]
  BY <1>1
<1>4. \A k \in stay : by_key[k] \in by_id \ gone /\ quotes[by_key[k]].key = k
  BY DEF CacheAgrees
<1>5. \A id \in by_id \ gone : quotes[id].key \in stay /\ by_key[quotes[id].key] = id
  BY DEF CacheAgrees
<1> HIDE DEF stay
<1>6. QED BY <1>1, <1>2, <1>3, <1>4, <1>5 DEF AgreeOn, stay

\* A quote that was built has its fields.
LEMMA QuoteShape ==
    ASSUME QuotesTypeOK, NEW id \in 1..Len(quotes)
    PROVE  /\ quotes[id] \in QuoteType /\ quotes[id].price \in Nat
           /\ quotes[id].key \in Keys /\ quotes[id].key.epoch \in Epochs
           /\ quotes[id].expires_at \in Int
<1>1. quotes[id] \in QuoteType
  BY DEF QuotesTypeOK
<1>2. QED BY <1>1, QuotesAssumption DEF QuoteType, Keys, QuotesAssumption

\* A fresh quote is the next, and the ones before it stay as they are.
LEMMA AppendedQuote ==
    ASSUME QuotesTypeOK, NEW q \in QuoteType
    PROVE  /\ Append(quotes, q) \in Seq(QuoteType)
           /\ Len(Append(quotes, q)) = Len(quotes) + 1
           /\ Append(quotes, q)[Len(quotes) + 1] = q
           /\ \A i \in 1..Len(quotes) : Append(quotes, q)[i] = quotes[i]
           /\ Len(quotes) \in Nat
BY DEF QuotesTypeOK

\* The part of the invariant about requests holds on when a request gives up its place,
\* quotes only grow, and what leaves the in-flight set has left the cache or was its own.
LEMMA ReleaseKeeps ==
    ASSUME DeskInv, NEW r \in Requests, Release(r), NEW gone, NEW fresh,
           \A id \in fresh : id > Len(quotes),
           by_id' \subseteq by_id \cup fresh,
           inflight' = inflight \ gone, inflight' \subseteq by_id',
           Holding(r) => request[r].id \in gone \cup abandoned',
           abandoned \subseteq abandoned', applied' = applied,
           Len(quotes') \in Nat, Len(quotes') >= Len(quotes),
           \A i \in 1..Len(quotes) : quotes'[i] = quotes[i],
           \A id \in gone \cap QuoteIds : id \notin by_id' \/ applied[id] = 0,
           \A s \in Requests : s # r /\ Holding(s) /\ request[s].id \in gone
             => request[s].id \notin by_id'
    PROVE  InflightHeld' /\ AskedInTime' /\ TradesExist' /\ HeldIsInflight' /\ BookAgrees'
           /\ ExecutedIsSpent'
<1>1. /\ Idle \in RequestType /\ Idle.phase = "idle"
      /\ QuotesTypeOK
  BY DEF RequestType, Idle, DeskInv, QuotesInv
<1>2. /\ request'[r].phase = "idle"
      /\ \A s \in Requests : s # r => request'[s] = request[s]
  BY <1>1, RequestUpdate DEF Release
<1>3. /\ \A s \in Requests : Trading(s) => request[s].id \in 1..Len(quotes)
      /\ \A s \in Requests : Holding(s) => request[s].id \in 1..Len(quotes)
      /\ Len(quotes) \in Nat
  BY <1>1 DEF DeskInv, TradesExist, Trading, Holding, QuotesTypeOK
<1>4. InflightHeld'
  <2>1. ASSUME NEW id \in inflight', id \notin abandoned'
        PROVE  \E s \in Requests : Holding(s)' /\ request'[s].id = id
    <3>1. PICK s \in Requests : Holding(s) /\ request[s].id = id
      BY <2>1 DEF DeskInv, QuotesInv, InflightHeld
    <3>2. s # r
      BY <2>1, <3>1
    <3>3. QED BY <1>2, <3>1, <3>2 DEF Holding
  <2>2. ASSUME NEW s \in Requests, NEW t \in Requests,
               Holding(s)', Holding(t)', request'[s].id = request'[t].id
        PROVE  s = t
    BY <1>2, <2>2 DEF DeskInv, QuotesInv, InflightHeld, Holding
  <2>3. QED BY <2>1, <2>2 DEF InflightHeld
<1>5. AskedInTime' /\ TradesExist'
  BY <1>2, <1>3 DEF DeskInv, QuotesInv, AskedInTime, TradesExist, Trading, Holding
<1>6. HeldIsInflight'
  <2> SUFFICES ASSUME NEW s \in Requests, Holding(s)'
               PROVE  request'[s].id \in inflight' \/ request'[s].id \notin by_id'
    BY DEF HeldIsInflight
  <2>1. s # r /\ Holding(s) /\ request'[s] = request[s]
    BY <1>2 DEF Holding
  <2>2. request[s].id \in inflight \/ request[s].id \notin by_id
    BY <2>1 DEF DeskInv, HeldIsInflight
  <2>3. request[s].id \notin fresh
    BY <1>3, <2>1
  <2>4. QED BY <2>1, <2>2, <2>3
<1>7. BookAgrees'
  BY <1>2 DEF DeskInv, BookAgrees
<1>8. ExecutedIsSpent'
  <2> SUFFICES ASSUME NEW id \in QuoteIds, applied[id] > 0
               PROVE  id <= Len(quotes') /\ (id \in by_id' => id \in inflight')
    BY DEF ExecutedIsSpent
  <2>1. id <= Len(quotes) /\ (id \in by_id => id \in inflight)
    BY DEF DeskInv, ExecutedIsSpent
  <2>2. id \notin fresh /\ id \in Int
    BY <1>3, <2>1 DEF QuoteIds
  <2>3. id <= Len(quotes')
    BY <1>3, <2>1, <2>2
  <2>4. QED BY <2>1, <2>2, <2>3
<1>9. QED BY <1>4, <1>5, <1>6, <1>7, <1>8
-----------------------------------------------------------------------------
(* The invariant, one step at a time.                                      *)

\* A request that starts is idle, touches nothing else, and waits to look at the cache.
LEMMA AskStarts ==
    ASSUME QuotesTypeOK, NEW r \in Requests,
           \/ \E k \in Keys : AskQuote(r, k)
           \/ \E id \in 1..Len(quotes), w \in Wallets, d \in {"advance", "buyback"} :
                 AskTrade(r, id, w, d)
    PROVE  /\ request[r] = Idle /\ UNCHANGED <<clock, quotes, cacheVars, bookVars, abandoned>>
           /\ \E q \in RequestType : /\ request' = [request EXCEPT ![r] = q]
                                     /\ q.phase \in {"quote", "check"}
                                     /\ q.phase = "check" => q.id \in 1..Len(quotes)
<1>1. clock \in 0..MaxTime /\ 1..Len(quotes) \subseteq QuoteIds
  BY QuotesAssumption DEF QuotesTypeOK, QuoteIds, QuotesAssumption
<1>2. CASE \E k \in Keys : AskQuote(r, k)
  <2>1. PICK k \in Keys : AskQuote(r, k)
    BY <1>2
  <2> DEFINE q == [phase |-> "quote", now |-> clock, key |-> k]
  <2>2. q \in RequestType /\ q.phase = "quote"
    BY <1>1 DEF RequestType, AskType
  <2>3. QED BY <2>1, <2>2 DEF AskQuote
<1>3. CASE \E id \in 1..Len(quotes), w \in Wallets, d \in {"advance", "buyback"} :
             AskTrade(r, id, w, d)
  <2>1. PICK id \in 1..Len(quotes), w \in Wallets, d \in {"advance", "buyback"} :
          AskTrade(r, id, w, d)
    BY <1>3
  <2> DEFINE q == [phase |-> "check", now |-> clock, id |-> id, wallet |-> w,
                   direction |-> d]
  <2>2. q \in RequestType /\ q.phase = "check" /\ q.id = id
    BY <1>1, <2>1 DEF RequestType, TradeType, AskTrade
  <2>3. QED BY <2>1, <2>2 DEF AskTrade
<1>4. QED BY <1>2, <1>3

\* A request that starts only waits.
LEMMA AskKeeps ==
    ASSUME DeskInv, NEW r \in Requests,
           \/ \E k \in Keys : AskQuote(r, k)
           \/ \E id \in 1..Len(quotes), w \in Wallets, d \in {"advance", "buyback"} :
                 AskTrade(r, id, w, d)
    PROVE  DeskInv'
<1>1. QuotesTypeOK /\ 1..Len(quotes) \subseteq QuoteIds
  BY QuotesAssumption DEF DeskInv, QuotesInv, QuotesTypeOK, QuoteIds, QuotesAssumption
<1>2. request[r] = Idle /\ UNCHANGED <<clock, quotes, cacheVars, bookVars, abandoned>>
  BY <1>1, AskStarts
<1>3. PICK q \in RequestType : /\ request' = [request EXCEPT ![r] = q]
                               /\ q.phase \in {"quote", "check"}
                               /\ q.phase = "check" => q.id \in 1..Len(quotes)
  BY <1>1, AskStarts
<1>4. /\ request' \in [Requests -> RequestType] /\ request'[r] = q
      /\ \A s \in Requests : s # r => request'[s] = request[s]
      /\ request[r].phase = "idle"
  <2>1. request[r].phase = "idle"
    BY <1>2 DEF Idle
  <2>2. QED BY <1>1, <1>3, <2>1, RequestUpdate
<1>5. QuotesTypeOK'
  BY <1>1, <1>2, <1>4 DEF QuotesTypeOK, RequestType, AskType, cacheVars, bookVars
<1>6. CacheAgrees' /\ CapsRespected' /\ ExecutedIsSpent'
  BY <1>2
  DEF DeskInv, QuotesInv, CacheAgrees, CapsRespected, ExecutedIsSpent, cacheVars, bookVars
<1>7. \A s \in Requests : \/ /\ s # r /\ request'[s] = request[s]
                          \/ /\ s = r /\ ~Holding(s)' /\ ~Holding(s)
                             /\ Trading(s)' => request'[s].id \in 1..Len(quotes)
  BY <1>3, <1>4 DEF Holding, Trading
<1>8. InflightHeld'
  BY <1>2, <1>7 DEF DeskInv, QuotesInv, InflightHeld, Holding, cacheVars
<1>9. AskedInTime' /\ TradesExist' /\ HeldIsInflight' /\ BookAgrees'
  BY <1>2, <1>7
  DEF DeskInv, QuotesInv, AskedInTime, TradesExist, HeldIsInflight, BookAgrees, Holding,
      Trading, cacheVars, bookVars
<1>10. QED BY <1>5, <1>6, <1>8, <1>9 DEF DeskInv, QuotesInv

\* A look at the cache drops what has expired, and may add the quote asked for.
LEMMA ServeKeeps ==
    ASSUME DeskInv, NEW r \in Requests, ServeQuote(r)
    PROVE  DeskInv'
<1> DEFINE gone == Expired(request[r].now)
           kept == Dropped(gone)
           k == request[r].key
           next == Len(quotes) + 1
<1>1. QuotesTypeOK /\ CacheAgrees
  BY DEF DeskInv, QuotesInv
<1>2. /\ request[r].phase = "quote" /\ Release(r)
      /\ inflight' = inflight \ gone /\ consumed' = consumed \ gone
      /\ UNCHANGED <<clock, bookVars, abandoned>>
      /\ gone \subseteq by_id
  BY DEF ServeQuote, Expired
<1>3. k \in Keys
  BY <1>1, <1>2, RequestShape DEF AskType
<1>4. /\ Len(quotes) \in Nat /\ Len(quotes) <= MaxQuotes /\ MaxQuotes \in Nat
      /\ by_id \subseteq 1..Len(quotes) /\ DOMAIN by_key \subseteq Keys
      /\ quotes \in Seq(QuoteType)
  BY <1>1, QuotesAssumption DEF QuotesTypeOK, QuotesAssumption
<1>5. /\ kept.by_id = by_id \ gone /\ DOMAIN kept.by_key \subseteq DOMAIN by_key
      /\ AgreeOn(kept.by_id, kept.by_key, quotes)
  BY <1>1, DroppedAgree
<1>6. request' \in [Requests -> RequestType]
  BY <1>1, <1>2, RequestUpdate DEF Release, RequestType
<1>7. \/ /\ by_id' = kept.by_id /\ by_key' = kept.by_key /\ quotes' = quotes
      \/ /\ k \notin DOMAIN kept.by_key /\ next <= MaxQuotes
         /\ \E p \in Prices[k.side] :
               quotes' = Append(quotes, [key |-> k, price |-> p, expires_at |-> clock + Ttl])
         /\ by_id' = kept.by_id \cup {next}
         /\ by_key' = [x \in DOMAIN kept.by_key \cup {k} |->
                         IF x = k THEN next ELSE kept.by_key[x]]
  BY DEF ServeQuote
<1> HIDE DEF gone, kept, k
<1>8. \E fresh \in SUBSET {next} :
        /\ quotes' \in Seq(QuoteType)
        /\ Len(quotes') \in Nat /\ Len(quotes') >= Len(quotes) /\ Len(quotes') <= MaxQuotes
        /\ \A i \in 1..Len(quotes) : quotes'[i] = quotes[i]
        /\ by_id' = (by_id \ gone) \cup fresh /\ by_id' \subseteq 1..Len(quotes')
        /\ DOMAIN by_key' \subseteq Keys
        /\ AgreeOn(by_id', by_key', quotes')
  <2>1. CASE by_id' = kept.by_id /\ by_key' = kept.by_key /\ quotes' = quotes
    <3>1. AgreeOn(by_id', by_key', quotes')
      BY <1>5, <2>1
    <3>2. by_id' = (by_id \ gone) \cup {} /\ by_id' \subseteq 1..Len(quotes')
      BY <1>4, <1>5, <2>1
    <3>3. /\ quotes' \in Seq(QuoteType) /\ Len(quotes') = Len(quotes)
          /\ \A i \in 1..Len(quotes) : quotes'[i] = quotes[i]
          /\ DOMAIN by_key' \subseteq Keys
      BY <1>4, <1>5, <2>1
    <3> WITNESS {} \in SUBSET {next}
    <3>4. QED BY <1>4, <3>1, <3>2, <3>3
  <2>2. CASE /\ k \notin DOMAIN kept.by_key /\ next <= MaxQuotes
             /\ \E p \in Prices[k.side] :
                  quotes' = Append(quotes, [key |-> k, price |-> p, expires_at |-> clock + Ttl])
             /\ by_id' = kept.by_id \cup {next}
             /\ by_key' = [x \in DOMAIN kept.by_key \cup {k} |->
                             IF x = k THEN next ELSE kept.by_key[x]]
    <3>1. PICK p \in Prices[k.side] :
            quotes' = Append(quotes, [key |-> k, price |-> p, expires_at |-> clock + Ttl])
      BY <2>2
    <3> DEFINE q == [key |-> k, price |-> p, expires_at |-> clock + Ttl]
    <3>2. k.side \in Sides /\ p \in Nat /\ clock + Ttl \in 0..(MaxTime + Ttl)
      BY <1>1, <1>3, QuotesAssumption DEF Keys, QuotesAssumption, QuotesTypeOK
    <3>3. q \in QuoteType /\ q.key = k
      BY <1>3, <3>2 DEF QuoteType
    <3> HIDE DEF q
    <3>4. /\ quotes' \in Seq(QuoteType) /\ Len(quotes') = next /\ quotes'[next] = q
          /\ \A i \in 1..Len(quotes) : quotes'[i] = quotes[i]
      BY <1>1, <3>1, <3>3, AppendedQuote DEF q
    <3>5. /\ by_id' = (by_id \ gone) \cup {next}
          /\ next \notin by_id /\ next \in Nat
      BY <1>4, <1>5, <2>2
    <3>6. by_id' \subseteq 1..Len(quotes')
      <4>1. \A id \in by_id' : id \in 1..Len(quotes) \/ id = Len(quotes) + 1
        BY <1>4, <3>5
      <4>2. Len(quotes') = Len(quotes) + 1
        BY <3>4
      <4>3. QED BY <1>4, <4>1, <4>2
    <3>7. /\ DOMAIN by_key' = DOMAIN kept.by_key \cup {k}
          /\ by_key'[k] = next
          /\ \A x \in DOMAIN kept.by_key : by_key'[x] = kept.by_key[x]
      BY <2>2
    <3>8. AgreeOn(by_id', by_key', quotes')
      <4>1. ASSUME NEW x \in DOMAIN by_key'
            PROVE  by_key'[x] \in by_id' /\ quotes'[by_key'[x]].key = x
        <5>1. CASE x = k
          BY <3>3, <3>4, <3>5, <3>7, <5>1
        <5>2. CASE x \in DOMAIN kept.by_key
          <6>1. kept.by_key[x] \in by_id \ gone /\ quotes[kept.by_key[x]].key = x
            BY <1>5, <5>2 DEF AgreeOn
          <6>2. QED BY <1>4, <3>4, <3>5, <3>7, <5>2, <6>1
        <5>3. QED BY <3>7, <4>1, <5>1, <5>2
      <4>2. ASSUME NEW id \in by_id'
            PROVE  quotes'[id].key \in DOMAIN by_key' /\ by_key'[quotes'[id].key] = id
        <5>1. CASE id = next
          BY <3>3, <3>4, <3>7, <5>1
        <5>2. CASE id \in by_id \ gone
          <6>1. quotes[id].key \in DOMAIN kept.by_key /\ kept.by_key[quotes[id].key] = id
            BY <1>5, <5>2 DEF AgreeOn
          <6>2. quotes'[id] = quotes[id]
            BY <1>4, <3>4, <5>2
          <6>3. QED BY <3>7, <6>1, <6>2
        <5>3. QED BY <3>5, <4>2, <5>1, <5>2
      <4>3. QED BY <4>1, <4>2 DEF AgreeOn
    <3>9. DOMAIN by_key' \subseteq Keys
      BY <1>3, <1>4, <1>5, <3>7
    <3>10. Len(quotes') \in Nat /\ Len(quotes') >= Len(quotes) /\ Len(quotes') <= MaxQuotes
      BY <1>4, <2>2, <3>4
    <3>11. {next} \in SUBSET {next}
      OBVIOUS
    <3>12. QED BY <3>4, <3>5, <3>6, <3>8, <3>9, <3>10, <3>11
  <2>3. QED BY <1>7, <2>1, <2>2
<1>9. PICK fresh \in SUBSET {next} :
        /\ quotes' \in Seq(QuoteType)
        /\ Len(quotes') \in Nat /\ Len(quotes') >= Len(quotes) /\ Len(quotes') <= MaxQuotes
        /\ \A i \in 1..Len(quotes) : quotes'[i] = quotes[i]
        /\ by_id' = (by_id \ gone) \cup fresh /\ by_id' \subseteq 1..Len(quotes')
        /\ DOMAIN by_key' \subseteq Keys
        /\ AgreeOn(by_id', by_key', quotes')
  BY <1>8
<1>10. QuotesTypeOK'
  BY <1>1, <1>2, <1>6, <1>9 DEF QuotesTypeOK, RequestType, AskType, bookVars
<1>11. CacheAgrees' /\ CapsRespected'
  BY <1>2, <1>9 DEF DeskInv, QuotesInv, CacheAgrees, CapsRespected, AgreeOn, bookVars
<1>12. /\ \A id \in fresh : id > Len(quotes)
       /\ by_id' \subseteq by_id \cup fresh
       /\ \A id \in gone : id \notin by_id'
  BY <1>2, <1>4, <1>9
<1>13. inflight \subseteq by_id /\ ~Holding(r)
  BY <1>2 DEF DeskInv, QuotesInv, InflightHeld, Holding
<1>14. inflight' \subseteq by_id' /\ abandoned' = abandoned /\ applied' = applied
  BY <1>2, <1>9, <1>13 DEF bookVars
<1>15. InflightHeld' /\ AskedInTime' /\ TradesExist' /\ HeldIsInflight' /\ BookAgrees'
       /\ ExecutedIsSpent'
  BY <1>2, <1>9, <1>12, <1>13, <1>14, ReleaseKeeps
<1>16. QED BY <1>10, <1>11, <1>15 DEF DeskInv, QuotesInv

\* The checks under the cache's lock either put the quote in flight or turn the trade away.
LEMMA CheckKeeps ==
    ASSUME DeskInv, NEW r \in Requests, CheckQuote(r)
    PROVE  DeskInv'
<1> DEFINE q == request[r]
           gone == Expired(request[r].now)
           kept == Dropped(gone)
           passed == /\ Free(q.id) /\ q.id \in kept.by_id
                     /\ quotes[q.id].key.side = SideOf(q.direction)
<1>1. QuotesTypeOK /\ CacheAgrees
  BY DEF DeskInv, QuotesInv
<1>2. /\ request[r].phase = "check" /\ by_id' = kept.by_id /\ by_key' = kept.by_key
      /\ consumed' = consumed \ gone /\ gone \subseteq by_id
      /\ UNCHANGED <<clock, quotes, bookVars, abandoned>>
      /\ IF passed
         THEN /\ inflight' = (inflight \ gone) \cup {q.id}
              /\ request' = [request EXCEPT ![r].phase = "apply"]
         ELSE inflight' = inflight \ gone /\ Release(r)
  BY DEF CheckQuote, Expired
<1>3. /\ kept.by_id = by_id \ gone /\ DOMAIN kept.by_key \subseteq DOMAIN by_key
      /\ AgreeOn(kept.by_id, kept.by_key, quotes)
  BY <1>1, DroppedAgree
<1>4. /\ Len(quotes) \in Nat /\ by_id \subseteq 1..Len(quotes) /\ DOMAIN by_key \subseteq Keys
      /\ quotes \in Seq(QuoteType)
  BY <1>1 DEF QuotesTypeOK
<1>5. /\ request[r] \in [phase : {"check", "apply"}, now : 0..MaxTime, id : QuoteIds,
                         wallet : Allowlist, direction : {"advance", "buyback"}]
      /\ q.id \in QuoteIds
  BY <1>1, <1>2, RequestShape
<1>6. q.id \in kept.by_id => q.now < quotes[q.id].expires_at
  <2>1. q.id \in kept.by_id => q.id \in by_id /\ q.id \notin gone
    BY <1>3
  <2>2. q.id \in by_id => quotes[q.id].expires_at \in Int /\ q.now \in Int
    <3>1. q.now \in 0..MaxTime
      BY <1>5
    <3>2. q.id \in by_id => q.id \in 1..Len(quotes)
      BY <1>4
    <3> HIDE DEF q
    <3>3. QED BY <1>1, <3>1, <3>2, QuoteShape
  <2>3. QED BY <2>1, <2>2 DEF Expired, IsExpired
<1>7. by_id' = by_id \ gone /\ AgreeOn(by_id', by_key', quotes) /\ DOMAIN by_key' \subseteq Keys
  BY <1>2, <1>3, <1>4
<1>8. CacheAgrees' /\ CapsRespected'
  BY <1>2, <1>7 DEF DeskInv, QuotesInv, CacheAgrees, CapsRespected, AgreeOn, bookVars
<1>9. inflight \subseteq by_id /\ ~Holding(r)
  BY <1>2 DEF DeskInv, QuotesInv, InflightHeld, Holding
<1>10. CASE passed
  <2> DEFINE moved == [request[r] EXCEPT !.phase = "apply"]
  <2>1. /\ moved \in RequestType /\ moved.phase = "apply"
        /\ moved.id = q.id /\ moved.now = q.now
    BY <1>5 DEF RequestType, TradeType
  <2>2. request' = [request EXCEPT ![r] = moved]
    BY <1>1, <1>2, <1>10 DEF QuotesTypeOK
  <2>3. /\ request' \in [Requests -> RequestType] /\ request'[r] = moved
        /\ \A s \in Requests : s # r => request'[s] = request[s]
    BY <1>1, <2>1, <2>2, RequestUpdate
  <2>4. q.id \notin inflight /\ q.id \in by_id' /\ inflight' = (inflight \ gone) \cup {q.id}
    BY <1>2, <1>10 DEF Free
  <2> HIDE DEF gone, kept, passed, moved, q
  <2>5. QuotesTypeOK'
    BY <1>1, <1>2, <1>4, <1>5, <1>7, <2>3, <2>4 DEF QuotesTypeOK, RequestType, AskType, bookVars
  <2>6. applied[q.id] = 0
    BY <1>1, <1>5, <1>7, <2>4 DEF DeskInv, ExecutedIsSpent, QuotesTypeOK
  <2>7. \A s \in Requests : Holding(s) => request[s].id # q.id
    BY <1>7, <2>4 DEF DeskInv, HeldIsInflight
  <2>8. \A s \in Requests : s # r => (Holding(s)' <=> Holding(s))
    BY <2>3 DEF Holding
  <2>9. InflightHeld'
    <3>1. inflight' \subseteq by_id'
      BY <1>7, <1>9, <2>4
    <3>2. ASSUME NEW id \in inflight', id \notin abandoned'
          PROVE  \E s \in Requests : Holding(s)' /\ request'[s].id = id
      <4>1. CASE id = q.id
        BY <2>1, <2>3, <4>1 DEF Holding
      <4>2. CASE id \in inflight
        <5>1. PICK s \in Requests : Holding(s) /\ request[s].id = id
          BY <1>2, <3>2, <4>2 DEF DeskInv, QuotesInv, InflightHeld
        <5>2. QED BY <1>9, <2>3, <2>8, <5>1
      <4>3. QED BY <2>4, <3>2, <4>1, <4>2
    <3>3. ASSUME NEW s \in Requests, NEW t \in Requests, Holding(s)', Holding(t)',
                 request'[s].id = request'[t].id
          PROVE  s = t
      <4>1. CASE s # r /\ t # r
        BY <2>3, <2>8, <3>3, <4>1 DEF DeskInv, QuotesInv, InflightHeld
      <4>2. CASE s = r \/ t = r
        BY <2>1, <2>3, <2>7, <2>8, <3>3, <4>2
      <4>3. QED BY <4>1, <4>2
    <3>4. QED BY <3>1, <3>2, <3>3 DEF InflightHeld
  <2>10. AskedInTime'
    BY <1>2, <1>6, <1>7, <2>1, <2>3, <2>4, <1>3 DEF DeskInv, QuotesInv, AskedInTime, q
  <2>11. TradesExist'
    BY <1>2, <1>4, <1>7, <2>1, <2>3, <2>4 DEF DeskInv, TradesExist, Trading
  <2>12. HeldIsInflight'
    BY <1>7, <2>1, <2>3, <2>4, <2>8 DEF DeskInv, HeldIsInflight
  <2>13. BookAgrees' /\ ExecutedIsSpent'
    BY <1>2, <1>7, <2>1, <2>3, <2>4, <2>6 DEF DeskInv, BookAgrees, ExecutedIsSpent, bookVars
  <2>14. QED
    BY <1>8, <2>5, <2>9, <2>10, <2>11, <2>12, <2>13 DEF DeskInv, QuotesInv
<1>11. CASE ~passed
  <2>1. inflight' = inflight \ gone /\ Release(r)
    BY <1>2, <1>11
  <2>2. request' \in [Requests -> RequestType]
    BY <1>1, <2>1, RequestUpdate DEF Release, RequestType
  <2> HIDE DEF gone, kept, passed, q
  <2>3. QuotesTypeOK'
    BY <1>1, <1>2, <1>4, <1>7, <2>1, <2>2 DEF QuotesTypeOK, RequestType, AskType, bookVars
  <2> DEFINE none == {}
  <2>4. /\ \A id \in none : id > Len(quotes)
        /\ by_id' \subseteq by_id \cup none /\ inflight' \subseteq by_id'
        /\ \A id \in gone : id \notin by_id'
        /\ abandoned' = abandoned /\ applied' = applied
        /\ Len(quotes') \in Nat /\ Len(quotes') >= Len(quotes)
        /\ \A i \in 1..Len(quotes) : quotes'[i] = quotes[i]
    BY <1>2, <1>4, <1>7, <1>9, <2>1 DEF bookVars
  <2> HIDE DEF none
  <2>5. InflightHeld' /\ AskedInTime' /\ TradesExist' /\ HeldIsInflight' /\ BookAgrees'
        /\ ExecutedIsSpent'
    BY <1>9, <2>1, <2>4, ReleaseKeeps
  <2>6. QED BY <1>8, <2>3, <2>5 DEF DeskInv, QuotesInv
<1>12. QED BY <1>10, <1>11

\* What the book says of a request's quote changes for that request only.
LEMMA OutcomeKeeps ==
    ASSUME DeskInv, NEW r \in Requests, request[r].phase = "apply",
           NEW p \in {"applied", "refused"}, Outcome(r, p),
           p = "refused" => applied' = applied,
           p = "applied" => applied' = [applied EXCEPT ![request[r].id] = @ + 1],
           UNCHANGED <<clock, quotes, cacheVars, abandoned>>
    PROVE  /\ request' \in [Requests -> RequestType]
           /\ applied' \in [QuoteIds -> Nat]
           /\ CacheAgrees' /\ InflightHeld' /\ AskedInTime' /\ TradesExist'
           /\ HeldIsInflight' /\ BookAgrees' /\ ExecutedIsSpent'
<1> DEFINE id == request[r].id
           outcome == [phase |-> p, id |-> id]
<1>1. QuotesTypeOK
  BY DEF DeskInv, QuotesInv
<1>2. id \in QuoteIds /\ id \in 1..Len(quotes)
  BY <1>1, RequestShape DEF DeskInv, TradesExist, Trading
<1>3. outcome \in RequestType /\ outcome.phase = p /\ outcome.id = id
  BY <1>2 DEF RequestType, TradeType
<1>4. /\ request' \in [Requests -> RequestType] /\ request'[r] = outcome
      /\ \A s \in Requests : s # r => request'[s] = request[s]
  BY <1>1, <1>3, RequestUpdate DEF Outcome
<1>5. /\ applied \in [QuoteIds -> Nat] /\ applied' \in [QuoteIds -> Nat]
      /\ \A i \in QuoteIds : i # id => applied'[i] = applied[i]
      /\ p = "applied" => applied'[id] = applied[id] + 1
  BY <1>1, <1>2 DEF QuotesTypeOK
<1>6. Holding(r) /\ Trading(r) /\ applied[id] = 0
  BY DEF Holding, Trading, DeskInv, BookAgrees
<1>7. \A s \in Requests : s # r /\ Holding(s) => request[s].id # id
  BY <1>6 DEF DeskInv, QuotesInv, InflightHeld
<1> HIDE DEF outcome
<1>8. CacheAgrees'
  BY DEF DeskInv, QuotesInv, CacheAgrees, cacheVars
<1>9. \A s \in Requests : /\ Holding(s)' <=> Holding(s)
                          /\ Trading(s)' <=> Trading(s)
                          /\ Trading(s) => request'[s].id = request[s].id
                          /\ Holding(s) => request'[s].id = request[s].id
  BY <1>3, <1>4, <1>6 DEF Holding, Trading
<1>10. InflightHeld' /\ HeldIsInflight' /\ TradesExist'
  BY <1>9 DEF DeskInv, QuotesInv, InflightHeld, HeldIsInflight, TradesExist, cacheVars
<1>11. AskedInTime'
  BY <1>3, <1>4 DEF DeskInv, QuotesInv, AskedInTime
<1>12. BookAgrees'
  <2> SUFFICES ASSUME NEW s \in Requests
               PROVE  /\ request'[s].phase \in {"apply", "refused"} => applied'[request'[s].id] = 0
                      /\ request'[s].phase = "applied" => applied'[request'[s].id] > 0
    BY DEF BookAgrees
  <2>1. CASE s = r
    BY <1>2, <1>3, <1>4, <1>5, <1>6, <2>1
  <2>2. CASE s # r
    <3>1. Trading(s) => request[s].id \in QuoteIds
      BY <1>1, RequestShape
    <3>2. QED BY <1>4, <1>5, <1>7, <2>2, <3>1 DEF DeskInv, BookAgrees, Holding, Trading
  <2>3. QED BY <2>1, <2>2
<1>13. ExecutedIsSpent'
  <2>1. id \in inflight \/ id \notin by_id
    BY <1>6 DEF DeskInv, HeldIsInflight
  <2> SUFFICES ASSUME NEW i \in QuoteIds, applied'[i] > 0
               PROVE  i <= Len(quotes') /\ (i \in by_id' => i \in inflight')
    BY DEF ExecutedIsSpent
  <2>2. CASE i = id
    BY <1>1, <1>2, <2>1, <2>2 DEF QuotesTypeOK, cacheVars
  <2>3. CASE i # id
    BY <1>5, <2>3 DEF DeskInv, ExecutedIsSpent, cacheVars
  <2>4. QED BY <2>2, <2>3
<1>14. QED BY <1>4, <1>5, <1>8, <1>10, <1>11, <1>12, <1>13

\* A total that passes a cap's check is within the cap and its tolerance.
LEMMA WithinBound ==
    ASSUME NEW total \in Int, NEW amount \in Int, NEW limit \in Nat,
           Within(total, amount, limit), limit > 0
    PROVE  total + amount <= limit + EPSILON
<1> DEFINE over == total + amount - limit
<1>1. over \in Int
  OBVIOUS
<1>2. FALSE \in Exceeds(over)
  <2>1. limit # 0
    OBVIOUS
  <2>2. QED BY <2>1, Zenon DEF Within
<1> HIDE DEF over
<1>3. CASE over = EPSILON
  <2>1. total + amount - limit = EPSILON
    BY <1>3 DEF over
  <2>2. QED BY <2>1 DEF EPSILON
<1>4. CASE over # EPSILON
  <2>1. ~(over > EPSILON)
    BY <1>2, <1>4, Zenon DEF Exceeds
  <2>2. over <= EPSILON
    BY <1>1, <2>1 DEF EPSILON
  <2>3. QED BY <2>2 DEF over, EPSILON
<1>5. QED BY <1>3, <1>4

\* The book's totals stay typed and within the caps when it records sums that are.
LEMMA RecordKeepsBook ==
    ASSUME QuotesTypeOK, CapsRespected, NEW r \in Requests, NEW e \in Epochs, NEW w \in Wallets,
           NEW wallet_new \in Nat, NEW epoch_new \in Nat,
           Record(r, e, w, wallet_new, epoch_new),
           WalletLimit > 0 => wallet_new <= WalletLimit + EPSILON,
           EpochLimit > 0 => epoch_new <= EpochLimit + EPSILON
    PROVE  /\ wallet_total' \in [Epochs -> [Wallets -> Nat]]
           /\ epoch_total' \in [Epochs -> Nat]
           /\ CapsRespected'
<1>1. PICK kept \in Exceeds(wallet_new) :
        LET wallets == [wallet_total[e] EXCEPT ![w] = IF kept THEN wallet_new ELSE 0]
            empty   == \A v \in Wallets : wallets[v] = 0
        IN  /\ wallet_total' = [wallet_total EXCEPT ![e] = wallets]
            /\ epoch_total' = [epoch_total EXCEPT
                  ![e] = IF empty /\ epoch_new <= EPSILON THEN 0 ELSE epoch_new]
  BY DEF Record
<1> DEFINE wallets == [wallet_total[e] EXCEPT ![w] = IF kept THEN wallet_new ELSE 0]
<1>2. /\ wallet_total' = [wallet_total EXCEPT ![e] = wallets]
      /\ \E x \in {0, epoch_new} : epoch_total' = [epoch_total EXCEPT ![e] = x]
  BY <1>1
<1>3. PICK x \in {0, epoch_new} : epoch_total' = [epoch_total EXCEPT ![e] = x]
  BY <1>2
<1>4. /\ wallet_total \in [Epochs -> [Wallets -> Nat]] /\ epoch_total \in [Epochs -> Nat]
      /\ WalletLimit \in Nat /\ EpochLimit \in Nat
  BY QuotesAssumption DEF QuotesTypeOK, QuotesAssumption
<1>5. /\ wallets \in [Wallets -> Nat] /\ wallets[w] \in {0, wallet_new}
      /\ \A v \in Wallets : v # w => wallets[v] = wallet_total[e][v]
  BY <1>4
<1> HIDE DEF wallets
<1>6. wallet_total' \in [Epochs -> [Wallets -> Nat]] /\ epoch_total' \in [Epochs -> Nat]
  BY <1>2, <1>3, <1>4, <1>5
<1>7. ASSUME NEW f \in Epochs, EpochLimit > 0
      PROVE  epoch_total'[f] <= EpochLimit + EPSILON
  BY <1>3, <1>4, <1>7 DEF CapsRespected, EPSILON
<1>8. ASSUME NEW f \in Epochs, NEW v \in Wallets, WalletLimit > 0
      PROVE  wallet_total'[f][v] <= WalletLimit + EPSILON
  <2>1. wallet_total[f][v] <= WalletLimit + EPSILON
    BY <1>8 DEF CapsRespected
  <2>2. CASE f = e
    <3>1. wallet_total'[f][v] = wallets[v]
      BY <1>2, <1>4, <2>2
    <3>2. CASE v = w
      BY <1>4, <1>5, <1>8, <3>1, <3>2 DEF EPSILON
    <3>3. CASE v # w
      BY <1>5, <2>1, <2>2, <3>1, <3>3
    <3>4. QED BY <3>2, <3>3
  <2>3. CASE f # e
    BY <1>2, <1>4, <2>1, <2>3
  <2>4. QED BY <2>2, <2>3
<1>9. QED BY <1>6, <1>7, <1>8 DEF CapsRespected

\* The book takes the trade or refuses it, by its caps.
LEMMA ApplyKeeps ==
    ASSUME DeskInv, NEW r \in Requests, ApplyTrade(r)
    PROVE  DeskInv'
<1> DEFINE id == request[r].id
           e == quotes[id].key.epoch
           price == quotes[id].price
           w == request[r].wallet
           used == wallet_total[e][w]
<1>1. QuotesTypeOK /\ CapsRespected /\ request[r].phase = "apply"
  BY DEF DeskInv, QuotesInv, ApplyTrade
<1>2. /\ id \in 1..Len(quotes) /\ e \in Epochs /\ price \in Nat /\ w \in Wallets
  <2>1. id \in 1..Len(quotes)
    BY <1>1 DEF DeskInv, TradesExist, Trading
  <2>2. w \in Wallets
    BY <1>1, RequestShape, QuotesAssumption DEF QuotesAssumption
  <2>3. QED BY <1>1, <2>1, <2>2, QuoteShape
<1>3. used \in Nat /\ epoch_total[e] \in Nat /\ WalletLimit \in Nat /\ EpochLimit \in Nat
  BY <1>1, <1>2, QuotesAssumption DEF QuotesTypeOK, QuotesAssumption
<1>4. UNCHANGED <<clock, quotes, cacheVars, abandoned>>
  BY DEF ApplyTrade
<1>5. \/ Outcome(r, "refused") /\ UNCHANGED bookVars
      \/ /\ Within(used, price, WalletLimit) /\ Within(epoch_total[e], price, EpochLimit)
         /\ Record(r, e, w, used + price, epoch_total[e] + price)
      \/ Record(r, e, w, Clamped(used - price), Clamped(epoch_total[e] - price))
  BY DEF ApplyTrade
<1> HIDE DEF id, e, price, w, used
<1>6. CASE Outcome(r, "refused") /\ UNCHANGED bookVars
  <2>1. applied' = applied /\ CapsRespected'
    BY <1>1, <1>6 DEF CapsRespected, bookVars
  <2>2. /\ request' \in [Requests -> RequestType]
        /\ CacheAgrees' /\ InflightHeld' /\ AskedInTime' /\ TradesExist'
        /\ HeldIsInflight' /\ BookAgrees' /\ ExecutedIsSpent'
    BY <1>1, <1>4, <1>6, <2>1, OutcomeKeeps
  <2>3. QuotesTypeOK'
    BY <1>1, <1>4, <1>6, <2>2 DEF QuotesTypeOK, RequestType, AskType, cacheVars, bookVars
  <2>4. QED BY <2>1, <2>2, <2>3 DEF DeskInv, QuotesInv
<1>7. ASSUME NEW wallet_new \in Nat, NEW epoch_new \in Nat,
             Record(r, e, w, wallet_new, epoch_new),
             WalletLimit > 0 => wallet_new <= WalletLimit + EPSILON,
             EpochLimit > 0 => epoch_new <= EpochLimit + EPSILON
      PROVE  DeskInv'
  <2>1. /\ applied' = [applied EXCEPT ![request[r].id] = @ + 1]
        /\ Outcome(r, "applied")
    BY <1>7 DEF Record
  <2>2. /\ wallet_total' \in [Epochs -> [Wallets -> Nat]]
        /\ epoch_total' \in [Epochs -> Nat] /\ CapsRespected'
    BY <1>1, <1>2, <1>7, RecordKeepsBook
  <2>3. /\ request' \in [Requests -> RequestType] /\ applied' \in [QuoteIds -> Nat]
        /\ CacheAgrees' /\ InflightHeld' /\ AskedInTime' /\ TradesExist'
        /\ HeldIsInflight' /\ BookAgrees' /\ ExecutedIsSpent'
    BY <1>1, <1>4, <2>1, OutcomeKeeps
  <2>4. QuotesTypeOK'
    BY <1>1, <1>4, <2>2, <2>3 DEF QuotesTypeOK, RequestType, AskType, cacheVars
  <2>5. QED BY <2>2, <2>3, <2>4 DEF DeskInv, QuotesInv
<1>8. CASE /\ Within(used, price, WalletLimit) /\ Within(epoch_total[e], price, EpochLimit)
           /\ Record(r, e, w, used + price, epoch_total[e] + price)
  <2>1. /\ WalletLimit > 0 => used + price <= WalletLimit + EPSILON
        /\ EpochLimit > 0 => epoch_total[e] + price <= EpochLimit + EPSILON
    BY <1>2, <1>3, <1>8, WithinBound
  <2>2. used + price \in Nat /\ epoch_total[e] + price \in Nat
    BY <1>2, <1>3
  <2>3. QED BY <1>7, <1>8, <2>1, <2>2
<1>9. CASE Record(r, e, w, Clamped(used - price), Clamped(epoch_total[e] - price))
  <2>1. /\ WalletLimit > 0 => used <= WalletLimit + EPSILON
        /\ EpochLimit > 0 => epoch_total[e] <= EpochLimit + EPSILON
    BY <1>1, <1>2 DEF CapsRespected, used
  <2>2. /\ Clamped(used - price) \in Nat /\ Clamped(used - price) <= used
        /\ Clamped(epoch_total[e] - price) \in Nat
        /\ Clamped(epoch_total[e] - price) <= epoch_total[e]
    BY <1>2, <1>3 DEF Clamped
  <2>3. /\ WalletLimit > 0 => Clamped(used - price) <= WalletLimit + EPSILON
        /\ EpochLimit > 0 => Clamped(epoch_total[e] - price) <= EpochLimit + EPSILON
    BY <1>3, <2>1, <2>2 DEF EPSILON
  <2>4. QED BY <1>7, <1>9, <2>2, <2>3
<1>10. QED BY <1>5, <1>6, <1>8, <1>9

\* The quote leaves the in-flight set by the hand of the one request that held it, and the
\* cache with it if the book took it; a request that is dropped leaves it there.
LEMMA FinishKeeps ==
    ASSUME DeskInv, NEW r \in Requests,
           FinishApplied(r) \/ FinishRefused(r) \/ DropRequest(r)
    PROVE  DeskInv'
<1> DEFINE id == request[r].id
           none == {}
<1>1. QuotesTypeOK /\ CacheAgrees
  BY DEF DeskInv, QuotesInv
<1>2. /\ Len(quotes) \in Nat /\ by_id \subseteq 1..Len(quotes) /\ DOMAIN by_key \subseteq Keys
      /\ inflight \subseteq by_id
  BY <1>1 DEF QuotesTypeOK, DeskInv, QuotesInv, InflightHeld
<1>3. Release(r) /\ UNCHANGED <<clock, quotes, bookVars>>
  BY DEF FinishApplied, FinishRefused, DropRequest
<1>4. request' \in [Requests -> RequestType]
  BY <1>1, <1>3, RequestUpdate DEF Release, RequestType
<1>5. Holding(r) => id \in QuoteIds
  BY <1>1, RequestShape DEF Holding, Trading
<1>6. \A s \in Requests : s # r /\ Holding(s) /\ Holding(r) => request[s].id # id
  BY DEF DeskInv, QuotesInv, InflightHeld
<1>7. \E gone \in SUBSET QuoteIds :
        /\ inflight' = inflight \ gone
        /\ consumed' \subseteq QuoteIds /\ abandoned' \subseteq QuoteIds
        /\ Holding(r) => id \in gone \cup abandoned'
        /\ abandoned \subseteq abandoned'
        /\ gone # {} => gone = {id} /\ Holding(r)
        /\ \/ by_id' = by_id \ gone
           \/ by_id' = by_id /\ (gone # {} => applied[id] = 0)
        /\ by_id' \subseteq by_id /\ DOMAIN by_key' \subseteq Keys
        /\ AgreeOn(by_id', by_key', quotes)
  <2>1. consumed \subseteq QuoteIds /\ abandoned \subseteq QuoteIds
    BY <1>1 DEF QuotesTypeOK
  <2>2. AgreeOn(by_id, by_key, quotes)
    BY <1>1 DEF CacheAgrees, AgreeOn
  <2>3. CASE FinishApplied(r)
    <3>1. /\ Holding(r) /\ inflight' = inflight \ {id} /\ consumed' = consumed \cup {id}
          /\ by_id' = Dropped({id}).by_id /\ by_key' = Dropped({id}).by_key
          /\ abandoned' = abandoned
      BY <2>3 DEF FinishApplied, Holding
    <3>2. /\ by_id' = by_id \ {id} /\ DOMAIN by_key' \subseteq DOMAIN by_key
          /\ AgreeOn(by_id', by_key', quotes)
      BY <1>1, <3>1, DroppedAgree
    <3>3. {id} \in SUBSET QuoteIds
      BY <1>5, <3>1
    <3> HIDE DEF id
    <3> WITNESS {id} \in SUBSET QuoteIds
    <3>4. QED BY <1>2, <1>5, <2>1, <3>1, <3>2
  <2>4. CASE FinishRefused(r)
    <3>1. /\ Holding(r) /\ inflight' = inflight \ {id}
          /\ UNCHANGED <<consumed, by_id, by_key, abandoned>>
          /\ applied[id] = 0
      BY <2>4 DEF FinishRefused, Holding, DeskInv, BookAgrees
    <3>2. {id} \in SUBSET QuoteIds
      BY <1>5, <3>1
    <3> HIDE DEF id
    <3> WITNESS {id} \in SUBSET QuoteIds
    <3>3. QED BY <1>2, <2>1, <2>2, <3>1
  <2>5. CASE DropRequest(r)
    <3>1. /\ abandoned' = IF Holding(r) THEN abandoned \cup {id} ELSE abandoned
          /\ UNCHANGED <<inflight, consumed, by_id, by_key>>
      BY <2>5 DEF DropRequest, cacheVars
    <3> HIDE DEF id
    <3> WITNESS {} \in SUBSET QuoteIds
    <3>2. QED BY <1>2, <1>5, <2>1, <2>2, <3>1
  <2>6. QED BY <2>3, <2>4, <2>5
<1>8. PICK gone \in SUBSET QuoteIds :
        /\ inflight' = inflight \ gone
        /\ consumed' \subseteq QuoteIds /\ abandoned' \subseteq QuoteIds
        /\ Holding(r) => id \in gone \cup abandoned'
        /\ abandoned \subseteq abandoned'
        /\ gone # {} => gone = {id} /\ Holding(r)
        /\ \/ by_id' = by_id \ gone
           \/ by_id' = by_id /\ (gone # {} => applied[id] = 0)
        /\ by_id' \subseteq by_id /\ DOMAIN by_key' \subseteq Keys
        /\ AgreeOn(by_id', by_key', quotes)
  BY <1>7
<1> HIDE DEF id
<1>9. QuotesTypeOK'
  BY <1>1, <1>2, <1>3, <1>4, <1>8 DEF QuotesTypeOK, RequestType, AskType, bookVars
<1>10. CacheAgrees' /\ CapsRespected'
  BY <1>3, <1>8 DEF DeskInv, QuotesInv, CacheAgrees, CapsRespected, AgreeOn, bookVars
<1>11. /\ \A i \in none : i > Len(quotes)
       /\ by_id' \subseteq by_id \cup none
       /\ applied' = applied
       /\ Len(quotes') \in Nat /\ Len(quotes') >= Len(quotes)
       /\ \A i \in 1..Len(quotes) : quotes'[i] = quotes[i]
  BY <1>2, <1>3, <1>8 DEF bookVars
<1>12. /\ inflight' \subseteq by_id'
       /\ \A i \in gone \cap QuoteIds : i \notin by_id' \/ applied[i] = 0
       /\ \A s \in Requests : s # r /\ Holding(s) /\ request[s].id \in gone
             => request[s].id \notin by_id'
  <2>1. inflight' \subseteq by_id'
    BY <1>2, <1>8
  <2>2. \A i \in gone : i \notin by_id' \/ applied[i] = 0
    BY <1>8
  <2>3. \A s \in Requests : s # r /\ Holding(s) => request[s].id \notin gone
    BY <1>6, <1>8 DEF id
  <2>4. QED BY <2>1, <2>2, <2>3
<1>13. Holding(r) => request[r].id \in gone \cup abandoned'
  BY <1>8 DEF id
<1> HIDE DEF none
<1>14. InflightHeld' /\ AskedInTime' /\ TradesExist' /\ HeldIsInflight' /\ BookAgrees'
        /\ ExecutedIsSpent'
  BY <1>3, <1>8, <1>11, <1>12, <1>13, ReleaseKeeps
<1>15. QED BY <1>9, <1>10, <1>14 DEF DeskInv, QuotesInv

\* The clock alone moves nothing else.
LEMMA TickKeeps ==
    ASSUME DeskInv, Tick \/ UNCHANGED quoteVars
    PROVE  DeskInv'
<1>1. /\ quotes' = quotes /\ by_id' = by_id /\ by_key' = by_key /\ inflight' = inflight
      /\ consumed' = consumed /\ epoch_total' = epoch_total /\ wallet_total' = wallet_total
      /\ applied' = applied /\ request' = request /\ abandoned' = abandoned
  BY DEF Tick, quoteVars, cacheVars, bookVars
<1>2. clock' \in 0..MaxTime
  BY QuotesAssumption
  DEF Tick, quoteVars, DeskInv, QuotesInv, QuotesTypeOK, QuotesAssumption
<1>3. QuotesTypeOK'
  BY <1>1, <1>2 DEF DeskInv, QuotesInv, QuotesTypeOK
<1>4. CacheAgrees' /\ InflightHeld' /\ AskedInTime' /\ CapsRespected'
  BY <1>1
  DEF DeskInv, QuotesInv, CacheAgrees, InflightHeld, AskedInTime, CapsRespected, Holding
<1>5. TradesExist' /\ HeldIsInflight' /\ BookAgrees' /\ ExecutedIsSpent'
  BY <1>1
  DEF DeskInv, TradesExist, HeldIsInflight, BookAgrees, ExecutedIsSpent, Holding, Trading
<1>6. QED BY <1>3, <1>4, <1>5 DEF DeskInv, QuotesInv

\* The desk starts with nothing quoted, nothing in flight and nothing advanced.
LEMMA DeskStarts == QuotesInit => DeskInv
<1> SUFFICES ASSUME QuotesInit PROVE DeskInv
  OBVIOUS
<1>1. /\ quotes = <<>> /\ Len(quotes) = 0 /\ quotes \in Seq(QuoteType)
      /\ by_id = {} /\ DOMAIN by_key = {} /\ inflight = {} /\ consumed = {} /\ abandoned = {}
  BY DEF QuotesInit
<1>2. \A r \in Requests : request[r] = Idle /\ ~Holding(r) /\ ~Trading(r)
  BY DEF QuotesInit, Holding, Trading, Idle
<1>3. applied \in [QuoteIds -> Nat] /\ \A id \in QuoteIds : applied[id] = 0
  BY DEF QuotesInit
<1>4. QuotesTypeOK
  <2>1. request \in [Requests -> {Idle}]
    BY DEF QuotesInit
  <2>2. clock \in 0..MaxTime /\ Len(quotes) <= MaxQuotes
    BY <1>1, QuotesAssumption DEF QuotesInit, QuotesAssumption
  <2>3. epoch_total \in [Epochs -> Nat] /\ wallet_total \in [Epochs -> [Wallets -> Nat]]
    BY DEF QuotesInit
  <2>4. QED BY <1>1, <1>3, <2>1, <2>2, <2>3 DEF QuotesTypeOK
<1>5. CacheAgrees /\ InflightHeld /\ HeldIsInflight /\ TradesExist
  BY <1>1, <1>2 DEF CacheAgrees, InflightHeld, HeldIsInflight, TradesExist
<1>6. AskedInTime /\ BookAgrees
  BY <1>2 DEF AskedInTime, BookAgrees, Idle
<1>7. ExecutedIsSpent
  BY <1>3 DEF ExecutedIsSpent
<1>8. CapsRespected
  BY QuotesAssumption DEF QuotesInit, CapsRespected, QuotesAssumption, EPSILON
<1>9. QED BY <1>4, <1>5, <1>6, <1>7, <1>8 DEF DeskInv, QuotesInv

\* Every step keeps the desk's invariant.
LEMMA DeskStep == DeskInv /\ [QuotesNext]_quoteVars => DeskInv'
<1> SUFFICES ASSUME DeskInv, [QuotesNext]_quoteVars PROVE DeskInv'
  OBVIOUS
<1>1. CASE \E r \in Requests, k \in Keys : AskQuote(r, k)
  BY <1>1, AskKeeps
<1>2. CASE \E r \in Requests, id \in 1..Len(quotes), w \in Wallets,
             d \in {"advance", "buyback"} : AskTrade(r, id, w, d)
  BY <1>2, AskKeeps
<1>3. ASSUME NEW r \in Requests, RequestStep(r) \/ DropRequest(r) PROVE DeskInv'
  BY <1>3, ServeKeeps, CheckKeeps, ApplyKeeps, FinishKeeps DEF RequestStep
<1>4. CASE Tick \/ UNCHANGED quoteVars
  BY <1>4, TickKeeps
<1>5. QED BY <1>1, <1>2, <1>3, <1>4 DEF QuotesNext

\* Every wait of every request can be followed by any step of another, or be its last:
\* the cache's two maps, its in-flight set and the book's caps agree all the same.
THEOREM TheDeskIsSound == QuotesSpec => []QuotesInv
<1>1. QuotesSpec => []DeskInv
  BY DeskStarts, DeskStep, PTL DEF QuotesSpec
<1>2. DeskInv => QuotesInv
  BY DEF DeskInv
<1>3. QED BY <1>1, <1>2, PTL
-----------------------------------------------------------------------------
(* What the desk promises of a quote (QuoteLifecycle).                     *)

Offered(id) == \/ id \in by_id
               \/ \E r \in Requests : request[r].phase = "apply" /\ request[r].id = id

\* The status of a quote.
LEMMA StatusOf ==
    ASSUME NEW id \in QuoteIds
    PROVE  /\ Status[id] = IF applied[id] > 0 THEN "executed"
                           ELSE IF id > Len(quotes) THEN "new"
                           ELSE IF Offered(id) THEN "offered" ELSE "lapsed"
           /\ Status'[id] = IF applied'[id] > 0 THEN "executed"
                            ELSE IF id > Len(quotes') THEN "new"
                            ELSE IF Offered(id)' THEN "offered" ELSE "lapsed"
BY DEF Status, Offered

\* A step in which the book takes nothing, and no quote but a new one is offered that was
\* not offered before, is a look at the cache, or nothing.
LEMMA StatusRefresh ==
    ASSUME applied' = applied, Len(quotes) \in Nat, Len(quotes') \in Nat,
           Len(quotes') >= Len(quotes),
           \A id \in QuoteIds : Offered(id)' => Offered(id) \/ id > Len(quotes),
           \A id \in QuoteIds : id > Len(quotes) /\ ~(id > Len(quotes')) => Offered(id)'
    PROVE  Lifecycle!LifecycleNext
<1> DEFINE lapsed == {id \in QuoteIds : Status[id] = "offered" /\ Status'[id] = "lapsed"}
           fresh  == {id \in QuoteIds : Status[id] = "new" /\ Status'[id] = "offered"}
<1>1. \A id \in QuoteIds : \/ Status'[id] = Status[id]
                           \/ Status[id] = "offered" /\ Status'[id] = "lapsed"
                           \/ Status[id] = "new" /\ Status'[id] = "offered"
  <2> SUFFICES ASSUME NEW id \in QuoteIds
               PROVE  \/ Status'[id] = Status[id]
                      \/ Status[id] = "offered" /\ Status'[id] = "lapsed"
                      \/ Status[id] = "new" /\ Status'[id] = "offered"
    OBVIOUS
  <2>1. id > Len(quotes') => id > Len(quotes)
    BY DEF QuoteIds
  <2>2. QED BY <2>1, StatusOf
<1>2. Status' = [id \in QuoteIds |-> CASE id \in lapsed -> "lapsed"
                                      [] id \in fresh  -> "offered"
                                      [] OTHER         -> Status[id]]
  <2>1. Status' = [id \in QuoteIds |-> Status'[id]]
    BY DEF Status, QuoteIds
  <2>2. \A id \in QuoteIds : Status'[id] = CASE id \in lapsed -> "lapsed"
                                             [] id \in fresh  -> "offered"
                                             [] OTHER         -> Status[id]
    BY <1>1
  <2>3. QED BY <2>1, <2>2
<1>3. lapsed \subseteq Lifecycle!Having("offered") /\ fresh \subseteq Lifecycle!Having("new")
  BY DEF Lifecycle!Having
<1>4. Lifecycle!Refresh(lapsed, fresh)
  BY <1>2, <1>3 DEF Lifecycle!Refresh
<1>5. lapsed \in SUBSET QuoteIds /\ fresh \in SUBSET QuoteIds
  OBVIOUS
<1> HIDE DEF lapsed, fresh
<1>6. QED BY <1>4, <1>5 DEF Lifecycle!LifecycleNext

\* A step offers no quote again if what it caches was cached or is new, and what a
\* request comes to hold was cached.
LEMMA NothingOfferedAgain ==
    ASSUME applied' = applied, Len(quotes) \in Nat, Len(quotes') \in Nat,
           Len(quotes') >= Len(quotes),
           \A id \in by_id' : id \in by_id \/ id > Len(quotes),
           \A id \in QuoteIds : id > Len(quotes) /\ ~(id > Len(quotes')) => id \in by_id',
           \A r \in Requests : request'[r].phase = "apply" =>
              request'[r] = request[r] \/ request'[r].id \in by_id
    PROVE  Lifecycle!LifecycleNext
<1>1. \A id \in QuoteIds : Offered(id)' => Offered(id) \/ id > Len(quotes)
  BY DEF Offered
<1>2. \A id \in QuoteIds : id > Len(quotes) /\ ~(id > Len(quotes')) => Offered(id)'
  BY DEF Offered
<1>3. QED BY <1>1, <1>2, StatusRefresh

\* A request that is given another value leaves the others' trades as they are.
LEMMA OthersUnmoved ==
    ASSUME DeskInv, NEW r \in Requests, NEW q \in RequestType,
           request' = [request EXCEPT ![r] = q],
           q.phase = "apply" => q.id \in by_id
    PROVE  \A s \in Requests : request'[s].phase = "apply" =>
              request'[s] = request[s] \/ request'[s].id \in by_id
<1>1. QuotesTypeOK
  BY DEF DeskInv, QuotesInv
<1>2. QED BY <1>1, RequestUpdate

\* A look at the cache, for a quote or for a trade, is the abstract one.
LEMMA LooksRefresh ==
    ASSUME DeskInv, NEW r \in Requests, ServeQuote(r) \/ CheckQuote(r)
    PROVE  Lifecycle!LifecycleNext
<1> DEFINE gone == Expired(request[r].now)
           id == request[r].id
<1>1. QuotesTypeOK /\ CacheAgrees /\ Len(quotes) \in Nat
  BY DEF DeskInv, QuotesInv, QuotesTypeOK
<1>2. Dropped(gone).by_id = by_id \ gone
  BY <1>1, DroppedAgree
<1>3. Idle \in RequestType /\ Idle.phase = "idle"
  BY DEF RequestType, Idle
<1>4. CASE ServeQuote(r)
  <2>1. /\ request' = [request EXCEPT ![r] = Idle] /\ applied' = applied
        /\ \/ by_id' = Dropped(gone).by_id /\ quotes' = quotes
           \/ /\ \E q : quotes' = Append(quotes, q)
              /\ by_id' = Dropped(gone).by_id \cup {Len(quotes) + 1}
    BY <1>4 DEF ServeQuote, Release, bookVars
  <2>2. \A s \in Requests : request'[s].phase = "apply" =>
           request'[s] = request[s] \/ request'[s].id \in by_id
    BY <1>3, <2>1, OthersUnmoved
  <2> HIDE DEF gone
  <2>3. CASE by_id' = Dropped(gone).by_id /\ quotes' = quotes
    BY <1>1, <1>2, <2>1, <2>2, <2>3, NothingOfferedAgain
  <2>4. CASE /\ \E q : quotes' = Append(quotes, q)
             /\ by_id' = Dropped(gone).by_id \cup {Len(quotes) + 1}
    <3>1. PICK q : quotes' = Append(quotes, q)
      BY <2>4
    <3>2. Len(quotes') = Len(quotes) + 1
      BY <1>1, <3>1 DEF QuotesTypeOK
    <3>3. \A i \in by_id' : i \in by_id \/ i > Len(quotes)
      BY <1>1, <1>2, <2>4
    <3>4. \A i \in QuoteIds : i > Len(quotes) /\ ~(i > Len(quotes')) => i \in by_id'
      BY <1>1, <2>4, <3>2 DEF QuoteIds
    <3>5. QED BY <1>1, <2>1, <2>2, <3>2, <3>3, <3>4, NothingOfferedAgain
  <2>5. QED BY <2>1, <2>3, <2>4
<1>5. CASE CheckQuote(r)
  <2>1. /\ request[r].phase = "check" /\ applied' = applied /\ quotes' = quotes
        /\ by_id' = Dropped(gone).by_id
        /\ \/ request' = [request EXCEPT ![r] = Idle]
           \/ id \in Dropped(gone).by_id /\ request' = [request EXCEPT ![r].phase = "apply"]
    BY <1>5 DEF CheckQuote, Release, bookVars
  <2> DEFINE q == [request[r] EXCEPT !.phase = "apply"]
  <2>2. q \in RequestType /\ q.id = id
    BY <1>1, <2>1, RequestShape DEF RequestType, TradeType
  <2>3. \A s \in Requests : request'[s].phase = "apply" =>
           request'[s] = request[s] \/ request'[s].id \in by_id
    <3>1. CASE request' = [request EXCEPT ![r] = Idle]
      BY <1>3, <3>1, OthersUnmoved
    <3>2. CASE /\ id \in Dropped(gone).by_id
               /\ request' = [request EXCEPT ![r].phase = "apply"]
      <4>1. request' = [request EXCEPT ![r] = q]
        BY <3>2
      <4>2. q.id \in by_id
        BY <1>2, <2>2, <3>2
      <4> HIDE DEF q
      <4>3. QED BY <2>2, <4>1, <4>2, OthersUnmoved
    <3>3. QED BY <2>1, <3>1, <3>2
  <2>4. QED BY <1>1, <1>2, <2>1, <2>3, NothingOfferedAgain
<1>6. QED BY <1>4, <1>5

\* A request that starts, that ends, or that is refused offers nothing.
LEMMA RestRefreshes ==
    ASSUME DeskInv, NEW r \in Requests,
           \/ FinishApplied(r) \/ FinishRefused(r) \/ DropRequest(r)
           \/ Outcome(r, "refused") /\ UNCHANGED <<quotes, cacheVars, bookVars>>
    PROVE  Lifecycle!LifecycleNext
<1>1. QuotesTypeOK /\ CacheAgrees /\ Len(quotes) \in Nat
  BY DEF DeskInv, QuotesInv, QuotesTypeOK
<1>2. /\ applied' = applied /\ quotes' = quotes
      /\ by_id' = Dropped({request[r].id}).by_id \/ by_id' = by_id
      /\ Release(r) \/ Outcome(r, "refused")
  BY DEF FinishApplied, FinishRefused, DropRequest, cacheVars, bookVars
<1>3. request \in [Requests -> RequestType]
  BY <1>1 DEF QuotesTypeOK, RequestType, AskType
<1>4. /\ request'[r].phase # "apply"
      /\ \A s \in Requests : s # r => request'[s] = request[s]
  BY <1>2, <1>3 DEF Release, Outcome, Idle
<1>5. \A s \in Requests : request'[s].phase = "apply" =>
         request'[s] = request[s] \/ request'[s].id \in by_id
  BY <1>4
<1>6. \A id \in by_id' : id \in by_id
  BY <1>1, <1>2, DroppedAgree
<1>7. QED BY <1>1, <1>2, <1>5, <1>6, NothingOfferedAgain

\* What is asked, and the clock, do not show in the status of a quote.
LEMMA AsksStutter ==
    ASSUME DeskInv, NEW r \in Requests,
           \/ \E k \in Keys : AskQuote(r, k)
           \/ \E id \in 1..Len(quotes), w \in Wallets, d \in {"advance", "buyback"} :
                 AskTrade(r, id, w, d)
    PROVE  Lifecycle!LifecycleNext
<1>1. QuotesTypeOK /\ Len(quotes) \in Nat
  BY DEF DeskInv, QuotesInv, QuotesTypeOK
<1>2. /\ \E q : request' = [request EXCEPT ![r] = q] /\ q.phase # "apply"
      /\ applied' = applied /\ quotes' = quotes /\ by_id' = by_id
  BY <1>1, AskStarts DEF cacheVars, bookVars
<1>3. request \in [Requests -> RequestType]
  BY <1>1 DEF QuotesTypeOK, RequestType, AskType
<1>4. \A s \in Requests : request'[s].phase = "apply" => request'[s] = request[s]
  BY <1>2, <1>3
<1>5. QED BY <1>1, <1>2, <1>4, NothingOfferedAgain

\* When the book takes a quote, it was offered, and it is executed, once.
LEMMA RecordExecutes ==
    ASSUME DeskInv, NEW r \in Requests, request[r].phase = "apply",
           Outcome(r, "applied"), UNCHANGED <<quotes, cacheVars>>,
           applied' = [applied EXCEPT ![request[r].id] = @ + 1]
    PROVE  Lifecycle!LifecycleNext
<1> DEFINE id == request[r].id
<1>1. /\ QuotesTypeOK /\ applied \in [QuoteIds -> Nat] /\ id \in QuoteIds
      /\ id \in 1..Len(quotes) /\ applied[id] = 0
  <2>1. QuotesTypeOK /\ applied \in [QuoteIds -> Nat]
    BY DEF DeskInv, QuotesInv, QuotesTypeOK
  <2>2. Trading(r) /\ id \in 1..Len(quotes) /\ applied[id] = 0
    BY DEF DeskInv, TradesExist, BookAgrees, Trading
  <2>3. QED BY <2>1, <2>2, RequestShape
<1>2. Offered(id) /\ ~(id > Len(quotes))
  BY <1>1 DEF Offered
<1>3. Status[id] = "offered"
  BY <1>1, <1>2, StatusOf
<1>4. applied'[id] = 1 /\ \A i \in QuoteIds : i # id => applied'[i] = applied[i]
  BY <1>1
<1>5. request \in [Requests -> RequestType]
  BY <1>1 DEF QuotesTypeOK, RequestType, AskType
<1>6. /\ request'[r].phase = "applied"
      /\ \A s \in Requests : s # r => request'[s] = request[s]
  BY <1>5 DEF Outcome
<1>7. \A i \in QuoteIds : i # id => (Offered(i)' <=> Offered(i))
  BY <1>6 DEF Offered, cacheVars
<1> HIDE DEF id
<1>8. \A i \in QuoteIds : Status'[i] = IF i = id THEN "executed" ELSE Status[i]
  BY <1>1, <1>4, <1>7, StatusOf
<1>9. Status' = [Status EXCEPT ![id] = "executed"]
  <2>1. Status \in [QuoteIds -> {Status[i] : i \in QuoteIds}]
    BY DEF Status
  <2>2. Status' = [i \in QuoteIds |-> Status'[i]]
    BY DEF Status, QuoteIds
  <2>3. Status' = [i \in QuoteIds |-> IF i = id THEN "executed" ELSE Status[i]]
    BY <1>8, <2>2
  <2>4. QED BY <2>1, <2>3
<1>10. Lifecycle!Execute(id)
  BY <1>3, <1>9 DEF Lifecycle!Execute, id
<1>11. QED BY <1>1, <1>10 DEF Lifecycle!LifecycleNext

\* A quote is offered once, and executed at most once and only while it is offered:
\* "consumed quotes cannot be replayed" (advance.md), whatever is dropped, expires or
\* runs at once.
THEOREM TheDeskKeepsItsPromise == QuotesSpec => KeepsLifecycle
<1>1. QuotesInit => Lifecycle!LifecycleInit
  <2> SUFFICES ASSUME QuotesInit PROVE Lifecycle!LifecycleInit
    OBVIOUS
  <2>1. Len(quotes) = 0 /\ applied = [id \in QuoteIds |-> 0]
    BY DEF QuotesInit
  <2>2. \A id \in QuoteIds : Status[id] = "new"
    BY <2>1, StatusOf DEF QuoteIds
  <2>3. Status = [id \in QuoteIds |-> Status[id]]
    BY DEF Status
  <2>4. Status = [id \in QuoteIds |-> "new"]
    BY <2>2, <2>3
  <2>5. QED BY <2>1, <2>4 DEF Lifecycle!LifecycleInit
<1>2. DeskInv /\ [QuotesNext]_quoteVars => [Lifecycle!LifecycleNext]_(Lifecycle!lifecycleVars)
  <2> SUFFICES ASSUME DeskInv, [QuotesNext]_quoteVars
               PROVE  [Lifecycle!LifecycleNext]_(Lifecycle!lifecycleVars)
    OBVIOUS
  <2>1. CASE \E r \in Requests, k \in Keys : AskQuote(r, k)
    BY <2>1, AsksStutter
  <2>2. CASE \E r \in Requests, id \in 1..Len(quotes), w \in Wallets,
               d \in {"advance", "buyback"} : AskTrade(r, id, w, d)
    BY <2>2, AsksStutter
  <2>3. ASSUME NEW r \in Requests, RequestStep(r) \/ DropRequest(r)
        PROVE  Lifecycle!LifecycleNext
    <3>1. CASE ServeQuote(r) \/ CheckQuote(r)
      BY <3>1, LooksRefresh
    <3>2. CASE FinishApplied(r) \/ FinishRefused(r) \/ DropRequest(r)
      BY <3>2, RestRefreshes
    <3>3. CASE ApplyTrade(r)
      <4>1. /\ request[r].phase = "apply" /\ UNCHANGED <<quotes, cacheVars>>
            /\ \/ Outcome(r, "refused") /\ UNCHANGED bookVars
               \/ /\ Outcome(r, "applied")
                  /\ applied' = [applied EXCEPT ![request[r].id] = @ + 1]
        BY <3>3 DEF ApplyTrade, Record
      <4>2. QED BY <4>1, RestRefreshes, RecordExecutes
    <3>4. QED BY <2>3, <3>1, <3>2, <3>3 DEF RequestStep
  <2>4. CASE Tick \/ UNCHANGED quoteVars
    BY <2>4
    DEF Tick, quoteVars, cacheVars, bookVars, Lifecycle!lifecycleVars, Status
  <2>5. QED BY <2>1, <2>2, <2>3, <2>4 DEF QuotesNext
<1>3. QuotesSpec => []DeskInv
  BY DeskStarts, DeskStep, PTL DEF QuotesSpec
<1>4. QED BY <1>1, <1>2, <1>3, PTL DEF QuotesSpec, KeepsLifecycle, Lifecycle!LifecycleSpec
=============================================================================
