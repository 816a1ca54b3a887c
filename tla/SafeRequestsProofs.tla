------------------------- MODULE SafeRequestsProofs -------------------------
(* Theorems about SafeRequests and about SafeWorker, the service it calls:  *)
(* of the requests, the type invariant, the bound on automatic retries, the *)
(* single use of a nonce, what a retry asks for and what stays ready; of the*)
(* service, that a key leads to one Safe and an answer names one that exists*)
EXTENDS SafeRequests, SafeWorker, TLAPS

RowsTyped == row \in [Rows -> RowType \cup {None}]

\* A job of the stalled-request worker tells how many attempts its request
\* had, which is more than the worker made; it holds one job for a request.
AutoInv ==
    /\ \A r \in Rows : Exists(r) => auto[r] < row[r].attempts
    /\ \A job \in stalled : auto[job.row] < job.attempts
    /\ \A job, other \in stalled : job.row = other.row => job = other
    /\ AutoRetriesBounded

\* Row values stay row values, and no row is null.
LEMMA RowIsNotNull == \A q \in RowType : q # None
<1> QED BY SafesAssumption

\* Every statement of the repository yields a request.
LEMMA StatementsTyped ==
    ASSUME NEW q \in RowType, NEW key \in Keys \cup {None}, NEW url \in BOOLEAN
    PROVE  /\ NewRow(key) \in RowType
           /\ Reset(q, key) \in RowType
           /\ Prepared(q) \in RowType
           /\ Submitted(q, url) \in RowType
           /\ Failed(q) \in RowType
           /\ Imported(q, url) \in RowType
           /\ PolledReady(q, url) \in RowType
<1>1. NewRow(key) \in RowType
  BY DEF NewRow, RowType, Statuses
<1>2. Reset(q, key) \in RowType
  <2> DEFINE kept == IF key = None THEN q.key ELSE key
  <2>1. kept \in Keys \cup {None} /\ q.attempts + 1 \in Nat \ {0}
    BY DEF RowType
  <2>2. Reset(q, key) = [q EXCEPT !.status = "pending", !.address = FALSE,
                                  !.url = FALSE, !.key = kept,
                                  !.attempts = q.attempts + 1,
                                  !.retry = "later", !.fresh = TRUE]
    BY DEF Reset
  <2> HIDE DEF kept
  <2>3. QED BY <2>1, <2>2 DEF RowType, Statuses
<1>3. Prepared(q) \in RowType
  <2> DEFINE next == q.attempts + 1
  <2>1. next \in Nat \ {0}
    BY DEF RowType
  <2>2. Prepared(q) = [q EXCEPT !.status = "pending", !.attempts = next,
                                !.retry = "later", !.fresh = TRUE]
    BY DEF Prepared
  <2> HIDE DEF next
  <2>3. QED BY <2>1, <2>2 DEF RowType, Statuses
<1>4. Submitted(q, url) \in RowType
  BY DEF Submitted, RowType, Statuses
<1>5. Failed(q) \in RowType
  BY DEF Failed, RowType, Statuses
<1>6. Imported(q, url) \in RowType
  <2> DEFINE one == 1
  <2>1. one \in Nat \ {0}
    OBVIOUS
  <2>2. Imported(q, url) = [q EXCEPT !.status = "ready", !.address = TRUE,
                                     !.url = url, !.attempts = one,
                                     !.retry = "null", !.fresh = TRUE]
    BY DEF Imported
  <2> HIDE DEF one
  <2>3. QED BY <2>1, <2>2 DEF RowType, Statuses
<1>7. PolledReady(q, url) \in RowType
  BY DEF PolledReady, RowType, Statuses
<1> QED BY <1>1, <1>2, <1>3, <1>4, <1>5, <1>6, <1>7

\* Writing a request keeps the table typed, and forgets no row.
LEMMA WriteKeeps ==
    ASSUME row \in [Rows -> RowType \cup {None}],
           NEW r \in Rows, NEW q \in RowType, Write(r, q)
    PROVE  /\ row' \in [Rows -> RowType \cup {None}]
           /\ row'[r] = q
           /\ \A s \in Rows \ {r} : row'[s] = row[s]
           /\ Exists(r)'
           /\ \A s \in Rows : Exists(s) => Exists(s)'
<1>1. q # None BY RowIsNotNull
<1> QED BY <1>1 DEF Write, Exists

\* What a handler in each phase holds.
LEMMA HandlerHolds ==
    ASSUME handler \in [Handlers -> HandlerType], NEW h \in Handlers
    PROVE  /\ handler[h].phase \in {"latest", "nonce", "insert", "upstream",
                                    "resubmit", "link"}
                 => handler[h].row \in Rows
           /\ handler[h].phase \in {"latest", "nonce", "insert"}
                 => /\ handler[h] \in [phase : {"latest", "nonce", "insert"},
                                       row : Rows, key : Keys \cup {None},
                                       nonce : 1..MaxNonces]
                    /\ handler[h].key \in Keys \cup {None}
                    /\ handler[h].nonce \in 1..MaxNonces
<1>1. handler[h] \in HandlerType OBVIOUS
<1> QED BY <1>1 DEF HandlerType, Idle

\* The handlers of a state know requests that are in the table.
HandlersOK ==
    /\ handler \in [Handlers -> HandlerType]
    /\ \A h \in Handlers : handler[h].phase \in {"upstream", "resubmit", "link"}
          => Exists(handler[h].row)

\* A step of one handler keeps that, if what it does next does.
LEMMA ProceedKeeps ==
    ASSUME HandlersOK, NEW h \in Handlers, NEW next \in HandlerType,
           Proceed(h, next), \A s \in Rows : Exists(s) => Exists(s)',
           next.phase \in {"upstream", "resubmit", "link"} => Exists(next.row)'
    PROVE  HandlersOK'
<1>1. handler' \in [Handlers -> HandlerType]
  BY DEF HandlersOK, Proceed
<1>2. ASSUME NEW g \in Handlers,
             handler'[g].phase \in {"upstream", "resubmit", "link"}
      PROVE  row'[handler'[g].row] # None
  <2>1. CASE g = h
    <3>1. handler'[g] = next
      BY <2>1 DEF Proceed, HandlersOK
    <3>2. Exists(next.row)'
      BY <1>2, <3>1
    <3>3. QED BY <3>1, <3>2 DEF Exists
  <2>2. CASE g # h
    <3>1. handler'[g] = handler[g]
      BY <2>2 DEF Proceed, HandlersOK
    <3>2. handler[g].row \in Rows /\ Exists(handler[g].row)
      BY <1>2, <3>1, HandlerHolds DEF HandlersOK
    <3>3. row'[handler[g].row] # None
      BY <3>2 DEF Exists
    <3>4. QED BY <3>1, <3>3 DEF Exists
  <2>3. QED BY <2>1, <2>2
<1>3. QED BY <1>1, <1>2 DEF HandlersOK, Exists

\* Others may write a request meanwhile.
LEMMA HandlersStay ==
    ASSUME HandlersOK, UNCHANGED handler,
           \A s \in Rows : Exists(s) => Exists(s)'
    PROVE  HandlersOK'
<1>1. ASSUME NEW g \in Handlers,
             handler[g].phase \in {"upstream", "resubmit", "link"}
      PROVE  row'[handler[g].row] # None
  <2>1. handler[g].row \in Rows /\ Exists(handler[g].row)
    BY <1>1, HandlerHolds DEF HandlersOK
  <2>2. QED BY <2>1 DEF Exists
<1>2. QED BY <1>1 DEF HandlersOK, Exists


\* What the workers hold, and the request created last, are in the table.
WorkersOK ==
    /\ latest \in Rows \cup {None}
    /\ polling \subseteq [row : Rows, saw : {"submitted"}, address : BOOLEAN]
    /\ stalled \subseteq
          [row : Rows, saw : {"pending", "submitted"}, attempts : Nat]
    /\ {retrying, failing} \subseteq Rows \cup {None}
    /\ \A job \in polling \cup stalled : Exists(job.row)
    /\ \A r \in {retrying, failing, latest} : r # None => Exists(r)

CountsOK ==
    /\ issued \in 0..MaxNonces /\ nonce \in 0..issued
    /\ acts \in 0..MaxActs /\ restarts \in 0..MaxRestarts
    /\ asked \in [Rows -> SUBSET (Rows \cup Keys)]
    /\ auto \in [Rows -> Nat]

\* The type invariant is its four parts.
LEMMA TypeOKParts ==
    /\ SafesTypeOK => RowsTyped /\ HandlersOK /\ WorkersOK /\ CountsOK
    /\ RowsTyped' /\ HandlersOK' /\ WorkersOK' /\ CountsOK' => SafesTypeOK'
BY DEF SafesTypeOK, RowsTyped, HandlersOK, WorkersOK, CountsOK, Exists

\* A worker that keeps its jobs keeps them right while requests are written.
LEMMA WorkersStay ==
    ASSUME WorkersOK, UNCHANGED <<workerVars, latest>>,
           \A s \in Rows : Exists(s) => Exists(s)'
    PROVE  WorkersOK'
<1>1. \A job \in polling \cup stalled : job.row \in Rows
  BY DEF WorkersOK
<1>2. \A job \in polling \cup stalled : Exists(job.row)'
  BY <1>1 DEF WorkersOK
<1>3. QED BY <1>2 DEF WorkersOK, workerVars

\* The key of a request, or its own id, is what the service is asked with.
LEMMA AskTyped ==
    ASSUME asked \in [Rows -> SUBSET (Rows \cup Keys)],
           NEW r \in Rows, NEW q \in RowType, Ask(r, q)
    PROVE  asked' \in [Rows -> SUBSET (Rows \cup Keys)]
<1>1. q.key \in Keys \cup {None}
  BY DEF RowType
<1>2. KeyOf(r, q) \in Rows \cup Keys
  BY <1>1 DEF KeyOf
<1>3. QED BY <1>2 DEF Ask

\* A handler may be idle.
LEMMA IdleTyped == Idle \in HandlerType /\ Idle.phase = "idle"
BY DEF Idle, HandlerType

\* The creation of a Safe keeps the types.
LEMMA CreateTyped ==
    ASSUME SafesTypeOK, NEW h \in Handlers, CreateStep(h)
    PROVE  SafesTypeOK'
<1> USE TypeOKParts DEF RowsTyped
<1>0. handler[h].phase = "insert" =>
        handler[h].row \in Rows /\ handler[h].key \in Keys \cup {None}
  BY HandlerHolds DEF HandlersOK
<1>1. CASE \E r \in Rows, key \in Keys \cup {None}, n \in 1..issued :
              BeginCreate(h, r, key, n)
  <2>1. PICK r \in Rows, key \in Keys \cup {None}, n \in 1..issued :
               BeginCreate(h, r, key, n)
    BY <1>1
  <2>2. n \in 1..MaxNonces
    BY SafesAssumption DEF CountsOK
  <2> DEFINE next == [phase |-> "latest", row |-> r, key |-> key, nonce |-> n]
  <2>3. next \in HandlerType /\ next.phase = "latest"
    BY <2>2 DEF HandlerType
  <2>4. UNCHANGED <<row, workerVars, latest>> /\ Proceed(h, next)
    BY <2>1 DEF BeginCreate
  <2> HIDE DEF next
  <2>5. HandlersOK'
    BY <2>3, <2>4, ProceedKeeps DEF Exists
  <2>6. WorkersOK'
    BY <2>4, WorkersStay DEF Exists
  <2>7. CountsOK'
    BY <2>1 DEF BeginCreate, CountsOK, countVars, historyVars
  <2>8. QED BY <2>4, <2>5, <2>6, <2>7
<1>2. CASE LookUpLatest(h) \/ ConsumeNonce(h)
  <2> DEFINE on(phase) == [handler[h] EXCEPT !.phase = phase]
  <2>1. handler[h] \in [phase : {"latest", "nonce", "insert"}, row : Rows,
                        key : Keys \cup {None}, nonce : 1..MaxNonces]
    BY <1>2, HandlerHolds DEF LookUpLatest, ConsumeNonce, HandlersOK
  <2>2. \A phase \in {"nonce", "insert"} :
           on(phase) \in HandlerType /\ on(phase).phase = phase
    BY <2>1 DEF HandlerType
  <2>3. PICK next \in HandlerType : Proceed(h, next)
                     /\ next.phase \in {"idle", "nonce", "insert"}
    BY <1>2, <2>2, IdleTyped DEF LookUpLatest, ConsumeNonce
  <2>4. UNCHANGED <<row, workerVars, latest>>
    BY <1>2 DEF LookUpLatest, ConsumeNonce
  <2>5. HandlersOK'
    BY <2>3, <2>4, ProceedKeeps DEF Exists
  <2>6. WorkersOK'
    BY <2>4, WorkersStay DEF Exists
  <2>7. CountsOK'
    BY <1>2 DEF LookUpLatest, ConsumeNonce, CountsOK, countVars, historyVars
  <2>8. QED BY <2>4, <2>5, <2>6, <2>7
<1>3. CASE CreatePending(h)
  <2>1. PICK r \in Rows, key \in Keys \cup {None} :
               r = handler[h].row /\ key = handler[h].key
    BY <1>0, <1>3 DEF CreatePending
  <2> DEFINE next == [phase |-> "upstream", row |-> r]
  <2>2. next \in HandlerType /\ next.phase = "upstream" /\ next.row = r
    BY <2>1 DEF HandlerType
  <2>3. CASE Exists(r) /\ row[r].status = "ready" /\ CallUpstream(h, r, row[r])
             /\ UNCHANGED <<row, latest, auto>>
    <3>1. row[r] \in RowType
      BY <2>1, <2>3 DEF Exists
    <3>2. Exists(r)' /\ \A s \in Rows : Exists(s) => Exists(s)'
      BY <2>3 DEF Exists
    <3>3. Proceed(h, next) /\ Ask(r, row[r])
      BY <2>3 DEF CallUpstream
    <3>4. HandlersOK'
      <4> HIDE DEF next
      <4>1. QED BY <2>2, <3>2, <3>3, ProceedKeeps
    <3>5. WorkersOK'
      BY <1>3, <2>3, <3>2, WorkersStay DEF CreatePending
    <3>6. asked' \in [Rows -> SUBSET (Rows \cup Keys)]
      BY <2>1, <3>1, <3>3, AskTyped DEF CountsOK
    <3>7. CountsOK'
      BY <1>3, <2>3, <3>6 DEF CreatePending, CountsOK, countVars
    <3>8. QED BY <2>3, <3>4, <3>5, <3>7
  <2>4. CASE Proceed(h, Idle) /\ UNCHANGED <<row, latest, historyVars>>
    <3>1. HandlersOK'
      BY <2>4, IdleTyped, ProceedKeeps DEF Exists
    <3>2. WorkersOK'
      BY <1>3, <2>4, WorkersStay DEF CreatePending, Exists
    <3>3. CountsOK'
      BY <1>3, <2>4 DEF CreatePending, CountsOK, countVars, historyVars
    <3>4. QED BY <2>4, <3>1, <3>2, <3>3
  <2>5. ASSUME NEW q \in RowType, Write(r, q), CallUpstream(h, r, q),
               latest' \in {latest, r},
               auto' = auto \/ auto' = [auto EXCEPT ![r] = 0]
        PROVE  SafesTypeOK'
    <3>1. /\ row' \in [Rows -> RowType \cup {None}]
          /\ Exists(r)' /\ \A s \in Rows : Exists(s) => Exists(s)'
      BY <2>1, <2>5, WriteKeeps
    <3>2. Proceed(h, next) /\ Ask(r, q)
      BY <2>5 DEF CallUpstream
    <3>3. HandlersOK'
      <4> HIDE DEF next
      <4>1. QED BY <2>2, <3>1, <3>2, ProceedKeeps
    <3>4. UNCHANGED workerVars
      BY <1>3 DEF CreatePending
    <3>5. \A job \in polling \cup stalled : job.row \in Rows /\ Exists(job.row)'
      BY <3>1 DEF WorkersOK
    <3>6. \A x \in {retrying, failing, latest'} : x # None => Exists(x)'
      BY <2>5, <3>1 DEF WorkersOK
    <3>7. WorkersOK'
      BY <2>1, <2>5, <3>4, <3>5, <3>6 DEF WorkersOK, workerVars
    <3>8. asked' \in [Rows -> SUBSET (Rows \cup Keys)]
      BY <2>1, <3>2, AskTyped DEF CountsOK
    <3>9. CountsOK'
      BY <1>3, <2>5, <3>8 DEF CreatePending, CountsOK, countVars
    <3>10. QED BY <3>1, <3>3, <3>7, <3>9
  <2>6. CASE /\ ~Exists(r) /\ Write(r, NewRow(key)) /\ latest' = r
             /\ auto' = [auto EXCEPT ![r] = 0] /\ CallUpstream(h, r, NewRow(key))
    <3>1. NewRow(key) \in RowType
      BY <2>1 DEF NewRow, RowType, Statuses
    <3>2. QED BY <2>5, <2>6, <3>1
  <2>7. CASE /\ Exists(r) /\ Write(r, Reset(row[r], key))
             /\ CallUpstream(h, r, Reset(row[r], key)) /\ UNCHANGED <<latest, auto>>
    <3>1. row[r] \in RowType
      BY <2>1, <2>7 DEF Exists
    <3>2. Reset(row[r], key) \in RowType
      BY <2>1, <3>1, StatementsTyped
    <3>3. QED BY <2>5, <2>7, <3>2
  <2>8. \/ /\ ~Exists(r) /\ Write(r, NewRow(key)) /\ latest' = r
           /\ auto' = [auto EXCEPT ![r] = 0] /\ CallUpstream(h, r, NewRow(key))
        \/ /\ Exists(r) /\ Write(r, Reset(row[r], key))
           /\ CallUpstream(h, r, Reset(row[r], key)) /\ UNCHANGED <<latest, auto>>
        \/ /\ Exists(r) /\ row[r].status = "ready" /\ CallUpstream(h, r, row[r])
           /\ UNCHANGED <<row, latest, auto>>
        \/ Proceed(h, Idle) /\ UNCHANGED <<row, latest, historyVars>>
    BY <1>3, <2>1, Zenon DEF CreatePending
  <2>9. QED BY <2>3, <2>4, <2>6, <2>7, <2>8
<1>4. CASE Answer(h)
  <2>1. PICK r \in Rows : r = handler[h].row /\ Exists(r)
    BY <1>4, HandlerHolds DEF Answer, HandlersOK
  <2>2. row[r] \in RowType
    BY <2>1 DEF Exists
  <2>3. PICK q \in RowType : Write(r, q)
    <3>1. Failed(row[r]) \in RowType
          /\ \A url \in BOOLEAN : Submitted(row[r], url) \in RowType
      BY <2>2, StatementsTyped
    <3>2. QED BY <1>4, <2>1, <3>1 DEF Answer
  <2>4. /\ row' \in [Rows -> RowType \cup {None}]
        /\ \A s \in Rows : Exists(s) => Exists(s)'
    BY <2>1, <2>3, WriteKeeps
  <2>5. HandlersOK'
    BY <1>4, <2>4, IdleTyped, ProceedKeeps DEF Answer
  <2>6. WorkersOK'
    BY <1>4, <2>4, WorkersStay DEF Answer
  <2>7. CountsOK'
    BY <1>4 DEF Answer, CountsOK, countVars, historyVars
  <2>8. QED BY <2>4, <2>5, <2>6, <2>7
<1>5. QED BY <1>1, <1>2, <1>3, <1>4 DEF CreateStep

\* A request that somebody else than a creating handler writes: the types
\* stay, and those of the workers if they keep their jobs.
LEMMA RequestWritten ==
    ASSUME SafesTypeOK, NEW r \in Rows, NEW q \in RowType, Write(r, q)
    PROVE  /\ RowsTyped'
           /\ Exists(r)'
           /\ \A s \in Rows : Exists(s) => Exists(s)'
           /\ UNCHANGED handler => HandlersOK'
           /\ UNCHANGED <<workerVars, latest>> => WorkersOK'
<1>1. RowsTyped' /\ Exists(r)' /\ \A s \in Rows : Exists(s) => Exists(s)'
  BY WriteKeeps, TypeOKParts DEF RowsTyped
<1>2. UNCHANGED handler => HandlersOK'
  BY <1>1, HandlersStay, TypeOKParts
<1>3. UNCHANGED <<workerVars, latest>> => WorkersOK'
  BY <1>1, WorkersStay, TypeOKParts
<1>4. QED BY <1>1, <1>2, <1>3

\* So do the routes of admins and importers.
LEMMA AdminTyped ==
    ASSUME SafesTypeOK, AdminStep
    PROVE  SafesTypeOK'
<1> USE TypeOKParts DEF RowsTyped
<1>0. MaxActs \in Nat
  BY SafesAssumption
<1>1. CASE \E h \in Handlers, r \in Rows, force \in BOOLEAN :
              BeginResubmit(h, r, force)
  <2>1. PICK h \in Handlers, r \in Rows, force \in BOOLEAN :
               BeginResubmit(h, r, force)
    BY <1>1
  <2> DEFINE next == [phase |-> "resubmit", row |-> r, saw |-> row[r].status]
  <2>2. Exists(r) /\ row[r].status \in Statuses
    BY <2>1 DEF BeginResubmit, Exists, RowType
  <2>3. next \in HandlerType /\ next.phase = "resubmit" /\ next.row = r
    BY <2>2 DEF HandlerType
  <2>4. Proceed(h, next) /\ UNCHANGED <<row, workerVars, latest>>
    BY <2>1 DEF BeginResubmit
  <2>5. Exists(r)' /\ \A s \in Rows : Exists(s) => Exists(s)'
    BY <2>2, <2>4 DEF Exists
  <2> HIDE DEF next
  <2>6. HandlersOK'
    BY <2>3, <2>4, <2>5, ProceedKeeps
  <2>7. WorkersOK'
    BY <2>4, <2>5, WorkersStay
  <2>8. CountsOK'
    BY <1>0, <2>1 DEF BeginResubmit, Act, CountsOK, historyVars
  <2>9. QED BY <2>4, <2>6, <2>7, <2>8
<1>2. CASE \E h \in Handlers : PrepareResubmit(h)
  <2>1. PICK h \in Handlers : PrepareResubmit(h)
    BY <1>2
  <2>2. PICK r \in Rows : r = handler[h].row /\ Exists(r)
    BY <2>1, HandlerHolds DEF PrepareResubmit, HandlersOK
  <2>3. PICK q \in RowType : Write(r, q) /\ CallUpstream(h, r, q)
    <3>1. row[r] \in RowType
      BY <2>2 DEF Exists
    <3>2. Prepared(row[r]) \in RowType
      BY <3>1, StatementsTyped
    <3>3. QED BY <2>1, <2>2, <3>2 DEF PrepareResubmit
  <2> DEFINE next == [phase |-> "upstream", row |-> r]
  <2>4. next \in HandlerType /\ next.phase = "upstream" /\ next.row = r
    BY DEF HandlerType
  <2>5. Proceed(h, next) /\ Ask(r, q)
    BY <2>3 DEF CallUpstream
  <2> HIDE DEF next
  <2>6. UNCHANGED <<workerVars, latest>>
    BY <2>1 DEF PrepareResubmit
  <2>7. RowsTyped' /\ WorkersOK' /\ Exists(r)'
        /\ \A s \in Rows : Exists(s) => Exists(s)'
    BY <2>3, <2>6, RequestWritten
  <2>8. HandlersOK'
    BY <2>4, <2>5, <2>7, ProceedKeeps
  <2>9. asked' \in [Rows -> SUBSET (Rows \cup Keys)]
    BY <2>5, AskTyped DEF CountsOK
  <2>10. CountsOK'
    BY <2>1, <2>9 DEF PrepareResubmit, CountsOK, countVars
  <2>11. QED BY <2>7, <2>8, <2>10
<1>3. CASE \E h \in Handlers : Link(h)
  <2>1. PICK h \in Handlers : Link(h)
    BY <1>3
  <2>2. PICK r \in Rows : r = handler[h].row /\ Exists(r)
    BY <2>1, HandlerHolds DEF Link, HandlersOK
  <2>3. PICK q \in RowType : Write(r, q)
    <3>1. row[r] \in RowType
      BY <2>2 DEF Exists
    <3>2. [row[r] EXCEPT !.linked = TRUE] \in RowType
      BY <3>1 DEF RowType
    <3>3. QED BY <2>1, <2>2, <3>2 DEF Link
  <2>4. RowsTyped' /\ WorkersOK' /\ \A s \in Rows : Exists(s) => Exists(s)'
    BY <2>1, <2>3, RequestWritten DEF Link
  <2>5. HandlersOK'
    BY <2>1, <2>4, IdleTyped, ProceedKeeps DEF Link
  <2>6. CountsOK'
    BY <2>1 DEF Link, CountsOK, countVars, historyVars
  <2>7. QED BY <2>4, <2>5, <2>6
<1>4. CASE \E h \in Handlers, r \in Rows : BeginLink(h, r)
  <2>1. PICK h \in Handlers, r \in Rows : BeginLink(h, r)
    BY <1>4
  <2> DEFINE next == [phase |-> "link", row |-> r]
  <2>2. next \in HandlerType /\ next.phase = "link" /\ next.row = r
    BY DEF HandlerType
  <2>3. Proceed(h, next) /\ UNCHANGED <<row, workerVars, latest>>
    BY <2>1 DEF BeginLink
  <2>4. Exists(r)' /\ \A s \in Rows : Exists(s) => Exists(s)'
    BY <2>1, <2>3 DEF BeginLink, Exists
  <2> HIDE DEF next
  <2>5. HandlersOK'
    BY <2>2, <2>3, <2>4, ProceedKeeps
  <2>6. WorkersOK'
    BY <2>3, <2>4, WorkersStay
  <2>7. CountsOK'
    BY <1>0, <2>1 DEF BeginLink, Act, CountsOK, historyVars
  <2>8. QED BY <2>3, <2>5, <2>6, <2>7
<1>5. CASE \E r \in Rows, s \in Statuses, address \in BOOLEAN :
              Override(r, s, address)
  <2>1. PICK r \in Rows, s \in Statuses, address \in BOOLEAN :
               Override(r, s, address)
    BY <1>5
  <2>2. row[r] \in RowType
    BY <2>1 DEF Override, Exists
  <2>3. [row[r] EXCEPT !.status = s, !.address = address] \in RowType
    BY <2>2 DEF RowType
  <2>4. RowsTyped' /\ HandlersOK' /\ WorkersOK'
    BY <2>1, <2>3, RequestWritten DEF Override
  <2>5. CountsOK'
    BY <1>0, <2>1 DEF Override, Act, CountsOK, historyVars
  <2>6. QED BY <2>4, <2>5
<1>6. CASE \E r \in Rows, url \in BOOLEAN : Import(r, url)
  <2>1. PICK r \in Rows, url \in BOOLEAN : Import(r, url)
    BY <1>6
  <2>2. row[r] \in RowType
    BY <2>1 DEF Import, Exists
  <2>3. Imported(row[r], url) \in RowType
    BY <2>2, StatementsTyped
  <2>4. RowsTyped' /\ HandlersOK' /\ WorkersOK'
    BY <2>1, <2>3, RequestWritten DEF Import
  <2>5. CountsOK'
    BY <1>0, <2>1 DEF Import, Act, CountsOK
  <2>6. QED BY <2>4, <2>5
<1>7. QED BY <1>1, <1>2, <1>3, <1>4, <1>5, <1>6 DEF AdminStep

\* So does the status worker.
LEMMA StatusWorkerTyped ==
    ASSUME SafesTypeOK, StatusWorker
    PROVE  SafesTypeOK'
<1> USE TypeOKParts DEF RowsTyped
<1>1. CASE FetchDue
  <2>1. polling' \subseteq [row : Rows, saw : {"submitted"}, address : BOOLEAN]
        /\ \A job \in polling' : Exists(job.row)
    <3>1. \A r \in Rows : Due(r) =>
             Exists(r) /\ row[r].status = "submitted" /\ row[r].address \in BOOLEAN
      BY DEF Due, Exists, RowType
    <3>2. QED BY <1>1, <3>1 DEF FetchDue
  <2>2. UNCHANGED <<row, handler, latest, stalled, retrying, failing>>
    BY <1>1 DEF FetchDue
  <2>3. WorkersOK'
    BY <2>1, <2>2 DEF WorkersOK, Exists
  <2>4. HandlersOK'
    BY <2>2, HandlersStay DEF Exists
  <2>5. CountsOK'
    BY <1>1 DEF FetchDue, CountsOK, countVars, historyVars
  <2>6. QED BY <2>2, <2>3, <2>4, <2>5
<1>2. CASE \E job \in polling : PollStatus(job)
  <2>1. PICK job \in polling : PollStatus(job)
    BY <1>2
  <2>2. PICK r \in Rows : r = job.row /\ Exists(r)
    BY <2>1 DEF WorkersOK
  <2>3. row[r] \in RowType /\ job.address \in BOOLEAN
    BY <2>1, <2>2 DEF WorkersOK, Exists
  <2>4. PICK q \in RowType : Write(r, q)
    <3>1. /\ [row[r] EXCEPT !.retry = "later"] \in RowType
          /\ [row[r] EXCEPT !.status = "failed", !.retry = "null"] \in RowType
          /\ [row[r] EXCEPT !.status = "submitted", !.retry = "later"] \in RowType
      BY <2>3 DEF RowType, Statuses
    <3>2. \A named \in BOOLEAN : PolledReady(row[r], named \/ job.address) \in RowType
      BY <2>3, StatementsTyped
    <3>3. QED BY <2>1, <2>2, <3>1, <3>2 DEF PollStatus
  <2>5. RowsTyped' /\ HandlersOK' /\ Exists(r)'
        /\ \A s \in Rows : Exists(s) => Exists(s)'
    BY <2>1, <2>4, RequestWritten DEF PollStatus
  <2>6. /\ polling' \subseteq polling /\ failing' \in {failing, r}
        /\ UNCHANGED <<latest, stalled, retrying>>
    BY <2>1, <2>2 DEF PollStatus
  <2>7. \A j \in polling' \cup stalled' : j.row \in Rows /\ Exists(j.row)'
    BY <2>5, <2>6 DEF WorkersOK
  <2>8. \A x \in {retrying, failing', latest} : x # None => Exists(x)'
    BY <2>5, <2>6 DEF WorkersOK
  <2>9. WorkersOK'
    BY <2>6, <2>7, <2>8 DEF WorkersOK
  <2>10. CountsOK'
    BY <2>1 DEF PollStatus, CountsOK, countVars, historyVars
  <2>11. QED BY <2>5, <2>9, <2>10
<1>3. CASE ScheduleRetry
  <2>1. PICK r \in Rows : r = failing /\ Exists(r)
    BY <1>3 DEF ScheduleRetry, WorkersOK
  <2>2. row[r] \in RowType
    BY <2>1 DEF Exists
  <2>3. [row[r] EXCEPT !.retry = "later"] \in RowType
    BY <2>2 DEF RowType
  <2>4. RowsTyped' /\ HandlersOK' /\ \A s \in Rows : Exists(s) => Exists(s)'
    BY <1>3, <2>1, <2>3, RequestWritten DEF ScheduleRetry
  <2>5. UNCHANGED <<latest, polling, stalled, retrying>> /\ failing' = None
    BY <1>3 DEF ScheduleRetry
  <2>6. \A j \in polling \cup stalled : j.row \in Rows /\ Exists(j.row)'
    BY <2>4 DEF WorkersOK
  <2>7. \A x \in {retrying, latest} : x # None => Exists(x)'
    BY <2>4 DEF WorkersOK
  <2>8. WorkersOK'
    BY <2>5, <2>6, <2>7 DEF WorkersOK
  <2>9. CountsOK'
    BY <1>3 DEF ScheduleRetry, CountsOK, countVars, historyVars
  <2>10. QED BY <2>4, <2>8, <2>9
<1>4. QED BY <1>1, <1>2, <1>3 DEF StatusWorker

\* So does the stalled-request worker.
LEMMA StalledWorkerTyped ==
    ASSUME SafesTypeOK, StalledWorker
    PROVE  SafesTypeOK'
<1> USE TypeOKParts DEF RowsTyped
<1>1. CASE FetchStalled
  <2>1. stalled' \subseteq
           [row : Rows, saw : {"pending", "submitted"}, attempts : Nat]
        /\ \A job \in stalled' : Exists(job.row)
    <3>1. \A r \in Rows : Stalled(r) =>
             Exists(r) /\ row[r].status \in {"pending", "submitted"}
                       /\ row[r].attempts \in Nat
      BY DEF Stalled, Unanswered, Exists, RowType
    <3>2. QED BY <1>1, <3>1 DEF FetchStalled
  <2>2. UNCHANGED <<row, handler, latest, polling, retrying, failing>>
    BY <1>1 DEF FetchStalled
  <2>3. WorkersOK'
    BY <2>1, <2>2 DEF WorkersOK, Exists
  <2>4. HandlersOK'
    BY <2>2, HandlersStay DEF Exists
  <2>5. CountsOK'
    BY <1>1 DEF FetchStalled, CountsOK, countVars, historyVars
  <2>6. QED BY <2>2, <2>3, <2>4, <2>5
<1>2. CASE \E job \in stalled : RetryStalled(job)
  <2>1. PICK job \in stalled : RetryStalled(job)
    BY <1>2
  <2>2. PICK r \in Rows : r = job.row /\ Exists(r)
    BY <2>1 DEF WorkersOK
  <2>3. row[r] \in RowType
    BY <2>2 DEF Exists
  <2>4. Failed(row[r]) \in RowType /\ Prepared(row[r]) \in RowType
    BY <2>3, StatementsTyped
  <2>5. PICK q \in RowType : /\ Write(r, q)
                             /\ UNCHANGED asked \/ Ask(r, q)
    BY <2>1, <2>2, <2>4 DEF RetryStalled, historyVars
  <2>6. RowsTyped' /\ HandlersOK' /\ Exists(r)'
        /\ \A s \in Rows : Exists(s) => Exists(s)'
    BY <2>1, <2>5, RequestWritten DEF RetryStalled
  <2>7. /\ stalled' \subseteq stalled /\ retrying' \in {retrying, r}
        /\ UNCHANGED <<latest, polling, failing>>
    BY <2>1, <2>2 DEF RetryStalled
  <2>8. \A j \in polling' \cup stalled' : j.row \in Rows /\ Exists(j.row)'
    BY <2>6, <2>7 DEF WorkersOK
  <2>9. \A x \in {retrying', failing, latest} : x # None => Exists(x)'
    BY <2>6, <2>7 DEF WorkersOK
  <2>10. WorkersOK'
    BY <2>7, <2>8, <2>9 DEF WorkersOK
  <2>11. asked' \in [Rows -> SUBSET (Rows \cup Keys)]
    BY <2>5, AskTyped DEF CountsOK
  <2>12. auto' \in [Rows -> Nat]
    BY <2>1 DEF RetryStalled, CountsOK, historyVars
  <2>13. CountsOK'
    BY <2>1, <2>11, <2>12 DEF RetryStalled, CountsOK, countVars
  <2>14. QED BY <2>6, <2>10, <2>13
<1>3. CASE AnswerRetry
  <2>1. PICK r \in Rows : r = retrying /\ Exists(r)
    BY <1>3 DEF AnswerRetry, WorkersOK
  <2>2. row[r] \in RowType
    BY <2>1 DEF Exists
  <2>3. \A url \in BOOLEAN : Submitted(row[r], url) \in RowType
    BY <2>2, StatementsTyped
  <2>4. UNCHANGED row \/ \E q \in RowType : Write(r, q)
    BY <1>3, <2>1, <2>3 DEF AnswerRetry
  <2>5. UNCHANGED <<handler, latest, polling, stalled, failing>>
        /\ retrying' = None
    BY <1>3 DEF AnswerRetry
  <2>6. RowsTyped' /\ HandlersOK' /\ \A s \in Rows : Exists(s) => Exists(s)'
    <3>1. CASE UNCHANGED row
      BY <2>5, <3>1, HandlersStay DEF Exists
    <3>2. CASE \E q \in RowType : Write(r, q)
      BY <2>5, <3>2, RequestWritten
    <3>3. QED BY <2>4, <3>1, <3>2
  <2>7. \A j \in polling \cup stalled : j.row \in Rows /\ Exists(j.row)'
    BY <2>6 DEF WorkersOK
  <2>8. \A x \in {failing, latest} : x # None => Exists(x)'
    BY <2>6 DEF WorkersOK
  <2>9. WorkersOK'
    BY <2>5, <2>7, <2>8 DEF WorkersOK
  <2>10. CountsOK'
    BY <1>3 DEF AnswerRetry, CountsOK, countVars, historyVars
  <2>11. QED BY <2>6, <2>9, <2>10
<1>4. QED BY <1>1, <1>2, <1>3 DEF StalledWorker

\* And so do nonces, time, clients that leave and restarts.
LEMMA OthersTyped ==
    ASSUME SafesTypeOK,
           \/ IssueNonce \/ NonceExpires \/ Restart
           \/ \E h \in Handlers : Drop(h)
           \/ \E r \in Rows : BecomesDue(r) \/ BecomesStale(r)
    PROVE  SafesTypeOK'
<1> USE TypeOKParts DEF RowsTyped
<1>1. CASE IssueNonce \/ NonceExpires
  <2>1. UNCHANGED <<row, handler, workerVars, latest>>
    BY <1>1 DEF IssueNonce, NonceExpires
  <2>2. HandlersOK' /\ WorkersOK'
    BY <2>1, HandlersStay, WorkersStay DEF Exists
  <2>3. CountsOK'
    BY <1>1, SafesAssumption
    DEF IssueNonce, NonceExpires, CountsOK, countVars, historyVars
  <2>4. QED BY <2>1, <2>2, <2>3
<1>2. CASE Restart
  <2>1. HandlersOK'
    BY <1>2, IdleTyped DEF Restart, HandlersOK
  <2>2. WorkersOK'
    BY <1>2 DEF Restart, WorkersOK, Exists
  <2>3. CountsOK'
    BY <1>2, SafesAssumption DEF Restart, CountsOK, historyVars
  <2>4. QED BY <1>2, <2>1, <2>2, <2>3 DEF Restart
<1>3. CASE \E h \in Handlers : Drop(h)
  <2>1. PICK h \in Handlers : Drop(h)
    BY <1>3
  <2>2. Proceed(h, Idle) /\ UNCHANGED <<row, workerVars, latest>>
    BY <2>1 DEF Drop
  <2>3. HandlersOK' /\ WorkersOK'
    BY <2>2, IdleTyped, ProceedKeeps, WorkersStay DEF Exists
  <2>4. CountsOK'
    BY <2>1 DEF Drop, CountsOK, countVars, historyVars
  <2>5. QED BY <2>2, <2>3, <2>4
<1>4. CASE \E r \in Rows : BecomesDue(r) \/ BecomesStale(r)
  <2>1. PICK r \in Rows : BecomesDue(r) \/ BecomesStale(r)
    BY <1>4
  <2>2. row[r] \in RowType
    BY <2>1 DEF BecomesDue, BecomesStale, Exists
  <2>3. /\ [row[r] EXCEPT !.retry = "due"] \in RowType
        /\ [row[r] EXCEPT !.fresh = FALSE] \in RowType
    BY <2>2 DEF RowType
  <2>4. RowsTyped' /\ HandlersOK' /\ WorkersOK'
    BY <2>1, <2>3, RequestWritten DEF BecomesDue, BecomesStale
  <2>5. CountsOK'
    BY <2>1 DEF BecomesDue, BecomesStale, CountsOK, countVars, historyVars
  <2>6. QED BY <2>4, <2>5
<1>5. QED BY <1>1, <1>2, <1>3, <1>4

\* A step that changes nothing keeps the types.
LEMMA StutterTyped ==
    ASSUME SafesTypeOK, UNCHANGED safeVars
    PROVE  SafesTypeOK'
<1>1. UNCHANGED <<row, handler, workerVars, latest, nonce, issued, acts,
                  restarts, asked, auto>>
  BY DEF safeVars, countVars, historyVars
<1>2. HandlersOK' /\ WorkersOK'
  BY <1>1, HandlersStay, WorkersStay, TypeOKParts DEF Exists
<1>3. QED BY <1>1, <1>2, TypeOKParts DEF RowsTyped, CountsOK

\* The requests, the handlers and the workers are typed in every reachable
\* state, for all wallets, keys and bounds; whoever holds the id of a request
\* to write to finds it in the table.
THEOREM SafesTypeCorrect == SafesSpec => []SafesTypeOK
<1>1. SafesInit => SafesTypeOK
  BY SafesAssumption, IdleTyped DEF SafesInit, SafesTypeOK, Exists
<1>2. SafesTypeOK /\ [SafesNext]_safeVars => SafesTypeOK'
  BY CreateTyped, AdminTyped, StatusWorkerTyped, StalledWorkerTyped,
     OthersTyped, StutterTyped DEF SafesNext
<1>3. QED BY <1>1, <1>2, PTL DEF SafesSpec

\* What no statement but an import does: lower the attempts of a request.
LEMMA StatementsCount ==
    ASSUME NEW q \in RowType, NEW key, NEW url \in BOOLEAN
    PROVE  /\ q.attempts \in Nat \ {0}
           /\ Reset(q, key).attempts = q.attempts + 1
           /\ Prepared(q).attempts = q.attempts + 1
           /\ Submitted(q, url).attempts = q.attempts
           /\ Failed(q).attempts = q.attempts
           /\ PolledReady(q, url).attempts = q.attempts
BY DEF RowType, Reset, Prepared, Submitted, Failed, PolledReady

\* A step that lowers no attempts, unless it forgets the retries as well.
Counted ==
    /\ stalled' \subseteq stalled
    /\ \A r \in Rows : auto'[r] \in {0, auto[r]}
    /\ \A r \in Rows : Exists(r)' =>
          \/ auto'[r] = 0
          \/ Exists(r) /\ row[r].attempts <= row'[r].attempts

\* A counted step keeps the invariant of the automatic retries.
LEMMA CountedKeeps ==
    ASSUME SafesTypeOK, SafesTypeOK', AutoInv, Counted
    PROVE  AutoInv'
<1>1. \A r \in Rows : auto[r] \in Nat /\ auto'[r] \in Nat
  BY DEF SafesTypeOK
<1>2. ASSUME NEW r \in Rows, Exists(r)'
      PROVE  auto'[r] < row'[r].attempts
  <2>1. row'[r] \in RowType
    BY <1>2 DEF SafesTypeOK, Exists
  <2>2. row'[r].attempts \in Nat \ {0}
    BY <2>1, StatementsCount
  <2>3. CASE auto'[r] = 0
    BY <2>2, <2>3
  <2>4. CASE Exists(r) /\ row[r].attempts <= row'[r].attempts /\ auto'[r] = auto[r]
    <3>1. row[r] \in RowType
      BY <2>4 DEF SafesTypeOK, Exists
    <3>2. row[r].attempts \in Nat \ {0}
      BY <3>1, StatementsCount
    <3>3. auto[r] < row[r].attempts
      BY <2>4 DEF AutoInv
    <3>4. QED BY <1>1, <2>2, <2>4, <3>2, <3>3
  <2>5. QED BY <1>2, <2>3, <2>4 DEF Counted
<1>3. ASSUME NEW job \in stalled'
      PROVE  auto'[job.row] < job.attempts
  <2>1. job \in stalled /\ job.row \in Rows /\ job.attempts \in Nat
    BY <1>3 DEF SafesTypeOK, Counted
  <2>2. auto[job.row] < job.attempts
    BY <2>1 DEF AutoInv
  <2>3. QED BY <1>1, <2>1, <2>2 DEF Counted
<1>4. \A job, other \in stalled' : job.row = other.row => job = other
  BY DEF Counted, AutoInv
<1>5. AutoRetriesBounded'
  BY DEF Counted, AutoInv, AutoRetriesBounded
<1>6. QED BY <1>2, <1>3, <1>4, <1>5 DEF AutoInv, Exists

\* Writing one request that is there, with no fewer attempts.
LEMMA WriteCounted ==
    ASSUME SafesTypeOK, NEW r \in Rows, Exists(r), NEW q, Write(r, q),
           q.attempts \in Nat, row[r].attempts <= q.attempts,
           UNCHANGED auto, stalled' \subseteq stalled
    PROVE  Counted
<1>1. row'[r] = q /\ \A s \in Rows \ {r} : row'[s] = row[s]
  BY DEF Write, SafesTypeOK
<1>2. ASSUME NEW s \in Rows, Exists(s)'
      PROVE  Exists(s) /\ row[s].attempts <= row'[s].attempts
  <2>1. CASE s = r
    BY <1>1, <2>1
  <2>2. CASE s # r
    <3>1. row'[s] = row[s] /\ Exists(s)
      BY <1>1, <1>2, <2>2 DEF Exists
    <3>2. row[s].attempts \in Nat
      BY <3>1, StatementsCount DEF SafesTypeOK, Exists
    <3>3. QED BY <3>1, <3>2
  <2>3. QED BY <2>1, <2>2
<1>3. QED BY <1>2 DEF Counted

\* A step that writes no row and fetches no stalled job is counted.
LEMMA UnwrittenCounted ==
    ASSUME SafesTypeOK, UNCHANGED <<row, auto>>, stalled' \subseteq stalled
    PROVE  Counted
<1>1. \A r \in Rows : Exists(r) => row[r].attempts \in Nat
  BY StatementsCount DEF SafesTypeOK, Exists
<1>2. QED BY <1>1 DEF Counted, Exists

\* A request that appears, or is imported, has no retries behind it.
LEMMA FreshCounted ==
    ASSUME SafesTypeOK, NEW r \in Rows, NEW q, Write(r, q),
           auto' = [auto EXCEPT ![r] = 0], UNCHANGED stalled
    PROVE  Counted
<1>1. row'[r] = q /\ \A s \in Rows \ {r} : row'[s] = row[s]
  BY DEF Write, SafesTypeOK
<1>2. auto'[r] = 0 /\ \A s \in Rows \ {r} : auto'[s] = auto[s]
  BY DEF SafesTypeOK
<1>3. \A s \in Rows \ {r} : Exists(s)' =>
         Exists(s) /\ row[s].attempts <= row'[s].attempts
  <2>1. \A s \in Rows : Exists(s) => row[s].attempts \in Nat
    BY StatementsCount DEF SafesTypeOK, Exists
  <2>2. QED BY <1>1, <2>1 DEF Exists
<1>4. QED BY <1>2, <1>3 DEF Counted

\* The steps of a creation are counted.
LEMMA CreateCounted ==
    ASSUME SafesTypeOK, NEW h \in Handlers, CreateStep(h)
    PROVE  Counted
<1>1. CASE \/ \E r \in Rows, key \in Keys \cup {None}, n \in 1..issued :
                  BeginCreate(h, r, key, n)
           \/ LookUpLatest(h) \/ ConsumeNonce(h)
  BY <1>1, UnwrittenCounted
  DEF BeginCreate, LookUpLatest, ConsumeNonce, workerVars, historyVars
<1>2. CASE CreatePending(h)
  <2>1. PICK r \in Rows, key \in Keys \cup {None} :
               r = handler[h].row /\ key = handler[h].key
    BY <1>2, HandlerHolds DEF CreatePending, SafesTypeOK
  <2>2. UNCHANGED stalled
    BY <1>2 DEF CreatePending, workerVars
  <2>3. \/ Write(r, NewRow(key)) /\ auto' = [auto EXCEPT ![r] = 0]
        \/ Exists(r) /\ Write(r, Reset(row[r], key)) /\ UNCHANGED auto
        \/ UNCHANGED <<row, auto>>
    BY <1>2, <2>1, Zenon DEF CreatePending, historyVars
  <2>4. CASE Write(r, NewRow(key)) /\ auto' = [auto EXCEPT ![r] = 0]
    BY <2>2, <2>4, FreshCounted
  <2>5. CASE Exists(r) /\ Write(r, Reset(row[r], key)) /\ UNCHANGED auto
    <3>1. row[r] \in RowType
      BY <2>5 DEF SafesTypeOK, Exists
    <3>2. row[r].attempts \in Nat /\ Reset(row[r], key).attempts = row[r].attempts + 1
      BY <3>1, StatementsCount
    <3>3. QED BY <2>2, <2>5, <3>2, WriteCounted
  <2>6. CASE UNCHANGED <<row, auto>>
    BY <2>2, <2>6, UnwrittenCounted
  <2>7. QED BY <2>3, <2>4, <2>5, <2>6
<1>3. CASE Answer(h)
  <2>1. PICK r \in Rows : r = handler[h].row /\ Exists(r)
    BY <1>3, HandlerHolds DEF Answer, SafesTypeOK
  <2>2. row[r] \in RowType
    BY <2>1 DEF SafesTypeOK, Exists
  <2>3. PICK q : Write(r, q) /\ q.attempts = row[r].attempts
    BY <1>3, <2>1, <2>2, StatementsCount DEF Answer
  <2>4. row[r].attempts \in Nat
    BY <2>2, StatementsCount
  <2>5. QED
    BY <1>3, <2>1, <2>3, <2>4, WriteCounted DEF Answer, workerVars, historyVars
<1>4. QED BY <1>1, <1>2, <1>3 DEF CreateStep

\* So are the steps of an administrator.
LEMMA AdminCounted ==
    ASSUME SafesTypeOK, AdminStep
    PROVE  Counted
<1>1. CASE \/ \E h \in Handlers, r \in Rows, force \in BOOLEAN :
                  BeginResubmit(h, r, force)
           \/ \E h \in Handlers, r \in Rows : BeginLink(h, r)
  BY <1>1, UnwrittenCounted
  DEF BeginResubmit, BeginLink, workerVars, historyVars
<1>2. CASE \E h \in Handlers : PrepareResubmit(h) \/ Link(h)
  <2>1. PICK h \in Handlers : PrepareResubmit(h) \/ Link(h)
    BY <1>2
  <2>2. PICK r \in Rows : r = handler[h].row /\ Exists(r)
    BY <2>1, HandlerHolds DEF PrepareResubmit, Link, SafesTypeOK
  <2>3. row[r] \in RowType
    BY <2>2 DEF SafesTypeOK, Exists
  <2>4. row[r].attempts \in Nat /\ Prepared(row[r]).attempts = row[r].attempts + 1
        /\ [row[r] EXCEPT !.linked = TRUE].attempts = row[r].attempts
    BY <2>3, StatementsCount DEF RowType
  <2>5. \/ Write(r, Prepared(row[r]))
        \/ Write(r, [row[r] EXCEPT !.linked = TRUE])
    BY <2>1, <2>2 DEF PrepareResubmit, Link
  <2>6. UNCHANGED <<auto, stalled>>
    BY <2>1 DEF PrepareResubmit, Link, workerVars, historyVars
  <2>7. PICK q : /\ Write(r, q)
                 /\ q.attempts \in {row[r].attempts, row[r].attempts + 1}
    <3>1. CASE Write(r, Prepared(row[r]))
      BY <2>4, <3>1
    <3>2. CASE Write(r, [row[r] EXCEPT !.linked = TRUE])
      BY <2>4, <3>2
    <3>3. QED BY <2>5, <3>1, <3>2
  <2>8. q.attempts \in Nat /\ row[r].attempts <= q.attempts
    BY <2>4, <2>7
  <2>9. QED BY <2>2, <2>6, <2>7, <2>8, WriteCounted
<1>3. CASE \E r \in Rows, s \in Statuses, address \in BOOLEAN :
              Override(r, s, address)
  <2>1. PICK r \in Rows, s \in Statuses, address \in BOOLEAN :
               Override(r, s, address)
    BY <1>3
  <2>2. row[r] \in RowType /\ Exists(r)
    BY <2>1 DEF Override, SafesTypeOK, Exists
  <2>3. row[r].attempts \in Nat
        /\ [row[r] EXCEPT !.status = s, !.address = address].attempts
             = row[r].attempts
    BY <2>2 DEF RowType
  <2>4. PICK q : Write(r, q) /\ q.attempts = row[r].attempts
    BY <2>1, <2>3 DEF Override
  <2>5. UNCHANGED <<auto, stalled>>
    BY <2>1 DEF Override, workerVars, historyVars
  <2>6. QED BY <2>2, <2>3, <2>4, <2>5, WriteCounted
<1>4. CASE \E r \in Rows, url \in BOOLEAN : Import(r, url)
  <2>1. PICK r \in Rows, url \in BOOLEAN : Import(r, url)
    BY <1>4
  <2>2. PICK q : Write(r, q)
    BY <2>1 DEF Import
  <2>3. QED BY <2>1, <2>2, FreshCounted DEF Import, workerVars
<1>5. QED BY <1>1, <1>2, <1>3, <1>4 DEF AdminStep

\* So are the steps of the status worker.
LEMMA StatusWorkerCounted ==
    ASSUME SafesTypeOK, StatusWorker
    PROVE  Counted
<1>1. CASE FetchDue
  BY <1>1, UnwrittenCounted DEF FetchDue, historyVars
<1>2. CASE \E job \in polling : PollStatus(job)
  <2>1. PICK job \in polling : PollStatus(job)
    BY <1>2
  <2>2. PICK r \in Rows : r = job.row /\ Exists(r)
    BY <2>1 DEF SafesTypeOK
  <2>3. row[r] \in RowType /\ job.address \in BOOLEAN
    BY <2>1, <2>2 DEF SafesTypeOK, Exists
  <2>4. PICK q : Write(r, q) /\ q.attempts = row[r].attempts
    <3>1. /\ [row[r] EXCEPT !.retry = "later"].attempts = row[r].attempts
          /\ [row[r] EXCEPT !.status = "failed", !.retry = "null"].attempts
               = row[r].attempts
          /\ [row[r] EXCEPT !.status = "submitted", !.retry = "later"].attempts
               = row[r].attempts
      BY <2>3 DEF RowType
    <3>2. \A named \in BOOLEAN :
             PolledReady(row[r], named \/ job.address).attempts = row[r].attempts
      BY <2>3, StatementsCount
    <3>3. QED BY <2>1, <2>2, <3>1, <3>2 DEF PollStatus
  <2>5. row[r].attempts \in Nat
    BY <2>3, StatementsCount
  <2>6. QED BY <2>1, <2>2, <2>4, <2>5, WriteCounted DEF PollStatus, historyVars
<1>3. CASE ScheduleRetry
  <2>1. PICK r \in Rows : r = failing /\ Exists(r)
    BY <1>3 DEF ScheduleRetry, SafesTypeOK
  <2>2. row[r] \in RowType
    BY <2>1 DEF SafesTypeOK, Exists
  <2>3. row[r].attempts \in Nat
        /\ [row[r] EXCEPT !.retry = "later"].attempts = row[r].attempts
    BY <2>2 DEF RowType
  <2>4. PICK q : Write(r, q) /\ q.attempts = row[r].attempts
    BY <1>3, <2>1, <2>3 DEF ScheduleRetry
  <2>5. UNCHANGED <<auto, stalled>>
    BY <1>3 DEF ScheduleRetry, historyVars
  <2>6. QED BY <2>1, <2>3, <2>4, <2>5, WriteCounted
<1>4. QED BY <1>1, <1>2, <1>3 DEF StatusWorker

\* So are nonces, the clock, dropped handlers and a restart.
LEMMA OthersCounted ==
    ASSUME SafesTypeOK,
           \/ IssueNonce \/ NonceExpires \/ Restart
           \/ \E h \in Handlers : Drop(h)
           \/ \E r \in Rows : BecomesDue(r) \/ BecomesStale(r)
           \/ UNCHANGED safeVars
    PROVE  Counted
<1>1. CASE \/ IssueNonce \/ NonceExpires \/ Restart
           \/ \E h \in Handlers : Drop(h)
           \/ UNCHANGED safeVars
  BY <1>1, UnwrittenCounted
  DEF IssueNonce, NonceExpires, Restart, Drop, safeVars, workerVars, historyVars
<1>2. CASE \E r \in Rows : BecomesDue(r) \/ BecomesStale(r)
  <2>1. PICK r \in Rows : BecomesDue(r) \/ BecomesStale(r)
    BY <1>2
  <2>2. row[r] \in RowType /\ Exists(r)
    BY <2>1 DEF BecomesDue, BecomesStale, SafesTypeOK, Exists
  <2>3. /\ row[r].attempts \in Nat
        /\ [row[r] EXCEPT !.retry = "due"].attempts = row[r].attempts
        /\ [row[r] EXCEPT !.fresh = FALSE].attempts = row[r].attempts
    BY <2>2 DEF RowType
  <2>4. PICK q : Write(r, q) /\ q.attempts = row[r].attempts
    BY <2>1, <2>3 DEF BecomesDue, BecomesStale
  <2>5. UNCHANGED <<auto, stalled>>
    BY <2>1 DEF BecomesDue, BecomesStale, workerVars, historyVars
  <2>6. QED BY <2>2, <2>3, <2>4, <2>5, WriteCounted
<1>3. QED BY <1>1, <1>2

\* The stalled-request worker reads jobs that tell the attempts of the
\* moment, and a job it retries stands for no more retries than those.
LEMMA StalledWorkerBounded ==
    ASSUME SafesTypeOK, SafesTypeOK', AutoInv, StalledWorker
    PROVE  AutoInv'
<1>1. CASE FetchStalled
  <2>1. UNCHANGED <<row, auto>>
    BY <1>1 DEF FetchStalled, historyVars
  <2>2. ASSUME NEW job \in stalled'
        PROVE  auto[job.row] < job.attempts
    <3>1. PICK r \in Rows : /\ Stalled(r)
                            /\ job.row = r /\ job.attempts = row[r].attempts
      BY <1>1, <2>2 DEF FetchStalled
    <3>2. QED BY <3>1 DEF Stalled, Unanswered, AutoInv
  <2>3. \A job, other \in stalled' : job.row = other.row => job = other
    BY <1>1 DEF FetchStalled
  <2>4. QED BY <2>1, <2>2, <2>3 DEF AutoInv, AutoRetriesBounded, Exists
<1>2. CASE \E job \in stalled : RetryStalled(job)
  <2>1. PICK job \in stalled : RetryStalled(job)
    BY <1>2
  <2>2. PICK r \in Rows : r = job.row /\ Exists(r)
    BY <2>1 DEF SafesTypeOK
  <2>3. row[r] \in RowType
    BY <2>2 DEF SafesTypeOK, Exists
  <2>4. /\ row[r].attempts \in Nat /\ Failed(row[r]).attempts = row[r].attempts
        /\ Prepared(row[r]).attempts = row[r].attempts + 1
    BY <2>3, StatementsCount
  <2>5. stalled' = stalled \ {job}
    BY <2>1 DEF RetryStalled
  <2>6. CASE Write(r, Failed(row[r])) /\ UNCHANGED auto
    <3>1. Counted
      <4>1. PICK q : Write(r, q) /\ q.attempts = row[r].attempts
        BY <2>4, <2>6
      <4>2. stalled' \subseteq stalled
        BY <2>5
      <4>3. QED BY <2>2, <2>4, <2>6, <4>1, <4>2, WriteCounted
    <3>2. QED BY <3>1, CountedKeeps
  <2>7. CASE /\ ~(job.attempts >= STALLED_MAX_AUTO_ATTEMPTS)
             /\ Write(r, Prepared(row[r])) /\ auto' = [auto EXCEPT ![r] = @ + 1]
    <3>1. auto[r] \in Nat /\ job.attempts \in Nat
      BY <2>1 DEF SafesTypeOK
    <3>2. auto'[r] = auto[r] + 1 /\ \A s \in Rows \ {r} : auto'[s] = auto[s]
      BY <2>7 DEF SafesTypeOK
    <3>3. /\ row'[r].attempts = row[r].attempts + 1
          /\ \A s \in Rows \ {r} : row'[s] = row[s]
      BY <2>4, <2>7 DEF Write, SafesTypeOK
    <3>4. auto[r] < job.attempts /\ auto[r] < row[r].attempts
      BY <2>1, <2>2 DEF AutoInv
    <3>5. auto'[r] < row'[r].attempts /\ auto'[r] < STALLED_MAX_AUTO_ATTEMPTS
      BY <2>4, <2>7, <3>1, <3>2, <3>3, <3>4, SafesAssumption
    <3>6. \A s \in Rows : row'[s] # None => auto'[s] < row'[s].attempts
      BY <3>2, <3>3, <3>5 DEF AutoInv, Exists
    <3>7. \A j \in stalled' : j.row \in Rows \ {r} /\ auto[j.row] < j.attempts
      BY <2>1, <2>2, <2>5 DEF AutoInv, SafesTypeOK
    <3>8. \A j, k \in stalled' : j.row = k.row => j = k
      BY <2>5 DEF AutoInv
    <3>9. AutoRetriesBounded'
      BY <3>2, <3>5 DEF AutoInv, AutoRetriesBounded
    <3>10. QED BY <3>2, <3>6, <3>7, <3>8, <3>9 DEF AutoInv, Exists
  <2>8. QED BY <2>1, <2>2, <2>6, <2>7 DEF RetryStalled, historyVars
<1>3. CASE AnswerRetry
  <2>1. PICK r \in Rows : r = retrying /\ Exists(r)
    BY <1>3 DEF AnswerRetry, SafesTypeOK
  <2>2. row[r] \in RowType
    BY <2>1 DEF SafesTypeOK, Exists
  <2>3. UNCHANGED <<auto, stalled>>
    BY <1>3 DEF AnswerRetry, historyVars
  <2>4. Counted
    <3>1. \A url \in BOOLEAN : Submitted(row[r], url).attempts = row[r].attempts
      BY <2>2, StatementsCount
    <3>2. UNCHANGED row \/ \E q : Write(r, q) /\ q.attempts = row[r].attempts
      BY <1>3, <2>1, <3>1 DEF AnswerRetry
    <3>3. row[r].attempts \in Nat
      BY <2>2, StatementsCount
    <3>4. QED BY <2>1, <2>3, <3>2, <3>3, WriteCounted, UnwrittenCounted
  <2>5. QED BY <2>4, CountedKeeps
<1>4. QED BY <1>1, <1>2, <1>3 DEF StalledWorker

\* A request is retried automatically fewer than STALLED_MAX_AUTO_ATTEMPTS
\* times since it was made or imported, for any number of wallets, handlers
\* and resubmissions in between.
THEOREM AutoRetriesAreBounded == SafesSpec => []AutoRetriesBounded
<1>1. SafesInit => AutoInv
  BY DEF SafesInit, AutoInv, AutoRetriesBounded, Exists
<1>2. SafesTypeOK /\ SafesTypeOK' /\ AutoInv /\ [SafesNext]_safeVars => AutoInv'
  BY CreateCounted, AdminCounted, StatusWorkerCounted, OthersCounted,
     StalledWorkerBounded, CountedKeeps DEF SafesNext
<1>3. AutoInv => AutoRetriesBounded
  BY DEF AutoInv
<1>4. QED BY <1>1, <1>2, <1>3, SafesTypeCorrect, PTL DEF SafesSpec

-----------------------------------------------------------------------------
\* A request can only carry a nonce that was issued, and a new nonce is one
\* that no request carries.
NonceInv ==
    /\ NonceSpentOnce
    /\ \A h \in Handlers : handler[h].phase \in {"latest", "nonce", "insert"}
          => handler[h].nonce \in 1..issued

\* Handlers other than h stay as they are, and h is let in by no step but
\* consume_nonce.
LEMMA NonceStays ==
    ASSUME SafesTypeOK, NonceInv, NEW h \in Handlers, NEW next \in HandlerType,
           Proceed(h, next), UNCHANGED <<nonce, issued>>,
           next.phase # "insert",
           next.phase \in {"latest", "nonce"} => next.nonce \in 1..issued
    PROVE  NonceInv'
<1>1. handler'[h] = next /\ \A g \in Handlers \ {h} : handler'[g] = handler[g]
  BY DEF Proceed, SafesTypeOK
<1>2. NonceSpentOnce'
  BY <1>1 DEF NonceInv, NonceSpentOnce, Admitted
<1>3. QED BY <1>1, <1>2 DEF NonceInv

\* Every step keeps the invariant of the nonces.
LEMMA NonceStep ==
    ASSUME SafesTypeOK, NonceInv, [SafesNext]_safeVars
    PROVE  NonceInv'
<1>1. CASE IssueNonce \/ NonceExpires
  <2>1. UNCHANGED handler /\ nonce' \in {0, issued + 1} /\ issued' \in {issued, issued + 1}
    BY <1>1 DEF IssueNonce, NonceExpires
  <2>2. issued \in Nat
    BY SafesAssumption DEF SafesTypeOK
  <2>3. \A h \in Handlers : Admitted(h) => handler[h].nonce \in 1..issued
    BY DEF NonceInv, Admitted
  <2>4. NonceSpentOnce'
    BY <2>1, <2>2, <2>3 DEF NonceInv, NonceSpentOnce, Admitted
  <2>5. QED BY <2>1, <2>2, <2>4 DEF NonceInv
<1>2. CASE \E h \in Handlers : ConsumeNonce(h)
  <2>1. PICK h \in Handlers : ConsumeNonce(h)
    BY <1>2
  <2>2. CASE Proceed(h, Idle) /\ UNCHANGED nonce
    <3>1. UNCHANGED <<nonce, issued>>
      BY <2>1, <2>2 DEF ConsumeNonce
    <3>2. QED BY <2>2, <3>1, IdleTyped, NonceStays
  <2>3. CASE /\ handler[h].nonce = nonce /\ nonce' = 0
             /\ Proceed(h, [handler[h] EXCEPT !.phase = "insert"])
    <3>1. handler[h] \in [phase : {"latest", "nonce", "insert"}, row : Rows,
                          key : Keys \cup {None}, nonce : 1..MaxNonces]
      BY <2>1, HandlerHolds DEF ConsumeNonce, SafesTypeOK
    <3>2. /\ handler'[h].phase = "insert" /\ handler'[h].nonce = handler[h].nonce
          /\ \A g \in Handlers \ {h} : handler'[g] = handler[g]
      BY <2>3, <3>1 DEF Proceed, SafesTypeOK
    <3>3. handler[h].nonce \in 1..issued /\ UNCHANGED issued
      BY <2>1 DEF ConsumeNonce, NonceInv
    <3>4. \A g \in Handlers \ {h} : Admitted(g) =>
             handler[g].nonce # nonce /\ handler[g].nonce \in 1..issued
      BY DEF NonceInv, NonceSpentOnce, Admitted
    <3>5. NonceSpentOnce'
      BY <2>3, <3>2, <3>3, <3>4 DEF NonceInv, NonceSpentOnce, Admitted
    <3>6. QED BY <3>2, <3>3, <3>5 DEF NonceInv
  <2>4. QED BY <2>1, <2>2, <2>3 DEF ConsumeNonce
<1>3. CASE \E h \in Handlers : LookUpLatest(h)
  <2>1. PICK h \in Handlers : LookUpLatest(h)
    BY <1>3
  <2> DEFINE next == [handler[h] EXCEPT !.phase = "nonce"]
  <2>2. handler[h] \in [phase : {"latest", "nonce", "insert"}, row : Rows,
                        key : Keys \cup {None}, nonce : 1..MaxNonces]
    BY <2>1, HandlerHolds DEF LookUpLatest, SafesTypeOK
  <2>3. next \in HandlerType /\ next.phase = "nonce" /\ next.nonce = handler[h].nonce
    BY <2>2 DEF HandlerType
  <2>4. handler[h].nonce \in 1..issued
    BY <2>1 DEF LookUpLatest, NonceInv
  <2>5. UNCHANGED <<nonce, issued>> /\ (Proceed(h, Idle) \/ Proceed(h, next))
    BY <2>1 DEF LookUpLatest
  <2> HIDE DEF next
  <2>6. QED BY <2>3, <2>4, <2>5, IdleTyped, NonceStays
<1>4. CASE \E h \in Handlers, r \in Rows, key \in Keys \cup {None},
              n \in 1..issued : BeginCreate(h, r, key, n)
  <2>1. PICK h \in Handlers, r \in Rows, key \in Keys \cup {None},
               n \in 1..issued : BeginCreate(h, r, key, n)
    BY <1>4
  <2> DEFINE next == [phase |-> "latest", row |-> r, key |-> key, nonce |-> n]
  <2>2. n \in 1..MaxNonces
    BY SafesAssumption DEF SafesTypeOK
  <2>3. next \in HandlerType /\ next.phase = "latest" /\ next.nonce = n
    BY <2>2 DEF HandlerType
  <2>4. UNCHANGED <<nonce, issued>> /\ Proceed(h, next)
    BY <2>1 DEF BeginCreate
  <2> HIDE DEF next
  <2>5. QED BY <2>3, <2>4, NonceStays
<1>5. ASSUME NEW h \in Handlers, NEW next,
             Proceed(h, next), UNCHANGED <<nonce, issued>>,
             next.phase \in {"idle", "upstream", "resubmit", "link"}
      PROVE  NonceInv'
  <2>1. handler'[h] = next /\ \A g \in Handlers \ {h} : handler'[g] = handler[g]
    BY <1>5 DEF Proceed, SafesTypeOK
  <2>2. NonceSpentOnce'
    BY <1>5, <2>1 DEF NonceInv, NonceSpentOnce, Admitted
  <2>3. QED BY <1>5, <2>1, <2>2 DEF NonceInv
<1>6. CASE \E h \in Handlers : CreatePending(h) \/ PrepareResubmit(h)
  <2>1. PICK h \in Handlers : CreatePending(h) \/ PrepareResubmit(h)
    BY <1>6
  <2>2. UNCHANGED <<nonce, issued>>
    BY <2>1 DEF CreatePending, PrepareResubmit
  <2>3. PICK next : Proceed(h, next) /\ next.phase \in {"idle", "upstream"}
    BY <2>1, IdleTyped DEF CreatePending, PrepareResubmit, CallUpstream
  <2>4. QED BY <1>5, <2>2, <2>3
<1>7. CASE \/ \E h \in Handlers : Answer(h) \/ Link(h) \/ Drop(h)
           \/ \E h \in Handlers, r \in Rows, force \in BOOLEAN :
                 BeginResubmit(h, r, force)
           \/ \E h \in Handlers, r \in Rows : BeginLink(h, r)
  <2>1. PICK h \in Handlers :
           \E next : /\ Proceed(h, next)
                     /\ next.phase \in {"idle", "resubmit", "link"}
                     /\ UNCHANGED <<nonce, issued>>
    BY <1>7, IdleTyped DEF Answer, Link, Drop, BeginResubmit, BeginLink
  <2>2. QED BY <1>5, <2>1
<1>8. CASE Restart
  BY <1>8, IdleTyped DEF Restart, NonceInv, NonceSpentOnce, Admitted
<1>9. CASE \/ \E r \in Rows, s \in Statuses, address \in BOOLEAN :
                  Override(r, s, address)
           \/ \E r \in Rows, url \in BOOLEAN : Import(r, url)
           \/ StatusWorker \/ StalledWorker
           \/ \E r \in Rows : BecomesDue(r) \/ BecomesStale(r)
           \/ UNCHANGED safeVars
  <2>1. UNCHANGED <<handler, nonce, issued>>
    BY <1>9 DEF Override, Import, StatusWorker, FetchDue, PollStatus,
                ScheduleRetry, StalledWorker, FetchStalled, RetryStalled,
                AnswerRetry, BecomesDue, BecomesStale, safeVars
  <2>2. QED BY <2>1 DEF NonceInv, NonceSpentOnce, Admitted
<1>10. QED
  BY <1>1, <1>2, <1>3, <1>4, <1>6, <1>7, <1>8, <1>9
  DEF SafesNext, CreateStep, AdminStep

\* A nonce lets one creation in, whatever the number of requests that carry
\* it and whatever nonces are issued meanwhile.
THEOREM NoncesAreSpentOnce == SafesSpec => []NonceSpentOnce
<1>1. SafesInit => NonceInv
  BY IdleTyped DEF SafesInit, NonceInv, NonceSpentOnce, Admitted
<1>2. SafesTypeOK /\ NonceInv /\ [SafesNext]_safeVars => NonceInv'
  BY NonceStep
<1>3. NonceInv => NonceSpentOnce
  BY DEF NonceInv
<1>4. QED BY <1>1, <1>2, <1>3, SafesTypeCorrect, PTL DEF SafesSpec

-----------------------------------------------------------------------------
(* The keys that the service sees.                                         *)

\* Once a row's Safe was asked for, the service has seen the key the row has now.
AskInv ==
    \A r \in Rows : /\ ~Exists(r) => asked[r] = {}
                    /\ Exists(r) /\ asked[r] # {} => KeyOf(r, row[r]) \in asked[r]

\* What a request is asked for under, when none of the client's own keys is new.
KeyedCreation(r) ==
    \E h \in Handlers : /\ handler[h].phase = "insert"
                        /\ handler[h].row = r
                        /\ handler[h].key # None

\* A step that asks for nothing and leaves every row its key.
Quiet ==
    /\ UNCHANGED asked
    /\ \A s \in Rows : Exists(s) => Exists(s)' /\ row'[s].key = row[s].key

\* A step that asks for the Safe of row r under the key the row then has.
AsksFor(r) ==
    /\ Exists(r)'
    /\ asked' = [asked EXCEPT ![r] = @ \cup {KeyOf(r, row'[r])}]
    /\ \A s \in Rows \ {r} : row'[s] = row[s]
    /\ Exists(r) => row'[r].key = row[r].key \/ KeyedCreation(r)

\* What the statements do to the key.
LEMMA StatementsKey ==
    ASSUME NEW q \in RowType, NEW key \in Keys \cup {None}, NEW url \in BOOLEAN
    PROVE  /\ NewRow(key).key = key
           /\ Reset(q, key).key = IF key = None THEN q.key ELSE key
           /\ Prepared(q).key = q.key
           /\ Submitted(q, url).key = q.key
           /\ Failed(q).key = q.key
           /\ Imported(q, url).key = q.key
           /\ PolledReady(q, url).key = q.key
BY DEF RowType, NewRow, Reset, Prepared, Submitted, Failed, Imported, PolledReady

\* The single-column updates keep the key too.
LEMMA UpdatesKey ==
    ASSUME NEW q \in RowType
    PROVE  /\ [q EXCEPT !.linked = TRUE] \in RowType
           /\ [q EXCEPT !.linked = TRUE].key = q.key
           /\ [q EXCEPT !.retry = "later"] \in RowType
           /\ [q EXCEPT !.retry = "later"].key = q.key
           /\ [q EXCEPT !.status = "failed", !.retry = "null"] \in RowType
           /\ [q EXCEPT !.status = "failed", !.retry = "null"].key = q.key
           /\ [q EXCEPT !.status = "submitted", !.retry = "later"] \in RowType
           /\ [q EXCEPT !.status = "submitted", !.retry = "later"].key = q.key
           /\ [q EXCEPT !.retry = "due"] \in RowType
           /\ [q EXCEPT !.retry = "due"].key = q.key
           /\ [q EXCEPT !.fresh = FALSE] \in RowType
           /\ [q EXCEPT !.fresh = FALSE].key = q.key
BY DEF RowType, Statuses

\* So does the update of an administrator.
LEMMA OverrideKey ==
    ASSUME NEW q \in RowType, NEW s \in Statuses, NEW b \in BOOLEAN
    PROVE  /\ [q EXCEPT !.status = s, !.address = b] \in RowType
           /\ [q EXCEPT !.status = s, !.address = b].key = q.key
BY DEF RowType, Statuses

\* Writing a row that is there, its key kept, is quiet.
LEMMA WriteQuiet ==
    ASSUME SafesTypeOK, NEW r \in Rows, NEW q \in RowType, Write(r, q), UNCHANGED asked,
           Exists(r) => q.key = row[r].key
    PROVE  Quiet
<1>1. row'[r] = q /\ \A s \in Rows \ {r} : row'[s] = row[s]
  BY DEF Write, SafesTypeOK
<1>2. q # None
  BY RowIsNotNull
<1>3. QED BY <1>1, <1>2 DEF Quiet, Exists

\* Leaving the table and the history alone is quiet.
LEMMA UnwrittenQuiet ==
    ASSUME UNCHANGED <<row, asked>>
    PROVE  Quiet
BY DEF Quiet, Exists

\* Writing a row and asking for it under what was written.
LEMMA WriteAsks ==
    ASSUME SafesTypeOK, NEW r \in Rows, NEW q \in RowType, Write(r, q), Ask(r, q),
           Exists(r) => q.key = row[r].key \/ KeyedCreation(r)
    PROVE  AsksFor(r)
<1>1. row'[r] = q /\ \A s \in Rows \ {r} : row'[s] = row[s]
  BY DEF Write, SafesTypeOK
<1>2. q # None
  BY RowIsNotNull
<1>3. QED BY <1>1, <1>2 DEF AsksFor, Exists, Ask

\* A creation asks for one row; all its other steps are quiet.
LEMMA CreateAsks ==
    ASSUME SafesTypeOK, NEW h \in Handlers, CreateStep(h)
    PROVE  Quiet \/ \E r \in Rows : AsksFor(r)
<1>1. CASE \/ \E r \in Rows, key \in Keys \cup {None}, n \in 1..issued :
                  BeginCreate(h, r, key, n)
           \/ LookUpLatest(h) \/ ConsumeNonce(h)
  BY <1>1, UnwrittenQuiet DEF BeginCreate, LookUpLatest, ConsumeNonce, historyVars
<1>2. CASE CreatePending(h)
  <2>1. PICK r \in Rows, key \in Keys \cup {None} :
               r = handler[h].row /\ key = handler[h].key
    BY <1>2, HandlerHolds DEF CreatePending, SafesTypeOK
  <2>2. handler[h].phase = "insert"
    BY <1>2 DEF CreatePending
  <2>3. key # None => KeyedCreation(r)
    BY <2>1, <2>2 DEF KeyedCreation
  <2>4. \/ ~Exists(r) /\ Write(r, NewRow(key)) /\ Ask(r, NewRow(key))
        \/ Exists(r) /\ Write(r, Reset(row[r], key)) /\ Ask(r, Reset(row[r], key))
        \/ Exists(r) /\ UNCHANGED row /\ Ask(r, row[r])
        \/ UNCHANGED <<row, asked>>
    BY <1>2, <2>1, Zenon DEF CreatePending, CallUpstream, historyVars
  <2>5. CASE ~Exists(r) /\ Write(r, NewRow(key)) /\ Ask(r, NewRow(key))
    <3>1. NewRow(key) \in RowType
      BY DEF NewRow, RowType, Statuses
    <3>2. QED BY <2>5, <3>1, WriteAsks
  <2>6. CASE Exists(r) /\ Write(r, Reset(row[r], key)) /\ Ask(r, Reset(row[r], key))
    <3>1. row[r] \in RowType
      BY <2>6 DEF SafesTypeOK, Exists
    <3>2. /\ Reset(row[r], key) \in RowType
          /\ Reset(row[r], key).key = IF key = None THEN row[r].key ELSE key
      BY <3>1, StatementsTyped, StatementsKey
    <3>3. Reset(row[r], key).key = row[r].key \/ KeyedCreation(r)
      BY <2>3, <3>2
    <3>4. QED BY <2>6, <3>2, <3>3, WriteAsks
  <2>7. CASE Exists(r) /\ UNCHANGED row /\ Ask(r, row[r])
    BY <2>7 DEF AsksFor, Exists, Ask
  <2>8. CASE UNCHANGED <<row, asked>>
    BY <2>8, UnwrittenQuiet
  <2>9. QED BY <2>4, <2>5, <2>6, <2>7, <2>8
<1>3. CASE Answer(h)
  <2>1. PICK r \in Rows : r = handler[h].row /\ Exists(r)
    BY <1>3, HandlerHolds DEF Answer, SafesTypeOK
  <2>2. row[r] \in RowType
    BY <2>1 DEF SafesTypeOK, Exists
  <2>3. PICK q \in RowType : Write(r, q) /\ q.key = row[r].key
    BY <1>3, <2>1, <2>2, StatementsTyped, StatementsKey DEF Answer
  <2>4. UNCHANGED asked
    BY <1>3 DEF Answer, historyVars
  <2>5. QED BY <2>3, <2>4, WriteQuiet
<1>4. QED BY <1>1, <1>2, <1>3 DEF CreateStep

\* Of the admins' routes, a resubmission asks, under the row's own key.
LEMMA AdminAsks ==
    ASSUME SafesTypeOK, AdminStep
    PROVE  Quiet \/ \E r \in Rows : AsksFor(r)
<1>1. CASE \/ \E h \in Handlers, r \in Rows, force \in BOOLEAN :
                  BeginResubmit(h, r, force)
           \/ \E h \in Handlers, r \in Rows : BeginLink(h, r)
  BY <1>1, UnwrittenQuiet DEF BeginResubmit, BeginLink, historyVars
<1>2. CASE \E h \in Handlers : PrepareResubmit(h)
  <2>1. PICK h \in Handlers : PrepareResubmit(h)
    BY <1>2
  <2>2. PICK r \in Rows : r = handler[h].row /\ Exists(r)
    BY <2>1, HandlerHolds DEF PrepareResubmit, SafesTypeOK
  <2>3. row[r] \in RowType
    BY <2>2 DEF SafesTypeOK, Exists
  <2>4. Prepared(row[r]) \in RowType /\ Prepared(row[r]).key = row[r].key
    BY <2>3, StatementsTyped, StatementsKey
  <2>5. Write(r, Prepared(row[r])) /\ Ask(r, Prepared(row[r]))
    BY <2>1, <2>2 DEF PrepareResubmit, CallUpstream
  <2>6. QED BY <2>4, <2>5, WriteAsks
<1>3. CASE \E h \in Handlers : Link(h)
  <2>1. PICK h \in Handlers : Link(h)
    BY <1>3
  <2>2. PICK r \in Rows : r = handler[h].row /\ Exists(r)
    BY <2>1, HandlerHolds DEF Link, SafesTypeOK
  <2>3. row[r] \in RowType
    BY <2>2 DEF SafesTypeOK, Exists
  <2>4. PICK q \in RowType : Write(r, q) /\ q.key = row[r].key
    <3>1. /\ [row[r] EXCEPT !.linked = TRUE] \in RowType
          /\ [row[r] EXCEPT !.linked = TRUE].key = row[r].key
      BY <2>3, UpdatesKey
    <3>2. QED BY <2>1, <2>2, <3>1 DEF Link
  <2>5. UNCHANGED asked
    BY <2>1 DEF Link, historyVars
  <2>6. QED BY <2>4, <2>5, WriteQuiet
<1>4. CASE \E r \in Rows, s \in Statuses, address \in BOOLEAN : Override(r, s, address)
  <2>1. PICK r \in Rows, s \in Statuses, address \in BOOLEAN : Override(r, s, address)
    BY <1>4
  <2>2. row[r] \in RowType
    BY <2>1 DEF Override, SafesTypeOK, Exists
  <2>3. PICK q \in RowType : Write(r, q) /\ q.key = row[r].key
    BY <2>1, <2>2, OverrideKey DEF Override
  <2>4. UNCHANGED asked
    BY <2>1 DEF Override, historyVars
  <2>5. QED BY <2>3, <2>4, WriteQuiet
<1>5. CASE \E r \in Rows, url \in BOOLEAN : Import(r, url)
  <2>1. PICK r \in Rows, url \in BOOLEAN : Import(r, url)
    BY <1>5
  <2>2. UNCHANGED asked
    BY <2>1 DEF Import
  <2>3. row[r] \in RowType
    BY <2>1 DEF Import, SafesTypeOK, Exists
  <2>4. PICK q \in RowType : Write(r, q) /\ q.key = row[r].key
    BY <2>1, <2>3, StatementsTyped, StatementsKey DEF Import
  <2>5. QED BY <2>2, <2>4, WriteQuiet
<1>6. QED BY <1>1, <1>2, <1>3, <1>4, <1>5 DEF AdminStep

\* The status worker asks for nothing.
LEMMA StatusWorkerQuiet ==
    ASSUME SafesTypeOK, StatusWorker
    PROVE  Quiet
<1>1. CASE FetchDue
  BY <1>1, UnwrittenQuiet DEF FetchDue, historyVars
<1>2. CASE \E job \in polling : PollStatus(job)
  <2>1. PICK job \in polling : PollStatus(job)
    BY <1>2
  <2>2. PICK r \in Rows : r = job.row /\ Exists(r)
    BY <2>1 DEF SafesTypeOK
  <2>3. row[r] \in RowType /\ job.address \in BOOLEAN
    BY <2>1, <2>2 DEF SafesTypeOK, Exists
  <2>4. PICK q \in RowType : Write(r, q) /\ q.key = row[r].key
    <3>1. \A named \in BOOLEAN :
             /\ PolledReady(row[r], named \/ job.address) \in RowType
             /\ PolledReady(row[r], named \/ job.address).key = row[r].key
      BY <2>3, StatementsTyped, StatementsKey
    <3>2. /\ [row[r] EXCEPT !.retry = "later"] \in RowType
          /\ [row[r] EXCEPT !.retry = "later"].key = row[r].key
          /\ [row[r] EXCEPT !.status = "failed", !.retry = "null"] \in RowType
          /\ [row[r] EXCEPT !.status = "failed", !.retry = "null"].key = row[r].key
          /\ [row[r] EXCEPT !.status = "submitted", !.retry = "later"] \in RowType
          /\ [row[r] EXCEPT !.status = "submitted", !.retry = "later"].key = row[r].key
      BY <2>3, UpdatesKey
    <3>3. QED BY <2>1, <2>2, <3>1, <3>2 DEF PollStatus
  <2>5. UNCHANGED asked
    BY <2>1 DEF PollStatus, historyVars
  <2>6. QED BY <2>4, <2>5, WriteQuiet
<1>3. CASE ScheduleRetry
  <2>1. PICK r \in Rows : r = failing /\ Exists(r)
    BY <1>3 DEF ScheduleRetry, SafesTypeOK
  <2>2. row[r] \in RowType
    BY <2>1 DEF SafesTypeOK, Exists
  <2>3. PICK q \in RowType : Write(r, q) /\ q.key = row[r].key
    <3>1. /\ [row[r] EXCEPT !.retry = "later"] \in RowType
          /\ [row[r] EXCEPT !.retry = "later"].key = row[r].key
      BY <2>2, UpdatesKey
    <3>2. QED BY <1>3, <2>1, <3>1 DEF ScheduleRetry
  <2>4. UNCHANGED asked
    BY <1>3 DEF ScheduleRetry, historyVars
  <2>5. QED BY <2>3, <2>4, WriteQuiet
<1>4. QED BY <1>1, <1>2, <1>3 DEF StatusWorker

\* An automatic retry asks, under the row's own key.
LEMMA StalledWorkerAsks ==
    ASSUME SafesTypeOK, StalledWorker
    PROVE  Quiet \/ \E r \in Rows : AsksFor(r)
<1>1. CASE FetchStalled
  BY <1>1, UnwrittenQuiet DEF FetchStalled, historyVars
<1>2. CASE \E job \in stalled : RetryStalled(job)
  <2>1. PICK job \in stalled : RetryStalled(job)
    BY <1>2
  <2>2. PICK r \in Rows : r = job.row /\ Exists(r)
    BY <2>1 DEF SafesTypeOK
  <2>3. row[r] \in RowType
    BY <2>2 DEF SafesTypeOK, Exists
  <2>4. /\ Failed(row[r]) \in RowType /\ Failed(row[r]).key = row[r].key
        /\ Prepared(row[r]) \in RowType /\ Prepared(row[r]).key = row[r].key
    BY <2>3, StatementsTyped, StatementsKey
  <2>5. CASE Write(r, Failed(row[r])) /\ UNCHANGED asked
    BY <2>4, <2>5, WriteQuiet
  <2>6. CASE Write(r, Prepared(row[r])) /\ Ask(r, Prepared(row[r]))
    BY <2>4, <2>6, WriteAsks
  <2>7. QED BY <2>1, <2>2, <2>5, <2>6 DEF RetryStalled, historyVars
<1>3. CASE AnswerRetry
  <2>1. PICK r \in Rows : r = retrying /\ Exists(r)
    BY <1>3 DEF AnswerRetry, SafesTypeOK
  <2>2. row[r] \in RowType
    BY <2>1 DEF SafesTypeOK, Exists
  <2>3. UNCHANGED asked
    BY <1>3 DEF AnswerRetry, historyVars
  <2>4. UNCHANGED row \/ \E q \in RowType : Write(r, q) /\ q.key = row[r].key
    BY <1>3, <2>1, <2>2, StatementsTyped, StatementsKey DEF AnswerRetry
  <2>5. QED BY <2>3, <2>4, WriteQuiet, UnwrittenQuiet
<1>4. QED BY <1>1, <1>2, <1>3 DEF StalledWorker

\* Nonces, time, restarts and clients that leave ask for nothing.
LEMMA OthersQuiet ==
    ASSUME SafesTypeOK,
           \/ IssueNonce \/ NonceExpires \/ Restart
           \/ \E h \in Handlers : Drop(h)
           \/ \E r \in Rows : BecomesDue(r) \/ BecomesStale(r)
           \/ UNCHANGED safeVars
    PROVE  Quiet
<1>1. CASE \/ IssueNonce \/ NonceExpires \/ Restart
           \/ \E h \in Handlers : Drop(h)
           \/ UNCHANGED safeVars
  BY <1>1, UnwrittenQuiet DEF IssueNonce, NonceExpires, Restart, Drop, safeVars, historyVars
<1>2. CASE \E r \in Rows : BecomesDue(r) \/ BecomesStale(r)
  <2>1. PICK r \in Rows : BecomesDue(r) \/ BecomesStale(r)
    BY <1>2
  <2>2. row[r] \in RowType
    BY <2>1 DEF BecomesDue, BecomesStale, SafesTypeOK, Exists
  <2>3. PICK q \in RowType : Write(r, q) /\ q.key = row[r].key
    <3>1. /\ [row[r] EXCEPT !.retry = "due"] \in RowType
          /\ [row[r] EXCEPT !.retry = "due"].key = row[r].key
          /\ [row[r] EXCEPT !.fresh = FALSE] \in RowType
          /\ [row[r] EXCEPT !.fresh = FALSE].key = row[r].key
      BY <2>2, UpdatesKey
    <3>2. QED BY <2>1, <3>1 DEF BecomesDue, BecomesStale
  <2>4. UNCHANGED asked
    BY <2>1 DEF BecomesDue, BecomesStale, historyVars
  <2>5. QED BY <2>3, <2>4, WriteQuiet
<1>3. QED BY <1>1, <1>2

\* Every step is quiet or asks for one row.
LEMMA StepAsks ==
    ASSUME SafesTypeOK, [SafesNext]_safeVars
    PROVE  Quiet \/ \E r \in Rows : AsksFor(r)
BY CreateAsks, AdminAsks, StatusWorkerQuiet, StalledWorkerAsks, OthersQuiet DEF SafesNext

\* Either kind of step keeps the invariant, and asks under a key the service has seen
\* unless a creation with a key of its own asks.
LEMMA AskStep ==
    ASSUME SafesTypeOK, AskInv, [SafesNext]_safeVars
    PROVE  /\ AskInv'
           /\ \A r \in Rows : asked[r] # {} /\ asked'[r] # asked[r] => KeyedCreation(r)
<1>1. CASE Quiet
  <2>1. asked' = asked
    BY <1>1 DEF Quiet
  <2>2. AskInv'
    BY <1>1, <2>1 DEF AskInv, Quiet, KeyOf, Exists
  <2>3. QED BY <2>1, <2>2
<1>2. ASSUME NEW r \in Rows, AsksFor(r)
      PROVE  /\ AskInv'
             /\ \A s \in Rows : asked[s] # {} /\ asked'[s] # asked[s] => KeyedCreation(s)
  <2>1. asked \in [Rows -> SUBSET (Rows \cup Keys)]
    BY DEF SafesTypeOK
  <2>2. /\ asked'[r] = asked[r] \cup {KeyOf(r, row'[r])}
        /\ \A s \in Rows \ {r} : asked'[s] = asked[s] /\ row'[s] = row[s]
        /\ Exists(r)'
    BY <1>2, <2>1 DEF AsksFor
  <2>3. AskInv'
    <3>1. ASSUME NEW s \in Rows
          PROVE  /\ ~(row'[s] # None) => asked'[s] = {}
                 /\ row'[s] # None /\ asked'[s] # {} => KeyOf(s, row'[s]) \in asked'[s]
      <4>1. CASE s = r
        BY <2>2, <4>1 DEF Exists
      <4>2. CASE s # r
        <5>1. asked'[s] = asked[s] /\ row'[s] = row[s]
          BY <2>2, <4>2
        <5>2. QED BY <5>1 DEF AskInv, Exists
      <4>3. QED BY <4>1, <4>2
    <3>2. QED BY <3>1 DEF AskInv, Exists, KeyOf
  <2>4. ASSUME asked[r] # {}, asked'[r] # asked[r]
        PROVE  KeyedCreation(r)
    <3>1. Exists(r) /\ KeyOf(r, row[r]) \in asked[r]
      BY <2>4 DEF AskInv
    <3>2. KeyOf(r, row'[r]) # KeyOf(r, row[r])
      BY <2>2, <2>4, <3>1
    <3>3. row'[r].key # row[r].key
      BY <3>2 DEF KeyOf
    <3>4. QED BY <1>2, <3>1, <3>3 DEF AsksFor
  <2>5. QED BY <2>2, <2>3, <2>4
<1>3. QED BY <1>1, <1>2, StepAsks

\* A retry, automatic or by an admin, repeats a key that the service has seen for the row;
\* only a creation with a key of its own may ask for another Safe.
THEOREM ARetryAsksForTheSameSafe == SafesSpec => RetryAsksForSameSafe
<1>1. SafesInit => AskInv
  BY DEF SafesInit, AskInv, Exists
<1>2. SafesTypeOK /\ AskInv /\ [SafesNext]_safeVars => AskInv'
  BY AskStep
<1>3. SafesTypeOK /\ AskInv /\ [SafesNext]_safeVars
        => [\A r \in Rows : asked[r] # {} /\ asked'[r] # asked[r] =>
              \E h \in Handlers : /\ handler[h].phase = "insert"
                                  /\ handler[h].row = r
                                  /\ handler[h].key # None]_safeVars
  BY AskStep DEF KeyedCreation
<1>4. QED BY <1>1, <1>2, <1>3, SafesTypeCorrect, PTL DEF SafesSpec, RetryAsksForSameSafe

-----------------------------------------------------------------------------
(* Who may unmake a ready request.                                         *)

\* A resubmission was decided on a request that had failed or was submitted.
ResubmitSaw ==
    \A h \in Handlers : handler[h].phase = "resubmit"
                          => handler[h].saw \in {"failed", "submitted"}

\* What the code allows to take a ready request back.
Excused(r) ==
    \/ \E s \in Statuses, address \in BOOLEAN : Override(r, s, address)
    \/ \E h \in Handlers :
          /\ handler[h].phase \in {"upstream", "resubmit"}
          /\ handler[h].row = r
          /\ handler[h].phase = "resubmit" => handler[h].saw # "ready"
    \/ \E job \in (polling \ polling') \cup (stalled \ stalled') :
          job.row = r /\ job.saw # "ready"

\* Nothing but an excused step takes a ready request back.
ReadyKept ==
    \A r \in Rows : Exists(r) /\ row[r].status = "ready" /\ row'[r].status # "ready"
                      => Excused(r)

\* Writing one request, excused or to a status no lower, keeps the others as they are.
LEMMA WriteReady ==
    ASSUME SafesTypeOK, NEW r \in Rows, NEW q, Write(r, q),
           Exists(r) /\ row[r].status = "ready" => q.status = "ready" \/ Excused(r)
    PROVE  ReadyKept
<1>1. row'[r] = q /\ \A s \in Rows \ {r} : row'[s] = row[s]
  BY DEF Write, SafesTypeOK
<1>2. QED BY <1>1 DEF ReadyKept

\* What the statements do to the status.
LEMMA StatementsStatus ==
    ASSUME NEW q \in RowType, NEW url \in BOOLEAN
    PROVE  /\ Submitted(q, url).status = "ready"
           /\ Imported(q, url).status = "ready"
           /\ PolledReady(q, url).status = "ready"
           /\ [q EXCEPT !.linked = TRUE].status = q.status
           /\ [q EXCEPT !.retry = "later"].status = q.status
           /\ [q EXCEPT !.retry = "due"].status = q.status
           /\ [q EXCEPT !.fresh = FALSE].status = q.status
BY DEF RowType, Submitted, Imported, PolledReady

\* A creation unmakes a ready request only by the answer it waits for.
LEMMA CreateReady ==
    ASSUME SafesTypeOK, NEW h \in Handlers, CreateStep(h)
    PROVE  ReadyKept
<1>1. CASE \/ \E r \in Rows, key \in Keys \cup {None}, n \in 1..issued :
                  BeginCreate(h, r, key, n)
           \/ LookUpLatest(h) \/ ConsumeNonce(h)
  BY <1>1 DEF BeginCreate, LookUpLatest, ConsumeNonce, ReadyKept
<1>2. CASE CreatePending(h)
  <2>1. PICK r \in Rows, key \in Keys \cup {None} :
               r = handler[h].row /\ key = handler[h].key
    BY <1>2, HandlerHolds DEF CreatePending, SafesTypeOK
  <2>2. \/ ~Exists(r) /\ Write(r, NewRow(key))
        \/ row[r].status # "ready" /\ Write(r, Reset(row[r], key))
        \/ UNCHANGED row
    BY <1>2, <2>1, Zenon DEF CreatePending
  <2>3. CASE ~Exists(r) /\ Write(r, NewRow(key))
    BY <2>3, WriteReady
  <2>4. CASE row[r].status # "ready" /\ Write(r, Reset(row[r], key))
    BY <2>4, WriteReady
  <2>5. CASE UNCHANGED row
    BY <2>5 DEF ReadyKept
  <2>6. QED BY <2>2, <2>3, <2>4, <2>5
<1>3. CASE Answer(h)
  <2>1. PICK r \in Rows : r = handler[h].row
    BY <1>3, HandlerHolds DEF Answer, SafesTypeOK
  <2>2. Excused(r)
    BY <1>3, <2>1 DEF Answer, Excused
  <2>3. PICK q : Write(r, q)
    BY <1>3, <2>1 DEF Answer
  <2>4. QED BY <2>2, <2>3, WriteReady
<1>4. QED BY <1>1, <1>2, <1>3 DEF CreateStep

\* Of the admins' routes, the override does, and a resubmission decided before.
LEMMA AdminReady ==
    ASSUME SafesTypeOK, ResubmitSaw, AdminStep
    PROVE  ReadyKept
<1>1. CASE \/ \E h \in Handlers, r \in Rows, force \in BOOLEAN :
                  BeginResubmit(h, r, force)
           \/ \E h \in Handlers, r \in Rows : BeginLink(h, r)
  BY <1>1 DEF BeginResubmit, BeginLink, ReadyKept
<1>2. CASE \E h \in Handlers : PrepareResubmit(h)
  <2>1. PICK h \in Handlers : PrepareResubmit(h)
    BY <1>2
  <2>2. PICK r \in Rows : r = handler[h].row
    BY <2>1, HandlerHolds DEF PrepareResubmit, SafesTypeOK
  <2>3. handler[h].phase = "resubmit" /\ handler[h].saw # "ready"
    BY <2>1 DEF PrepareResubmit, ResubmitSaw
  <2>4. Excused(r)
    BY <2>2, <2>3 DEF Excused
  <2>5. PICK q : Write(r, q)
    BY <2>1, <2>2 DEF PrepareResubmit
  <2>6. QED BY <2>4, <2>5, WriteReady
<1>3. CASE \E h \in Handlers : Link(h)
  <2>1. PICK h \in Handlers : Link(h)
    BY <1>3
  <2>2. PICK r \in Rows : r = handler[h].row /\ Exists(r)
    BY <2>1, HandlerHolds DEF Link, SafesTypeOK
  <2>3. row[r] \in RowType
    BY <2>2 DEF SafesTypeOK, Exists
  <2>4. PICK q : Write(r, q) /\ q.status = row[r].status
    BY <2>1, <2>2, <2>3, StatementsStatus DEF Link
  <2>5. QED BY <2>4, WriteReady
<1>4. CASE \E r \in Rows, s \in Statuses, address \in BOOLEAN : Override(r, s, address)
  <2>1. PICK r \in Rows, s \in Statuses, address \in BOOLEAN : Override(r, s, address)
    BY <1>4
  <2>2. Excused(r)
    BY <2>1 DEF Excused
  <2>3. PICK q : Write(r, q)
    BY <2>1 DEF Override
  <2>4. QED BY <2>2, <2>3, WriteReady
<1>5. CASE \E r \in Rows, url \in BOOLEAN : Import(r, url)
  <2>1. PICK r \in Rows, url \in BOOLEAN : Import(r, url)
    BY <1>5
  <2>2. PICK q : Write(r, q) /\ (Exists(r) => q.status = "ready")
    <3>1. Exists(r) => row[r] \in RowType
      BY DEF SafesTypeOK, Exists
    <3>2. QED BY <2>1, <3>1, StatementsStatus DEF Import
  <2>3. QED BY <2>2, WriteReady
<1>6. QED BY <1>1, <1>2, <1>3, <1>4, <1>5 DEF AdminStep

\* The status worker does, by a job that read the request as submitted.
LEMMA StatusWorkerReady ==
    ASSUME SafesTypeOK, StatusWorker
    PROVE  ReadyKept
<1>1. CASE FetchDue
  BY <1>1 DEF FetchDue, ReadyKept
<1>2. CASE \E job \in polling : PollStatus(job)
  <2>1. PICK job \in polling : PollStatus(job)
    BY <1>2
  <2>2. PICK r \in Rows : r = job.row /\ job.saw = "submitted"
    BY <2>1 DEF SafesTypeOK
  <2>3. job \in polling \ polling'
    BY <2>1 DEF PollStatus
  <2>4. Excused(r)
    BY <2>2, <2>3 DEF Excused
  <2>5. PICK q : Write(r, q)
    BY <2>1, <2>2 DEF PollStatus
  <2>6. QED BY <2>4, <2>5, WriteReady
<1>3. CASE ScheduleRetry
  <2>1. PICK r \in Rows : r = failing /\ Exists(r)
    BY <1>3 DEF ScheduleRetry, SafesTypeOK
  <2>2. row[r] \in RowType
    BY <2>1 DEF SafesTypeOK, Exists
  <2>3. PICK q : Write(r, q) /\ q.status = row[r].status
    BY <1>3, <2>1, <2>2, StatementsStatus DEF ScheduleRetry
  <2>4. QED BY <2>3, WriteReady
<1>4. QED BY <1>1, <1>2, <1>3 DEF StatusWorker

\* The stalled-request worker does, by a job that read the request as unanswered.
LEMMA StalledWorkerReady ==
    ASSUME SafesTypeOK, StalledWorker
    PROVE  ReadyKept
<1>1. CASE FetchStalled
  BY <1>1 DEF FetchStalled, ReadyKept
<1>2. CASE \E job \in stalled : RetryStalled(job)
  <2>1. PICK job \in stalled : RetryStalled(job)
    BY <1>2
  <2>2. PICK r \in Rows : r = job.row /\ job.saw # "ready"
    BY <2>1 DEF SafesTypeOK
  <2>3. job \in stalled \ stalled'
    BY <2>1 DEF RetryStalled
  <2>4. Excused(r)
    BY <2>2, <2>3 DEF Excused
  <2>5. PICK q : Write(r, q)
    BY <2>1, <2>2 DEF RetryStalled
  <2>6. QED BY <2>4, <2>5, WriteReady
<1>3. CASE AnswerRetry
  <2>1. PICK r \in Rows : r = retrying /\ Exists(r)
    BY <1>3 DEF AnswerRetry, SafesTypeOK
  <2>2. row[r] \in RowType
    BY <2>1 DEF SafesTypeOK, Exists
  <2>3. UNCHANGED row \/ \E q : Write(r, q) /\ q.status = "ready"
    BY <1>3, <2>1, <2>2, StatementsStatus DEF AnswerRetry
  <2>4. CASE UNCHANGED row
    BY <2>4 DEF ReadyKept
  <2>5. CASE \E q : Write(r, q) /\ q.status = "ready"
    BY <2>5, WriteReady
  <2>6. QED BY <2>3, <2>4, <2>5
<1>4. QED BY <1>1, <1>2, <1>3 DEF StalledWorker

\* Nonces, time, restarts and clients that leave change no status.
LEMMA OthersReady ==
    ASSUME SafesTypeOK,
           \/ IssueNonce \/ NonceExpires \/ Restart
           \/ \E h \in Handlers : Drop(h)
           \/ \E r \in Rows : BecomesDue(r) \/ BecomesStale(r)
           \/ UNCHANGED safeVars
    PROVE  ReadyKept
<1>1. CASE \/ IssueNonce \/ NonceExpires \/ Restart
           \/ \E h \in Handlers : Drop(h)
           \/ UNCHANGED safeVars
  BY <1>1 DEF IssueNonce, NonceExpires, Restart, Drop, safeVars, ReadyKept
<1>2. CASE \E r \in Rows : BecomesDue(r) \/ BecomesStale(r)
  <2>1. PICK r \in Rows : BecomesDue(r) \/ BecomesStale(r)
    BY <1>2
  <2>2. row[r] \in RowType
    BY <2>1 DEF BecomesDue, BecomesStale, SafesTypeOK, Exists
  <2>3. PICK q : Write(r, q) /\ q.status = row[r].status
    BY <2>1, <2>2, StatementsStatus DEF BecomesDue, BecomesStale
  <2>4. QED BY <2>3, WriteReady
<1>3. QED BY <1>1, <1>2

\* A handler that goes on to anything but a resubmission keeps what the others saw.
LEMMA SawStays ==
    ASSUME SafesTypeOK, ResubmitSaw, NEW h \in Handlers, NEW next, Proceed(h, next),
           next.phase = "resubmit" => next.saw \in {"failed", "submitted"}
    PROVE  ResubmitSaw'
<1>1. handler'[h] = next /\ \A g \in Handlers \ {h} : handler'[g] = handler[g]
  BY DEF Proceed, SafesTypeOK
<1>2. QED BY <1>1 DEF ResubmitSaw

\* Every step keeps what a waiting resubmission saw.
LEMMA SawStep ==
    ASSUME SafesTypeOK, ResubmitSaw, [SafesNext]_safeVars
    PROVE  ResubmitSaw'
<1>1. ASSUME NEW h \in Handlers,
             \E next : Proceed(h, next) /\ next.phase # "resubmit"
      PROVE  ResubmitSaw'
  BY <1>1, SawStays
<1>2. ASSUME NEW h \in Handlers, CreateStep(h) \/ Drop(h) \/ PrepareResubmit(h) \/ Link(h)
      PROVE  \E next : Proceed(h, next) /\ next.phase # "resubmit"
  <2>1. handler[h] \in HandlerType /\ Idle.phase = "idle"
    BY IdleTyped DEF SafesTypeOK
  <2>2. CASE \E r \in Rows, key \in Keys \cup {None}, n \in 1..issued :
                BeginCreate(h, r, key, n)
    <3>1. PICK r \in Rows, key \in Keys \cup {None}, n \in 1..issued :
                 Proceed(h, [phase |-> "latest", row |-> r, key |-> key, nonce |-> n])
      BY <2>2 DEF BeginCreate
    <3>2. [phase |-> "latest", row |-> r, key |-> key, nonce |-> n].phase = "latest"
      OBVIOUS
    <3>3. QED BY <3>1, <3>2
  <2>3. CASE LookUpLatest(h) \/ ConsumeNonce(h)
    <3>1. handler[h] \in [phase : {"latest", "nonce", "insert"}, row : Rows,
                          key : Keys \cup {None}, nonce : 1..MaxNonces]
      BY <2>3, HandlerHolds DEF LookUpLatest, ConsumeNonce, SafesTypeOK
    <3>2. /\ [handler[h] EXCEPT !.phase = "nonce"].phase = "nonce"
          /\ [handler[h] EXCEPT !.phase = "insert"].phase = "insert"
      BY <3>1
    <3>3. QED BY <2>1, <2>3, <3>2 DEF LookUpLatest, ConsumeNonce
  <2>4. CASE CreatePending(h) \/ PrepareResubmit(h)
    <3>1. Proceed(h, Idle) \/ \E r : Proceed(h, [phase |-> "upstream", row |-> r])
      BY <2>4 DEF CreatePending, PrepareResubmit, CallUpstream
    <3>2. \A r : [phase |-> "upstream", row |-> r].phase = "upstream"
      OBVIOUS
    <3>3. QED BY <2>1, <3>1, <3>2
  <2>5. CASE Answer(h) \/ Drop(h) \/ Link(h)
    BY <2>1, <2>5 DEF Answer, Drop, Link
  <2>6. QED BY <1>2, <2>2, <2>3, <2>4, <2>5 DEF CreateStep
<1>3. CASE \E h \in Handlers : CreateStep(h) \/ Drop(h) \/ PrepareResubmit(h) \/ Link(h)
  BY <1>1, <1>2, <1>3
<1>4. CASE \E h \in Handlers, r \in Rows : BeginLink(h, r)
  <2>1. PICK h \in Handlers, r \in Rows : Proceed(h, [phase |-> "link", row |-> r])
    BY <1>4 DEF BeginLink
  <2>2. [phase |-> "link", row |-> r].phase = "link"
    OBVIOUS
  <2>3. QED BY <1>1, <2>1, <2>2
<1>5. CASE \E h \in Handlers, r \in Rows, force \in BOOLEAN : BeginResubmit(h, r, force)
  <2>1. PICK h \in Handlers, r \in Rows :
               /\ row[r].status \in {"failed", "submitted"}
               /\ Proceed(h, [phase |-> "resubmit", row |-> r, saw |-> row[r].status])
    BY <1>5 DEF BeginResubmit, Resubmits
  <2>2. QED BY <2>1, SawStays
<1>6. CASE Restart
  BY <1>6, IdleTyped DEF Restart, ResubmitSaw
<1>7. CASE UNCHANGED handler
  BY <1>7 DEF ResubmitSaw
<1>8. CASE \/ IssueNonce \/ NonceExpires \/ StatusWorker \/ StalledWorker
           \/ \E r \in Rows, s \in Statuses, address \in BOOLEAN : Override(r, s, address)
           \/ \E r \in Rows, url \in BOOLEAN : Import(r, url)
           \/ \E r \in Rows : BecomesDue(r) \/ BecomesStale(r)
           \/ UNCHANGED safeVars
  BY <1>7, <1>8 DEF IssueNonce, NonceExpires, Override, Import, StatusWorker, FetchDue,
                    PollStatus, ScheduleRetry, StalledWorker, FetchStalled, RetryStalled,
                    AnswerRetry, BecomesDue, BecomesStale, safeVars
<1>9. QED BY <1>3, <1>4, <1>5, <1>6, <1>8 DEF SafesNext, AdminStep

\* A ready request stays ready unless an admin overrides it, an answer that was waited for
\* fails, or somebody writes by the id of a request that was not ready when it was read.
THEOREM AReadyRequestStays == SafesSpec => ReadyStays
<1>1. SafesInit => ResubmitSaw
  BY IdleTyped DEF SafesInit, ResubmitSaw
<1>2. SafesTypeOK /\ ResubmitSaw /\ [SafesNext]_safeVars => ResubmitSaw'
  BY SawStep
<1>3. SafesTypeOK /\ ResubmitSaw /\ [SafesNext]_safeVars => ReadyKept
  BY CreateReady, AdminReady, StatusWorkerReady, StalledWorkerReady, OthersReady
     DEF SafesNext
<1>4. ReadyKept =>
        [\A r \in Rows :
            Exists(r) /\ row[r].status = "ready" /\ row'[r].status # "ready" =>
              \/ \E s \in Statuses, address \in BOOLEAN : Override(r, s, address)
              \/ \E h \in Handlers :
                    /\ handler[h].phase \in {"upstream", "resubmit"}
                    /\ handler[h].row = r
                    /\ handler[h].phase = "resubmit" => handler[h].saw # "ready"
              \/ \E job \in (polling \ polling') \cup (stalled \ stalled') :
                    job.row = r /\ job.saw # "ready"]_safeVars
  BY Zenon DEF ReadyKept, Excused
<1>5. QED BY <1>1, <1>2, <1>3, <1>4, SafesTypeCorrect, PTL DEF SafesSpec, ReadyStays

-----------------------------------------------------------------------------
(* SafeWorker, for every set of requests, keys and bodies.                  *)

\* The address that a key decides.
KeyAddress(k) == <<"key", k>>
Addresses == {<<>>} \cup {KeyAddress(k) : k \in IdempotencyKeys}
                    \cup {fakeAddress(k, b) : k \in IdempotencyKeys, b \in Bodies}
Requests == [key : IdempotencyKeys, body : Bodies, safe : Addresses,
             phase : {"begun", "signed", "confirming", "confirmed", "ready", "failed"}]

\* Every variable in its set.
WorkerTyped ==
  /\ call \in [Calls -> {Unborn} \cup Requests]
  /\ pool \subseteq [call : Calls, safe : Addresses, key : IdempotencyKeys, body : Bodies]
  /\ safes \subseteq [at : Addresses, key : IdempotencyKeys, body : Bodies]
  /\ funds \in 0 .. Funds /\ dryRun \in BOOLEAN

\* A dry run sends nothing, and what goes on was checked.
Checked ==
  \A c \in Calls : call[c].phase \in {"begun", "signed", "confirming", "confirmed"}
                     => ~dryRun /\ call[c].body \notin BadThreshold

\* A transaction makes the account of its request's key, and is that request's only one.
PoolIsAsked ==
  /\ \A t \in pool : /\ t.safe = KeyAddress(t.key) /\ t.body \notin BadThreshold
                     /\ call[t.call].phase \in {"confirming", "confirmed", "ready", "failed"}
                     /\ call[t.call].key = t.key
  /\ \A t, u \in pool : t.call = u.call => t = u

\* A Safe is where its key puts it, and no two are in one place.
SafesInPlace ==
  /\ \A s \in safes : s.at = KeyAddress(s.key) /\ s.body \notin BadThreshold
  /\ \A r, s \in safes : r.at = s.at => r = s

\* An answer is the key's address, or the dry run's.
AnswersAgree ==
  \A c \in Calls : At(c, "ready")
    => call[c].safe = IF dryRun THEN fakeAddress(call[c].key, call[c].body)
                      ELSE KeyAddress(call[c].key)

\* A confirmed or answered request has its Safe, or the money is gone.
ConfirmedExists ==
  \A c \in Calls : call[c].phase \in {"confirmed", "ready"} /\ ~dryRun
    => isAccountAlreadyInUse(KeyAddress(call[c].key)) \/ funds = 0

WorkerInv == /\ WorkerTyped /\ Checked /\ PoolIsAsked
             /\ SafesInPlace /\ AnswersAgree /\ ConfirmedExists
-----------------------------------------------------------------------------
\* A record with another phase is a request still, and differs in its phase only.
LEMMA MovedRequest ==
    ASSUME WorkerTyped, NEW c \in Calls, call[c] \in Requests,
           NEW p \in {"begun", "signed", "confirming", "confirmed", "ready", "failed"},
           Moves(c, p)
    PROVE  /\ call' \in [Calls -> {Unborn} \cup Requests]
           /\ \A d \in Calls : d # c => call'[d] = call[d]
           /\ call'[c].phase = p /\ call'[c].key = call[c].key
           /\ call'[c].body = call[c].body /\ call'[c].safe = call[c].safe
<1>1. call' = [call EXCEPT ![c] = [call[c] EXCEPT !.phase = p]]
  BY DEF Moves, WorkerTyped
<1>2. [call[c] EXCEPT !.phase = p] \in Requests
  BY DEF Requests
<1>3. call'[c] = [call[c] EXCEPT !.phase = p]
  BY <1>1 DEF WorkerTyped
<1>4. QED BY <1>1, <1>2, <1>3 DEF WorkerTyped, Requests

\* An answered request keeps its key and body and holds the answer.
LEMMA AnsweredRequest ==
    ASSUME WorkerTyped, NEW c \in Calls, call[c] \in Requests,
           NEW a \in Addresses, Answers(c, a)
    PROVE  /\ call' \in [Calls -> {Unborn} \cup Requests]
           /\ \A d \in Calls : d # c => call'[d] = call[d]
           /\ call'[c].phase = "ready" /\ call'[c].key = call[c].key
           /\ call'[c].body = call[c].body /\ call'[c].safe = a
<1> DEFINE answered == [call[c] EXCEPT !.phase = "ready", !.safe = a]
<1>1. call' = [call EXCEPT ![c] = answered]
  BY DEF Answers, WorkerTyped
<1>2. answered \in Requests
  BY DEF Requests
<1>3. call'[c] = answered
  BY <1>1 DEF WorkerTyped
<1>4. QED BY <1>1, <1>2, <1>3 DEF WorkerTyped, Requests

\* A request that has left "new" is a request.
LEMMA BornIsRequest ==
    ASSUME WorkerTyped, NEW c \in Calls, call[c].phase # "new"
    PROVE  call[c] \in Requests
BY DEF WorkerTyped, Unborn

\* The address of a key is an address.
LEMMA CreateKeyAddress ==
    ASSUME NEW c \in Calls, NEW k \in IdempotencyKeys
    PROVE  createKey(c, k) = KeyAddress(k) /\ KeyAddress(k) \in Addresses
BY DEF createKey, KeyAddress, Addresses

\* The handler before it sends.
LEMMA PostAndPrepare ==
    ASSUME WorkerInv, NEW c \in Calls, Post(c) \/ Prepare(c)
    PROVE  WorkerInv'
<1>1. CASE Post(c)
  <2>1. PICK k \in IdempotencyKeys, b \in Bodies :
          call' = [call EXCEPT ![c] =
            [key |-> k, body |-> b,
             phase |-> IF ~CreateBody(b) THEN "failed"
                       ELSE IF dryRun THEN "ready" ELSE "begun",
             safe |-> IF CreateBody(b) /\ dryRun THEN fakeAddress(k, b) ELSE <<>>]]
    BY <1>1 DEF Post
  <2>2. call[c].phase = "new" /\ UNCHANGED <<pool, safes, funds, dryRun>>
    BY <1>1 DEF Post, At
  <2>3. /\ call'[c] \in Requests
        /\ call'[c].key = k /\ call'[c].body = b
        /\ call'[c].phase = IF ~CreateBody(b) THEN "failed"
                            ELSE IF dryRun THEN "ready" ELSE "begun"
        /\ call'[c].phase = "ready" => call'[c].safe = fakeAddress(k, b)
    BY <2>1 DEF WorkerInv, WorkerTyped, Requests, Addresses
  <2>4. \A d \in Calls : d # c => call'[d] = call[d]
    BY <2>1 DEF WorkerInv, WorkerTyped
  <2>5. WorkerTyped'
    BY <2>1, <2>2, <2>3 DEF WorkerInv, WorkerTyped
  <2>6. Checked'
    BY <2>2, <2>3, <2>4 DEF WorkerInv, Checked, CreateBody
  <2>7. PoolIsAsked' /\ SafesInPlace'
    BY <2>2, <2>3, <2>4 DEF WorkerInv, WorkerTyped, PoolIsAsked, SafesInPlace
  <2>8. AnswersAgree' /\ ConfirmedExists'
    BY <2>2, <2>3, <2>4
    DEF WorkerInv, AnswersAgree, ConfirmedExists, At, isAccountAlreadyInUse
  <2>9. QED BY <2>5, <2>6, <2>7, <2>8 DEF WorkerInv
<1>2. CASE Prepare(c)
  <2>1. PICK p \in {"signed", "failed"} : Moves(c, p)
    BY <1>2 DEF Prepare, Refuses
  <2>2. call[c].phase = "begun" /\ UNCHANGED <<pool, safes, funds, dryRun>>
    BY <1>2 DEF Prepare, At
  <2>3. call[c] \in Requests
    BY <2>2, BornIsRequest DEF WorkerInv
  <2>4. /\ call' \in [Calls -> {Unborn} \cup Requests]
        /\ \A d \in Calls : d # c => call'[d] = call[d]
        /\ call'[c].phase = p /\ call'[c].body = call[c].body
    BY <2>1, <2>3, MovedRequest DEF WorkerInv
  <2>5. WorkerTyped' /\ Checked'
    BY <2>2, <2>4 DEF WorkerInv, WorkerTyped, Checked
  <2>6. PoolIsAsked' /\ SafesInPlace'
    BY <2>2, <2>4 DEF WorkerInv, WorkerTyped, PoolIsAsked, SafesInPlace
  <2>7. AnswersAgree' /\ ConfirmedExists'
    BY <2>2, <2>4 DEF WorkerInv, AnswersAgree, ConfirmedExists, At, isAccountAlreadyInUse
  <2>8. QED BY <2>5, <2>6, <2>7 DEF WorkerInv
<1>3. QED BY <1>1, <1>2

\* The handler that answers: from the preflight, or from the confirmation.
LEMMA AnswerStep ==
    ASSUME WorkerInv, NEW c \in Calls, call[c].phase \in {"signed", "confirmed"},
           At(c, "signed") => isAccountAlreadyInUse(createKey(c, call[c].key)),
           Answers(c, createKey(c, call[c].key)),
           UNCHANGED <<pool, safes, funds, dryRun>>
    PROVE  WorkerInv'
<1>1. call[c] \in Requests
  BY BornIsRequest DEF WorkerInv
<1>2. call[c].key \in IdempotencyKeys
  BY <1>1 DEF Requests
<1>3. /\ createKey(c, call[c].key) = KeyAddress(call[c].key)
      /\ KeyAddress(call[c].key) \in Addresses
  BY <1>2, CreateKeyAddress
<1>4. /\ call' \in [Calls -> {Unborn} \cup Requests]
      /\ \A d \in Calls : d # c => call'[d] = call[d]
      /\ call'[c].phase = "ready" /\ call'[c].key = call[c].key
      /\ call'[c].safe = KeyAddress(call[c].key)
  BY <1>1, <1>3, AnsweredRequest DEF WorkerInv
<1>5. WorkerTyped' /\ Checked'
  BY <1>4 DEF WorkerInv, WorkerTyped, Checked
<1>6. PoolIsAsked' /\ SafesInPlace'
  BY <1>4 DEF WorkerInv, WorkerTyped, PoolIsAsked, SafesInPlace
<1>7. ~dryRun
  BY DEF WorkerInv, Checked
<1>8. AnswersAgree'
  BY <1>4, <1>7 DEF WorkerInv, AnswersAgree, At
<1>9. isAccountAlreadyInUse(KeyAddress(call[c].key)) \/ funds = 0
  BY <1>3, <1>7 DEF WorkerInv, ConfirmedExists, At
<1>10. ConfirmedExists'
  BY <1>4, <1>9 DEF WorkerInv, ConfirmedExists, isAccountAlreadyInUse
<1>11. QED BY <1>5, <1>6, <1>8, <1>10 DEF WorkerInv

\* The handler that gives up, wherever it is; what it sent stays in the pool.
LEMMA RefuseStep ==
    ASSUME WorkerInv, NEW c \in Calls, call[c].phase \in {"signed", "confirming", "confirmed"},
           Refuses(c), NEW gone \in SUBSET pool, pool' = pool \ gone,
           UNCHANGED <<safes, funds, dryRun>>
    PROVE  WorkerInv'
<1>1. call[c] \in Requests
  BY BornIsRequest DEF WorkerInv
<1>2. /\ call' \in [Calls -> {Unborn} \cup Requests]
      /\ \A d \in Calls : d # c => call'[d] = call[d]
      /\ call'[c].phase = "failed" /\ call'[c].key = call[c].key
  BY <1>1, MovedRequest DEF WorkerInv, Refuses
<1>3. WorkerTyped' /\ Checked'
  BY <1>2 DEF WorkerInv, WorkerTyped, Checked
<1>4. PoolIsAsked' /\ SafesInPlace'
  BY <1>2 DEF WorkerInv, WorkerTyped, PoolIsAsked, SafesInPlace
<1>5. AnswersAgree' /\ ConfirmedExists'
  BY <1>2 DEF WorkerInv, AnswersAgree, ConfirmedExists, At, isAccountAlreadyInUse
<1>6. QED BY <1>3, <1>4, <1>5 DEF WorkerInv

\* The handler that sends its transaction.
LEMMA SendStep ==
    ASSUME WorkerInv, NEW c \in Calls, At(c, "signed"),
           pool' = pool \cup {[call |-> c, safe |-> createKey(c, call[c].key),
                               key |-> call[c].key, body |-> call[c].body]},
           Moves(c, "confirming"), UNCHANGED <<safes, funds, dryRun>>
    PROVE  WorkerInv'
<1>1. call[c].phase = "signed"
  BY DEF At
<1>2. call[c] \in Requests
  BY <1>1, BornIsRequest DEF WorkerInv
<1>3. /\ call' \in [Calls -> {Unborn} \cup Requests]
      /\ \A d \in Calls : d # c => call'[d] = call[d]
      /\ call'[c].phase = "confirming" /\ call'[c].key = call[c].key
      /\ call'[c].body = call[c].body
  BY <1>2, MovedRequest DEF WorkerInv
<1>4. /\ call[c].key \in IdempotencyKeys /\ call[c].body \in Bodies
      /\ createKey(c, call[c].key) = KeyAddress(call[c].key)
      /\ KeyAddress(call[c].key) \in Addresses
  BY <1>2, CreateKeyAddress DEF Requests
<1>5. ~dryRun /\ call[c].body \notin BadThreshold
  BY <1>1 DEF WorkerInv, Checked
<1>6. WorkerTyped'
  BY <1>3, <1>4 DEF WorkerInv, WorkerTyped
<1>7. Checked' /\ SafesInPlace'
  BY <1>3, <1>5 DEF WorkerInv, Checked, SafesInPlace
<1>8. \A t \in pool : t.call \in Calls /\ t.call # c
  BY <1>1 DEF WorkerInv, PoolIsAsked, WorkerTyped
<1>9. PoolIsAsked'
  BY <1>3, <1>4, <1>5, <1>8 DEF WorkerInv, PoolIsAsked
<1>10. AnswersAgree' /\ ConfirmedExists'
  BY <1>3 DEF WorkerInv, AnswersAgree, ConfirmedExists, At, isAccountAlreadyInUse
<1>11. QED BY <1>6, <1>7, <1>9, <1>10 DEF WorkerInv

\* The cluster executes a transaction; its handler, if it still waits, sees it confirmed.
LEMMA ExecuteStep ==
    ASSUME WorkerInv, WorkerAssumption, NEW t \in pool, Executes(t)
    PROVE  WorkerInv'
<1> DEFINE made == [at |-> t.safe, key |-> t.key, body |-> t.body]
<1>1. /\ t.call \in Calls /\ t.safe \in Addresses /\ t.key \in IdempotencyKeys /\ t.body \in Bodies
      /\ t.safe = KeyAddress(t.key) /\ t.body \notin BadThreshold
      /\ call[t.call].key = t.key /\ call[t.call].phase # "new"
  BY DEF WorkerInv, WorkerTyped, PoolIsAsked
<1>2. call[t.call] \in Requests
  BY <1>1, BornIsRequest DEF WorkerInv
<1>3. \/ /\ ~isAccountAlreadyInUse(t.safe)
         /\ safes' = safes \cup {made} /\ funds' = funds - 1 /\ funds > 0
      \/ /\ isAccountAlreadyInUse(t.safe) \/ funds = 0
         /\ UNCHANGED <<safes, funds>>
  BY DEF Executes, WorkerInv, WorkerTyped, WorkerAssumption
<1>4. dryRun' = dryRun /\ pool' = pool \ {t}
  BY DEF Executes
<1>5. /\ call' \in [Calls -> {Unborn} \cup Requests]
      /\ \A d \in Calls : /\ call'[d].key = call[d].key /\ call'[d].body = call[d].body
                          /\ call'[d].safe = call[d].safe
                          /\ \/ call'[d].phase = call[d].phase
                             \/ /\ d = t.call /\ call[d].phase = "confirming"
                                /\ call'[d].phase = "confirmed"
  <2>1. CASE At(t.call, "confirming")
    <3>1. Moves(t.call, "confirmed")
      BY <2>1 DEF Executes
    <3>2. QED BY <1>1, <1>2, <2>1, <3>1, MovedRequest DEF WorkerInv, At
  <2>2. CASE ~At(t.call, "confirming")
    BY <2>2 DEF Executes, WorkerInv, WorkerTyped
  <2>3. QED BY <2>1, <2>2
<1>6. safes' \subseteq [at : Addresses, key : IdempotencyKeys, body : Bodies] /\ funds' \in 0 .. Funds
  BY <1>1, <1>3 DEF WorkerInv, WorkerTyped, WorkerAssumption
<1>7. WorkerTyped'
  BY <1>4, <1>5, <1>6 DEF WorkerInv, WorkerTyped
<1>8. Checked' /\ AnswersAgree'
  BY <1>4, <1>5 DEF WorkerInv, Checked, AnswersAgree, At
<1>9. PoolIsAsked'
  BY <1>4, <1>5 DEF WorkerInv, WorkerTyped, PoolIsAsked
<1>10. SafesInPlace'
  BY <1>1, <1>3 DEF WorkerInv, SafesInPlace, isAccountAlreadyInUse
<1>11. (\E s \in safes' : s.at = t.safe) \/ funds' = 0
  <2>1. CASE safes' = safes \cup {made}
    <3>1. made \in safes' /\ made.at = t.safe
      BY <2>1
    <3>2. QED BY <3>1
  <2>2. CASE (isAccountAlreadyInUse(t.safe) \/ funds = 0) /\ UNCHANGED <<safes, funds>>
    BY <2>2 DEF isAccountAlreadyInUse
  <2>3. QED BY <1>3, <2>1, <2>2
<1>12. safes \subseteq safes' /\ (funds = 0 => funds' = 0)
  BY <1>3
<1>13. ConfirmedExists'
  <2> SUFFICES ASSUME NEW d \in Calls, call'[d].phase \in {"confirmed", "ready"}, ~dryRun,
                      funds' # 0
               PROVE  \E s \in safes' : s.at = KeyAddress(call[d].key)
    BY <1>4, <1>5 DEF ConfirmedExists, isAccountAlreadyInUse
  <2>1. CASE d = t.call
    BY <1>1, <1>11, <2>1
  <2>2. CASE d # t.call
    BY <1>5, <1>12, <2>2 DEF WorkerInv, ConfirmedExists, isAccountAlreadyInUse
  <2>3. QED BY <2>1, <2>2
<1>14. QED BY <1>7, <1>8, <1>9, <1>10, <1>13 DEF WorkerInv

\* Every step keeps the invariant.
LEMMA WorkerStep ==
    ASSUME WorkerInv, WorkerAssumption, WorkerNext
    PROVE  WorkerInv'
<1>1. CASE \E t \in pool : Executes(t)
  BY <1>1, ExecuteStep
<1>2. ASSUME NEW t \in pool, Expires(t)
      PROVE  WorkerInv'
  <2>1. CASE At(t.call, "confirming")
    <3>1. t.call \in Calls /\ {t} \in SUBSET pool
      BY DEF WorkerInv, WorkerTyped
    <3>2. Refuses(t.call) /\ pool' = pool \ {t} /\ UNCHANGED <<safes, funds, dryRun>>
      BY <1>2, <2>1 DEF Expires
    <3>3. QED BY <2>1, <3>1, <3>2, RefuseStep DEF At
  <2>2. CASE ~At(t.call, "confirming")
    <3>1. pool' = pool \ {t} /\ UNCHANGED <<call, safes, funds, dryRun>>
      BY <1>2, <2>2 DEF Expires
    <3>2. QED
      BY <3>1
      DEF WorkerInv, WorkerTyped, Checked, PoolIsAsked, SafesInPlace, AnswersAgree,
          ConfirmedExists, At, isAccountAlreadyInUse
  <2>3. QED BY <2>1, <2>2
<1>3. ASSUME NEW c \in Calls, sendRawTransaction(c)
      PROVE  WorkerInv'
  <2>1. At(c, "signed") /\ call[c].phase = "signed" /\ UNCHANGED <<safes, funds, dryRun>>
    BY <1>3 DEF sendRawTransaction, At
  <2>2. \/ /\ isAccountAlreadyInUse(createKey(c, call[c].key))
           /\ Answers(c, createKey(c, call[c].key)) /\ UNCHANGED pool
        \/ /\ pool' = pool \cup {[call |-> c, safe |-> createKey(c, call[c].key),
                                  key |-> call[c].key, body |-> call[c].body]}
           /\ Moves(c, "confirming")
        \/ Refuses(c) /\ pool' = pool \ {}
    BY <1>3 DEF sendRawTransaction
  <2>3. QED BY <2>1, <2>2, AnswerStep, SendStep, RefuseStep
<1>4. ASSUME NEW c \in Calls, Interrupted(c)
      PROVE  WorkerInv'
  <2>1. /\ call[c].phase \in {"signed", "confirming", "confirmed"} /\ Refuses(c)
        /\ {} \in SUBSET pool /\ pool' = pool \ {} /\ UNCHANGED <<safes, funds, dryRun>>
    BY <1>4 DEF Interrupted
  <2>2. QED BY <2>1, RefuseStep
<1>5. ASSUME NEW c \in Calls, confirms(c)
      PROVE  WorkerInv'
  BY <1>5, AnswerStep DEF confirms, At
<1>6. QED BY <1>1, <1>2, <1>3, <1>4, <1>5, PostAndPrepare
          DEF WorkerNext, Cluster, Handler

\* The invariant holds in every reachable state.
LEMMA WorkerInvariant == WorkerSpec => []WorkerInv
<1>1. WorkerInit => WorkerInv
  BY WorkerAssumption
  DEF WorkerInit, WorkerInv, WorkerTyped, Checked, PoolIsAsked, SafesInPlace, AnswersAgree,
      ConfirmedExists, Unborn, At
<1>2. WorkerInv /\ [WorkerNext]_safeWorkerVars => WorkerInv'
  <2>1. WorkerInv /\ UNCHANGED safeWorkerVars => WorkerInv'
    BY DEF safeWorkerVars, WorkerInv, WorkerTyped, Checked, PoolIsAsked, SafesInPlace,
           AnswersAgree, ConfirmedExists, At, isAccountAlreadyInUse
  <2>2. QED BY <2>1, WorkerStep, WorkerAssumption
<1>3. QED BY <1>1, <1>2, PTL DEF WorkerSpec

\* However often and from however many instances a request is made with its key, one
\* Safe at most is made for the key and every answer names it: createOnChain's seed.
THEOREM AKeyNamesOneSafe == WorkerSpec => []KeyNamesOneSafe
<1>1. WorkerInv => KeyNamesOneSafe
  <2> SUFFICES ASSUME WorkerInv PROVE KeyNamesOneSafe
    OBVIOUS
  <2>1. WorkerTypeOK
    BY DEF WorkerInv, WorkerTyped, Requests, PoolIsAsked, SafesInPlace, WorkerTypeOK
  <2>2. \A r, s \in safes : r.key = s.key => r = s
    BY DEF WorkerInv, SafesInPlace
  <2>3. ASSUME NEW c \in Calls, NEW d \in Calls, Ready(c), Ready(d),
               call[c].key = call[d].key
        PROVE  call[c].safe = call[d].safe \/ (dryRun /\ call[c].body # call[d].body)
    BY <2>3 DEF WorkerInv, AnswersAgree, Ready
  <2>4. QED BY <2>1, <2>2, <2>3 DEF KeyNamesOneSafe, OneSafePerKey
<1>2. QED BY <1>1, WorkerInvariant, PTL

\* An answer names a Safe that is on the chain for its key, unless the signer's money ran
\* out between a preflight and the execution: confirmTransaction's unread error.
THEOREM AReadySafeExists == WorkerSpec => []ReadyIsCreated
<1>1. WorkerInv => ReadyIsCreated
  <2> SUFFICES ASSUME WorkerInv, NEW c \in Calls, Ready(c), ~dryRun, funds # 0
               PROVE  \E s \in safes : s.at = call[c].safe /\ s.key = call[c].key
    BY DEF ReadyIsCreated
  <2>1. call[c].phase = "ready" /\ call[c].safe = KeyAddress(call[c].key)
    BY DEF WorkerInv, AnswersAgree, Ready, At
  <2>2. PICK s \in safes : s.at = KeyAddress(call[c].key)
    BY <2>1 DEF WorkerInv, ConfirmedExists, isAccountAlreadyInUse
  <2>3. KeyAddress(s.key) = KeyAddress(call[c].key)
    BY <2>2 DEF WorkerInv, SafesInPlace
  <2>4. s.key = call[c].key
    BY <2>3 DEF KeyAddress
  <2>5. QED BY <2>1, <2>2, <2>4
<1>2. QED BY <1>1, WorkerInvariant, PTL
=============================================================================
