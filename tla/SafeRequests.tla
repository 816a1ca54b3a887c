---------------------------- MODULE SafeRequests ----------------------------
(***************************************************************************)
(* The Squads Safe requests of attn_api (main.rs, squads.rs): the table of *)
(* requests of one creator on one cluster, one row for each attn wallet,   *)
(* and those who write to it by the row's id: the handlers of the HTTP     *)
(* routes, the worker that polls the status of submitted requests and the  *)
(* worker that retries stalled ones.  Each SQL statement or transaction is *)
(* one action; everything else is a wait during which the others run.  The *)
(* service that makes the Safes is external: it answers, or fails, when it *)
(* will, and a call is told apart by the idempotency key it carries.       *)
(***************************************************************************)
EXTENDS Integers, FiniteSets

CONSTANTS
    Rows,          \* attn wallets; a row's own id stands for its uuid
    Keys,          \* Idempotency-Key headers that clients send
    Handlers,      \* requests in progress at once
    None,          \* SQL's null
    STALLED_MAX_AUTO_ATTEMPTS,
    MaxNonces,     \* bound on the nonces issued
    MaxActs,       \* bound on what admins and importers do
    MaxRestarts    \* bound on the restarts of attn_api

VARIABLES
    row,        \* [Rows -> the request, or None]
    latest,     \* the row created last
    nonce,      \* the creator's live nonce, 0 for none
    issued,     \* nonces issued
    handler,    \* what each request in progress will do next
    polling,    \* jobs of the status worker, as it read them
    stalled,    \* jobs of the stalled-request worker, as it read them
    retrying,   \* the row whose retry it awaits, or None
    failing,    \* the row the status worker has failed and will reschedule
    acts, restarts,
    asked,      \* history: keys with which a row's Safe was asked for
    auto        \* history: automatic retries since a row was made or imported

workerVars  == <<polling, stalled, retrying, failing>>
historyVars == <<asked, auto>>
countVars   == <<acts, restarts>>
safeVars == <<row, latest, nonce, issued, handler, workerVars, countVars,
              historyVars>>

Statuses == {"pending", "submitted", "ready", "failed"}

\* next_retry_at is null, ahead of now, or past; fresh tells whether
\* last_attempt_at is less than STALLED_STALE_SECS old; address and url
\* whether safe_address and status_url are set.
RowType ==
    [status : Statuses, address : BOOLEAN, url : BOOLEAN,
     key : Keys \cup {None}, attempts : Nat \ {0},
     retry : {"null", "later", "due"}, fresh : BOOLEAN, linked : BOOLEAN]

ASSUME SafesAssumption ==
    /\ None \notin Rows \cup Keys \cup RowType
    /\ STALLED_MAX_AUTO_ATTEMPTS \in Nat
    /\ MaxNonces \in Nat /\ MaxActs \in Nat /\ MaxRestarts \in Nat

Idle == [phase |-> "idle"]

Exists(r) == row[r] # None

SafesInit ==
    /\ row = [r \in Rows |-> None]
    /\ latest = None
    /\ nonce = 0 /\ issued = 0
    /\ handler = [h \in Handlers |-> Idle]
    /\ polling = {} /\ stalled = {}
    /\ retrying = None /\ failing = None
    /\ acts = 0 /\ restarts = 0
    /\ asked = [r \in Rows |-> {}]
    /\ auto = [r \in Rows |-> 0]

-----------------------------------------------------------------------------
(* The statements of the repository, as the new value of a row.            *)

\* Mutant: a retry without a key forgets the key of the first attempt.
ResetKeyless(old, key) ==
    [old EXCEPT !.status = "pending", !.address = FALSE, !.url = FALSE,
                !.key = key, !.attempts = @ + 1,
                !.retry = "later", !.fresh = TRUE]

\* create_pending on a request that is not ready.
Reset(old, key) ==
    [old EXCEPT !.status = "pending", !.address = FALSE, !.url = FALSE,
                !.key = IF key = None THEN @ ELSE key, !.attempts = @ + 1,
                !.retry = "later", !.fresh = TRUE]

NewRow(key) ==
    [status |-> "pending", address |-> FALSE, url |-> FALSE, key |-> key,
     attempts |-> 1, retry |-> "later", fresh |-> TRUE, linked |-> FALSE]

\* Mutant: the attempt is not counted.
PreparedUncounted(old) ==
    [old EXCEPT !.status = "pending", !.retry = "later", !.fresh = TRUE]

\* prepare_for_resubmit.
Prepared(old) ==
    [old EXCEPT !.status = "pending", !.attempts = @ + 1,
                !.retry = "later", !.fresh = TRUE]

\* update_submission: the client never leaves safe_address empty, an answer
\* that names no Safe is given a generated address.
Submitted(old, url) ==
    [old EXCEPT !.status = "ready", !.address = TRUE, !.url = url,
                !.retry = "null", !.fresh = TRUE]

\* mark_failure.
Failed(old) ==
    [old EXCEPT !.status = "failed", !.retry = "later", !.fresh = TRUE]

\* upsert_imported_safe.
Imported(old, url) ==
    [old EXCEPT !.status = "ready", !.address = TRUE, !.url = url,
                !.attempts = 1, !.retry = "null", !.fresh = TRUE]

\* mark_status_ready, its addresses coalesced.
PolledReady(old, address) ==
    [old EXCEPT !.status = "ready", !.address = @ \/ address, !.retry = "null"]

KeyOf(r, q) == IF q.key = None THEN r ELSE q.key

Write(r, q) == row' = [row EXCEPT ![r] = q]

Proceed(h, next) == handler' = [handler EXCEPT ![h] = next]

\* Row r is asked for upstream, as q.
Ask(r, q) == asked' = [asked EXCEPT ![r] = @ \cup {KeyOf(r, q)}]

Act == acts < MaxActs /\ acts' = acts + 1

-----------------------------------------------------------------------------
(* create_squads_safe and the nonces.                                      *)

IssueNonce ==
    /\ issued < MaxNonces
    /\ issued' = issued + 1
    /\ nonce' = issued + 1
    /\ UNCHANGED <<row, latest, handler, workerVars, countVars, historyVars>>

NonceExpires ==
    /\ nonce # 0
    /\ nonce' = 0
    /\ UNCHANGED <<row, latest, issued, handler, workerVars, countVars,
                   historyVars>>

\* find_by_idempotency finds no request: else it is the answer.
BeginCreate(h, r, key, n) ==
    /\ handler[h] = Idle
    /\ key # None => \A s \in Rows : Exists(s) => row[s].key # key
    /\ Proceed(h, [phase |-> "latest", row |-> r, key |-> key, nonce |-> n])
    /\ UNCHANGED <<row, latest, nonce, issued, workerVars, countVars,
                   historyVars>>

\* find_latest_by_creator_and_cluster: one that has not failed is the answer.
LookUpLatest(h) ==
    /\ handler[h].phase = "latest"
    /\ IF latest # None /\ row[latest].status # "failed"
       THEN Proceed(h, Idle)
       ELSE Proceed(h, [handler[h] EXCEPT !.phase = "nonce"])
    /\ UNCHANGED <<row, latest, nonce, issued, workerVars, countVars,
                   historyVars>>

\* Mutant: the nonce is looked up and not deleted.
ConsumeKept(h) ==
    /\ handler[h].phase = "nonce"
    /\ IF handler[h].nonce = nonce
       THEN Proceed(h, [handler[h] EXCEPT !.phase = "insert"])
       ELSE Proceed(h, Idle)
    /\ UNCHANGED <<row, latest, nonce, issued, workerVars, countVars,
                   historyVars>>

\* consume_nonce, a single delete.
ConsumeNonce(h) ==
    /\ handler[h].phase = "nonce"
    /\ IF handler[h].nonce = nonce
       THEN /\ nonce' = 0
            /\ Proceed(h, [handler[h] EXCEPT !.phase = "insert"])
       ELSE /\ Proceed(h, Idle)
            /\ UNCHANGED nonce
    /\ UNCHANGED <<row, latest, issued, workerVars, countVars, historyVars>>

\* A statement returned q, and the handler asks the service for its Safe.
CallUpstream(h, r, q) ==
    /\ Ask(r, q)
    /\ Proceed(h, [phase |-> "upstream", row |-> r])

KeyIsFree(r, key) ==
    key # None => \A s \in Rows \ {r} : Exists(s) => row[s].key # key

\* The transaction of create_pending.  A ready request is returned as it is,
\* and the handler goes on with it.  The unique indexes refuse a key that
\* another row took, and the second of two insertions.
CreatePending(h) ==
    /\ handler[h].phase = "insert"
    /\ LET r   == handler[h].row
           key == handler[h].key
       IN  \/ /\ ~Exists(r) /\ KeyIsFree(r, key)
              /\ Write(r, NewRow(key))
              /\ latest' = r
              /\ auto' = [auto EXCEPT ![r] = 0]
              /\ CallUpstream(h, r, NewRow(key))
           \/ /\ Exists(r) /\ row[r].status # "ready" /\ KeyIsFree(r, key)
              /\ Write(r, Reset(row[r], key))
              /\ CallUpstream(h, r, Reset(row[r], key))
              /\ UNCHANGED <<latest, auto>>
           \/ /\ Exists(r) /\ row[r].status = "ready"
              /\ CallUpstream(h, r, row[r])
              /\ UNCHANGED <<row, latest, auto>>
           \/ /\ Exists(r) \/ ~KeyIsFree(r, key)
              /\ Proceed(h, Idle)
              /\ UNCHANGED <<row, latest, historyVars>>
    /\ UNCHANGED <<nonce, issued, workerVars, countVars>>

\* The service answers a creation or a resubmission, or it fails; the row is
\* written by its id, whatever became of it.
Answer(h) ==
    /\ handler[h].phase = "upstream"
    /\ LET r == handler[h].row
       IN  \/ \E url \in BOOLEAN : Write(r, Submitted(row[r], url))
           \/ Write(r, Failed(row[r]))
    /\ Proceed(h, Idle)
    /\ UNCHANGED <<latest, nonce, issued, workerVars, countVars, historyVars>>

-----------------------------------------------------------------------------
(* The routes of admins and importers.                                     *)

\* Mutant: a request of any status may be resubmitted.
ResubmitsAny(q, force) == force \/ q.retry # "later"

\* Only failed or submitted requests, and not before next_retry_at.
Resubmits(q, force) ==
    /\ q.status \in {"failed", "submitted"}
    /\ force \/ q.retry # "later"

\* resubmit_squads_safe, up to its check of the request.
BeginResubmit(h, r, force) ==
    /\ handler[h] = Idle
    /\ Act
    /\ Exists(r) /\ Resubmits(row[r], force)
    /\ Proceed(h, [phase |-> "resubmit", row |-> r, saw |-> row[r].status])
    /\ UNCHANGED <<row, latest, nonce, issued, workerVars, restarts,
                   historyVars>>

PrepareResubmit(h) ==
    /\ handler[h].phase = "resubmit"
    /\ LET r == handler[h].row
           q == Prepared(row[r])
       IN  Write(r, q) /\ CallUpstream(h, r, q)
    /\ UNCHANGED <<latest, nonce, issued, workerVars, countVars, auto>>

\* override_squads_safe_status: a ready request needs an address.
Override(r, status, address) ==
    /\ Act
    /\ Exists(r)
    /\ status = "ready" => address
    /\ Write(r, [row[r] EXCEPT !.status = status, !.address = address])
    /\ UNCHANGED <<latest, nonce, issued, handler, workerVars, restarts,
                   historyVars>>

\* import_squads_safe updates the row of the pair.  Without one it inserts ON CONFLICT ON
\* CONSTRAINT, of a name that is an index on expressions (migration 006) and no
\* constraint: the database refuses the statement, and nothing is written.
Import(r, url) ==
    /\ Act
    /\ Exists(r)
    /\ Write(r, Imported(row[r], url))
    /\ auto' = [auto EXCEPT ![r] = 0]
    /\ UNCHANGED <<latest, nonce, issued, handler, workerVars, restarts, asked>>

\* link_squads_safe_governance looks at the address alone, then writes.
BeginLink(h, r) ==
    /\ handler[h] = Idle
    /\ Act
    /\ Exists(r) /\ row[r].address
    /\ Proceed(h, [phase |-> "link", row |-> r])
    /\ UNCHANGED <<row, latest, nonce, issued, workerVars, restarts,
                   historyVars>>

Link(h) ==
    /\ handler[h].phase = "link"
    /\ Write(handler[h].row, [row[handler[h].row] EXCEPT !.linked = TRUE])
    /\ Proceed(h, Idle)
    /\ UNCHANGED <<latest, nonce, issued, workerVars, countVars, historyVars>>

-----------------------------------------------------------------------------
(* The status worker.                                                      *)

\* Mutant: requests of any status are polled.
DueAny(r) == Exists(r) /\ row[r].url /\ row[r].retry = "due"

\* find_due_status_checks.
Due(r) ==
    Exists(r) /\ row[r].status = "submitted" /\ row[r].url /\ row[r].retry = "due"

\* The batch, each job with the request as it was read.
FetchDue ==
    /\ polling = {} /\ failing = None
    /\ \E r \in Rows : Due(r)
    /\ polling' = {[row |-> r, saw |-> row[r].status, address |-> row[r].address]
                      : r \in {s \in Rows : Due(s)}}
    /\ UNCHANGED <<row, latest, nonce, issued, handler, stalled, retrying,
                   failing, countVars, historyVars>>

\* process_status_job, from the answer of the status URL on: it may be an
\* error, a Safe that is ready, named or not, one that failed, or neither.
PollStatus(job) ==
    /\ job \in polling /\ failing = None
    /\ polling' = polling \ {job}
    /\ LET r == job.row
       IN  \/ /\ Write(r, [row[r] EXCEPT !.retry = "later"])
              /\ UNCHANGED failing
           \/ \E named \in BOOLEAN :
                 /\ Write(r, PolledReady(row[r], named \/ job.address))
                 /\ UNCHANGED failing
           \/ /\ ~job.address
              /\ Write(r, [row[r] EXCEPT !.status = "failed", !.retry = "null"])
              /\ failing' = r
           \/ /\ ~job.address
              /\ Write(r, [row[r] EXCEPT !.status = "submitted",
                                         !.retry = "later"])
              /\ UNCHANGED failing
    /\ UNCHANGED <<latest, nonce, issued, handler, stalled, retrying,
                   countVars, historyVars>>

\* schedule_status_retry, the second statement of a failure.
ScheduleRetry ==
    /\ failing # None
    /\ Write(failing, [row[failing] EXCEPT !.retry = "later"])
    /\ failing' = None
    /\ UNCHANGED <<latest, nonce, issued, handler, polling, stalled, retrying,
                   countVars, historyVars>>

-----------------------------------------------------------------------------
(* The stalled-request worker.                                             *)

\* Still waiting for an answer that may never come.
Unanswered(r) ==
    Exists(r) /\ \/ row[r].status = "pending"
                 \/ row[r].status = "submitted" /\ ~row[r].url

\* Mutant: a request whose next retry is due at no time is left out.
StalledIfDue(r) == Unanswered(r) /\ row[r].retry = "due" /\ ~row[r].fresh

\* find_stalled_requests.
Stalled(r) == Unanswered(r) /\ row[r].retry # "later" /\ ~row[r].fresh

FetchStalled ==
    /\ stalled = {} /\ retrying = None
    /\ \E r \in Rows : Stalled(r)
    /\ stalled' = {[row |-> r, saw |-> row[r].status, attempts |-> row[r].attempts]
                      : r \in {s \in Rows : Stalled(s)}}
    /\ UNCHANGED <<row, latest, nonce, issued, handler, polling, retrying,
                   failing, countVars, historyVars>>

\* process_stalled_safe decides on the attempts it read.
RetryStalled(job) ==
    /\ job \in stalled /\ retrying = None
    /\ stalled' = stalled \ {job}
    /\ LET r == job.row
       IN  IF job.attempts >= STALLED_MAX_AUTO_ATTEMPTS
           THEN /\ Write(r, Failed(row[r]))
                /\ UNCHANGED <<retrying, historyVars>>
           ELSE /\ Write(r, Prepared(row[r]))
                /\ retrying' = r
                /\ Ask(r, Prepared(row[r]))
                /\ auto' = [auto EXCEPT ![r] = @ + 1]
    /\ UNCHANGED <<latest, nonce, issued, handler, polling, failing, countVars>>

\* The service answers the retry; an error leaves the request pending.
AnswerRetry ==
    /\ retrying # None
    /\ \/ \E url \in BOOLEAN : Write(retrying, Submitted(row[retrying], url))
       \/ UNCHANGED row
    /\ retrying' = None
    /\ UNCHANGED <<latest, nonce, issued, handler, polling, stalled, failing,
                   countVars, historyVars>>

-----------------------------------------------------------------------------
(* Time, clients that leave, and restarts.                                 *)

BecomesDue(r) ==
    /\ Exists(r) /\ row[r].retry = "later"
    /\ Write(r, [row[r] EXCEPT !.retry = "due"])
    /\ UNCHANGED <<latest, nonce, issued, handler, workerVars, countVars,
                   historyVars>>

\* Every back-off is shorter than STALLED_STALE_SECS.
BecomesStale(r) ==
    /\ Exists(r) /\ row[r].fresh /\ row[r].retry # "later"
    /\ Write(r, [row[r] EXCEPT !.fresh = FALSE])
    /\ UNCHANGED <<latest, nonce, issued, handler, workerVars, countVars,
                   historyVars>>

\* A check of the handler fails (signature, wallets on chain) or its client
\* leaves, at any of its waits.
Drop(h) ==
    /\ handler[h] # Idle
    /\ Proceed(h, Idle)
    /\ UNCHANGED <<row, latest, nonce, issued, workerVars, countVars,
                   historyVars>>

\* attn_api restarts; the table is all that stays.
Restart ==
    /\ restarts < MaxRestarts
    /\ restarts' = restarts + 1
    /\ handler' = [h \in Handlers |-> Idle]
    /\ polling' = {} /\ stalled' = {}
    /\ retrying' = None /\ failing' = None
    /\ UNCHANGED <<row, latest, nonce, issued, acts, historyVars>>

-----------------------------------------------------------------------------
CreateStep(h) ==
    \/ \E r \in Rows, key \in Keys \cup {None}, n \in 1..issued :
          BeginCreate(h, r, key, n)
    \/ LookUpLatest(h)
    \/ ConsumeNonce(h)
    \/ CreatePending(h)
    \/ Answer(h)

AdminStep ==
    \/ \E h \in Handlers, r \in Rows, force \in BOOLEAN :
          BeginResubmit(h, r, force)
    \/ \E h \in Handlers : PrepareResubmit(h) \/ Link(h)
    \/ \E h \in Handlers, r \in Rows : BeginLink(h, r)
    \/ \E r \in Rows, s \in Statuses, address \in BOOLEAN :
          Override(r, s, address)
    \/ \E r \in Rows, url \in BOOLEAN : Import(r, url)

StatusWorker ==
    FetchDue \/ (\E job \in polling : PollStatus(job)) \/ ScheduleRetry

StalledWorker ==
    FetchStalled \/ (\E job \in stalled : RetryStalled(job)) \/ AnswerRetry

SafesNext ==
    \/ IssueNonce \/ NonceExpires
    \/ \E h \in Handlers : CreateStep(h) \/ Drop(h)
    \/ AdminStep
    \/ StatusWorker \/ StalledWorker
    \/ \E r \in Rows : BecomesDue(r) \/ BecomesStale(r)
    \/ Restart

\* Time passes, and the stalled-request worker goes on as long as attn_api
\* runs and the service answers it in the end.  No handler owes an answer.
SafesFairness ==
    /\ WF_safeVars(StalledWorker)
    /\ \A r \in Rows : WF_safeVars(BecomesDue(r)) /\ WF_safeVars(BecomesStale(r))

SafesSpec == SafesInit /\ [][SafesNext]_safeVars

FairSafesSpec == SafesSpec /\ SafesFairness

-----------------------------------------------------------------------------
HandlerType ==
    {Idle}
    \cup [phase : {"latest", "nonce", "insert"}, row : Rows,
          key : Keys \cup {None}, nonce : 1..MaxNonces]
    \cup [phase : {"upstream", "link"}, row : Rows]
    \cup [phase : {"resubmit"}, row : Rows, saw : Statuses]

\* Every variable has its type; the jobs the workers hold were due when read,
\* and whoever writes to a row by its id writes to a row that exists.
SafesTypeOK ==
    /\ row \in [Rows -> RowType \cup {None}]
    /\ latest \in Rows \cup {None}
    /\ issued \in 0..MaxNonces /\ nonce \in 0..issued
    /\ handler \in [Handlers -> HandlerType]
    /\ polling \subseteq
          [row : Rows, saw : {"submitted"}, address : BOOLEAN]
    /\ stalled \subseteq
          [row : Rows, saw : {"pending", "submitted"}, attempts : Nat]
    /\ {retrying, failing} \subseteq Rows \cup {None}
    /\ acts \in 0..MaxActs /\ restarts \in 0..MaxRestarts
    /\ asked \in [Rows -> SUBSET (Rows \cup Keys)]
    /\ auto \in [Rows -> Nat]
    /\ \A h \in Handlers : handler[h].phase \in {"upstream", "resubmit", "link"}
          => Exists(handler[h].row)
    /\ \A job \in polling \cup stalled : Exists(job.row)
    /\ \A r \in {retrying, failing, latest} : r # None => Exists(r)

\* squads-safe-api.md: nonces are single-use.  Of all requests that carry a
\* nonce, together or one after the other, one gets past consume_nonce.
Admitted(h) == handler[h].phase = "insert"

NonceSpentOnce ==
    \A h \in Handlers : Admitted(h) =>
        /\ nonce # handler[h].nonce
        /\ \A g \in Handlers :
              Admitted(g) /\ handler[g].nonce = handler[h].nonce => g = h

\* The stalled-request worker retries a request at most
\* STALLED_MAX_AUTO_ATTEMPTS - 1 times, although it decides on attempts it
\* read before, while creations, resubmissions and restarts come in between.
AutoRetriesBounded ==
    \A r \in Rows : auto[r] = 0 \/ auto[r] < STALLED_MAX_AUTO_ATTEMPTS

\* Only a creation with a key of its own may ask the service for another
\* Safe: a retry, automatic or not, repeats a key the service has seen, and
\* the service answers with the Safe it made for that key.
RetryAsksForSameSafe ==
    [][\A r \in Rows : asked[r] # {} /\ asked'[r] # asked[r] =>
          \E h \in Handlers : /\ handler[h].phase = "insert"
                              /\ handler[h].row = r
                              /\ handler[h].key # None]_safeVars

\* A ready request stays ready unless an admin overrides it, a creation that
\* was let through fails, or a worker or a resubmission writes by the id of a
\* request that was not ready when it read it.
ReadyStays ==
    [][\A r \in Rows :
          Exists(r) /\ row[r].status = "ready" /\ row'[r].status # "ready" =>
            \/ \E s \in Statuses, address \in BOOLEAN : Override(r, s, address)
            \/ \E h \in Handlers :
                  /\ handler[h].phase \in {"upstream", "resubmit"}
                  /\ handler[h].row = r
                  /\ handler[h].phase = "resubmit" => handler[h].saw # "ready"
            \/ \E job \in (polling \ polling') \cup (stalled \ stalled') :
                  job.row = r /\ job.saw # "ready"]_safeVars

\* No request waits for ever for an answer that was lost, with a handler that
\* was dropped or in a restart: it becomes ready or fails.
Settles ==
    \A r \in Rows : Unanswered(r) ~> ~Unanswered(r)

=============================================================================
