----------------------------- MODULE SafeWorker -----------------------------
(***************************************************************************)
(* services/squads-safe-worker: POST /v1/squads/safe makes a Squads Safe on*)
(* chain, at the address that the caller's idempotency key decides.  The   *)
(* worker keeps nothing, so two calls with one key meet only on the chain; *)
(* its instances run and restart at will.  The RPC node and the cluster are*)
(* external: a transaction passes preflight, lands, fails or expires.      *)
(***************************************************************************)
EXTENDS Integers

CONSTANTS Calls,            \* bound: the requests ever made
          IdempotencyKeys,  \* the keys that callers send
          Bodies,           \* members, threshold and label of a request
          BadThreshold,     \* those bodies whose threshold exceeds their members
          Funds             \* bound: how many Safes the signer can pay

ASSUME WorkerAssumption == Funds \in Nat

VARIABLES call,  \* per request, how far its handler is
          pool,  \* transactions sent and not executed
          safes, \* the multisig accounts on the chain
          funds,
          dryRun \* env.DRY_RUN
safeWorkerVars == <<call, pool, safes, funds, dryRun>>

Unborn == [phase |-> "new"]
\* getMultisigPda of the create key whose seed is the hash of the key.
\* (mutant: every call makes a create key of its own)
createKeyOfCall(c, k) == <<c, k>>
createKey(c, k) == <<"key", k>>
\* What a dry run answers instead: the hash of the whole body.
fakeAddress(k, b) == <<"dry", k, b>>

WorkerInit == /\ call = [c \in Calls |-> Unborn]
              /\ pool = {} /\ safes = {} /\ funds \in 1 .. Funds
              /\ dryRun \in BOOLEAN

\* What a simulation or an execution finds when it would create the account a.
isAccountAlreadyInUse(a) == \E s \in safes : s.at = a
At(c, phase) == call[c].phase = phase
Moves(c, phase) == call' = [call EXCEPT ![c].phase = phase]
Answers(c, safe) == call' = [call EXCEPT ![c].phase = "ready", ![c].safe = safe]
Refuses(c) == Moves(c, "failed")

\* The body has its fields, and a threshold that its members can meet.
CreateBody(b) == b \notin BadThreshold

\* The body is checked; a dry run answers at once.
Post(c) ==
  /\ At(c, "new")
  /\ \E k \in IdempotencyKeys, b \in Bodies :
       call' = [call EXCEPT ![c] =
         [key |-> k, body |-> b,
          phase |-> IF ~CreateBody(b) THEN "failed"
                    ELSE IF dryRun THEN "ready" ELSE "begun",
          safe |-> IF CreateBody(b) /\ dryRun THEN fakeAddress(k, b) ELSE <<>>]]
  /\ UNCHANGED <<pool, safes, funds, dryRun>>

\* The program's configuration and the blockhash are read, or the RPC fails.
Prepare(c) == /\ At(c, "begun")
              /\ Moves(c, "signed") \/ Refuses(c)
              /\ UNCHANGED <<pool, safes, funds, dryRun>>

\* sendRawTransaction simulates the transaction first: an account in use means that
\* the Safe is there, and no one looks at its members.
sendRawTransaction(c) ==
  LET safe == createKey(c, call[c].key) IN
  /\ At(c, "signed")
  /\ \/ /\ isAccountAlreadyInUse(safe) /\ Answers(c, safe)
        /\ UNCHANGED pool
     \/ /\ ~isAccountAlreadyInUse(safe) /\ funds > 0
        /\ pool' = pool \cup {[call |-> c, safe |-> safe, key |-> call[c].key, body |-> call[c].body]}
        /\ Moves(c, "confirming")
     \/ Refuses(c) /\ UNCHANGED pool
  /\ UNCHANGED <<safes, funds, dryRun>>

\* The cluster executes a transaction, which fails if the account is taken or the
\* signer cannot pay any more, or its blockhash expires.
Executes(t) ==
  /\ pool' = pool \ {t}
  /\ IF ~isAccountAlreadyInUse(t.safe) /\ funds > 0
     THEN /\ safes' = safes \cup {[at |-> t.safe, key |-> t.key, body |-> t.body]}
          /\ funds' = funds - 1
     ELSE UNCHANGED <<safes, funds>>
  /\ IF At(t.call, "confirming") THEN Moves(t.call, "confirmed") ELSE UNCHANGED call
  /\ UNCHANGED dryRun
Expires(t) == /\ pool' = pool \ {t}
              /\ IF At(t.call, "confirming") THEN Refuses(t.call) ELSE UNCHANGED call
              /\ UNCHANGED <<safes, funds, dryRun>>

\* confirmTransaction resolves with the transaction's error, if it has one, and the
\* handler does not look.
\* (mutant: the answer does not wait for the confirmation)
confirmsEarly(c) == /\ call[c].phase \in {"confirming", "confirmed"}
                    /\ Answers(c, createKey(c, call[c].key))
                    /\ UNCHANGED <<pool, safes, funds, dryRun>>
confirms(c) == /\ At(c, "confirmed")
               /\ Answers(c, createKey(c, call[c].key))
               /\ UNCHANGED <<pool, safes, funds, dryRun>>

\* The RPC fails while the handler waits, or its instance is stopped; what was sent
\* stays sent.
Interrupted(c) == /\ call[c].phase \in {"confirming", "confirmed"}
                  /\ Refuses(c)
                  /\ UNCHANGED <<pool, safes, funds, dryRun>>

Handler(c) == Post(c) \/ Prepare(c) \/ sendRawTransaction(c) \/ confirms(c) \/ Interrupted(c)
Cluster == \E t \in pool : Executes(t) \/ Expires(t)
WorkerNext == Cluster \/ \E c \in Calls : Handler(c)
WorkerSpec == WorkerInit /\ [][WorkerNext]_safeWorkerVars
-----------------------------------------------------------------------------
Ready(c) == At(c, "ready")

\* Calls, transactions and Safes have their shapes; a call sends one transaction.
WorkerTypeOK ==
  /\ \A c \in Calls : \/ call[c] = Unborn
                      \/ /\ call[c].key \in IdempotencyKeys /\ call[c].body \in Bodies
                         /\ call[c].phase \in {"begun", "signed", "confirming", "confirmed",
                                               "ready", "failed"}
  /\ \A t, u \in pool : t.call = u.call => t = u
  /\ funds \in 0 .. Funds /\ \A s \in safes : s.body \notin BadThreshold

\* createOnChain's seed: however often, from however many instances and after whatever
\* failure a request is made again with its key, at most one Safe is made for the key,
\* and every answer names that one.
OneSafePerKey ==
  /\ \A r, s \in safes : r.key = s.key => r = s
  /\ \A c, d \in Calls : Ready(c) /\ Ready(d) /\ call[c].key = call[d].key
       => call[c].safe = call[d].safe \/ (dryRun /\ call[c].body # call[d].body)

\* The answer "ready": the named Safe is on the chain and was asked for with this key,
\* unless the signer's money ran out between a preflight and the execution.
ReadyIsCreated ==
  \A c \in Calls : Ready(c) /\ ~dryRun
    => \/ \E s \in safes : s.at = call[c].safe /\ s.key = call[c].key
       \/ funds = 0

\* A key leads to one Safe, and no Safe has a threshold its members cannot meet.
KeyNamesOneSafe ==
  /\ WorkerTypeOK
  /\ OneSafePerKey
=============================================================================
