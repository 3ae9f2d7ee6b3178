---------------------------- MODULE Idempotency -----------------------------
(***************************************************************************)
(* Idempotency keys of the payment endpoints: internal/idempotency         *)
(* (service, record, the adapters) and the handler in internal/payment     *)
(* that brackets the payment service with it.                              *)
(*                                                                         *)
(* A process is one HTTP request in flight; retries of a client are        *)
(* further requests with the same key.  Every statement to PostgreSQL (or  *)
(* method of the in-memory store) and every Redis command is one step,     *)
(* none of them in a transaction.  What the payment service does is module *)
(* Payments; here it is one step that commits its mutation or not, and the *)
(* response the handler writes.                                            *)
(***************************************************************************)
EXTENDS Integers

CONSTANTS
  None,
  Requests,   \* HTTP requests that can be in flight together
  Keys,       \* Idempotency-Key values
  Hashes,     \* HashRequest(method, path, body) values
  BodyRequired, \* the store is PostgreSQL, where response_body is NOT NULL,
                \* and not adapters/memory, which takes any record
  TTL,        \* lifetime of a record, in clock ticks
  MaxTime,    \* bound: the clock stops here
  MaxPanics   \* bound: service calls that panic

ASSUME ConstantsAssumption ==
  /\ BodyRequired \in BOOLEAN
  /\ TTL \in Nat \ {0}
  /\ MaxTime \in Nat
  /\ MaxPanics \in Nat

VARIABLES
  records,   \* key -> row of idempotency_records, or None
  cache,     \* key, request hash -> response cached in Redis, or None
  pc,        \* request -> the statement it is about to run
  loc,       \* request -> its local variables
  mutations, \* key -> history: mutations committed by the requests with it
  answer,    \* key -> history: what the handler that ran the service answers
  replayed,  \* key, request hash -> history: responses replayed from storage
  orphaned,  \* history: keys whose request was gone before it completed them
  now,       \* the clock
  panics     \* service calls that have panicked

history == <<mutations, answer, replayed, orphaned>>
vars    == <<records, cache, pc, loc, history, now, panics>>

\* "created" and "rejected" stand for the responses of the handler (201 or
\* 200 with the payment, 4xx with an error), "blank" for 200 with no body,
\* "internal" for the 500 of the recovery middleware.
Responses == {"created", "rejected", "blank", "internal"}

\* Status FAILED exists in the code but nothing sets it.
Record == [hash: Hashes, status: {"IN_PROGRESS", "COMPLETED"},
           response: Responses \cup {None}, expiresAt: Int]

Labels == {"idle", "create", "lookup", "get_response", "serve",
           "read_record", "update_record", "set_response"}

Local == [key: Keys \cup {None}, hash: Hashes \cup {None}, start: Int,
          rec: Record \cup {None}, response: Responses \cup {None}]

NoRequest == [key |-> None, hash |-> None, start |-> 0, rec |-> None, response |-> None]

ASSUME NoneAssumption ==
  None \notin Record /\ None \notin Keys /\ None \notin Hashes /\ None \notin Responses

-----------------------------------------------------------------------------
(* Record methods.                                                         *)

\* idempotency.NewRecord
NewRecord(h, t) ==
  [hash |-> h, status |-> "IN_PROGRESS", response |-> None, expiresAt |-> t + TTL]

\* Mutant: a completed record gets the status nobody uses.
CompleteAsFailed(rec, response) == [rec EXCEPT !.status = "FAILED", !.response = response]

\* Mutant: the recorder keeps its default status, an error looks like success.
CompleteAsSuccess(rec, response) == [rec EXCEPT !.status = "COMPLETED", !.response = "created"]

\* Record.Complete
Complete(rec, response) == [rec EXCEPT !.status = "COMPLETED", !.response = response]

\* Record.IsExpired
IsExpired(rec, t) == t > rec.expiresAt

-----------------------------------------------------------------------------
(* Service.StartRequest.                                                   *)

GoTo(p, label) == pc' = [pc EXCEPT ![p] = label]

\* The handler has returned (or the request is gone): its locals are too.
End(p) ==
  /\ GoTo(p, "idle")
  /\ loc' = [loc EXCEPT ![p] = NoRequest]

\* A request with its key arrives; the handler reads the clock once.
Arrive(p, k, h) ==
  /\ pc[p] = "idle"
  /\ loc' = [loc EXCEPT ![p] = [NoRequest EXCEPT !.key = k, !.hash = h, !.start = now]]
  /\ GoTo(p, "create")
  /\ UNCHANGED <<records, cache, history, now, panics>>

\* Mutant: the insert replaces a completed record that has expired.
ReplacesExpired(k, t) ==
  records[k] = None \/ (records[k].status = "COMPLETED" /\ IsExpired(records[k], t))

\* Mutant: a request takes over a record that is IN_PROGRESS.
TakesOverInProgress(k, t) == records[k] = None \/ records[k].status = "IN_PROGRESS"

\* INSERT succeeds: the primary key has no row yet.
KeyIsFree(k, t) == records[k] = None

\* CreateRecord.  ErrDuplicateKey sends the request to look the record up.
CreateRecord(p) ==
  /\ pc[p] = "create"
  /\ LET k == loc[p].key IN
     IF KeyIsFree(k, loc[p].start)
     THEN /\ records' = [records EXCEPT ![k] = NewRecord(loc[p].hash, loc[p].start)]
          /\ GoTo(p, "serve")
     ELSE GoTo(p, "lookup") /\ UNCHANGED records
  /\ UNCHANGED <<cache, loc, history, now, panics>>

\* Mutant: the request hash is not compared.
ReplayableAnyHash(rec, h, t) == ~IsExpired(rec, t) /\ rec.status = "COMPLETED"

\* The checks on an existing record; each one that fails is a 409.
Replayable(rec, h, t) ==
  /\ ~IsExpired(rec, t)
  /\ rec.hash = h
  /\ rec.status = "COMPLETED"

\* GetRecord of StartRequest
LookUp(p) ==
  /\ pc[p] = "lookup"
  /\ LET rec == records[loc[p].key] IN
     IF Replayable(rec, loc[p].hash, loc[p].start)
     THEN /\ loc' = [loc EXCEPT ![p].rec = rec]
          /\ GoTo(p, "get_response")
     ELSE End(p)
  /\ UNCHANGED <<records, cache, history, now, panics>>

\* What GET finds under the cache key of k and h
Cached(k, h) == {cache[k][h]} \ {None}

\* cache.GetResponse: a hit is replayed from Redis, a miss or an error from
\* the record that was read.
GetResponse(p) ==
  /\ pc[p] = "get_response"
  /\ LET k == loc[p].key
         h == loc[p].hash
     IN  \E response \in Cached(k, loc[p].rec.hash) \cup {loc[p].rec.response} :
           replayed' = [replayed EXCEPT ![k][h] = @ \cup {response}]
  /\ End(p)
  /\ UNCHANGED <<records, cache, mutations, answer, orphaned, now, panics>>

-----------------------------------------------------------------------------
(* HandleAuthorize and HandleCapture after a fresh key.                    *)

\* What a service call commits and what the handler then writes.  A COMMIT
\* whose answer is lost returns an error for a mutation that happened.
ServiceOutcomes == {[commits |-> 1, response |-> "created"],
                    [commits |-> 0, response |-> "rejected"],
                    [commits |-> 1, response |-> "rejected"]}

\* Mutant: the handler calls the service again when it was rejected.
ServeAgain(p) ==
  /\ pc[p] = "serve"
  /\ \E outcome \in ServiceOutcomes :
       /\ mutations' = [mutations EXCEPT ![loc[p].key] = @ + outcome.commits]
       /\ answer' = [answer EXCEPT ![loc[p].key] = outcome.response]
       /\ loc' = [loc EXCEPT ![p].response = outcome.response]
       /\ GoTo(p, IF outcome.commits = 0 THEN "serve" ELSE "read_record")
  /\ UNCHANGED <<records, cache, replayed, orphaned, now, panics>>

\* Mutant: the completion is not deferred, an error returns past it.
ServeCompletesSuccess(p) ==
  /\ pc[p] = "serve"
  /\ \E outcome \in ServiceOutcomes :
       /\ mutations' = [mutations EXCEPT ![loc[p].key] = @ + outcome.commits]
       /\ answer' = [answer EXCEPT ![loc[p].key] = outcome.response]
       /\ IF outcome.response = "created"
          THEN GoTo(p, "read_record") /\ loc' = [loc EXCEPT ![p].response = "created"]
          ELSE End(p)
  /\ UNCHANGED <<records, cache, replayed, orphaned, now, panics>>

\* The service call; the recorder copies what the handler writes.
Serve(p) ==
  /\ pc[p] = "serve"
  /\ \E outcome \in ServiceOutcomes :
       /\ mutations' = [mutations EXCEPT ![loc[p].key] = @ + outcome.commits]
       /\ answer' = [answer EXCEPT ![loc[p].key] = outcome.response]
       /\ loc' = [loc EXCEPT ![p].response = outcome.response]
  /\ GoTo(p, "read_record")
  /\ UNCHANGED <<records, cache, replayed, orphaned, now, panics>>

\* The service panics: WithinTx rolls back, unless it has committed, and
\* NoopTransactor leaves what is written.  The deferred completion runs with a
\* recorder nobody has written to; the recovery middleware answers 500.
ServePanics(p) ==
  /\ pc[p] = "serve"
  /\ panics < MaxPanics
  /\ panics' = panics + 1
  /\ \E commits \in {0, 1} : mutations' = [mutations EXCEPT ![loc[p].key] = @ + commits]
  /\ answer' = [answer EXCEPT ![loc[p].key] = "internal"]
  /\ loc' = [loc EXCEPT ![p].response = "blank"]
  /\ GoTo(p, "read_record")
  /\ UNCHANGED <<records, cache, replayed, orphaned, now>>

-----------------------------------------------------------------------------
(* Service.CompleteRequest, deferred by the handler.                       *)

\* GetRecord, then Record.Complete, which fails on any status but IN_PROGRESS.
ReadRecord(p) ==
  /\ pc[p] = "read_record"
  /\ LET rec == records[loc[p].key] IN
     IF rec.status = "IN_PROGRESS"
     THEN /\ loc' = [loc EXCEPT ![p].rec = Complete(rec, loc[p].response)]
          /\ GoTo(p, "update_record")
     ELSE End(p)
  /\ UNCHANGED <<records, cache, history, now, panics>>

\* Mutant: the cache is written before the record.
CachesFirst(p) ==
  /\ pc[p] = "update_record"
  /\ cache' = [cache EXCEPT ![loc[p].key][loc[p].rec.hash] = loc[p].rec.response]
  /\ GoTo(p, "set_response")
  /\ UNCHANGED <<records, loc, history, now, panics>>

\* Complete makes of an empty body a nil slice, which pgx sends as NULL.
Storable(rec) == BodyRequired => rec.response # "blank"

\* UpdateRecord: WHERE key = $1.  Nobody sees its error: the record stays
\* IN_PROGRESS.
UpdateRecord(p) ==
  /\ pc[p] = "update_record"
  /\ IF Storable(loc[p].rec)
     THEN /\ records' = [records EXCEPT ![loc[p].key] = loc[p].rec]
          /\ GoTo(p, "set_response")
          /\ UNCHANGED loc
     ELSE End(p) /\ UNCHANGED records
  /\ UNCHANGED <<cache, history, now, panics>>

\* cache.SetResponse, whose error is ignored
SetResponse(p) ==
  /\ pc[p] = "set_response"
  /\ \/ cache' = [cache EXCEPT ![loc[p].key][loc[p].rec.hash] = loc[p].rec.response]
     \/ UNCHANGED cache
  /\ End(p)
  /\ UNCHANGED <<records, history, now, panics>>

-----------------------------------------------------------------------------
(* What can go wrong between any two of these steps.                       *)

\* Statements of a request that has inserted the record and not yet completed it
Working == {"serve", "read_record", "update_record"}

\* The process dies, the client's disconnect cancels the context, or a
\* statement fails: the rest of the handler does not happen.
Vanish(p) ==
  /\ pc[p] # "idle"
  /\ orphaned' = IF pc[p] \in Working THEN orphaned \cup {loc[p].key} ELSE orphaned
  /\ End(p)
  /\ UNCHANGED <<records, cache, mutations, answer, replayed, now, panics>>

\* Redis expires or evicts a response, or restarts empty.
Evict(k, h) ==
  /\ cache[k][h] # None
  /\ cache' = [cache EXCEPT ![k][h] = None]
  /\ UNCHANGED <<records, pc, loc, history, now, panics>>

Tick ==
  /\ now < MaxTime
  /\ now' = now + 1
  /\ UNCHANGED <<records, cache, pc, loc, history, panics>>

-----------------------------------------------------------------------------
Init ==
  /\ records   = [k \in Keys |-> None]
  /\ cache     = [k \in Keys |-> [h \in Hashes |-> None]]
  /\ pc        = [p \in Requests |-> "idle"]
  /\ loc       = [p \in Requests |-> NoRequest]
  /\ mutations = [k \in Keys |-> 0]
  /\ answer    = [k \in Keys |-> None]
  /\ replayed  = [k \in Keys |-> [h \in Hashes |-> {}]]
  /\ orphaned  = {}
  /\ now = 0
  /\ panics = 0

Step(p) ==
  \/ CreateRecord(p) \/ LookUp(p) \/ GetResponse(p)
  \/ Serve(p) \/ ServePanics(p)
  \/ ReadRecord(p) \/ UpdateRecord(p) \/ SetResponse(p)

Next ==
  \/ Tick
  \/ \E k \in Keys, h \in Hashes : Evict(k, h)
  \/ \E p \in Requests : \/ \E k \in Keys, h \in Hashes : Arrive(p, k, h)
                         \/ Step(p) \/ Vanish(p)

Spec == Init /\ [][Next]_vars

\* A request that is not gone goes on to its next statement.
FairSpec == Spec /\ \A p \in Requests : WF_vars(Step(p))

-----------------------------------------------------------------------------
(* Properties.                                                             *)

\* Every variable has its type.
TypeOK ==
  /\ records   \in [Keys -> Record \cup {None}]
  /\ cache     \in [Keys -> [Hashes -> Responses \cup {None}]]
  /\ pc        \in [Requests -> Labels]
  /\ loc       \in [Requests -> Local]
  /\ mutations \in [Keys -> Nat]
  /\ answer    \in [Keys -> Responses \cup {None}]
  /\ replayed  \in [Keys -> [Hashes -> SUBSET Responses]]
  /\ orphaned  \subseteq Keys
  /\ now       \in Nat
  /\ panics    \in Nat

\* The promise of the key: however many requests carry it, concurrent or
\* retried after crashes, lost answers or the record's expiry, at most one
\* of them changes anything.
AtMostOneMutation == \A k \in Keys : mutations[k] <= 1

\* What a duplicate is told, from the record or from the cache, is what the
\* handler that did the work answered.
ReplayIsOriginal ==
  \A k \in Keys, h \in Hashes : replayed[k][h] \subseteq {answer[k]}

\* The request with the key was answered with a panic's 500.
Panicked(k) == answer[k] = "internal"

\* The same for the in-memory store wherever the service has returned, and
\* for PostgreSQL, which refuses the response of a panic, without exception:
\* neither crashes, evictions, concurrent duplicates nor a lost COMMIT answer
\* change what is replayed.
ReplayUnlessPanic ==
  \A k \in Keys, h \in Hashes :
    BodyRequired \/ ~Panicked(k) => replayed[k][h] \subseteq {answer[k]}

\* A cached response is the one of the durable record and under its hash:
\* Redis never knows more than PostgreSQL.
CacheAgreesWithRecord ==
  \A k \in Keys, h \in Hashes :
    cache[k][h] # None => /\ records[k] # None
                          /\ records[k].status = "COMPLETED"
                          /\ records[k].hash = h
                          /\ records[k].response = cache[k][h]

\* A request is answered from the record of its own request only: all that
\* is ever replayed under a key has one request hash, the record's.
ReplayForSameRequest ==
  \A k \in Keys, h \in Hashes :
    replayed[k][h] # {} => records[k] # None /\ records[k].hash = h

IsCompleted(k) == records[k] # None /\ records[k].status = "COMPLETED"

\* A key gets its answer: a record ends up COMPLETED, whatever duplicates,
\* expiry and evictions come in between, unless the one request that works on
\* it is gone, or panics and its empty response is refused.  Nothing takes
\* over a record IN_PROGRESS, so every other way out of the handler, an error
\* of the service above all, has to go through CompleteRequest.
CompletedUnlessLost ==
  \A k \in Keys :
    records[k] # None ~>
      IsCompleted(k) \/ k \in orphaned \/ (BodyRequired /\ Panicked(k))

\* A completed record is final: no later request, completion or retry
\* changes the response, the hash or the expiry.
CompletedIsFinal ==
  [][\A k \in Keys : IsCompleted(k) => records'[k] = records[k]]_vars

-----------------------------------------------------------------------------
(* The one-shot register.                                                  *)

\* The stored records, and what has happened under each key.
Abstract ==
  INSTANCE OneShot WITH
    taken    <- [k \in Keys |-> IF records[k] = None THEN None ELSE records[k].hash],
    carried  <- mutations,
    answered <- answer,
    kept     <- [k \in Keys |-> IF IsCompleted(k) THEN records[k].response ELSE None],
    told     <- replayed

\* The requests of a key together are one: its record is taken once, before
\* the service is called once, before its response is stored once, before
\* any of it is replayed, and what is replayed from the record or the cache
\* is what is stored; requests that are gone, evictions and expiry of the
\* record leave only the later of these steps out.
ImplementsOneShot == Abstract!Spec
=============================================================================
