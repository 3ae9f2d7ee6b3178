# A TLA+ model of paycore

paycore is a payment service: it authorizes payments against a payer's balance,
captures them, lets authorizations expire, publishes what happened through a
transactional outbox and settles captured payments in batches. Most of what can
go wrong in it happens between two statements of two processes. The modules here
model those statements, TLC checks small instances of them, and TLAPS proves the
most safety properties, and the refinement of the core, for instances of any size.

Paths are relative to `src/internal/` unless they start with `cmd/` or `docs/`.

## The system

| Part | State it keeps | Operations | Talks to |
|---|---|---|---|
| payments (`payment/service.go`, `entity.go`, `hold.go`, `adapters/postgres`) | `payments`, `payment_holds` | AuthorizePayment, CapturePayment, ExpireAuthorizedPayments | payers, merchants, outbox, all inside one `WithinTx` |
| payers (`payer/`) | `payers`: available and held balance, version | CreatePayer, GetPayer, UpdatePayer (optimistic version check) | - |
| merchants (`merchant/`) | `merchants` | CreateMerchant; CanCreatePayments gates authorization | - |
| transaction boundary (`shared/db`) | - | WithinTx: BEGIN, COMMIT, ROLLBACK; PostgreSQL READ COMMITTED | PostgreSQL |
| outbox (`outbox/`, `cmd/paycore-outbox-worker`) | `outbox_events` | CreateEvent, ClaimPendingEvents, MarkEventPublished, MarkEventFailed; ProcessBatch in a polling loop | Kafka |
| idempotency (`idempotency/`, `payment/handler.go`) | `idempotency_records`; cached responses in Redis | StartRequest, CompleteRequest around the service call | PostgreSQL, Redis |
| rate limiter (`ratelimit/`, `http/middleware.go`) | a counter with expiry per client in Redis | Allow | Redis |
| settlement (`settlement/`, `cmd/paycore-settlement-worker`) | `settlement_batches`, `settlement_line_items`, the payment's `settlement_batch_id` | RecoverStaleBatches, CreateBatch | payments, outbox |
| expiry worker (`cmd/paycore-expiry-worker`) | - | one ExpireAuthorizedPayments per run | payments |
| in-memory adapters (`*/adapters/memory`, `shared/db/transactor.go`) | the same tables as maps behind a mutex each; no transaction | the repository methods of payments, payers, merchants, outbox | the default backend of `cmd/paycore-api` |
| HTTP routing, metrics, configuration, migrations, API wiring | | | not modelled, see below |

What is hard: API requests, expiry runs, outbox workers and settlement runs are
processes of their own that share rows. Payments and holds are read without a
lock and written back without a guard; only the payer's row has a version.
Locks are taken in different orders. Redis and Kafka are updated by separate
commands. Any process can die between two of them. On the in-memory backend a
call that is cut off leaves half of its writes behind. `PROJECT.json` lists these
hazards one by one, each at the line where it bites, with the properties that
would catch it.

What makes each part correct:

- payments and payers: balances are what the events say, never negative; a held
  amount is backed by a hold; a payment has one outcome; status, hold and event
  change together; calls end.
- outbox: a published event was delivered; one claim, one worker; every event is
  published in the end.
- idempotency: one mutation per key; a replay repeats the original answer, for
  the same request only; cache and record agree; a completed record is final.
- rate limiter: at most `limit` requests in a window; the window is fixed and
  ends.
- settlement: a payment is settled once and linked to the batch that did it;
  every captured payment is settled.

## Modules

| Module | Models | Used by |
|---|---|---|
| `PgRow` | a table row under concurrent READ COMMITTED transactions: committed value, lock holder, uncommitted value (external: PostgreSQL) | Payments, Outbox, Settlement |
| `Payments` | authorize, capture, expire over payers, payments, holds and outbox | `MCPayments`, `ExpiryWorker`, `MemPayments`, `PaymentsInv` |
| `Ledger` | the abstract service: the same operations, each one atomic step on accounts and a book of payments | `Payments` (`ImplementsLedger`) |
| `ExpiryWorker` | Payments with an expiry worker that is started again and again, and failures that are counted | runs it directly |
| `MemPayments` | authorize and capture on the in-memory backend | `MCMemPayments`, `MemPaymentsProofs` |
| `PaymentsInv` | the inductive invariants of Payments | `PaymentsProofs` |
| `PaymentsProofs` | theorems and proofs: types, balances, holds, events | `PaymentsRefineProofs`, `MemPaymentsProofs` |
| `PaymentsRefineProofs` | theorems and proofs: calls are atomic, held balances are backed | - |
| `SumTheorems` | theorems about sums over finite sets | `PaymentsRefineProofs`, `MemPaymentsProofs` |
| `MemPaymentsProofs` | invariants, theorems and proofs of MemPayments | - |
| `Outbox` | outbox workers and the broker | `MCOutbox`, `OutboxProofs` |
| `AtLeastOnce` | the abstract queue: put, take a batch, send, finish or retry, each one atomic step | `Outbox` (`ImplementsQueue`) |
| `OutboxProofs` | invariants, theorems and proofs of Outbox | - |
| `Idempotency` | idempotency keys, the response cache, the handler around the service | `MCIdempotency`, `IdempotencyProofs` |
| `OneShot` | the abstract register behind a key: take, carry out, keep, tell | `Idempotency` (`ImplementsOneShot`) |
| `IdempotencyProofs` | invariants, theorems and proofs of Idempotency | - |
| `RateLimiter` | the fixed-window limiter | `MCRateLimiter`, `RateLimiterProofs` |
| `RateLimiterProofs` | invariant, theorems and proofs of RateLimiter | - |
| `Settlement` | settlement runs, with the captures they race with | `MCSettlement`, `SettlementProofs` |
| `SettlementProofs` | invariant, theorems and proofs of Settlement | - |

### Payments

A process is one call in flight; its program counter names the SQL statement it
runs next and `loc` holds the records it has read or built. The statements, in
the code's order:

- authorize: GetMerchant (`StartAuthorize`), GetPayer and the checks, UpdatePayer,
  then CreatePayment, CreateHold and CreateEvent (`InsertPayment`: new rows, which
  nobody can see or wait for), COMMIT;
- capture: GetPayment (`StartCapture`), GetHoldByPaymentID, GetPayer and the
  checks, UpdatePayer, UpdateHold, UpdatePayment with CreateEvent, COMMIT;
- expire: ListExpiredAuthorizedPayments FOR UPDATE SKIP LOCKED (`StartExpire`),
  then for each payment GetHoldByPaymentID, GetPayer, UpdatePayer, UpdateHold,
  UpdatePayment with CreateEvent; one COMMIT.

`Fail` stands for every way a call can end early: a failed statement, a
cancelled context, a dead process, a check on data the model leaves out
(currency, blank ids); the transaction is rolled back. `DeadlockVictim` is
PostgreSQL's deadlock detector. UpdatePayer waits for the row lock while the
version it has read is the committed one, and is a conflict otherwise. UpdateHold
and UpdatePayment have no guard in the code and none here.

`posted` is a history variable: per payer, the sum of the amounts in its outbox
events by type, written and rolled back with them. The events carry the amounts
in the code, so it is what a consumer of the outbox could compute. Amounts and
balances are integers; that the code's `int64` is wide enough is a consequence of
the theorems (see Not modelled). Status SETTLED is left to module Settlement.

### Ledger

What a caller of the payment service can rely on: accounts with an available and
a held balance and a version, and a book of payments. `Authorize`, `Capture` and
`Expire` are one step each, the last on a whole set of payments. `Recapture` is
the step a careful service would not have: a capture of a payment that is no
longer AUTHORIZED, which the unguarded UpdatePayment makes possible. The
refinement mapping takes the committed value of each payer's and payment's row:
`accounts` is what SELECT sees of `payers`, `book` what it sees of `payments`.
`Payments!ImplementsLedger` then says that a transaction is invisible until its
COMMIT, that its COMMIT is one step of the ledger computed from the accounts as
they are at that moment (not as the call read them), and that a call that fails,
loses its version check or is a deadlock's victim leaves nothing. Expire commits
a batch of payments of several payers at once.

### ExpiryWorker

`cmd/paycore-expiry-worker` runs one batch and exits; whoever starts it starts
it again. `Break` is `Fail` with a count, so that failures end at some point and
one can ask whether the authorizations that are due then have their end.
`DueIsExpiredUnlessTwice` names the one thing that prevents it. When a second
capture has taken the held balance of a payer (PaymentsDoubleCapture), Release
fails for the payment that is left without funds. An expiry batch is one
transaction, and the list is ordered by `expires_at`, so every start of the
worker takes this payment again and fails as a whole, with the payments of other
payers that are in the same batch.

### MemPayments

The same calls over the maps of `adapters/memory`: each repository method is
one step under its store's mutex, and `NoopTransactor` runs the callback and
nothing else. Reads and checks are the steps of Payments (no row is ever locked
here, so what they see is simply the row); the writes are actions of their own,
since authorize's three inserts, one step in Payments, can be seen one by one.
`MemFail` is a cancelled context: the next method returns `ctx.Err()` and what
has been written stays. `torn` is history: the payers and payments of such
calls. A restart empties all maps at once, which is the initial state again. The
workers have no memory backend, so the module has no expiry.

### Outbox

`ClaimPendingEvents` locks and updates a batch, `CommitClaim` or `RollbackClaim`
ends its transaction, `Publish` and `MarkEvent` deal with its events one by one,
outside any transaction. `Publish` may return an error whether or not the broker
has the message. `Abandon` is a worker that dies, is cancelled or fails to mark;
its rows stay IN_PROGRESS. `CreateEvent(e, t)` is a business transaction that
built its event at time `t` and commits it now.

`AtLeastOnce` is what this comes to for a consumer: a queue whose events are
taken in batches, sent at most once per taking, and finished or put back as the
broker has answered. The refinement mapping (`Queued`) reads the committed row
and what the workers have in hand: an IN_PROGRESS event is *taken* while it is in
a worker's batch, *acknowledged* or *refused* between the broker's answer and its
mark, and *lost* when the worker that had it has given up. `Lose` is the step a
careful queue would not have. An open claim transaction is not seen.

### Idempotency

A request runs CreateRecord, or on a duplicate key GetRecord and the checks and
then the cache; a fresh one runs the service (`Serve`: one step with the three
outcomes that can be told apart, among them a COMMIT whose answer is lost) and
then the deferred CompleteRequest: GetRecord, UpdateRecord, SetResponse.
`ServePanics` is a panic in the service: the deferred completion still runs, with
a body nobody has written. The two stores take it differently, which is the
constant `BodyRequired` (`Storable`): the in-memory store keeps it; to PostgreSQL
the empty body is NULL in a NOT NULL column, the UPDATE fails unseen, and the key
stays IN_PROGRESS. `Vanish` ends a request anywhere. The history variables count mutations per key
and keep what was answered and what was replayed.

`OneShot` is what a key promises: it is taken by one request hash, what it asks
for is carried out once, the response is kept, and only what is kept is told. Its
state is read off the records and the history variables; cache, locals and
expiry do not appear in it, so ImplementsOneShot says that they make no
difference but that steps may be missing. `Kept` has the one exception, what the in-memory
store keeps of a panic.

### RateLimiter

`Incr` and `Expire` are the two Redis commands of Allow. The TTL command that
computes Retry-After changes nothing and is left out. A failed command may or
may not have been carried out. `admitted` is history: requests let through since
the key was created.

### Settlement

A run is one transaction: batch created and PROCESSING, claim FOR UPDATE SKIP
LOCKED, one step per settled payment, batch COMPLETED, COMMIT. `Capture` is the
commit of a capture that read the clock up to `CaptureLag` ticks earlier; until
then the row is AUTHORIZED for a claim. `Recapture` is the UpdatePayment of a
second capture that read the payment while it was AUTHORIZED (module Payments has
the details; run PaymentsDoubleCapture shows that it happens): it holds the row,
which a claim then skips, until `CommitRecapture` or `RollbackRecapture`. At most
one transaction can hold a row, so one name, `Recapturer`, stands for all of
these calls. An expiry run that has locked a payment captured just before it
leaves the row alone and is, to a claim, the same as a second capture that rolls back. RecoverStaleBatches runs before CreateBatch in the worker; all
there is of it is its query, `ListStaleProcessingBatches`, which never finds a
row: that is `NothingToRecover`. A run is due once per window and started by
whatever schedules the worker; up to MaxReruns times somebody starts it again.
`missed` is history: payments that the run of their window has left behind,
because it failed (`Fail`), because its LIMIT was reached
(`ClaimCapturedPayments`), because the capture committed after the claim
(`Capture`, `CommitRecapture`), or because a second capture that rolls back held
the row during the claim (`RollbackRecapture`). SettledUnlessMissed says that no
window boundary, overlapping run, rerun or second capture that commits in time
leaves a captured payment unsettled.

## Runs

| Run | Checks | On |
|---|---|---|
| PaymentsRace | TypeOK, BalancesReconcile, NoOverdraft, HeldBackedUnlessTwice, HoldFollowsPayment, EventWithStatus, ExpiresOnlyOpen, ImplementsLedger | an authorizer, two capturers and two expirers on one payer with two payments |
| ExpiryLiveness | CallsEnd, DueIsExpiredUnlessTwice | a process that authorizes and captures and two expiry workers, on two payments of one payer, one failure: deadlocks arise and are resolved |
| MemPaymentsTorn | MemTypeOK, NoOverdraft, NoMoneyCreated, ReconcilesUnlessTorn, HoldFollowsUnlessTorn | two processes that authorize and capture on the in-memory backend, two payments of one payer, calls cut off anywhere |
| OutboxClaims | TypeOK, PublishedDelivered, CopiesWithinAttempts, ClaimExclusive, BacklogDrains, ImplementsQueue | two workers, three events, batches of two, a broker that fails first attempts, one batch given up |
| IdempotencyRetries | TypeOK, AtMostOneMutation, ReplayUnlessPanic, CacheAgreesWithRecord, ReplayForSameRequest, CompletedIsFinal, CompletedUnlessLost, ImplementsOneShot | three requests, one key, two bodies, one panic, the PostgreSQL store |
| RateLimitWindow | TypeOK, AdmittedWithinLimit, WindowNeverExtended, KeyExpiresUnlessLost | three requests, two clients, one failure |
| SettlementRuns | TypeOK, SettledOnce, LinkedToItsBatch, ClaimsAreUnsettled, NothingToRecover, SettledUnlessMissed | two workers, two payments, three windows, a rerun, a crash, a late commit, a second capture that commits or rolls back |

All seven pass. Five runs show where the code does not do what the repository
says of it; each has an entry under `findings` in `PROJECT.json` that quotes the
statement.

| Run | Property | What happens |
|---|---|---|
| PaymentsDoubleCapture | HeldBalanceBacked | both captures of one payment succeed and take the amount out of the held balance twice, at the cost of another hold of the payer |
| OutboxCrash | EventuallyPublished | an event claimed by a worker that dies stays IN_PROGRESS |
| IdempotencyPanic | ReplayIsOriginal | on the in-memory store, `cmd/paycore-api`'s default, the 500 of a panic is replayed as an empty 200 |
| RateLimitLostExpire | KeyExpires | a counter without expiry |
| SettlementCrash | CapturedIsSettled | the window of a run that dies is never settled |

In the double capture the payer's version check does not help because the second
call reads the payer after the first has committed; only the payment and the
hold it has read are old. BalancesReconcile and NoOverdraft hold all the same:
the books are consistent with the events, but there are two events for one
payment. With an expirer in place of the second capturer the same run ends the
same way: a payment is captured after it was expired, at the instant
`expires_at` that both bounds include. HeldBackedUnlessTwice, in PaymentsRace,
shows that these are the only ways to an unbacked balance, and ExpiresOnlyOpen
that the opposite order, expiry after capture, does not happen. In the same way
BacklogDrains, ReplayUnlessPanic, KeyExpiresUnlessLost and SettledUnlessMissed
say what is left of the property the next run refutes.

What is left without transactions is in MemPaymentsTorn: the version check still
excludes lost updates, the checks of the entity on the record a call writes still
exclude overdrafts, and the order of the writes (payer first, event last) means
that a call cut off half-way can lose money but never create it.
CompletedUnlessLost names the two ways for an idempotency key to stay
IN_PROGRESS: the request that holds it is gone, or it panicked and PostgreSQL
refused its empty response. The latter is why a panic is not replayed there:
its retries get a conflict, whether or not the record has expired.

### Bounds

Every bound is a constant named in its module. The instances have as many
processes, rows and ticks as the hazards need: the double capture needs two
capturers and two payments of one payer; a deadlock needs two expiry runs or
an expiry run and a capture that meet on two rows; amounts 0 and 1 with openings
1 and 2 give rejected, exact and spare funds; an authorization that lives one
tick with a clock to 2 gives captures before, at and after its expiry. In ExpiryLiveness a single payer
with two payments is enough for a call and an expiry run to lock its row and a
payment's in opposite orders, for two workers to share the payments between them
(SKIP LOCKED), and for a double capture.
Outbox: batches smaller than the events; the clock moves while an event waits
for its retry, and events are created and claimed meanwhile. Idempotency:
a record that lives one tick and a clock to 2 give fresh and expired records.
RateLimiter: counts up to MaxCount exceed the limit. Settlement: windows of one
or two ticks, at least two of them; in SettlementRuns a claim limit smaller than the payments.
Symmetry is used only in runs without liveness properties, over ids that the code compares
for equality only: PaymentsRace (whose properties of steps are about each
payment alike), MemPaymentsTorn. The others have none. Runs that say CHECK_DEADLOCK FALSE stop because a bound (the
clock, the ids, the requests) is used up.

### Fairness

- `Payments!Fairness`: a call in flight runs its next statement. Where it waits
  for a row lock the fairness is strong: PostgreSQL queues waiters. The deadlock
  detector runs. Nothing is assumed about new calls, and failures are never required.
- `ExpiryWorker!WorkerSpec` adds that time passes and that an expiry worker is
  started when there is something it can list; this is strong fairness because
  its rows may be locked now and then (SKIP LOCKED). At the very instant of
  `expires_at` captures are still admitted and can, one after the other, make
  the worker the victim of each deadlock; only the clock ends that, so the
  property excuses payments for which the model's clock stops too early
  (`ClockTooShort`).
- `Idempotency!FairSpec`: a request that is not gone runs its next statement.
- `Outbox!Fairness`: the worker's loop polls forever, so a claim that stays
  possible is made; it is strong for the COMMIT since a claim that fails is
  retried at every poll. A batch goes on. Time passes. The broker fails an event
  at most MaxFailures times.
- `RateLimiter!FairSpec`: time passes and a request that sent INCR goes on.
- `Settlement!Fairness`: time passes, the scheduler starts the run of each
  window (a run that is due, not a rerun), a run goes on, and so does a second
  capture that holds a row (that such calls end is CallsEnd of ExpiryLiveness).

## Proofs

Every invariant and every property of steps that a passing run checks is proved
as a theorem, and so are the refinements of Ledger, AtLeastOnce and OneShot. None of the theorems bounds a
set: processes, payers, payments, amounts, workers and requests may be infinite.

### Payments

`PaymentsProofs` and `PaymentsRefineProofs` prove for any processes, payers,
payments, amounts, TTL and limit:

| Theorem | States | Rests on |
|---|---|---|
| `CallsSafe` | Spec => []CallInv | |
| `TypeCorrect` | Spec => []TypeOK | CallInv |
| `LedgerCorrect` | Spec => []BalancesReconcile | CallInv, LedgerInv |
| `FundsCorrect` | Spec => []NoOverdraft | CallInv, FundsInv |
| `BookSafe` | Spec => [](CallInv /\ BookInv) | |
| `HoldsCorrect` | Spec => []HoldFollowsPayment | BookInv |
| `ExpiryCorrect` | Spec => ExpiresOnlyOpen | CallInv, BookInv |
| `OutboxCorrect` | Spec => EventWithStatus | CallInv, BookInv |
| `EffectSafe` | Spec => [](CallInv /\ LedgerInv /\ FundsInv /\ BookInv /\ EffectInv) | |
| `LedgerRefined` | Spec => ImplementsLedger | all of EffectSafe |
| `BackedCorrect` | Spec => []HeldBackedUnlessTwice | BackedInv, all of EffectSafe |

Assumptions: `ConstantsAssumption` (amounts and balances are integers, TTL and
limit positive) and `NoneAssumption` (the null value is none of the values it
stands in for). TLC evaluates both on every run of `MCPayments`.

None of the properties is inductive alone.

- `CallInv` says what each call relies on at each statement: the locals it needs
  are set, a payer it has updated is locked by it, the payments an expiry run has
  still to expire are locked by it, the id of a payment under authorization is
  nobody else's, a payer and its account come into being together. Without it a
  step could write a row of the wrong type or of another call.
- `LedgerInv` adds that what each process sees of a payer reconciles with what it
  sees of the payer's events once the event it owes is posted, and that a version
  names one state of the payer: if the version a call has read is still the
  current one, so are the balances it computed from (`ReadCurrent`), because a
  locked row always carries a newer version than the committed one
  (`VersionGrows`). That is why the optimistic check excludes lost updates.
- `FundsInv` adds that the balances a call is about to write, computed from a
  record that passed the entity's checks, are not negative.
- `BookInv` is about payments, holds and events. UpdateHold and UpdatePayment have
  no guard, so what makes the three agree is the order of the statements: a
  transaction that has a payment's row locked has either still to write it (only
  an expiry run, which locked it AUTHORIZED with its list and so keeps everybody
  else out) or has written payment, hold and event of its operation. A stale
  capture overwrites a CAPTURED or EXPIRED payment, but all three rows of it.
- `EffectInv` relates each call to the step of the ledger that its COMMIT will
  be, in terms of what is committed *now*. A call that authorizes or captures
  depends on the terms of a payment only (payer, amount, expiry), which no
  operation changes (`SameTerms`); what it read of the status may be stale, and
  then the step is `Recapture`. An expiry run has read current values, as it has
  its batch locked; while it works, a payer it has locked is ahead of the committed
  row by the sum of the payments of that payer released so far (`Taken`,
  `TakenTotal`), in as many versions. At COMMIT that is the whole batch, and
  `Ledger!Expire` needs no order of the payments.
- `BackedInv` adds that a payment's payer exists. The proof goes through the
  ledger: by `LedgerRefined`'s step lemmas a COMMIT changes a payer's held
  balance and the set of its open holds by the same payments.

Each is shown to hold initially and to be kept by every action, one proof step
per action; lemmas about rows (`WrittenRow`, `CommittedRow`, `RolledBackRow` and
so on) and about the entity methods (`ChargedType`, `ChargedReconciles`,
`ChargedFunded`) are proved once.

`SumTheorems` is about `SumFunctionOnSet` of the community modules, by which
`Ledger!Total` and HeldBackedUnlessTwice are defined: the sum exists, whatever
element is taken first (`SumRemove`), and it can be split (`SumSplit`).
Induction over sets is not available (see below); these are proved by taking a
minimal subset for which the statement fails, which exists because the strict
subset order on finite sets is well founded.

### MemPayments

`MemPaymentsProofs` proves for any processes, payers and payments, with calls cut
off anywhere:

- `MemTypeCorrect`: MemSpec => []MemTypeOK;
- `MemFundsCorrect`: MemSpec => []NoOverdraft;
- `MemHoldsCorrect`: MemSpec => []HoldFollowsUnlessTorn;
- `MemReconcileCorrect`: MemSpec => []ReconcilesUnlessTorn;
- `MemMoneyCorrect`: MemSpec => []NoMoneyCreated;
- `MemCallsSafe`, `MemSumsSafe`: the invariants these rest on.

There is no row lock here, so the argument is another one than for PostgreSQL.
`MemCallInv` has the version check as its only guard: a record that would pass it
was computed from the current row (`MemRead`). `MemBookInv` says that a hold that
does not fit its payment has a call between its two writes, or had one that was
cut off there. `MemSumInv` counts what is under way: the calls that have written a
payer owe it an event, and with the sum of what all of them owe (`OwedTotal`)
the payer reconciles; finitely many calls are in flight, so the sum exists. A
call that is cut off makes the payer torn, and takes what it owes with it: a
capture's part is lost to the payer, an authorization's stays in the held
balance, so NoMoneyCreated needs no exception for it.

### The other components

`OutboxProofs` proves for any workers, events and batch limit:

- `OutboxTypeCorrect`: Spec => []TypeOK;
- `ClaimsExclusive`: Spec => []ClaimExclusive;
- `DeliveredAtLeastOnce`: Spec => []PublishedDelivered;
- `CopiesBounded`: Spec => []CopiesWithinAttempts;
- `QueueRefined`: Spec => ImplementsQueue.

`ClaimInv` says that the batch a worker deals with is exactly what it has locked
(until its claim commits) or what it alone has IN_PROGRESS (after that), so no
other worker can list, publish or mark it. `CopiesInv` counts on top of it: a
row has at most as many copies at the broker as attempts, and strictly fewer
while its current claim has still to publish it, because each claim adds one
attempt and each batch is published in one pass. For the refinement `DueInv`
adds that what a worker has claimed and not committed could be claimed now: not
more than the limit, and due. The rest is `ClaimInv` again, which says that the answer a
worker has in hand is the only one for its event.

`IdempotencyProofs` proves for either store and any requests, keys and bodies,
with panics, evictions and requests gone anywhere:

- `IdempotencyTypeCorrect`: Spec => []TypeOK;
- `CompletedRecordsFinal`: Spec => CompletedIsFinal;
- `MutatedAtMostOnce`: Spec => []AtMostOneMutation;
- `CacheNeverAhead`: Spec => []CacheAgreesWithRecord;
- `ReplayedToSameRequest`: Spec => []ReplayForSameRequest;
- `ReplayedAsAnswered`: Spec => []ReplayUnlessPanic;
- `OneShotRefined`: Spec => ImplementsOneShot.

`RecordInv` says that a record belongs to the one request that inserted it:
while that request works on it the record is IN_PROGRESS, and no other request
with its key is past `create` other than to look it up. `MutationInv` adds that
nothing has been done for a key that has no record or whose request is about to
call the service. `AnswerInv` follows the answer through the stores: handler,
recorder, record, cache and replay all hold the same response, unless the service
panicked; and then a record that needs a body is never completed (`Storable`), so
on PostgreSQL there is nothing to replay. It uses the other two, since a second owner could break every link. `KeptInv` adds for the refinement
which response a panic leaves to be stored.

`RateLimiterProofs` proves for any limit, window, clients and requests:

- `RateLimiterTypeCorrect`: Spec => []TypeOK;
- `LimitKept`: Spec => []AdmittedWithinLimit;
- `WindowFixed`: Spec => WindowNeverExtended.

`WindowInv` says that a key is created by one request and has no expiry while
that request is between INCR and EXPIRE; so it cannot go away and be created
again meanwhile, and a place under the limit is kept for that request.

`SettlementProofs` proves for any workers, payments, batches, windows and limits:

- `SettlementTypeCorrect`: Spec => []TypeOK;
- `SettledAtMostOnce`: Spec => []SettledOnce;
- `LinkKept`: Spec => []LinkedToItsBatch;
- `ClaimsUnsettled`: Spec => []ClaimsAreUnsettled;
- `NeverStale`: Spec => []NothingToRecover.

`RunInv` says that a run holds the lock of its batch from INSERT to the end and of
each payment from its claim on, that a payment it has locked has no committed line
item, that the item and the event are both written by the run or both not yet, and
that a second capture that holds a payment instead keeps its batch.

The assumptions of these modules are those they state on constants (limits and
lifetimes positive, some client, the null value none of the others). Before
they were proved, the invariants were checked by TLC on small instances.

### Not proved

- Liveness: CallsEnd, DueIsExpiredUnlessTwice, BacklogDrains,
  CompletedUnlessLost, KeyExpiresUnlessLost and SettledUnlessMissed need
  ENABLED of the fair actions, which the prover does not have. TLC checks them.
- What a recursive definition computes for every input: the induction theorems
  of the library take an operator as a parameter, which none of the provers can
  instantiate. Only sums are recursive here, and minimal counterexamples do for them.
- The five properties that the code violates are, of course, not theorems. What
  is left of each is: HeldBackedUnlessTwice and ReplayUnlessPanic are proved,
  BacklogDrains, KeyExpiresUnlessLost and SettledUnlessMissed are liveness.

## Not modelled

- ListExpiredAuthorizedPayments, ClaimPendingEvents, MarkEventPublished and
  MarkEventFailed of the in-memory stores: only the workers would call them, and
  they insist on a database;
- HTTP routing, request ids, security headers, timeouts; merchant and payer handlers;
- metrics, configuration, migrations, API start-up and shutdown, the load test;
- requests without an Idempotency-Key, which the handler answers 400 before
  anything else happens;
- the loop of RecoverStaleBatches and Batch.Fail, which no execution reaches;
- PayerService.UpdatePayer, which no route reaches;
- overflow: a balance of a payer is a part of its opening balance at any time
  (BalancesReconcile with NoOverdraft, which are theorems), so the sums stay
  within the `int64` the opening came in;
- currencies, formatting and payloads.

## Plan

Done: Payments with its theorems, the Ledger it implements with the proof that it
does, the in-memory backend with its theorems, expiry liveness, Outbox with
AtLeastOnce, Idempotency with OneShot, RateLimiter and Settlement, each with its
theorems.

1. An abstract settlement (one step per window) that Settlement implements, with
   the proof; an abstract fixed-window counter for RateLimiter.
2. Payments composed with Settlement through the payment row, so that Recapture
   and its end are the real capture; expiry, capture and settlement on one row.
