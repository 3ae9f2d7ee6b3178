----------------------------- MODULE Settlement -----------------------------
(***************************************************************************)
(* Settlement of captured payments: internal/settlement (service, entity,  *)
(* adapters/postgres) and cmd/paycore-settlement-worker, which settles the *)
(* previous full window once and exits.                                    *)
(*                                                                         *)
(* A run is one transaction: it creates its batch, claims the payments     *)
(* captured in the window, settles them one by one and completes the       *)
(* batch.  Captures go on meanwhile; of them only what they do to the      *)
(* payment's row is here, the rest is module Payments.                     *)
(***************************************************************************)
EXTENDS Integers, FiniteSets, FiniteSetsExt, PgRow

CONSTANTS
  Workers,       \* settlement worker processes
  Recapturer,    \* whichever second capture holds a payment's row
  PaymentIDs, BatchIDs,
  ClaimLimit,    \* LIMIT of one claim
  WindowLength,  \* PAYCORE_SETTLEMENT_WINDOW_MINUTES, in clock ticks
  LockTTL,       \* PAYCORE_SETTLEMENT_LOCK_MINUTES, in clock ticks
  CaptureLag,    \* longest time from a first capture's captured_at to its
                 \* COMMIT, and from a second one's to its UPDATE
  LastCapture,   \* bound: no payment is captured after this
  MaxTime,       \* bound: the clock stops here
  MaxReruns,     \* bound: runs of a window for which a run was started before
  MaxRecaptures, \* bound: captures that overwrite a payment already captured
  MaxCrashes     \* bound: runs that fail or die

ASSUME ConstantsAssumption ==
  /\ ClaimLimit \in Nat \ {0} /\ WindowLength \in Nat \ {0} /\ LockTTL \in Nat \ {0}
  /\ CaptureLag \in Nat /\ LastCapture \in Nat /\ MaxTime \in Nat
  /\ MaxReruns \in Nat /\ MaxRecaptures \in Nat /\ MaxCrashes \in Nat

VARIABLES
  payments,   \* payment id -> row of payments
  batches,    \* batch id -> row of settlement_batches
  items,      \* payment id -> row of settlement_line_items: the item's batch
  settled,    \* payment id -> row counting its payment.settled events
  pc,         \* worker -> the statement it is about to run
  batch,      \* worker -> the batch of its run
  window,     \* worker -> the window its run settles
  todo,       \* worker -> claimed payments not yet settled
  attempted,  \* the last window for which a run was started
  missed,     \* history: payments the run of their window has left behind
  reruns, recaptures, crashes,
  now

tables == <<payments, batches, items, settled>>
run    == <<pc, batch, window, todo>>
bounds == <<reruns, recaptures, crashes>>
vars   == <<tables, run, attempted, missed, bounds, now>>

\* Who can hold the row of a payment
Lockers == Workers \cup {Recapturer}

Statuses      == {"AUTHORIZED", "CAPTURED", "SETTLED"}
BatchStatuses == {"CREATED", "PROCESSING", "COMPLETED", "FAILED"}

Payment == [status: Statuses, capturedAt: Int \cup {None}, batch: BatchIDs \cup {None}]
Batch   == [status: BatchStatuses, window: Int, lockedUntil: Int \cup {None}]

ASSUME NoneAssumption ==
  /\ None \notin Workers /\ None \notin Payment /\ None \notin Batch
  /\ None \notin BatchIDs
  /\ Recapturer # None /\ Recapturer \notin Workers

-----------------------------------------------------------------------------
(* Entity methods.                                                         *)

\* NewBatch and Batch.StartProcessing
StartProcessing(i, t) ==
  [status |-> "PROCESSING", window |-> i, lockedUntil |-> t + LockTTL]

\* Mutant: the completed batch keeps its lock and its status.
CompleteNothing(b) == b

\* Batch.Complete
Complete(b) == [b EXCEPT !.status = "COMPLETED", !.lockedUntil = None]

\* Batch.IsStale
IsStale(b, t) == b.status = "PROCESSING" /\ b.lockedUntil <= t

\* Mutant: a status outside the column's CHECK.
SettleAsPaid(pay) == [pay EXCEPT !.status = "PAID"]

\* payment.Settle
Settle(pay) == [pay EXCEPT !.status = "SETTLED"]

\* previousFullWindow: windows are numbered by their start
PreviousFullWindow == (now \div WindowLength) - 1

-----------------------------------------------------------------------------
(* Captures.                                                               *)

\* The run of t's window, if it had one, has made its claim.
Late(t) ==
  /\ t \div WindowLength <= attempted
  /\ \A w \in Workers : pc[w] = "claim" => window[w] # t \div WindowLength

Miss(S) == missed' = missed \cup S

\* Mutant: the claim does not look at settlement_batch_id.
UnsettledAny(pay) == pay.status = "CAPTURED"

\* WHERE status = 'CAPTURED' AND settlement_batch_id IS NULL
Unclaimed(pay) == pay.status = "CAPTURED" /\ pay.batch = None

\* The row of q is unlocked with pay in it: too late for the claim, or not.
MissIfLate(q, pay) == Miss(IF Unclaimed(pay) /\ Late(pay.capturedAt) THEN {q} ELSE {})

\* A capture that has read the clock at t commits now.  What it has written
\* before is of no interest to a run: the row is AUTHORIZED until then.
Capture(q, t) ==
  /\ payments[q].val.status = "AUTHORIZED"
  /\ now <= LastCapture
  /\ LET captured == [status |-> "CAPTURED", capturedAt |-> t, batch |-> None] IN
     /\ payments' = [payments EXCEPT ![q] = Unlocked(captured)]
     /\ MissIfLate(q, captured)
  /\ UNCHANGED <<batches, items, settled, run, attempted, bounds, now>>

\* Mutant: UpdatePayment also writes settlement_batch_id, which Payment lacks.
RecapturedUnlinked(pay, t) == [status |-> "CAPTURED", capturedAt |-> t, batch |-> None]

\* What UpdatePayment of a capture makes of the row: settlement_batch_id is
\* not among the columns it sets.
Recaptured(pay, t) == [status |-> "CAPTURED", capturedAt |-> t, batch |-> pay.batch]

\* UpdatePayment of a second capture, which read the payment while it was
\* AUTHORIZED (module Payments, run PaymentsDoubleCapture): it waits for the
\* row, overwrites it and holds it until its transaction ends.
Recapture(q, t) ==
  /\ payments[q].val.status \in {"CAPTURED", "SETTLED"}
  /\ payments[q].lock = None
  /\ now <= LastCapture /\ recaptures < MaxRecaptures
  /\ recaptures' = recaptures + 1
  /\ payments' = [payments EXCEPT ![q] = Written(@, Recapturer, Recaptured(@.val, t))]
  /\ UNCHANGED <<batches, items, settled, run, attempted, missed, reruns, crashes, now>>

CommitRecapture(q) ==
  /\ payments[q].lock = Recapturer
  /\ payments' = [payments EXCEPT ![q] = Committed(@, Recapturer)]
  /\ MissIfLate(q, payments[q].new)
  /\ UNCHANGED <<batches, items, settled, run, attempted, bounds, now>>

\* CreateEvent or COMMIT fails, or the request is gone.  To a claim this is
\* also the end of an expiry run that has locked a payment just captured.
RollbackRecapture(q) ==
  /\ payments[q].lock = Recapturer
  /\ payments' = [payments EXCEPT ![q] = RolledBack(@, Recapturer)]
  /\ MissIfLate(q, payments[q].val)
  /\ UNCHANGED <<batches, items, settled, run, attempted, bounds, now>>

-----------------------------------------------------------------------------
(* Service.CreateBatch.                                                    *)

\* Store.CreateBatch and the first Store.UpdateBatch, of a row nobody else sees
CreateBatch(w, b, i) ==
  batches' = [batches EXCEPT ![b] = Written(@, w, StartProcessing(i, now))]

\* A fresh id: which one makes no difference.
FreshBatches == {b \in BatchIDs : batches[b].val = None /\ batches[b].lock = None}
NewID == CHOOSE b \in FreshBatches : TRUE

\* Its query: the rows RecoverStaleBatches would go on with at time t.
ListStaleProcessingBatches(t) ==
  {b \in BatchIDs : /\ batches[b].lock = None /\ batches[b].val # None
                    /\ IsStale(batches[b].val, t)}

\* The run of a window is started once, unless somebody starts it again.
Due == PreviousFullWindow > attempted

\* The worker starts: it takes the previous full window.  RecoverStaleBatches
\* comes first and finds nothing (NothingToRecover).  Then BEGIN.
StartRun(w) ==
  /\ pc[w] = "idle"
  /\ PreviousFullWindow >= 0
  /\ \/ Due /\ UNCHANGED reruns
     \/ ~Due /\ reruns < MaxReruns /\ reruns' = reruns + 1
  /\ FreshBatches # {}
  /\ CreateBatch(w, NewID, PreviousFullWindow)
  /\ batch' = [batch EXCEPT ![w] = NewID]
  /\ window' = [window EXCEPT ![w] = PreviousFullWindow]
  /\ attempted' = PreviousFullWindow
  /\ pc' = [pc EXCEPT ![w] = "claim"]
  /\ UNCHANGED <<payments, items, settled, todo, missed, recaptures, crashes, now>>

\* Mutant: the first instant of the window is left out.
InOpenWindow(t, i) == i * WindowLength < t /\ t < (i + 1) * WindowLength

\* captured_at >= window_start AND captured_at < window_end
InWindow(t, i) == i * WindowLength <= t /\ t < (i + 1) * WindowLength

\* Rows the claim of window i selects and does not skip as locked.
Claimable(i) == {q \in PaymentIDs : /\ Unclaimed(payments[q].val)
                                    /\ payments[q].lock = None
                                    /\ InWindow(payments[q].val.capturedAt, i)}

\* ORDER BY captured_at, id LIMIT n (ids are random: ties go either way).
FirstOf(S, n) ==
  {T \in SUBSET S : /\ Cardinality(T) = n \/ (T = S /\ Cardinality(S) < n)
                    /\ \A s \in T, r \in S \ T :
                         payments[s].val.capturedAt <= payments[r].val.capturedAt}

\* ClaimCapturedPayments: the rows are linked to the batch and stay locked.
ClaimCapturedPayments(w) ==
  /\ pc[w] = "claim"
  /\ \E T \in FirstOf(Claimable(window[w]), ClaimLimit) :
       /\ payments' = [q \in PaymentIDs |->
                         IF q \in T
                         THEN Written(payments[q], w, [payments[q].val EXCEPT !.batch = batch[w]])
                         ELSE payments[q]]
       /\ todo' = [todo EXCEPT ![w] = T]
       /\ Miss(Claimable(window[w]) \ T)
  /\ pc' = [pc EXCEPT ![w] = "settle"]
  /\ UNCHANGED <<batches, items, settled, batch, window, attempted, bounds, now>>

\* Mutant: the event is written outside the transaction.
CreateEventOutside(w, q) == settled' = [settled EXCEPT ![q] = Unlocked(settled[q].val + 1)]

\* CreateEvent of payment.settled in the run's transaction
CreateEvent(w, q) ==
  settled' = [settled EXCEPT ![q] = Written(settled[q], w, settled[q].val + 1)]

CreateLineItem(w, q) == items' = [items EXCEPT ![q] = Written(@, w, batch[w])]

\* One payment of settleClaimedPayments: GetPayment, Settle, UpdatePayment,
\* CreateLineItem and CreateEvent, on a row the run has locked.  The unique
\* index on the item's payment_id must admit the item.
SettlePayment(w, q) ==
  /\ pc[w] = "settle"
  /\ q \in todo[w]
  /\ items[q].val = None
  /\ payments' = [payments EXCEPT ![q] = Written(@, w, Settle(@.new))]
  /\ CreateLineItem(w, q)
  /\ CreateEvent(w, q)
  /\ todo' = [todo EXCEPT ![w] = @ \ {q}]
  /\ UNCHANGED <<batches, pc, batch, window, attempted, missed, bounds, now>>

EndRun(w) ==
  /\ pc' = [pc EXCEPT ![w] = "idle"]
  /\ batch' = [batch EXCEPT ![w] = None]
  /\ window' = [window EXCEPT ![w] = None]
  /\ todo' = [todo EXCEPT ![w] = {}]
  /\ UNCHANGED <<attempted, reruns, recaptures, now>>

\* Batch.Complete and Store.UpdateBatch, as the COMMIT leaves the row
UpdateBatch(w) ==
  batches' = [batches EXCEPT ![batch[w]] = Unlocked(Complete(@.new))]

\* The last statement of the run and its COMMIT
CompleteBatch(w) ==
  /\ pc[w] = "settle"
  /\ todo[w] = {}
  /\ payments' = [q \in PaymentIDs |-> Committed(payments[q], w)]
  /\ UpdateBatch(w)
  /\ items'    = [q \in PaymentIDs |-> Committed(items[q], w)]
  /\ settled'  = [q \in PaymentIDs |-> Committed(settled[q], w)]
  /\ EndRun(w)
  /\ UNCHANGED <<missed, crashes>>

\* What the run of w had claimed, or would have claimed.
Taking(w) == IF pc[w] = "claim" THEN Claimable(window[w])
                                ELSE {q \in PaymentIDs : payments[q].lock = w}

\* A statement fails or the worker dies: the whole run is rolled back.
Fail(w) ==
  /\ pc[w] # "idle"
  /\ crashes < MaxCrashes
  /\ crashes' = crashes + 1
  /\ Miss(Taking(w))
  /\ payments' = [q \in PaymentIDs |-> RolledBack(payments[q], w)]
  /\ batches'  = [b \in BatchIDs |-> RolledBack(batches[b], w)]
  /\ items'    = [q \in PaymentIDs |-> RolledBack(items[q], w)]
  /\ settled'  = [q \in PaymentIDs |-> RolledBack(settled[q], w)]
  /\ EndRun(w)

\* The clock leaves a window only after the run that was due in it.
Tick ==
  /\ now < MaxTime
  /\ (now + 1) % WindowLength = 0 => attempted >= PreviousFullWindow
  /\ now' = now + 1
  /\ UNCHANGED <<tables, run, attempted, missed, bounds>>

-----------------------------------------------------------------------------
Init ==
  /\ payments = [q \in PaymentIDs |->
                   Unlocked([status |-> "AUTHORIZED", capturedAt |-> None, batch |-> None])]
  /\ batches = [b \in BatchIDs |-> Unlocked(None)]
  /\ items   = [q \in PaymentIDs |-> Unlocked(None)]
  /\ settled = [q \in PaymentIDs |-> Unlocked(0)]
  /\ pc      = [w \in Workers |-> "idle"]
  /\ batch   = [w \in Workers |-> None]
  /\ window  = [w \in Workers |-> None]
  /\ todo    = [w \in Workers |-> {}]
  /\ attempted = -1
  /\ missed = {}
  /\ reruns = 0
  /\ recaptures = 0
  /\ crashes = 0
  /\ now = 0

CaptureTimes == {t \in 0..now : t >= now - CaptureLag}

EndRecapture(q) == CommitRecapture(q) \/ RollbackRecapture(q)

Step(w) ==
  \/ ClaimCapturedPayments(w)
  \/ \E q \in PaymentIDs : SettlePayment(w, q)
  \/ CompleteBatch(w)

Next ==
  \/ Tick
  \/ \E q \in PaymentIDs, t \in CaptureTimes : Capture(q, t) \/ Recapture(q, t)
  \/ \E q \in PaymentIDs : EndRecapture(q)
  \/ \E w \in Workers : StartRun(w) \/ Step(w) \/ Fail(w)

Spec == Init /\ [][Next]_vars

\* Time passes, the scheduled run of each window is started, a run that does
\* not fail goes on to its end, and a capture's transaction ends.
Fairness ==
  /\ WF_vars(Tick)
  /\ WF_vars(\E w \in Workers : Due /\ StartRun(w))
  /\ \A w \in Workers : WF_vars(Step(w))
  /\ \A q \in PaymentIDs : WF_vars(EndRecapture(q))

FairSpec == Spec /\ Fairness

-----------------------------------------------------------------------------
(* Properties.                                                             *)

\* Every variable has its type.
TypeOK ==
  /\ payments \in [PaymentIDs -> RowOf(Payment, Lockers)]
  /\ batches  \in [BatchIDs -> RowOf(Batch \cup {None}, Workers)]
  /\ items    \in [PaymentIDs -> RowOf(BatchIDs \cup {None}, Workers)]
  /\ settled  \in [PaymentIDs -> RowOf(Nat, Workers)]
  /\ pc       \in [Workers -> {"idle", "claim", "settle"}]
  /\ batch    \in [Workers -> BatchIDs \cup {None}]
  /\ window   \in [Workers -> Nat \cup {None}]
  /\ todo     \in [Workers -> SUBSET PaymentIDs]
  /\ attempted \in Int
  /\ missed \subseteq PaymentIDs
  /\ reruns \in Nat /\ recaptures \in Nat /\ crashes \in Nat /\ now \in Nat

\* No double settlement: a payment has one line item or none, and exactly as
\* many payment.settled events, also when runs of the same window overlap,
\* fail half-way, or a stale capture turns a settled payment back.
SettledOnce ==
  \A q \in PaymentIDs : settled[q].val = IF items[q].val = None THEN 0 ELSE 1

\* A claimed payment has its line item in the batch that claimed it, and a
\* line item's payment is claimed by its batch: neither is ever committed
\* without the other, and no later capture breaks the link.
LinkedToItsBatch == \A q \in PaymentIDs : payments[q].val.batch = items[q].val

\* No claim ever runs into the unique index on settlement_line_items:
\* a payment a run has still to settle has no line item.
ClaimsAreUnsettled ==
  \A w \in Workers : \A q \in todo[w] : items[q].val = None

\* A batch is PROCESSING only inside the transaction that completes it, so
\* however runs crash and however late it is, RecoverStaleBatches finds no row.
NothingToRecover == ListStaleProcessingBatches(now) = {}

\* Every captured payment is settled in the end.
CapturedIsSettled ==
  \A q \in PaymentIDs :
    payments[q].val.status = "CAPTURED" ~> payments[q].val.status = "SETTLED"

\* The only ways for a captured payment never to get its line item: the run
\* of its window fails, the run's claim is full, the capture's COMMIT comes
\* after the claim, or the claim skips the row because a second capture
\* holds it that is then rolled back.  No window boundary, overlapping run,
\* rerun or committed second capture in time loses a payment.
SettledUnlessMissed ==
  \A q \in PaymentIDs :
    payments[q].val.status = "CAPTURED" ~> items[q].val # None \/ q \in missed
=============================================================================
