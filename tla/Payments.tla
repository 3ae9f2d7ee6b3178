------------------------------ MODULE Payments ------------------------------
(***************************************************************************)
(* Payment authorization, capture and expiry over PostgreSQL:              *)
(* internal/payment (service, entities, adapters/postgres),                *)
(* internal/payer (entity, adapters/postgres) and the transaction boundary *)
(* internal/shared/db.                                                     *)
(*                                                                         *)
(* A process is one call in flight: an HTTP request that authorizes or     *)
(* captures, or a run of the expiry worker.  Each of its SQL statements is *)
(* one step, so calls interleave wherever the database lets them.          *)
(***************************************************************************)
EXTENDS Integers, FiniteSets, Functions, PgRow

CONSTANTS
  Authorizers, Capturers, Expirers, \* the processes that may run each operation
  Merchants, Payers, PaymentIDs,    \* ids; a payment and its hold share one id
  Amounts,                          \* amount_minor values in authorize requests
  Openings,                         \* available_balance_minor values of new payers
  AuthorizationTTL,                 \* the 15 minutes, in clock ticks
  ExpiryLimit,                      \* LIMIT of one expiry run
  MaxTime                           \* bound: the clock stops here

Procs == Authorizers \cup Capturers \cup Expirers

ASSUME ConstantsAssumption ==
  /\ Amounts \subseteq Int
  /\ Openings \subseteq Int
  /\ AuthorizationTTL \in Nat \ {0}
  /\ ExpiryLimit \in Nat \ {0}
  /\ MaxTime \in Nat

VARIABLES
  merchants,  \* merchant id -> its status, or None
  payers,     \* payer id -> row of the payers table
  payments,   \* payment id -> row of the payments table
  holds,      \* payment id -> row of payment_holds: the hold's status
  outbox,     \* payment id -> row counting its outbox_events by event type
  posted,     \* payer id -> row: history of what those events add up to
  pc,         \* process -> the statement it is about to run
  loc,        \* process -> local variables of its call
  now         \* the clock every process reads

tables == <<payers, payments, holds, outbox, posted>>
vars   == <<merchants, tables, pc, loc, now>>

-----------------------------------------------------------------------------
(* Records.                                                                *)

Payer == [available: Int, held: Int, version: Int]

Statuses     == {"AUTHORIZED", "CAPTURED", "EXPIRED"}
HoldStatuses == {"HELD", "CAPTURED", "RELEASED"}

Payment == [payer: Payers, amount: Int, status: Statuses, expiresAt: Int,
            capturedAt: Int \cup {None}]

EventTypes == {"authorized", "captured", "expired"}
Operations == {"authorize", "capture", "expire"}

\* What the events of one payer add up to: the account a consumer of the
\* outbox would reconstruct from the payer's opening balance and its events.
Account == [opening: Int, authorized: Int, captured: Int, expired: Int, entries: Int]

\* None is none of the things whose absence it stands for.
ASSUME NoneAssumption ==
  /\ None \notin Procs
  /\ None \notin Payer /\ None \notin Payment /\ None \notin Account
  /\ None \notin PaymentIDs \cup Operations \cup HoldStatuses

\* The locals of a call: its operation and payment, the records it has read
\* or built, and the payments an expiry run still has to expire.
Local == [op: Operations \cup {None}, payment: PaymentIDs \cup {None},
          payer: Payers \cup {None}, amount: Int, pay: Payment \cup {None},
          hold: HoldStatuses \cup {None}, acct: Payer \cup {None},
          todo: SUBSET PaymentIDs]

Call(op, q, x, amount, pay, todo) ==
  [op |-> op, payment |-> q, payer |-> x, amount |-> amount,
   pay |-> pay, hold |-> None, acct |-> None, todo |-> todo]

NoCall == Call(None, None, None, 0, None, {})

Labels == {"idle", "get_hold", "get_payer", "update_payer", "insert",
           "update_hold", "update_payment", "commit"}

-----------------------------------------------------------------------------
(* Entity methods: pure functions of the record they are called on.        *)

\* merchant.CanCreatePayments
CanCreatePayments(status) == status = "ACTIVE"

\* Mutant: the available balance is not compared with the amount.
CanAuthorizeUnfunded(r, amount) == amount > 0

\* payer.CanAuthorize
CanAuthorize(r, amount) == amount > 0 /\ r.available >= amount

\* Mutant: what is held stays available.
ReserveHeldOnly(r, amount) ==
  [available |-> r.available, held |-> r.held + amount, version |-> r.version + 1]

\* payer.Reserve, payer.CaptureHeld and payer.Release
Reserve(r, amount) ==
  [available |-> r.available - amount, held |-> r.held + amount, version |-> r.version + 1]

CaptureHeld(r, amount) ==
  [available |-> r.available, held |-> r.held - amount, version |-> r.version + 1]

Release(r, amount) ==
  [available |-> r.available + amount, held |-> r.held - amount, version |-> r.version + 1]

\* Mutant: the comparison is strict.
HasMoreHeld(r, amount) == amount > 0 /\ r.held > amount

\* The guard Release and CaptureHeld share.
HasHeld(r, amount) == amount > 0 /\ r.held >= amount

\* payment.NewAuthorizedPayment, with the expiry the service gives it
NewAuthorizedPayment(x, amount, t) ==
  [payer |-> x, amount |-> amount, status |-> "AUTHORIZED",
   expiresAt |-> t + AuthorizationTTL, capturedAt |-> None]

\* Mutant: the end of the authorization is not looked at.
CanCaptureLate(pay, t) == pay.status = "AUTHORIZED"

\* payment.CanCapture: both bounds are inclusive
CanCapture(pay, t) == pay.status = "AUTHORIZED" /\ t <= pay.expiresAt

\* Mutant: the payment gets the status of its hold.
ExpireAsReleased(pay) == [pay EXCEPT !.status = "RELEASED"]

\* payment.Capture and payment.Expire
Capture(pay, t) == [pay EXCEPT !.status = "CAPTURED", !.capturedAt = t]
Expire(pay)     == [pay EXCEPT !.status = "EXPIRED"]

\* Mutant: the hold is written back as it was read.
HoldKept(op) == "HELD"

\* Mutant: expiry captures the hold.
HoldCaptured(op) == "CAPTURED"

\* hold.Capture and hold.Release: the hold after the operation
HoldAfter(op) == IF op = "capture" THEN "CAPTURED" ELSE "RELEASED"

-----------------------------------------------------------------------------
(* The transaction boundary.                                               *)

\* PostgresTransactor.WithinTx, fn returned nil: the tables keep p's writes.
CommitTables(p) ==
  /\ payers'   = [x \in Payers     |-> Committed(payers[x], p)]
  /\ payments' = [q \in PaymentIDs |-> Committed(payments[q], p)]
  /\ holds'    = [q \in PaymentIDs |-> Committed(holds[q], p)]
  /\ outbox'   = [q \in PaymentIDs |-> Committed(outbox[q], p)]
  /\ posted'   = [x \in Payers     |-> Committed(posted[x], p)]

\* PostgresTransactor.WithinTx, fn returned an error or the process is gone.
RollbackTables(p) ==
  /\ payers'   = [x \in Payers     |-> RolledBack(payers[x], p)]
  /\ payments' = [q \in PaymentIDs |-> RolledBack(payments[q], p)]
  /\ holds'    = [q \in PaymentIDs |-> RolledBack(holds[q], p)]
  /\ outbox'   = [q \in PaymentIDs |-> RolledBack(outbox[q], p)]
  /\ posted'   = [x \in Payers     |-> RolledBack(posted[x], p)]

\* The call is over; its locals are gone.
EndCall(p) ==
  /\ pc'  = [pc EXCEPT ![p] = "idle"]
  /\ loc' = [loc EXCEPT ![p] = NoCall]
  /\ UNCHANGED <<merchants, now>>

\* Mutant: an error returns without ROLLBACK, the transaction keeps its locks.
LeakTx(p) == UNCHANGED tables /\ EndCall(p)

Rollback(p) == RollbackTables(p) /\ EndCall(p)

Commit(p) ==
  /\ pc[p] = "commit"
  /\ CommitTables(p)
  /\ EndCall(p)

GoTo(p, label) ==
  /\ pc' = [pc EXCEPT ![p] = label]
  /\ UNCHANGED <<merchants, now>>

\* A statement fails, the request's context is cancelled, the process dies,
\* a check on data the model leaves out (currency, blank ids) returns an
\* error: whatever the call wrote is rolled back.
Fail(p) == pc[p] # "idle" /\ Rollback(p)

-----------------------------------------------------------------------------
(* Creating the parties: single INSERTs outside any transaction.           *)

CreateMerchant(m) ==
  /\ merchants[m] = None
  /\ merchants' = [merchants EXCEPT ![m] = "ACTIVE"]
  /\ UNCHANGED <<tables, pc, loc, now>>

NewPayer(balance) == [available |-> balance, held |-> 0, version |-> 0]

CreatePayer(x, balance) ==
  /\ payers[x].val = None
  /\ balance >= 0
  /\ payers' = [payers EXCEPT ![x] = Unlocked(NewPayer(balance))]
  /\ posted' = [posted EXCEPT ![x] = Unlocked([opening |-> balance, authorized |-> 0,
                                       captured |-> 0, expired |-> 0, entries |-> 0])]
  /\ UNCHANGED <<merchants, payments, holds, outbox, pc, loc, now>>

-----------------------------------------------------------------------------
(* The first statement of each call.  A call whose first lookup fails      *)
(* (unknown or inactive merchant, unknown payment, nothing to expire) ends *)
(* without having written anything: a stuttering step.                     *)

\* id.New draws a payment id no row and no other call has.
FreshID(q) ==
  /\ payments[q].val = None
  /\ \A r \in Procs : loc[r].payment # q

\* AuthorizePayment: BEGIN, GetMerchant, CanCreatePayments.  The payment id
\* is drawn here: nothing depends on how early the call draws it.
StartAuthorize(p, m, x, amount, q) ==
  /\ pc[p] = "idle"
  /\ CanCreatePayments(merchants[m])
  /\ FreshID(q)
  /\ loc' = [loc EXCEPT ![p] = Call("authorize", q, x, amount, None, {})]
  /\ GoTo(p, "get_payer")
  /\ UNCHANGED tables

\* CapturePayment: BEGIN, GetPayment.  No lock is taken on the row.
StartCapture(p, q) ==
  /\ pc[p] = "idle"
  /\ payments[q].val # None
  /\ LET pay == payments[q].val
     IN  loc' = [loc EXCEPT ![p] = Call("capture", q, pay.payer, pay.amount, pay, {})]
  /\ GoTo(p, "get_hold")
  /\ UNCHANGED tables

\* Rows that match the WHERE clause of ListExpiredAuthorizedPayments and
\* are not skipped as locked.
Expirable ==
  {q \in PaymentIDs : /\ payments[q].val # None
                      /\ payments[q].lock = None
                      /\ payments[q].val.status = "AUTHORIZED"
                      /\ payments[q].val.expiresAt <= now}

\* ORDER BY expires_at LIMIT n: batches of the n earliest (ties: ids are random).
EarliestOf(S, n) ==
  {T \in SUBSET S : /\ T # {}
                    /\ Cardinality(T) = n \/ (T = S /\ Cardinality(S) < n)
                    /\ \A s \in T, r \in S \ T :
                          payments[s].val.expiresAt <= payments[r].val.expiresAt}

\* Mutant: the SELECT without FOR UPDATE.
ListOnly(p, batch) == UNCHANGED payments

\* FOR UPDATE: the listed rows stay locked until the transaction ends.
LockPayments(p, batch) ==
  payments' = [q \in PaymentIDs |-> IF q \in batch
                                    THEN Written(payments[q], p, payments[q].val)
                                    ELSE payments[q]]

\* ExpireAuthorizedPayments: BEGIN, ListExpiredAuthorizedPayments
StartExpire(p) ==
  /\ pc[p] = "idle"
  /\ \E batch \in EarliestOf(Expirable, ExpiryLimit) :
       /\ LockPayments(p, batch)
       /\ loc' = [loc EXCEPT ![p] = Call("expire", None, None, 0, None, batch)]
  /\ GoTo(p, "get_hold")
  /\ UNCHANGED <<payers, holds, outbox, posted>>

-----------------------------------------------------------------------------
(* The statements the calls have in common.                                *)

\* GetHoldByPaymentID, for the captured payment or for the next of the batch.
GetHold(p) ==
  /\ pc[p] = "get_hold"
  /\ \/ /\ loc[p].op = "capture"
        /\ loc' = [loc EXCEPT ![p] = [loc[p] EXCEPT !.hold = Seen(holds[loc[p].payment], p)]]
     \/ /\ loc[p].op = "expire"
        /\ \E q \in loc[p].todo :
             LET pay == Seen(payments[q], p) IN
             /\ \A r \in loc[p].todo : pay.expiresAt <= Seen(payments[r], p).expiresAt
             /\ loc' = [loc EXCEPT ![p] =
                           [Call("expire", q, pay.payer, pay.amount, pay, loc[p].todo \ {q})
                              EXCEPT !.hold = Seen(holds[q], p)]]
  /\ GoTo(p, "get_payer")
  /\ UNCHANGED tables

\* The checks that follow GetPayer, in the order of each service method.
Admits(p, r) ==
  /\ r # None
  /\ CASE loc[p].op = "authorize" -> CanAuthorize(r, loc[p].amount)
       [] loc[p].op = "capture"   -> /\ CanCapture(loc[p].pay, now)
                                     /\ loc[p].hold = "HELD"
                                     /\ HasHeld(r, loc[p].amount)
       [] loc[p].op = "expire"    -> HasHeld(r, loc[p].amount)

\* The payer after the operation, computed from the record just read.
Charged(op, r, amount) ==
  CASE op = "authorize" -> Reserve(r, amount)
    [] op = "capture"   -> CaptureHeld(r, amount)
    [] op = "expire"    -> Release(r, amount)

\* The payment after the operation, computed from the record read earlier.
Advanced(p) ==
  CASE loc[p].op = "authorize" -> NewAuthorizedPayment(loc[p].payer, loc[p].amount, now)
    [] loc[p].op = "capture"   -> Capture(loc[p].pay, now)
    [] loc[p].op = "expire"    -> Expire(loc[p].pay)

\* GetPayer, the service's checks, and the entity methods that build the
\* records to write; a failed check returns its error.
GetPayer(p) ==
  /\ pc[p] = "get_payer"
  /\ LET r == Seen(payers[loc[p].payer], p) IN
     \/ /\ Admits(p, r)
        /\ loc' = [loc EXCEPT ![p] = [loc[p] EXCEPT
                     !.acct = Charged(loc[p].op, r, loc[p].amount), !.pay = Advanced(p)]]
        /\ GoTo(p, "update_payer")
        /\ UNCHANGED tables
     \/ /\ ~Admits(p, r)
        /\ Rollback(p)

\* Mutant: UPDATE payers ... WHERE id = $1.
AnyVersion(p) == payers[loc[p].payer].val # None

\* WHERE version = $7: the row still has the version the call has read.
VersionMatches(p) ==
  Seen(payers[loc[p].payer], p).version = loc[p].acct.version - 1

\* UpdatePayer, one row affected.  Waits for the row lock.
UpdatePayer(p) ==
  /\ pc[p] = "update_payer"
  /\ VersionMatches(p)
  /\ Lockable(payers[loc[p].payer], p)
  /\ payers' = [payers EXCEPT ![loc[p].payer] = Written(@, p, loc[p].acct)]
  /\ GoTo(p, IF loc[p].op = "authorize" THEN "insert" ELSE "update_hold")
  /\ UNCHANGED <<payments, holds, outbox, posted, loc>>

\* UpdatePayer, no row affected: ErrPayerVersionConflict.
VersionConflict(p) ==
  /\ pc[p] = "update_payer"
  /\ ~VersionMatches(p)
  /\ Rollback(p)

\* The event type each operation hands to outbox.NewEvent.
EventOf(op) ==
  CASE op = "authorize" -> "authorized"
    [] op = "capture"   -> "captured"
    [] op = "expire"    -> "expired"

\* One more event of a type, and what it adds to the payer's account.
Counted(events, type) == [events EXCEPT ![type] = events[type] + 1]

Posting(op, a, amount) ==
  [opening    |-> a.opening,
   authorized |-> a.authorized + IF op = "authorize" THEN amount ELSE 0,
   captured   |-> a.captured + IF op = "capture" THEN amount ELSE 0,
   expired    |-> a.expired + IF op = "expire" THEN amount ELSE 0,
   entries    |-> a.entries + 1]

Post(p, x) ==
  posted' = [posted EXCEPT ![x] =
               Written(posted[x], p, Posting(loc[p].op, Seen(posted[x], p), loc[p].amount))]

\* Mutant: the event is written outside the transaction and outlives a rollback.
CreateEventOutside(p, q) ==
  /\ outbox' = [outbox EXCEPT ![q] = Unlocked(Counted(outbox[q].val, EventOf(loc[p].op)))]
  /\ Post(p, loc[p].payer)

\* outbox.CreateEvent in the same transaction.
CreateEvent(p, q) ==
  /\ outbox' = [outbox EXCEPT ![q] =
                  Written(outbox[q], p, Counted(Seen(outbox[q], p), EventOf(loc[p].op)))]
  /\ Post(p, loc[p].payer)

CreatePayment(p) ==
  payments' = [payments EXCEPT ![loc[p].payment] = Written(@, p, loc[p].pay)]

\* payment.NewHold and CreateHold
CreateHold(p) == holds' = [holds EXCEPT ![loc[p].payment] = Written(@, p, "HELD")]

\* CreatePayment, CreateHold and CreateEvent.  The rows are new: nobody
\* sees them, or waits for them, before the commit.
InsertPayment(p) ==
  /\ pc[p] = "insert"
  /\ CreatePayment(p)
  /\ CreateHold(p)
  /\ CreateEvent(p, loc[p].payment)
  /\ GoTo(p, "commit")
  /\ UNCHANGED <<payers, loc>>

\* UpdateHold.  Capture has checked the hold before; expiry calls
\* hold.Release only now.  The UPDATE itself has no status guard.
UpdateHold(p) ==
  /\ pc[p] = "update_hold"
  /\ \/ /\ loc[p].hold = "HELD"
        /\ Lockable(holds[loc[p].payment], p)
        /\ holds' = [holds EXCEPT ![loc[p].payment] =
                       Written(@, p, HoldAfter(loc[p].op))]
        /\ GoTo(p, "update_payment")
        /\ UNCHANGED <<payers, payments, outbox, posted, loc>>
     \/ /\ loc[p].hold # "HELD"
        /\ Rollback(p)

\* UpdatePayment and CreateEvent.  WHERE id = $1: the row is overwritten
\* with the record the call has built, whatever its status is by now.
UpdatePayment(p) ==
  /\ pc[p] = "update_payment"
  /\ Lockable(payments[loc[p].payment], p)
  /\ payments' = [payments EXCEPT ![loc[p].payment] = Written(@, p, loc[p].pay)]
  /\ CreateEvent(p, loc[p].payment)
  /\ GoTo(p, IF loc[p].todo = {} THEN "commit" ELSE "get_hold")
  /\ UNCHANGED <<payers, holds, loc>>

-----------------------------------------------------------------------------
(* Lock waits.                                                             *)

\* Process p waits for a row lock that process r holds.
WaitsFor(p, r) ==
  /\ p # r
  /\ \/ pc[p] = "update_payer" /\ VersionMatches(p) /\ payers[loc[p].payer].lock = r
     \/ pc[p] = "update_hold" /\ loc[p].hold = "HELD" /\ holds[loc[p].payment].lock = r
     \/ pc[p] = "update_payment" /\ payments[loc[p].payment].lock = r

\* p is on a cycle of waiting processes (each waits for one lock only).
Deadlocked(p) ==
  \E S \in SUBSET Procs :
    /\ p \in S
    /\ \A a \in S : (\E b \in S : WaitsFor(a, b)) /\ (\E b \in S : WaitsFor(b, a))

\* PostgreSQL's deadlock detector aborts one of them; the service gets an error.
DeadlockVictim(p) == Deadlocked(p) /\ Rollback(p)

Tick ==
  /\ now < MaxTime
  /\ now' = now + 1
  /\ UNCHANGED <<merchants, tables, pc, loc>>

-----------------------------------------------------------------------------
NoEvents == [t \in EventTypes |-> 0]

Init ==
  /\ merchants = [m \in Merchants |-> None]
  /\ payers    = [x \in Payers |-> Unlocked(None)]
  /\ payments  = [q \in PaymentIDs |-> Unlocked(None)]
  /\ holds     = [q \in PaymentIDs |-> Unlocked(None)]
  /\ outbox    = [q \in PaymentIDs |-> Unlocked(NoEvents)]
  /\ posted    = [x \in Payers |-> Unlocked(None)]
  /\ pc        = [p \in Procs |-> "idle"]
  /\ loc       = [p \in Procs |-> NoCall]
  /\ now = 0

\* A call in flight goes on, unless it waits for a lock.
Step(p) ==
  \/ GetHold(p) \/ GetPayer(p) \/ UpdatePayer(p) \/ VersionConflict(p)
  \/ InsertPayment(p) \/ UpdateHold(p) \/ UpdatePayment(p) \/ Commit(p)

Start(p) ==
  \/ p \in Authorizers /\ \E m \in Merchants, x \in Payers, a \in Amounts, q \in PaymentIDs :
                             StartAuthorize(p, m, x, a, q)
  \/ p \in Capturers /\ \E q \in PaymentIDs : StartCapture(p, q)
  \/ p \in Expirers /\ StartExpire(p)

Next ==
  \/ Tick
  \/ \E m \in Merchants : CreateMerchant(m)
  \/ \E x \in Payers, b \in Openings : CreatePayer(x, b)
  \/ \E p \in Procs : Start(p) \/ Step(p) \/ DeadlockVictim(p) \/ Fail(p)

Spec == Init /\ [][Next]_vars

\* A call in flight runs its next statement.  Strong fairness where it waits
\* for a row lock: PostgreSQL queues the waiters, so one the lock becomes
\* free for again and again is not passed over forever.  The deadlock
\* detector runs.  Nothing is assumed about new calls or failures.
Fairness == \A p \in Procs : SF_vars(Step(p)) /\ WF_vars(DeadlockVictim(p))

-----------------------------------------------------------------------------
(* Properties.                                                             *)

\* Every variable has its type.
TypeOK ==
  /\ merchants \in [Merchants -> {"ACTIVE", None}]
  /\ payers   \in [Payers -> RowOf(Payer \cup {None}, Procs)]
  /\ payments \in [PaymentIDs -> RowOf(Payment \cup {None}, Procs)]
  /\ holds    \in [PaymentIDs -> RowOf(HoldStatuses \cup {None}, Procs)]
  /\ outbox   \in [PaymentIDs -> RowOf([EventTypes -> Int], Procs)]
  /\ posted   \in [Payers -> RowOf(Account \cup {None}, Procs)]
  /\ pc  \in [Procs -> Labels]
  /\ loc \in [Procs -> Local]
  /\ now \in Int

\* The balances r are the ones the events behind a add up to.
Reconciles(r, a) ==
  /\ r.available = a.opening - a.authorized + a.expired
  /\ r.held      = a.authorized - a.captured - a.expired
  /\ r.version   = a.entries

\* No lost update and no change without its event: the committed balances of
\* a payer (UpdatePayer and its version check) are exactly its opening
\* balance moved by the amounts of its committed outbox events, and its
\* version counts them, however authorize, capture and expiry interleave.
BalancesReconcile ==
  \A x \in Payers : payers[x].val # None => Reconciles(payers[x].val, posted[x].val)

\* Neither balance goes below zero, committed or not: the checks of the
\* entity methods on a record read earlier are still good when it is
\* written, so the CHECK constraints of the payers table never fire.
NoOverdraft ==
  \A x \in Payers :
    /\ payers[x].val # None => payers[x].val.available >= 0 /\ payers[x].val.held >= 0
    /\ payers[x].new # None => payers[x].new.available >= 0 /\ payers[x].new.held >= 0

HoldFor(status) ==
  CASE status = "AUTHORIZED" -> "HELD"
    [] status = "CAPTURED"   -> "CAPTURED"
    [] status = "EXPIRED"    -> "RELEASED"

\* A committed payment and its hold agree, although capture and expiry
\* write them with two unguarded UPDATEs.
HoldFollowsPayment ==
  \A q \in PaymentIDs :
    IF payments[q].val = None THEN holds[q].val = None
                              ELSE holds[q].val = HoldFor(payments[q].val.status)

HeldFor(x) ==
  {q \in PaymentIDs : /\ payments[q].val # None
                      /\ payments[q].val.payer = x
                      /\ holds[q].val = "HELD"}

\* The held balance of payer x is the sum of its HELD holds.
Backed(x) ==
  payers[x].val.held = SumFunction([q \in HeldFor(x) |-> payments[q].val.amount])

\* The held balance of every payer is backed by holds: none was taken out
\* of it twice, and none is left without funds.
HeldBalanceBacked == \A x \in Payers : payers[x].val # None => Backed(x)

\* A payment of x was captured twice, or captured after it had expired.
HasTwice(x) ==
  \E q \in PaymentIDs :
    /\ payments[q].val # None /\ payments[q].val.payer = x
    /\ outbox[q].val["captured"] + outbox[q].val["expired"] > 1

\* A payment captured twice is the only way to an unbacked held balance:
\* in every other race of authorize, capture and expiry (UpdatePayer,
\* CreateHold, UpdateHold in one transaction) each hold has its funds.
HeldBackedUnlessTwice ==
  \A x \in Payers : payers[x].val # None /\ ~HasTwice(x) => Backed(x)

\* A payment is expired at most once, and never after a capture, although
\* UpdatePayment does not look at the status: the FOR UPDATE of
\* ListExpiredAuthorizedPayments keeps the status it has selected.
ExpiresOnlyOpen ==
  [][\A q \in PaymentIDs :
       outbox'[q].val["expired"] > outbox[q].val["expired"] =>
         outbox[q].val["expired"] = 0 /\ outbox[q].val["captured"] = 0]_vars

EventFor(status) ==
  CASE status = "AUTHORIZED" -> "authorized"
    [] status = "CAPTURED"   -> "captured"
    [] status = "EXPIRED"    -> "expired"

\* Transactional outbox: the step that commits a payment in a new status
\* commits the event for it, and a step that commits an event commits the
\* payment in that status.
EventWithStatus ==
  [][\A q \in PaymentIDs :
       LET old == payments[q].val
           new == payments'[q].val
       IN  /\ new # None /\ (old = None \/ old.status # new.status) =>
                outbox'[q].val = [outbox[q].val EXCEPT ![EventFor(new.status)] = @ + 1]
           /\ outbox'[q].val # outbox[q].val =>
                new # None /\ outbox'[q].val[EventFor(new.status)] > 0]_vars

\* The committed payers and payments, as the accounts and the book of Ledger.
Abstract ==
  INSTANCE Ledger WITH accounts <- [x \in Payers |-> payers[x].val],
                       book     <- [q \in PaymentIDs |-> payments[q].val]

\* Calls are atomic: what is committed by authorize, capture and expiry, with
\* all their statements interleaved, each of these operations could have done
\* in one step on the committed state, with its checks passing there; but for
\* the status check of a capture (Ledger!Recapture).
ImplementsLedger == Abstract!Spec

\* Every call ends: row locks taken in different orders (capture: payer,
\* hold, payment; expiry: payment, payer, hold) leave nobody waiting forever.
CallsEnd == \A p \in Procs : pc[p] # "idle" ~> pc[p] = "idle"
=============================================================================
