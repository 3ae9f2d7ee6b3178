---------------------------- MODULE PaymentsInv ----------------------------
(***************************************************************************)
(* The inductive invariants behind the theorems of PaymentsProofs.  They   *)
(* say what each call in flight relies on at each of its statements.       *)
(***************************************************************************)
EXTENDS Payments

\* A call that has read its payment and payer, or is about to.
Reading == {"get_payer", "update_payer"}

\* A call that has updated its payer and owes the event for it.
Owing == {"insert", "update_hold", "update_payment"}

\* The locals a call needs at its next statement have been set.
LocalsSet(p) ==
  /\ IF pc[p] = "idle" THEN loc[p] = NoCall ELSE loc[p].op \in Operations
  /\ pc[p] \in {"get_hold", "update_hold", "update_payment"} => loc[p].op # "authorize"
  /\ pc[p] = "insert" => loc[p].op = "authorize"
  /\ pc[p] \in Reading \cup Owing \/ (pc[p] = "get_hold" /\ loc[p].op = "capture") =>
       /\ loc[p].payment \in PaymentIDs
       /\ loc[p].payer \in Payers
       /\ loc[p].op # "authorize" => loc[p].pay \in Payment /\ payments[loc[p].payment].val # None
  /\ pc[p] \in Owing \cup {"update_payer"} =>
       /\ loc[p].acct \in Payer
       /\ loc[p].pay \in Payment
       /\ payers[loc[p].payer].val # None
  /\ pc[p] \in Owing => payers[loc[p].payer].lock = p

\* An expiry run holds the lock on every payment it still has to expire.
BatchLocked(p) ==
  \A q \in loc[p].todo : payments[q].lock = p /\ payments[q].val # None

\* The id of a payment being authorized belongs to one call only.
IdFresh(p) ==
  loc[p].op = "authorize" =>
    /\ loc[p].payment \in PaymentIDs
    /\ payments[loc[p].payment].val = None
    /\ pc[p] # "commit" => payments[loc[p].payment].lock = None
    /\ \A r \in Procs \ {p} : loc[r].payment # loc[p].payment

\* A row not yet committed is locked by the call that inserts it, and no
\* statement takes a committed row away.
RowInserted(q) ==
  /\ payments[q].val # None => payments[q].new # None
  /\ payments[q].val = None /\ payments[q].lock # None =>
       loc[payments[q].lock].op = "authorize" /\ loc[payments[q].lock].payment = q

\* A payer and its account are created together, and locked payer first.
Paired(x) ==
  /\ payers[x].val = None <=> posted[x].val = None
  /\ payers[x].new = None <=> posted[x].new = None
  /\ payers[x].val = None <=> payers[x].new = None
  /\ payers[x].val = None => payers[x].lock = None
  /\ posted[x].lock \in {None, payers[x].lock}

CallInv ==
  /\ TypeOK
  /\ \A p \in Procs : LocalsSet(p) /\ BatchLocked(p) /\ IdFresh(p)
  /\ \A q \in PaymentIDs : RowInserted(q)
  /\ \A x \in Payers : Paired(x)

-----------------------------------------------------------------------------
(* The ledger.                                                             *)

\* p has updated payer x and not yet written the event for it.
EventDue(p, x) == pc[p] \in Owing /\ loc[p].payer = x

\* What p sees of a payer reconciles with what it sees of its events,
\* once the event it still owes is posted.
SeesReconciled(p, x) ==
  payers[x].val # None =>
    Reconciles(Seen(payers[x], p),
               IF EventDue(p, x) THEN Posting(loc[p].op, Seen(posted[x], p), loc[p].amount)
                                 ELSE Seen(posted[x], p))

\* A version names one state of the payer: when the version p has read is
\* still the current one, so are the balances p computed from.
ReadCurrent(p) ==
  pc[p] = "update_payer" =>
    LET r == Seen(payers[loc[p].payer], p)
    IN  /\ loc[p].acct.version <= r.version + 1
        /\ loc[p].acct.version = r.version + 1 =>
             loc[p].acct = Charged(loc[p].op, r, loc[p].amount)

\* A locked payer row carries a newer version than the committed one.
VersionGrows(x) ==
  /\ payers[x].lock = None => payers[x].new = payers[x].val
  /\ payers[x].lock # None => payers[x].new.version > payers[x].val.version

LedgerInv ==
  /\ \A p \in Procs : ReadCurrent(p) /\ \A x \in Payers : SeesReconciled(p, x)
  /\ \A x \in Payers : VersionGrows(x)
  /\ BalancesReconcile

\* The balances a call is about to write are not negative.
FundsInv ==
  /\ NoOverdraft
  /\ \A p \in Procs : loc[p].acct # None => loc[p].acct.available >= 0 /\ loc[p].acct.held >= 0

-----------------------------------------------------------------------------
(* The book: payments, holds and events.                                   *)

\* The status an operation gives its payment.
StatusAfter(op) ==
  CASE op = "authorize" -> "AUTHORIZED"
    [] op = "capture"   -> "CAPTURED"
    [] op = "expire"    -> "EXPIRED"

\* Statements of a call that come before the UPDATE of its payment.
Before == {"get_payer", "update_payer", "update_hold", "update_payment"}

\* p is on its way to update payment q.
Ahead(p, q) == q \in loc[p].todo \/ (loc[p].payment = q /\ pc[p] \in Before)

\* A call writes the status of its operation, once per payment; a run of
\* the expiry worker has what it will update locked all along.
Course(p) ==
  /\ loc[p].op # "expire" \/ pc[p] = "commit" => loc[p].todo = {}
  /\ loc[p].op = "expire" =>
       /\ \A q \in PaymentIDs : Ahead(p, q) => payments[q].lock = p
       /\ pc[p] \in Before => loc[p].payment \notin loc[p].todo
  /\ pc[p] \in Owing \cup {"update_payer"} => loc[p].pay.status = StatusAfter(loc[p].op)
  /\ pc[p] = "update_payment" => holds[loc[p].payment].lock = p

\* The payment, the hold and the events of q that p will commit agree.
Rewritten(p, q) ==
  /\ holds[q].lock = p /\ outbox[q].lock = p
  /\ payments[q].new # None /\ payments[q].new.status = StatusAfter(loc[p].op)
  /\ outbox[q].new = Counted(outbox[q].val, EventOf(loc[p].op))

\* What the transaction that holds the lock on payment q has done to it.
PaymentRow(q) ==
  payments[q].lock # None =>
    LET p == payments[q].lock IN
    /\ IF loc[p].op = "expire"
       THEN payments[q].val # None /\ payments[q].val.status = "AUTHORIZED"
       ELSE pc[p] = "commit" /\ loc[p].payment = q
    /\ IF Ahead(p, q) THEN payments[q].new = payments[q].val ELSE Rewritten(p, q)

\* The hold is written before its payment, the event with it.
HoldRow(q) ==
  holds[q].lock # None =>
    LET p == holds[q].lock IN
    /\ holds[q].new = HoldFor(StatusAfter(loc[p].op))
    /\ \/ pc[p] = "update_payment" /\ loc[p].payment = q
       \/ payments[q].lock = p /\ ~Ahead(p, q)

EventRow(q) ==
  outbox[q].lock # None => payments[q].lock = outbox[q].lock /\ ~Ahead(outbox[q].lock, q)

\* What is committed of a payment, its hold and its events agrees.
Agrees(q) ==
  /\ \A t \in EventTypes : outbox[q].val[t] >= 0
  /\ IF payments[q].val = None
     THEN holds[q].val = None /\ outbox[q].val = NoEvents
     ELSE /\ holds[q].val = HoldFor(payments[q].val.status)
          /\ outbox[q].val[EventFor(payments[q].val.status)] > 0
          /\ payments[q].val.status = "AUTHORIZED" =>
               outbox[q].val["captured"] = 0 /\ outbox[q].val["expired"] = 0

BookInv ==
  /\ \A p \in Procs : Course(p)
  /\ \A q \in PaymentIDs : PaymentRow(q) /\ HoldRow(q) /\ EventRow(q) /\ Agrees(q)

-----------------------------------------------------------------------------
(* What each call has done to its payers and payments since it began, in   *)
(* terms of what is committed: the step of Ledger that its COMMIT takes.   *)

\* The parts of a payment that no operation changes.
SameTerms(a, b) == a.payer = b.payer /\ a.amount = b.amount /\ a.expiresAt = b.expiresAt

\* A call that authorizes, from the time it has decided to.
AuthorizeTerms(p) ==
  loc[p].op = "authorize" =>
    /\ loc[p].payer \in Payers /\ loc[p].amount \in Amounts
    /\ pc[p] # "get_payer" =>
         /\ loc[p].amount > 0
         /\ \E t \in 0..now : loc[p].pay = NewAuthorizedPayment(loc[p].payer, loc[p].amount, t)

\* A call that captures: what it has read of the payment may be stale, but
\* for the terms.
CaptureTerms(p) ==
  loc[p].op = "capture" =>
    LET read == payments[loc[p].payment].val IN
    /\ loc[p].payment \in PaymentIDs /\ read # None
    /\ loc[p].payer = read.payer /\ loc[p].amount = read.amount
    /\ SameTerms(loc[p].pay, read)
    /\ pc[p] \notin {"get_hold", "get_payer"} =>
         \E t \in 0..now : t <= read.expiresAt /\ loc[p].pay = Capture(read, t)

\* The payments p has locked, committed ones if it is an expiry run.
Batch(p) == {q \in PaymentIDs : payments[q].lock = p}

\* An expiry run: what it has read of its payments is current.
ExpireTerms(p) ==
  loc[p].op = "expire" =>
    /\ Batch(p) # {} /\ Cardinality(Batch(p)) <= ExpiryLimit
    /\ \A q \in Batch(p) : payments[q].val.expiresAt <= now
    /\ pc[p] \in Before =>
         LET read == payments[loc[p].payment].val IN
         /\ loc[p].payer = read.payer /\ loc[p].amount = read.amount
         /\ loc[p].pay = IF pc[p] = "get_payer" THEN read ELSE Expire(read)

\* A payment that has been written is the one its call has built.
PaymentWritten(q) ==
  payments[q].lock # None /\ ~Ahead(payments[q].lock, q) =>
    payments[q].new = IF loc[payments[q].lock].op = "expire"
                      THEN Expire(payments[q].val) ELSE loc[payments[q].lock].pay

\* Payments of x for which expiry run p has released the funds.
Taken(p, x) ==
  {q \in Batch(p) :
     /\ payments[q].val.payer = x
     /\ Ahead(p, q) => loc[p].payment = q /\ pc[p] \in {"update_hold", "update_payment"}}

TakenTotal(p, x) == SumFunction([q \in Taken(p, x) |-> payments[q].val.amount])

\* What the call that has a payer locked has moved in its balances.
PayerMoved(x) ==
  payers[x].lock # None =>
    LET p == payers[x].lock IN
    IF loc[p].op = "expire"
    THEN /\ Taken(p, x) # {}
         /\ payers[x].new = Abstract!Moved(payers[x].val, TakenTotal(p, x), -TakenTotal(p, x),
                                           Cardinality(Taken(p, x)))
    ELSE /\ pc[p] \in Owing \cup {"commit"} /\ loc[p].payer = x
         /\ payers[x].new = Charged(loc[p].op, payers[x].val, loc[p].amount)

\* A call that has moved funds has the payer locked, and what it commits of
\* an authorization or a capture includes the payment.
PayerHeld(p) ==
  IF loc[p].op = "expire"
  THEN \A x \in Payers : Taken(p, x) # {} => payers[x].lock = p
  ELSE /\ pc[p] \in Owing \cup {"commit"} => payers[loc[p].payer].lock = p
       /\ pc[p] = "commit" => payments[loc[p].payment].lock = p

\* The payments there are, committed or being inserted.
Known == {q \in PaymentIDs : payments[q].new # None}

EffectInv ==
  /\ now \in Nat /\ IsFiniteSet(Known)
  /\ \A p \in Procs : AuthorizeTerms(p) /\ CaptureTerms(p) /\ ExpireTerms(p) /\ PayerHeld(p)
  /\ \A q \in PaymentIDs : PaymentWritten(q)
  /\ \A x \in Payers : PayerMoved(x)

\* Holds have their funds, but for payments captured twice, and only payers
\* that exist have payments.
BackedInv ==
  /\ HeldBackedUnlessTwice
  /\ \A q \in PaymentIDs :
       payments[q].val # None => payers[payments[q].val.payer].val # None
=============================================================================
