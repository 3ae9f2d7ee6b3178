----------------------------- MODULE MemPayments -----------------------------
(***************************************************************************)
(* Payments on the in-memory backend, the default of cmd/paycore-api: the  *)
(* same service calls over the maps of adapters/memory and a transactor    *)
(* that just runs its callback (internal/shared/db NoopTransactor).        *)
(*                                                                         *)
(* Each repository method holds its store's mutex, so it is one atomic     *)
(* step, seen by every other call at once; nothing is rolled back when a   *)
(* later one fails.  Rows are never locked here: the steps of Payments     *)
(* that only read, or that end a call, are taken as they are (a ROLLBACK   *)
(* of no lock changes nothing), the ones that write are below.  Expiry     *)
(* runs in a worker process of its own, which has no memory backend.       *)
(***************************************************************************)
EXTENDS Payments

VARIABLE torn  \* history: payers and payments of calls that ended half-way

mvars == <<vars, torn>>

MemLabels == {"idle", "get_hold", "get_payer", "update_payer", "create_payment",
              "create_hold", "update_hold", "update_payment", "create_event"}

\* A call that has written its payer and still has to write something.
Writing == {"create_payment", "create_hold", "update_hold", "update_payment", "create_event"}

MemCreateMerchant(m)   == CreateMerchant(m) /\ UNCHANGED torn
MemCreatePayer(x, b)   == CreatePayer(x, b) /\ UNCHANGED torn

\* The reads of Payments, by Store.GetMerchant, GetPayment,
\* GetHoldByPaymentID and GetPayer
MemStartAuthorize(p) ==
  /\ p \in Authorizers
  /\ \E m \in Merchants, x \in Payers, a \in Amounts, q \in PaymentIDs :
       StartAuthorize(p, m, x, a, q)
  /\ UNCHANGED torn

MemStartCapture(p) ==
  /\ p \in Capturers
  /\ \E q \in PaymentIDs : StartCapture(p, q)
  /\ UNCHANGED torn

MemGetHold(p)  == GetHold(p) /\ UNCHANGED torn
MemGetPayer(p) == GetPayer(p) /\ UNCHANGED torn

\* Mutant: the map is overwritten whatever version it has.
MemAnyVersion(p) == TRUE

\* payerRecord.Version != current.Version+1 is ErrPayerVersionConflict
MemVersionMatches(p) == loc[p].acct.version = payers[loc[p].payer].val.version + 1

\* Store.UpdatePayer
MemUpdatePayer(p) ==
  /\ pc[p] = "update_payer"
  /\ MemVersionMatches(p)
  /\ payers' = [payers EXCEPT ![loc[p].payer] = Unlocked(loc[p].acct)]
  /\ GoTo(p, IF loc[p].op = "authorize" THEN "create_payment" ELSE "update_hold")
  /\ UNCHANGED <<payments, holds, outbox, posted, loc, torn>>

MemVersionConflict(p) ==
  /\ pc[p] = "update_payer"
  /\ ~MemVersionMatches(p)
  /\ EndCall(p)
  /\ UNCHANGED <<tables, torn>>

\* Store.CreatePayment: from here on a capture can find the payment.
MemCreatePayment(p) ==
  /\ pc[p] = "create_payment"
  /\ payments' = [payments EXCEPT ![loc[p].payment] = Unlocked(loc[p].pay)]
  /\ GoTo(p, "create_hold")
  /\ UNCHANGED <<payers, holds, outbox, posted, loc, torn>>

\* Mutant: the hold gets the status of its payment.
MemCreateHoldAuthorized(p) ==
  /\ pc[p] = "create_hold"
  /\ holds' = [holds EXCEPT ![loc[p].payment] = Unlocked("AUTHORIZED")]
  /\ GoTo(p, "create_event")
  /\ UNCHANGED <<payers, payments, outbox, posted, loc, torn>>

\* Store.CreateHold
MemCreateHold(p) ==
  /\ pc[p] = "create_hold"
  /\ holds' = [holds EXCEPT ![loc[p].payment] = Unlocked("HELD")]
  /\ GoTo(p, "create_event")
  /\ UNCHANGED <<payers, payments, outbox, posted, loc, torn>>

\* Store.UpdateHold: the hold of a capture, which has checked it before.
MemUpdateHold(p) ==
  /\ pc[p] = "update_hold"
  /\ holds' = [holds EXCEPT ![loc[p].payment] = Unlocked(HoldAfter(loc[p].op))]
  /\ GoTo(p, "update_payment")
  /\ UNCHANGED <<payers, payments, outbox, posted, loc, torn>>

\* Store.UpdatePayment: the payment exists, that is all it asks.
MemUpdatePayment(p) ==
  /\ pc[p] = "update_payment"
  /\ payments' = [payments EXCEPT ![loc[p].payment] = Unlocked(loc[p].pay)]
  /\ GoTo(p, "create_event")
  /\ UNCHANGED <<payers, holds, outbox, posted, loc, torn>>

\* Store.CreateEvent of the outbox
MemAppendEvent(p) ==
  /\ outbox' = [outbox EXCEPT ![loc[p].payment] = Unlocked(Counted(@.val, EventOf(loc[p].op)))]
  /\ posted' = [posted EXCEPT ![loc[p].payer] =
                  Unlocked(Posting(loc[p].op, @.val, loc[p].amount))]

\* The last write of a call; NoopTransactor returns what the callback returns.
MemCreateEvent(p) ==
  /\ pc[p] = "create_event"
  /\ MemAppendEvent(p)
  /\ EndCall(p)
  /\ UNCHANGED <<payers, payments, holds, torn>>

\* The request's context is cancelled: the next repository method returns its
\* error, and what the call has written stays.
MemFail(p) ==
  /\ pc[p] # "idle"
  /\ torn' = IF pc[p] \in Writing THEN torn \cup {loc[p].payer, loc[p].payment} ELSE torn
  /\ EndCall(p)
  /\ UNCHANGED tables

\* The stores are new maps: a restart of the process forgets everything.
MemInit == Init /\ torn = {}

MemNext ==
  \/ Tick /\ UNCHANGED torn
  \/ \E m \in Merchants : MemCreateMerchant(m)
  \/ \E x \in Payers, b \in Openings : MemCreatePayer(x, b)
  \/ \E p \in Procs : \/ MemStartAuthorize(p) \/ MemStartCapture(p)
                      \/ MemGetHold(p) \/ MemGetPayer(p)
                      \/ MemUpdatePayer(p) \/ MemVersionConflict(p)
                      \/ MemCreatePayment(p) \/ MemCreateHold(p)
                      \/ MemUpdateHold(p) \/ MemUpdatePayment(p)
                      \/ MemCreateEvent(p) \/ MemFail(p)

MemSpec == MemInit /\ [][MemNext]_mvars

-----------------------------------------------------------------------------
(* Properties.                                                             *)

\* Every variable has its type, and no row is ever locked.
MemTypeOK ==
  /\ merchants \in [Merchants -> {"ACTIVE", None}]
  /\ \A x \in Payers : /\ payers[x] = Unlocked(payers[x].val)
                       /\ payers[x].val \in Payer \cup {None}
                       /\ posted[x].val \in Account \cup {None}
  /\ \A q \in PaymentIDs : /\ payments[q] = Unlocked(payments[q].val)
                           /\ payments[q].val \in Payment \cup {None}
                           /\ holds[q] = Unlocked(holds[q].val)
                           /\ holds[q].val \in HoldStatuses \cup {None}
                           /\ outbox[q].val \in [EventTypes -> Nat]
  /\ pc  \in [Procs -> MemLabels]
  /\ loc \in [Procs -> Local]
  /\ torn \subseteq Payers \cup PaymentIDs
  /\ now \in Nat

\* A call is between its first and its last write of this payer or payment.
InFlight(y) == \E p \in Procs : pc[p] \in Writing /\ y \in {loc[p].payer, loc[p].payment}

\* No lost update without transactions either: between calls, the balances
\* and the version of a payer are what its events add up to, however
\* authorize and capture interleave on it, unless one of them was cut off
\* after its UpdatePayer.
ReconcilesUnlessTorn ==
  \A x \in Payers : payers[x].val # None /\ x \notin torn /\ ~InFlight(x) =>
    Reconciles(payers[x].val, posted[x].val)

\* The payer is written first and the event last, so at no instant, and
\* after no cut-off, is there more money than the payer brought: what is
\* available, held, and reported as captured never exceeds the opening.
NoMoneyCreated ==
  \A x \in Payers : payers[x].val # None =>
    payers[x].val.available + payers[x].val.held + posted[x].val.captured
      <= posted[x].val.opening

\* A payment can be captured as soon as CreatePayment has put it in its map,
\* before its hold is in the other one; still no call leaves a payment and a
\* hold that disagree behind, but for those cut off.
HoldFollowsUnlessTorn ==
  \A q \in PaymentIDs : payments[q].val # None /\ q \notin torn /\ ~InFlight(q) =>
    holds[q].val = HoldFor(payments[q].val.status)
=============================================================================
