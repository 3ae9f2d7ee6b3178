---------------------------- MODULE ExpiryWorker ----------------------------
(***************************************************************************)
(* Module Payments with cmd/paycore-expiry-worker started again and again: *)
(* each start runs one batch and exits, whatever becomes of it.  Failures  *)
(* are counted, so that they stop at some point and the question is        *)
(* whether the authorizations that are due have then their end.            *)
(***************************************************************************)
EXTENDS Payments

CONSTANT MaxFailures  \* bound: calls that fail or die

ASSUME MaxFailuresAssumption == MaxFailures \in Nat

VARIABLE failures     \* calls that have failed or died

wvars == <<vars, failures>>

WorkerInit == Init /\ failures = 0

\* A call fails, or its process dies; a worker's exit code is looked at by nobody.
Break(p) ==
  /\ failures < MaxFailures
  /\ failures' = failures + 1
  /\ Fail(p)

WorkerNext ==
  \/ /\ \/ Tick
        \/ \E m \in Merchants : CreateMerchant(m)
        \/ \E x \in Payers, b \in Openings : CreatePayer(x, b)
        \/ \E p \in Procs : Start(p) \/ Step(p) \/ DeadlockVictim(p)
     /\ UNCHANGED failures
  \/ \E p \in Procs : Break(p)

\* Calls go on as in Payments, time passes, and when there is a payment to
\* expire some worker is started: strong, since its rows may be locked now
\* and then.
WorkerSpec ==
  /\ WorkerInit /\ [][WorkerNext]_wvars
  /\ Fairness
  /\ WF_vars(Tick)
  /\ SF_vars(\E p \in Expirers : StartExpire(p))

-----------------------------------------------------------------------------
(* Properties.                                                             *)

IsOpen(q) == payments[q].val # None /\ payments[q].val.status = "AUTHORIZED"
IsDue(q)  == IsOpen(q) /\ payments[q].val.expiresAt <= now

\* The clock stops (MaxTime) while q can still be captured: nothing is said
\* then, since captures and workers may go on picking each other as victims.
ClockTooShort(q) == IsOpen(q) /\ payments[q].val.expiresAt >= MaxTime

\* An authorization that is due gets expired (or captured at the last
\* instant): captures, other workers, version conflicts, deadlocks and
\* batches rolled back as a whole only delay it.  The one exception is a
\* payer whose held balance a second capture has taken from: its payments
\* cannot be released, and the batch they are in fails at every start,
\* together with the payments of the other payers in it.
DueIsExpiredUnlessTwice ==
  \A q \in PaymentIDs :
    IsDue(q) ~> \/ ~IsOpen(q)
                \/ \E x \in Payers : HasTwice(x)
                \/ \E r \in PaymentIDs : ClockTooShort(r)
=============================================================================
