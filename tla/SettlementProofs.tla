-------------------------- MODULE SettlementProofs --------------------------
(***************************************************************************)
(* Theorems about Settlement, for any workers, payments, windows, limits   *)
(* and lags, with captures, second captures, reruns and failures anywhere. *)
(***************************************************************************)
EXTENDS Settlement, TLAPS

-----------------------------------------------------------------------------
(* The inductive invariant.                                                *)

\* A run in progress has its batch and its window; it has payments to settle
\* only once it has claimed them.
RunReady(w) ==
  /\ pc[w] # "idle" => batch[w] \in BatchIDs /\ window[w] \in Nat
  /\ pc[w] # "settle" => todo[w] = {}

\* The row of a batch is locked by the run that creates it until it is
\* completed, so what is committed of it is COMPLETED.
BatchHeld(b) ==
  /\ batches[b].lock = None => batches[b].val = None \/ batches[b].val.status = "COMPLETED"
  /\ batches[b].lock # None => batches[b].val = None /\ batches[b].new # None
  /\ \A w \in Workers : batches[b].lock = w <=> pc[w] # "idle" /\ batch[w] = b

\* What is committed of a payment: the batch of its row, its line item and
\* its events agree.
PaymentSettled(q) ==
  /\ payments[q].val.batch = items[q].val
  /\ settled[q].val = IF items[q].val = None THEN 0 ELSE 1
  /\ payments[q].val.status = "AUTHORIZED" => items[q].val = None

\* A payment is locked by the run that has claimed it, which has written its
\* item and event together or not yet, or by a second capture, which has none
\* to write and keeps the batch.
PaymentHeld(q) ==
  /\ payments[q].lock \notin Workers => items[q].lock = None /\ settled[q].lock = None
  /\ payments[q].lock = Recapturer =>
       /\ payments[q].val.status # "AUTHORIZED" /\ payments[q].new.status # "AUTHORIZED"
       /\ payments[q].new.batch = items[q].val
  /\ payments[q].lock \in Workers =>
       /\ payments[q].val.status = "CAPTURED" /\ items[q].val = None
       /\ payments[q].new.status # "AUTHORIZED"
       /\ pc[payments[q].lock] = "settle"
       /\ payments[q].new.batch = batch[payments[q].lock]
       /\ IF q \in todo[payments[q].lock]
          THEN items[q].lock = None /\ settled[q].lock = None
          ELSE /\ items[q].lock = payments[q].lock /\ items[q].new = batch[payments[q].lock]
               /\ settled[q].lock = payments[q].lock /\ settled[q].new = 1
  /\ \A w \in Workers : q \in todo[w] => payments[q].lock = w

RunInv ==
  /\ TypeOK
  /\ \A w \in Workers : RunReady(w)
  /\ \A b \in BatchIDs : BatchHeld(b)
  /\ \A q \in PaymentIDs : PaymentSettled(q) /\ PaymentHeld(q)

-----------------------------------------------------------------------------
(* Rows and entities.                                                      *)

\* Writing, publishing and dropping keep a row a row.
LEMMA RowMethods ==
  ASSUME NEW Values, NEW Procs, NEW p \in Procs, NEW row \in RowOf(Values, Procs), NEW v \in Values
  PROVE  /\ Unlocked(v) \in RowOf(Values, Procs)
         /\ Written(row, p, v) \in RowOf(Values, Procs)
         /\ Committed(row, p) \in RowOf(Values, Procs)
         /\ RolledBack(row, p) \in RowOf(Values, Procs)
BY DEF Unlocked, Written, Committed, RolledBack, RowOf

\* The entity methods return payments and batches.
LEMMA EntityMethods ==
  /\ \A pay \in Payment : /\ Settle(pay) \in Payment /\ Settle(pay).status = "SETTLED"
                          /\ Settle(pay).batch = pay.batch
  /\ \A pay \in Payment, b \in BatchIDs :
       LET linked == [pay EXCEPT !.batch = b] IN
       linked \in Payment /\ linked.status = pay.status /\ linked.batch = b
  /\ \A i, t \in Int : StartProcessing(i, t) \in Batch
  /\ \A b \in Batch : Complete(b) \in Batch /\ Complete(b).status = "COMPLETED"
<1>1. ASSUME NEW pay \in Payment
      PROVE  /\ Settle(pay) \in Payment /\ Settle(pay).status = "SETTLED"
             /\ Settle(pay).batch = pay.batch
  BY DEF Settle, Payment, Statuses
<1>2. ASSUME NEW pay \in Payment, NEW b \in BatchIDs
      PROVE  LET linked == [pay EXCEPT !.batch = b] IN
             linked \in Payment /\ linked.status = pay.status /\ linked.batch = b
  BY DEF Payment
<1>3. ASSUME NEW i \in Int, NEW t \in Int PROVE StartProcessing(i, t) \in Batch
  <2>1. t + LockTTL \in Int
    BY ConstantsAssumption
  <2> QED BY <2>1 DEF StartProcessing, Batch, BatchStatuses
<1>4. ASSUME NEW b \in Batch PROVE Complete(b) \in Batch /\ Complete(b).status = "COMPLETED"
  BY DEF Complete, Batch, BatchStatuses
<1> QED BY <1>1, <1>2, <1>3, <1>4

\* A claim is of payments that can be claimed, whatever the LIMIT.
LEMMA ClaimsOfWindow ==
  ASSUME NEW i, NEW T \in FirstOf(Claimable(i), ClaimLimit)
  PROVE  /\ T \subseteq PaymentIDs
         /\ \A q \in T : Unclaimed(payments[q].val) /\ payments[q].lock = None
BY DEF FirstOf, Claimable

-----------------------------------------------------------------------------
(* Types.                                                                  *)

\* A run that ends leaves its own variables with their types.
LEMMA EndTypes ==
  ASSUME TypeOK, NEW w \in Workers, EndRun(w)
  PROVE  /\ pc' \in [Workers -> {"idle", "claim", "settle"}]
         /\ batch' \in [Workers -> BatchIDs \cup {None}]
         /\ window' \in [Workers -> Nat \cup {None}]
         /\ todo' \in [Workers -> SUBSET PaymentIDs]
         /\ UNCHANGED <<attempted, reruns, recaptures, now>>
BY DEF TypeOK, EndRun

\* Every statement leaves every variable with its type.
LEMMA TypeStep == RunInv /\ [Next]_vars => TypeOK'
<1> SUFFICES ASSUME RunInv, [Next]_vars PROVE TypeOK'
    OBVIOUS
<1>0. /\ TypeOK /\ \A w \in Workers : RunReady(w)
      /\ \A b \in BatchIDs : BatchHeld(b)
      /\ \A q \in PaymentIDs : PaymentSettled(q) /\ PaymentHeld(q)
  BY DEF RunInv
<1> USE NoneAssumption, ConstantsAssumption
<1>1. CASE Tick
  <2>1. /\ UNCHANGED <<payments, batches, items, settled, pc, batch, window, todo>>
        /\ UNCHANGED <<attempted, missed, reruns, recaptures, crashes>>
    BY <1>1 DEF Tick, tables, run, bounds
  <2>2. now' \in Nat
    BY <1>0, <1>1 DEF Tick, TypeOK
  <2> QED BY <1>0, <2>1, <2>2 DEF TypeOK
<1>2. ASSUME NEW q \in PaymentIDs, NEW t \in CaptureTimes, Capture(q, t) PROVE TypeOK'
  <2>1. [status |-> "CAPTURED", capturedAt |-> t, batch |-> None] \in Payment
    BY DEF Payment, Statuses, CaptureTimes
  <2>2. payments' \in [PaymentIDs -> RowOf(Payment, Lockers)]
    BY <1>0, <1>2, <2>1 DEF Capture, Unlocked, RowOf, TypeOK, Lockers
  <2>3. missed' \subseteq PaymentIDs
    BY <1>0, <1>2 DEF Capture, MissIfLate, Miss, TypeOK
  <2> QED BY <1>0, <1>2, <2>2, <2>3 DEF Capture, TypeOK, run, bounds
<1>3. ASSUME NEW q \in PaymentIDs, NEW t \in CaptureTimes, Recapture(q, t) PROVE TypeOK'
  <2>1. Recaptured(payments[q].val, t) \in Payment
    BY <1>0 DEF Recaptured, Payment, Statuses, CaptureTimes, TypeOK, RowOf
  <2>2. Written(payments[q], Recapturer, Recaptured(payments[q].val, t)) \in RowOf(Payment, Lockers)
    BY <1>0, <2>1, RowMethods DEF TypeOK, Lockers
  <2>3. payments' \in [PaymentIDs -> RowOf(Payment, Lockers)] /\ recaptures' \in Nat
    BY <1>0, <1>3, <2>2 DEF Recapture, TypeOK
  <2> QED BY <1>0, <1>3, <2>3 DEF Recapture, TypeOK, run
<1>a. ASSUME NEW q \in PaymentIDs, EndRecapture(q) PROVE TypeOK'
  <2>1. payments[q] \in RowOf(Payment, Lockers) /\ payments[q].val \in Payment
    BY <1>0 DEF TypeOK, RowOf
  <2>2. /\ Committed(payments[q], Recapturer) \in RowOf(Payment, Lockers)
        /\ RolledBack(payments[q], Recapturer) \in RowOf(Payment, Lockers)
    BY <2>1, RowMethods DEF Lockers
  <2>3. payments' \in [PaymentIDs -> RowOf(Payment, Lockers)]
    BY <1>0, <1>a, <2>2 DEF EndRecapture, CommitRecapture, RollbackRecapture, TypeOK
  <2>4. missed' \subseteq PaymentIDs
    BY <1>0, <1>a DEF EndRecapture, CommitRecapture, RollbackRecapture, MissIfLate, Miss, TypeOK
  <2> QED BY <1>0, <1>a, <2>3, <2>4
          DEF EndRecapture, CommitRecapture, RollbackRecapture, TypeOK, run, bounds
<1>4. ASSUME NEW w \in Workers, StartRun(w) PROVE TypeOK'
  <2>1. NewID \in BatchIDs
    BY <1>4 DEF StartRun, NewID, FreshBatches
  <2>2. PreviousFullWindow \in Nat
    BY <1>0, <1>4 DEF StartRun, PreviousFullWindow, TypeOK
  <2>3. StartProcessing(PreviousFullWindow, now) \in Batch \cup {None}
    BY <1>0, <2>2, EntityMethods DEF TypeOK
  <2>4. Written(batches[NewID], w, StartProcessing(PreviousFullWindow, now)) \in RowOf(Batch \cup {None}, Workers)
    BY <1>0, <2>1, <2>3, RowMethods DEF TypeOK
  <2>5. batches' \in [BatchIDs -> RowOf(Batch \cup {None}, Workers)]
    BY <1>0, <1>4, <2>1, <2>4 DEF StartRun, CreateBatch, TypeOK
  <2>6. reruns' \in Nat
    BY <1>0, <1>4 DEF StartRun, TypeOK
  <2>7. /\ pc' = [pc EXCEPT ![w] = "claim"] /\ batch' = [batch EXCEPT ![w] = NewID]
        /\ window' = [window EXCEPT ![w] = PreviousFullWindow] /\ attempted' = PreviousFullWindow
        /\ UNCHANGED <<payments, items, settled, todo, missed, recaptures, crashes, now>>
    BY <1>4 DEF StartRun
  <2>8. /\ pc' \in [Workers -> {"idle", "claim", "settle"}]
        /\ batch' \in [Workers -> BatchIDs \cup {None}]
    BY <1>0, <2>1, <2>7 DEF TypeOK
  <2>9. window' \in [Workers -> Nat \cup {None}] /\ attempted' \in Int
    BY <1>0, <2>2, <2>7 DEF TypeOK
  <2> QED BY <1>0, <2>5, <2>6, <2>7, <2>8, <2>9 DEF TypeOK
<1>5. ASSUME NEW w \in Workers, ClaimCapturedPayments(w) PROVE TypeOK'
  <2>1. PICK T \in FirstOf(Claimable(window[w]), ClaimLimit) :
          /\ payments' = [q \in PaymentIDs |->
                            IF q \in T
                            THEN Written(payments[q], w, [payments[q].val EXCEPT !.batch = batch[w]])
                            ELSE payments[q]]
          /\ todo' = [todo EXCEPT ![w] = T]
          /\ Miss(Claimable(window[w]) \ T)
    BY <1>5 DEF ClaimCapturedPayments
  <2>2. T \subseteq PaymentIDs
    BY <2>1, ClaimsOfWindow
  <2>3. ASSUME NEW q \in PaymentIDs
        PROVE  Written(payments[q], w, [payments[q].val EXCEPT !.batch = batch[w]]) \in RowOf(Payment, Lockers)
    <3>1. payments[q] \in RowOf(Payment, Lockers) /\ payments[q].val \in Payment
      BY <1>0 DEF TypeOK, RowOf
    <3>2. batch[w] \in BatchIDs
      BY <1>0, <1>5 DEF ClaimCapturedPayments, RunReady
    <3>3. [payments[q].val EXCEPT !.batch = batch[w]] \in Payment
      BY <3>1, <3>2, EntityMethods
    <3> QED BY <3>1, <3>3, RowMethods DEF Lockers
  <2>4. payments' \in [PaymentIDs -> RowOf(Payment, Lockers)]
    BY <1>0, <2>1, <2>3 DEF TypeOK
  <2>5. missed' \subseteq PaymentIDs
    BY <1>0, <2>1 DEF Miss, Claimable, TypeOK
  <2> QED BY <1>0, <1>5, <2>1, <2>2, <2>4, <2>5 DEF ClaimCapturedPayments, TypeOK, bounds
<1>6. ASSUME NEW w \in Workers, NEW q \in PaymentIDs, SettlePayment(w, q) PROVE TypeOK'
  <2>1. /\ payments[q] \in RowOf(Payment, Lockers) /\ payments[q].new \in Payment
        /\ items[q] \in RowOf(BatchIDs \cup {None}, Workers) /\ batch[w] \in BatchIDs \cup {None}
        /\ settled[q] \in RowOf(Nat, Workers) /\ settled[q].val + 1 \in Nat
    BY <1>0 DEF TypeOK, RowOf
  <2>2. Settle(payments[q].new) \in Payment
    BY <2>1, EntityMethods
  <2>3. /\ Written(payments[q], w, Settle(payments[q].new)) \in RowOf(Payment, Lockers)
        /\ Written(items[q], w, batch[w]) \in RowOf(BatchIDs \cup {None}, Workers)
        /\ Written(settled[q], w, settled[q].val + 1) \in RowOf(Nat, Workers)
    BY <2>1, <2>2, RowMethods DEF Lockers
  <2>4. payments' \in [PaymentIDs -> RowOf(Payment, Lockers)]
    BY <1>0, <1>6, <2>3 DEF SettlePayment, TypeOK
  <2>5. items' \in [PaymentIDs -> RowOf(BatchIDs \cup {None}, Workers)]
    BY <1>0, <1>6, <2>3 DEF SettlePayment, CreateLineItem, TypeOK
  <2>6. settled' \in [PaymentIDs -> RowOf(Nat, Workers)]
    BY <1>0, <1>6, <2>3 DEF SettlePayment, CreateEvent, TypeOK
  <2> QED BY <1>0, <1>6, <2>4, <2>5, <2>6 DEF SettlePayment, TypeOK, bounds
<1>7. ASSUME NEW w \in Workers, CompleteBatch(w) PROVE TypeOK'
  <2>1. /\ payments' \in [PaymentIDs -> RowOf(Payment, Lockers)]
        /\ items' \in [PaymentIDs -> RowOf(BatchIDs \cup {None}, Workers)]
        /\ settled' \in [PaymentIDs -> RowOf(Nat, Workers)]
    BY <1>0, <1>7 DEF CompleteBatch, TypeOK, Committed, Unlocked, RowOf
  <2>2. PICK b \in BatchIDs : b = batch[w] /\ batches[b].lock = w
    BY <1>0, <1>7 DEF CompleteBatch, RunReady, BatchHeld
  <2>3. batches[b].new \in Batch
    BY <1>0, <2>2 DEF BatchHeld, TypeOK, RowOf
  <2>4. Unlocked(Complete(batches[b].new)) \in RowOf(Batch \cup {None}, Workers)
    BY <2>3, EntityMethods DEF Unlocked, RowOf
  <2>5. batches' \in [BatchIDs -> RowOf(Batch \cup {None}, Workers)]
    BY <1>0, <1>7, <2>2, <2>4 DEF CompleteBatch, UpdateBatch, TypeOK
  <2> QED BY <1>0, <1>7, <2>1, <2>5, EndTypes DEF CompleteBatch, TypeOK
<1>8. ASSUME NEW w \in Workers, Fail(w) PROVE TypeOK'
  <2>1. /\ payments' \in [PaymentIDs -> RowOf(Payment, Lockers)]
        /\ batches' \in [BatchIDs -> RowOf(Batch \cup {None}, Workers)]
        /\ items' \in [PaymentIDs -> RowOf(BatchIDs \cup {None}, Workers)]
        /\ settled' \in [PaymentIDs -> RowOf(Nat, Workers)]
    BY <1>0, <1>8 DEF Fail, TypeOK, RolledBack, Unlocked, RowOf
  <2>2. missed' \subseteq PaymentIDs /\ crashes' \in Nat
    BY <1>0, <1>8 DEF Fail, Miss, Taking, Claimable, TypeOK
  <2> QED BY <1>0, <1>8, <2>1, <2>2, EndTypes DEF Fail, TypeOK
<1>9. CASE UNCHANGED vars
  BY <1>0, <1>9 DEF vars, tables, run, bounds, TypeOK
<1> QED BY <1>1, <1>2, <1>3, <1>a, <1>4, <1>5, <1>6, <1>7, <1>8, <1>9 DEF Next, Step

-----------------------------------------------------------------------------
(* Runs.                                                                   *)

\* What is said of a payment is kept by a step that leaves its rows alone,
\* and the run that has locked it where it is.
LEMMA OtherPayment ==
  ASSUME RunInv, NEW q \in PaymentIDs,
         payments'[q] = payments[q], items'[q] = items[q], settled'[q] = settled[q],
         \A v \in Workers : q \in todo'[v] <=> q \in todo[v],
         payments[q].lock \in Workers => /\ pc'[payments[q].lock] = pc[payments[q].lock]
                                         /\ batch'[payments[q].lock] = batch[payments[q].lock]
  PROVE  PaymentSettled(q)' /\ PaymentHeld(q)'
BY DEF RunInv, PaymentSettled, PaymentHeld

\* Captures find the payment unlocked or locked by themselves, and keep its
\* batch.
LEMMA CaptureStep ==
  ASSUME RunInv, NEW q \in PaymentIDs,
         EndRecapture(q) \/ \E t \in CaptureTimes : Capture(q, t) \/ Recapture(q, t)
  PROVE  /\ \A w \in Workers : RunReady(w)'
         /\ \A b \in BatchIDs : BatchHeld(b)'
         /\ \A r \in PaymentIDs : PaymentSettled(r)' /\ PaymentHeld(r)'
<1>0. /\ TypeOK /\ \A w \in Workers : RunReady(w)
      /\ \A b \in BatchIDs : BatchHeld(b)
      /\ \A r \in PaymentIDs : PaymentSettled(r) /\ PaymentHeld(r)
  BY DEF RunInv
<1>1. UNCHANGED <<batches, items, settled, pc, batch, window, todo>>
  BY DEF Capture, Recapture, EndRecapture, CommitRecapture, RollbackRecapture, run
<1> DEFINE Fits(row) ==
      /\ row.val.status # "AUTHORIZED" /\ row.val.batch = items[q].val
      /\ row.lock \in {None, Recapturer}
      /\ row.lock = Recapturer => row.new.status # "AUTHORIZED" /\ row.new.batch = items[q].val
<1>2. payments[q].lock \in {None, Recapturer} /\ \E row : payments' = [payments EXCEPT ![q] = row] /\ Fits(row)
  <2>1. ASSUME NEW t \in CaptureTimes, Capture(q, t)
        PROVE  /\ payments[q].lock \in {None, Recapturer}
               /\ \E row : payments' = [payments EXCEPT ![q] = row] /\ Fits(row)
    <3>1. payments[q].val.batch = None /\ items[q].val = None /\ payments[q].lock = None
      BY <1>0, <2>1 DEF Capture, PaymentSettled, PaymentHeld, TypeOK, RowOf, Lockers
    <3> DEFINE row == Unlocked([status |-> "CAPTURED", capturedAt |-> t, batch |-> None])
    <3>2. payments' = [payments EXCEPT ![q] = row]
      BY <2>1 DEF Capture
    <3>3. Fits(row)
      BY <3>1, NoneAssumption DEF Unlocked
    <3> QED BY <3>1, <3>2, <3>3
  <2>2. ASSUME NEW t \in CaptureTimes, Recapture(q, t)
        PROVE  /\ payments[q].lock \in {None, Recapturer}
               /\ \E row : payments' = [payments EXCEPT ![q] = row] /\ Fits(row)
    <3> DEFINE row == Written(payments[q], Recapturer, Recaptured(payments[q].val, t))
    <3>1. payments' = [payments EXCEPT ![q] = row] /\ payments[q].lock = None
      BY <2>2 DEF Recapture
    <3>2. payments[q].val.status # "AUTHORIZED" /\ payments[q].val.batch = items[q].val
      BY <1>0, <2>2 DEF Recapture, PaymentSettled
    <3>3. Fits(row)
      BY <3>2 DEF Written, Recaptured
    <3> QED BY <3>1, <3>3
  <2>3. ASSUME EndRecapture(q)
        PROVE  /\ payments[q].lock \in {None, Recapturer}
               /\ \E row : payments' = [payments EXCEPT ![q] = row] /\ Fits(row)
    <3>1. /\ payments[q].lock = Recapturer
          /\ \/ payments' = [payments EXCEPT ![q] = Unlocked(payments[q].new)]
             \/ payments' = [payments EXCEPT ![q] = Unlocked(payments[q].val)]
      BY <2>3 DEF EndRecapture, CommitRecapture, RollbackRecapture, Committed, RolledBack
    <3>2. Fits(Unlocked(payments[q].new)) /\ Fits(Unlocked(payments[q].val))
      BY <1>0, <3>1, NoneAssumption DEF PaymentHeld, PaymentSettled, Unlocked
    <3> QED BY <3>1, <3>2
  <2> QED BY <2>1, <2>2, <2>3
<1>3. PICK row : payments' = [payments EXCEPT ![q] = row] /\ Fits(row)
  BY <1>2
<1>4. /\ Fits(payments'[q])
      /\ \A r \in PaymentIDs \ {q} : payments'[r] = payments[r]
  BY <1>0, <1>3 DEF TypeOK
<1>5. PaymentSettled(q)' /\ PaymentHeld(q)'
  <2>1. None \notin Workers /\ Recapturer \notin Workers
    BY NoneAssumption
  <2>2. \A w \in Workers : q \notin todo[w]
    BY <1>0, <1>2, <2>1 DEF PaymentHeld
  <2>3. items[q].lock = None /\ settled[q].lock = None
    BY <1>0, <1>2, <2>1 DEF PaymentHeld
  <2> QED BY <1>0, <1>1, <1>4, <2>1, <2>2, <2>3 DEF PaymentSettled, PaymentHeld
<1>6. \A r \in PaymentIDs \ {q} : PaymentSettled(r)' /\ PaymentHeld(r)'
  BY <1>1, <1>4, OtherPayment
<1> QED BY <1>0, <1>1, <1>5, <1>6 DEF RunReady, BatchHeld

\* A run starts with a batch of its own.
LEMMA StartStep ==
  ASSUME RunInv, NEW w \in Workers, StartRun(w)
  PROVE  /\ \A v \in Workers : RunReady(v)'
         /\ \A b \in BatchIDs : BatchHeld(b)'
         /\ \A r \in PaymentIDs : PaymentSettled(r)' /\ PaymentHeld(r)'
<1>0. /\ TypeOK /\ \A v \in Workers : RunReady(v)
      /\ \A b \in BatchIDs : BatchHeld(b)
      /\ \A r \in PaymentIDs : PaymentSettled(r) /\ PaymentHeld(r)
  BY DEF RunInv
<1>1. PICK b \in BatchIDs : b = NewID /\ batches[b].val = None /\ batches[b].lock = None
  BY DEF StartRun, NewID, FreshBatches
<1>2. PICK i \in Nat : i = PreviousFullWindow
  BY <1>0, ConstantsAssumption DEF StartRun, PreviousFullWindow, TypeOK
<1>3. StartProcessing(i, now) # None
  BY <1>0, EntityMethods, NoneAssumption DEF TypeOK
<1>4. /\ pc[w] = "idle" /\ pc' = [pc EXCEPT ![w] = "claim"] /\ batch' = [batch EXCEPT ![w] = b]
      /\ window' = [window EXCEPT ![w] = i] /\ UNCHANGED <<payments, items, settled, todo>>
      /\ batches' = [batches EXCEPT ![b] = Written(batches[b], w, StartProcessing(i, now))]
  BY <1>1, <1>2 DEF StartRun, CreateBatch
<1>5. ASSUME NEW v \in Workers PROVE RunReady(v)'
  BY <1>0, <1>4 DEF RunReady, TypeOK
<1>6. BatchHeld(b)'
  <2>1. batches'[b] = Written(batches[b], w, StartProcessing(i, now))
    BY <1>0, <1>4 DEF TypeOK
  <2>2. \A v \in Workers : ~(pc[v] # "idle" /\ batch[v] = b)
    BY <1>0, <1>1, NoneAssumption DEF BatchHeld
  <2>3. \A v \in Workers : w = v <=> pc'[v] # "idle" /\ batch'[v] = b
    BY <1>0, <1>4, <2>2 DEF TypeOK
  <2> QED BY <1>1, <1>3, <2>1, <2>3, NoneAssumption DEF BatchHeld, Written
<1>7. ASSUME NEW d \in BatchIDs \ {b} PROVE BatchHeld(d)'
  <2>1. batches'[d] = batches[d]
    BY <1>0, <1>4 DEF TypeOK
  <2>2. batches[d].lock # w
    BY <1>0, <1>4 DEF BatchHeld
  <2>3. \A v \in Workers : batches[d].lock = v <=> pc'[v] # "idle" /\ batch'[v] = d
    BY <1>0, <1>4, <2>2 DEF BatchHeld, TypeOK
  <2> QED BY <1>0, <2>1, <2>3 DEF BatchHeld
<1>8. ASSUME NEW r \in PaymentIDs PROVE PaymentSettled(r)' /\ PaymentHeld(r)'
  <2>1. payments[r].lock # w
    BY <1>0, <1>4 DEF PaymentHeld
  <2> QED BY <1>0, <1>4, <2>1, OtherPayment DEF TypeOK
<1> QED BY <1>5, <1>6, <1>7, <1>8

\* The claim locks payments that are captured and in no batch.
LEMMA ClaimStep ==
  ASSUME RunInv, NEW w \in Workers, ClaimCapturedPayments(w)
  PROVE  /\ \A v \in Workers : RunReady(v)'
         /\ \A b \in BatchIDs : BatchHeld(b)'
         /\ \A r \in PaymentIDs : PaymentSettled(r)' /\ PaymentHeld(r)'
<1>0. /\ TypeOK /\ \A v \in Workers : RunReady(v)
      /\ \A b \in BatchIDs : BatchHeld(b)
      /\ \A r \in PaymentIDs : PaymentSettled(r) /\ PaymentHeld(r)
  BY DEF RunInv
<1>1. PICK T \in FirstOf(Claimable(window[w]), ClaimLimit) :
        /\ payments' = [q \in PaymentIDs |->
                          IF q \in T
                          THEN Written(payments[q], w, [payments[q].val EXCEPT !.batch = batch[w]])
                          ELSE payments[q]]
        /\ todo' = [todo EXCEPT ![w] = T]
  BY DEF ClaimCapturedPayments
<1>2. /\ pc[w] = "claim" /\ pc' = [pc EXCEPT ![w] = "settle"] /\ todo[w] = {}
      /\ UNCHANGED <<batches, items, settled, batch, window>>
  BY <1>0 DEF ClaimCapturedPayments, RunReady
<1>3. \A v \in Workers : RunReady(v)'
  BY <1>0, <1>1, <1>2 DEF RunReady, TypeOK
<1>4. \A v \in Workers : pc'[v] # "idle" <=> pc[v] # "idle"
  BY <1>0, <1>2 DEF TypeOK
<1>5. \A b \in BatchIDs : BatchHeld(b)'
  BY <1>0, <1>2, <1>4 DEF BatchHeld
<1>6. /\ \A v \in Workers \ {w} : todo'[v] = todo[v] /\ pc'[v] = pc[v]
      /\ todo'[w] = T /\ pc'[w] = "settle"
  BY <1>0, <1>1, <1>2 DEF TypeOK
<1>7. ASSUME NEW q \in T PROVE PaymentSettled(q)' /\ PaymentHeld(q)'
  <2>1. q \in PaymentIDs /\ Unclaimed(payments[q].val) /\ payments[q].lock = None
    BY ClaimsOfWindow
  <2>2. payments[q].val \in Payment /\ batch[w] \in BatchIDs
    BY <1>0, <1>2, <2>1 DEF TypeOK, RowOf, RunReady
  <2>3. PICK linked \in Payment : /\ linked = [payments[q].val EXCEPT !.batch = batch[w]]
                                  /\ linked.status = "CAPTURED" /\ linked.batch = batch[w]
    <3> DEFINE linked == [payments[q].val EXCEPT !.batch = batch[w]]
    <3>1. linked \in Payment /\ linked.status = payments[q].val.status /\ linked.batch = batch[w]
      BY <2>2, EntityMethods
    <3>2. payments[q].val.status = "CAPTURED"
      BY <2>1 DEF Unclaimed
    <3> QED BY <3>1, <3>2
  <2>4. payments'[q] = Written(payments[q], w, linked)
    BY <1>1, <2>1, <2>3
  <2>5. /\ items[q].lock = None /\ settled[q].lock = None /\ items[q].val = None
        /\ \A v \in Workers : q \notin todo[v]
    BY <1>0, <2>1, NoneAssumption DEF PaymentHeld, PaymentSettled, Unclaimed
  <2>6. PaymentSettled(q)'
    BY <1>0, <1>2, <2>1, <2>4 DEF PaymentSettled, Written
  <2>7. /\ payments'[q].lock = w /\ payments'[q].val = payments[q].val /\ payments'[q].new = linked
        /\ payments[q].val.status = "CAPTURED"
    BY <2>1, <2>4 DEF Written, Unclaimed
  <2>8. \A v \in Workers : q \in todo'[v] => v = w
    BY <1>6, <2>5
  <2> QED BY <1>2, <1>6, <2>3, <2>5, <2>6, <2>7, <2>8, NoneAssumption DEF PaymentHeld
<1>8. ASSUME NEW q \in PaymentIDs \ T PROVE PaymentSettled(q)' /\ PaymentHeld(q)'
  <2>1. payments'[q] = payments[q]
    BY <1>1
  <2>2. payments[q].lock # w
    BY <1>0, <1>2 DEF PaymentHeld
  <2> QED BY <1>2, <1>6, <2>1, <2>2, OtherPayment
<1> QED BY <1>3, <1>5, <1>7, <1>8

\* A payment is settled with its line item and its event.
LEMMA SettleStep ==
  ASSUME RunInv, NEW w \in Workers, NEW q \in PaymentIDs, SettlePayment(w, q)
  PROVE  /\ \A v \in Workers : RunReady(v)'
         /\ \A b \in BatchIDs : BatchHeld(b)'
         /\ \A r \in PaymentIDs : PaymentSettled(r)' /\ PaymentHeld(r)'
<1>0. /\ TypeOK /\ \A v \in Workers : RunReady(v)
      /\ \A b \in BatchIDs : BatchHeld(b)
      /\ \A r \in PaymentIDs : PaymentSettled(r) /\ PaymentHeld(r)
  BY DEF RunInv
<1>1. /\ pc[w] = "settle" /\ q \in todo[w] /\ UNCHANGED <<batches, pc, batch, window>>
      /\ payments' = [payments EXCEPT ![q] = Written(payments[q], w, Settle(payments[q].new))]
      /\ items' = [items EXCEPT ![q] = Written(items[q], w, batch[w])]
      /\ settled' = [settled EXCEPT ![q] = Written(settled[q], w, settled[q].val + 1)]
      /\ todo' = [todo EXCEPT ![w] = todo[w] \ {q}]
  BY DEF SettlePayment, CreateLineItem, CreateEvent
<1>2. \A v \in Workers : RunReady(v)'
  BY <1>0, <1>1 DEF RunReady, TypeOK
<1>3. \A b \in BatchIDs : BatchHeld(b)'
  BY <1>0, <1>1 DEF BatchHeld
<1>4. PaymentSettled(q)' /\ PaymentHeld(q)'
  <2>1. payments[q].lock = w
    BY <1>0, <1>1 DEF PaymentHeld
  <2>2. /\ payments[q].val.status = "CAPTURED" /\ items[q].val = None /\ settled[q].val = 0
        /\ payments[q].new.batch = batch[w] /\ payments[q].new \in Payment
    BY <1>0, <2>1, NoneAssumption DEF PaymentHeld, PaymentSettled, TypeOK, RowOf
  <2>3. PICK paid \in Payment : /\ paid = Settle(payments[q].new)
                                /\ paid.status = "SETTLED" /\ paid.batch = batch[w]
    BY <2>2, EntityMethods
  <2>4. /\ payments'[q] = Written(payments[q], w, paid)
        /\ items'[q] = Written(items[q], w, batch[w])
        /\ settled'[q] = Written(settled[q], w, 1)
    BY <1>0, <1>1, <2>2, <2>3 DEF TypeOK
  <2>5. \A v \in Workers : q \notin todo'[v]
    BY <1>0, <1>1, <2>1 DEF PaymentHeld, TypeOK
  <2>6. PaymentSettled(q)'
    BY <1>0, <2>4 DEF PaymentSettled, Written
  <2> QED BY <1>1, <2>2, <2>3, <2>4, <2>5, <2>6, NoneAssumption DEF PaymentHeld, Written
<1>5. ASSUME NEW r \in PaymentIDs \ {q} PROVE PaymentSettled(r)' /\ PaymentHeld(r)'
  <2>1. payments'[r] = payments[r] /\ items'[r] = items[r] /\ settled'[r] = settled[r]
    BY <1>0, <1>1 DEF TypeOK
  <2>2. \A v \in Workers : r \in todo'[v] <=> r \in todo[v]
    BY <1>0, <1>1 DEF TypeOK
  <2> QED BY <1>1, <2>1, <2>2, OtherPayment
<1> QED BY <1>2, <1>3, <1>4, <1>5

\* A run that ends, with COMMIT or ROLLBACK, has unlocked all it had locked;
\* the rest is as before.
LEMMA EndedRun ==
  ASSUME RunInv, NEW w \in Workers, pc[w] # "idle", EndRun(w)
  PROVE  /\ \A v \in Workers : RunReady(v)'
         /\ \A v \in Workers \ {w} : pc'[v] = pc[v] /\ batch'[v] = batch[v] /\ todo'[v] = todo[v]
         /\ pc'[w] = "idle" /\ todo'[w] = {}
BY DEF RunInv, TypeOK, RunReady, EndRun

\* A payment the run has not locked is as before.
LEMMA NotOfRun ==
  ASSUME RunInv, NEW w \in Workers, pc[w] # "idle", EndRun(w),
         NEW q \in PaymentIDs, payments[q].lock # w,
         payments'[q] = payments[q], items'[q] = items[q], settled'[q] = settled[q]
  PROVE  PaymentSettled(q)' /\ PaymentHeld(q)'
<1>1. q \notin todo[w]
  BY DEF RunInv, PaymentHeld
<1> QED BY <1>1, EndedRun, OtherPayment

\* The line item and the event of a payment are locked by a run only if the
\* payment is.
LEMMA LockedTogether ==
  ASSUME RunInv, NEW w \in Workers, NEW q \in PaymentIDs, payments[q].lock # w
  PROVE  items[q].lock # w /\ settled[q].lock # w
BY NoneAssumption DEF RunInv, PaymentHeld

\* COMMIT publishes the payments of the run, all settled, and its batch.
LEMMA CompleteStep ==
  ASSUME RunInv, NEW w \in Workers, CompleteBatch(w)
  PROVE  /\ \A v \in Workers : RunReady(v)'
         /\ \A b \in BatchIDs : BatchHeld(b)'
         /\ \A r \in PaymentIDs : PaymentSettled(r)' /\ PaymentHeld(r)'
<1>0. /\ TypeOK /\ \A v \in Workers : RunReady(v)
      /\ \A b \in BatchIDs : BatchHeld(b)
      /\ \A r \in PaymentIDs : PaymentSettled(r) /\ PaymentHeld(r)
  BY DEF RunInv
<1>1. pc[w] = "settle" /\ todo[w] = {} /\ EndRun(w)
  BY DEF CompleteBatch
<1>2. PICK b \in BatchIDs : b = batch[w] /\ batches[b].lock = w
  BY <1>0, <1>1 DEF RunReady, BatchHeld
<1>3. /\ batches'[b] = Unlocked(Complete(batches[b].new))
      /\ \A d \in BatchIDs \ {b} : batches'[d] = batches[d]
  BY <1>0, <1>2 DEF CompleteBatch, UpdateBatch, TypeOK
<1>4. Complete(batches[b].new).status = "COMPLETED"
  <2>1. batches[b].new \in Batch
    BY <1>0, <1>2, NoneAssumption DEF BatchHeld, TypeOK, RowOf
  <2> QED BY <2>1, EntityMethods
<1>5. \A d \in BatchIDs : BatchHeld(d)'
  <2>1. BatchHeld(b)'
    BY <1>0, <1>1, <1>2, <1>3, <1>4, EndedRun, NoneAssumption DEF BatchHeld, Unlocked
  <2>2. ASSUME NEW d \in BatchIDs \ {b} PROVE BatchHeld(d)'
    BY <1>0, <1>1, <1>2, <1>3, EndedRun DEF BatchHeld
  <2> QED BY <2>1, <2>2
<1>6. ASSUME NEW q \in PaymentIDs, payments[q].lock = w PROVE PaymentSettled(q)' /\ PaymentHeld(q)'
  <2>1. /\ items[q].lock = w /\ items[q].new = b /\ settled[q].lock = w /\ settled[q].new = 1
        /\ payments[q].new.batch = b /\ payments[q].new.status # "AUTHORIZED"
    BY <1>0, <1>1, <1>2, <1>6, NoneAssumption DEF PaymentHeld
  <2>2. /\ payments'[q] = Unlocked(payments[q].new) /\ items'[q] = Unlocked(b)
        /\ settled'[q] = Unlocked(1)
    BY <1>6, <2>1 DEF CompleteBatch, Committed
  <2>3. \A v \in Workers : q \notin todo'[v]
    BY <1>0, <1>1, <1>6, EndedRun DEF PaymentHeld
  <2> QED BY <2>1, <2>2, <2>3, NoneAssumption DEF PaymentSettled, PaymentHeld, Unlocked
<1>7. ASSUME NEW q \in PaymentIDs, payments[q].lock # w PROVE PaymentSettled(q)' /\ PaymentHeld(q)'
  <2>1. payments'[q] = payments[q] /\ items'[q] = items[q] /\ settled'[q] = settled[q]
    BY <1>7, LockedTogether DEF CompleteBatch, Committed
  <2> QED BY <1>1, <1>7, <2>1, NotOfRun
<1> QED BY <1>1, <1>5, <1>6, <1>7, EndedRun

\* ROLLBACK leaves nothing of the run.
LEMMA FailStep ==
  ASSUME RunInv, NEW w \in Workers, Fail(w)
  PROVE  /\ \A v \in Workers : RunReady(v)'
         /\ \A b \in BatchIDs : BatchHeld(b)'
         /\ \A r \in PaymentIDs : PaymentSettled(r)' /\ PaymentHeld(r)'
<1>0. /\ TypeOK /\ \A v \in Workers : RunReady(v)
      /\ \A b \in BatchIDs : BatchHeld(b)
      /\ \A r \in PaymentIDs : PaymentSettled(r) /\ PaymentHeld(r)
  BY DEF RunInv
<1>1. pc[w] # "idle" /\ EndRun(w)
  BY DEF Fail
<1>2. ASSUME NEW b \in BatchIDs PROVE BatchHeld(b)'
  <2>1. batches'[b] = RolledBack(batches[b], w)
    BY DEF Fail
  <2>2. CASE batches[b].lock = w
    <3>1. batches'[b] = Unlocked(None)
      BY <1>0, <2>1, <2>2, NoneAssumption DEF BatchHeld, RolledBack
    <3>2. \A v \in Workers : ~(pc'[v] # "idle" /\ batch'[v] = b)
      BY <1>0, <1>1, <2>2, EndedRun DEF BatchHeld
    <3> QED BY <3>1, <3>2, NoneAssumption DEF BatchHeld, Unlocked
  <2>3. CASE batches[b].lock # w
    <3>1. batches'[b] = batches[b]
      BY <2>1, <2>3 DEF RolledBack
    <3> QED BY <1>0, <1>1, <2>3, <3>1, EndedRun DEF BatchHeld
  <2> QED BY <2>2, <2>3
<1>3. ASSUME NEW q \in PaymentIDs, payments[q].lock = w PROVE PaymentSettled(q)' /\ PaymentHeld(q)'
  <2>1. /\ payments'[q] = Unlocked(payments[q].val)
        /\ items'[q].val = items[q].val /\ items'[q].lock = None
        /\ settled'[q].val = settled[q].val /\ settled'[q].lock = None
    BY <1>0, <1>3, NoneAssumption DEF Fail, RolledBack, Unlocked, PaymentHeld
  <2>2. \A v \in Workers : q \notin todo'[v]
    BY <1>0, <1>1, <1>3, EndedRun DEF PaymentHeld
  <2>3. payments[q].val.batch = items[q].val /\ payments[q].val.status # "AUTHORIZED"
    BY <1>0, <1>3 DEF PaymentHeld, PaymentSettled
  <2>4. PaymentSettled(q)'
    BY <1>0, <2>1, <2>3 DEF PaymentSettled, Unlocked
  <2> QED BY <2>1, <2>2, <2>4, NoneAssumption DEF PaymentHeld, Unlocked
<1>4. ASSUME NEW q \in PaymentIDs, payments[q].lock # w PROVE PaymentSettled(q)' /\ PaymentHeld(q)'
  <2>1. payments'[q] = payments[q] /\ items'[q] = items[q] /\ settled'[q] = settled[q]
    BY <1>4, LockedTogether DEF Fail, RolledBack
  <2> QED BY <1>1, <1>4, <2>1, NotOfRun
<1> QED BY <1>1, <1>2, <1>3, <1>4, EndedRun

\* Runs keep to themselves what they have claimed, at every step.
LEMMA RunStep == RunInv /\ [Next]_vars => RunInv'
<1> SUFFICES ASSUME RunInv, [Next]_vars
             PROVE  /\ \A w \in Workers : RunReady(w)'
                    /\ \A b \in BatchIDs : BatchHeld(b)'
                    /\ \A q \in PaymentIDs : PaymentSettled(q)' /\ PaymentHeld(q)'
    BY TypeStep DEF RunInv
<1>1. CASE Tick \/ UNCHANGED vars
  <2>1. UNCHANGED <<payments, batches, items, settled, pc, batch, window, todo>>
    BY <1>1 DEF Tick, vars, tables, run
  <2> QED BY <2>1 DEF RunInv, RunReady, BatchHeld, PaymentSettled, PaymentHeld
<1> QED BY <1>1, CaptureStep, StartStep, ClaimStep, SettleStep, CompleteStep, FailStep DEF Next, Step

\* What RunStep shows to be invariant.
LEMMA RunsKept == Spec => []RunInv
<1>1. Init => RunInv
  <2> SUFFICES ASSUME Init PROVE RunInv
      OBVIOUS
  <2>1. TypeOK
    <3>1. [status |-> "AUTHORIZED", capturedAt |-> None, batch |-> None] \in Payment
      BY DEF Payment, Statuses
    <3> QED BY <3>1 DEF Init, TypeOK, Unlocked, RowOf
  <2> QED BY <2>1, NoneAssumption
          DEF Init, RunInv, RunReady, BatchHeld, PaymentSettled, PaymentHeld, Unlocked
<1> QED BY <1>1, RunStep, PTL DEF Spec

-----------------------------------------------------------------------------
(* Theorems.                                                               *)

\* Every variable has its type, for any workers, payments and windows.
THEOREM SettlementTypeCorrect == Spec => []TypeOK
<1>1. RunInv => TypeOK
  BY DEF RunInv
<1> QED BY <1>1, RunsKept, PTL

\* A payment is settled at most once, with one line item and one event,
\* whatever runs overlap, fail or are repeated.
THEOREM SettledAtMostOnce == Spec => []SettledOnce
<1>1. RunInv => SettledOnce
  BY DEF RunInv, PaymentSettled, SettledOnce
<1> QED BY <1>1, RunsKept, PTL

\* The batch a payment is linked to is the batch of its line item: both are
\* written by the run that claimed it, and UpdatePayment keeps the link.
THEOREM LinkKept == Spec => []LinkedToItsBatch
<1>1. RunInv => LinkedToItsBatch
  BY DEF RunInv, PaymentSettled, LinkedToItsBatch
<1> QED BY <1>1, RunsKept, PTL

\* The unique index on line items never stops a run.
THEOREM ClaimsUnsettled == Spec => []ClaimsAreUnsettled
<1>1. RunInv => ClaimsAreUnsettled
  BY NoneAssumption DEF RunInv, TypeOK, PaymentHeld, ClaimsAreUnsettled
<1> QED BY <1>1, RunsKept, PTL

\* RecoverStaleBatches never has anything to recover: PROCESSING is never
\* committed.
THEOREM NeverStale == Spec => []NothingToRecover
<1>1. RunInv => NothingToRecover
  BY DEF RunInv, BatchHeld, NothingToRecover, ListStaleProcessingBatches, IsStale
<1> QED BY <1>1, RunsKept, PTL
=============================================================================
