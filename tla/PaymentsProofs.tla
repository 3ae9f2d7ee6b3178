--------------------------- MODULE PaymentsProofs ---------------------------
(***************************************************************************)
(* Theorems about Payments, for any number of calls, payers and payments.  *)
(***************************************************************************)
EXTENDS PaymentsInv, TLAPS

\* What a row holds, and what a transaction sees of it, once unlocked.
LEMMA UnlockedRow ==
  ASSUME NEW v, NEW r, r # None
  PROVE  /\ Unlocked(v).val = v /\ Unlocked(v).lock = None /\ Unlocked(v).new = v
         /\ Seen(Unlocked(v), r) = v
BY DEF Unlocked, Seen

\* What a row holds, and what others see of it, while p has it locked.
LEMMA WrittenRow ==
  ASSUME NEW row, NEW p, NEW v
  PROVE  /\ Written(row, p, v).val = row.val /\ Written(row, p, v).lock = p
         /\ Written(row, p, v).new = v
         /\ Seen(Written(row, p, v), p) = v
BY DEF Written, Seen

\* A write that had to wait for nobody is invisible to every other transaction.
LEMMA WrittenOthers ==
  ASSUME NEW row, NEW p, NEW r, NEW v, Lockable(row, p), r # p, r # None
  PROVE  Seen(Written(row, p, v), r) = Seen(row, r)
BY DEF Written, Seen, Lockable

\* ROLLBACK of p restores its rows and changes nothing for the others.
LEMMA RolledBackRow ==
  ASSUME NEW row, NEW p, p # None
  PROVE  /\ RolledBack(row, p).val = row.val
         /\ RolledBack(row, p).lock = IF row.lock = p THEN None ELSE row.lock
         /\ RolledBack(row, p).new = IF row.lock = p THEN row.val ELSE row.new
         /\ Seen(RolledBack(row, p), p) = row.val
<1>1. CASE row.lock = p
  BY <1>1 DEF RolledBack, Unlocked, Seen
<1>2. CASE row.lock # p
  BY <1>2 DEF RolledBack, Seen
<1> QED BY <1>1, <1>2

\* A ROLLBACK of p changes nothing of what another transaction sees.
LEMMA RolledBackOthers ==
  ASSUME NEW row, NEW p, NEW r, p # None, r # None, r # p
  PROVE  Seen(RolledBack(row, p), r) = Seen(row, r)
BY DEF RolledBack, Unlocked, Seen

\* COMMIT of p publishes what p saw.
LEMMA CommittedRow ==
  ASSUME NEW row, NEW p, p # None, row.lock \in {None, p}
  PROVE  Committed(row, p).val = Seen(row, p) /\ Committed(row, p).lock = None
<1>1. CASE row.lock = p
  BY <1>1 DEF Committed, Unlocked, Seen
<1>2. CASE row.lock = None
  BY <1>2 DEF Committed, Seen
<1> QED BY <1>1, <1>2

\* The entity methods of the payer return payers.
LEMMA ChargedType ==
  ASSUME NEW op \in Operations, NEW r \in Payer, NEW amount \in Int
  PROVE  Charged(op, r, amount) \in Payer
BY DEF Charged, Reserve, CaptureHeld, Release, Payer, Operations

\* NewAuthorizedPayment, Capture and Expire return payments.
LEMMA AdvancedType ==
  ASSUME NEW p, loc[p].op \in Operations, loc[p].payer \in Payers, loc[p].amount \in Int,
         loc[p].op # "authorize" => loc[p].pay \in Payment, now \in Int
  PROVE  Advanced(p) \in Payment
<1>1. CASE loc[p].op = "authorize"
  BY <1>1, ConstantsAssumption DEF Advanced, NewAuthorizedPayment, Payment, Statuses
<1>2. CASE loc[p].op = "capture"
  <2>1. Capture(loc[p].pay, now) \in Payment
    BY <1>2 DEF Capture, Payment, Statuses
  <2> QED BY <1>2, <2>1 DEF Advanced
<1>3. CASE loc[p].op = "expire"
  <2>1. Expire(loc[p].pay) \in Payment
    BY <1>3 DEF Expire, Payment, Statuses
  <2> QED BY <1>3, <2>1 DEF Advanced
<1> QED BY <1>1, <1>2, <1>3 DEF Operations

\* A step of p that leaves alone the locals and the locks of another call,
\* and takes no row away, leaves what that call relies on.
LEMMA OtherCall ==
  ASSUME NEW r \in Procs, LocalsSet(r), BatchLocked(r), loc[r] \in Local,
         pc'[r] = pc[r], loc'[r] = loc[r],
         \A q \in PaymentIDs : /\ payments[q].lock = r => payments'[q].lock = r
                               /\ payments[q].val # None => payments'[q].val # None,
         \A x \in Payers : /\ payers[x].lock = r => payers'[x].lock = r
                           /\ payers[x].val # None => payers'[x].val # None
  PROVE  LocalsSet(r)' /\ BatchLocked(r)'
<1>1. LocalsSet(r)'
  BY DEF LocalsSet, Reading, Owing
<1>2. loc[r].todo \subseteq PaymentIDs
  BY DEF Local
<1>3. BatchLocked(r)'
  BY <1>2 DEF BatchLocked
<1> QED BY <1>1, <1>3

\* Every statement leaves every variable with its type.
LEMMA TypeStep == CallInv /\ [Next]_vars => TypeOK'
<1> SUFFICES ASSUME CallInv, [Next]_vars PROVE TypeOK'
    OBVIOUS
<1> USE ConstantsAssumption, NoneAssumption DEF CallInv, TypeOK, RowOf, Unlocked
<1>1. CASE Tick
  BY <1>1 DEF Tick, tables
<1>2. ASSUME NEW m \in Merchants, CreateMerchant(m) PROVE TypeOK'
  BY <1>2 DEF CreateMerchant, tables
<1>3. ASSUME NEW x \in Payers, NEW b \in Openings, CreatePayer(x, b) PROVE TypeOK'
  BY <1>3 DEF CreatePayer, NewPayer, Payer, Account
<1>4. ASSUME NEW p \in Procs, Rollback(p) PROVE TypeOK'
  BY <1>4 DEF Rollback, RollbackTables, RolledBack, EndCall, NoCall, Call, Local, Labels
<1>5. ASSUME NEW p \in Procs, Commit(p) PROVE TypeOK'
  BY <1>5 DEF Commit, CommitTables, Committed, EndCall, NoCall, Call, Local, Labels
<1>6. ASSUME NEW p \in Procs, Start(p) PROVE TypeOK'
  <2>1. ASSUME NEW m \in Merchants, NEW x \in Payers, NEW a \in Amounts, NEW q \in PaymentIDs,
               StartAuthorize(p, m, x, a, q)
        PROVE  TypeOK'
    BY <2>1 DEF StartAuthorize, GoTo, tables, Call, Local, Labels, Operations
  <2>2. ASSUME NEW q \in PaymentIDs, StartCapture(p, q) PROVE TypeOK'
    BY <2>2 DEF StartCapture, GoTo, tables, Call, Local, Labels, Operations, Payment
  <2>3. ASSUME StartExpire(p) PROVE TypeOK'
    BY <2>3 DEF StartExpire, LockPayments, Written, EarliestOf, Expirable, GoTo, Call, Local,
                Labels, Operations
  <2> QED BY <1>6, <2>1, <2>2, <2>3 DEF Start
<1>7. ASSUME NEW p \in Procs, GetHold(p) PROVE TypeOK'
  <2>1. LocalsSet(p) /\ BatchLocked(p) /\ loc[p] \in Local
    BY <1>7
  <2>2. pc' \in [Procs -> Labels] /\ UNCHANGED <<merchants, tables, now>>
    BY <1>7 DEF GetHold, GoTo, Labels
  <2>3. CASE loc[p].op = "capture" /\ loc' = [loc EXCEPT ![p] = [loc[p] EXCEPT !.hold = Seen(holds[loc[p].payment], p)]]
    <3>1. Seen(holds[loc[p].payment], p) \in HoldStatuses \cup {None}
      BY <1>7, <2>1, <2>3 DEF GetHold, LocalsSet, Seen
    <3>2. [loc[p] EXCEPT !.hold = Seen(holds[loc[p].payment], p)] \in Local
      BY <2>1, <3>1 DEF Local
    <3> QED BY <2>2, <2>3, <3>2 DEF tables
  <2>4. CASE \E q \in loc[p].todo : LET pay == Seen(payments[q], p) IN
              loc' = [loc EXCEPT ![p] =
                           [Call("expire", q, pay.payer, pay.amount, pay, loc[p].todo \ {q})
                              EXCEPT !.hold = Seen(holds[q], p)]]
    <3> PICK q \in loc[p].todo : LET pay == Seen(payments[q], p) IN
              loc' = [loc EXCEPT ![p] =
                           [Call("expire", q, pay.payer, pay.amount, pay, loc[p].todo \ {q})
                              EXCEPT !.hold = Seen(holds[q], p)]]
      BY <2>4
    <3>1. q \in PaymentIDs /\ Seen(payments[q], p) \in Payment /\ Seen(holds[q], p) \in HoldStatuses \cup {None}
      BY <2>1 DEF Seen, Local, BatchLocked, RowInserted
    <3>2. [Call("expire", q, Seen(payments[q], p).payer, Seen(payments[q], p).amount, Seen(payments[q], p), loc[p].todo \ {q}) EXCEPT !.hold = Seen(holds[q], p)] \in Local
      BY <2>1, <3>1 DEF Local, Call, Payment, Operations
    <3> QED BY <2>2, <3>2 DEF tables
  <2> QED BY <1>7, <2>3, <2>4 DEF GetHold
<1>8. ASSUME NEW p \in Procs, GetPayer(p) PROVE TypeOK'
  <2> DEFINE r == Seen(payers[loc[p].payer], p)
  <2>1. LocalsSet(p) /\ loc[p] \in Local /\ loc[p].payer \in Payers /\ r \in Payer \cup {None} /\ loc[p].op \in Operations
    BY <1>8 DEF GetPayer, LocalsSet, Reading, Seen
  <2>2. CASE ~Admits(p, r)
    BY <1>4, <1>8, <2>2 DEF GetPayer
  <2>3. CASE Admits(p, r)
    <3>1. Charged(loc[p].op, r, loc[p].amount) \in Payer
      BY <2>1, <2>3, ChargedType DEF Admits, Local
    <3>2. loc[p].op # "authorize" => loc[p].pay \in Payment
      BY <1>8, <2>1 DEF GetPayer, LocalsSet, Reading
    <3>3. Advanced(p) \in Payment
      BY <2>1, <3>2, AdvancedType DEF Local
    <3> DEFINE l == [loc[p] EXCEPT !.acct = Charged(loc[p].op, r, loc[p].amount), !.pay = Advanced(p)]
    <3>4. l \in Local
      BY <2>1, <3>1, <3>3 DEF Local
    <3>5. loc' = [loc EXCEPT ![p] = l] /\ pc' = [pc EXCEPT ![p] = "update_payer"] /\ UNCHANGED <<merchants, tables, now>>
      BY <1>8, <2>3 DEF GetPayer, GoTo
    <3> HIDE DEF l
    <3> QED BY <3>4, <3>5 DEF tables, Labels
  <2> QED BY <2>2, <2>3
<1>9. ASSUME NEW p \in Procs, UpdatePayer(p) PROVE TypeOK'
  BY <1>9 DEF UpdatePayer, Written, GoTo, Local, Labels
<1>10. ASSUME NEW p \in Procs, NEW q \in PaymentIDs, pc[p] \in Owing, CreateEvent(p, q)
       PROVE  outbox' \in [PaymentIDs -> RowOf([EventTypes -> Int], Procs)]
              /\ posted' \in [Payers -> RowOf(Account \cup {None}, Procs)]
  <2>1. LocalsSet(p) /\ loc[p] \in Local /\ loc[p].payer \in Payers /\ payers[loc[p].payer].val # None /\ loc[p].op \in Operations
    BY <1>10 DEF LocalsSet, Owing
  <2>2. Counted(Seen(outbox[q], p), EventOf(loc[p].op)) \in [EventTypes -> Int]
    BY <2>1 DEF Counted, Seen, EventOf, EventTypes, Operations
  <2>3. Seen(posted[loc[p].payer], p) \in Account
    BY <2>1 DEF Paired, Seen
  <2>4. Posting(loc[p].op, Seen(posted[loc[p].payer], p), loc[p].amount) \in Account
    BY <2>1, <2>3 DEF Posting, Account, Local
  <2> QED BY <1>10, <2>2, <2>4 DEF CreateEvent, Post, Written
<1>11. ASSUME NEW p \in Procs, InsertPayment(p) PROVE TypeOK'
  <2>1. loc[p].payment \in PaymentIDs /\ loc[p].pay \in Payment /\ pc[p] \in Owing
    BY <1>11 DEF InsertPayment, CreatePayment, CreateHold, LocalsSet, Owing
  <2> QED BY <1>10, <1>11, <2>1 DEF InsertPayment, CreatePayment, CreateHold, Written, GoTo, Labels, HoldStatuses
<1>12. ASSUME NEW p \in Procs, UpdatePayment(p) PROVE TypeOK'
  <2>1. loc[p].payment \in PaymentIDs /\ loc[p].pay \in Payment /\ pc[p] \in Owing
    BY <1>12 DEF UpdatePayment, LocalsSet, Owing
  <2> QED BY <1>10, <1>12, <2>1 DEF UpdatePayment, Written, GoTo, Labels
<1>13. ASSUME NEW p \in Procs, UpdateHold(p) PROVE TypeOK'
  <2>1. loc[p].payment \in PaymentIDs
    BY <1>13 DEF UpdateHold, LocalsSet, Owing
  <2>2. HoldAfter(loc[p].op) \in HoldStatuses
    BY DEF HoldAfter, HoldStatuses
  <2>3. CASE loc[p].hold = "HELD"
    <3>1. /\ holds' = [holds EXCEPT ![loc[p].payment] =
                         Written(holds[loc[p].payment], p, HoldAfter(loc[p].op))]
          /\ pc' = [pc EXCEPT ![p] = "update_payment"]
          /\ UNCHANGED <<merchants, now, payers, payments, outbox, posted, loc>>
      BY <1>13, <2>3 DEF UpdateHold, GoTo
    <3> QED BY <2>1, <2>2, <3>1 DEF Written, Labels
  <2> QED BY <1>4, <1>13, <2>3 DEF UpdateHold
<1> QED
   BY <1>1, <1>2, <1>3, <1>4, <1>5, <1>6, <1>7, <1>8, <1>9, <1>11, <1>12, <1>13 DEF Next, Step, VersionConflict, DeadlockVictim, Fail, vars, tables

-----------------------------------------------------------------------------
\* CallInv is inductive: no statement of one call takes away what another
\* call relies on.
LEMMA CallStep == CallInv /\ [Next]_vars => CallInv'
<1> SUFFICES ASSUME CallInv, [Next]_vars
             PROVE  /\ \A r \in Procs : LocalsSet(r)' /\ BatchLocked(r)' /\ IdFresh(r)'
                    /\ \A q \in PaymentIDs : RowInserted(q)'
                    /\ \A x \in Payers : Paired(x)'
    BY TypeStep DEF CallInv
<1> DEFINE Goal == /\ \A r \in Procs : LocalsSet(r) /\ BatchLocked(r) /\ IdFresh(r)
                   /\ \A q \in PaymentIDs : RowInserted(q)
                   /\ \A x \in Payers : Paired(x)
<1>0. TypeOK /\ Goal /\ TypeOK'
  BY TypeStep DEF CallInv
<1> USE <1>0, NoneAssumption
<1>1. CASE Tick
  BY <1>1 DEF Tick, tables, LocalsSet, BatchLocked, IdFresh, RowInserted, Paired
<1>2. ASSUME NEW m \in Merchants, CreateMerchant(m) PROVE Goal'
  BY <1>2 DEF CreateMerchant, tables, LocalsSet, BatchLocked, IdFresh, RowInserted, Paired
<1>3. ASSUME NEW x \in Payers, NEW b \in Openings, CreatePayer(x, b) PROVE Goal'
  <2>1. \A r \in Procs : LocalsSet(r)' /\ BatchLocked(r)' /\ IdFresh(r)'
    BY <1>3 DEF CreatePayer, Unlocked, LocalsSet, BatchLocked, IdFresh, Paired, Owing
  <2>2. \A q \in PaymentIDs : RowInserted(q)'
    BY <1>3 DEF CreatePayer, RowInserted
  <2>3. \A y \in Payers : Paired(y)'
    <3>1. NewPayer(b) \in Payer /\ [opening |-> b, authorized |-> 0, captured |-> 0, expired |-> 0,
                                    entries |-> 0] \in Account
      BY ConstantsAssumption DEF NewPayer, Payer, Account
    <3> QED BY <1>3, <3>1 DEF CreatePayer, Unlocked, Paired, TypeOK
  <2> QED BY <2>1, <2>2, <2>3
<1>4. ASSUME NEW p \in Procs, Rollback(p) PROVE Goal'
  <2>1. \A r \in Procs : LocalsSet(r)' /\ BatchLocked(r)' /\ IdFresh(r)'
    <3> SUFFICES ASSUME NEW r \in Procs PROVE LocalsSet(r)' /\ BatchLocked(r)' /\ IdFresh(r)'
      OBVIOUS
    <3>1. CASE r = p
      <4>1. pc'[p] = "idle" /\ loc'[p] = NoCall
        BY <1>4 DEF Rollback, EndCall, TypeOK
      <4> QED BY <3>1, <4>1 DEF NoCall, Call, LocalsSet, BatchLocked, IdFresh, Reading, Owing, Operations
    <3>2. CASE r # p
      <4>1. pc'[r] = pc[r] /\ loc'[r] = loc[r] /\ loc[r] \in Local
        BY <1>4, <3>2 DEF Rollback, EndCall, TypeOK
      <4>2. \A q \in PaymentIDs : /\ payments[q].lock = r => payments'[q] = payments[q]
                                  /\ payments[q].val # None => payments'[q].val # None
        BY <1>4, <3>2 DEF Rollback, RollbackTables, RolledBack, Unlocked, RowInserted, TypeOK
      <4>3. \A x \in Payers : /\ payers[x].lock = r => payers'[x].lock = r
                              /\ payers[x].val # None => payers'[x].val # None
        BY <1>4, <3>2 DEF Rollback, RollbackTables, RolledBack, Unlocked, Paired, TypeOK
      <4>4. LocalsSet(r)'
        BY <4>1, <4>2, <4>3 DEF LocalsSet, Reading, Owing
      <4>5. BatchLocked(r)'
        BY <4>1, <4>2 DEF BatchLocked, Local
      <4>6. IdFresh(r)'
        <5>1. \A q \in Procs : loc'[q] = loc[q] \/ loc'[q].payment = None
          BY <1>4 DEF Rollback, EndCall, NoCall, Call, TypeOK
        <5>2. loc[r].op = "authorize" => payments'[loc[r].payment] = payments[loc[r].payment]
          <6> SUFFICES ASSUME loc[r].op = "authorize" PROVE payments'[loc[r].payment] = payments[loc[r].payment]
            OBVIOUS
          <6>1. IdFresh(r) /\ RowInserted(loc[r].payment)
            BY DEF IdFresh
          <6>2. loc[r].payment \in PaymentIDs /\ payments[loc[r].payment].lock # p
            BY <3>2, <6>1 DEF IdFresh, RowInserted
          <6> QED BY <1>4, <6>2 DEF Rollback, RollbackTables, RolledBack, TypeOK
        <5>3. IdFresh(r)
          OBVIOUS
        <5>4. SUFFICES ASSUME loc[r].op = "authorize"
                       PROVE \A q \in Procs \ {r} : loc'[q].payment # loc[r].payment
          BY <4>1, <5>2, <5>3 DEF IdFresh
        <5> QED BY <5>1, <5>3, <5>4 DEF IdFresh
      <4> QED BY <4>4, <4>5, <4>6
    <3> QED BY <3>1, <3>2
  <2>2. \A q \in PaymentIDs : RowInserted(q)'
    BY <1>4 DEF Rollback, RollbackTables, RolledBack, EndCall, NoCall, Call, RowInserted, Unlocked, TypeOK
  <2>3. \A x \in Payers : Paired(x)'
    BY <1>4 DEF Rollback, RollbackTables, RolledBack, EndCall, Paired, Unlocked, TypeOK
  <2> QED BY <2>1, <2>2, <2>3
<1>5. ASSUME NEW p \in Procs, Commit(p) PROVE Goal'
  <2>1. \A r \in Procs : LocalsSet(r)' /\ BatchLocked(r)' /\ IdFresh(r)'
    <3> SUFFICES ASSUME NEW r \in Procs PROVE LocalsSet(r)' /\ BatchLocked(r)' /\ IdFresh(r)'
      OBVIOUS
    <3>1. CASE r = p
      <4>1. pc'[p] = "idle" /\ loc'[p] = NoCall
        BY <1>5 DEF Commit, EndCall, TypeOK
      <4> QED BY <3>1, <4>1 DEF NoCall, Call, LocalsSet, BatchLocked, IdFresh, Reading, Owing, Operations
    <3>2. CASE r # p
      <4>1. pc'[r] = pc[r] /\ loc'[r] = loc[r] /\ loc[r] \in Local
        BY <1>5, <3>2 DEF Commit, EndCall, TypeOK
      <4>2. \A q \in PaymentIDs : /\ payments[q].lock = r => payments'[q] = payments[q]
                                  /\ payments[q].val # None => payments'[q].val # None
        BY <1>5, <3>2 DEF Commit, CommitTables, Committed, Unlocked, RowInserted, TypeOK
      <4>3. \A x \in Payers : /\ payers[x].lock = r => payers'[x].lock = r
                              /\ payers[x].val # None => payers'[x].val # None
        BY <1>5, <3>2 DEF Commit, CommitTables, Committed, Unlocked, Paired, TypeOK
      <4>4. LocalsSet(r)'
        BY <4>1, <4>2, <4>3 DEF LocalsSet, Reading, Owing
      <4>5. BatchLocked(r)'
        BY <4>1, <4>2 DEF BatchLocked, Local
      <4>6. IdFresh(r)'
        <5>1. \A q \in Procs : loc'[q] = loc[q] \/ loc'[q].payment = None
          BY <1>5 DEF Commit, EndCall, NoCall, Call, TypeOK
        <5>2. loc[r].op = "authorize" => payments'[loc[r].payment] = payments[loc[r].payment]
          <6> SUFFICES ASSUME loc[r].op = "authorize" PROVE payments'[loc[r].payment] = payments[loc[r].payment]
            OBVIOUS
          <6>1. IdFresh(r) /\ RowInserted(loc[r].payment)
            BY DEF IdFresh
          <6>2. loc[r].payment \in PaymentIDs /\ payments[loc[r].payment].lock # p
            BY <3>2, <6>1 DEF IdFresh, RowInserted
          <6> QED BY <1>5, <6>2 DEF Commit, CommitTables, Committed, TypeOK
        <5>3. IdFresh(r)
          OBVIOUS
        <5>4. SUFFICES ASSUME loc[r].op = "authorize"
                       PROVE \A q \in Procs \ {r} : loc'[q].payment # loc[r].payment
          BY <4>1, <5>2, <5>3 DEF IdFresh
        <5> QED BY <5>1, <5>3, <5>4 DEF IdFresh
      <4> QED BY <4>4, <4>5, <4>6
    <3> QED BY <3>1, <3>2
  <2>2. \A q \in PaymentIDs : RowInserted(q)'
    BY <1>5 DEF Commit, CommitTables, Committed, EndCall, NoCall, Call, RowInserted, Unlocked, TypeOK
  <2>3. \A x \in Payers : Paired(x)'
    BY <1>5 DEF Commit, CommitTables, Committed, EndCall, Paired, Unlocked, TypeOK
  <2> QED BY <2>1, <2>2, <2>3
<1>6. ASSUME NEW p \in Procs, Start(p) PROVE Goal'
  <2>1. ASSUME NEW m \in Merchants, NEW x \in Payers, NEW a \in Amounts, NEW q \in PaymentIDs,
               StartAuthorize(p, m, x, a, q)
        PROVE  Goal'
    <3>1. LocalsSet(p)' /\ BatchLocked(p)'
      BY <2>1 DEF StartAuthorize, GoTo, Call, tables, TypeOK, LocalsSet, BatchLocked, Operations, Reading, Owing
    <3>2. payments[q].lock = None
      <4>1. payments[q].lock \in Procs \cup {None} /\ RowInserted(q)
        BY DEF TypeOK, RowOf
      <4> QED BY <2>1, <4>1 DEF StartAuthorize, FreshID, RowInserted
    <3>3. ASSUME NEW r \in Procs \ {p} PROVE LocalsSet(r)' /\ BatchLocked(r)'
      BY <2>1, <3>3 DEF StartAuthorize, GoTo, Call, tables, TypeOK, LocalsSet, BatchLocked
    <3>4. ASSUME NEW r \in Procs PROVE IdFresh(r)'
      BY <2>1, <3>2 DEF StartAuthorize, FreshID, GoTo, Call, tables, TypeOK, IdFresh
    <3>5. ASSUME NEW s \in PaymentIDs PROVE RowInserted(s)'
      BY <2>1 DEF StartAuthorize, GoTo, Call, tables, TypeOK, RowOf, LocalsSet, RowInserted, Operations, NoCall
    <3>6. \A y \in Payers : Paired(y)'
      BY <2>1 DEF StartAuthorize, tables, Paired
    <3> QED BY <3>1, <3>3, <3>4, <3>5, <3>6
  <2>2. ASSUME NEW q \in PaymentIDs, StartCapture(p, q) PROVE Goal'
    <3>1. LocalsSet(p)' /\ BatchLocked(p)'
      BY <2>2 DEF StartCapture, GoTo, Call, tables, TypeOK, RowOf, LocalsSet, BatchLocked, Operations, Reading, Owing, Payment
    <3>3. ASSUME NEW r \in Procs \ {p} PROVE LocalsSet(r)' /\ BatchLocked(r)'
      BY <2>2, <3>3 DEF StartCapture, GoTo, Call, tables, TypeOK, LocalsSet, BatchLocked
    <3>4. ASSUME NEW r \in Procs PROVE IdFresh(r)'
      BY <2>2 DEF StartCapture, GoTo, Call, tables, TypeOK, IdFresh
    <3>5. ASSUME NEW s \in PaymentIDs PROVE RowInserted(s)'
      BY <2>2 DEF StartCapture, GoTo, Call, tables, TypeOK, RowOf, LocalsSet, RowInserted, Operations, NoCall
    <3>6. \A y \in Payers : Paired(y)'
      BY <2>2 DEF StartCapture, tables, Paired
    <3> QED BY <3>1, <3>3, <3>4, <3>5, <3>6
  <2>3. ASSUME StartExpire(p) PROVE Goal'
    <3> PICK batch \in SUBSET Expirable :
           /\ LockPayments(p, batch)
           /\ loc' = [loc EXCEPT ![p] = Call("expire", None, None, 0, None, batch)]
      BY <2>3 DEF StartExpire, EarliestOf
    <3>1. LocalsSet(p)' /\ BatchLocked(p)'
      BY <2>3 DEF StartExpire, Expirable, LockPayments, Written, GoTo, Call, TypeOK, LocalsSet, BatchLocked, Operations, Reading, Owing
    <3>2. \A s \in PaymentIDs : payments'[s] = payments[s] \/ (/\ payments[s].lock = None /\ payments[s].val # None
               /\ payments'[s] = Written(payments[s], p, payments[s].val))
      BY DEF LockPayments, Expirable
    <3>21. ASSUME NEW s \in PaymentIDs
           PROVE  /\ payments'[s].val = payments[s].val
                  /\ payments[s].val = None => payments'[s] = payments[s]
                  /\ payments'[s].new = payments[s].new \/ payments'[s].new = payments[s].val
      <4>1. CASE payments'[s] = payments[s]
        BY <4>1
      <4>2. CASE payments[s].val # None /\ payments'[s] = Written(payments[s], p, payments[s].val)
        BY <4>2 DEF Written
      <4> QED BY <3>2, <4>1, <4>2
    <3>3. ASSUME NEW r \in Procs \ {p} PROVE LocalsSet(r)' /\ BatchLocked(r)'
      <4>1. pc'[r] = pc[r] /\ loc'[r] = loc[r] /\ loc[r] \in Local
        BY <2>3, <3>3 DEF StartExpire, GoTo, TypeOK
      <4>2. LocalsSet(r) /\ BatchLocked(r) /\ loc[r].todo \subseteq PaymentIDs
        BY <4>1 DEF Local
      <4>3. LocalsSet(r)'
        BY <2>3, <3>21, <4>1, <4>2 DEF StartExpire, LocalsSet, Reading, Owing
      <4>4. BatchLocked(r)'
        BY <3>2, <3>3, <4>1, <4>2 DEF BatchLocked
      <4> QED BY <4>3, <4>4
    <3>4. ASSUME NEW r \in Procs PROVE IdFresh(r)'
      <4>1. \A t \in Procs : loc'[t] = loc[t] \/ loc'[t].payment = None
        BY DEF Call, TypeOK
      <4>2. CASE r = p
        BY <2>3, <4>2 DEF Call, TypeOK, IdFresh
      <4>3. CASE r # p
        <5>1. pc'[r] = pc[r] /\ loc'[r] = loc[r]
          BY <2>3, <4>3 DEF StartExpire, GoTo, TypeOK
        <5> QED BY <3>2, <4>1, <5>1 DEF IdFresh
      <4> QED BY <4>2, <4>3
    <3>5. ASSUME NEW s \in PaymentIDs PROVE RowInserted(s)'
      <4>1. ASSUME NEW r \in Procs, loc[r].op = "authorize" PROVE loc'[r] = loc[r]
        BY <2>3, <4>1 DEF StartExpire, LocalsSet, NoCall, Call, TypeOK, Operations
      <4>2. payments[s].lock \in Procs \cup {None}
        BY DEF TypeOK, RowOf
      <4>3. RowInserted(s)
        OBVIOUS
      <4> QED BY <3>21, <4>1, <4>2, <4>3 DEF RowInserted
    <3>6. \A y \in Payers : Paired(y)'
      BY <2>3 DEF StartExpire, Paired
    <3> QED BY <3>1, <3>3, <3>4, <3>5, <3>6
  <2> QED BY <1>6, <2>1, <2>2, <2>3 DEF Start
<1>8. ASSUME NEW p \in Procs, GetHold(p) PROVE Goal'
  <2>1. LocalsSet(p) /\ BatchLocked(p) /\ loc[p] \in Local /\ pc[p] = "get_hold"
    BY <1>8 DEF TypeOK, GetHold
  <2>2. /\ pc' = [pc EXCEPT ![p] = "get_payer"] /\ UNCHANGED <<payers, payments, holds, outbox, posted>>
        /\ \A r \in Procs \ {p} : loc'[r] = loc[r]
    BY <1>8 DEF GetHold, GoTo, tables, TypeOK
  <2>3. /\ loc'[p].op = loc[p].op /\ loc[p].op # "authorize" /\ loc[p].op \in Operations
        /\ loc'[p].payment \in PaymentIDs /\ payments[loc'[p].payment].val # None
        /\ loc'[p].payer \in Payers /\ loc'[p].pay \in Payment
        /\ loc'[p].todo \subseteq loc[p].todo
    <3>1. CASE loc[p].op = "capture" /\ loc' = [loc EXCEPT ![p] = [loc[p] EXCEPT !.hold = Seen(holds[loc[p].payment], p)]]
      <4>1. /\ loc'[p].op = loc[p].op /\ loc'[p].payment = loc[p].payment /\ loc'[p].payer = loc[p].payer
            /\ loc'[p].pay = loc[p].pay /\ loc'[p].todo = loc[p].todo
        BY <2>1, <3>1 DEF TypeOK, Local
      <4> QED BY <2>1, <3>1, <4>1 DEF LocalsSet, Reading, Owing
    <3>2. CASE loc[p].op = "expire" /\ \E q \in loc[p].todo : LET pay == Seen(payments[q], p) IN
              loc' = [loc EXCEPT ![p] =
                           [Call("expire", q, pay.payer, pay.amount, pay, loc[p].todo \ {q})
                              EXCEPT !.hold = Seen(holds[q], p)]]
      <4> PICK q \in loc[p].todo : LET pay == Seen(payments[q], p) IN
              loc' = [loc EXCEPT ![p] =
                           [Call("expire", q, pay.payer, pay.amount, pay, loc[p].todo \ {q})
                              EXCEPT !.hold = Seen(holds[q], p)]]
        BY <3>2
      <4>1. q \in PaymentIDs /\ Seen(payments[q], p) \in Payment /\ payments[q].val # None
        <5>1. q \in PaymentIDs
          BY <2>1 DEF Local
        <5>2. payments[q].lock = p /\ payments[q].val # None /\ RowInserted(q)
          BY <2>1, <5>1 DEF BatchLocked
        <5>3. payments[q].new \in Payment
          BY <5>1, <5>2 DEF RowInserted, TypeOK, RowOf
        <5> QED BY <5>1, <5>2, <5>3 DEF Seen
      <4> DEFINE pay == Seen(payments[q], p)
      <4>2. /\ loc'[p].op = "expire" /\ loc'[p].payment = q /\ loc'[p].payer = pay.payer
            /\ loc'[p].pay = pay /\ loc'[p].todo = loc[p].todo \ {q}
        BY DEF TypeOK, Call
      <4> HIDE DEF pay
      <4>3. pay \in Payment
        BY <4>1 DEF pay
      <4> QED BY <3>2, <4>1, <4>2, <4>3 DEF Payment, Operations
    <3> QED BY <1>8, <3>1, <3>2 DEF GetHold
  <2>4. LocalsSet(p)'
    BY <2>2, <2>3 DEF LocalsSet, Reading, Owing, TypeOK
  <2>5. BatchLocked(p)'
    BY <2>1, <2>2, <2>3 DEF BatchLocked
  <2>6. ASSUME NEW r \in Procs \ {p} PROVE LocalsSet(r)' /\ BatchLocked(r)'
    BY <2>2, OtherCall DEF TypeOK
  <2>7. ASSUME NEW r \in Procs PROVE IdFresh(r)'
    <3>1. IdFresh(r)
      OBVIOUS
    <3> QED BY <2>2, <2>3, <3>1 DEF IdFresh, TypeOK
  <2>8. ASSUME NEW s \in PaymentIDs PROVE RowInserted(s)'
    <3>1. RowInserted(s) /\ payments[s].lock \in Procs \cup {None}
      BY DEF TypeOK, RowOf
    <3> QED BY <2>2, <2>3, <3>1 DEF RowInserted
  <2>9. \A y \in Payers : Paired(y)'
    BY <2>2 DEF Paired
  <2> QED BY <2>4, <2>5, <2>6, <2>7, <2>8, <2>9
<1>9. ASSUME NEW p \in Procs, GetPayer(p) PROVE Goal'
  <2> DEFINE x0 == Seen(payers[loc[p].payer], p)
  <2>1. CASE ~Admits(p, x0)
    BY <1>4, <1>9, <2>1 DEF GetPayer
  <2>2. CASE Admits(p, x0)
    <3>1. LocalsSet(p) /\ BatchLocked(p) /\ IdFresh(p) /\ loc[p] \in Local /\ pc[p] = "get_payer"
      BY <1>9 DEF TypeOK, GetPayer
    <3>2. /\ pc' = [pc EXCEPT ![p] = "update_payer"] /\ UNCHANGED <<payers, payments, holds, outbox, posted>>
          /\ \A r \in Procs \ {p} : loc'[r] = loc[r]
          /\ loc'[p] = [loc[p] EXCEPT !.acct = Charged(loc[p].op, x0, loc[p].amount), !.pay = Advanced(p)]
      BY <1>9, <2>2 DEF GetPayer, GoTo, tables, TypeOK
    <3>3. /\ loc'[p].op = loc[p].op /\ loc'[p].payment = loc[p].payment /\ loc'[p].payer = loc[p].payer
          /\ loc'[p].todo = loc[p].todo
          /\ loc'[p].acct = Charged(loc[p].op, x0, loc[p].amount) /\ loc'[p].pay = Advanced(p)
      BY <3>1, <3>2 DEF Local
    <3>4. loc[p].payer \in Payers /\ payers[loc[p].payer].val # None /\ loc[p].op \in Operations
      BY <2>2, <3>1 DEF Admits, Seen, LocalsSet, Reading, Paired
    <3>5. Charged(loc[p].op, x0, loc[p].amount) \in Payer /\ Advanced(p) \in Payment
      <4>1. x0 \in Payer /\ loc[p].amount \in Int
        BY <2>2, <3>1, <3>4 DEF Admits, Seen, TypeOK, RowOf, Local
      <4>2. loc[p].op # "authorize" => loc[p].pay \in Payment
        BY <3>1 DEF LocalsSet, Reading
      <4> QED BY <3>4, <4>1, <4>2, ChargedType, AdvancedType DEF TypeOK
    <3>6. LocalsSet(p)'
      BY <3>1, <3>2, <3>3, <3>4, <3>5 DEF LocalsSet, Reading, Owing, TypeOK
    <3>7. BatchLocked(p)'
      BY <3>1, <3>2, <3>3 DEF BatchLocked
    <3>8. ASSUME NEW r \in Procs \ {p} PROVE LocalsSet(r)' /\ BatchLocked(r)'
      BY <3>2, OtherCall DEF TypeOK
    <3>9. ASSUME NEW r \in Procs PROVE IdFresh(r)'
      <4>1. IdFresh(r)
        OBVIOUS
      <4>2. \A t \in Procs : loc'[t].payment = loc[t].payment /\ loc'[t].op = loc[t].op
        BY <3>2, <3>3
      <4>3. pc'[r] # "commit" => pc[r] # "commit"
        BY <3>1, <3>2 DEF TypeOK
      <4> QED BY <3>2, <4>1, <4>2, <4>3 DEF IdFresh
    <3>10. ASSUME NEW s \in PaymentIDs PROVE RowInserted(s)'
      <4>1. RowInserted(s) /\ payments[s].lock \in Procs \cup {None}
        BY DEF TypeOK, RowOf
      <4> QED BY <3>2, <3>3, <4>1 DEF RowInserted
    <3>11. \A y \in Payers : Paired(y)'
      BY <3>2 DEF Paired
    <3> QED BY <3>6, <3>7, <3>8, <3>9, <3>10, <3>11
  <2> QED BY <2>1, <2>2
<1>10. ASSUME NEW p \in Procs, UpdatePayer(p) PROVE Goal'
  <2> DEFINE x == loc[p].payer
  <2>1. /\ LocalsSet(p) /\ BatchLocked(p) /\ pc[p] = "update_payer"
        /\ x \in Payers /\ payers[x].val # None /\ loc[p].acct \in Payer
    BY <1>10 DEF UpdatePayer, LocalsSet, Reading, Owing
  <2>2. /\ pc' = [pc EXCEPT ![p] = IF loc[p].op = "authorize" THEN "insert" ELSE "update_hold"]
        /\ payers[x].lock \in {None, p}
        /\ payers' = [payers EXCEPT ![x] = Written(payers[x], p, loc[p].acct)]
        /\ UNCHANGED <<payments, holds, outbox, posted, loc>>
    BY <1>10 DEF UpdatePayer, GoTo, Lockable
  <2> HIDE DEF x
  <2>3. \A y \in Payers : payers'[y] = IF y = x THEN Written(payers[x], p, loc[p].acct) ELSE payers[y]
    BY <2>1, <2>2 DEF TypeOK
  <2>4. \A r \in Procs : pc'[r] = IF r = p THEN IF loc[p].op = "authorize" THEN "insert" ELSE "update_hold"
                                           ELSE pc[r]
    BY <2>2 DEF TypeOK
  <2>5. LocalsSet(p)'
    BY <2>1, <2>2, <2>3, <2>4 DEF LocalsSet, Reading, Owing, Written, x
  <2>6. BatchLocked(p)'
    BY <2>1, <2>2 DEF BatchLocked
  <2>7. ASSUME NEW r \in Procs \ {p} PROVE LocalsSet(r)' /\ BatchLocked(r)'
    <3>1. \A y \in Payers : (payers[y].lock = r => payers'[y].lock = r) /\ payers'[y].val = payers[y].val
      BY <2>2, <2>3, <2>7 DEF Written
    <3> QED BY <2>2, <2>4, <3>1, OtherCall DEF TypeOK
  <2>8. ASSUME NEW r \in Procs PROVE IdFresh(r)'
    <3>1. IdFresh(r) /\ (pc'[r] # "commit" => pc[r] # "commit")
      BY <2>1, <2>4
    <3> QED BY <2>2, <3>1 DEF IdFresh
  <2>9. ASSUME NEW s \in PaymentIDs PROVE RowInserted(s)'
    BY <2>2 DEF RowInserted
  <2>10. ASSUME NEW y \in Payers PROVE Paired(y)'
    <3>1. Paired(y)
      OBVIOUS
    <3>2. CASE y # x
      BY <2>2, <2>3, <3>1, <3>2 DEF Paired
    <3>3. CASE y = x
      BY <2>1, <2>2, <2>3, <3>1, <3>3 DEF Paired, Written
    <3> QED BY <3>2, <3>3
  <2> QED BY <2>5, <2>6, <2>7, <2>8, <2>9, <2>10
<1>11. ASSUME NEW p \in Procs, NEW x \in Payers, payers[x].lock = p, payers[x].val # None, Post(p, x),
              payers' = payers
       PROVE  \A y \in Payers : Paired(y)'
  <2>1. Paired(x) /\ Posting(loc[p].op, Seen(posted[x], p), loc[p].amount) \in Account
    <3>1. Seen(posted[x], p) \in Account /\ loc[p].amount \in Int
      BY <1>11 DEF Paired, Seen, TypeOK, RowOf, Local
    <3> QED BY <3>1 DEF Posting, Account
  <2>2. \A y \in Payers : posted'[y] = IF y = x
                 THEN Written(posted[x], p, Posting(loc[p].op, Seen(posted[x], p), loc[p].amount))
                 ELSE posted[y]
    BY <1>11 DEF Post, TypeOK
  <2> SUFFICES ASSUME NEW y \in Payers PROVE Paired(y)'
    OBVIOUS
  <2>3. CASE y # x
    BY <1>11, <2>2, <2>3 DEF Paired
  <2>4. CASE y = x
    BY <1>11, <2>1, <2>2, <2>4 DEF Paired, Written
  <2> QED BY <2>3, <2>4
<1>12. ASSUME NEW p \in Procs, InsertPayment(p) PROVE Goal'
  <2> DEFINE q == loc[p].payment
  <2>1. /\ LocalsSet(p) /\ BatchLocked(p) /\ IdFresh(p) /\ pc[p] = "insert" /\ q \in PaymentIDs
        /\ loc[p].payer \in Payers /\ payers[loc[p].payer].lock = p
        /\ payers[loc[p].payer].val # None /\ loc[p].pay \in Payment /\ loc[p].op = "authorize"
    BY <1>12 DEF InsertPayment, CreatePayment, CreateHold, LocalsSet, Owing
  <2>2. /\ \A s \in PaymentIDs : payments'[s] = IF s = q THEN Written(payments[q], p, loc[p].pay)
                                                       ELSE payments[s]
        /\ \A r \in Procs : pc'[r] = IF r = p THEN "commit" ELSE pc[r]
        /\ Post(p, loc[p].payer)
        /\ UNCHANGED <<payers, loc>>
    BY <1>12 DEF InsertPayment, CreatePayment, CreateHold, GoTo, CreateEvent, TypeOK
  <2>3. payments[q].val = None /\ payments[q].lock = None
    BY <2>1 DEF IdFresh
  <2>4. LocalsSet(p)'
    BY <2>1, <2>2 DEF LocalsSet, Reading, Owing, Operations
  <2>5. BatchLocked(p)'
    <3>1. loc[p].todo \subseteq PaymentIDs
      BY DEF TypeOK, Local
    <3> QED BY <2>1, <2>2, <2>3, <3>1 DEF BatchLocked
  <2>6. ASSUME NEW r \in Procs \ {p} PROVE LocalsSet(r)' /\ BatchLocked(r)'
    <3>1. \A s \in PaymentIDs : (payments[s].lock = r => payments'[s].lock = r)
                               /\ payments'[s].val = payments[s].val
      BY <2>2, <2>3 DEF Written
    <3> QED BY <2>2, <3>1, OtherCall DEF TypeOK
  <2>7. ASSUME NEW r \in Procs PROVE IdFresh(r)'
    <3>1. IdFresh(r)
      OBVIOUS
    <3>2. CASE r = p
      BY <2>1, <2>2, <3>1, <3>2 DEF IdFresh, Written
    <3>3. CASE r # p
      BY <2>1, <2>2, <3>1, <3>3 DEF IdFresh
    <3> QED BY <3>2, <3>3
  <2>8. ASSUME NEW s \in PaymentIDs PROVE RowInserted(s)'
    <3>1. RowInserted(s)
      OBVIOUS
    <3>2. CASE s = q
      BY <2>1, <2>2, <2>3, <3>2 DEF RowInserted, Written
    <3>3. CASE s # q
      BY <2>2, <3>1, <3>3 DEF RowInserted
    <3> QED BY <3>2, <3>3
  <2>9. \A y \in Payers : Paired(y)'
    BY <1>11, <2>1, <2>2
  <2> QED BY <2>4, <2>5, <2>6, <2>7, <2>8, <2>9
<1>13. ASSUME NEW p \in Procs, UpdatePayment(p) PROVE Goal'
  <2> DEFINE q == loc[p].payment
  <2>1. /\ LocalsSet(p) /\ BatchLocked(p) /\ pc[p] = "update_payment" /\ q \in PaymentIDs
        /\ loc[p].payer \in Payers /\ payers[loc[p].payer].lock = p
        /\ payers[loc[p].payer].val # None /\ loc[p].pay \in Payment
        /\ loc[p].op # "authorize" /\ loc[p].op \in Operations /\ payments[q].val # None
    BY <1>13 DEF UpdatePayment, LocalsSet, Owing
  <2>2. /\ \A s \in PaymentIDs : payments'[s] = IF s = q THEN Written(payments[q], p, loc[p].pay)
                                                       ELSE payments[s]
        /\ \A r \in Procs : pc'[r] = IF r = p THEN IF loc[p].todo = {} THEN "commit" ELSE "get_hold"
                                              ELSE pc[r]
        /\ payments[q].lock \in {None, p}
        /\ Post(p, loc[p].payer)
        /\ UNCHANGED <<payers, loc>>
    BY <1>13 DEF UpdatePayment, GoTo, CreateEvent, TypeOK, Lockable
  <2>3. \A s \in PaymentIDs : payments'[s].val = payments[s].val /\ payments'[s].lock \in {payments[s].lock, p}
    BY <2>2 DEF Written
  <2>4. LocalsSet(p)'
    BY <2>1, <2>2, <2>3 DEF LocalsSet, Reading, Owing
  <2>5. BatchLocked(p)'
    <3>1. loc[p].todo \subseteq PaymentIDs
      BY DEF TypeOK, Local
    <3> QED BY <2>1, <2>2, <2>3, <3>1 DEF BatchLocked
  <2>6. ASSUME NEW r \in Procs \ {p} PROVE LocalsSet(r)' /\ BatchLocked(r)'
    <3>1. \A s \in PaymentIDs : payments[s].lock = r => payments'[s].lock = r
      BY <2>2
    <3> QED BY <2>2, <2>3, <3>1, OtherCall DEF TypeOK
  <2>7. ASSUME NEW r \in Procs PROVE IdFresh(r)'
    <3>1. IdFresh(r)
      OBVIOUS
    <3>2. CASE r = p
      BY <2>1, <2>2, <3>1, <3>2 DEF IdFresh
    <3>3. CASE r # p
      BY <2>1, <2>2, <3>1, <3>3 DEF IdFresh
    <3> QED BY <3>2, <3>3
  <2>8. ASSUME NEW s \in PaymentIDs PROVE RowInserted(s)'
    <3>1. RowInserted(s)
      OBVIOUS
    <3>2. CASE s = q
      BY <2>1, <2>2, <3>2 DEF RowInserted, Written
    <3>3. CASE s # q
      BY <2>2, <3>1, <3>3 DEF RowInserted
    <3> QED BY <3>2, <3>3
  <2>9. \A y \in Payers : Paired(y)'
    BY <1>11, <2>1, <2>2
  <2> QED BY <2>4, <2>5, <2>6, <2>7, <2>8, <2>9
<1>14. ASSUME NEW p \in Procs, UpdateHold(p) PROVE Goal'
  <2>1. CASE loc[p].hold # "HELD"
    BY <1>4, <1>14, <2>1 DEF UpdateHold
  <2>2. CASE loc[p].hold = "HELD"
    <3>1. LocalsSet(p) /\ BatchLocked(p) /\ pc[p] = "update_hold"
      BY <1>14 DEF UpdateHold
    <3>2. /\ \A r \in Procs : pc'[r] = IF r = p THEN "update_payment" ELSE pc[r]
          /\ UNCHANGED <<payers, payments, outbox, posted, loc>>
      BY <1>14, <2>2 DEF UpdateHold, GoTo, TypeOK
    <3>3. LocalsSet(p)'
      BY <3>1, <3>2 DEF LocalsSet, Reading, Owing
    <3>4. BatchLocked(p)'
      BY <3>1, <3>2 DEF BatchLocked
    <3>5. ASSUME NEW r \in Procs \ {p} PROVE LocalsSet(r)' /\ BatchLocked(r)'
      BY <3>2, OtherCall DEF TypeOK
    <3>6. ASSUME NEW r \in Procs PROVE IdFresh(r)'
      <4>1. IdFresh(r) /\ (pc'[r] # "commit" => pc[r] # "commit")
        BY <3>1, <3>2
      <4> QED BY <3>2, <4>1 DEF IdFresh
    <3>7. \A s \in PaymentIDs : RowInserted(s)'
      BY <3>2 DEF RowInserted
    <3>8. \A y \in Payers : Paired(y)'
      BY <3>2 DEF Paired
    <3> QED BY <3>3, <3>4, <3>5, <3>6, <3>7, <3>8
  <2> QED BY <2>1, <2>2
<1>15. CASE UNCHANGED vars
  BY <1>15 DEF vars, tables, LocalsSet, BatchLocked, IdFresh, RowInserted, Paired
<1> QED
   BY <1>1, <1>2, <1>3, <1>4, <1>5, <1>6, <1>8, <1>9, <1>10, <1>12, <1>13, <1>14, <1>15
   DEF Next, Step, VersionConflict, DeadlockVictim, Fail

\* The initial state has no call in flight.
LEMMA CallInit == Init => CallInv
<1> SUFFICES ASSUME Init PROVE CallInv
    OBVIOUS
<1>1. TypeOK
  BY ConstantsAssumption DEF Init, TypeOK, RowOf, Unlocked, NoEvents, EventTypes, NoCall, Call, Local, Labels
<1>2. \A p \in Procs : LocalsSet(p) /\ BatchLocked(p) /\ IdFresh(p)
  BY NoneAssumption DEF Init, LocalsSet, BatchLocked, IdFresh, NoCall, Call, Reading, Owing, Operations
<1>3. (\A q \in PaymentIDs : RowInserted(q)) /\ (\A x \in Payers : Paired(x))
  BY DEF Init, Unlocked, RowInserted, Paired
<1> QED BY <1>1, <1>2, <1>3 DEF CallInv

\* Every call in flight can rely on what it has read or locked: the locals
\* its next statement uses are set, an expiry run keeps the lock on its whole
\* batch, and the id of a payment being authorized stays its own.
THEOREM CallsSafe == Spec => []CallInv
BY CallInit, CallStep, PTL DEF Spec

\* Every variable of the payment service keeps its type: no interleaving of
\* authorize, capture and expiry makes a call use a record it has not read.
THEOREM TypeCorrect == Spec => []TypeOK
<1>1. CallInv => TypeOK
  BY DEF CallInv
<1> QED BY <1>1, CallsSafe, PTL

-----------------------------------------------------------------------------
\* Reserve, CaptureHeld and Release move the balances the way their events
\* say, and count one version up.
LEMMA ChargedReconciles ==
  ASSUME NEW op \in Operations, NEW r \in Payer, NEW a \in Account, NEW amount \in Int,
         Reconciles(r, a)
  PROVE  /\ Reconciles(Charged(op, r, amount), Posting(op, a, amount))
         /\ Charged(op, r, amount).version = r.version + 1
<1>1. CASE op = "authorize"
  BY <1>1 DEF Reconciles, Charged, Posting, Reserve, Payer, Account
<1>2. CASE op = "capture"
  BY <1>2 DEF Reconciles, Charged, Posting, CaptureHeld, Payer, Account
<1>3. CASE op = "expire"
  BY <1>3 DEF Reconciles, Charged, Posting, Release, Payer, Account
<1> QED BY <1>1, <1>2, <1>3 DEF Operations

\* What a call sees stays reconciled while it sees the same rows and owes
\* the same event.
LEMMA SeesSame ==
  ASSUME NEW r, NEW x, SeesReconciled(r, x),
         payers'[x].val # None => payers[x].val # None,
         Seen(payers'[x], r) = Seen(payers[x], r), Seen(posted'[x], r) = Seen(posted[x], r),
         EventDue(r, x)' <=> EventDue(r, x),
         EventDue(r, x) => loc'[r].op = loc[r].op /\ loc'[r].amount = loc[r].amount
  PROVE  SeesReconciled(r, x)'
BY DEF SeesReconciled, Seen

\* What a call has computed stays current while it sees the same payers.
LEMMA ReadSame ==
  ASSUME NEW r, ReadCurrent(r), pc'[r] = pc[r], loc'[r] = loc[r],
         Seen(payers'[loc[r].payer], r) = Seen(payers[loc[r].payer], r)
  PROVE  ReadCurrent(r)'
BY DEF ReadCurrent, Seen

\* A step that leaves the payers and their events alone, and neither reads a
\* payer nor runs a statement that owes an event.
LEMMA LedgerSame ==
  ASSUME LedgerInv, UNCHANGED <<payers, posted>>,
         \A r \in Procs : \/ pc'[r] = pc[r] /\ loc'[r] = loc[r]
                          \/ /\ pc[r] \notin Owing /\ pc'[r] \notin Owing
                             /\ pc'[r] # "update_payer"
  PROVE  LedgerInv'
<1>1. ASSUME NEW r \in Procs PROVE ReadCurrent(r)'
  BY ReadSame DEF LedgerInv, ReadCurrent
<1>2. ASSUME NEW r \in Procs, NEW x \in Payers PROVE SeesReconciled(r, x)'
  <2>1. SeesReconciled(r, x)
    BY DEF LedgerInv
  <2>2. EventDue(r, x)' <=> EventDue(r, x)
    BY DEF EventDue
  <2>3. EventDue(r, x) => loc'[r].op = loc[r].op /\ loc'[r].amount = loc[r].amount
    BY DEF EventDue
  <2> QED BY <2>1, <2>2, <2>3, SeesSame
<1>3. (\A x \in Payers : VersionGrows(x)') /\ BalancesReconcile'
  BY DEF LedgerInv, VersionGrows, BalancesReconcile
<1> QED BY <1>1, <1>2, <1>3 DEF LedgerInv

\* The ledger is inductive: every statement keeps what each call sees
\* reconciled, and no statement writes a payer computed from an older one.
LEMMA LedgerStep == CallInv /\ CallInv' /\ LedgerInv /\ [Next]_vars => LedgerInv'
<1> SUFFICES ASSUME CallInv, CallInv', LedgerInv, [Next]_vars PROVE LedgerInv'
    OBVIOUS
<1>0. /\ TypeOK
      /\ \A p \in Procs : LocalsSet(p) /\ ReadCurrent(p) /\ loc[p] \in Local /\ p # None
      /\ \A x \in Payers : Paired(x) /\ VersionGrows(x)
      /\ \A p \in Procs, x \in Payers : SeesReconciled(p, x)
      /\ BalancesReconcile
  BY NoneAssumption DEF CallInv, LedgerInv, TypeOK
<1>1. CASE Tick
  BY <1>1, LedgerSame DEF Tick, tables
<1>2. ASSUME NEW m \in Merchants, CreateMerchant(m) PROVE LedgerInv'
  BY <1>2, LedgerSame DEF CreateMerchant, tables
<1>4. ASSUME NEW p \in Procs, Start(p) PROVE LedgerInv'
  <2>1. /\ UNCHANGED <<payers, posted>> /\ pc[p] = "idle" /\ pc'[p] \in {"get_payer", "get_hold"}
        /\ \A r \in Procs \ {p} : pc'[r] = pc[r] /\ loc'[r] = loc[r]
    BY <1>0, <1>4 DEF Start, StartAuthorize, StartCapture, StartExpire, GoTo, tables, TypeOK
  <2> QED BY <2>1, LedgerSame DEF Owing
<1>5. ASSUME NEW p \in Procs, GetHold(p) PROVE LedgerInv'
  <2>1. /\ UNCHANGED <<payers, posted>> /\ pc[p] = "get_hold" /\ pc'[p] = "get_payer"
        /\ \A r \in Procs \ {p} : pc'[r] = pc[r] /\ loc'[r] = loc[r]
    BY <1>0, <1>5 DEF GetHold, GoTo, tables, TypeOK
  <2> QED BY <2>1, LedgerSame DEF Owing
<1>3. ASSUME NEW x \in Payers, NEW b \in Openings, CreatePayer(x, b) PROVE LedgerInv'
  <2> DEFINE a == [opening |-> b, authorized |-> 0, captured |-> 0, expired |-> 0, entries |-> 0]
  <2>1. /\ \A y \in Payers : /\ payers'[y] = IF y = x THEN Unlocked(NewPayer(b)) ELSE payers[y]
                             /\ posted'[y] = IF y = x THEN Unlocked(a) ELSE posted[y]
        /\ payers[x].val = None /\ UNCHANGED <<pc, loc>>
    BY <1>0, <1>3 DEF CreatePayer, TypeOK
  <2>2. Reconciles(NewPayer(b), a)
    BY ConstantsAssumption DEF Reconciles, NewPayer
  <2> HIDE DEF a
  <2>3. ASSUME NEW r \in Procs PROVE ReadCurrent(r)'
    <3>1. pc[r] = "update_payer" => loc[r].payer \in Payers /\ loc[r].payer # x
      BY <1>0, <2>1 DEF LocalsSet, Reading, Owing
    <3> QED BY <1>0, <2>1, <3>1, ReadSame DEF ReadCurrent
  <2>4. ASSUME NEW r \in Procs, NEW y \in Payers PROVE SeesReconciled(r, y)'
    <3>1. CASE y # x
      BY <1>0, <2>1, <3>1, SeesSame DEF EventDue
    <3>2. CASE y = x
      <4>1. ~EventDue(r, x)'
        BY <1>0, <2>1 DEF LocalsSet, Owing, EventDue
      <4>2. Seen(payers'[x], r) = NewPayer(b) /\ Seen(posted'[x], r) = a
        BY <2>1 DEF Seen, Unlocked
      <4> QED BY <2>2, <3>2, <4>1, <4>2 DEF SeesReconciled, Seen
    <3> QED BY <3>1, <3>2
  <2>5. ASSUME NEW y \in Payers PROVE VersionGrows(y)' /\ (payers'[y].val # None => Reconciles(payers'[y].val, posted'[y].val))
    BY <1>0, <2>1, <2>2 DEF VersionGrows, BalancesReconcile, Unlocked
  <2> QED BY <2>3, <2>4, <2>5 DEF LedgerInv, BalancesReconcile
<1>6. ASSUME NEW p \in Procs, Rollback(p) PROVE LedgerInv'
  <2>1. /\ \A x \in Payers : /\ payers'[x] = RolledBack(payers[x], p)
                             /\ posted'[x] = RolledBack(posted[x], p)
        /\ pc'[p] = "idle"
        /\ \A r \in Procs \ {p} : pc'[r] = pc[r] /\ loc'[r] = loc[r]
    BY <1>0, <1>6 DEF Rollback, RollbackTables, EndCall, TypeOK
  <2>2. ASSUME NEW x \in Payers PROVE payers'[x].val = payers[x].val /\ posted'[x].val = posted[x].val
    BY <1>0, <2>1, RolledBackRow
  <2>3. ASSUME NEW r \in Procs \ {p}, NEW x \in Payers
        PROVE  Seen(payers'[x], r) = Seen(payers[x], r) /\ Seen(posted'[x], r) = Seen(posted[x], r)
    <3>1. r \in Procs /\ r # p /\ p # None /\ r # None
      BY <1>0, <2>3
    <3> QED BY <2>1, <3>1, RolledBackOthers
  <2>4. ASSUME NEW r \in Procs PROVE ReadCurrent(r)'
    <3>1. CASE r = p
      BY <2>1, <3>1 DEF ReadCurrent
    <3>2. CASE r # p /\ pc[r] = "update_payer"
      <4>1. loc[r].payer \in Payers
        BY <1>0, <3>2 DEF LocalsSet, Reading
      <4> QED BY <1>0, <2>1, <2>3, <3>2, <4>1, ReadSame
    <3>3. CASE r # p /\ pc[r] # "update_payer"
      BY <2>1, <3>3 DEF ReadCurrent
    <3> QED BY <3>1, <3>2, <3>3
  <2>5. ASSUME NEW r \in Procs, NEW x \in Payers PROVE SeesReconciled(r, x)'
    <3>1. CASE r # p
      BY <1>0, <2>1, <2>2, <2>3, <3>1, SeesSame DEF EventDue
    <3>2. CASE r = p
      <4>1. Seen(payers'[x], p) = payers'[x].val /\ Seen(posted'[x], p) = posted'[x].val
        BY <1>0, <2>1, <2>2, RolledBackRow
      <4>2. payers[x].val # None => Reconciles(payers[x].val, posted[x].val)
        BY <1>0 DEF BalancesReconcile
      <4>3. ~EventDue(p, x)'
        BY <2>1 DEF EventDue, Owing
      <4> QED BY <2>2, <3>2, <4>1, <4>2, <4>3 DEF SeesReconciled, Seen
    <3> QED BY <3>1, <3>2
  <2>6. ASSUME NEW x \in Payers PROVE VersionGrows(x)'
    <3>1. /\ VersionGrows(x) /\ payers'[x].val = payers[x].val
          /\ payers'[x].lock = IF payers[x].lock = p THEN None ELSE payers[x].lock
          /\ payers'[x].new = IF payers[x].lock = p THEN payers[x].val ELSE payers[x].new
      BY <1>0, <2>1, RolledBackRow
    <3> QED BY <3>1 DEF VersionGrows
  <2>7. BalancesReconcile'
    BY <1>0, <2>2 DEF BalancesReconcile
  <2> QED BY <2>4, <2>5, <2>6, <2>7 DEF LedgerInv
<1>7. ASSUME NEW p \in Procs, Commit(p) PROVE LedgerInv'
  <2>1. /\ \A x \in Payers : /\ payers'[x] = Committed(payers[x], p)
                             /\ posted'[x] = Committed(posted[x], p)
        /\ pc[p] = "commit" /\ pc'[p] = "idle"
        /\ \A r \in Procs \ {p} : pc'[r] = pc[r] /\ loc'[r] = loc[r]
    BY <1>0, <1>7 DEF Commit, CommitTables, EndCall, TypeOK
  <2>2. ASSUME NEW x \in Payers
        PROVE  IF payers[x].lock = p
               THEN /\ payers'[x] = Unlocked(payers[x].new) /\ payers[x].val # None
                    /\ posted'[x].val = Seen(posted[x], p) /\ posted'[x].lock = None
                    /\ Reconciles(payers'[x].val, posted'[x].val)
               ELSE payers'[x] = payers[x] /\ posted'[x] = posted[x]
    <3>1. Paired(x) /\ SeesReconciled(p, x) /\ ~EventDue(p, x)
      BY <1>0, <2>1 DEF EventDue, Owing
    <3>2. CASE payers[x].lock = p
      <4>1. payers'[x] = Unlocked(payers[x].new) /\ payers[x].val # None
        BY <1>0, <2>1, <3>1, <3>2 DEF Committed, Paired
      <4>2. posted'[x].val = Seen(posted[x], p) /\ posted'[x].lock = None
        <5>1. posted[x].lock \in {None, p} /\ p # None
          BY <1>0, <3>1, <3>2 DEF Paired
        <5> QED BY <2>1, <5>1, CommittedRow
      <4>3. Reconciles(payers[x].new, Seen(posted[x], p))
        BY <3>1, <3>2, <4>1 DEF SeesReconciled, Seen
      <4> QED BY <3>2, <4>1, <4>2, <4>3 DEF Unlocked
    <3>3. CASE payers[x].lock # p
      BY <1>0, <2>1, <3>1, <3>3 DEF Committed, Paired
    <3> QED BY <3>2, <3>3
  <2>3. ASSUME NEW x \in Payers, payers'[x].val # None PROVE Reconciles(payers'[x].val, posted'[x].val)
    BY <1>0, <2>2, <2>3 DEF BalancesReconcile
  <2>4. ASSUME NEW r \in Procs PROVE ReadCurrent(r)'
    <3>1. CASE r = p
      BY <2>1, <3>1 DEF ReadCurrent
    <3>2. CASE r # p /\ pc[r] # "update_payer"
      BY <2>1, <3>2 DEF ReadCurrent
    <3>3. CASE r # p /\ pc[r] = "update_payer"
      <4> DEFINE x == loc[r].payer
      <4>1. x \in Payers /\ loc[r].acct \in Payer /\ ReadCurrent(r)
        BY <1>0, <3>3 DEF LocalsSet, Reading
      <4>2. CASE payers[x].lock # p
        BY <2>1, <2>2, <3>3, <4>1, <4>2, ReadSame
      <4>3. CASE payers[x].lock = p
        <5>1. payers[x].val \in Payer /\ payers[x].new \in Payer /\ payers[x].new.version > payers[x].val.version
          BY <1>0, <2>2, <4>1, <4>3 DEF TypeOK, RowOf, VersionGrows, Paired
        <5>2. loc[r].acct.version <= payers[x].val.version + 1
          BY <3>3, <4>1, <4>3 DEF ReadCurrent, Seen
        <5>3. Seen(payers'[x], r) = payers[x].new /\ loc'[r] = loc[r]
          BY <1>0, <2>1, <2>2, <3>3, <4>1, <4>3, UnlockedRow
        <5>4. loc[r].acct.version < payers[x].new.version + 1
          BY <4>1, <5>1, <5>2 DEF Payer
        <5>5. loc[r].acct.version \in Int /\ payers[x].new.version \in Int
          BY <4>1, <5>1 DEF Payer
        <5> QED BY <5>3, <5>4, <5>5 DEF ReadCurrent, Seen
      <4> QED BY <4>2, <4>3
    <3> QED BY <3>1, <3>2, <3>3
  <2>5. ASSUME NEW r \in Procs, NEW x \in Payers PROVE SeesReconciled(r, x)'
    <3>1. CASE payers[x].lock = p \/ r = p
      <4>1. ~EventDue(r, x)'
        BY <1>0, <2>1, <3>1 DEF EventDue, Owing, LocalsSet
      <4>2. Seen(payers'[x], r) = payers'[x].val /\ Seen(posted'[x], r) = posted'[x].val
        <5>1. CASE payers[x].lock = p
          <6>1. payers'[x] = Unlocked(payers[x].new) /\ posted'[x].lock = None
            BY <2>2, <5>1
          <6> QED BY <1>0, <6>1 DEF Seen, Unlocked
        <5>2. CASE payers[x].lock # p /\ r = p
          <6>1. payers'[x] = payers[x] /\ posted'[x] = posted[x] /\ posted[x].lock # p
            BY <1>0, <2>2, <5>2 DEF Paired
          <6> QED BY <5>2, <6>1 DEF Seen
        <5> QED BY <3>1, <5>1, <5>2
      <4> QED BY <2>3, <4>1, <4>2 DEF SeesReconciled, Seen
    <3>2. CASE payers[x].lock # p /\ r # p
      BY <1>0, <2>1, <2>2, <3>2, SeesSame DEF EventDue
    <3> QED BY <3>1, <3>2
  <2>6. ASSUME NEW x \in Payers PROVE VersionGrows(x)'
    <3>1. CASE payers[x].lock = p
      <4>1. payers'[x] = Unlocked(payers[x].new)
        BY <2>2, <3>1
      <4> QED BY <4>1 DEF VersionGrows, Unlocked
    <3>2. CASE payers[x].lock # p
      <4>1. payers'[x] = payers[x]
        BY <2>2, <3>2
      <4> QED BY <1>0, <4>1 DEF VersionGrows
    <3> QED BY <3>1, <3>2
  <2> QED BY <2>3, <2>4, <2>5, <2>6 DEF LedgerInv, BalancesReconcile
<1>8. ASSUME NEW p \in Procs, GetPayer(p) PROVE LedgerInv'
  <2> DEFINE x0 == Seen(payers[loc[p].payer], p)
             acct == Charged(loc[p].op, x0, loc[p].amount)
  <2>1. CASE ~Admits(p, x0)
    BY <1>6, <1>8, <2>1 DEF GetPayer
  <2>2. CASE Admits(p, x0)
    <3>1. /\ pc[p] = "get_payer" /\ pc'[p] = "update_payer"
          /\ UNCHANGED <<payers, posted>>
          /\ \A r \in Procs \ {p} : pc'[r] = pc[r] /\ loc'[r] = loc[r]
          /\ loc'[p] = [loc[p] EXCEPT !.acct = acct, !.pay = Advanced(p)]
      BY <1>0, <1>8, <2>2 DEF GetPayer, GoTo, tables, TypeOK
    <3>2. /\ loc'[p].op = loc[p].op /\ loc'[p].payer = loc[p].payer /\ loc'[p].amount = loc[p].amount
          /\ loc'[p].acct = acct
      BY <1>0, <3>1 DEF Local
    <3>3. /\ loc[p].payer \in Payers /\ x0 \in Payer /\ loc[p].op \in Operations
          /\ loc[p].amount \in Int
      BY <1>0, <2>2, <3>1 DEF LocalsSet, Reading, TypeOK, RowOf, Seen, Admits, Local
    <3>4. acct.version = x0.version + 1 /\ x0.version \in Int
      BY <3>3 DEF Charged, Reserve, CaptureHeld, Release, Operations, Payer
    <3>5. ReadCurrent(p)'
      <4>1. Seen(payers'[loc'[p].payer], p) = x0
        BY <3>1, <3>2
      <4> HIDE DEF x0
      <4> QED BY <3>2, <3>4, <4>1 DEF ReadCurrent, Seen
    <3>6. ASSUME NEW r \in Procs \ {p} PROVE ReadCurrent(r)'
      BY <1>0, <3>1, ReadSame
    <3>7. ASSUME NEW r \in Procs, NEW x \in Payers PROVE SeesReconciled(r, x)'
      <4>1. EventDue(r, x)' <=> EventDue(r, x)
        BY <3>1, <3>2 DEF EventDue, Owing
      <4>2. EventDue(r, x) => loc'[r].op = loc[r].op /\ loc'[r].amount = loc[r].amount
        BY <3>1, <3>2 DEF EventDue, Owing
      <4> QED BY <1>0, <3>1, <4>1, <4>2, SeesSame
    <3>8. (\A x \in Payers : VersionGrows(x)') /\ BalancesReconcile'
      BY <1>0, <3>1 DEF VersionGrows, BalancesReconcile
    <3> QED BY <3>5, <3>6, <3>7, <3>8 DEF LedgerInv
  <2> QED BY <2>1, <2>2
<1>9. ASSUME NEW p \in Procs, UpdatePayer(p) PROVE LedgerInv'
  <2> PICK x \in Payers : x = loc[p].payer
    BY <1>0, <1>9 DEF UpdatePayer, LocalsSet, Reading, Owing
  <2> DEFINE x0 == Seen(payers[x], p)
             a0 == Seen(posted[x], p)
  <2>1. /\ pc[p] = "update_payer" /\ x \in Payers /\ payers[x].val # None
        /\ loc[p].acct \in Payer /\ loc[p].op \in Operations /\ loc[p].amount \in Int
    BY <1>0, <1>9 DEF UpdatePayer, LocalsSet, Reading, Owing, Local
  <2>2. /\ x0.version = loc[p].acct.version - 1 /\ Lockable(payers[x], p)
        /\ pc'[p] \in Owing /\ UNCHANGED <<posted, loc>>
        /\ \A r \in Procs \ {p} : pc'[r] = pc[r]
        /\ \A y \in Payers : payers'[y] = IF y = x THEN Written(payers[x], p, loc[p].acct) ELSE payers[y]
    BY <1>0, <1>9, <2>1 DEF UpdatePayer, VersionMatches, GoTo, TypeOK, Owing
  <2>3. x0 \in Payer /\ a0 \in Account /\ Reconciles(x0, a0)
    <3>1. x0 \in Payer /\ a0 \in Account
      BY <1>0, <2>1 DEF TypeOK, RowOf, Seen, Paired
    <3>2. SeesReconciled(p, x) /\ ~EventDue(p, x)
      BY <1>0, <2>1 DEF EventDue, Owing
    <3> QED BY <2>1, <3>1, <3>2 DEF SeesReconciled
  <2>4. loc[p].acct = Charged(loc[p].op, x0, loc[p].amount)
    <3>1. loc[p].acct.version \in Int /\ x0.version \in Int
      BY <2>1, <2>3 DEF Payer
    <3>2. loc[p].acct.version = x0.version + 1
      BY <2>2, <3>1
    <3> QED BY <1>0, <2>1, <3>2 DEF ReadCurrent
  <2>5. /\ Reconciles(loc[p].acct, Posting(loc[p].op, a0, loc[p].amount))
        /\ loc[p].acct.version = x0.version + 1
    BY <2>1, <2>3, <2>4, ChargedReconciles
  <2>6. /\ payers'[x].val = payers[x].val /\ payers'[x].lock = p /\ payers'[x].new = loc[p].acct
        /\ Seen(payers'[x], p) = loc[p].acct
    BY <1>0, <2>1, <2>2, WrittenRow
  <2>7. ASSUME NEW r \in Procs \ {p}, NEW y \in Payers PROVE Seen(payers'[y], r) = Seen(payers[y], r)
    <3>1. r # p /\ r # None /\ p # None
      BY <1>0, <2>7
    <3> QED BY <2>2, <3>1, WrittenOthers
  <2> HIDE DEF x0, a0
  <2>8. ASSUME NEW r \in Procs PROVE ReadCurrent(r)'
    <3>1. CASE r = p
      BY <2>2, <3>1 DEF ReadCurrent, Owing
    <3>2. CASE r # p /\ pc[r] # "update_payer"
      BY <2>2, <3>2 DEF ReadCurrent
    <3>3. CASE r # p /\ pc[r] = "update_payer"
      <4>1. loc[r].payer \in Payers
        BY <1>0, <3>3 DEF LocalsSet, Reading
      <4> QED BY <1>0, <2>2, <2>7, <3>3, <4>1, ReadSame
    <3> QED BY <3>1, <3>2, <3>3
  <2>9. ASSUME NEW r \in Procs, NEW y \in Payers PROVE SeesReconciled(r, y)'
    <3>1. CASE r # p
      <4>1. payers'[y].val = payers[y].val
        BY <2>2, <2>6
      <4> QED BY <1>0, <2>2, <2>7, <3>1, <4>1, SeesSame DEF EventDue
    <3>2. CASE r = p /\ y # x
      BY <1>0, <2>1, <2>2, <3>2, SeesSame DEF EventDue
    <3>3. CASE r = p /\ y = x
      <4>1. EventDue(p, x)' /\ Seen(posted'[x], p) = a0
        BY <2>2 DEF EventDue, a0
      <4>2. /\ Seen(payers[x], p)' = loc[p].acct /\ Seen(posted[x], p)' = a0
            /\ loc'[p] = loc[p]
        BY <2>2, <2>6, <4>1
      <4> QED BY <2>5, <3>3, <4>1, <4>2 DEF SeesReconciled
    <3> QED BY <3>1, <3>2, <3>3
  <2>10. ASSUME NEW y \in Payers PROVE VersionGrows(y)' /\ payers'[y].val = payers[y].val
    <3>1. CASE y # x
      BY <1>0, <2>2, <3>1 DEF VersionGrows
    <3>2. CASE y = x
      <4>1. x0 = payers[x].val \/ (payers[x].lock # None /\ x0 = payers[x].new)
        BY <1>0 DEF Seen, x0
      <4>2. payers[x].val \in Payer /\ payers[x].new \in Payer /\ VersionGrows(x)
        BY <1>0, <2>1 DEF TypeOK, RowOf, Paired
      <4>3. loc[p].acct.version > payers[x].val.version
        BY <2>5, <4>1, <4>2 DEF VersionGrows, Payer
      <4> QED BY <1>0, <2>6, <3>2, <4>3 DEF VersionGrows
    <3> QED BY <3>1, <3>2
  <2>11. BalancesReconcile'
    BY <1>0, <2>2, <2>10 DEF BalancesReconcile
  <2> QED BY <2>8, <2>9, <2>10, <2>11 DEF LedgerInv
<1>10. ASSUME NEW p \in Procs, pc[p] \in Owing, Post(p, loc[p].payer),
              UNCHANGED <<payers, loc>>, pc'[p] \in {"commit", "get_hold"},
              \A r \in Procs \ {p} : pc'[r] = pc[r]
       PROVE  LedgerInv'
  <2> PICK x \in Payers : x = loc[p].payer
    BY <1>0, <1>10 DEF LocalsSet, Owing
  <2> DEFINE a1 == Posting(loc[p].op, Seen(posted[x], p), loc[p].amount)
  <2>1. x \in Payers /\ payers[x].val # None /\ payers[x].lock = p
    BY <1>0, <1>10 DEF LocalsSet, Reading, Owing
  <2>2. Lockable(posted[x], p)
    BY <1>0, <2>1 DEF Lockable, Paired
  <2>3. \A y \in Payers : posted'[y] = IF y = x THEN Written(posted[x], p, a1) ELSE posted[y]
    BY <1>0, <1>10 DEF Post, TypeOK
  <2>4. posted'[x].val = posted[x].val /\ Seen(posted'[x], p) = a1
    BY <1>0, <2>1, <2>2, <2>3, WrittenRow
  <2>5. ASSUME NEW r \in Procs \ {p}, NEW y \in Payers PROVE Seen(posted'[y], r) = Seen(posted[y], r)
    <3>1. r # p /\ r # None /\ p # None
      BY <1>0, <2>5
    <3> QED BY <2>2, <2>3, <3>1, WrittenOthers
  <2>6. SeesReconciled(p, x)'
    <3>1. EventDue(p, x) /\ ~EventDue(p, x)' /\ SeesReconciled(p, x)
      BY <1>0, <1>10, <2>1 DEF EventDue, Owing
    <3>2. Reconciles(Seen(payers[x], p), a1)
      BY <2>1, <3>1 DEF SeesReconciled
    <3> HIDE DEF a1
    <3> QED BY <1>10, <2>4, <3>1, <3>2 DEF SeesReconciled, Seen
  <2> HIDE DEF a1
  <2>7. ASSUME NEW r \in Procs, NEW y \in Payers, r # p \/ y # x PROVE SeesReconciled(r, y)'
    <3>1. CASE r # p
      BY <1>0, <1>10, <2>5, <3>1, SeesSame DEF EventDue
    <3>2. CASE r = p /\ y # x
      <4>1. ~EventDue(p, y) /\ ~EventDue(p, y)'
        BY <1>10, <3>2 DEF EventDue
      <4> QED BY <1>0, <1>10, <2>3, <3>2, <4>1, SeesSame
    <3> QED BY <2>7, <3>1, <3>2
  <2>8. ASSUME NEW r \in Procs PROVE ReadCurrent(r)'
    <3>1. CASE r = p
      BY <1>10, <3>1 DEF ReadCurrent
    <3>2. CASE r # p
      BY <1>0, <1>10, <3>2, ReadSame
    <3> QED BY <3>1, <3>2
  <2>9. (\A y \in Payers : VersionGrows(y)') /\ BalancesReconcile'
    <3>1. \A y \in Payers : posted'[y].val = posted[y].val
      BY <2>3, <2>4
    <3> QED BY <1>0, <1>10, <3>1 DEF VersionGrows, BalancesReconcile
  <2> QED BY <2>6, <2>7, <2>8, <2>9 DEF LedgerInv
<1>11. ASSUME NEW p \in Procs, InsertPayment(p) PROVE LedgerInv'
  BY <1>0, <1>10, <1>11 DEF InsertPayment, CreatePayment, CreateHold, CreateEvent, GoTo, TypeOK, Owing
<1>12. ASSUME NEW p \in Procs, UpdatePayment(p) PROVE LedgerInv'
  BY <1>0, <1>10, <1>12 DEF UpdatePayment, CreateEvent, GoTo, TypeOK, Owing
<1>13. ASSUME NEW p \in Procs, UpdateHold(p) PROVE LedgerInv'
  <2>1. CASE loc[p].hold # "HELD"
    BY <1>6, <1>13, <2>1 DEF UpdateHold
  <2>2. CASE loc[p].hold = "HELD"
    <3>1. /\ pc[p] = "update_hold" /\ pc'[p] = "update_payment"
          /\ \A r \in Procs \ {p} : pc'[r] = pc[r]
          /\ UNCHANGED <<payers, posted, loc>>
      BY <1>0, <1>13, <2>2 DEF UpdateHold, GoTo, TypeOK
    <3>2. ASSUME NEW r \in Procs PROVE ReadCurrent(r)'
      BY <1>0, <3>1, ReadSame DEF ReadCurrent
    <3>3. ASSUME NEW r \in Procs, NEW x \in Payers PROVE SeesReconciled(r, x)'
      <4>1. EventDue(r, x)' <=> EventDue(r, x)
        BY <3>1 DEF EventDue, Owing
      <4> QED BY <1>0, <3>1, <4>1, SeesSame
    <3>4. (\A x \in Payers : VersionGrows(x)') /\ BalancesReconcile'
      BY <1>0, <3>1 DEF VersionGrows, BalancesReconcile
    <3> QED BY <3>2, <3>3, <3>4 DEF LedgerInv
  <2> QED BY <2>1, <2>2
<1>14. CASE UNCHANGED vars
  BY <1>14, LedgerSame DEF vars, tables
<1> QED
   BY <1>1, <1>2, <1>3, <1>4, <1>5, <1>6, <1>7, <1>8, <1>9, <1>11, <1>12, <1>13, <1>14
   DEF Next, Step, VersionConflict, DeadlockVictim, Fail

\* No lost update: for every number of concurrent authorizations, captures
\* and expiry runs, the committed balances of a payer are its opening
\* balance moved by its committed events.
THEOREM LedgerCorrect == Spec => []BalancesReconcile
<1>1. Init => LedgerInv
  BY DEF Init, LedgerInv, ReadCurrent, SeesReconciled, VersionGrows, BalancesReconcile, Unlocked
<1>2. LedgerInv => BalancesReconcile
  BY DEF LedgerInv
<1> QED BY <1>1, <1>2, LedgerStep, CallsSafe, PTL DEF Spec

-----------------------------------------------------------------------------
\* A payer that passes the service's checks is not overdrawn by its operation.
LEMMA ChargedFunded ==
  ASSUME NEW p, NEW r \in Payer, loc[p].op \in Operations, loc[p].amount \in Int, Admits(p, r),
         r.available >= 0, r.held >= 0
  PROVE  /\ Charged(loc[p].op, r, loc[p].amount).available >= 0
         /\ Charged(loc[p].op, r, loc[p].amount).held >= 0
<1>1. CASE loc[p].op = "authorize"
  BY <1>1 DEF Admits, CanAuthorize, Charged, Reserve, Payer
<1>2. CASE loc[p].op = "capture"
  BY <1>2 DEF Admits, HasHeld, Charged, CaptureHeld, Payer
<1>3. CASE loc[p].op = "expire"
  BY <1>3 DEF Admits, HasHeld, Charged, Release, Payer
<1> QED BY <1>1, <1>2, <1>3 DEF Operations

\* A step that leaves the payers alone, and gives no call a payer to write.
LEMMA FundsSame ==
  ASSUME FundsInv, payers' = payers,
         \A r \in Procs : loc'[r].acct \in {None, loc[r].acct}
  PROVE  FundsInv'
BY DEF FundsInv, NoOverdraft

\* Funds are inductive: a payer computed from one that passed the checks is
\* not overdrawn, and only such payers are written.
LEMMA FundsStep == CallInv /\ FundsInv /\ [Next]_vars => FundsInv'
<1> SUFFICES ASSUME CallInv, FundsInv, [Next]_vars PROVE FundsInv'
    OBVIOUS
<1>0. /\ TypeOK /\ NoOverdraft
      /\ \A p \in Procs : LocalsSet(p) /\ loc[p] \in Local /\ p # None
      /\ \A p \in Procs : loc[p].acct # None => loc[p].acct.available >= 0 /\ loc[p].acct.held >= 0
  BY NoneAssumption DEF CallInv, FundsInv, TypeOK
<1>1. CASE Tick
  BY <1>1, FundsSame DEF Tick, tables
<1>2. ASSUME NEW m \in Merchants, CreateMerchant(m) PROVE FundsInv'
  BY <1>2, FundsSame DEF CreateMerchant, tables
<1>3. ASSUME NEW x \in Payers, NEW b \in Openings, CreatePayer(x, b) PROVE FundsInv'
  <2>1. /\ \A y \in Payers : payers'[y] = IF y = x THEN Unlocked(NewPayer(b)) ELSE payers[y]
        /\ loc' = loc /\ b >= 0 /\ b \in Int
    BY <1>0, <1>3, ConstantsAssumption DEF CreatePayer, TypeOK
  <2>2. ASSUME NEW y \in Payers
        PROVE  /\ payers'[y].val # None => payers'[y].val.available >= 0 /\ payers'[y].val.held >= 0
               /\ payers'[y].new # None => payers'[y].new.available >= 0 /\ payers'[y].new.held >= 0
    BY <1>0, <2>1 DEF NoOverdraft, Unlocked, NewPayer
  <2> QED BY <1>0, <2>1, <2>2 DEF FundsInv, NoOverdraft
<1>4. ASSUME NEW p \in Procs, EndCall(p),
             \A x \in Payers : payers'[x].val \in {payers[x].val, payers[x].new}
                             /\ payers'[x].new \in {payers[x].val, payers[x].new}
      PROVE  FundsInv'
  <2>1. \A r \in Procs : loc'[r].acct \in {None, loc[r].acct}
    BY <1>0, <1>4 DEF EndCall, NoCall, Call, TypeOK
  <2>2. NoOverdraft'
    BY <1>0, <1>4 DEF NoOverdraft
  <2> QED BY <1>0, <2>1, <2>2 DEF FundsInv
<1>5. ASSUME NEW p \in Procs, Rollback(p) PROVE FundsInv'
  <2>1. \A x \in Payers : payers'[x] = RolledBack(payers[x], p)
    BY <1>5 DEF Rollback, RollbackTables
  <2>2. \A x \in Payers : payers'[x].val = payers[x].val /\ payers'[x].new \in {payers[x].val, payers[x].new}
    BY <1>0, <2>1, RolledBackRow
  <2> QED BY <1>4, <1>5, <2>2 DEF Rollback
<1>6. ASSUME NEW p \in Procs, Commit(p) PROVE FundsInv'
  <2>1. ASSUME NEW x \in Payers
        PROVE  payers'[x].val \in {payers[x].val, payers[x].new} /\ payers'[x].new = payers[x].new
    <3>1. payers'[x] = Committed(payers[x], p)
      BY <1>6 DEF Commit, CommitTables
    <3>2. CASE payers[x].lock = p
      BY <3>1, <3>2 DEF Committed, Unlocked
    <3>3. CASE payers[x].lock # p
      BY <3>1, <3>3 DEF Committed
    <3> QED BY <3>2, <3>3
  <2> QED BY <1>4, <1>6, <2>1 DEF Commit
<1>7. ASSUME NEW p \in Procs, Start(p) PROVE FundsInv'
  <2>1. payers' = payers /\ \A r \in Procs : loc'[r].acct \in {None, loc[r].acct}
    BY <1>0, <1>7 DEF Start, StartAuthorize, StartCapture, StartExpire, Call, tables, TypeOK
  <2> QED BY <2>1, FundsSame
<1>8. ASSUME NEW p \in Procs, GetHold(p) PROVE FundsInv'
  <2>1. payers' = payers /\ \A r \in Procs \ {p} : loc'[r] = loc[r]
    BY <1>0, <1>8 DEF GetHold, tables, TypeOK
  <2>2. loc'[p].acct \in {None, loc[p].acct}
    <3>1. CASE loc' = [loc EXCEPT ![p] = [loc[p] EXCEPT !.hold = Seen(holds[loc[p].payment], p)]]
      BY <1>0, <3>1 DEF TypeOK, Local
    <3>2. CASE \E q \in loc[p].todo : LET pay == Seen(payments[q], p) IN
              loc' = [loc EXCEPT ![p] =
                           [Call("expire", q, pay.payer, pay.amount, pay, loc[p].todo \ {q})
                              EXCEPT !.hold = Seen(holds[q], p)]]
      BY <1>0, <3>2 DEF TypeOK, Call
    <3> QED BY <1>8, <3>1, <3>2 DEF GetHold
  <2> QED BY <2>1, <2>2, FundsSame
<1>9. ASSUME NEW p \in Procs, GetPayer(p) PROVE FundsInv'
  <2> DEFINE x0 == Seen(payers[loc[p].payer], p)
             acct == Charged(loc[p].op, x0, loc[p].amount)
  <2>1. CASE ~Admits(p, x0)
    BY <1>5, <1>9, <2>1 DEF GetPayer
  <2>2. CASE Admits(p, x0)
    <3>1. /\ payers' = payers /\ \A r \in Procs \ {p} : loc'[r] = loc[r]
          /\ loc'[p] = [loc[p] EXCEPT !.acct = acct, !.pay = Advanced(p)]
      BY <1>0, <1>9, <2>2 DEF GetPayer, tables, TypeOK
    <3>2. loc'[p].acct = acct
      BY <1>0, <3>1 DEF Local
    <3>3. /\ x0 \in Payer /\ x0.available >= 0 /\ x0.held >= 0
          /\ loc[p].op \in Operations /\ loc[p].amount \in Int
      BY <1>0, <1>9, <2>2 DEF GetPayer, LocalsSet, Reading, TypeOK, RowOf, Seen, Admits, Local, NoOverdraft
    <3>4. acct.available >= 0 /\ acct.held >= 0
      BY <2>2, <3>3, ChargedFunded
    <3> QED BY <1>0, <3>1, <3>2, <3>4 DEF FundsInv, NoOverdraft
  <2> QED BY <2>1, <2>2
<1>10. ASSUME NEW p \in Procs, UpdatePayer(p) PROVE FundsInv'
  <2>1. /\ loc[p].payer \in Payers /\ loc[p].acct \in Payer /\ loc' = loc
        /\ payers' = [payers EXCEPT ![loc[p].payer] = Written(payers[loc[p].payer], p, loc[p].acct)]
    BY <1>0, <1>10 DEF UpdatePayer, LocalsSet, Reading, Owing
  <2>2. loc[p].acct.available >= 0 /\ loc[p].acct.held >= 0
    BY <1>0, <2>1, NoneAssumption
  <2>3. ASSUME NEW y \in Payers
        PROVE  payers'[y].val = payers[y].val /\ payers'[y].new \in {payers[y].new, loc[p].acct}
    BY <1>0, <2>1, WrittenRow DEF TypeOK
  <2>4. NoOverdraft'
    BY <1>0, <2>2, <2>3 DEF NoOverdraft
  <2> QED BY <1>0, <2>1, <2>4 DEF FundsInv
<1>11. ASSUME NEW p \in Procs, InsertPayment(p) \/ UpdatePayment(p) PROVE FundsInv'
  BY <1>11, FundsSame DEF InsertPayment, CreatePayment, CreateHold, UpdatePayment
<1>12. ASSUME NEW p \in Procs, UpdateHold(p) PROVE FundsInv'
  BY <1>5, <1>12, FundsSame DEF UpdateHold
<1>13. CASE UNCHANGED vars
  BY <1>13, FundsSame DEF vars, tables
<1> QED
   BY <1>1, <1>2, <1>3, <1>5, <1>6, <1>7, <1>8, <1>9, <1>10, <1>11, <1>12, <1>13
   DEF Next, Step, VersionConflict, DeadlockVictim, Fail

\* No payer is ever overdrawn, and no held balance is negative: the CHECK
\* constraints of the payers table never fire.
THEOREM FundsCorrect == Spec => []NoOverdraft
<1>1. Init => FundsInv
  BY DEF Init, FundsInv, NoOverdraft, Unlocked, NoCall, Call
<1>2. FundsInv => NoOverdraft
  BY DEF FundsInv
<1> QED BY <1>1, <1>2, FundsStep, CallsSafe, PTL DEF Spec

-----------------------------------------------------------------------------
(* The book: a payment, its hold and its events agree whenever they are    *)
(* committed.                                                              *)

\* A lock on a payment, its hold or its events is held by a process.
LEMMA LockHolders ==
  ASSUME TypeOK, NEW q \in PaymentIDs
  PROVE  /\ payments[q].lock \in Procs \cup {None}
         /\ holds[q].lock \in Procs \cup {None}
         /\ outbox[q].lock \in Procs \cup {None}
BY DEF TypeOK, RowOf

\* A call that is not a run of the expiry worker holds no lock on the book
\* until it has updated the hold.
LEMMA NoLocks ==
  ASSUME BookInv, NEW p \in Procs, loc[p].op # "expire",
         pc[p] \notin {"commit", "update_payment"}, NEW q \in PaymentIDs
  PROVE  payments[q].lock # p /\ holds[q].lock # p /\ outbox[q].lock # p
<1>1. payments[q].lock # p
  BY NoneAssumption DEF BookInv, PaymentRow
<1>2. holds[q].lock # p
  BY <1>1, NoneAssumption DEF BookInv, HoldRow
<1>3. outbox[q].lock # p
  BY <1>1, NoneAssumption DEF BookInv, EventRow
<1> QED BY <1>1, <1>2, <1>3

\* The rows of a payment stay consistent when a step leaves them alone and
\* does not change how far the calls that have them locked are with it.
LEMMA RowSame ==
  ASSUME TypeOK, NEW q \in PaymentIDs, PaymentRow(q), HoldRow(q), EventRow(q), Agrees(q),
         payments'[q] = payments[q], holds'[q] = holds[q], outbox'[q] = outbox[q],
         \A p \in Procs : p \in {payments[q].lock, holds[q].lock, outbox[q].lock} =>
           /\ loc'[p].op = loc[p].op
           /\ Ahead(p, q)' <=> Ahead(p, q)
           /\ pc[p] = "commit" /\ loc[p].payment = q => pc'[p] = "commit" /\ loc'[p].payment = q
           /\ pc[p] = "update_payment" /\ loc[p].payment = q =>
                pc'[p] = "update_payment" /\ loc'[p].payment = q
  PROVE  PaymentRow(q)' /\ HoldRow(q)' /\ EventRow(q)' /\ Agrees(q)'
<1>1. PaymentRow(q)'
  BY LockHolders DEF PaymentRow, Rewritten
<1>2. HoldRow(q)'
  BY LockHolders DEF HoldRow
<1>3. EventRow(q)'
  BY LockHolders DEF EventRow
<1>4. Agrees(q)'
  BY DEF Agrees
<1> QED BY <1>1, <1>2, <1>3, <1>4

\* A call keeps its course while its locals and its locks are left alone.
LEMMA CourseSame ==
  ASSUME NEW r \in Procs, Course(r), pc'[r] = pc[r], loc'[r] = loc[r],
         \A q \in PaymentIDs : payments[q].lock = r => payments'[q].lock = r,
         pc[r] = "update_payment" =>
           (holds[loc[r].payment].lock = r => holds'[loc[r].payment].lock = r)
  PROVE  Course(r)' /\ \A q \in PaymentIDs : Ahead(r, q)' <=> Ahead(r, q)
BY DEF Course, Ahead

\* A step of p that leaves the book alone keeps it consistent if it leaves p
\* as far as it was with each payment p has locked.
LEMMA BookSame ==
  ASSUME TypeOK, BookInv, NEW p \in Procs, UNCHANGED <<payments, holds, outbox>>,
         \A r \in Procs \ {p} : pc'[r] = pc[r] /\ loc'[r] = loc[r],
         Course(p)',
         \A q \in PaymentIDs : p \in {payments[q].lock, holds[q].lock, outbox[q].lock} =>
           /\ loc'[p].op = loc[p].op
           /\ Ahead(p, q)' <=> Ahead(p, q)
           /\ pc[p] = "commit" /\ loc[p].payment = q => pc'[p] = "commit" /\ loc'[p].payment = q
           /\ pc[p] = "update_payment" /\ loc[p].payment = q =>
                pc'[p] = "update_payment" /\ loc'[p].payment = q
  PROVE  BookInv'
<1>1. ASSUME NEW r \in Procs \ {p}
      PROVE  Course(r)' /\ \A q \in PaymentIDs : Ahead(r, q)' <=> Ahead(r, q)
  BY CourseSame DEF BookInv
<1>2. ASSUME NEW q \in PaymentIDs
      PROVE  PaymentRow(q)' /\ HoldRow(q)' /\ EventRow(q)' /\ Agrees(q)'
  <2>1. PaymentRow(q) /\ HoldRow(q) /\ EventRow(q) /\ Agrees(q)
    BY DEF BookInv
  <2> QED BY <1>1, <2>1, RowSame
<1> QED BY <1>1, <1>2 DEF BookInv

\* ROLLBACK of p takes its unfinished writes back, whole.
LEMMA BookRollback ==
  ASSUME CallInv, BookInv, NEW p \in Procs, Rollback(p)
  PROVE  BookInv'
<1>0. TypeOK /\ p # None /\ \A q \in PaymentIDs : PaymentRow(q) /\ HoldRow(q) /\ EventRow(q) /\ Agrees(q)
  BY NoneAssumption DEF CallInv, BookInv
<1>1. /\ \A q \in PaymentIDs : /\ payments'[q] = RolledBack(payments[q], p)
                               /\ holds'[q] = RolledBack(holds[q], p)
                               /\ outbox'[q] = RolledBack(outbox[q], p)
      /\ pc'[p] = "idle" /\ loc'[p] = NoCall
      /\ \A r \in Procs \ {p} : pc'[r] = pc[r] /\ loc'[r] = loc[r]
  BY <1>0 DEF Rollback, RollbackTables, EndCall, TypeOK
<1>2. ASSUME NEW q \in PaymentIDs
      PROVE  /\ payments'[q].val = payments[q].val /\ holds'[q].val = holds[q].val /\ outbox'[q].val = outbox[q].val
             /\ payments'[q].lock = IF payments[q].lock = p THEN None ELSE payments[q].lock
             /\ holds'[q].lock = IF holds[q].lock = p THEN None ELSE holds[q].lock
             /\ outbox'[q].lock = IF outbox[q].lock = p THEN None ELSE outbox[q].lock
             /\ payments[q].lock # p => payments'[q] = payments[q]
             /\ holds[q].lock # p => holds'[q] = holds[q]
             /\ outbox[q].lock # p => outbox'[q] = outbox[q]
  <2>1. /\ payments'[q].val = payments[q].val /\ holds'[q].val = holds[q].val /\ outbox'[q].val = outbox[q].val
        /\ payments'[q].lock = IF payments[q].lock = p THEN None ELSE payments[q].lock
        /\ holds'[q].lock = IF holds[q].lock = p THEN None ELSE holds[q].lock
        /\ outbox'[q].lock = IF outbox[q].lock = p THEN None ELSE outbox[q].lock
    BY <1>0, <1>1, RolledBackRow
  <2> QED BY <1>1, <2>1 DEF RolledBack
<1>3. Course(p)'
  BY <1>1, NoneAssumption DEF Course, NoCall, Call, Owing, Operations
<1>4. ASSUME NEW r \in Procs \ {p} PROVE Course(r)' /\ \A q \in PaymentIDs : Ahead(r, q)' <=> Ahead(r, q)
  <2>1. Course(r) /\ (pc[r] = "update_payment" => loc[r].payment \in PaymentIDs)
    BY DEF CallInv, BookInv, LocalsSet, Owing
  <2>2. \A q \in PaymentIDs : (payments[q].lock = r => payments'[q].lock = r) /\ (holds[q].lock = r => holds'[q].lock = r)
    BY <1>2
  <2> QED BY <1>1, <2>1, <2>2, CourseSame
<1>5. ASSUME NEW q \in PaymentIDs PROVE PaymentRow(q)' /\ HoldRow(q)' /\ EventRow(q)' /\ Agrees(q)'
  <2>0. /\ payments[q].lock \in Procs \cup {None} /\ holds[q].lock \in Procs \cup {None}
        /\ outbox[q].lock \in Procs \cup {None}
    BY <1>0, LockHolders
  <2>1. PaymentRow(q)'
    <3>1. CASE payments[q].lock \in {None, p}
      BY <1>2, <3>1 DEF PaymentRow
    <3>2. CASE payments[q].lock \notin {None, p}
      <4> PICK r \in Procs \ {p} : r = payments[q].lock
        BY <2>0, <3>2
      <4>1. PaymentRow(q) /\ payments'[q] = payments[q] /\ pc'[r] = pc[r] /\ loc'[r] = loc[r] /\ (Ahead(r, q)' <=> Ahead(r, q))
        BY <1>0, <1>1, <1>2, <1>4, <3>2
      <4>2. Rewritten(r, q) => Rewritten(r, q)'
        BY <1>2, <4>1 DEF Rewritten
      <4> QED BY <3>2, <4>1, <4>2 DEF PaymentRow
    <3> QED BY <3>1, <3>2
  <2>2. HoldRow(q)'
    <3>1. CASE holds[q].lock \in {None, p}
      BY <1>2, <3>1 DEF HoldRow
    <3>2. CASE holds[q].lock \notin {None, p}
      <4> PICK r \in Procs \ {p} : r = holds[q].lock
        BY <2>0, <3>2
      <4>1. HoldRow(q) /\ holds'[q] = holds[q] /\ pc'[r] = pc[r] /\ loc'[r] = loc[r] /\ (Ahead(r, q)' <=> Ahead(r, q))
        BY <1>0, <1>1, <1>2, <1>4, <3>2
      <4>2. payments[q].lock = r => payments'[q].lock = r
        BY <1>2
      <4> QED BY <3>2, <4>1, <4>2 DEF HoldRow
    <3> QED BY <3>1, <3>2
  <2>3. EventRow(q)'
    <3>1. CASE outbox[q].lock \in {None, p}
      BY <1>2, <3>1 DEF EventRow
    <3>2. CASE outbox[q].lock \notin {None, p}
      <4> PICK r \in Procs \ {p} : r = outbox[q].lock
        BY <2>0, <3>2
      <4>1. EventRow(q) /\ outbox'[q] = outbox[q] /\ (Ahead(r, q)' <=> Ahead(r, q))
        BY <1>0, <1>2, <1>4, <3>2
      <4> QED BY <1>2, <3>2, <4>1 DEF EventRow
    <3> QED BY <3>1, <3>2
  <2>4. Agrees(q)'
    BY <1>0, <1>2 DEF Agrees
  <2> QED BY <2>1, <2>2, <2>3, <2>4
<1> QED BY <1>3, <1>4, <1>5 DEF BookInv

\* When p is about to commit, it has written a payment, its hold and its
\* events, or none of them.
LEMMA CommitWhole ==
  ASSUME CallInv, BookInv, NEW p \in Procs, pc[p] = "commit", NEW q \in PaymentIDs
  PROVE  /\ ~Ahead(p, q)
         /\ payments[q].lock = p =>
              Rewritten(p, q) /\ holds[q].new = HoldFor(StatusAfter(loc[p].op)) /\ loc[p].op \in Operations
         /\ payments[q].lock # p => holds[q].lock # p /\ outbox[q].lock # p
<1>0. p # None /\ Course(p) /\ PaymentRow(q) /\ HoldRow(q) /\ EventRow(q) /\ LocalsSet(p)
  BY NoneAssumption DEF CallInv, BookInv
<1>1. ~Ahead(p, q)
  BY <1>0 DEF Course, Ahead, Before
<1>2. payments[q].lock = p => Rewritten(p, q)
  BY <1>0, <1>1 DEF PaymentRow
<1>3. payments[q].lock = p => holds[q].new = HoldFor(StatusAfter(loc[p].op))
  BY <1>0, <1>2 DEF Rewritten, HoldRow
<1>4. payments[q].lock # p => holds[q].lock # p /\ outbox[q].lock # p
  BY <1>0 DEF HoldRow, EventRow
<1> QED BY <1>0, <1>1, <1>2, <1>3, <1>4 DEF LocalsSet

\* COMMIT of p publishes a payment with its hold and its events.
LEMMA CommitRows ==
  ASSUME CallInv, BookInv, NEW p \in Procs, Commit(p), NEW q \in PaymentIDs
  PROVE  IF payments[q].lock = p
         THEN /\ payments'[q] = Unlocked(payments[q].new) /\ holds'[q] = Unlocked(holds[q].new)
              /\ outbox'[q] = Unlocked(outbox[q].new)
              /\ payments'[q].val # None /\ loc[p].op \in Operations
              /\ payments'[q].val.status = StatusAfter(loc[p].op)
              /\ holds'[q].val = HoldFor(StatusAfter(loc[p].op))
              /\ outbox'[q].val = Counted(outbox[q].val, EventOf(loc[p].op))
              /\ loc[p].op = "expire" => payments[q].val # None /\ payments[q].val.status = "AUTHORIZED"
         ELSE payments'[q] = payments[q] /\ holds'[q] = holds[q] /\ outbox'[q] = outbox[q]
<1>0. /\ payments'[q] = Committed(payments[q], p) /\ holds'[q] = Committed(holds[q], p)
      /\ outbox'[q] = Committed(outbox[q], p) /\ pc[p] = "commit" /\ p # None /\ PaymentRow(q)
  BY NoneAssumption DEF Commit, CommitTables, BookInv
<1>1. CASE payments[q].lock = p
  <2>1. /\ Rewritten(p, q) /\ holds[q].new = HoldFor(StatusAfter(loc[p].op))
        /\ loc[p].op \in Operations
    BY <1>0, <1>1, CommitWhole
  <2>2. /\ payments'[q] = Unlocked(payments[q].new) /\ holds'[q] = Unlocked(holds[q].new)
        /\ outbox'[q] = Unlocked(outbox[q].new)
    BY <1>0, <1>1, <2>1 DEF Committed, Rewritten
  <2>3. loc[p].op = "expire" => payments[q].val # None /\ payments[q].val.status = "AUTHORIZED"
    BY <1>0, <1>1 DEF PaymentRow
  <2> QED BY <1>1, <2>1, <2>2, <2>3 DEF Rewritten, Unlocked
<1>2. CASE payments[q].lock # p
  <2>1. holds[q].lock # p /\ outbox[q].lock # p
    BY <1>0, <1>2, CommitWhole
  <2> QED BY <1>0, <1>2, <2>1 DEF Committed
<1> QED BY <1>1, <1>2

\* The status of an operation, its event and its hold go together.
LEMMA StatusEvents ==
  ASSUME NEW op \in Operations
  PROVE  /\ StatusAfter(op) \in Statuses /\ EventFor(StatusAfter(op)) = EventOf(op)
         /\ EventOf(op) \in EventTypes
         /\ StatusAfter(op) = "AUTHORIZED" <=> op = "authorize"
         /\ op # "authorize" => HoldFor(StatusAfter(op)) = HoldAfter(op)
         /\ op = "authorize" => HoldFor(StatusAfter(op)) = "HELD" /\ EventOf(op) = "authorized"
BY DEF Operations, StatusAfter, Statuses, EventFor, EventOf, EventTypes, HoldFor, HoldAfter

\* One more event of a type.
LEMMA CountedEvents ==
  ASSUME NEW e \in [EventTypes -> Int], NEW t \in EventTypes, \A u \in EventTypes : e[u] >= 0
  PROVE  /\ Counted(e, t) \in [EventTypes -> Int]
         /\ \A u \in EventTypes : Counted(e, t)[u] >= 0
         /\ Counted(e, t)[t] > 0 /\ Counted(e, t)[t] = e[t] + 1
         /\ \A u \in EventTypes \ {t} : Counted(e, t)[u] = e[u]
<1>1. \A u \in EventTypes : Counted(e, t)[u] = IF u = t THEN e[t] + 1 ELSE e[u]
  BY DEF Counted
<1>2. Counted(e, t) \in [EventTypes -> Int]
  BY DEF Counted
<1> QED BY <1>1, <1>2

\* A payment that has never been committed has no events, and is authorized
\* by the call that has it locked.
LEMMA NewRow ==
  ASSUME CallInv, BookInv, NEW q \in PaymentIDs, payments[q].val = None
  PROVE  /\ outbox[q].val = NoEvents /\ holds[q].val = None
         /\ payments[q].lock # None => loc[payments[q].lock].op = "authorize"
BY DEF CallInv, BookInv, RowInserted, Agrees

LEMMA BookCommit ==
  ASSUME CallInv, BookInv, NEW p \in Procs, Commit(p)
  PROVE  BookInv'
<1>0. TypeOK /\ p # None /\ pc[p] = "commit" /\ \A q \in PaymentIDs : PaymentRow(q) /\ HoldRow(q) /\ EventRow(q) /\ Agrees(q)
  BY NoneAssumption DEF CallInv, BookInv, Commit
<1>1. /\ pc'[p] = "idle" /\ loc'[p] = NoCall
      /\ \A r \in Procs \ {p} : pc'[r] = pc[r] /\ loc'[r] = loc[r]
  BY <1>0 DEF Commit, EndCall, TypeOK
<1>2. ASSUME NEW q \in PaymentIDs, payments[q].lock # p
      PROVE  /\ payments'[q] = payments[q] /\ holds'[q] = holds[q] /\ outbox'[q] = outbox[q]
             /\ holds[q].lock # p /\ outbox[q].lock # p
  BY <1>0, <1>2, CommitRows, CommitWhole
<1>3. Course(p)'
  BY <1>1, NoneAssumption DEF Course, NoCall, Call, Owing, Operations
<1>4. ASSUME NEW r \in Procs \ {p} PROVE Course(r)' /\ \A q \in PaymentIDs : Ahead(r, q)' <=> Ahead(r, q)
  <2>1. Course(r) /\ (pc[r] = "update_payment" => loc[r].payment \in PaymentIDs)
    BY DEF CallInv, BookInv, LocalsSet, Owing
  <2>2. \A q \in PaymentIDs : payments[q].lock = r => payments'[q].lock = r
    BY <1>2
  <2>3. \A q \in PaymentIDs : payments[q].lock = p => holds[q].lock = p
    BY <1>0, CommitWhole DEF Rewritten
  <2>4. \A q \in PaymentIDs : holds[q].lock = r => holds'[q].lock = r
    BY <1>2, <2>3
  <2> QED BY <1>1, <2>1, <2>2, <2>4, CourseSame
<1>5. ASSUME NEW q \in PaymentIDs PROVE PaymentRow(q)' /\ HoldRow(q)' /\ EventRow(q)' /\ Agrees(q)'
  <2>1. CASE payments[q].lock # p
    <3>1. /\ PaymentRow(q) /\ HoldRow(q) /\ EventRow(q) /\ Agrees(q)
          /\ payments'[q] = payments[q] /\ holds'[q] = holds[q] /\ outbox'[q] = outbox[q]
      BY <1>0, <1>2, <2>1
    <3>2. \A r \in Procs : r \in {payments[q].lock, holds[q].lock, outbox[q].lock} => r # p
      BY <1>2, <2>1
    <3> QED BY <1>0, <1>1, <1>4, <3>1, <3>2, RowSame
  <2>2. CASE payments[q].lock = p
    <3>1. /\ payments'[q] = Unlocked(payments[q].new) /\ holds'[q] = Unlocked(holds[q].new)
          /\ outbox'[q] = Unlocked(outbox[q].new)
          /\ payments'[q].val # None /\ loc[p].op \in Operations
          /\ payments'[q].val.status = StatusAfter(loc[p].op)
          /\ holds'[q].val = HoldFor(StatusAfter(loc[p].op))
          /\ outbox'[q].val = Counted(outbox[q].val, EventOf(loc[p].op))
      BY <2>2, CommitRows
    <3>2. PaymentRow(q)' /\ HoldRow(q)' /\ EventRow(q)'
      BY <3>1 DEF Unlocked, PaymentRow, HoldRow, EventRow
    <3>3. outbox[q].val \in [EventTypes -> Int] /\ Agrees(q)
      BY <1>0 DEF TypeOK, RowOf
    <3>4. /\ EventOf(loc[p].op) \in EventTypes /\ EventFor(StatusAfter(loc[p].op)) = EventOf(loc[p].op)
          /\ StatusAfter(loc[p].op) = "AUTHORIZED" <=> loc[p].op = "authorize"
          /\ loc[p].op = "authorize" => EventOf(loc[p].op) = "authorized"
      BY <3>1, StatusEvents
    <3>5. /\ \A u \in EventTypes : outbox'[q].val[u] >= 0
          /\ outbox'[q].val[EventOf(loc[p].op)] > 0
          /\ \A u \in EventTypes \ {EventOf(loc[p].op)} : outbox'[q].val[u] = outbox[q].val[u]
      BY <3>1, <3>3, <3>4, CountedEvents DEF Agrees
    <3>6. ASSUME loc[p].op = "authorize" PROVE outbox'[q].val["captured"] = 0 /\ outbox'[q].val["expired"] = 0
      <4>1. loc[p].payment = q /\ payments[q].val = None
        <5>1. PaymentRow(q) /\ IdFresh(p)
          BY <1>0 DEF CallInv
        <5> QED BY <1>0, <2>2, <3>6, <5>1 DEF PaymentRow, IdFresh
      <4>2. outbox[q].val = NoEvents
        BY <4>1, NewRow
      <4> QED BY <3>4, <3>5, <3>6, <4>2 DEF NoEvents, EventTypes
    <3>7. Agrees(q)'
      BY <3>1, <3>4, <3>5, <3>6 DEF Agrees
    <3> QED BY <3>2, <3>7
  <2> QED BY <2>1, <2>2
<1> QED BY <1>3, <1>4, <1>5 DEF BookInv

\* A call that starts holds no lock on the book, and an expiry run then
\* locks payments that nobody else is about to change.
LEMMA BookStart ==
  ASSUME CallInv, BookInv, NEW p \in Procs, Start(p)
  PROVE  BookInv'
<1>0. /\ TypeOK /\ p # None /\ pc[p] = "idle" /\ loc[p].op = None /\ loc[p].todo = {}
      /\ \A q \in PaymentIDs : PaymentRow(q) /\ HoldRow(q) /\ EventRow(q) /\ Agrees(q)
  BY NoneAssumption DEF CallInv, BookInv, Start, StartAuthorize, StartCapture, StartExpire, LocalsSet, NoCall, Call
<1>1. \A q \in PaymentIDs : payments[q].lock # p /\ holds[q].lock # p /\ outbox[q].lock # p
  BY <1>0, NoLocks, NoneAssumption DEF Operations
<1>2. ASSUME NEW m \in Merchants, NEW x \in Payers, NEW a \in Amounts, NEW q \in PaymentIDs,
             StartAuthorize(p, m, x, a, q)
      PROVE  BookInv'
  <2>1. /\ UNCHANGED <<payments, holds, outbox>> /\ pc'[p] = "get_payer"
        /\ loc'[p] = Call("authorize", q, x, a, None, {})
        /\ \A r \in Procs \ {p} : pc'[r] = pc[r] /\ loc'[r] = loc[r]
    BY <1>0, <1>2 DEF StartAuthorize, GoTo, tables, TypeOK
  <2>2. Course(p)'
    BY <2>1 DEF Course, Call, Owing
  <2> QED BY <1>0, <1>1, <2>1, <2>2, BookSame
<1>3. ASSUME NEW q \in PaymentIDs, StartCapture(p, q) PROVE BookInv'
  <2>1. /\ UNCHANGED <<payments, holds, outbox>> /\ pc'[p] = "get_hold"
        /\ loc'[p] = Call("capture", q, payments[q].val.payer, payments[q].val.amount, payments[q].val, {})
        /\ \A r \in Procs \ {p} : pc'[r] = pc[r] /\ loc'[r] = loc[r]
    BY <1>0, <1>3 DEF StartCapture, GoTo, tables, TypeOK
  <2>2. Course(p)'
    BY <2>1 DEF Course, Call, Owing
  <2> QED BY <1>0, <1>1, <2>1, <2>2, BookSame
<1>4. ASSUME StartExpire(p) PROVE BookInv'
  <2> PICK batch \in SUBSET Expirable :
           /\ LockPayments(p, batch)
           /\ loc' = [loc EXCEPT ![p] = Call("expire", None, None, 0, None, batch)]
    BY <1>4 DEF StartExpire, EarliestOf
  <2>1. /\ pc'[p] = "get_hold" /\ loc'[p] = Call("expire", None, None, 0, None, batch)
        /\ \A r \in Procs \ {p} : pc'[r] = pc[r] /\ loc'[r] = loc[r]
        /\ UNCHANGED <<holds, outbox>>
    BY <1>0, <1>4 DEF StartExpire, GoTo, TypeOK
  <2>2. ASSUME NEW q \in PaymentIDs
        PROVE  IF q \in batch
               THEN /\ payments[q].lock = None /\ payments[q].val # None /\ payments[q].val.status = "AUTHORIZED"
                    /\ payments'[q].val = payments[q].val /\ payments'[q].lock = p
                    /\ payments'[q].new = payments[q].val
               ELSE payments'[q] = payments[q]
    BY WrittenRow DEF LockPayments, Expirable
  <2>3. \A q \in PaymentIDs : Ahead(p, q)' <=> q \in batch
    BY <2>1, NoneAssumption DEF Ahead, Call, Before
  <2>4. Course(p)'
    BY <2>1, <2>2, <2>3 DEF Course, Call, Owing, Before
  <2>5. ASSUME NEW r \in Procs \ {p} PROVE Course(r)' /\ \A q \in PaymentIDs : Ahead(r, q)' <=> Ahead(r, q)
    <3>1. \A q \in PaymentIDs : payments[q].lock = r => payments'[q].lock = r
      BY <2>2, NoneAssumption
    <3>2. Course(r) /\ (holds[loc[r].payment].lock = r => holds'[loc[r].payment].lock = r)
      BY <2>1 DEF BookInv
    <3> QED BY <2>1, <3>1, <3>2, CourseSame
  <2>6. ASSUME NEW q \in PaymentIDs PROVE PaymentRow(q)' /\ HoldRow(q)' /\ EventRow(q)' /\ Agrees(q)'
    <3>1. CASE q \notin batch
      <4>1. payments'[q] = payments[q] /\ holds'[q] = holds[q] /\ outbox'[q] = outbox[q]
        BY <2>1, <2>2, <3>1
      <4> QED BY <1>0, <1>1, <2>1, <2>5, <4>1, RowSame
    <3>2. CASE q \in batch
      <4>1. /\ payments[q].lock = None /\ payments[q].val # None /\ payments[q].val.status = "AUTHORIZED"
            /\ payments'[q].val = payments[q].val /\ payments'[q].lock = p
            /\ payments'[q].new = payments[q].val
        BY <2>2, <3>2
      <4>2. PaymentRow(q)'
        BY <2>1, <2>3, <3>2, <4>1 DEF PaymentRow, Call
      <4>3. outbox[q].lock = None
        BY <1>0, <4>1 DEF EventRow
      <4>4. HoldRow(q)'
        <5>1. CASE holds[q].lock = None
          BY <2>1, <5>1 DEF HoldRow
        <5>2. CASE holds[q].lock # None
          <6>1. PICK r \in Procs : r = holds[q].lock
            BY <1>0, <5>2, LockHolders
          <6>2. r # p /\ pc[r] = "update_payment" /\ loc[r].payment = q /\ holds[q].new = HoldFor(StatusAfter(loc[r].op))
            BY <1>0, <1>1, <4>1, <5>2, <6>1 DEF HoldRow
          <6> QED BY <2>1, <6>1, <6>2 DEF HoldRow
        <5> QED BY <5>1, <5>2
      <4>5. EventRow(q)'
        BY <2>1, <4>3 DEF EventRow
      <4>6. Agrees(q)'
        BY <1>0, <2>1, <4>1 DEF Agrees
      <4> QED BY <4>2, <4>4, <4>5, <4>6
    <3> QED BY <3>1, <3>2
  <2> QED BY <2>4, <2>5, <2>6 DEF BookInv
<1> QED BY <1>2, <1>3, <1>4 DEF Start

\* The reads, and the UPDATE of the payer, leave the book alone.
LEMMA BookGetHold ==
  ASSUME CallInv, BookInv, NEW p \in Procs, GetHold(p)
  PROVE  BookInv'
<1>0. TypeOK /\ p # None /\ pc[p] = "get_hold" /\ Course(p) /\ loc[p] \in Local
  BY NoneAssumption DEF CallInv, BookInv, GetHold, TypeOK
<1>1. /\ UNCHANGED <<payments, holds, outbox>> /\ pc'[p] = "get_payer"
      /\ \A r \in Procs \ {p} : pc'[r] = pc[r] /\ loc'[r] = loc[r]
  BY <1>0 DEF GetHold, GoTo, tables, TypeOK
<1>2. CASE loc[p].op = "capture" /\ loc' = [loc EXCEPT ![p] = [loc[p] EXCEPT !.hold = Seen(holds[loc[p].payment], p)]]
  <2>1. loc'[p].op = "capture" /\ loc'[p].todo = loc[p].todo
    BY <1>0, <1>2 DEF TypeOK, Local
  <2>2. Course(p)'
    BY <1>0, <1>1, <1>2, <2>1 DEF Course, Owing
  <2>3. \A q \in PaymentIDs : payments[q].lock # p /\ holds[q].lock # p /\ outbox[q].lock # p
    BY <1>0, <1>2, NoLocks
  <2> QED BY <1>0, <1>1, <2>2, <2>3, BookSame
<1>3. CASE loc[p].op = "expire" /\ \E q \in loc[p].todo : LET pay == Seen(payments[q], p) IN
              loc' = [loc EXCEPT ![p] =
                           [Call("expire", q, pay.payer, pay.amount, pay, loc[p].todo \ {q})
                              EXCEPT !.hold = Seen(holds[q], p)]]
  <2> PICK q \in loc[p].todo : LET pay == Seen(payments[q], p) IN
              loc' = [loc EXCEPT ![p] =
                           [Call("expire", q, pay.payer, pay.amount, pay, loc[p].todo \ {q})
                              EXCEPT !.hold = Seen(holds[q], p)]]
    BY <1>3
  <2>1. loc'[p].op = "expire" /\ loc'[p].payment = q /\ loc'[p].todo = loc[p].todo \ {q}
    BY <1>0 DEF TypeOK, Call
  <2>2. \A s \in PaymentIDs : Ahead(p, s)' <=> Ahead(p, s)
    BY <1>0, <1>1, <2>1 DEF Ahead, Before
  <2>3. Course(p)'
    BY <1>0, <1>1, <1>3, <2>1, <2>2 DEF Course, Owing
  <2> QED BY <1>0, <1>1, <1>3, <2>1, <2>2, <2>3, BookSame
<1> QED BY <1>2, <1>3 DEF GetHold

LEMMA BookGetPayer ==
  ASSUME CallInv, CallInv', BookInv, NEW p \in Procs, GetPayer(p)
  PROVE  BookInv'
<1> DEFINE x0 == Seen(payers[loc[p].payer], p)
<1>1. CASE ~Admits(p, x0)
  BY <1>1, BookRollback DEF GetPayer
<1>2. CASE Admits(p, x0)
  <2>0. TypeOK /\ p # None /\ pc[p] = "get_payer" /\ Course(p) /\ loc[p] \in Local /\ LocalsSet(p)
    BY NoneAssumption DEF CallInv, BookInv, GetPayer, TypeOK
  <2>1. /\ UNCHANGED <<payments, holds, outbox>> /\ pc'[p] = "update_payer"
        /\ \A r \in Procs \ {p} : pc'[r] = pc[r] /\ loc'[r] = loc[r]
        /\ loc'[p] = [loc[p] EXCEPT !.acct = Charged(loc[p].op, x0, loc[p].amount), !.pay = Advanced(p)]
    BY <1>2, <2>0 DEF GetPayer, GoTo, tables, TypeOK
  <2>2. /\ loc'[p].op = loc[p].op /\ loc'[p].payment = loc[p].payment /\ loc'[p].todo = loc[p].todo
        /\ loc'[p].pay = Advanced(p)
    BY <2>0, <2>1 DEF Local
  <2>3. loc[p].op \in Operations /\ (loc[p].op # "authorize" => loc[p].pay \in Payment)
    BY <2>0 DEF LocalsSet, Reading
  <2>4. Advanced(p).status = StatusAfter(loc[p].op)
    BY <2>3 DEF Advanced, NewAuthorizedPayment, Capture, Expire, Payment, StatusAfter, Operations
  <2>5. \A s \in PaymentIDs : Ahead(p, s)' <=> Ahead(p, s)
    BY <2>0, <2>1, <2>2 DEF Ahead, Before
  <2>6. Course(p)'
    BY <2>0, <2>1, <2>2, <2>4, <2>5 DEF Course, Owing, Before
  <2> QED BY <2>0, <2>1, <2>2, <2>5, <2>6, BookSame
<1> QED BY <1>1, <1>2

LEMMA BookUpdatePayer ==
  ASSUME CallInv, BookInv, NEW p \in Procs, UpdatePayer(p)
  PROVE  BookInv'
<1>0. TypeOK /\ p # None /\ pc[p] = "update_payer" /\ Course(p) /\ loc[p].op \in Operations
  BY NoneAssumption DEF CallInv, BookInv, UpdatePayer, LocalsSet
<1>1. /\ UNCHANGED <<payments, holds, outbox, loc>>
      /\ pc'[p] = IF loc[p].op = "authorize" THEN "insert" ELSE "update_hold"
      /\ \A r \in Procs \ {p} : pc'[r] = pc[r] /\ loc'[r] = loc[r]
  BY <1>0 DEF UpdatePayer, GoTo, TypeOK
<1>2. CASE loc[p].op = "authorize"
  <2>1. Course(p)'
    BY <1>0, <1>1, <1>2 DEF Course, Owing
  <2>2. \A q \in PaymentIDs : payments[q].lock # p /\ holds[q].lock # p /\ outbox[q].lock # p
    BY <1>0, <1>2, NoLocks
  <2> QED BY <1>0, <1>1, <2>1, <2>2, BookSame
<1>3. CASE loc[p].op # "authorize"
  <2>1. \A s \in PaymentIDs : Ahead(p, s)' <=> Ahead(p, s)
    BY <1>0, <1>1, <1>3 DEF Ahead, Before
  <2>2. Course(p)'
    BY <1>0, <1>1, <1>3, <2>1 DEF Course, Owing, Before
  <2> QED BY <1>0, <1>1, <2>1, <2>2, BookSame
<1> QED BY <1>2, <1>3

\* Nobody else has anything of a payment that is being authorized.
LEMMA BookInsert ==
  ASSUME CallInv, BookInv, NEW p \in Procs, InsertPayment(p)
  PROVE  BookInv'
<1> PICK q \in PaymentIDs : q = loc[p].payment
  BY DEF CallInv, InsertPayment, LocalsSet, Owing
<1>0. /\ TypeOK /\ p # None /\ pc[p] = "insert" /\ loc[p].op = "authorize" /\ loc[p].pay \in Payment
      /\ payments[q].val = None /\ payments[q].lock = None
      /\ Course(p) /\ loc[p].todo = {} /\ loc[p].pay.status = "AUTHORIZED"
  BY NoneAssumption DEF CallInv, BookInv, InsertPayment, LocalsSet, Owing, IdFresh, Course, StatusAfter
<1>1. \A s \in PaymentIDs : payments[s].lock # p /\ holds[s].lock # p /\ outbox[s].lock # p
  BY <1>0, NoLocks
<1>2. holds[q].lock = None /\ outbox[q].lock = None
  <2>1. HoldRow(q) /\ EventRow(q)
    BY DEF BookInv
  <2>2. ASSUME NEW r \in Procs, pc[r] = "update_payment" PROVE loc[r].payment # q
    BY <1>0, <2>2 DEF CallInv, LocalsSet, Owing
  <2> QED BY <1>0, <2>1, <2>2, LockHolders DEF HoldRow, EventRow
<1>3. /\ \A s \in PaymentIDs \ {q} : payments'[s] = payments[s] /\ holds'[s] = holds[s] /\ outbox'[s] = outbox[s]
      /\ payments'[q] = Written(payments[q], p, loc[p].pay)
      /\ holds'[q] = Written(holds[q], p, "HELD")
      /\ outbox'[q] = Written(outbox[q], p, Counted(outbox[q].val, "authorized"))
      /\ pc'[p] = "commit" /\ loc' = loc /\ \A r \in Procs \ {p} : pc'[r] = pc[r]
  BY <1>0, <1>2 DEF InsertPayment, CreatePayment, CreateHold, CreateEvent, EventOf, GoTo, Seen, TypeOK
<1>4. ~Ahead(p, q)' /\ Course(p)'
  BY <1>0, <1>3 DEF Ahead, Before, Course, Owing
<1>5. \A s \in PaymentIDs, r \in Procs \ {p} : (payments[s].lock = r => payments'[s].lock = r)
                                          /\ (holds[s].lock = r => holds'[s].lock = r)
  BY <1>0, <1>2, <1>3, NoneAssumption
<1>6. ASSUME NEW r \in Procs \ {p} PROVE Course(r)' /\ \A s \in PaymentIDs : Ahead(r, s)' <=> Ahead(r, s)
  <2>1. Course(r) /\ (pc[r] = "update_payment" => loc[r].payment \in PaymentIDs)
    BY DEF CallInv, BookInv, LocalsSet, Owing
  <2> QED BY <1>3, <1>5, <2>1, CourseSame
<1>7. ASSUME NEW s \in PaymentIDs PROVE PaymentRow(s)' /\ HoldRow(s)' /\ EventRow(s)' /\ Agrees(s)'
  <2>0. PaymentRow(s) /\ HoldRow(s) /\ EventRow(s) /\ Agrees(s)
    BY DEF BookInv
  <2>1. CASE s # q
    <3>1. payments'[s] = payments[s] /\ holds'[s] = holds[s] /\ outbox'[s] = outbox[s]
      BY <1>3, <2>1
    <3> QED BY <1>0, <1>1, <1>3, <1>6, <2>0, <3>1, RowSame
  <2>2. CASE s = q
    <3>1. /\ payments'[q].val = None /\ payments'[q].lock = p /\ payments'[q].new = loc[p].pay
          /\ holds'[q].val = holds[q].val /\ holds'[q].lock = p /\ holds'[q].new = "HELD"
          /\ outbox'[q].val = outbox[q].val /\ outbox'[q].lock = p
          /\ outbox'[q].new = Counted(outbox'[q].val, "authorized")
      BY <1>0, <1>3, WrittenRow
    <3>2. Rewritten(p, q)'
      <4>1. loc[p].pay # None
        BY <1>0, NoneAssumption
      <4> QED BY <1>0, <1>3, <3>1, <4>1 DEF Rewritten, StatusAfter, EventOf
    <3>3. PaymentRow(q)'
      BY <1>0, <1>3, <1>4, <3>1, <3>2 DEF PaymentRow
    <3>4. HoldRow(q)' /\ EventRow(q)'
      BY <1>0, <1>3, <1>4, <3>1 DEF HoldRow, EventRow, StatusAfter, HoldFor
    <3>5. Agrees(q)'
      BY <1>0, <2>0, <2>2, <3>1 DEF Agrees
    <3> QED BY <2>2, <3>3, <3>4, <3>5
  <2> QED BY <2>1, <2>2
<1> QED BY <1>4, <1>6, <1>7 DEF BookInv

\* The hold is given the status that goes with the operation.
LEMMA BookUpdateHold ==
  ASSUME CallInv, BookInv, NEW p \in Procs, UpdateHold(p)
  PROVE  BookInv'
<1>1. CASE loc[p].hold # "HELD"
  BY <1>1, BookRollback DEF UpdateHold
<1>2. CASE loc[p].hold = "HELD"
  <2> PICK q \in PaymentIDs : q = loc[p].payment
    BY DEF CallInv, UpdateHold, LocalsSet, Owing
  <2>0. /\ TypeOK /\ p # None /\ pc[p] = "update_hold" /\ loc[p].op \in Operations \ {"authorize"}
        /\ Course(p) /\ Lockable(holds[q], p)
    BY <1>2, NoneAssumption DEF CallInv, BookInv, UpdateHold, LocalsSet
  <2>1. /\ UNCHANGED <<payments, outbox, loc>> /\ pc'[p] = "update_payment"
        /\ \A r \in Procs \ {p} : pc'[r] = pc[r]
        /\ \A s \in PaymentIDs : holds'[s] = IF s = q THEN Written(holds[q], p, HoldAfter(loc[p].op)) ELSE holds[s]
    BY <1>2, <2>0 DEF UpdateHold, GoTo, TypeOK
  <2>2. /\ holds'[q].val = holds[q].val /\ holds'[q].lock = p /\ holds'[q].new = HoldAfter(loc[p].op)
        /\ holds[q].lock \in {None, p}
    BY <2>0, <2>1, WrittenRow DEF Lockable
  <2>3. \A s \in PaymentIDs : Ahead(p, s)' <=> Ahead(p, s)
    BY <2>0, <2>1 DEF Ahead, Before
  <2>4. Course(p)'
    BY <2>0, <2>1, <2>2, <2>3 DEF Course, Owing, Before
  <2>5. ASSUME NEW r \in Procs \ {p} PROVE Course(r)' /\ \A s \in PaymentIDs : Ahead(r, s)' <=> Ahead(r, s)
    <3>1. Course(r) /\ (pc[r] = "update_payment" => loc[r].payment \in PaymentIDs)
      BY DEF CallInv, BookInv, LocalsSet, Owing
    <3>2. \A s \in PaymentIDs : holds[s].lock = r => holds'[s].lock = r
      BY <2>0, <2>1, <2>2, NoneAssumption
    <3> QED BY <2>1, <3>1, <3>2, CourseSame
  <2>6. ASSUME NEW s \in PaymentIDs PROVE PaymentRow(s)' /\ HoldRow(s)' /\ EventRow(s)' /\ Agrees(s)'
    <3>0. PaymentRow(s) /\ HoldRow(s) /\ EventRow(s) /\ Agrees(s)
      BY DEF BookInv
    <3>1. ASSUME NEW r \in Procs, payments[s].lock = r, ~Ahead(r, s) PROVE r # p \/ s # q
      BY <2>0, <3>1 DEF Ahead, Before
    <3>2. PaymentRow(s)'
      <4>1. CASE payments[s].lock = None
        BY <2>1, <4>1 DEF PaymentRow
      <4>2. CASE payments[s].lock # None
        <5> PICK r \in Procs : r = payments[s].lock
          BY <2>0, <4>2, LockHolders
        <5>1. (Ahead(r, s)' <=> Ahead(r, s)) /\ (pc[r] = "commit" => pc'[r] = "commit")
          BY <2>0, <2>1, <2>3, <2>5
        <5>2. ASSUME ~Ahead(r, s), Rewritten(r, s) PROVE Rewritten(r, s)'
          <6>1. s # q
            BY <2>0, <2>2, <3>1, <4>2, <5>2 DEF Rewritten
          <6> QED BY <2>1, <5>2, <6>1 DEF Rewritten
        <5> QED BY <2>1, <3>0, <4>2, <5>1, <5>2 DEF PaymentRow
      <4> QED BY <4>1, <4>2
    <3>3. HoldRow(s)'
      <4>1. CASE s = q
        <5>1. holds'[q].new = HoldFor(StatusAfter(loc[p].op))
          BY <2>0, <2>2, StatusEvents
        <5> QED BY <2>1, <2>2, <4>1, <5>1 DEF HoldRow
      <4>2. CASE s # q /\ holds[s].lock # None
        <5> PICK r \in Procs : r = holds[s].lock
          BY <2>0, <4>2, LockHolders
        <5>1. (Ahead(r, s)' <=> Ahead(r, s)) /\ holds'[s] = holds[s]
          BY <2>1, <2>3, <2>5, <4>2
        <5>2. pc[r] = "update_payment" => pc'[r] = "update_payment"
          BY <2>0, <2>1
        <5> QED BY <2>1, <3>0, <4>2, <5>1, <5>2 DEF HoldRow
      <4>3. CASE s # q /\ holds[s].lock = None
        BY <2>1, <4>3 DEF HoldRow
      <4> QED BY <4>1, <4>2, <4>3
    <3>4. EventRow(s)'
      <4>1. CASE outbox[s].lock = None
        BY <2>1, <4>1 DEF EventRow
      <4>2. CASE outbox[s].lock # None
        <5> PICK r \in Procs : r = outbox[s].lock
          BY <2>0, <4>2, LockHolders
        <5>1. Ahead(r, s)' <=> Ahead(r, s)
          BY <2>3, <2>5
        <5> QED BY <2>1, <3>0, <4>2, <5>1 DEF EventRow
      <4> QED BY <4>1, <4>2
    <3>5. Agrees(s)'
      BY <2>1, <2>2, <3>0 DEF Agrees
    <3> QED BY <3>2, <3>3, <3>4, <3>5
  <2> QED BY <2>4, <2>5, <2>6 DEF BookInv
<1> QED BY <1>1, <1>2

\* The payment and its event are written once the hold is.
LEMMA BookUpdatePayment ==
  ASSUME CallInv, BookInv, NEW p \in Procs, UpdatePayment(p)
  PROVE  BookInv'
<1> PICK q \in PaymentIDs : q = loc[p].payment
  BY DEF CallInv, UpdatePayment, LocalsSet, Owing
<1>0. /\ TypeOK /\ p # None /\ pc[p] = "update_payment" /\ loc[p].op \in Operations \ {"authorize"}
      /\ Course(p) /\ payments[q].lock \in {None, p} /\ loc[p].pay \in Payment
      /\ loc[p].pay.status = StatusAfter(loc[p].op) /\ holds[q].lock = p
      /\ PaymentRow(q) /\ HoldRow(q) /\ EventRow(q) /\ Agrees(q) /\ payments[q].val # None
  BY NoneAssumption DEF CallInv, BookInv, UpdatePayment, LocalsSet, Lockable, Course, Owing
<1>1. Ahead(p, q) /\ outbox[q].lock = None
  <2>1. Ahead(p, q)
    BY <1>0 DEF Ahead, Before
  <2> QED BY <1>0, <2>1 DEF EventRow
<1>2. /\ \A s \in PaymentIDs \ {q} : payments'[s] = payments[s] /\ outbox'[s] = outbox[s]
      /\ payments'[q] = Written(payments[q], p, loc[p].pay)
      /\ outbox'[q] = Written(outbox[q], p, Counted(outbox[q].val, EventOf(loc[p].op)))
      /\ pc'[p] = IF loc[p].todo = {} THEN "commit" ELSE "get_hold"
      /\ UNCHANGED <<loc, holds>> /\ \A r \in Procs \ {p} : pc'[r] = pc[r]
  BY <1>0, <1>1 DEF UpdatePayment, CreateEvent, GoTo, Seen, TypeOK
<1>3. /\ payments'[q].val = payments[q].val /\ payments'[q].lock = p /\ payments'[q].new = loc[p].pay
      /\ outbox'[q].val = outbox[q].val /\ outbox'[q].lock = p
      /\ outbox'[q].new = Counted(outbox'[q].val, EventOf(loc[p].op))
  BY <1>0, <1>2, WrittenRow
<1>4. ~Ahead(p, q)' /\ \A s \in PaymentIDs \ {q} : Ahead(p, s)' <=> Ahead(p, s)
  BY <1>0, <1>2 DEF Ahead, Before, Course
<1>5. \A s \in PaymentIDs, r \in Procs : payments[s].lock = r => payments'[s].lock = r
  BY <1>0, <1>2, <1>3, NoneAssumption
<1>6. Course(p)'
  BY <1>0, <1>2, <1>4, <1>5 DEF Course, Owing, Before
<1>7. ASSUME NEW r \in Procs \ {p} PROVE Course(r)' /\ \A s \in PaymentIDs : Ahead(r, s)' <=> Ahead(r, s)
  <2>1. Course(r) /\ (holds[loc[r].payment].lock = r => holds'[loc[r].payment].lock = r)
    BY <1>2 DEF BookInv
  <2> QED BY <1>2, <1>5, <2>1, CourseSame
<1>8. ASSUME NEW s \in PaymentIDs PROVE PaymentRow(s)' /\ HoldRow(s)' /\ EventRow(s)' /\ Agrees(s)'
  <2>1. CASE s # q
    <3>1. payments'[s] = payments[s] /\ holds'[s] = holds[s] /\ outbox'[s] = outbox[s]
      BY <1>2, <2>1
    <3>2. PaymentRow(s) /\ HoldRow(s) /\ EventRow(s) /\ Agrees(s)
      BY DEF BookInv
    <3>3. \A r \in Procs : /\ Ahead(r, s)' <=> Ahead(r, s)
                           /\ loc'[r] = loc[r]
                           /\ loc[r].payment = s => pc'[r] = pc[r]
      BY <1>2, <1>4, <1>7, <2>1
    <3> QED BY <1>0, <3>1, <3>2, <3>3, RowSame
  <2>2. CASE s = q
    <3>1. Rewritten(p, q)'
      <4>1. loc[p].pay # None
        BY <1>0, NoneAssumption
      <4> QED BY <1>0, <1>2, <1>3, <4>1 DEF Rewritten
    <3>2. PaymentRow(q)'
      <4>1. CASE loc[p].op = "expire"
        <5>1. payments[q].lock = p
          BY <1>0, <1>1, <4>1 DEF Course
        <5>2. payments[q].val.status = "AUTHORIZED"
          BY <1>0, <4>1, <5>1 DEF PaymentRow
        <5> QED BY <1>0, <1>2, <1>3, <1>4, <3>1, <4>1, <5>2 DEF PaymentRow
      <4>2. CASE loc[p].op # "expire"
        <5>1. pc'[p] = "commit"
          BY <1>0, <1>2, <4>2 DEF Course
        <5> QED BY <1>2, <1>3, <1>4, <3>1, <4>2, <5>1 DEF PaymentRow
      <4> QED BY <4>1, <4>2
    <3>3. HoldRow(q)' /\ EventRow(q)'
      BY <1>0, <1>2, <1>3, <1>4 DEF HoldRow, EventRow
    <3>4. Agrees(q)'
      BY <1>0, <1>2, <1>3 DEF Agrees
    <3> QED BY <2>2, <3>2, <3>3, <3>4
  <2> QED BY <2>1, <2>2
<1> QED BY <1>6, <1>7, <1>8 DEF BookInv

\* The book is inductive: whatever statement runs next, what each call has
\* written of a payment, its hold and its events goes together.
LEMMA BookStep == CallInv /\ CallInv' /\ BookInv /\ [Next]_vars => BookInv'
<1> SUFFICES ASSUME CallInv, CallInv', BookInv, [Next]_vars PROVE BookInv'
    OBVIOUS
<1>1. ASSUME UNCHANGED <<payments, holds, outbox, pc, loc>> PROVE BookInv'
  BY <1>1 DEF BookInv, Course, Ahead, PaymentRow, HoldRow, EventRow, Rewritten, Agrees
<1>2. CASE Tick
  BY <1>1, <1>2 DEF Tick, tables
<1>3. ASSUME NEW m \in Merchants, CreateMerchant(m) PROVE BookInv'
  BY <1>1, <1>3 DEF CreateMerchant, tables
<1>4. ASSUME NEW x \in Payers, NEW b \in Openings, CreatePayer(x, b) PROVE BookInv'
  BY <1>1, <1>4 DEF CreatePayer
<1>5. CASE UNCHANGED vars
  BY <1>1, <1>5 DEF vars, tables
<1>6. ASSUME NEW p \in Procs, Rollback(p) PROVE BookInv'
  BY <1>6, BookRollback
<1>7. ASSUME NEW p \in Procs, Start(p) PROVE BookInv'
  BY <1>7, BookStart
<1>8. ASSUME NEW p \in Procs, Step(p) PROVE BookInv'
  <2>1. CASE GetHold(p)
    BY <2>1, BookGetHold
  <2>2. CASE GetPayer(p)
    BY <2>2, BookGetPayer
  <2>3. CASE UpdatePayer(p)
    BY <2>3, BookUpdatePayer
  <2>4. CASE VersionConflict(p)
    BY <1>6, <2>4 DEF VersionConflict
  <2>5. CASE InsertPayment(p)
    BY <2>5, BookInsert
  <2>6. CASE UpdateHold(p)
    BY <2>6, BookUpdateHold
  <2>7. CASE UpdatePayment(p)
    BY <2>7, BookUpdatePayment
  <2>8. CASE Commit(p)
    BY <2>8, BookCommit
  <2> QED BY <1>8, <2>1, <2>2, <2>3, <2>4, <2>5, <2>6, <2>7, <2>8 DEF Step
<1> QED BY <1>2, <1>3, <1>4, <1>5, <1>6, <1>7, <1>8 DEF Next, DeadlockVictim, Fail

LEMMA BookInit == Init => BookInv
<1> SUFFICES ASSUME Init PROVE BookInv
    OBVIOUS
<1>1. \A p \in Procs : Course(p)
  BY NoneAssumption DEF Init, Course, NoCall, Call, Owing, Operations
<1>2. \A q \in PaymentIDs : PaymentRow(q) /\ HoldRow(q) /\ EventRow(q) /\ Agrees(q)
  BY DEF Init, Unlocked, PaymentRow, HoldRow, EventRow, Agrees, NoEvents
<1> QED BY <1>1, <1>2 DEF BookInv

\* Only the COMMIT of a call changes what is committed of the book.
LEMMA CommittedByCommit ==
  ASSUME CallInv, [Next]_vars, \A p \in Procs : ~Commit(p), NEW q \in PaymentIDs
  PROVE  /\ payments'[q].val = payments[q].val /\ holds'[q].val = holds[q].val
         /\ outbox'[q].val = outbox[q].val
<1> DEFINE Same == /\ payments'[q].val = payments[q].val /\ holds'[q].val = holds[q].val
                   /\ outbox'[q].val = outbox[q].val
<1>0. TypeOK
  BY DEF CallInv
<1>1. ASSUME UNCHANGED <<payments, holds, outbox>> PROVE Same
  BY <1>1
<1>2. ASSUME NEW p \in Procs, Rollback(p) PROVE Same
  BY <1>2, NoneAssumption, RolledBackRow DEF Rollback, RollbackTables
<1>3. ASSUME NEW p \in Procs, Start(p) PROVE Same
  <2>1. CASE StartExpire(p)
    BY <2>1, WrittenRow DEF StartExpire, LockPayments
  <2> QED BY <1>1, <1>3, <2>1 DEF Start, StartAuthorize, StartCapture, tables
<1>4. ASSUME NEW p \in Procs, NEW v, NEW w, NEW r \in PaymentIDs,
             payments' = [payments EXCEPT ![r] = Written(payments[r], p, v)],
             outbox' = [outbox EXCEPT ![r] = Written(outbox[r], p, w)]
      PROVE  payments'[q].val = payments[q].val /\ outbox'[q].val = outbox[q].val
  BY <1>0, <1>4, WrittenRow DEF TypeOK
<1>5. ASSUME NEW p \in Procs, NEW v, NEW r \in PaymentIDs,
             holds' = [holds EXCEPT ![r] = Written(holds[r], p, v)]
      PROVE  holds'[q].val = holds[q].val
  BY <1>0, <1>5, WrittenRow DEF TypeOK
<1>6. ASSUME NEW p \in Procs, Step(p) PROVE Same
  <2>1. CASE GetHold(p)
    BY <1>1, <2>1 DEF GetHold, tables
  <2>2. CASE GetPayer(p)
    BY <1>1, <1>2, <2>2 DEF GetPayer, tables
  <2>3. CASE UpdatePayer(p)
    BY <1>1, <2>3 DEF UpdatePayer
  <2>4. CASE VersionConflict(p)
    BY <1>2, <2>4 DEF VersionConflict
  <2>5. CASE InsertPayment(p)
    <3> PICK r \in PaymentIDs : r = loc[p].payment
      BY <2>5 DEF CallInv, InsertPayment, LocalsSet, Owing
    <3> QED BY <1>4, <1>5, <2>5 DEF InsertPayment, CreatePayment, CreateHold, CreateEvent
  <2>6. CASE UpdateHold(p)
    <3>1. CASE loc[p].hold # "HELD"
      BY <1>2, <2>6, <3>1 DEF UpdateHold
    <3>2. CASE loc[p].hold = "HELD"
      <4>1. loc[p].payment \in PaymentIDs
        BY <2>6 DEF CallInv, UpdateHold, LocalsSet, Owing
      <4> QED BY <1>5, <2>6, <3>2, <4>1 DEF UpdateHold
    <3> QED BY <3>1, <3>2
  <2>7. CASE UpdatePayment(p)
    <3> PICK r \in PaymentIDs : r = loc[p].payment
      BY <2>7 DEF CallInv, UpdatePayment, LocalsSet, Owing
    <3> QED BY <1>4, <2>7 DEF UpdatePayment, CreateEvent
  <2> QED BY <1>6, <2>1, <2>2, <2>3, <2>4, <2>5, <2>6, <2>7 DEF Step
<1>7. CASE Tick
  BY <1>1, <1>7 DEF Tick, tables
<1>8. ASSUME NEW m \in Merchants, CreateMerchant(m) PROVE Same
  BY <1>1, <1>8 DEF CreateMerchant, tables
<1>9. ASSUME NEW x \in Payers, NEW b \in Openings, CreatePayer(x, b) PROVE Same
  BY <1>1, <1>9 DEF CreatePayer
<1> QED BY <1>1, <1>2, <1>3, <1>6, <1>7, <1>8, <1>9 DEF Next, DeadlockVictim, Fail, vars, tables

\* What a call commits of a payment, its hold and its events it has written
\* together, and no two calls have written parts of the same payment.
THEOREM BookSafe == Spec => [](CallInv /\ BookInv)
BY BookInit, BookStep, CallsSafe, PTL DEF Spec

\* A committed payment and its hold agree, however many captures and expiry
\* runs write them with their two unguarded UPDATEs.
THEOREM HoldsCorrect == Spec => []HoldFollowsPayment
<1>1. BookInv => HoldFollowsPayment
  BY DEF BookInv, Agrees, HoldFollowsPayment
<1> QED BY <1>1, BookSafe, PTL

\* A payment is expired at most once, and never after a capture: the row lock
\* of ListExpiredAuthorizedPayments keeps the status it has selected.
THEOREM ExpiryCorrect == Spec => ExpiresOnlyOpen
<1>1. ASSUME CallInv, BookInv, [Next]_vars, NEW q \in PaymentIDs,
             outbox'[q].val["expired"] > outbox[q].val["expired"]
      PROVE  outbox[q].val["expired"] = 0 /\ outbox[q].val["captured"] = 0
  <2>0. /\ outbox[q].val \in [EventTypes -> Int] /\ Agrees(q)
        /\ "expired" \in EventTypes /\ EventOf("authorize") # "expired" /\ EventOf("capture") # "expired"
    BY <1>1 DEF CallInv, BookInv, TypeOK, RowOf, EventTypes, EventOf
  <2>1. PICK p \in Procs : Commit(p)
    BY <1>1, <2>0, CommittedByCommit
  <2>2. payments[q].lock = p
    BY <1>1, <2>0, <2>1, CommitRows
  <2>3. outbox'[q].val = Counted(outbox[q].val, EventOf(loc[p].op)) /\ loc[p].op \in Operations
    BY <1>1, <2>1, <2>2, CommitRows
  <2>4. loc[p].op = "expire"
    <3>1. EventOf(loc[p].op) \in EventTypes
      BY <2>3, StatusEvents
    <3>2. EventOf(loc[p].op) = "expired"
      BY <1>1, <2>0, <2>3, <3>1 DEF Counted
    <3> QED BY <2>0, <2>3, <3>2 DEF Operations
  <2>5. payments[q].val # None /\ payments[q].val.status = "AUTHORIZED"
    BY <1>1, <2>1, <2>2, <2>4, CommitRows
  <2> QED BY <2>0, <2>5 DEF Agrees
<1>2. CallInv /\ BookInv /\ [Next]_vars =>
        [\A q \in PaymentIDs :
           outbox'[q].val["expired"] > outbox[q].val["expired"] =>
             outbox[q].val["expired"] = 0 /\ outbox[q].val["captured"] = 0]_vars
  BY <1>1
<1> QED BY <1>2, BookSafe, PTL DEF Spec, ExpiresOnlyOpen

\* Transactional outbox: a payment gets a new status in the step that commits
\* the event for it, and an event is committed with its payment.
THEOREM OutboxCorrect == Spec => EventWithStatus
<1> DEFINE A(q) == LET old == payments[q].val
                       new == payments'[q].val
                   IN  /\ new # None /\ (old = None \/ old.status # new.status) =>
                            outbox'[q].val = [outbox[q].val EXCEPT ![EventFor(new.status)] = @ + 1]
                       /\ outbox'[q].val # outbox[q].val =>
                            new # None /\ outbox'[q].val[EventFor(new.status)] > 0
<1>1. ASSUME CallInv, BookInv, [Next]_vars, NEW q \in PaymentIDs PROVE A(q)
  <2>1. CASE payments'[q].val = payments[q].val /\ outbox'[q].val = outbox[q].val
    BY <2>1
  <2>2. CASE payments'[q].val # payments[q].val \/ outbox'[q].val # outbox[q].val
    <3>1. PICK p \in Procs : Commit(p)
      BY <1>1, <2>2, CommittedByCommit
    <3>2. payments[q].lock = p
      BY <1>1, <2>2, <3>1, CommitRows
    <3>3. /\ payments'[q].val # None /\ loc[p].op \in Operations
          /\ payments'[q].val.status = StatusAfter(loc[p].op)
          /\ outbox'[q].val = Counted(outbox[q].val, EventOf(loc[p].op))
      BY <1>1, <3>1, <3>2, CommitRows
    <3>4. EventFor(StatusAfter(loc[p].op)) = EventOf(loc[p].op) /\ EventOf(loc[p].op) \in EventTypes
      BY <3>3, StatusEvents
    <3>5. outbox[q].val \in [EventTypes -> Int] /\ Agrees(q)
      BY <1>1 DEF CallInv, BookInv, TypeOK, RowOf
    <3>6. outbox'[q].val[EventOf(loc[p].op)] > 0
      BY <3>3, <3>4, <3>5, CountedEvents DEF Agrees
    <3> QED BY <3>3, <3>4, <3>6 DEF Counted
  <2> QED BY <2>1, <2>2
<1>2. CallInv /\ BookInv /\ [Next]_vars => [\A q \in PaymentIDs : A(q)]_vars
  BY <1>1
<1> QED BY <1>2, BookSafe, PTL DEF Spec, EventWithStatus
=============================================================================
