------------------------ MODULE PaymentsRefineProofs ------------------------
(***************************************************************************)
(* The calls of Payments are atomic: Payments implements Ledger, and the   *)
(* held balances are backed by holds, for any number of calls in flight.   *)
(***************************************************************************)
EXTENDS PaymentsProofs, SumTheorems

-----------------------------------------------------------------------------
(* The calls are atomic.                                                   *)

\* What a step of p leaves to the other calls: their locals, the rows they
\* have locked, and the terms of every committed payment.
LeavesOthers(p) ==
  /\ now' \in Nat /\ now <= now'
  /\ \A r \in Procs \ {p} : pc'[r] = pc[r] /\ loc'[r] = loc[r]
  /\ \A q \in PaymentIDs, r \in Procs \ {p} :
       payments[q].lock = r \/ payments'[q].lock = r => payments'[q] = payments[q]
  /\ \A x \in Payers, r \in Procs \ {p} :
       payers[x].lock = r \/ payers'[x].lock = r => payers'[x] = payers[x]
  /\ \A q \in PaymentIDs : payments[q].val # None =>
       payments'[q].val # None /\ SameTerms(payments'[q].val, payments[q].val)

\* A capture depends on the terms of a payment alone.
LEMMA CaptureOfTerms ==
  ASSUME NEW a \in Payment, NEW b \in Payment, SameTerms(a, b), NEW t
  PROVE  Capture(a, t) = Capture(b, t)
<1>1. ASSUME NEW c \in Payment
      PROVE  Capture(c, t) = [payer |-> c.payer, amount |-> c.amount, status |-> "CAPTURED",
                              expiresAt |-> c.expiresAt, capturedAt |-> t]
  <2> DEFINE d == [c EXCEPT !.status = "CAPTURED"]
  <2>1. d = [payer |-> c.payer, amount |-> c.amount, status |-> "CAPTURED",
             expiresAt |-> c.expiresAt, capturedAt |-> c.capturedAt]
    BY DEF Payment
  <2>2. Capture(c, t) = [d EXCEPT !.capturedAt = t]
    BY DEF Capture
  <2> HIDE DEF d
  <2> QED BY <2>1, <2>2
<1> QED BY <1>1 DEF SameTerms

\* The payments an expiry run has locked are committed, open and finitely many.
LEMMA BatchRows ==
  ASSUME CallInv, BookInv, EffectInv, NEW p \in Procs, loc[p].op = "expire"
  PROVE  /\ IsFiniteSet(Batch(p)) /\ \A x \in Payers : IsFiniteSet(Taken(p, x))
         /\ \A q \in Batch(p) : /\ payments[q].val \in Payment /\ payments[q].val # None
                                /\ payments[q].val.status = "AUTHORIZED"
                                /\ payments[q].val.payer \in Payers
                                /\ payments[q].val.amount \in Int /\ payments[q].val.expiresAt \in Int
<1>1. ASSUME NEW q \in Batch(p)
      PROVE  /\ payments[q].val \in Payment /\ payments[q].val # None
             /\ payments[q].val.status = "AUTHORIZED" /\ q \in Known
  <2>1. q \in PaymentIDs /\ payments[q].lock = p /\ p # None
    BY NoneAssumption DEF Batch
  <2>2. payments[q].val # None /\ payments[q].val.status = "AUTHORIZED"
    BY <2>1 DEF BookInv, PaymentRow
  <2>3. payments[q].val \in Payment \cup {None} /\ payments[q].new # None
    BY <2>1, <2>2 DEF CallInv, TypeOK, RowOf, RowInserted
  <2> QED BY <2>1, <2>2, <2>3 DEF Known
<1>2. IsFiniteSet(Batch(p))
  <2>1. Batch(p) \subseteq Known /\ IsFiniteSet(Known)
    BY <1>1 DEF EffectInv
  <2> QED BY <2>1, FS_Subset
<1>3. ASSUME NEW x \in Payers PROVE IsFiniteSet(Taken(p, x))
  <2>1. Taken(p, x) \subseteq Batch(p)
    BY DEF Taken
  <2> QED BY <1>2, <2>1, FS_Subset
<1> QED BY <1>1, <1>2, <1>3 DEF Payment

\* What the other calls have done stays what it was.
LEMMA OthersSame ==
  ASSUME CallInv, CallInv', BookInv, EffectInv, NEW p, LeavesOthers(p), NEW r \in Procs \ {p}
  PROVE  /\ AuthorizeTerms(r)' /\ CaptureTerms(r)' /\ ExpireTerms(r)' /\ PayerHeld(r)'
         /\ \A q \in PaymentIDs : payments'[q].lock = r => PaymentWritten(q)'
         /\ \A x \in Payers : payers'[x].lock = r => PayerMoved(x)'
<1>0. /\ r # None /\ pc'[r] = pc[r] /\ loc'[r] = loc[r] /\ now \in Nat /\ now' \in Nat /\ now <= now'
      /\ \A q \in PaymentIDs : payments[q].lock = r \/ payments'[q].lock = r => payments'[q] = payments[q]
      /\ \A x \in Payers : payers[x].lock = r \/ payers'[x].lock = r => payers'[x] = payers[x]
      /\ AuthorizeTerms(r) /\ CaptureTerms(r) /\ ExpireTerms(r) /\ PayerHeld(r)
      /\ LocalsSet(r) /\ BatchLocked(r)
  BY NoneAssumption DEF EffectInv, LeavesOthers, CallInv
<1>1. AuthorizeTerms(r)'
  BY <1>0 DEF AuthorizeTerms
<1>2. CaptureTerms(r)'
  <2> SUFFICES ASSUME loc[r].op = "capture" PROVE CaptureTerms(r)'
    BY <1>0 DEF CaptureTerms
  <2> DEFINE a == payments[loc[r].payment].val
             b == payments'[loc[r].payment].val
  <2>1. loc[r].payment \in PaymentIDs /\ a # None /\ b # None /\ SameTerms(b, a) /\ a \in Payment /\ b \in Payment
    <3>1. loc[r].payment \in PaymentIDs /\ a # None
      BY <1>0 DEF CaptureTerms
    <3>2. a \in Payment \cup {None} /\ b \in Payment \cup {None}
      BY <3>1 DEF CallInv, TypeOK, RowOf
    <3> QED BY <3>1, <3>2 DEF LeavesOthers
  <2>2. \A t : Capture(a, t) = Capture(b, t)
    BY <2>1, CaptureOfTerms DEF SameTerms
  <2>3. /\ loc[r].payer = a.payer /\ loc[r].amount = a.amount /\ SameTerms(loc[r].pay, a)
        /\ pc[r] \notin {"get_hold", "get_payer"} =>
             \E t \in 0..now : t <= a.expiresAt /\ loc[r].pay = Capture(a, t)
    BY <1>0 DEF CaptureTerms
  <2>4. /\ loc[r].payer = b.payer /\ loc[r].amount = b.amount /\ SameTerms(loc[r].pay, b)
    BY <2>1, <2>3 DEF SameTerms
  <2>5. pc[r] \notin {"get_hold", "get_payer"} =>
             \E t \in 0..now' : t <= b.expiresAt /\ loc[r].pay = Capture(b, t)
    <3> SUFFICES ASSUME pc[r] \notin {"get_hold", "get_payer"}
                 PROVE  \E t \in 0..now' : t <= b.expiresAt /\ loc[r].pay = Capture(b, t)
      OBVIOUS
    <3>1. PICK t \in 0..now : t <= a.expiresAt /\ loc[r].pay = Capture(a, t)
      BY <2>3
    <3>2. a.expiresAt = b.expiresAt /\ t \in 0..now'
      BY <1>0, <2>1 DEF SameTerms
    <3> QED BY <2>2, <3>1, <3>2
  <2> QED BY <1>0, <2>1, <2>4, <2>5 DEF CaptureTerms
<1>3. /\ Batch(r)' = Batch(r)
      /\ \A q \in Batch(r) : payments'[q] = payments[q]
      /\ \A q \in PaymentIDs : Ahead(r, q)' <=> Ahead(r, q)
  BY <1>0 DEF Batch, Ahead
<1>4. ExpireTerms(r)'
  <2> SUFFICES ASSUME loc[r].op = "expire" PROVE ExpireTerms(r)'
    BY <1>0 DEF ExpireTerms
  <2>1. /\ Batch(r) # {} /\ Cardinality(Batch(r)) <= ExpiryLimit
        /\ \A q \in Batch(r) : payments[q].val.expiresAt <= now
    BY <1>0 DEF ExpireTerms
  <2>2. ASSUME NEW q \in Batch(r) PROVE payments'[q].val.expiresAt <= now'
    <3>1. payments[q].val.expiresAt <= now /\ payments[q].val.expiresAt \in Int
      BY <2>1, BatchRows
    <3> QED BY <1>0, <1>3, <3>1
  <2>3. ASSUME pc[r] \in Before
        PROVE  LET read == payments'[loc[r].payment].val IN
               /\ loc[r].payer = read.payer /\ loc[r].amount = read.amount
               /\ loc[r].pay = IF pc[r] = "get_payer" THEN read ELSE Expire(read)
    <3>1. loc[r].payment \in Batch(r)
      <4>1. loc[r].payment \in PaymentIDs
        BY <1>0, <2>3 DEF LocalsSet, Before, Reading, Owing
      <4> QED BY <1>0, <2>3, <4>1 DEF BookInv, Course, Ahead, Batch
    <3> QED BY <1>0, <1>3, <2>3, <3>1 DEF ExpireTerms
  <2> QED BY <1>0, <1>3, <2>1, <2>2, <2>3 DEF ExpireTerms
<1>5. /\ \A x \in Payers : Taken(r, x)' = Taken(r, x)
      /\ \A x \in Payers : TakenTotal(r, x)' = TakenTotal(r, x)
  <2>1. ASSUME NEW x PROVE Taken(r, x)' = Taken(r, x)
    BY <1>0, <1>3 DEF Taken, Batch
  <2>2. ASSUME NEW x PROVE TakenTotal(r, x)' = TakenTotal(r, x)
    <3>1. \A q \in Taken(r, x) : payments'[q] = payments[q]
      BY <1>3 DEF Taken
    <3> QED BY <2>1, <3>1 DEF TakenTotal
  <2> QED BY <2>1, <2>2
<1>6. PayerHeld(r)'
  <2>1. CASE loc[r].op = "expire"
    BY <1>0, <1>5, <2>1 DEF PayerHeld
  <2>2. CASE loc[r].op # "expire"
    <3>1. pc[r] \in Owing \cup {"commit"} => loc[r].payer \in Payers
      <4>1. pc[r] \in Owing \cup {"commit"} => loc[r].op \in {"authorize", "capture"}
        BY <1>0, <2>2 DEF LocalsSet, Owing, Operations
      <4>2. CASE loc[r].op = "capture"
        <5>1. payments[loc[r].payment].val \in Payment
          BY <1>0, <4>2 DEF CaptureTerms, CallInv, TypeOK, RowOf
        <5> QED BY <1>0, <4>2, <5>1 DEF CaptureTerms, Payment
      <4> QED BY <1>0, <4>1, <4>2 DEF AuthorizeTerms
    <3>2. pc[r] = "commit" => loc[r].payment \in PaymentIDs
      BY <1>0, <2>2 DEF LocalsSet, Operations, CaptureTerms, CallInv, IdFresh
    <3> QED BY <1>0, <2>2, <3>1, <3>2 DEF PayerHeld
  <2> QED BY <2>1, <2>2
<1>7. ASSUME NEW q \in PaymentIDs, payments'[q].lock = r PROVE PaymentWritten(q)'
  <2>1. PaymentWritten(q) /\ payments'[q] = payments[q]
    BY <1>0, <1>7 DEF EffectInv
  <2> QED BY <1>0, <1>3, <1>7, <2>1 DEF PaymentWritten
<1>8. ASSUME NEW x \in Payers, payers'[x].lock = r PROVE PayerMoved(x)'
  <2>1. PayerMoved(x) /\ payers'[x] = payers[x]
    BY <1>0, <1>8 DEF EffectInv
  <2> QED BY <1>0, <1>5, <1>8, <2>1 DEF PayerMoved
<1> QED BY <1>1, <1>2, <1>4, <1>6, <1>7, <1>8

\* A step leaves the effects of all calls as they should be if it does so
\* for the call that takes it.
LEMMA EffectBy ==
  ASSUME CallInv, CallInv', BookInv, EffectInv, NEW p \in Procs, LeavesOthers(p),
         IsFiniteSet(Known)', AuthorizeTerms(p)', CaptureTerms(p)', ExpireTerms(p)', PayerHeld(p)',
         \A q \in PaymentIDs : payments'[q].lock = p => PaymentWritten(q)',
         \A x \in Payers : payers'[x].lock = p => PayerMoved(x)'
  PROVE  EffectInv'
<1>1. \A r \in Procs \ {p} : /\ AuthorizeTerms(r)' /\ CaptureTerms(r)' /\ ExpireTerms(r)' /\ PayerHeld(r)'
                             /\ \A q \in PaymentIDs : payments'[q].lock = r => PaymentWritten(q)'
                             /\ \A x \in Payers : payers'[x].lock = r => PayerMoved(x)'
  BY OthersSame
<1>2. ASSUME NEW q \in PaymentIDs PROVE PaymentWritten(q)'
  <2>1. payments'[q].lock \in Procs \cup {None}
    BY DEF CallInv, TypeOK, RowOf
  <2>2. payments'[q].lock = None => PaymentWritten(q)'
    BY DEF PaymentWritten
  <2> QED BY <1>1, <2>1, <2>2
<1>3. ASSUME NEW x \in Payers PROVE PayerMoved(x)'
  <2>1. payers'[x].lock \in Procs \cup {None}
    BY DEF CallInv, TypeOK, RowOf
  <2>2. payers'[x].lock = None => PayerMoved(x)'
    BY DEF PayerMoved
  <2> QED BY <1>1, <2>1, <2>2
<1>4. now' \in Nat
  BY DEF LeavesOthers
<1> QED BY <1>1, <1>2, <1>3, <1>4 DEF EffectInv

\* A call that ends, with its locks released, has nothing left to answer for.
LEMMA EffectEnd ==
  ASSUME CallInv, CallInv', BookInv, EffectInv, NEW p \in Procs, LeavesOthers(p),
         Known' \subseteq Known, pc'[p] = "idle", loc'[p] = NoCall,
         \A q \in PaymentIDs : payments'[q].lock # p, \A x \in Payers : payers'[x].lock # p
  PROVE  EffectInv'
<1>1. loc'[p].op = None /\ None \notin Operations
  BY NoneAssumption DEF NoCall, Call
<1>2. IsFiniteSet(Known)'
  BY FS_Subset DEF EffectInv
<1>3. AuthorizeTerms(p)' /\ CaptureTerms(p)' /\ ExpireTerms(p)' /\ PayerHeld(p)'
  BY <1>1 DEF AuthorizeTerms, CaptureTerms, ExpireTerms, PayerHeld, Operations, Owing
<1> QED BY <1>2, <1>3, EffectBy

\* A step that leaves the tables and every other call alone.
LEMMA LeavesTables ==
  ASSUME TypeOK, EffectInv, NEW p, UNCHANGED <<payers, payments, now>>,
         \A r \in Procs \ {p} : pc'[r] = pc[r] /\ loc'[r] = loc[r]
  PROVE  LeavesOthers(p) /\ Known' = Known
BY DEF LeavesOthers, SameTerms, EffectInv, Known

\* A call that is not an expiry run has no payer locked before it updates one.
LEMMA NoPayerLocks ==
  ASSUME EffectInv, NEW p \in Procs, loc[p].op # "expire", pc[p] \notin Owing \cup {"commit"}
  PROVE  \A x \in Payers : payers[x].lock # p
BY NoneAssumption DEF EffectInv, PayerMoved

LEMMA EffectRollback ==
  ASSUME CallInv, CallInv', BookInv, EffectInv, NEW p \in Procs, Rollback(p)
  PROVE  EffectInv'
<1>0. TypeOK /\ p # None /\ now \in Nat
  BY NoneAssumption DEF CallInv, EffectInv
<1>1. /\ \A q \in PaymentIDs : payments'[q] = RolledBack(payments[q], p)
      /\ \A x \in Payers : payers'[x] = RolledBack(payers[x], p)
      /\ pc'[p] = "idle" /\ loc'[p] = NoCall /\ now' = now
      /\ \A r \in Procs \ {p} : pc'[r] = pc[r] /\ loc'[r] = loc[r]
  BY <1>0 DEF Rollback, RollbackTables, EndCall, TypeOK
<1>2. /\ \A q \in PaymentIDs : /\ payments'[q].lock # p /\ payments'[q].val = payments[q].val
                               /\ payments'[q].new = IF payments[q].lock = p THEN payments[q].val ELSE payments[q].new
                               /\ payments[q].lock # p => payments'[q] = payments[q]
                               /\ payments[q].lock = p => payments'[q].lock = None
      /\ \A x \in Payers : /\ payers'[x].lock # p /\ (payers[x].lock # p => payers'[x] = payers[x])
                           /\ payers[x].lock = p => payers'[x].lock = None
  BY <1>0, <1>1, RolledBackRow DEF RolledBack
<1>3. LeavesOthers(p)
  BY <1>0, <1>1, <1>2, NoneAssumption DEF LeavesOthers, SameTerms
<1>4. Known' \subseteq Known
  BY <1>2 DEF Known, CallInv, RowInserted
<1> QED BY <1>1, <1>2, <1>3, <1>4, EffectEnd

\* What p commits of a payment keeps its terms.
LEMMA CommitTerms ==
  ASSUME CallInv, BookInv, EffectInv, NEW p \in Procs, pc[p] = "commit",
         NEW q \in PaymentIDs, payments[q].lock = p
  PROVE  /\ loc[p].op \in Operations /\ payments[q].new \in Payment /\ payments[q].new # None
         /\ loc[p].op = "authorize" => q = loc[p].payment /\ payments[q].val = None /\ payments[q].new = loc[p].pay
         /\ loc[p].op = "capture" =>
              /\ q = loc[p].payment /\ payments[q].val \in Payment /\ payments[q].val # None
              /\ \E t \in 0..now : t <= payments[q].val.expiresAt /\ payments[q].new = Capture(payments[q].val, t)
         /\ loc[p].op = "expire" =>
              /\ payments[q].val \in Payment /\ payments[q].val # None
              /\ payments[q].new = Expire(payments[q].val)
         /\ payments[q].val # None => SameTerms(payments[q].new, payments[q].val)
<1>0. /\ p # None /\ loc[p].op \in Operations /\ ~Ahead(p, q) /\ PaymentRow(q) /\ PaymentWritten(q)
      /\ AuthorizeTerms(p) /\ CaptureTerms(p) /\ IdFresh(p)
      /\ payments[q].val \in Payment \cup {None} /\ payments[q].new \in Payment \cup {None}
  BY NoneAssumption, CommitWhole DEF CallInv, LocalsSet, BookInv, EffectInv, TypeOK, RowOf
<1>1. payments[q].new \in Payment /\ payments[q].new # None
  BY <1>0 DEF PaymentRow, Rewritten
<1>2. CASE loc[p].op = "authorize"
  <2>1. q = loc[p].payment /\ payments[q].val = None /\ payments[q].new = loc[p].pay
    BY <1>0, <1>2 DEF PaymentRow, PaymentWritten, IdFresh
  <2> QED BY <1>0, <1>1, <1>2, <2>1
<1>3. CASE loc[p].op = "capture"
  <2>1. q = loc[p].payment /\ payments[q].new = loc[p].pay
    BY <1>0, <1>3 DEF PaymentRow, PaymentWritten
  <2>2. payments[q].val \in Payment /\ payments[q].val # None /\ SameTerms(payments[q].new, payments[q].val)
    BY <1>0, <1>3, <2>1 DEF CaptureTerms
  <2>3. \E t \in 0..now : t <= payments[q].val.expiresAt /\ payments[q].new = Capture(payments[q].val, t)
    BY <1>0, <1>3, <2>1 DEF CaptureTerms
  <2> QED BY <1>0, <1>1, <1>3, <2>1, <2>2, <2>3
<1>4. CASE loc[p].op = "expire"
  <2>1. payments[q].val # None /\ payments[q].new = Expire(payments[q].val)
    BY <1>0, <1>4 DEF PaymentRow, PaymentWritten
  <2>2. SameTerms(payments[q].new, payments[q].val)
    BY <1>0, <2>1 DEF SameTerms, Expire, Payment
  <2> QED BY <1>0, <1>1, <1>4, <2>1, <2>2
<1> QED BY <1>0, <1>2, <1>3, <1>4 DEF Operations

LEMMA EffectCommit ==
  ASSUME CallInv, CallInv', BookInv, EffectInv, NEW p \in Procs, Commit(p)
  PROVE  EffectInv'
<1>0. TypeOK /\ p # None /\ now \in Nat /\ pc[p] = "commit"
  BY NoneAssumption DEF CallInv, EffectInv, Commit
<1>1. /\ \A q \in PaymentIDs : payments'[q] = Committed(payments[q], p)
      /\ \A x \in Payers : payers'[x] = Committed(payers[x], p)
      /\ pc'[p] = "idle" /\ loc'[p] = NoCall /\ now' = now
      /\ \A r \in Procs \ {p} : pc'[r] = pc[r] /\ loc'[r] = loc[r]
  BY <1>0 DEF Commit, CommitTables, EndCall, TypeOK
<1>2. /\ \A q \in PaymentIDs : IF payments[q].lock = p
                               THEN /\ payments'[q].lock = None /\ payments'[q].val = payments[q].new
                                    /\ payments'[q].new = payments[q].new
                               ELSE payments'[q] = payments[q]
      /\ \A x \in Payers : IF payers[x].lock = p THEN payers'[x].lock = None ELSE payers'[x] = payers[x]
  <2>1. ASSUME NEW row
        PROVE  IF row.lock = p
               THEN /\ Committed(row, p).lock = None /\ Committed(row, p).val = row.new
                    /\ Committed(row, p).new = row.new
               ELSE Committed(row, p) = row
    BY DEF Committed, Unlocked
  <2> QED BY <1>1, <2>1
<1>3. \A q \in PaymentIDs : payments[q].val # None =>
        payments'[q].val # None /\ SameTerms(payments'[q].val, payments[q].val)
  <2> SUFFICES ASSUME NEW q \in PaymentIDs, payments[q].val # None
               PROVE  payments'[q].val # None /\ SameTerms(payments'[q].val, payments[q].val)
    OBVIOUS
  <2>1. CASE payments[q].lock = p
    BY <1>0, <1>2, <2>1, CommitTerms
  <2>2. CASE payments[q].lock # p
    BY <1>2, <2>2 DEF SameTerms
  <2> QED BY <2>1, <2>2
<1>4. LeavesOthers(p)
  BY <1>0, <1>1, <1>2, <1>3, NoneAssumption DEF LeavesOthers
<1>5. Known' \subseteq Known
  BY <1>2 DEF Known
<1> QED BY <1>0, <1>1, <1>2, <1>4, <1>5, EffectEnd

\* A call that starts has moved no funds, and an expiry run has all of its batch ahead.
LEMMA EffectStart ==
  ASSUME CallInv, CallInv', BookInv, EffectInv, NEW p \in Procs, Start(p)
  PROVE  EffectInv'
<1>0. /\ TypeOK /\ p # None /\ now \in Nat /\ pc[p] = "idle" /\ loc[p].op = None
  BY NoneAssumption DEF CallInv, EffectInv, Start, StartAuthorize, StartCapture, StartExpire, LocalsSet, NoCall, Call
<1>1. /\ \A q \in PaymentIDs : payments[q].lock # p
      /\ \A x \in Payers : payers[x].lock # p
  BY <1>0, NoLocks, NoPayerLocks, NoneAssumption DEF Operations, Owing
<1>2. ASSUME NEW m \in Merchants, NEW x \in Payers, NEW a \in Amounts, NEW q \in PaymentIDs,
             StartAuthorize(p, m, x, a, q)
      PROVE  EffectInv'
  <2>1. /\ UNCHANGED <<payers, payments, now>> /\ pc'[p] = "get_payer"
        /\ loc'[p] = Call("authorize", q, x, a, None, {})
        /\ \A r \in Procs \ {p} : pc'[r] = pc[r] /\ loc'[r] = loc[r]
    BY <1>0, <1>2 DEF StartAuthorize, GoTo, tables, TypeOK
  <2>2. AuthorizeTerms(p)' /\ CaptureTerms(p)' /\ ExpireTerms(p)' /\ PayerHeld(p)'
    BY <2>1 DEF AuthorizeTerms, CaptureTerms, ExpireTerms, PayerHeld, Call, Owing
  <2>3. LeavesOthers(p) /\ IsFiniteSet(Known)'
    BY <1>0, <2>1, LeavesTables DEF EffectInv
  <2> QED BY <1>1, <2>1, <2>2, <2>3, EffectBy
<1>3. ASSUME NEW q \in PaymentIDs, StartCapture(p, q) PROVE EffectInv'
  <2>1. /\ UNCHANGED <<payers, payments, now>> /\ pc'[p] = "get_hold" /\ payments[q].val # None
        /\ loc'[p] = Call("capture", q, payments[q].val.payer, payments[q].val.amount, payments[q].val, {})
        /\ \A r \in Procs \ {p} : pc'[r] = pc[r] /\ loc'[r] = loc[r]
    BY <1>0, <1>3 DEF StartCapture, GoTo, tables, TypeOK
  <2>2. AuthorizeTerms(p)' /\ CaptureTerms(p)' /\ ExpireTerms(p)' /\ PayerHeld(p)'
    BY <2>1 DEF AuthorizeTerms, CaptureTerms, ExpireTerms, PayerHeld, Call, Owing, SameTerms
  <2>3. LeavesOthers(p) /\ IsFiniteSet(Known)'
    BY <1>0, <2>1, LeavesTables DEF EffectInv
  <2> QED BY <1>1, <2>1, <2>2, <2>3, EffectBy
<1>4. ASSUME StartExpire(p) PROVE EffectInv'
  <2> PICK batch \in EarliestOf(Expirable, ExpiryLimit) :
           /\ LockPayments(p, batch)
           /\ loc' = [loc EXCEPT ![p] = Call("expire", None, None, 0, None, batch)]
    BY <1>4 DEF StartExpire
  <2>1. /\ pc'[p] = "get_hold" /\ loc'[p] = Call("expire", None, None, 0, None, batch)
        /\ \A r \in Procs \ {p} : pc'[r] = pc[r] /\ loc'[r] = loc[r]
        /\ UNCHANGED <<payers, now>>
    BY <1>0, <1>4 DEF StartExpire, GoTo, TypeOK
  <2>2. ASSUME NEW q \in PaymentIDs
        PROVE  IF q \in batch
               THEN /\ payments[q].lock = None /\ payments[q].val # None /\ payments[q].new # None
                    /\ payments[q].val.expiresAt <= now
                    /\ payments'[q].val = payments[q].val /\ payments'[q].lock = p
                    /\ payments'[q].new = payments[q].val
               ELSE payments'[q] = payments[q]
    BY WrittenRow DEF LockPayments, Expirable, EarliestOf, CallInv, RowInserted
  <2>3. LeavesOthers(p) /\ Known' = Known
    <3>1. Known' = Known
      BY <2>2 DEF Known
    <3> QED BY <1>0, <2>1, <2>2, <3>1, NoneAssumption DEF LeavesOthers, SameTerms
  <2>4. Batch(p)' = batch /\ \A q \in PaymentIDs : q \in batch => Ahead(p, q)'
    <3>1. batch \subseteq PaymentIDs
      BY DEF EarliestOf, Expirable
    <3> QED BY <1>1, <2>1, <2>2, <3>1 DEF Batch, Ahead, Call
  <2>5. batch # {} /\ Cardinality(batch) <= ExpiryLimit
    <3>1. batch # {} /\ (Cardinality(batch) = ExpiryLimit \/ Cardinality(batch) < ExpiryLimit)
      BY DEF EarliestOf
    <3>2. IsFiniteSet(batch)
      <4>1. batch \subseteq Known /\ IsFiniteSet(Known)
        BY <2>2 DEF Known, EarliestOf, Expirable, EffectInv
      <4> QED BY <4>1, FS_Subset
    <3>3. Cardinality(batch) \in Nat
      BY <3>2, FS_CardinalityType
    <3> QED BY <3>1, <3>3, ConstantsAssumption
  <2>6. ExpireTerms(p)' /\ AuthorizeTerms(p)' /\ CaptureTerms(p)'
    BY <2>1, <2>2, <2>4, <2>5 DEF ExpireTerms, AuthorizeTerms, CaptureTerms, Call, Before, EarliestOf, Expirable
  <2>7. PayerHeld(p)'
    BY <2>1, <2>4 DEF PayerHeld, Taken, Call, Batch
  <2>8. \A q \in PaymentIDs : payments'[q].lock = p => PaymentWritten(q)'
    BY <1>1, <2>2, <2>4 DEF PaymentWritten
  <2> QED BY <1>1, <2>1, <2>3, <2>6, <2>7, <2>8, EffectBy DEF EffectInv
<1> QED BY <1>2, <1>3, <1>4 DEF Start

\* What an expiry run has taken, and what it has written, stay as they are
\* while it gets no further with the payments it has locked.
LEMMA TakenSame ==
  ASSUME CallInv, EffectInv, NEW p \in Procs, UNCHANGED <<payers, payments>>, loc'[p].op = loc[p].op,
         \A q \in PaymentIDs : Ahead(p, q)' <=> Ahead(p, q),
         \A q \in PaymentIDs : /\ loc'[p].payment = q /\ pc'[p] \in {"update_hold", "update_payment"}
                               <=> loc[p].payment = q /\ pc[p] \in {"update_hold", "update_payment"}
  PROVE  /\ Batch(p)' = Batch(p)
         /\ \A x \in Payers : Taken(p, x)' = Taken(p, x) /\ TakenTotal(p, x)' = TakenTotal(p, x)
         /\ loc[p].op = "expire" => /\ PayerHeld(p)'
                                    /\ \A q \in PaymentIDs : payments'[q].lock = p => PaymentWritten(q)'
                                    /\ \A x \in Payers : payers'[x].lock = p => PayerMoved(x)'
<1>1. Batch(p)' = Batch(p)
  BY DEF Batch
<1>2. ASSUME NEW x \in Payers PROVE Taken(p, x)' = Taken(p, x)
  BY <1>1 DEF Taken, Batch
<1>3. ASSUME NEW x \in Payers PROVE TakenTotal(p, x)' = TakenTotal(p, x)
  BY <1>2 DEF TakenTotal
<1>4. ASSUME loc[p].op = "expire" PROVE PayerHeld(p)'
  BY <1>2, <1>4 DEF EffectInv, PayerHeld
<1>5. ASSUME NEW q \in PaymentIDs, loc[p].op = "expire", payments'[q].lock = p PROVE PaymentWritten(q)'
  BY <1>5 DEF EffectInv, PaymentWritten
<1>6. ASSUME NEW x \in Payers, loc[p].op = "expire", payers'[x].lock = p PROVE PayerMoved(x)'
  <2>1. PayerMoved(x)
    BY DEF EffectInv
  <2> QED BY <1>2, <1>3, <1>6, <2>1 DEF PayerMoved
<1> QED BY <1>1, <1>2, <1>3, <1>4, <1>5, <1>6

LEMMA EffectGetHold ==
  ASSUME CallInv, CallInv', BookInv, EffectInv, NEW p \in Procs, GetHold(p)
  PROVE  EffectInv'
<1>0. TypeOK /\ p # None /\ pc[p] = "get_hold" /\ Course(p) /\ loc[p] \in Local
  BY NoneAssumption DEF CallInv, BookInv, GetHold, TypeOK
<1>1. /\ UNCHANGED <<payers, payments, now>> /\ pc'[p] = "get_payer"
      /\ \A r \in Procs \ {p} : pc'[r] = pc[r] /\ loc'[r] = loc[r]
  BY <1>0 DEF GetHold, GoTo, tables, TypeOK
<1>2. LeavesOthers(p) /\ IsFiniteSet(Known)'
  BY <1>0, <1>1, LeavesTables DEF EffectInv
<1>3. CASE loc[p].op = "capture" /\ loc' = [loc EXCEPT ![p] = [loc[p] EXCEPT !.hold = Seen(holds[loc[p].payment], p)]]
  <2>1. /\ loc'[p].op = "capture" /\ loc'[p].payment = loc[p].payment /\ loc'[p].payer = loc[p].payer
        /\ loc'[p].amount = loc[p].amount /\ loc'[p].pay = loc[p].pay
    BY <1>0, <1>3 DEF TypeOK, Local
  <2>2. CaptureTerms(p)' /\ AuthorizeTerms(p)' /\ ExpireTerms(p)' /\ PayerHeld(p)'
    BY <1>0, <1>1, <1>3, <2>1 DEF EffectInv, CaptureTerms, AuthorizeTerms, ExpireTerms, PayerHeld, Owing
  <2>3. /\ \A q \in PaymentIDs : payments[q].lock # p
        /\ \A x \in Payers : payers[x].lock # p
    BY <1>0, <1>3, NoLocks, NoPayerLocks DEF Owing
  <2> QED BY <1>1, <1>2, <2>2, <2>3, EffectBy
<1>4. CASE loc[p].op = "expire" /\ \E q \in loc[p].todo : LET pay == Seen(payments[q], p) IN
              loc' = [loc EXCEPT ![p] =
                           [Call("expire", q, pay.payer, pay.amount, pay, loc[p].todo \ {q})
                              EXCEPT !.hold = Seen(holds[q], p)]]
  <2> PICK q \in loc[p].todo : LET pay == Seen(payments[q], p) IN
              loc' = [loc EXCEPT ![p] =
                           [Call("expire", q, pay.payer, pay.amount, pay, loc[p].todo \ {q})
                              EXCEPT !.hold = Seen(holds[q], p)]]
    BY <1>4
  <2>0. q \in PaymentIDs /\ Ahead(p, q)
    BY <1>0 DEF Local, Ahead
  <2>1. payments[q].lock = p /\ payments[q].new = payments[q].val
    BY <1>0, <1>4, <2>0 DEF Course, BookInv, PaymentRow
  <2>2. /\ loc'[p].op = "expire" /\ loc'[p].payment = q /\ loc'[p].todo = loc[p].todo \ {q}
        /\ loc'[p].payer = payments[q].val.payer /\ loc'[p].amount = payments[q].val.amount
        /\ loc'[p].pay = payments[q].val
    BY <1>0, <2>1 DEF TypeOK, Call, Seen
  <2>3. \A s \in PaymentIDs : Ahead(p, s)' <=> Ahead(p, s)
    BY <1>0, <1>1, <2>2 DEF Ahead, Before
  <2>4. /\ Batch(p)' = Batch(p) /\ PayerHeld(p)'
        /\ \A s \in PaymentIDs : payments'[s].lock = p => PaymentWritten(s)'
        /\ \A x \in Payers : payers'[x].lock = p => PayerMoved(x)'
    BY <1>0, <1>1, <1>4, <2>2, <2>3, TakenSame
  <2>5. ExpireTerms(p)' /\ AuthorizeTerms(p)' /\ CaptureTerms(p)'
    BY <1>1, <1>4, <2>2, <2>4 DEF EffectInv, ExpireTerms, AuthorizeTerms, CaptureTerms
  <2> QED BY <1>2, <2>4, <2>5, EffectBy
<1> QED BY <1>3, <1>4 DEF GetHold

\* What the service decides on a payer and a payment, it decides on the
\* terms of the payment as committed.
LEMMA EffectGetPayer ==
  ASSUME CallInv, CallInv', BookInv, EffectInv, NEW p \in Procs, GetPayer(p)
  PROVE  EffectInv'
<1> DEFINE x0 == Seen(payers[loc[p].payer], p)
<1>1. CASE ~Admits(p, x0)
  BY <1>1, EffectRollback DEF GetPayer
<1>2. CASE Admits(p, x0)
  <2>0. /\ TypeOK /\ p # None /\ pc[p] = "get_payer" /\ Course(p) /\ loc[p] \in Local /\ LocalsSet(p)
        /\ now \in Nat
    BY NoneAssumption DEF CallInv, BookInv, EffectInv, GetPayer, TypeOK
  <2>1. /\ UNCHANGED <<payers, payments, now>> /\ pc'[p] = "update_payer"
        /\ \A r \in Procs \ {p} : pc'[r] = pc[r] /\ loc'[r] = loc[r]
        /\ loc'[p] = [loc[p] EXCEPT !.acct = Charged(loc[p].op, x0, loc[p].amount), !.pay = Advanced(p)]
    BY <1>2, <2>0 DEF GetPayer, GoTo, tables, TypeOK
  <2>2. /\ loc'[p].op = loc[p].op /\ loc'[p].payment = loc[p].payment /\ loc'[p].todo = loc[p].todo
        /\ loc'[p].payer = loc[p].payer /\ loc'[p].amount = loc[p].amount
        /\ loc'[p].pay = Advanced(p)
    BY <2>0, <2>1 DEF Local
  <2>3. LeavesOthers(p) /\ IsFiniteSet(Known)'
    BY <2>0, <2>1, LeavesTables DEF EffectInv
  <2>4. loc[p].op \in Operations /\ AuthorizeTerms(p) /\ CaptureTerms(p) /\ ExpireTerms(p)
    BY <2>0 DEF LocalsSet, EffectInv
  <2>5. ASSUME loc[p].op # "expire"
        PROVE  /\ PayerHeld(p)' /\ ExpireTerms(p)'
               /\ \A q \in PaymentIDs : payments[q].lock # p
               /\ \A x \in Payers : payers[x].lock # p
    BY <2>0, <2>1, <2>2, <2>5, NoLocks, NoPayerLocks DEF Owing, PayerHeld, ExpireTerms
  <2>6. CASE loc[p].op = "authorize"
    <3>1. loc[p].amount > 0
      BY <1>2, <2>6 DEF Admits, CanAuthorize
    <3>2. Advanced(p) = NewAuthorizedPayment(loc[p].payer, loc[p].amount, now) /\ now \in 0..now
      BY <2>0, <2>6 DEF Advanced
    <3>3. AuthorizeTerms(p)' /\ CaptureTerms(p)'
      BY <2>1, <2>2, <2>4, <2>6, <3>1, <3>2 DEF AuthorizeTerms, CaptureTerms
    <3> QED BY <2>1, <2>3, <2>5, <2>6, <3>3, EffectBy
  <2>7. CASE loc[p].op = "capture"
    <3> DEFINE read == payments[loc[p].payment].val
    <3>1. /\ loc[p].pay.status = "AUTHORIZED" /\ now <= loc[p].pay.expiresAt
          /\ Advanced(p) = Capture(loc[p].pay, now) /\ loc[p].pay \in Payment
      BY <1>2, <2>0, <2>7 DEF Admits, CanCapture, Advanced, LocalsSet, Reading
    <3>2. read \in Payment /\ SameTerms(loc[p].pay, read)
      <4>1. loc[p].payment \in PaymentIDs /\ read # None /\ SameTerms(loc[p].pay, read)
        BY <2>4, <2>7 DEF CaptureTerms
      <4> QED BY <2>0, <4>1 DEF TypeOK, RowOf
    <3>3. Advanced(p) = Capture(read, now) /\ now <= read.expiresAt /\ SameTerms(Advanced(p), read)
      <4>1. Capture(loc[p].pay, now) = Capture(read, now)
        BY <3>1, <3>2, CaptureOfTerms
      <4>2. SameTerms(Capture(read, now), read)
        BY <3>2 DEF Capture, SameTerms, Payment
      <4> QED BY <3>1, <3>2, <4>1, <4>2 DEF SameTerms
    <3>4. CaptureTerms(p)' /\ AuthorizeTerms(p)'
      <4>1. now \in 0..now'
        BY <2>0, <2>1
      <4> QED BY <2>1, <2>2, <2>4, <2>7, <3>3, <4>1 DEF AuthorizeTerms, CaptureTerms
    <3> QED BY <2>1, <2>3, <2>5, <2>7, <3>4, EffectBy
  <2>8. CASE loc[p].op = "expire"
    <3>1. \A s \in PaymentIDs : Ahead(p, s)' <=> Ahead(p, s)
      BY <2>0, <2>1, <2>2 DEF Ahead, Before
    <3>2. /\ Batch(p)' = Batch(p) /\ PayerHeld(p)'
          /\ \A s \in PaymentIDs : payments'[s].lock = p => PaymentWritten(s)'
          /\ \A x \in Payers : payers'[x].lock = p => PayerMoved(x)'
      BY <2>0, <2>1, <2>2, <2>8, <3>1, TakenSame
    <3>3. Advanced(p) = Expire(loc[p].pay)
      BY <2>8 DEF Advanced
    <3>4. ExpireTerms(p)' /\ AuthorizeTerms(p)' /\ CaptureTerms(p)'
      BY <2>0, <2>1, <2>2, <2>4, <2>8, <3>2, <3>3 DEF ExpireTerms, AuthorizeTerms, CaptureTerms, Before
    <3> QED BY <2>3, <3>2, <3>4, EffectBy
  <2> QED BY <2>4, <2>6, <2>7, <2>8 DEF Operations
<1> QED BY <1>1, <1>2

\* What Release adds to the balances, on top of what the run has moved before.
LEMMA MovedOnce ==
  ASSUME NEW r \in Payer, NEW total \in Int, NEW n \in Int, NEW amount \in Int
  PROVE  /\ Release(Abstract!Moved(r, total, -total, n), amount)
              = Abstract!Moved(r, total + amount, -(total + amount), n + 1)
         /\ Release(r, amount) = Abstract!Moved(r, amount, -amount, 1)
         /\ CaptureHeld(r, amount) = Abstract!Moved(r, 0, -amount, 1)
         /\ Reserve(r, amount) = Abstract!Moved(r, -amount, amount, 1)
<1>1. r.available \in Int /\ r.held \in Int /\ r.version \in Int
  BY DEF Payer
<1> QED BY <1>1 DEF Release, Reserve, CaptureHeld, Abstract!Moved

\* The payer of the payment an expiry run is at has been given its amount.
LEMMA TakenMore ==
  ASSUME CallInv, BookInv, EffectInv, NEW p \in Procs, loc[p].op = "expire", pc[p] = "update_payer",
         UNCHANGED <<payments, loc>>, pc'[p] = "update_hold"
  PROVE  /\ loc[p].payment \in Batch(p) /\ loc[p].payer = payments[loc[p].payment].val.payer
         /\ loc[p].amount = payments[loc[p].payment].val.amount
         /\ \A x \in Payers : x # loc[p].payer =>
              Taken(p, x)' = Taken(p, x) /\ TakenTotal(p, x)' = TakenTotal(p, x)
         /\ LET x == loc[p].payer IN
            /\ Taken(p, x)' # {}
            /\ TakenTotal(p, x) \in Int /\ TakenTotal(p, x)' = TakenTotal(p, x) + loc[p].amount
            /\ Cardinality(Taken(p, x)) \in Int
            /\ Cardinality(Taken(p, x)') = Cardinality(Taken(p, x)) + 1
            /\ Taken(p, x) = {} => TakenTotal(p, x) = 0 /\ Cardinality(Taken(p, x)) = 0
<1> DEFINE q == loc[p].payment
           x == loc[p].payer
<1>0. /\ q \in PaymentIDs /\ x \in Payers /\ Course(p) /\ ExpireTerms(p) /\ Ahead(p, q)
  <2>1. q \in PaymentIDs /\ x \in Payers
    BY DEF CallInv, LocalsSet, Reading
  <2> QED BY <2>1 DEF BookInv, EffectInv, Ahead, Before
<1>1. /\ q \in Batch(p) /\ x = payments[q].val.payer /\ loc[p].amount = payments[q].val.amount
  BY <1>0 DEF Batch, Course, ExpireTerms, Before
<1>2. Batch(p)' = Batch(p) /\ \A s \in PaymentIDs : Ahead(p, s)' <=> Ahead(p, s)
  BY DEF Batch, Ahead, Before
<1>3. ASSUME NEW y \in Payers
      PROVE  Taken(p, y)' = IF y = x THEN Taken(p, y) \cup {q} ELSE Taken(p, y)
  BY <1>0, <1>1, <1>2 DEF Taken, Batch
<1>4. q \notin Taken(p, x)
  BY <1>0 DEF Taken
<1>5. /\ IsFiniteSet(Taken(p, x))
      /\ \A s \in Taken(p, x) \cup {q} : payments[s].val.amount \in Int
  BY <1>0, <1>1, BatchRows DEF Taken
<1> DEFINE f == [s \in PaymentIDs |-> payments[s].val.amount]
           T == Taken(p, x)
<1>6. T \subseteq PaymentIDs /\ \A s \in T \cup {q} : f[s] \in Int
  BY <1>0, <1>5 DEF Taken, Batch
<1>7. TakenTotal(p, x) = SumFunctionOnSet(f, T)
  <2>1. TakenTotal(p, x) = SumFunction([s \in T |-> f[s]])
    BY <1>6 DEF TakenTotal
  <2> HIDE DEF f, T
  <2> QED BY <1>5, <2>1, SumOver DEF T
<1>8. TakenTotal(p, x)' = SumFunctionOnSet(f, T \cup {q})
  <2>1. Taken(p, x)' = T \cup {q} /\ T \cup {q} \subseteq PaymentIDs /\ IsFiniteSet(T \cup {q})
    BY <1>0, <1>3, <1>5, <1>6, FS_AddElement
  <2>2. TakenTotal(p, x)' = SumFunction([s \in T \cup {q} |-> f[s]])
    BY <2>1 DEF TakenTotal
  <2> HIDE DEF f, T
  <2> QED BY <2>1, <2>2, SumOver
<1>9. f[q] = loc[p].amount /\ q \notin T /\ IsFiniteSet(T)
  BY <1>0, <1>1, <1>4, <1>5
<1>10. /\ SumFunctionOnSet(f, T \cup {q}) = SumFunctionOnSet(f, T) + loc[p].amount
       /\ SumFunctionOnSet(f, T) \in Int
  <2>0. \A s \in T \cup {q} : f[s] \in Int
    BY <1>6
  <2> HIDE DEF f, T, q, x
  <2>1. SumFunctionOnSet(f, T \cup {q}) = SumFunctionOnSet(f, T) + f[q]
    BY <1>9, <2>0, SumAdd
  <2>2. SumFunctionOnSet(f, T) \in Int
    BY <1>6, <1>9, SumInt
  <2> QED BY <1>9, <2>1, <2>2 DEF q, x
<1>11. T = {} => SumFunctionOnSet(f, T) = 0 /\ Cardinality(T) = 0
  <2> HIDE DEF f
  <2> QED BY <1>9, SumFirst, FS_EmptySet
<1>12. Taken(p, x)' = T \cup {q} /\ Cardinality(T \cup {q}) = Cardinality(T) + 1 /\ Cardinality(T) \in Int
  <2>1. Taken(p, x)' = T \cup {q}
    BY <1>0, <1>3
  <2> HIDE DEF T
  <2>2. Cardinality(T \cup {q}) = Cardinality(T) + 1
    BY <1>9, FS_AddElement
  <2>3. Cardinality(T) \in Int
    BY <1>9, FS_CardinalityType
  <2> QED BY <2>1, <2>2, <2>3
<1> HIDE DEF f, T
<1>13. \A y \in Payers : y # x => Taken(p, y)' = Taken(p, y) /\ TakenTotal(p, y)' = TakenTotal(p, y)
  <2> SUFFICES ASSUME NEW y \in Payers, y # x
               PROVE  Taken(p, y)' = Taken(p, y) /\ TakenTotal(p, y)' = TakenTotal(p, y)
    OBVIOUS
  <2>1. Taken(p, y)' = Taken(p, y)
    BY <1>3
  <2> QED BY <2>1 DEF TakenTotal
<1> QED BY <1>1, <1>7, <1>8, <1>10, <1>11, <1>12, <1>13 DEF T

\* The balances that are written are the current ones, moved by the amount.
LEMMA EffectUpdatePayer ==
  ASSUME CallInv, CallInv', LedgerInv, BookInv, EffectInv, NEW p \in Procs, UpdatePayer(p)
  PROVE  EffectInv'
<1> PICK x0 \in Payers : x0 = loc[p].payer
  BY DEF CallInv, UpdatePayer, LocalsSet, Reading
<1>0. /\ TypeOK /\ p # None /\ pc[p] = "update_payer" /\ Course(p) /\ loc[p].op \in Operations
      /\ loc[p].acct \in Payer /\ payers[x0].val # None /\ loc[p].amount \in Int
      /\ payers[x0].val \in Payer \cup {None} /\ payers[x0].lock \in {None, p}
  BY NoneAssumption DEF CallInv, BookInv, UpdatePayer, LocalsSet, TypeOK, RowOf, Local, Lockable
<1>1. /\ UNCHANGED <<payments, holds, outbox, loc, now>>
      /\ pc'[p] = IF loc[p].op = "authorize" THEN "insert" ELSE "update_hold"
      /\ \A r \in Procs \ {p} : pc'[r] = pc[r] /\ loc'[r] = loc[r]
      /\ \A x \in Payers : payers'[x] = IF x = x0 THEN Written(payers[x0], p, loc[p].acct) ELSE payers[x]
  BY <1>0 DEF UpdatePayer, GoTo, TypeOK
<1>2. payers'[x0].val = payers[x0].val /\ payers'[x0].lock = p /\ payers'[x0].new = loc[p].acct
  BY <1>1, WrittenRow
<1>3. LeavesOthers(p) /\ IsFiniteSet(Known)'
  <2>1. now \in Nat /\ Known' = Known /\ IsFiniteSet(Known)
    BY <1>1 DEF EffectInv, Known
  <2> QED BY <1>0, <1>1, <1>2, <2>1, NoneAssumption DEF LeavesOthers, SameTerms
<1>4. loc[p].acct = Charged(loc[p].op, Seen(payers[x0], p), loc[p].amount)
  <2>1. Seen(payers[x0], p) \in Payer
    BY <1>0 DEF CallInv, TypeOK, RowOf, Paired, Seen
  <2>2. Seen(payers[x0], p).version = loc[p].acct.version - 1
    BY DEF UpdatePayer, VersionMatches
  <2>3. loc[p].acct.version = Seen(payers[x0], p).version + 1
    BY <1>0, <2>1, <2>2 DEF Payer
  <2> QED BY <1>0, <2>3 DEF LedgerInv, ReadCurrent
<1>5. AuthorizeTerms(p) /\ CaptureTerms(p) /\ ExpireTerms(p) /\ PayerHeld(p)
  BY DEF EffectInv
<1>6. AuthorizeTerms(p)' /\ CaptureTerms(p)'
  BY <1>0, <1>1, <1>5 DEF AuthorizeTerms, CaptureTerms
<1>7. CASE loc[p].op # "expire"
  <2>1. /\ \A q \in PaymentIDs : payments[q].lock # p
        /\ \A x \in Payers : payers[x].lock # p
    BY <1>0, <1>7, NoLocks, NoPayerLocks DEF Owing
  <2>2. PayerHeld(p)' /\ ExpireTerms(p)'
    BY <1>0, <1>1, <1>2, <1>7 DEF PayerHeld, ExpireTerms, Operations
  <2>3. PayerMoved(x0)'
    <3>1. loc[p].acct = Charged(loc[p].op, payers[x0].val, loc[p].amount)
      BY <1>4, <2>1 DEF Seen
    <3> QED BY <1>0, <1>1, <1>2, <1>7, <3>1 DEF PayerMoved, Owing
  <2>4. \A x \in Payers : payers'[x].lock = p => x = x0
    BY <1>1, <2>1
  <2> QED BY <1>1, <1>3, <1>6, <2>1, <2>2, <2>3, <2>4, EffectBy
<1>8. CASE loc[p].op = "expire"
  <2>1. pc'[p] = "update_hold" /\ Batch(p)' = Batch(p) /\ \A s \in PaymentIDs : Ahead(p, s)' <=> Ahead(p, s)
    BY <1>0, <1>1, <1>8 DEF Batch, Ahead, Before
  <2>2. ExpireTerms(p)'
    BY <1>0, <1>1, <1>5, <1>8, <2>1 DEF ExpireTerms, Before
  <2>3. /\ \A x \in Payers : x # x0 => Taken(p, x)' = Taken(p, x) /\ TakenTotal(p, x)' = TakenTotal(p, x)
        /\ Taken(p, x0)' # {}
        /\ TakenTotal(p, x0) \in Int /\ TakenTotal(p, x0)' = TakenTotal(p, x0) + loc[p].amount
        /\ Cardinality(Taken(p, x0)) \in Int
        /\ Cardinality(Taken(p, x0)') = Cardinality(Taken(p, x0)) + 1
        /\ Taken(p, x0) = {} => TakenTotal(p, x0) = 0 /\ Cardinality(Taken(p, x0)) = 0
    BY <1>0, <1>1, <1>8, <2>1, TakenMore
  <2>4. \A s \in PaymentIDs : payments'[s].lock = p => PaymentWritten(s)'
    BY <1>1, <1>8, <2>1 DEF EffectInv, PaymentWritten
  <2>5. PayerHeld(p)'
    BY <1>1, <1>2, <1>5, <1>8, <2>3 DEF PayerHeld
  <2>6. PayerMoved(x0)'
    <3> DEFINE total == TakenTotal(p, x0)
               n == Cardinality(Taken(p, x0))
    <3>1. loc[p].acct = Release(Seen(payers[x0], p), loc[p].amount)
      BY <1>4, <1>8 DEF Charged
    <3>2. total \in Int /\ n \in Int /\ (Taken(p, x0) = {} => total = 0 /\ n = 0)
      BY <2>3
    <3>3. payers[x0].val \in Payer
      BY <1>0
    <3>4. loc[p].acct = Abstract!Moved(payers[x0].val, total + loc[p].amount, -(total + loc[p].amount), n + 1)
      <4>1. CASE payers[x0].lock = p
        <5>1. Seen(payers[x0], p) = Abstract!Moved(payers[x0].val, total, -total, n)
          BY <1>0, <1>8, <4>1 DEF Seen, EffectInv, PayerMoved
        <5> HIDE DEF total, n
        <5>2. Release(Abstract!Moved(payers[x0].val, total, -total, n), loc[p].amount)
                = Abstract!Moved(payers[x0].val, total + loc[p].amount, -(total + loc[p].amount), n + 1)
          BY <1>0, <3>2, <3>3, MovedOnce
        <5> QED BY <3>1, <5>1, <5>2
      <4>2. CASE payers[x0].lock # p
        <5>1. Seen(payers[x0], p) = payers[x0].val /\ Taken(p, x0) = {}
          BY <1>5, <1>8, <4>2 DEF Seen, PayerHeld
        <5>2. total = 0 /\ n = 0
          BY <3>2, <5>1
        <5>3. loc[p].acct = Abstract!Moved(payers[x0].val, loc[p].amount, -loc[p].amount, 1)
          BY <1>0, <3>1, <3>3, <5>1, MovedOnce
        <5>4. total + loc[p].amount = loc[p].amount /\ n + 1 = 1
          BY <1>0, <5>2
        <5> HIDE DEF total, n
        <5> QED BY <5>3, <5>4
      <4> QED BY <4>1, <4>2
    <3>5. /\ TakenTotal(p, x0)' = total + loc[p].amount
          /\ Cardinality(Taken(p, x0)') = n + 1
      BY <2>3
    <3>6. payers'[x0].new = Abstract!Moved(payers'[x0].val, TakenTotal(p, x0)', -TakenTotal(p, x0)',
                                           Cardinality(Taken(p, x0)'))
      <4> HIDE DEF total, n
      <4> QED BY <1>2, <3>4, <3>5
    <3> QED BY <1>1, <1>2, <1>8, <2>3, <3>6 DEF PayerMoved
  <2>7. ASSUME NEW x \in Payers, payers'[x].lock = p PROVE PayerMoved(x)'
    <3>1. CASE x = x0
      BY <2>6, <3>1
    <3>2. CASE x # x0
      <4>1. payers'[x] = payers[x] /\ PayerMoved(x)
        BY <1>1, <3>2 DEF EffectInv
      <4> QED BY <1>1, <1>8, <2>3, <2>7, <3>2, <4>1 DEF PayerMoved
    <3> QED BY <3>1, <3>2
  <2> QED BY <1>3, <1>6, <2>2, <2>4, <2>5, <2>7, EffectBy
<1> QED BY <1>7, <1>8

LEMMA EffectInsert ==
  ASSUME CallInv, CallInv', BookInv, EffectInv, NEW p \in Procs, InsertPayment(p)
  PROVE  EffectInv'
<1> PICK q \in PaymentIDs : q = loc[p].payment
  BY DEF CallInv, InsertPayment, LocalsSet, Owing
<1>0. /\ TypeOK /\ p # None /\ pc[p] = "insert" /\ loc[p].op = "authorize" /\ loc[p].pay \in Payment
      /\ payments[q].val = None /\ payments[q].lock = None /\ payers[loc[p].payer].lock = p
      /\ AuthorizeTerms(p) /\ now \in Nat
  BY NoneAssumption DEF CallInv, BookInv, EffectInv, InsertPayment, LocalsSet, Owing, IdFresh
<1>1. /\ \A s \in PaymentIDs : payments[s].lock # p
      /\ \A x \in Payers : payers[x].lock = p => PayerMoved(x)
  BY <1>0, NoLocks DEF EffectInv
<1>2. /\ \A s \in PaymentIDs \ {q} : payments'[s] = payments[s]
      /\ payments'[q] = Written(payments[q], p, loc[p].pay)
      /\ pc'[p] = "commit" /\ UNCHANGED <<loc, now, payers>> /\ \A r \in Procs \ {p} : pc'[r] = pc[r]
  BY <1>0 DEF InsertPayment, CreatePayment, GoTo, TypeOK
<1>3. payments'[q].val = None /\ payments'[q].lock = p /\ payments'[q].new = loc[p].pay
  BY <1>0, <1>2, WrittenRow
<1>4. LeavesOthers(p)
  BY <1>0, <1>2, <1>3, NoneAssumption DEF LeavesOthers, SameTerms
<1>5. IsFiniteSet(Known)'
  <2>1. IsFiniteSet(Known \cup {q})
    BY FS_AddElement DEF EffectInv
  <2>2. Known' \subseteq Known \cup {q}
    BY <1>2 DEF Known
  <2> QED BY <2>1, <2>2, FS_Subset
<1>6. AuthorizeTerms(p)' /\ CaptureTerms(p)' /\ ExpireTerms(p)'
  BY <1>0, <1>2 DEF AuthorizeTerms, CaptureTerms, ExpireTerms
<1>7. PayerHeld(p)'
  BY <1>0, <1>2, <1>3 DEF PayerHeld
<1>8. \A s \in PaymentIDs : payments'[s].lock = p => PaymentWritten(s)'
  BY <1>0, <1>1, <1>2, <1>3 DEF PaymentWritten
<1>9. \A x \in Payers : payers'[x].lock = p => PayerMoved(x)'
  BY <1>0, <1>1, <1>2 DEF PayerMoved
<1> QED BY <1>4, <1>5, <1>6, <1>7, <1>8, <1>9, EffectBy

LEMMA EffectUpdateHold ==
  ASSUME CallInv, CallInv', BookInv, EffectInv, NEW p \in Procs, UpdateHold(p)
  PROVE  EffectInv'
<1>1. CASE loc[p].hold # "HELD"
  BY <1>1, EffectRollback DEF UpdateHold
<1>2. CASE loc[p].hold = "HELD"
  <2>0. /\ TypeOK /\ p # None /\ pc[p] = "update_hold" /\ loc[p].op \in Operations \ {"authorize"}
        /\ payers[loc[p].payer].lock = p
    BY <1>2, NoneAssumption DEF CallInv, UpdateHold, LocalsSet, Owing
  <2>1. /\ UNCHANGED <<payers, payments, loc, now>> /\ pc'[p] = "update_payment"
        /\ \A r \in Procs \ {p} : pc'[r] = pc[r]
    BY <1>2, <2>0 DEF UpdateHold, GoTo, TypeOK
  <2>2. \A s \in PaymentIDs : Ahead(p, s)' <=> Ahead(p, s)
    BY <2>0, <2>1 DEF Ahead, Before
  <2>3. LeavesOthers(p) /\ IsFiniteSet(Known)'
    BY <2>0, <2>1, LeavesTables DEF EffectInv
  <2>4. AuthorizeTerms(p) /\ CaptureTerms(p) /\ ExpireTerms(p)
    BY DEF EffectInv
  <2>5. AuthorizeTerms(p)' /\ CaptureTerms(p)'
    BY <2>0, <2>1, <2>4 DEF AuthorizeTerms, CaptureTerms
  <2>6. Batch(p)' = Batch(p)
    BY <2>1 DEF Batch
  <2>7. ExpireTerms(p)'
    BY <2>0, <2>1, <2>4, <2>6 DEF ExpireTerms, Before
  <2>8. /\ PayerHeld(p)'
        /\ \A s \in PaymentIDs : payments'[s].lock = p => PaymentWritten(s)'
        /\ \A x \in Payers : payers'[x].lock = p => PayerMoved(x)'
    <3>1. CASE loc[p].op = "expire"
      BY <2>0, <2>1, <2>2, <3>1, TakenSame
    <3>2. CASE loc[p].op # "expire"
      <4>1. \A s \in PaymentIDs : payments[s].lock # p
        BY <2>0, <3>2, NoLocks
      <4>2. \A x \in Payers : payers[x].lock = p => PayerMoved(x)
        BY DEF EffectInv
      <4>3. \A x \in Payers : payers'[x].lock = p => PayerMoved(x)'
        BY <2>0, <2>1, <3>2, <4>2 DEF PayerMoved, Owing
      <4> QED BY <2>0, <2>1, <3>2, <4>1, <4>3 DEF PayerHeld
    <3> QED BY <3>1, <3>2
  <2> QED BY <2>3, <2>5, <2>7, <2>8, EffectBy
<1> QED BY <1>1, <1>2

LEMMA EffectUpdatePayment ==
  ASSUME CallInv, CallInv', BookInv, EffectInv, NEW p \in Procs, UpdatePayment(p)
  PROVE  EffectInv'
<1> PICK q \in PaymentIDs : q = loc[p].payment
  BY DEF CallInv, UpdatePayment, LocalsSet, Owing
<1>0. /\ TypeOK /\ p # None /\ pc[p] = "update_payment" /\ loc[p].op \in Operations \ {"authorize"}
      /\ Course(p) /\ payments[q].lock \in {None, p} /\ payments[q].val # None
      /\ Ahead(p, q) /\ payers[loc[p].payer].lock = p
      /\ AuthorizeTerms(p) /\ CaptureTerms(p) /\ ExpireTerms(p) /\ PayerHeld(p) /\ now \in Nat
  BY NoneAssumption DEF CallInv, BookInv, EffectInv, UpdatePayment, LocalsSet, Lockable, Owing, Ahead, Before
<1>1. /\ \A s \in PaymentIDs \ {q} : payments'[s] = payments[s]
      /\ payments'[q] = Written(payments[q], p, loc[p].pay)
      /\ pc'[p] = IF loc[p].todo = {} THEN "commit" ELSE "get_hold"
      /\ UNCHANGED <<loc, now, payers>> /\ \A r \in Procs \ {p} : pc'[r] = pc[r]
  BY <1>0 DEF UpdatePayment, GoTo, TypeOK
<1>2. payments'[q].val = payments[q].val /\ payments'[q].lock = p /\ payments'[q].new = loc[p].pay
  BY <1>0, <1>1, WrittenRow
<1>3. ~Ahead(p, q)' /\ \A s \in PaymentIDs \ {q} : Ahead(p, s)' <=> Ahead(p, s)
  BY <1>0, <1>1 DEF Ahead, Before, Course
<1>4. LeavesOthers(p)
  BY <1>0, <1>1, <1>2, NoneAssumption DEF LeavesOthers, SameTerms
<1>5. IsFiniteSet(Known)'
  <2>1. payments[q].new # None
    BY <1>0 DEF CallInv, RowInserted
  <2>2. Known' \subseteq Known
    BY <1>1, <2>1 DEF Known
  <2> QED BY <2>2, FS_Subset DEF EffectInv
<1>6. CASE loc[p].op = "capture"
  <2>1. pc'[p] = "commit"
    BY <1>0, <1>1, <1>6 DEF Course
  <2>2. AuthorizeTerms(p)' /\ CaptureTerms(p)' /\ ExpireTerms(p)' /\ PayerHeld(p)'
    BY <1>0, <1>1, <1>2, <1>6, <2>1 DEF AuthorizeTerms, CaptureTerms, ExpireTerms, PayerHeld
  <2>3. \A s \in PaymentIDs : payments[s].lock # p
    BY <1>0, <1>6, <2>1 DEF BookInv, PaymentRow
  <2>4. \A s \in PaymentIDs : payments'[s].lock = p => PaymentWritten(s)'
    BY <1>1, <1>2, <1>6, <2>3 DEF PaymentWritten
  <2>5. \A x \in Payers : payers[x].lock = p => PayerMoved(x)
    BY DEF EffectInv
  <2>6. \A x \in Payers : payers'[x].lock = p => PayerMoved(x)'
    BY <1>1, <1>6, <2>1, <2>5 DEF PayerMoved
  <2> QED BY <1>4, <1>5, <2>2, <2>4, <2>6, EffectBy
<1>7. CASE loc[p].op = "expire"
  <2>1. payments[q].lock = p /\ Batch(p)' = Batch(p)
    <3>1. payments[q].lock = p
      BY <1>0, <1>7 DEF Course
    <3> QED BY <1>1, <1>2, <3>1 DEF Batch
  <2>2. \A s \in PaymentIDs : payments'[s].val = payments[s].val
    BY <1>1, <1>2
  <2>3. AuthorizeTerms(p)' /\ CaptureTerms(p)' /\ ExpireTerms(p)'
    BY <1>0, <1>1, <1>7, <2>1, <2>2 DEF AuthorizeTerms, CaptureTerms, ExpireTerms, Before, Batch
  <2>4. ASSUME NEW x \in Payers PROVE Taken(p, x)' = Taken(p, x) /\ TakenTotal(p, x)' = TakenTotal(p, x)
    <3>1. Taken(p, x)' = Taken(p, x)
      BY <1>0, <1>1, <1>3, <2>1, <2>2 DEF Taken, Batch
    <3>2. \A s \in Taken(p, x) : payments'[s].val = payments[s].val
      BY <2>2 DEF Taken, Batch
    <3> QED BY <3>1, <3>2 DEF TakenTotal
  <2>5. PayerHeld(p)'
    BY <1>0, <1>1, <1>7, <2>4 DEF PayerHeld
  <2>6. ASSUME NEW s \in PaymentIDs, payments'[s].lock = p PROVE PaymentWritten(s)'
    <3>1. CASE s = q
      <4>1. loc[p].pay = Expire(payments[q].val)
        BY <1>0, <1>7 DEF ExpireTerms, Before
      <4> QED BY <1>1, <1>2, <1>7, <3>1, <4>1 DEF PaymentWritten
    <3>2. CASE s # q
      <4>1. PaymentWritten(s) /\ payments'[s] = payments[s]
        BY <1>1, <3>2 DEF EffectInv
      <4> QED BY <1>1, <1>3, <1>7, <2>6, <3>2, <4>1 DEF PaymentWritten
    <3> QED BY <3>1, <3>2
  <2>7. ASSUME NEW x \in Payers, payers'[x].lock = p PROVE PayerMoved(x)'
    <3>1. PayerMoved(x)
      BY DEF EffectInv
    <3> QED BY <1>1, <1>7, <2>4, <2>7, <3>1 DEF PayerMoved
  <2> QED BY <1>4, <1>5, <2>3, <2>5, <2>6, <2>7, EffectBy
<1> QED BY <1>0, <1>6, <1>7 DEF Operations

\* What each call has done is what its COMMIT may do in one step.
LEMMA EffectStep == CallInv /\ CallInv' /\ LedgerInv /\ BookInv /\ EffectInv /\ [Next]_vars => EffectInv'
<1> SUFFICES ASSUME CallInv, CallInv', LedgerInv, BookInv, EffectInv, [Next]_vars PROVE EffectInv'
    OBVIOUS
<1>0. TypeOK /\ now \in Nat
  BY DEF CallInv, EffectInv
<1>1. ASSUME UNCHANGED <<payments, pc, loc>>, now' \in Nat, now <= now',
             \A x \in Payers : payers[x].lock # None \/ payers'[x].lock # None => payers'[x] = payers[x]
      PROVE  EffectInv'
  <2>1. LeavesOthers(None)
    BY <1>1, NoneAssumption DEF LeavesOthers, SameTerms
  <2>2. Known' = Known
    BY <1>1 DEF Known
  <2>3. ASSUME NEW r \in Procs PROVE r \in Procs \ {None}
    BY NoneAssumption
  <2>4. \A r \in Procs : /\ AuthorizeTerms(r)' /\ CaptureTerms(r)' /\ ExpireTerms(r)' /\ PayerHeld(r)'
                         /\ \A q \in PaymentIDs : payments'[q].lock = r => PaymentWritten(q)'
                         /\ \A x \in Payers : payers'[x].lock = r => PayerMoved(x)'
    BY <2>1, <2>3, OthersSame
  <2>5. ASSUME NEW q \in PaymentIDs PROVE PaymentWritten(q)'
    <3>1. payments'[q].lock \in Procs \cup {None}
      BY DEF CallInv, TypeOK, RowOf
    <3> QED BY <2>4, <3>1 DEF PaymentWritten
  <2>6. ASSUME NEW x \in Payers PROVE PayerMoved(x)'
    <3>1. payers'[x].lock \in Procs \cup {None}
      BY DEF CallInv, TypeOK, RowOf
    <3> QED BY <2>4, <3>1 DEF PayerMoved
  <2> QED BY <1>1, <2>2, <2>4, <2>5, <2>6 DEF EffectInv
<1>2. CASE Tick
  BY <1>0, <1>1, <1>2 DEF Tick, tables
<1>3. ASSUME NEW m \in Merchants, CreateMerchant(m) PROVE EffectInv'
  BY <1>0, <1>1, <1>3 DEF CreateMerchant, tables
<1>4. ASSUME NEW x \in Payers, NEW b \in Openings, CreatePayer(x, b) PROVE EffectInv'
  <2>1. payers[x].lock = None
    BY <1>4 DEF CreatePayer, CallInv, Paired
  <2>2. \A y \in Payers : payers'[y] = IF y = x THEN Unlocked(NewPayer(b)) ELSE payers[y]
    BY <1>0, <1>4 DEF CreatePayer, TypeOK
  <2>3. \A y \in Payers : payers[y].lock # None \/ payers'[y].lock # None => payers'[y] = payers[y]
    BY <2>1, <2>2 DEF Unlocked
  <2> QED BY <1>0, <1>1, <1>4, <2>3 DEF CreatePayer
<1>5. CASE UNCHANGED vars
  BY <1>0, <1>1, <1>5 DEF vars, tables
<1>6. ASSUME NEW p \in Procs, Rollback(p) PROVE EffectInv'
  BY <1>6, EffectRollback
<1>7. ASSUME NEW p \in Procs, Start(p) PROVE EffectInv'
  BY <1>7, EffectStart
<1>8. ASSUME NEW p \in Procs, Step(p) PROVE EffectInv'
  <2>1. CASE GetHold(p)
    BY <2>1, EffectGetHold
  <2>2. CASE GetPayer(p)
    BY <2>2, EffectGetPayer
  <2>3. CASE UpdatePayer(p)
    BY <2>3, EffectUpdatePayer
  <2>4. CASE VersionConflict(p)
    BY <1>6, <2>4 DEF VersionConflict
  <2>5. CASE InsertPayment(p)
    BY <2>5, EffectInsert
  <2>6. CASE UpdateHold(p)
    BY <2>6, EffectUpdateHold
  <2>7. CASE UpdatePayment(p)
    BY <2>7, EffectUpdatePayment
  <2>8. CASE Commit(p)
    BY <2>8, EffectCommit
  <2> QED BY <1>8, <2>1, <2>2, <2>3, <2>4, <2>5, <2>6, <2>7, <2>8 DEF Step
<1> QED BY <1>2, <1>3, <1>4, <1>5, <1>6, <1>7, <1>8 DEF Next, DeadlockVictim, Fail

LEMMA EffectInit == Init => EffectInv
<1> SUFFICES ASSUME Init PROVE EffectInv
    OBVIOUS
<1>1. Known = {}
  BY DEF Init, Known, Unlocked
<1>2. \A p \in Procs : loc[p] = NoCall /\ pc[p] = "idle" /\ loc[p].op = None
  BY DEF Init, NoCall, Call
<1>3. \A p \in Procs : AuthorizeTerms(p) /\ CaptureTerms(p) /\ ExpireTerms(p) /\ PayerHeld(p)
  BY <1>2, NoneAssumption DEF AuthorizeTerms, CaptureTerms, ExpireTerms, PayerHeld, Operations, Owing
<1>4. \A q \in PaymentIDs : PaymentWritten(q)
  BY DEF Init, Unlocked, PaymentWritten
<1>5. \A x \in Payers : PayerMoved(x)
  BY DEF Init, Unlocked, PayerMoved
<1> QED BY <1>1, <1>3, <1>4, <1>5, FS_EmptySet DEF Init, EffectInv

\* Everything a call relies on, from its first statement to its COMMIT.
THEOREM EffectSafe == Spec => [](CallInv /\ LedgerInv /\ FundsInv /\ BookInv /\ EffectInv)
<1>1. Init => LedgerInv /\ FundsInv
  BY DEF Init, LedgerInv, ReadCurrent, SeesReconciled, VersionGrows, BalancesReconcile, Unlocked,
         FundsInv, NoOverdraft, NoCall, Call
<1> QED BY <1>1, CallInit, BookInit, EffectInit, CallStep, LedgerStep, FundsStep, BookStep, EffectStep, PTL DEF Spec

\* Only a COMMIT, or the INSERT of a new payer, changes what is committed of a payer.
LEMMA PayerByCommit ==
  ASSUME CallInv, [Next]_vars, \A p \in Procs : ~Commit(p),
         \A x \in Payers, b \in Openings : ~CreatePayer(x, b), NEW y \in Payers
  PROVE  payers'[y].val = payers[y].val
<1>0. TypeOK
  BY DEF CallInv
<1>1. ASSUME UNCHANGED payers PROVE payers'[y].val = payers[y].val
  BY <1>1
<1>2. ASSUME NEW p \in Procs, Rollback(p) PROVE payers'[y].val = payers[y].val
  BY <1>2, NoneAssumption, RolledBackRow DEF Rollback, RollbackTables
<1>3. ASSUME NEW p \in Procs, UpdatePayer(p) PROVE payers'[y].val = payers[y].val
  <2>1. \A x \in Payers : payers'[x] = IF x = loc[p].payer THEN Written(payers[x], p, loc[p].acct) ELSE payers[x]
    BY <1>0, <1>3 DEF UpdatePayer, TypeOK
  <2> QED BY <2>1, WrittenRow
<1>4. ASSUME NEW p \in Procs, Step(p) PROVE payers'[y].val = payers[y].val
  <2>1. CASE GetHold(p) \/ InsertPayment(p) \/ UpdatePayment(p)
    BY <1>1, <2>1 DEF GetHold, InsertPayment, UpdatePayment, tables
  <2>2. CASE GetPayer(p)
    BY <1>1, <1>2, <2>2 DEF GetPayer, tables
  <2>3. CASE VersionConflict(p)
    BY <1>2, <2>3 DEF VersionConflict
  <2>4. CASE UpdateHold(p)
    BY <1>1, <1>2, <2>4 DEF UpdateHold
  <2> QED BY <1>3, <1>4, <2>1, <2>2, <2>3, <2>4 DEF Step
<1>5. ASSUME NEW p \in Procs, Start(p) PROVE payers'[y].val = payers[y].val
  BY <1>1, <1>5 DEF Start, StartAuthorize, StartCapture, StartExpire, tables
<1> QED
   BY <1>1, <1>2, <1>4, <1>5
   DEF Next, Tick, CreateMerchant, DeadlockVictim, Fail, vars, tables

\* What the COMMIT of p does to the committed payers and payments.
LEMMA CommitEffect ==
  ASSUME CallInv, NEW p \in Procs, Commit(p)
  PROVE  /\ now' = now /\ pc[p] = "commit" /\ loc[p].op \in Operations
         /\ \A q \in PaymentIDs : payments'[q].val = IF payments[q].lock = p THEN payments[q].new ELSE payments[q].val
         /\ \A x \in Payers : payers'[x].val = IF payers[x].lock = p THEN payers[x].new ELSE payers[x].val
<1>1. /\ \A q \in PaymentIDs : payments'[q] = Committed(payments[q], p)
      /\ \A x \in Payers : payers'[x] = Committed(payers[x], p)
      /\ now' = now /\ pc[p] = "commit" /\ LocalsSet(p)
  BY DEF Commit, CommitTables, EndCall, CallInv
<1>2. ASSUME NEW row PROVE Committed(row, p).val = IF row.lock = p THEN row.new ELSE row.val
  BY DEF Committed, Unlocked
<1> QED BY <1>1, <1>2 DEF LocalsSet

\* An authorization has reserved funds that the payer had when it commits.
LEMMA CommitAuthorize ==
  ASSUME CallInv, FundsInv, BookInv, EffectInv, NEW p \in Procs, Commit(p), loc[p].op = "authorize"
  PROVE  \E q \in PaymentIDs, t \in 0..now, x \in Payers, amount \in Amounts : Abstract!Authorize(q, x, amount, t)
<1> DEFINE q == loc[p].payment
           x == loc[p].payer
           amount == loc[p].amount
<1>0. /\ AuthorizeTerms(p) /\ PayerHeld(p) /\ IdFresh(p) /\ pc[p] = "commit" /\ p # None
  BY NoneAssumption DEF EffectInv, CallInv, Commit
<1>1. /\ q \in PaymentIDs /\ x \in Payers /\ amount \in Amounts /\ amount \in Int /\ amount > 0
      /\ payments[q].val = None /\ payments[q].lock = p /\ payers[x].lock = p
  BY <1>0, ConstantsAssumption DEF AuthorizeTerms, PayerHeld, IdFresh
<1>2. PICK t \in 0..now : loc[p].pay = NewAuthorizedPayment(x, amount, t)
  BY <1>0 DEF AuthorizeTerms
<1>3. ASSUME NEW s \in PaymentIDs
      PROVE  payments'[s].val = IF s = q THEN loc[p].pay ELSE payments[s].val
  <2>1. payments[s].lock = p => s = q /\ payments[s].new = loc[p].pay
    BY <1>0, CommitTerms
  <2> QED BY <1>1, <2>1, CommitEffect
<1>4. payers[x].new = Reserve(payers[x].val, amount) /\ \A y \in Payers : payers[y].lock = p => y = x
  BY <1>0, <1>1 DEF EffectInv, PayerMoved, Charged
<1>5. /\ payers[x].val \in Payer /\ payers[x].val # None
      /\ amount <= payers[x].val.available
  <2>1. payers[x].val # None /\ payers[x].val \in Payer /\ payers[x].new # None
    BY <1>0, <1>1 DEF CallInv, Paired, TypeOK, RowOf
  <2>2. payers[x].new.available >= 0 /\ payers[x].new.available = payers[x].val.available - amount
    BY <1>1, <1>4, <2>1 DEF FundsInv, NoOverdraft, Reserve
  <2>3. payers[x].val.available \in Int
    BY <2>1 DEF Payer
  <2> QED BY <1>1, <2>1, <2>2, <2>3
<1>6. payers[x].new = Abstract!Moved(payers[x].val, -amount, amount, 1)
  BY <1>1, <1>4, <1>5, MovedOnce
<1>7. [y \in Payers |-> payers'[y].val] =
        [[y \in Payers |-> payers[y].val] EXCEPT ![x] = Abstract!Moved(@, -amount, amount, 1)]
  BY <1>1, <1>4, <1>6, CommitEffect
<1>8. [s \in PaymentIDs |-> payments'[s].val] =
        [[s \in PaymentIDs |-> payments[s].val] EXCEPT ![q] = NewAuthorizedPayment(x, amount, t)]
  BY <1>1, <1>2, <1>3
<1>9. Abstract!Authorize(q, x, amount, t)
  BY <1>1, <1>5, <1>7, <1>8, CommitEffect DEF Abstract!Authorize, NewAuthorizedPayment
<1> QED BY <1>1, <1>9

\* A capture has taken its amount from the held balance, in time by the
\* committed payment; only the status may be another by now.
LEMMA CommitCapture ==
  ASSUME CallInv, FundsInv, BookInv, EffectInv, NEW p \in Procs, Commit(p), loc[p].op = "capture"
  PROVE  \E q \in PaymentIDs, t \in 0..now : Abstract!Capture(q, t) \/ Abstract!Recapture(q, t)
<1> PICK q \in PaymentIDs : q = loc[p].payment
  BY DEF EffectInv, CaptureTerms
<1> DEFINE x == loc[p].payer
           amount == loc[p].amount
<1>0. /\ CaptureTerms(p) /\ PayerHeld(p) /\ pc[p] = "commit" /\ p # None /\ loc[p] \in Local
  BY NoneAssumption DEF EffectInv, CallInv, Commit, TypeOK
<1>1. /\ q \in PaymentIDs /\ payments[q].val # None /\ payments[q].lock = p /\ payers[x].lock = p
      /\ x = payments[q].val.payer /\ amount = payments[q].val.amount
  BY <1>0 DEF CaptureTerms, PayerHeld
<1>2. PICK t \in 0..now : t <= payments[q].val.expiresAt /\ payments[q].new = Capture(payments[q].val, t)
  BY <1>0, <1>1, CommitTerms
<1>3. payments[q].val \in Payment /\ x \in Payers /\ amount \in Int
  <2>1. payments[q].val \in Payment
    BY <1>1 DEF CallInv, TypeOK, RowOf
  <2> QED BY <1>1, <2>1 DEF Payment
<1>4. ASSUME NEW s \in PaymentIDs
      PROVE  payments'[s].val = IF s = q THEN Capture(payments[q].val, t) ELSE payments[s].val
  <2>1. payments[s].lock = p => s = q
    BY <1>0, CommitTerms
  <2> QED BY <1>1, <1>2, <2>1, CommitEffect
<1>5. payers[x].new = CaptureHeld(payers[x].val, amount) /\ \A y \in Payers : payers[y].lock = p => y = x
  BY <1>0, <1>1, <1>3 DEF EffectInv, PayerMoved, Charged
<1>6. /\ payers[x].val \in Payer /\ payers[x].val # None
      /\ amount <= payers[x].val.held
  <2>1. payers[x].val # None /\ payers[x].val \in Payer /\ payers[x].new # None
    BY <1>0, <1>1, <1>3 DEF CallInv, Paired, TypeOK, RowOf
  <2>2. payers[x].new.held >= 0 /\ payers[x].new.held = payers[x].val.held - amount
    BY <1>3, <1>5, <2>1 DEF FundsInv, NoOverdraft, CaptureHeld
  <2>3. payers[x].val.held \in Int
    BY <2>1 DEF Payer
  <2> QED BY <1>3, <2>1, <2>2, <2>3
<1>7. payers[x].new = Abstract!Moved(payers[x].val, 0, -amount, 1)
  BY <1>3, <1>5, <1>6, MovedOnce
<1>8. [y \in Payers |-> payers'[y].val] =
        [[y \in Payers |-> payers[y].val] EXCEPT ![x] = Abstract!Moved(@, 0, -amount, 1)]
  <2>1. ASSUME NEW y \in Payers
        PROVE  payers'[y].val = IF y = x THEN Abstract!Moved(payers[x].val, 0, -amount, 1) ELSE payers[y].val
    BY <1>1, <1>3, <1>5, <1>7, CommitEffect
  <2> QED BY <1>3, <2>1
<1>9. [s \in PaymentIDs |-> payments'[s].val] =
        [[s \in PaymentIDs |-> payments[s].val] EXCEPT ![q] = [@ EXCEPT !.status = "CAPTURED", !.capturedAt = t]]
  BY <1>1, <1>4 DEF Capture
<1>10. Abstract!TakeHeld(q, t)
  BY <1>1, <1>2, <1>3, <1>6, <1>8, <1>9, CommitEffect DEF Abstract!TakeHeld
<1>11. Abstract!Capture(q, t) \/ Abstract!Recapture(q, t)
  BY <1>1, <1>10 DEF Abstract!Capture, Abstract!Recapture
<1> QED BY <1>11

\* Sums and sizes are the same in Ledger as in Payments.
LEMMA LedgerSums ==
  ASSUME NEW f, NEW S
  PROVE  Abstract!SumFunction(f) = SumFunction(f) /\ Abstract!Cardinality(S) = Cardinality(S)
<1>1. Abstract!SumFunction(f) = SumFunction(f)
  BY DEF Abstract!SumFunction, SumFunction, Abstract!SumFunctionOnSet, SumFunctionOnSet,
         Abstract!FoldFunctionOnSet, FoldFunctionOnSet, Abstract!MapThenFoldSet, MapThenFoldSet
<1>2. Abstract!Cardinality(S) = Cardinality(S)
  BY DEF Abstract!Cardinality, Cardinality
<1> QED BY <1>1, <1>2

\* An expiry run has given back what the payments of its batch still hold,
\* each of them open and due when it commits.
LEMMA CommitExpire ==
  ASSUME CallInv, FundsInv, BookInv, EffectInv, NEW p \in Procs, Commit(p), loc[p].op = "expire"
  PROVE  \E S \in SUBSET PaymentIDs : Abstract!Expire(S)
<1> PICK S \in SUBSET PaymentIDs : S = Batch(p)
  BY DEF Batch
<1>0. /\ ExpireTerms(p) /\ PayerHeld(p) /\ pc[p] = "commit" /\ p # None
      /\ \A q \in PaymentIDs : ~Ahead(p, q)
  BY NoneAssumption, CommitWhole DEF EffectInv, Commit
<1>1. /\ IsFiniteSet(S) /\ \A x \in Payers : IsFiniteSet(Taken(p, x))
      /\ \A q \in S : /\ payments[q].val \in Payment /\ payments[q].val # None
                      /\ payments[q].val.status = "AUTHORIZED"
                      /\ payments[q].val.payer \in Payers
                      /\ payments[q].val.amount \in Int
  BY BatchRows
<1>2. S # {} /\ Cardinality(S) <= ExpiryLimit /\ \A q \in S : payments[q].val.expiresAt <= now
  BY <1>0 DEF ExpireTerms
<1>3. ASSUME NEW x \in Payers
      PROVE  Abstract!Of(x, S) = Taken(p, x) /\ Abstract!Total(x, S) = TakenTotal(p, x)
  <2>1. Abstract!Of(x, S) = Taken(p, x)
    BY <1>0 DEF Abstract!Of, Taken, Batch
  <2>2. \A q \in Taken(p, x) : q \in PaymentIDs
    BY DEF Taken, Batch
  <2>3. [q \in Taken(p, x) |-> [r \in PaymentIDs |-> payments[r].val][q].amount]
           = [q \in Taken(p, x) |-> payments[q].val.amount]
    BY <2>2
  <2>4. Abstract!Total(x, S)
           = SumFunction([q \in Abstract!Of(x, S) |-> [r \in PaymentIDs |-> payments[r].val][q].amount])
    BY LedgerSums DEF Abstract!Total
  <2>5. TakenTotal(p, x) = SumFunction([q \in Taken(p, x) |-> payments[q].val.amount])
    BY DEF TakenTotal
  <2> QED BY <2>1, <2>3, <2>4, <2>5
<1>4. ASSUME NEW x \in Payers, Taken(p, x) # {}
      PROVE  /\ payers'[x].val = Abstract!Moved(payers[x].val, TakenTotal(p, x), -TakenTotal(p, x),
                                                Cardinality(Taken(p, x)))
             /\ TakenTotal(p, x) <= payers[x].val.held
  <2>1. payers[x].lock = p
    BY <1>0, <1>4 DEF PayerHeld
  <2>2. payers[x].new = Abstract!Moved(payers[x].val, TakenTotal(p, x), -TakenTotal(p, x),
                                       Cardinality(Taken(p, x)))
    BY <1>0, <2>1 DEF EffectInv, PayerMoved
  <2>3. payers[x].val \in Payer /\ payers[x].new # None /\ payers[x].new.held >= 0
    <3>1. payers[x].val # None /\ payers[x].val \in Payer /\ payers[x].new # None
      BY <1>0, <2>1 DEF CallInv, Paired, TypeOK, RowOf
    <3> QED BY <3>1 DEF FundsInv, NoOverdraft
  <2>4. TakenTotal(p, x) \in Int
    <3> DEFINE f == [q \in PaymentIDs |-> payments[q].val.amount]
               T == Taken(p, x)
    <3>1. IsFiniteSet(T) /\ \A q \in T : f[q] \in Int
      BY <1>1 DEF Taken, Batch
    <3>2. TakenTotal(p, x) = SumFunction([q \in T |-> f[q]])
      BY DEF TakenTotal, Taken, Batch
    <3> HIDE DEF f, T
    <3> QED BY <3>1, <3>2, SumOver, SumInt
  <2>5. payers[x].new.held = payers[x].val.held + -TakenTotal(p, x)
    BY <2>2 DEF Abstract!Moved
  <2>6. payers[x].val.held \in Int
    BY <2>3 DEF Payer
  <2>7. TakenTotal(p, x) <= payers[x].val.held
    BY <2>3, <2>4, <2>5, <2>6
  <2> QED BY <2>1, <2>2, <2>7, CommitEffect
<1>5. ASSUME NEW x \in Payers, Taken(p, x) = {} PROVE payers'[x].val = payers[x].val
  <2>1. payers[x].lock # p
    BY <1>0, <1>5 DEF EffectInv, PayerMoved
  <2> QED BY <2>1, CommitEffect
<1>6. ASSUME NEW q \in PaymentIDs
      PROVE  payments'[q].val = IF q \in S THEN [payments[q].val EXCEPT !.status = "EXPIRED"] ELSE payments[q].val
  <2>1. q \in S <=> payments[q].lock = p
    BY DEF Batch
  <2>2. payments[q].lock = p => payments[q].new = Expire(payments[q].val)
    BY <1>0, CommitTerms
  <2> QED BY <2>1, <2>2, CommitEffect DEF Expire
<1>7. \A q \in S : /\ Abstract!Of(payments[q].val.payer, S) # {}
                   /\ payments[q].val # None /\ payments[q].val.status = "AUTHORIZED" /\ payments[q].val.expiresAt <= now
  BY <1>1, <1>2 DEF Abstract!Of
<1>8. \A x \in Payers : Abstract!Of(x, S) # {} => Abstract!Total(x, S) <= payers[x].val.held
  BY <1>3, <1>4
<1>9. [x \in Payers |-> payers'[x].val] =
        [x \in Payers |->
           IF Abstract!Of(x, S) = {} THEN [y \in Payers |-> payers[y].val][x]
           ELSE Abstract!Moved([y \in Payers |-> payers[y].val][x], Abstract!Total(x, S), -Abstract!Total(x, S),
                               Cardinality(Abstract!Of(x, S)))]
  <2>1. ASSUME NEW x \in Payers
        PROVE  payers'[x].val =
                 IF Abstract!Of(x, S) = {} THEN payers[x].val
                 ELSE Abstract!Moved(payers[x].val, Abstract!Total(x, S), -Abstract!Total(x, S),
                                     Cardinality(Abstract!Of(x, S)))
    BY <1>3, <1>4, <1>5
  <2> QED BY <2>1
<1>10. [q \in PaymentIDs |-> payments'[q].val] =
        [q \in PaymentIDs |-> IF q \in S THEN [[r \in PaymentIDs |-> payments[r].val][q] EXCEPT !.status = "EXPIRED"]
                              ELSE [r \in PaymentIDs |-> payments[r].val][q]]
  BY <1>6
<1>11. Abstract!Expire(S)
  <2>1. \A q \in S : /\ [r \in PaymentIDs |-> payments[r].val][q] # None
                    /\ [r \in PaymentIDs |-> payments[r].val][q].status = "AUTHORIZED"
                    /\ [r \in PaymentIDs |-> payments[r].val][q].expiresAt <= now
    BY <1>7
  <2>2. \A x \in Payers : Abstract!Of(x, S) # {} =>
          Abstract!Total(x, S) <= [y \in Payers |-> payers[y].val][x].held
    BY <1>8
  <2>3. now' = now
    BY CommitEffect
  <2> QED BY <1>2, <1>9, <1>10, <2>1, <2>2, <2>3, LedgerSums DEF Abstract!Expire
<1> QED BY <1>11

\* Calls are atomic: whatever statements of other calls come between those
\* of a call, what it commits the abstract ledger does in one step, with the
\* checks of the operation passing there; everything else is invisible.
THEOREM LedgerRefined == Spec => ImplementsLedger
<1> DEFINE Inv == CallInv /\ LedgerInv /\ FundsInv /\ BookInv /\ EffectInv
<1>1. Init => Abstract!Init
  BY DEF Init, Abstract!Init, Unlocked
<1>2. ASSUME Inv, [Next]_vars PROVE [Abstract!Next]_(Abstract!lvars)
  <2>0. TypeOK
    BY <1>2 DEF CallInv
  <2>1. ASSUME NEW p \in Procs, Commit(p) PROVE Abstract!Next
    <3>1. CASE loc[p].op = "authorize"
      BY <1>2, <2>1, <3>1, CommitAuthorize DEF Abstract!Next
    <3>2. CASE loc[p].op = "capture"
      BY <1>2, <2>1, <3>2, CommitCapture DEF Abstract!Next
    <3>3. CASE loc[p].op = "expire"
      BY <1>2, <2>1, <3>3, CommitExpire DEF Abstract!Next
    <3>4. loc[p].op \in Operations
      BY <1>2, <2>1, CommitEffect
    <3> QED BY <3>1, <3>2, <3>3, <3>4 DEF Operations
  <2>2. ASSUME NEW x \in Payers, NEW b \in Openings, CreatePayer(x, b) PROVE Abstract!Next
    <3>1. \A y \in Payers : payers'[y].val = IF y = x THEN NewPayer(b) ELSE payers[y].val
      BY <2>0, <2>2 DEF CreatePayer, Unlocked, TypeOK
    <3>2. [y \in Payers |-> payers'[y].val] = [[y \in Payers |-> payers[y].val] EXCEPT ![x] = NewPayer(b)]
      BY <3>1
    <3>3. Abstract!Open(x, b)
      BY <2>2, <3>2 DEF CreatePayer, NewPayer, Abstract!Open
    <3> QED BY <3>3 DEF Abstract!Next
  <2>3. CASE Tick
    BY <2>3 DEF Tick, tables, Abstract!Tick, Abstract!Next
  <2>4. ASSUME \A p \in Procs : ~Commit(p), \A x \in Payers, b \in Openings : ~CreatePayer(x, b), ~Tick
        PROVE  UNCHANGED Abstract!lvars
    <3>1. \A x \in Payers : payers'[x].val = payers[x].val
      BY <1>2, <2>4, PayerByCommit
    <3>2. \A q \in PaymentIDs : payments'[q].val = payments[q].val
      BY <1>2, <2>4, CommittedByCommit
    <3>3. now' = now
      BY <1>2, <2>4
      DEF Next, CreateMerchant, Start, Step, StartAuthorize, StartCapture, StartExpire, GoTo, GetHold, GetPayer,
          UpdatePayer, VersionConflict, InsertPayment, UpdateHold, UpdatePayment, DeadlockVictim, Fail, Rollback,
          EndCall, vars
    <3> QED BY <3>1, <3>2, <3>3 DEF Abstract!lvars
  <2> QED BY <2>1, <2>2, <2>3, <2>4
<1> QED BY <1>1, <1>2, EffectSafe, PTL DEF Spec, ImplementsLedger, Abstract!Spec

-----------------------------------------------------------------------------
(* Held balances are backed by holds.                                      *)

\* The amount of each committed payment.
AmountOf == [q \in PaymentIDs |-> payments[q].val.amount]

\* The holds of a payer are those of its open payments, finitely many.
LEMMA OpenHolds ==
  ASSUME CallInv, BookInv, EffectInv, NEW x \in Payers
  PROVE  /\ \A q \in PaymentIDs :
              q \in HeldFor(x) <=> /\ payments[q].val # None /\ payments[q].val.payer = x
                                   /\ payments[q].val.status = "AUTHORIZED"
         /\ IsFiniteSet(HeldFor(x)) /\ \A q \in HeldFor(x) : AmountOf[q] \in Int
         /\ SumFunction([q \in HeldFor(x) |-> payments[q].val.amount]) = SumFunctionOnSet(AmountOf, HeldFor(x))
         /\ SumFunctionOnSet(AmountOf, HeldFor(x)) \in Int
<1>1. ASSUME NEW q \in PaymentIDs, payments[q].val # None
      PROVE  /\ payments[q].val \in Payment /\ payments[q].new # None
             /\ holds[q].val = "HELD" <=> payments[q].val.status = "AUTHORIZED"
  <2>1. payments[q].val \in Payment /\ payments[q].new # None
    BY <1>1 DEF CallInv, TypeOK, RowOf, RowInserted
  <2>2. payments[q].val.status \in Statuses
    BY <2>1 DEF Payment
  <2> QED BY <1>1, <2>1, <2>2 DEF BookInv, Agrees, HoldFor, Statuses
<1>2. \A q \in PaymentIDs :
         q \in HeldFor(x) <=> /\ payments[q].val # None /\ payments[q].val.payer = x
                              /\ payments[q].val.status = "AUTHORIZED"
  BY <1>1 DEF HeldFor
<1>3. IsFiniteSet(HeldFor(x))
  <2>1. HeldFor(x) \subseteq Known
    BY <1>1 DEF HeldFor, Known
  <2> QED BY <2>1, FS_Subset DEF EffectInv
<1>4. \A q \in HeldFor(x) : AmountOf[q] \in Int /\ AmountOf[q] = payments[q].val.amount
  BY <1>1 DEF HeldFor, AmountOf, Payment
<1>5. SumFunction([q \in HeldFor(x) |-> AmountOf[q]]) = SumFunctionOnSet(AmountOf, HeldFor(x))
  BY <1>3, SumOver
<1>6. [q \in HeldFor(x) |-> payments[q].val.amount] = [q \in HeldFor(x) |-> AmountOf[q]]
  BY <1>4
<1>7. SumFunctionOnSet(AmountOf, HeldFor(x)) \in Int
  BY <1>3, <1>4, SumInt
<1> QED BY <1>2, <1>3, <1>4, <1>5, <1>6, <1>7

\* A step that commits no change to a payer's holds and held balance leaves
\* it backed.
LEMMA BackedSame ==
  ASSUME NEW x \in Payers, Backed(x),
         payers'[x].val.held = payers[x].val.held, HeldFor(x)' = HeldFor(x),
         \A q \in HeldFor(x) : payments'[q].val.amount = payments[q].val.amount
  PROVE  Backed(x)'
<1>1. [q \in HeldFor(x)' |-> payments'[q].val.amount] = [q \in HeldFor(x) |-> payments[q].val.amount]
  OBVIOUS
<1> QED BY <1>1 DEF Backed

\* What a COMMIT does to the committed book, in terms of status and events.
LEMMA CommitBook ==
  ASSUME CallInv, BookInv, EffectInv, NEW p \in Procs, Commit(p), NEW q \in PaymentIDs
  PROVE  /\ payments[q].val # None =>
              payments'[q].val # None /\ SameTerms(payments'[q].val, payments[q].val)
         /\ \A t \in EventTypes : /\ outbox[q].val[t] \in Int /\ outbox'[q].val[t] \in Int
                                  /\ outbox'[q].val[t] >= outbox[q].val[t]
         /\ payments[q].lock # p => payments'[q].val = payments[q].val
         /\ payments[q].lock = p =>
              /\ payments'[q].val = payments[q].new /\ payments'[q].val # None
              /\ payments'[q].val.status = StatusAfter(loc[p].op) /\ loc[p].op \in Operations
              /\ outbox'[q].val[EventOf(loc[p].op)] = outbox[q].val[EventOf(loc[p].op)] + 1
<1>0. /\ pc[p] = "commit" /\ Agrees(q) /\ outbox[q].val \in [EventTypes -> Int]
  BY DEF Commit, CallInv, BookInv, TypeOK, RowOf
<1>1. CASE payments[q].lock = p
  <2>0. payments'[q].val = payments[q].new
    BY <1>1, CommitEffect
  <2>1. /\ payments'[q].val = payments[q].new /\ payments'[q].val # None
        /\ payments'[q].val.status = StatusAfter(loc[p].op) /\ loc[p].op \in Operations
        /\ outbox'[q].val = Counted(outbox[q].val, EventOf(loc[p].op))
    BY <1>1, <2>0, CommitRows
  <2>2. payments[q].val # None => SameTerms(payments'[q].val, payments[q].val)
    BY <1>0, <1>1, <2>1, CommitTerms
  <2>3. EventOf(loc[p].op) \in EventTypes
    BY <2>1, StatusEvents
  <2>4. \A t \in EventTypes : outbox'[q].val[t] = IF t = EventOf(loc[p].op) THEN outbox[q].val[t] + 1 ELSE outbox[q].val[t]
    BY <1>0, <2>1, <2>3 DEF Counted
  <2> QED BY <1>0, <1>1, <2>1, <2>2, <2>3, <2>4
<1>2. CASE payments[q].lock # p
  <2>1. payments'[q] = payments[q] /\ outbox'[q] = outbox[q]
    BY <1>2, CommitRows
  <2> QED BY <1>0, <1>2, <2>1 DEF SameTerms
<1> QED BY <1>1, <1>2

\* Payments captured twice stay so.
LEMMA TwiceStays ==
  ASSUME CallInv, BookInv, EffectInv, NEW p \in Procs, Commit(p), NEW x, HasTwice(x)
  PROVE  HasTwice(x)'
<1> PICK q \in PaymentIDs : /\ payments[q].val # None /\ payments[q].val.payer = x
                            /\ outbox[q].val["captured"] + outbox[q].val["expired"] > 1
  BY DEF HasTwice
<1>1. /\ payments'[q].val # None /\ payments'[q].val.payer = x
      /\ \A t \in {"captured", "expired"} : /\ outbox[q].val[t] \in Int /\ outbox'[q].val[t] \in Int
                                            /\ outbox'[q].val[t] >= outbox[q].val[t]
  BY CommitBook DEF SameTerms, EventTypes
<1>2. outbox'[q].val["captured"] + outbox'[q].val["expired"] > 1
  BY <1>1
<1> QED BY <1>1, <1>2 DEF HasTwice

\* A capture of a payment that is no longer open is a second one.
LEMMA CaptureTwice ==
  ASSUME CallInv, BookInv, EffectInv, NEW p \in Procs, Commit(p), loc[p].op = "capture",
         NEW q \in PaymentIDs, payments[q].lock = p, payments[q].val # None,
         NEW x, payments[q].val.payer = x, payments[q].val.status # "AUTHORIZED"
  PROVE  HasTwice(x)'
<1>1. /\ payments'[q].val # None /\ payments'[q].val.payer = x
      /\ \A t \in EventTypes : /\ outbox[q].val[t] \in Int /\ outbox'[q].val[t] \in Int
                               /\ outbox'[q].val[t] >= outbox[q].val[t]
      /\ outbox'[q].val["captured"] = outbox[q].val["captured"] + 1
  BY CommitBook DEF SameTerms, EventOf
<1>2. Agrees(q) /\ payments[q].val.status \in Statuses
  BY DEF BookInv, CallInv, TypeOK, RowOf, Payment
<1>3. /\ outbox[q].val["captured"] >= 0 /\ outbox[q].val["expired"] >= 0
      /\ outbox[q].val["captured"] > 0 \/ outbox[q].val["expired"] > 0
  BY <1>2 DEF Agrees, EventTypes, EventFor, Statuses
<1>4. /\ outbox[q].val["captured"] \in Int /\ outbox'[q].val["captured"] \in Int
      /\ outbox[q].val["expired"] \in Int /\ outbox'[q].val["expired"] \in Int
      /\ outbox'[q].val["expired"] >= outbox[q].val["expired"]
  BY <1>1 DEF EventTypes
<1>5. outbox'[q].val["captured"] + outbox'[q].val["expired"] > 1
  BY <1>1, <1>3, <1>4
<1> QED BY <1>1, <1>5 DEF HasTwice

\* An authorization, a first capture and an expiry move holds and held
\* balance of a payer together.
LEMMA BackedCommit ==
  ASSUME CallInv, BookInv, EffectInv, CallInv', BookInv', EffectInv', BackedInv, NEW p \in Procs, Commit(p)
  PROVE  BackedInv'
<1>0. /\ pc[p] = "commit" /\ loc[p].op \in Operations /\ p # None
      /\ AuthorizeTerms(p) /\ CaptureTerms(p) /\ ExpireTerms(p) /\ PayerHeld(p) /\ IdFresh(p) /\ loc[p] \in Local
      /\ \A q \in PaymentIDs : ~Ahead(p, q)
  BY NoneAssumption, CommitEffect, CommitWhole DEF Commit, EffectInv, CallInv, TypeOK
<1>1. loc[p].op = "authorize" =>
        /\ loc[p].payer \in Payers /\ loc[p].pay.payer = loc[p].payer /\ loc[p].pay.amount = loc[p].amount
        /\ loc[p].pay.status = "AUTHORIZED"
  <2> SUFFICES ASSUME loc[p].op = "authorize"
               PROVE  /\ loc[p].payer \in Payers /\ loc[p].pay.payer = loc[p].payer
                      /\ loc[p].pay.amount = loc[p].amount /\ loc[p].pay.status = "AUTHORIZED"
    OBVIOUS
  <2>1. PICK t \in 0..now : loc[p].pay = NewAuthorizedPayment(loc[p].payer, loc[p].amount, t)
    BY <1>0 DEF AuthorizeTerms
  <2>2. loc[p].payer \in Payers
    BY <1>0 DEF AuthorizeTerms
  <2> QED BY <2>1, <2>2 DEF NewAuthorizedPayment
<1>2. \A y \in Payers : /\ payers[y].val # None <=> payers'[y].val # None
                        /\ payers[y].lock = p => payers[y].val # None /\ payers[y].val \in Payer
                        /\ payers'[y].val = IF payers[y].lock = p THEN payers[y].new ELSE payers[y].val
  BY <1>0, CommitEffect DEF CallInv, Paired, TypeOK, RowOf
<1>3. ASSUME NEW q \in PaymentIDs, payments'[q].val # None PROVE payers'[payments'[q].val.payer].val # None
  <2>1. CASE payments[q].val # None
    <3>1. payments'[q].val.payer = payments[q].val.payer /\ payments[q].val.payer \in Payers
      BY <2>1, CommitBook DEF SameTerms, CallInv, TypeOK, RowOf, Payment
    <3> QED BY <1>2, <2>1, <3>1 DEF BackedInv
  <2>2. CASE payments[q].val = None
    <3>1. payments[q].lock = p
      BY <1>3, <2>2, CommitBook
    <3>2. loc[p].op = "authorize" /\ payments'[q].val = loc[p].pay
      BY <1>0, <1>3, <2>2, <3>1, CommitTerms, CommitBook DEF Operations
    <3>3. loc[p].pay.payer = loc[p].payer /\ loc[p].payer \in Payers
      BY <1>1, <3>2
    <3>4. payers[loc[p].payer].lock = p
      BY <1>0, <3>2 DEF PayerHeld
    <3> QED BY <1>2, <3>2, <3>3, <3>4
  <2> QED BY <2>1, <2>2
<1>4. ASSUME NEW x \in Payers, payers'[x].val # None, ~HasTwice(x)' PROVE Backed(x)'
  <2>0. Backed(x) /\ payers[x].val # None
    BY <1>2, <1>4, TwiceStays DEF BackedInv, HeldBackedUnlessTwice
  <2> DEFINE f == AmountOf
             H == HeldFor(x)
             f1 == AmountOf'
             H1 == HeldFor(x)'
             Open(q) == /\ payments[q].val # None /\ payments[q].val.payer = x
                        /\ payments[q].val.status = "AUTHORIZED"
             Open1(q) == /\ payments'[q].val # None /\ payments'[q].val.payer = x
                         /\ payments'[q].val.status = "AUTHORIZED"
  <2>1. /\ payers[x].val.held = SumFunctionOnSet(f, H) /\ IsFiniteSet(H) /\ H \subseteq PaymentIDs
        /\ SumFunctionOnSet(f, H) \in Int /\ \A q \in H : f[q] \in Int
        /\ \A q \in PaymentIDs : q \in H <=> Open(q)
    BY <2>0, OpenHolds DEF Backed, HeldFor
  <2>2. \A q \in PaymentIDs : q \in H1 <=> Open1(q)
    <3> SUFFICES ASSUME NEW q \in PaymentIDs PROVE q \in H1 <=> Open1(q)
      OBVIOUS
    <3>1. CASE payments[q].lock = p
      <4>1. /\ payments'[q].val # None /\ payments'[q].val.status = StatusAfter(loc[p].op)
            /\ holds'[q].val = HoldFor(StatusAfter(loc[p].op))
        BY <3>1, CommitRows
      <4> QED BY <1>0, <4>1 DEF HeldFor, HoldFor, StatusAfter, Operations
    <3>2. CASE payments[q].lock # p
      BY <2>1, <3>2, CommitRows DEF HeldFor
    <3> QED BY <3>1, <3>2
  <2>3. \A q \in PaymentIDs : payments[q].val # None => f1[q] = f[q]
    BY CommitBook DEF AmountOf, SameTerms
  <2>4. ASSUME IsFiniteSet(H1), payers'[x].val.held = SumFunctionOnSet(f1, H1) PROVE Backed(x)'
    <3>1. \A q \in H1 : f1[q] = payments'[q].val.amount
      BY DEF AmountOf, HeldFor
    <3>2. [q \in H1 |-> payments'[q].val.amount] = [q \in H1 |-> f1[q]]
      BY <3>1
    <3>3. Backed(x)' <=> payers'[x].val.held = SumFunction([q \in H1 |-> payments'[q].val.amount])
      BY DEF Backed
    <3> HIDE DEF f1, H1
    <3>4. SumFunction([q \in H1 |-> f1[q]]) = SumFunctionOnSet(f1, H1)
      BY <2>4, SumOver
    <3> QED BY <2>4, <3>2, <3>3, <3>4
  <2>5. ASSUME H1 = H, payers'[x].val.held = payers[x].val.held PROVE Backed(x)'
    <3>1. \A q \in H : payments'[q].val.amount = payments[q].val.amount
      BY <2>1, CommitBook DEF SameTerms
    <3> QED BY <2>0, <2>5, <3>1, BackedSame
  <2>6. CASE payers[x].lock # p
    <3>1. ASSUME NEW q \in PaymentIDs, payments[q].lock = p PROVE ~Open(q) /\ ~Open1(q)
      <4>1. CASE loc[p].op = "expire"
        <5>1. Taken(p, x) = {}
          BY <1>0, <2>6, <4>1 DEF PayerHeld
        <5>2. payments[q].val.payer # x /\ payments[q].val # None
          BY <1>0, <3>1, <4>1, <5>1, CommitTerms DEF Taken, Batch
        <5> QED BY <3>1, <5>2, CommitBook DEF SameTerms
      <4>2. CASE loc[p].op # "expire"
        <5>1. payers[loc[p].payer].lock = p
          BY <1>0, <4>2 DEF PayerHeld
        <5>2. payments[q].new.payer = loc[p].payer
          <6>1. CASE loc[p].op = "authorize"
            BY <1>0, <1>1, <3>1, <6>1, CommitTerms
          <6>2. CASE loc[p].op = "capture"
            BY <1>0, <3>1, <6>2, CommitTerms DEF CaptureTerms, SameTerms
          <6> QED BY <1>0, <4>2, <6>1, <6>2 DEF Operations
        <5> QED BY <2>6, <3>1, <5>1, <5>2, CommitBook DEF SameTerms
      <4> QED BY <4>1, <4>2
    <3>2. \A q \in PaymentIDs : payments[q].lock # p => (Open(q) <=> Open1(q))
      BY CommitBook
    <3>3. H1 = H
      BY <2>1, <2>2, <3>1, <3>2 DEF HeldFor
    <3> QED BY <1>2, <2>5, <2>6, <3>3
  <2>7. CASE payers[x].lock = p /\ loc[p].op = "authorize"
    <3> PICK q \in PaymentIDs : q = loc[p].payment
      BY <1>0, <2>7 DEF IdFresh
    <3> DEFINE amount == loc[p].amount
    <3>1. /\ x = loc[p].payer /\ payers[x].new = Reserve(payers[x].val, amount)
          /\ payments[q].val = None /\ payments[q].lock = p /\ amount \in Int
          /\ payments[q].new = loc[p].pay /\ loc[p].pay.amount = amount /\ loc[p].pay.payer = x
          /\ loc[p].pay.status = "AUTHORIZED" /\ \A s \in PaymentIDs : payments[s].lock = p => s = q
      <4>1. x = loc[p].payer /\ payers[x].new = Reserve(payers[x].val, amount)
        BY <1>0, <2>7 DEF EffectInv, PayerMoved, Charged
      <4>2. payments[q].lock = p /\ amount \in Int
        BY <1>0, <2>7 DEF PayerHeld, Local
      <4> QED BY <1>0, <1>1, <2>7, <4>1, <4>2, CommitTerms
    <3>2. H1 = H \cup {q} /\ q \notin H /\ f1[q] = amount
      <4>1. Open1(q) /\ ~Open(q)
        BY <3>1, CommitBook
      <4>2. \A s \in PaymentIDs : s # q => (Open(s) <=> Open1(s))
        BY <3>1, CommitBook
      <4>3. f1[q] = amount
        BY <3>1, CommitBook DEF AmountOf
      <4> QED BY <2>1, <2>2, <4>1, <4>2, <4>3 DEF HeldFor
    <3>3. \A s \in H : f1[s] = f[s]
      BY <2>1, <2>3
    <3>4. IsFiniteSet(H1) /\ SumFunctionOnSet(f1, H1) = SumFunctionOnSet(f, H) + amount
      <4> HIDE DEF f, f1, H, H1, amount
      <4>1. IsFiniteSet(H1)
        BY <2>1, <3>2, FS_AddElement
      <4>2. SumFunctionOnSet(f1, H) = SumFunctionOnSet(f, H)
        BY <2>1, <3>3, SumSame
      <4>3. \A s \in H \cup {q} : f1[s] \in Int
        BY <2>1, <3>1, <3>2, <3>3
      <4>4. SumFunctionOnSet(f1, H \cup {q}) = SumFunctionOnSet(f1, H) + f1[q]
        <5>1. IsFiniteSet(H) /\ q \notin H
          BY <2>1, <3>2
        <5> QED BY <4>3, <5>1, SumAdd
      <4> QED BY <3>2, <4>1, <4>2, <4>4
    <3>5. payers'[x].val.held = payers[x].val.held + amount
      BY <1>2, <2>7, <3>1 DEF Reserve
    <3> QED BY <2>1, <2>4, <3>4, <3>5
  <2>8. CASE payers[x].lock = p /\ loc[p].op = "capture"
    <3> PICK q \in PaymentIDs : q = loc[p].payment
      BY <1>0, <2>8 DEF CaptureTerms
    <3> DEFINE amount == loc[p].amount
    <3>1. /\ x = loc[p].payer /\ payers[x].new = CaptureHeld(payers[x].val, amount)
          /\ payments[q].val # None /\ payments[q].lock = p
          /\ payments[q].val.payer = x /\ payments[q].val.amount = amount
          /\ \A s \in PaymentIDs : payments[s].lock = p => s = q
      <4>1. x = loc[p].payer /\ payers[x].new = CaptureHeld(payers[x].val, amount)
        BY <1>0, <2>8 DEF EffectInv, PayerMoved, Charged
      <4>2. payments[q].lock = p /\ payments[q].val # None
        BY <1>0, <2>8 DEF PayerHeld, CaptureTerms
      <4> QED BY <1>0, <2>8, <4>1, <4>2, CommitTerms DEF CaptureTerms
    <3>2. payments[q].val.status = "AUTHORIZED"
      BY <1>4, <2>8, <3>1, CaptureTwice
    <3>3. H1 = H \ {q} /\ q \in H /\ f[q] = amount
      <4>1. Open(q) /\ ~Open1(q)
        BY <2>8, <3>1, <3>2, CommitBook DEF StatusAfter
      <4>2. \A s \in PaymentIDs : s # q => (Open(s) <=> Open1(s))
        BY <3>1, CommitBook
      <4>3. f[q] = amount
        BY <3>1 DEF AmountOf
      <4> QED BY <2>1, <2>2, <4>1, <4>2, <4>3 DEF HeldFor
    <3>4. \A s \in H : f1[s] = f[s]
      BY <2>1, <2>3
    <3>5. IsFiniteSet(H1) /\ SumFunctionOnSet(f1, H1) = SumFunctionOnSet(f, H) - amount
      <4> HIDE DEF f, f1, H, H1, amount
      <4>1. IsFiniteSet(H1) /\ H1 \subseteq H
        BY <2>1, <3>3, FS_Subset
      <4>2. \A s \in H1 : f1[s] = f[s] /\ f[s] \in Int
        BY <2>1, <3>4, <4>1
      <4>3. SumFunctionOnSet(f1, H1) = SumFunctionOnSet(f, H1) /\ SumFunctionOnSet(f, H1) \in Int
        BY <4>1, <4>2, SumSame, SumInt
      <4>4. SumFunctionOnSet(f, H) = f[q] + SumFunctionOnSet(f, H \ {q})
        BY <2>1, <3>3, SumRemove
      <4>5. amount \in Int
        BY <2>1, <3>3
      <4> QED BY <3>3, <4>1, <4>3, <4>4, <4>5
    <3>6. payers'[x].val.held = payers[x].val.held - amount
      BY <1>2, <2>8, <3>1 DEF CaptureHeld
    <3> QED BY <2>1, <2>4, <3>5, <3>6
  <2>9. CASE payers[x].lock = p /\ loc[p].op = "expire"
    <3> DEFINE T == Taken(p, x)
    <3>1. payers'[x].val.held = payers[x].val.held + -TakenTotal(p, x)
      <4>1. payers[x].new = Abstract!Moved(payers[x].val, TakenTotal(p, x), -TakenTotal(p, x), Cardinality(T))
        BY <1>0, <2>9 DEF EffectInv, PayerMoved
      <4> QED BY <1>2, <2>9, <4>1 DEF Abstract!Moved
    <3>2. /\ T \subseteq H /\ H1 = H \ T /\ \A q \in T : f[q] = payments[q].val.amount
      <4>1. \A q \in PaymentIDs : q \in T <=> payments[q].lock = p /\ payments[q].val.payer = x
        BY <1>0 DEF Taken, Batch
      <4>2. \A q \in PaymentIDs : q \in T => Open(q)
        BY <2>9, <4>1, CommitRows
      <4>3. \A q \in PaymentIDs : payments[q].lock = p => ~Open1(q)
        BY <2>9, CommitBook DEF StatusAfter
      <4>4. \A q \in PaymentIDs : payments[q].lock # p => (Open(q) <=> Open1(q))
        BY CommitBook
      <4>5. T \subseteq PaymentIDs
        BY DEF Taken, Batch
      <4>6. T \subseteq H /\ H1 = H \ T
        BY <2>1, <2>2, <4>1, <4>2, <4>3, <4>4, <4>5 DEF HeldFor
      <4> QED BY <4>5, <4>6 DEF AmountOf
    <3>3. TakenTotal(p, x) = SumFunctionOnSet(f, T)
      <4>1. [q \in T |-> payments[q].val.amount] = [q \in T |-> f[q]]
        BY <3>2
      <4>2. TakenTotal(p, x) = SumFunction([q \in T |-> f[q]])
        BY <4>1 DEF TakenTotal
      <4>3. IsFiniteSet(T)
        BY <2>1, <3>2, FS_Subset
      <4> HIDE DEF f, T
      <4> QED BY <4>2, <4>3, SumOver
    <3>4. \A s \in H : f1[s] = f[s]
      BY <2>1, <2>3
    <3>5. IsFiniteSet(H1) /\ SumFunctionOnSet(f1, H1) = SumFunctionOnSet(f, H) + -TakenTotal(p, x)
      <4> DEFINE total == TakenTotal(p, x)
      <4>0. total = SumFunctionOnSet(f, T)
        BY <3>3
      <4> HIDE DEF f, f1, H, H1, T, total
      <4>1. IsFiniteSet(H1) /\ H1 \subseteq H /\ IsFiniteSet(T)
        BY <2>1, <3>2, FS_Subset
      <4>2. \A s \in H1 : f1[s] = f[s] /\ f[s] \in Int
        BY <2>1, <3>4, <4>1
      <4>3. SumFunctionOnSet(f1, H1) = SumFunctionOnSet(f, H1) /\ SumFunctionOnSet(f, H1) \in Int
        BY <4>1, <4>2, SumSame, SumInt
      <4>4. SumFunctionOnSet(f, H) = SumFunctionOnSet(f, T) + SumFunctionOnSet(f, H \ T)
        BY <2>1, <3>2, SumSplit
      <4>5. SumFunctionOnSet(f, T) \in Int
        BY <2>1, <3>2, <4>1, SumInt
      <4>6. SumFunctionOnSet(f1, H1) = SumFunctionOnSet(f, H) + -total
        BY <3>2, <4>0, <4>3, <4>4, <4>5
      <4> QED BY <4>1, <4>6 DEF total
    <3> QED BY <2>1, <2>4, <3>1, <3>5
  <2> QED BY <1>0, <2>6, <2>7, <2>8, <2>9 DEF Operations
<1> QED BY <1>3, <1>4 DEF BackedInv, HeldBackedUnlessTwice

\* A payer is created with nothing held, and no payment can name it before.
LEMMA BackedCreated ==
  ASSUME CallInv, BookInv, EffectInv, BackedInv, NEW x \in Payers, NEW b, CreatePayer(x, b)
  PROVE  Backed(x)'
<1>1. payers'[x].val.held = 0 /\ payers[x].val = None /\ UNCHANGED <<payments, holds>>
  BY DEF CreatePayer, NewPayer, Unlocked, CallInv, TypeOK
<1>2. HeldFor(x) = {} /\ HeldFor(x)' = {}
  <2>1. HeldFor(x) = {}
    BY <1>1 DEF BackedInv, HeldFor
  <2> QED BY <1>1, <2>1 DEF HeldFor
<1>3. SumFunction([q \in HeldFor(x) |-> payments[q].val.amount]) = 0
  <2>1. SumFunction([q \in HeldFor(x) |-> payments[q].val.amount]) = SumFunctionOnSet(AmountOf, HeldFor(x))
    BY OpenHolds
  <2>2. SumFunctionOnSet(AmountOf, {}) = 0
    BY FS_EmptySet, SumFirst
  <2> QED BY <1>2, <2>1, <2>2
<1>4. [q \in HeldFor(x)' |-> payments'[q].val.amount] = [q \in HeldFor(x) |-> payments[q].val.amount]
  BY <1>1, <1>2
<1> QED BY <1>1, <1>3, <1>4 DEF Backed

\* No other step changes what is committed of holds and held balances.
LEMMA BackedStep ==
  ASSUME CallInv, BookInv, EffectInv, CallInv', BookInv', EffectInv', BackedInv, [Next]_vars
  PROVE  BackedInv'
<1>1. CASE \E p \in Procs : Commit(p)
  BY <1>1, BackedCommit
<1>2. CASE \A p \in Procs : ~Commit(p)
  <2>1. \A q \in PaymentIDs : /\ payments'[q].val = payments[q].val /\ holds'[q].val = holds[q].val
                              /\ outbox'[q].val = outbox[q].val
    BY <1>2, CommittedByCommit
  <2>2. \A x \in Payers : HeldFor(x)' = HeldFor(x) /\ HasTwice(x)' = HasTwice(x)
    BY <2>1 DEF HeldFor, HasTwice
  <2>3. ASSUME NEW x \in Payers, payers[x].val # None, payers'[x].val = payers[x].val, ~HasTwice(x)'
        PROVE  Backed(x)'
    <3>1. Backed(x) /\ HeldFor(x) \subseteq PaymentIDs
      BY <2>2, <2>3 DEF BackedInv, HeldBackedUnlessTwice, HeldFor
    <3> QED BY <2>1, <2>2, <2>3, <3>1, BackedSame
  <2>4. \A q \in PaymentIDs : payments[q].val # None => payments[q].val.payer \in Payers
    BY DEF CallInv, TypeOK, RowOf, Payment
  <2>5. CASE \E x \in Payers, b \in Openings : CreatePayer(x, b)
    <3> PICK y \in Payers, b \in Openings : CreatePayer(y, b)
      BY <2>5
    <3>1. \A x \in Payers : x # y => payers'[x].val = payers[x].val
      BY DEF CreatePayer, CallInv, TypeOK
    <3>2. payers[y].val = None
      BY DEF CreatePayer
    <3>3. \A q \in PaymentIDs : payments'[q].val # None => payers'[payments'[q].val.payer].val # None
      BY <2>1, <2>4, <3>1, <3>2 DEF BackedInv
    <3>4. \A x \in Payers : payers'[x].val # None /\ ~HasTwice(x)' => Backed(x)'
      BY <2>3, <3>1, BackedCreated
    <3> QED BY <3>3, <3>4 DEF BackedInv, HeldBackedUnlessTwice
  <2>6. CASE \A x \in Payers, b \in Openings : ~CreatePayer(x, b)
    <3>1. \A x \in Payers : payers'[x].val = payers[x].val
      BY <1>2, <2>6, PayerByCommit
    <3>2. \A q \in PaymentIDs : payments'[q].val # None => payers'[payments'[q].val.payer].val # None
      BY <2>1, <2>4, <3>1 DEF BackedInv
    <3>3. \A x \in Payers : payers'[x].val # None /\ ~HasTwice(x)' => Backed(x)'
      BY <2>3, <3>1
    <3> QED BY <3>2, <3>3 DEF BackedInv, HeldBackedUnlessTwice
  <2> QED BY <2>5, <2>6
<1> QED BY <1>1, <1>2

\* Only a payment captured twice leaves a held balance its holds do not back:
\* in every other race of authorize, capture and expiry, UpdatePayer and the
\* hold of the same transaction move the same amount.
THEOREM BackedCorrect == Spec => []HeldBackedUnlessTwice
<1>1. Init => BackedInv
  BY DEF Init, Unlocked, BackedInv, HeldBackedUnlessTwice
<1>2. CallInv /\ BookInv /\ EffectInv /\ BackedInv /\ [Next]_vars /\ (CallInv /\ BookInv /\ EffectInv)' => BackedInv'
  BY BackedStep
<1>3. BackedInv => HeldBackedUnlessTwice
  BY DEF BackedInv
<1> QED BY <1>1, <1>2, <1>3, EffectSafe, PTL DEF Spec
=============================================================================
