------------------------- MODULE MemPaymentsProofs -------------------------
(***************************************************************************)
(* Theorems about MemPayments, for any number of calls, payers and         *)
(* payments: what the mutex of each map and the version check still        *)
(* guarantee when there is no transaction around a call.                   *)
(***************************************************************************)
EXTENDS MemPayments, PaymentsProofs, SumTheorems

\* The map f has a value without lock for every key.
Map(f, keys) == f = [k \in keys |-> Unlocked(f[k].val)]

\* The maps of the store; a payer and its account come together.
Maps ==
  /\ Map(payers, Payers) /\ Map(posted, Payers)
  /\ Map(payments, PaymentIDs) /\ Map(holds, PaymentIDs) /\ Map(outbox, PaymentIDs)
  /\ \A x \in Payers : payers[x].val = None <=> posted[x].val = None

\* The locals a call needs at its next statement have been set.
MemLocals(p) ==
  /\ pc[p] = "idle" => loc[p] = NoCall
  /\ pc[p] # "idle" => /\ loc[p].op \in {"authorize", "capture"}
                       /\ loc[p].payment \in PaymentIDs /\ loc[p].payer \in Payers
  /\ pc[p] \in {"create_payment", "create_hold"} => loc[p].op = "authorize"
  /\ pc[p] \in {"get_hold", "update_hold", "update_payment"} => loc[p].op = "capture"
  /\ loc[p].op = "capture" => loc[p].pay \in Payment /\ payments[loc[p].payment].val # None
  /\ pc[p] \in Writing \cup {"update_payer"} =>
       /\ loc[p].acct \in Payer /\ loc[p].pay \in Payment /\ loc[p].amount > 0
       /\ loc[p].pay.status = IF loc[p].op = "authorize" THEN "AUTHORIZED" ELSE "CAPTURED"
       /\ payers[loc[p].payer].val # None

\* The id of a payment not yet created belongs to the call that authorizes
\* it, and no two calls authorize the same payment.
MemIds(p) ==
  loc[p].op = "authorize" =>
    /\ pc[p] \in {"get_payer", "update_payer", "create_payment"} =>
         /\ payments[loc[p].payment].val = None
         /\ \A r \in Procs \ {p} : loc[r].payment # loc[p].payment
    /\ pc[p] \in {"create_hold", "create_event"} => payments[loc[p].payment].val # None
    /\ \A r \in Procs \ {p} : loc[r].op = "authorize" => loc[r].payment # loc[p].payment

\* The record a call is about to write was computed from the payer's current
\* one, or its version is too old to be written.
MemRead(p) ==
  pc[p] = "update_payer" =>
    LET r == payers[loc[p].payer].val IN
    /\ loc[p].acct.version <= r.version + 1
    /\ MemVersionMatches(p) => loc[p].acct = Charged(loc[p].op, r, loc[p].amount)
    /\ loc[p].acct.available >= 0 /\ loc[p].acct.held >= 0

MemCallInv ==
  /\ MemTypeOK
  /\ Maps
  /\ \A p \in Procs : MemLocals(p) /\ MemIds(p) /\ MemRead(p)
  /\ NoOverdraft

\* The hold a capture has found HELD, or has captured itself.
MemHold(p) ==
  /\ pc[p] = "get_payer" /\ loc[p].op = "capture" /\ loc[p].hold = "HELD"
        => holds[loc[p].payment].val \in {"HELD", "CAPTURED"}
  /\ loc[p].op = "capture" /\ pc[p] \in {"update_payer", "update_hold"}
        => holds[loc[p].payment].val \in {"HELD", "CAPTURED"}
  /\ pc[p] = "update_payment" => holds[loc[p].payment].val = "CAPTURED"
  /\ pc[p] = "create_hold" => holds[loc[p].payment].val = None

\* Some call at one of these statements works on payment q.
At(labels, q) == \E p \in Procs : pc[p] \in labels /\ loc[p].payment = q

\* A payment and its hold agree, but for a call between its two writes.
MemBook(q) ==
  LET pay == payments[q].val
      hold == holds[q].val
  IN  /\ pay = None => hold = None
      /\ pay # None => /\ pay.status \in {"AUTHORIZED", "CAPTURED"}
                       /\ hold \in {None, "HELD", "CAPTURED"}
                       /\ pay.status = "CAPTURED" => hold = "CAPTURED"
      /\ pay # None /\ q \notin torn =>
           /\ hold = None => At({"create_hold"}, q)
           /\ hold = "CAPTURED" /\ pay.status = "AUTHORIZED" => At({"update_payment"}, q)

MemBookInv ==
  /\ \A p \in Procs : MemHold(p)
  /\ \A q \in PaymentIDs : MemBook(q)

\* The calls that have written payer x and still owe the event for it.
Owed(op, x) == {p \in Procs : pc[p] \in Writing /\ loc[p].op = op /\ loc[p].payer = x}

\* The amount of each call, and what the calls above add up to.
AmountOfCall == [p \in Procs |-> loc[p].amount]
OwedTotal(op, x) == SumFunctionOnSet(AmountOfCall, Owed(op, x))

\* With what is owed posted too, the account of x reconciles.
MemReconciles(x) ==
  LET r == payers[x].val
      a == posted[x].val
      reserved == OwedTotal("authorize", x)
      captured == OwedTotal("capture", x)
  IN  /\ r.available = a.opening - (a.authorized + reserved) + a.expired
      /\ r.held = a.authorized + reserved - (a.captured + captured) - a.expired
      /\ r.version = a.entries + Cardinality(Owed("authorize", x)) + Cardinality(Owed("capture", x))

\* What a capture in flight has taken is not missing, and what one that was
\* cut off has taken is gone.
MemFunds(x) ==
  payers[x].val.available + payers[x].val.held + posted[x].val.captured
    + OwedTotal("capture", x) <= posted[x].val.opening

MemSumInv ==
  /\ IsFiniteSet({p \in Procs : pc[p] # "idle"})
  /\ \A x \in Payers : payers[x].val # None =>
       MemFunds(x) /\ (x \notin torn => MemReconciles(x))

-----------------------------------------------------------------------------
(* The calls.                                                              *)

\* The map f with the value v for key k.
Put(f, k, v) == [f EXCEPT ![k] = Unlocked(v)]

\* A map after the value of one key has been set.
LEMMA MapWrite ==
  ASSUME NEW S, NEW f, Map(f, S), NEW x \in S, NEW v, NEW g, g = Put(f, x, v)
  PROVE  /\ Map(g, S) /\ g[x].val = v
         /\ \A s \in S \ {x} : g[s] = f[s]
<1>1. DOMAIN f = S /\ \A s \in S : f[s] = Unlocked(f[s].val)
  BY DEF Map
<1>2. \A s \in S : g[s] = IF s = x THEN Unlocked(v) ELSE f[s]
  BY <1>1 DEF Put
<1>3. \A s \in S : g[s] = Unlocked(g[s].val)
  BY <1>1, <1>2 DEF Unlocked
<1>4. g[x].val = v
  BY <1>2 DEF Unlocked
<1>5. Map(g, S)
  <2>1. g = [s \in S |-> g[s]]
    BY <1>1 DEF Put
  <2> QED BY <1>3, <2>1 DEF Map
<1> QED BY <1>2, <1>4, <1>5

\* No row is locked, so a ROLLBACK only ends the call.
LEMMA NothingToRollBack ==
  ASSUME Maps, NEW p \in Procs, RollbackTables(p)
  PROVE  UNCHANGED tables
<1>1. ASSUME NEW v PROVE RolledBack(Unlocked(v), p) = Unlocked(v)
  BY DEF RolledBack, Unlocked
<1>2. payers' = payers /\ posted' = posted
  BY <1>1 DEF Map, Maps, RollbackTables
<1>3. payments' = payments /\ holds' = holds /\ outbox' = outbox
  BY <1>1 DEF Map, Maps, RollbackTables
<1> QED BY <1>2, <1>3 DEF tables

\* What a call sees of the maps is what they hold.
LEMMA SeenValue ==
  ASSUME Maps, NEW p \in Procs
  PROVE  /\ \A x \in Payers : Seen(payers[x], p) = payers[x].val
         /\ \A q \in PaymentIDs : Seen(holds[q], p) = holds[q].val
<1>1. ASSUME NEW v PROVE Seen(Unlocked(v), p) = Unlocked(v).val
  BY DEF Seen, Unlocked
<1> QED BY <1>1 DEF Map, Maps

\* The end of a call.
LEMMA MemEnds ==
  ASSUME MemCallInv, NEW p \in Procs, EndCall(p)
  PROVE  /\ pc' \in [Procs -> MemLabels] /\ loc' \in [Procs -> Local] /\ UNCHANGED <<merchants, now>>
         /\ pc'[p] = "idle" /\ loc'[p] = NoCall
         /\ \A r \in Procs \ {p} : pc'[r] = pc[r] /\ loc'[r] = loc[r]
<1>1. NoCall \in Local /\ "idle" \in MemLabels
  BY DEF NoCall, Call, Local, MemLabels
<1> QED BY <1>1 DEF MemCallInv, MemTypeOK, EndCall

\* The next statement of a call.
LEMMA MemGoesTo ==
  ASSUME MemCallInv, NEW p \in Procs, NEW label \in MemLabels, GoTo(p, label)
  PROVE  /\ pc' \in [Procs -> MemLabels] /\ UNCHANGED <<merchants, now>> /\ pc'[p] = label
         /\ \A r \in Procs \ {p} : pc'[r] = pc[r]
BY DEF MemCallInv, MemTypeOK, GoTo

\* The locals of a call are set.
LEMMA MemSets ==
  ASSUME MemCallInv, NEW p \in Procs, NEW l \in Local, loc' = [loc EXCEPT ![p] = l]
  PROVE  /\ loc' \in [Procs -> Local] /\ loc'[p] = l
         /\ \A r \in Procs \ {p} : loc'[r] = loc[r]
BY DEF MemCallInv, MemTypeOK

\* The locals after StartAuthorize and StartCapture.
LEMMA MemStartSets ==
  ASSUME MemCallInv, NEW p \in Procs, MemStartAuthorize(p) \/ MemStartCapture(p)
  PROVE  /\ UNCHANGED <<tables, torn, merchants, now>> /\ pc[p] = "idle"
         /\ pc' \in [Procs -> MemLabels] /\ loc' \in [Procs -> Local]
         /\ \A r \in Procs \ {p} : pc'[r] = pc[r] /\ loc'[r] = loc[r]
         /\ loc'[p].payment \in PaymentIDs /\ loc'[p].payer \in Payers
         /\ \/ /\ pc'[p] = "get_payer" /\ loc'[p].op = "authorize"
               /\ FreshID(loc'[p].payment)
            \/ /\ pc'[p] = "get_hold" /\ loc'[p].op = "capture"
               /\ payments[loc'[p].payment].val # None /\ loc'[p].pay = payments[loc'[p].payment].val
<1>1. CASE MemStartAuthorize(p)
  <2>1. PICK m \in Merchants, x \in Payers, a \in Amounts, q \in PaymentIDs : StartAuthorize(p, m, x, a, q)
    BY <1>1 DEF MemStartAuthorize
  <2> DEFINE l == Call("authorize", q, x, a, None, {})
  <2>2. l \in Local /\ l.payment = q /\ l.payer = x /\ l.op = "authorize"
    BY ConstantsAssumption DEF Call, Local, Operations
  <2>3. loc' = [loc EXCEPT ![p] = l] /\ GoTo(p, "get_payer") /\ pc[p] = "idle" /\ FreshID(q)
    BY <2>1 DEF StartAuthorize
  <2> HIDE DEF l
  <2>4. /\ loc' \in [Procs -> Local] /\ loc'[p] = l
        /\ \A r \in Procs \ {p} : loc'[r] = loc[r]
    BY <2>2, <2>3, MemSets
  <2>5. /\ pc' \in [Procs -> MemLabels] /\ UNCHANGED <<merchants, now>> /\ pc'[p] = "get_payer"
        /\ \A r \in Procs \ {p} : pc'[r] = pc[r]
    BY <2>3, MemGoesTo DEF MemLabels
  <2>6. UNCHANGED <<tables, torn>>
    BY <1>1, <2>1 DEF MemStartAuthorize, StartAuthorize
  <2> QED BY <2>2, <2>3, <2>4, <2>5, <2>6
<1>2. CASE MemStartCapture(p)
  <2>1. PICK q \in PaymentIDs : StartCapture(p, q)
    BY <1>2 DEF MemStartCapture
  <2> DEFINE pay == payments[q].val
             l == Call("capture", q, pay.payer, pay.amount, pay, {})
  <2>2. loc' = [loc EXCEPT ![p] = l] /\ GoTo(p, "get_hold") /\ pc[p] = "idle" /\ payments[q].val # None
    BY <2>1 DEF StartCapture
  <2>3. pay \in Payment
    BY <2>2 DEF MemCallInv, MemTypeOK
  <2>4. l \in Local /\ l.payment = q /\ l.payer \in Payers /\ l.op = "capture" /\ l.pay = payments[q].val
    BY <2>3 DEF Call, Local, Operations, Payment
  <2> HIDE DEF l, pay
  <2>5. /\ loc' \in [Procs -> Local] /\ loc'[p] = l
        /\ \A r \in Procs \ {p} : loc'[r] = loc[r]
    BY <2>2, <2>4, MemSets
  <2>6. /\ pc' \in [Procs -> MemLabels] /\ UNCHANGED <<merchants, now>> /\ pc'[p] = "get_hold"
        /\ \A r \in Procs \ {p} : pc'[r] = pc[r]
    BY <2>2, MemGoesTo DEF MemLabels
  <2>7. UNCHANGED <<tables, torn>>
    BY <1>2, <2>1 DEF MemStartCapture, StartCapture
  <2> QED BY <2>2, <2>4, <2>5, <2>6, <2>7
<1> QED BY <1>1, <1>2

\* The locals after GetHold: the hold as it is now, or none.
LEMMA MemGetHoldSets ==
  ASSUME MemCallInv, NEW p \in Procs, MemGetHold(p)
  PROVE  /\ UNCHANGED <<tables, torn, merchants, now>> /\ pc[p] = "get_hold" /\ loc[p].op = "capture"
         /\ pc' \in [Procs -> MemLabels] /\ loc' \in [Procs -> Local] /\ pc'[p] = "get_payer"
         /\ loc'[p] = [loc[p] EXCEPT !.hold = holds[loc[p].payment].val]
         /\ \A r \in Procs \ {p} : pc'[r] = pc[r] /\ loc'[r] = loc[r]
<1>1. /\ pc[p] = "get_hold" /\ MemLocals(p) /\ loc[p] \in Local /\ UNCHANGED <<tables, torn>>
      /\ GoTo(p, "get_payer")
  BY DEF MemGetHold, GetHold, MemCallInv, MemTypeOK
<1>2. loc[p].op = "capture" /\ loc[p].payment \in PaymentIDs
  BY <1>1 DEF MemLocals
<1>3. Seen(holds[loc[p].payment], p) = holds[loc[p].payment].val /\ holds[loc[p].payment].val \in HoldStatuses \cup {None}
  BY <1>2, SeenValue DEF MemCallInv, MemTypeOK
<1> DEFINE l == [loc[p] EXCEPT !.hold = holds[loc[p].payment].val]
<1>4. loc' = [loc EXCEPT ![p] = l]
  BY <1>1, <1>2, <1>3 DEF MemGetHold, GetHold
<1>5. l \in Local
  BY <1>1, <1>3 DEF Local
<1> HIDE DEF l
<1>6. /\ loc' \in [Procs -> Local] /\ loc'[p] = l
      /\ \A r \in Procs \ {p} : loc'[r] = loc[r]
  BY <1>4, <1>5, MemSets
<1>7. /\ pc' \in [Procs -> MemLabels] /\ UNCHANGED <<merchants, now>> /\ pc'[p] = "get_payer"
      /\ \A r \in Procs \ {p} : pc'[r] = pc[r]
  BY <1>1, MemGoesTo DEF MemLabels
<1> QED BY <1>1, <1>2, <1>6, <1>7 DEF l

\* A failed check of GetPayer ends the call and writes nothing.
LEMMA MemGetPayerFails ==
  ASSUME MemCallInv, NEW p \in Procs, MemGetPayer(p), ~Admits(p, Seen(payers[loc[p].payer], p))
  PROVE  pc[p] = "get_payer" /\ EndCall(p) /\ UNCHANGED <<tables, torn>>
<1>1. pc[p] = "get_payer" /\ RollbackTables(p) /\ EndCall(p) /\ UNCHANGED torn
  BY DEF MemGetPayer, GetPayer, Rollback
<1> QED BY <1>1, NothingToRollBack DEF MemCallInv

\* The locals after GetPayer and its checks: the payer and the payment to be
\* written, the payer computed from the one read just now.
LEMMA MemGetPayerSets ==
  ASSUME MemCallInv, NEW p \in Procs, MemGetPayer(p), Admits(p, Seen(payers[loc[p].payer], p)),
         NEW x, x = loc[p].payer, NEW r, r = payers[x].val
  PROVE  /\ UNCHANGED <<tables, torn, merchants, now>> /\ pc[p] = "get_payer" /\ x \in Payers
         /\ loc[p].op \in {"authorize", "capture"} /\ Admits(p, r) /\ r \in Payer
         /\ pc' \in [Procs -> MemLabels] /\ loc' \in [Procs -> Local] /\ pc'[p] = "update_payer"
         /\ loc'[p].op = loc[p].op /\ loc'[p].payment = loc[p].payment /\ loc'[p].payer = x
         /\ loc'[p].amount = loc[p].amount /\ loc'[p].hold = loc[p].hold
         /\ loc'[p].acct = Charged(loc[p].op, r, loc[p].amount) /\ loc'[p].acct \in Payer
         /\ loc'[p].pay = Advanced(p) /\ loc'[p].pay \in Payment
         /\ \A s \in Procs \ {p} : pc'[s] = pc[s] /\ loc'[s] = loc[s]
<1>1. /\ pc[p] = "get_payer" /\ MemLocals(p) /\ loc[p] \in Local /\ UNCHANGED <<tables, torn>>
      /\ GoTo(p, "update_payer") /\ now \in Int
  BY DEF MemGetPayer, GetPayer, MemCallInv, MemTypeOK
<1>2. loc[p].op \in {"authorize", "capture"} /\ x \in Payers
  BY <1>1 DEF MemLocals
<1>3. Seen(payers[x], p) = r
  BY <1>2, SeenValue DEF MemCallInv
<1>4. Admits(p, r) /\ r \in Payer
  BY <1>2, <1>3 DEF Admits, MemCallInv, MemTypeOK
<1>5. loc[p].op = "capture" => loc[p].pay \in Payment
  BY <1>1 DEF MemLocals
<1>6. Charged(loc[p].op, r, loc[p].amount) \in Payer /\ Advanced(p) \in Payment
  BY <1>1, <1>2, <1>4, <1>5, ChargedType, AdvancedType DEF Local, Operations
<1> DEFINE d == [loc[p] EXCEPT !.acct = Charged(loc[p].op, r, loc[p].amount)]
           l == [d EXCEPT !.pay = Advanced(p)]
<1>7. d \in Local /\ d.acct = Charged(loc[p].op, r, loc[p].amount) /\ d.op = loc[p].op /\ d.payment = loc[p].payment
      /\ d.payer = x /\ d.amount = loc[p].amount /\ d.hold = loc[p].hold
  BY <1>1, <1>6 DEF Local
<1>8. loc' = [loc EXCEPT ![p] = l]
  BY <1>1, <1>3, <1>4 DEF MemGetPayer, GetPayer
<1> HIDE DEF d
<1>9. /\ l \in Local /\ l.op = loc[p].op /\ l.payment = loc[p].payment /\ l.payer = x
      /\ l.amount = loc[p].amount /\ l.hold = loc[p].hold
      /\ l.acct = Charged(loc[p].op, r, loc[p].amount) /\ l.pay = Advanced(p)
  BY <1>6, <1>7 DEF Local
<1> HIDE DEF l
<1>10. /\ loc' \in [Procs -> Local] /\ loc'[p] = l
       /\ \A s \in Procs \ {p} : loc'[s] = loc[s]
  BY <1>8, <1>9, MemSets
<1>11. /\ pc' \in [Procs -> MemLabels] /\ UNCHANGED <<merchants, now>> /\ pc'[p] = "update_payer"
       /\ \A s \in Procs \ {p} : pc'[s] = pc[s]
  BY <1>1, MemGoesTo DEF MemLabels
<1> QED BY <1>1, <1>2, <1>4, <1>6, <1>9, <1>10, <1>11

\* A write to one of the maps by a call that goes on.
LEMMA MemWrites ==
  ASSUME MemCallInv, NEW p \in Procs
  PROVE  /\ MemUpdatePayer(p) =>
              /\ payers' = [payers EXCEPT ![loc[p].payer] = Unlocked(loc[p].acct)]
              /\ pc[p] = "update_payer" /\ pc'[p] = IF loc[p].op = "authorize" THEN "create_payment" ELSE "update_hold"
              /\ UNCHANGED <<payments, holds, outbox, posted>>
         /\ MemCreatePayment(p) =>
              /\ payments' = [payments EXCEPT ![loc[p].payment] = Unlocked(loc[p].pay)]
              /\ pc[p] = "create_payment" /\ pc'[p] = "create_hold"
              /\ UNCHANGED <<payers, holds, outbox, posted>>
         /\ MemCreateHold(p) =>
              /\ holds' = [holds EXCEPT ![loc[p].payment] = Unlocked("HELD")]
              /\ pc[p] = "create_hold" /\ pc'[p] = "create_event"
              /\ UNCHANGED <<payers, payments, outbox, posted>>
         /\ MemUpdateHold(p) =>
              /\ holds' = [holds EXCEPT ![loc[p].payment] = Unlocked("CAPTURED")]
              /\ pc[p] = "update_hold" /\ pc'[p] = "update_payment"
              /\ UNCHANGED <<payers, payments, outbox, posted>>
         /\ MemUpdatePayment(p) =>
              /\ payments' = [payments EXCEPT ![loc[p].payment] = Unlocked(loc[p].pay)]
              /\ pc[p] = "update_payment" /\ pc'[p] = "create_event"
              /\ UNCHANGED <<payers, holds, outbox, posted>>
         /\ MemUpdatePayer(p) \/ MemCreatePayment(p) \/ MemCreateHold(p) \/ MemUpdateHold(p) \/ MemUpdatePayment(p) =>
              /\ UNCHANGED <<merchants, now, loc, torn>> /\ pc' \in [Procs -> MemLabels]
              /\ pc[p] \in Writing \cup {"update_payer"} /\ pc'[p] \in Writing
              /\ \A r \in Procs \ {p} : pc'[r] = pc[r]
              /\ MemLocals(p) /\ loc[p].payment \in PaymentIDs /\ loc[p].payer \in Payers
              /\ loc[p].acct \in Payer /\ loc[p].pay \in Payment /\ loc[p].op \in {"authorize", "capture"}
<1>1. MemLocals(p) /\ pc \in [Procs -> MemLabels]
  BY DEF MemCallInv, MemTypeOK
<1>2. pc[p] = "update_hold" => HoldAfter(loc[p].op) = "CAPTURED"
  BY <1>1 DEF MemLocals, HoldAfter
<1>3. \A label \in Writing : GoTo(p, label) =>
        /\ pc' \in [Procs -> MemLabels] /\ UNCHANGED <<merchants, now>> /\ pc'[p] = label
        /\ \A r \in Procs \ {p} : pc'[r] = pc[r]
  BY MemGoesTo DEF Writing, MemLabels
<1>4. MemUpdatePayer(p) \/ MemCreatePayment(p) \/ MemCreateHold(p) \/ MemUpdateHold(p) \/ MemUpdatePayment(p) =>
        pc[p] \in Writing \cup {"update_payer"}
  BY DEF MemUpdatePayer, MemCreatePayment, MemCreateHold, MemUpdateHold, MemUpdatePayment, Writing
<1>5. pc[p] \in Writing \cup {"update_payer"} =>
        /\ loc[p].payment \in PaymentIDs /\ loc[p].payer \in Payers
        /\ loc[p].acct \in Payer /\ loc[p].pay \in Payment /\ loc[p].op \in {"authorize", "capture"}
  BY <1>1 DEF MemLocals, Writing
<1>6. MemUpdatePayer(p) =>
        /\ payers' = [payers EXCEPT ![loc[p].payer] = Unlocked(loc[p].acct)]
        /\ pc[p] = "update_payer" /\ pc'[p] = IF loc[p].op = "authorize" THEN "create_payment" ELSE "update_hold"
        /\ UNCHANGED <<payments, holds, outbox, posted, merchants, now, loc, torn>> /\ pc' \in [Procs -> MemLabels]
        /\ pc'[p] \in Writing /\ \A r \in Procs \ {p} : pc'[r] = pc[r]
  BY <1>3 DEF MemUpdatePayer, Writing
<1>7. MemCreatePayment(p) =>
        /\ payments' = [payments EXCEPT ![loc[p].payment] = Unlocked(loc[p].pay)]
        /\ pc[p] = "create_payment" /\ pc'[p] = "create_hold"
        /\ UNCHANGED <<payers, holds, outbox, posted, merchants, now, loc, torn>> /\ pc' \in [Procs -> MemLabels]
        /\ pc'[p] \in Writing /\ \A r \in Procs \ {p} : pc'[r] = pc[r]
  BY <1>3 DEF MemCreatePayment, Writing
<1>8. MemCreateHold(p) =>
        /\ holds' = [holds EXCEPT ![loc[p].payment] = Unlocked("HELD")]
        /\ pc[p] = "create_hold" /\ pc'[p] = "create_event"
        /\ UNCHANGED <<payers, payments, outbox, posted, merchants, now, loc, torn>> /\ pc' \in [Procs -> MemLabels]
        /\ pc'[p] \in Writing /\ \A r \in Procs \ {p} : pc'[r] = pc[r]
  BY <1>3 DEF MemCreateHold, Writing
<1>9. MemUpdateHold(p) =>
        /\ holds' = [holds EXCEPT ![loc[p].payment] = Unlocked("CAPTURED")]
        /\ pc[p] = "update_hold" /\ pc'[p] = "update_payment"
        /\ UNCHANGED <<payers, payments, outbox, posted, merchants, now, loc, torn>> /\ pc' \in [Procs -> MemLabels]
        /\ pc'[p] \in Writing /\ \A r \in Procs \ {p} : pc'[r] = pc[r]
  BY <1>2, <1>3 DEF MemUpdateHold, Writing
<1>10. MemUpdatePayment(p) =>
        /\ payments' = [payments EXCEPT ![loc[p].payment] = Unlocked(loc[p].pay)]
        /\ pc[p] = "update_payment" /\ pc'[p] = "create_event"
        /\ UNCHANGED <<payers, holds, outbox, posted, merchants, now, loc, torn>> /\ pc' \in [Procs -> MemLabels]
        /\ pc'[p] \in Writing /\ \A r \in Procs \ {p} : pc'[r] = pc[r]
  BY <1>3 DEF MemUpdatePayment, Writing
<1> QED BY <1>1, <1>4, <1>5, <1>6, <1>7, <1>8, <1>9, <1>10

\* The event of a call, and what it posts to the payer's account.
LEMMA MemPosts ==
  ASSUME MemCallInv, NEW p \in Procs, MemCreateEvent(p),
         NEW q, q = loc[p].payment, NEW x, x = loc[p].payer
  PROVE  /\ pc[p] = "create_event" /\ EndCall(p) /\ UNCHANGED <<payers, payments, holds, torn>>
         /\ q \in PaymentIDs /\ x \in Payers /\ loc[p].op \in {"authorize", "capture"} /\ loc[p].amount \in Int
         /\ payers[x].val # None /\ posted[x].val \in Account
         /\ Map(outbox', PaymentIDs)
         /\ \A s \in PaymentIDs : outbox'[s].val \in [EventTypes -> Nat]
         /\ Map(posted', Payers)
         /\ posted'[x].val = Posting(loc[p].op, posted[x].val, loc[p].amount) /\ posted'[x].val \in Account
         /\ \A y \in Payers \ {x} : posted'[y] = posted[y]
<1>1. /\ pc[p] = "create_event" /\ MemLocals(p) /\ loc[p] \in Local /\ EndCall(p)
      /\ UNCHANGED <<payers, payments, holds, torn>>
  BY DEF MemCreateEvent, MemCallInv, MemTypeOK
<1>2. /\ q \in PaymentIDs /\ x \in Payers /\ loc[p].op \in {"authorize", "capture"} /\ loc[p].amount \in Int
      /\ payers[x].val # None
  BY <1>1 DEF MemLocals, Writing, Local
<1> DEFINE e == Counted(outbox[q].val, EventOf(loc[p].op))
           a == Posting(loc[p].op, posted[x].val, loc[p].amount)
<1>3. outbox' = Put(outbox, q, e) /\ posted' = Put(posted, x, a)
  BY <1>2 DEF MemCreateEvent, MemAppendEvent, MemCallInv, Maps, Map, Put
<1>4. e \in [EventTypes -> Nat]
  BY <1>2 DEF Counted, EventOf, EventTypes, MemCallInv, MemTypeOK
<1>5. posted[x].val \in Account
  BY <1>2 DEF MemCallInv, MemTypeOK, Maps
<1>6. a \in Account
  BY <1>2, <1>5 DEF Posting, Account
<1> HIDE DEF e
<1>7. /\ Map(outbox', PaymentIDs) /\ outbox'[q].val = e
      /\ \A s \in PaymentIDs \ {q} : outbox'[s] = outbox[s]
  <2>1. Map(outbox, PaymentIDs)
    BY DEF MemCallInv, Maps
  <2> QED BY <1>2, <1>3, <2>1, MapWrite
<1> HIDE DEF a
<1>8. /\ Map(posted', Payers) /\ posted'[x].val = a
      /\ \A y \in Payers \ {x} : posted'[y] = posted[y]
  <2>1. Map(posted, Payers)
    BY DEF MemCallInv, Maps
  <2> QED BY <1>2, <1>3, <2>1, MapWrite
<1>9. \A s \in PaymentIDs : outbox'[s].val \in [EventTypes -> Nat]
  BY <1>4, <1>7 DEF MemCallInv, MemTypeOK
<1> QED BY <1>1, <1>2, <1>5, <1>6, <1>7, <1>8, <1>9 DEF a

\* The map of payers after UpdatePayer, the maps of payments and holds after
\* the statements that write them.
LEMMA MemWritten ==
  ASSUME MemCallInv, NEW p \in Procs, NEW q, q = loc[p].payment, NEW x, x = loc[p].payer
  PROVE  /\ MemUpdatePayer(p) =>
              /\ Map(payers', Payers) /\ payers'[x].val = loc[p].acct
              /\ \A y \in Payers \ {x} : payers'[y] = payers[y]
         /\ MemCreatePayment(p) \/ MemUpdatePayment(p) =>
              /\ Map(payments', PaymentIDs) /\ payments'[q].val = loc[p].pay
              /\ \A s \in PaymentIDs \ {q} : payments'[s] = payments[s]
         /\ MemCreateHold(p) \/ MemUpdateHold(p) =>
              /\ Map(holds', PaymentIDs)
              /\ holds'[q].val = IF MemCreateHold(p) THEN "HELD" ELSE "CAPTURED"
              /\ \A s \in PaymentIDs \ {q} : holds'[s] = holds[s]
<1>1. /\ Map(payers, Payers)
      /\ Map(payments, PaymentIDs)
      /\ Map(holds, PaymentIDs)
  BY DEF MemCallInv, Maps
<1>2. ASSUME MemUpdatePayer(p)
      PROVE  /\ Map(payers', Payers) /\ payers'[x].val = loc[p].acct
             /\ \A y \in Payers \ {x} : payers'[y] = payers[y]
  <2>1. x \in Payers /\ payers' = Put(payers, x, loc[p].acct)
    BY <1>2, MemWrites DEF Put
  <2> QED BY <1>1, <2>1, MapWrite
<1>3. ASSUME MemCreatePayment(p) \/ MemUpdatePayment(p)
      PROVE  /\ Map(payments', PaymentIDs) /\ payments'[q].val = loc[p].pay
             /\ \A s \in PaymentIDs \ {q} : payments'[s] = payments[s]
  <2>1. q \in PaymentIDs /\ payments' = Put(payments, q, loc[p].pay)
    BY <1>3, MemWrites DEF Put
  <2> QED BY <1>1, <2>1, MapWrite
<1>4. ASSUME MemCreateHold(p) \/ MemUpdateHold(p)
      PROVE  /\ Map(holds', PaymentIDs)
             /\ holds'[q].val = IF MemCreateHold(p) THEN "HELD" ELSE "CAPTURED"
             /\ \A s \in PaymentIDs \ {q} : holds'[s] = holds[s]
  <2> DEFINE h == IF MemCreateHold(p) THEN "HELD" ELSE "CAPTURED"
  <2>1. q \in PaymentIDs /\ holds' = Put(holds, q, h)
    BY <1>4, MemWrites DEF Put
  <2> HIDE DEF h
  <2>2. /\ Map(holds', PaymentIDs) /\ holds'[q].val = h
        /\ \A s \in PaymentIDs \ {q} : holds'[s] = holds[s]
    BY <1>1, <2>1, MapWrite
  <2> QED BY <2>2 DEF h
<1> QED BY <1>2, <1>3, <1>4

\* Every step keeps every variable's type, and the maps free of locks.
LEMMA MemTypeStep == MemCallInv /\ [MemNext]_mvars => MemTypeOK' /\ Maps'
<1> SUFFICES ASSUME MemCallInv, [MemNext]_mvars PROVE MemTypeOK' /\ Maps'
    OBVIOUS
<1>0. MemTypeOK /\ Maps
  BY DEF MemCallInv
<1>1. ASSUME UNCHANGED tables, merchants' = merchants, pc' \in [Procs -> MemLabels], loc' \in [Procs -> Local],
             torn' \subseteq Payers \cup PaymentIDs, now' \in Nat
      PROVE  MemTypeOK' /\ Maps'
  BY <1>0, <1>1 DEF MemTypeOK, Maps, tables
<1>2. CASE UNCHANGED mvars
  BY <1>0, <1>1, <1>2 DEF mvars, vars, MemTypeOK
<1>3. CASE Tick /\ UNCHANGED torn
  <2>1. UNCHANGED <<tables, merchants, pc, loc, torn>> /\ now' \in Nat
    BY <1>0, <1>3 DEF Tick, MemTypeOK
  <2> QED BY <1>0, <1>1, <2>1 DEF MemTypeOK
<1>4. ASSUME NEW m \in Merchants, MemCreateMerchant(m) PROVE MemTypeOK' /\ Maps'
  <2>1. /\ UNCHANGED <<tables, pc, loc, now, torn>> /\ merchants' = [merchants EXCEPT ![m] = "ACTIVE"]
    BY <1>4 DEF MemCreateMerchant, CreateMerchant
  <2> QED BY <1>0, <2>1 DEF MemTypeOK, Maps, tables
<1>5. ASSUME NEW x \in Payers, NEW b \in Openings, MemCreatePayer(x, b) PROVE MemTypeOK' /\ Maps'
  <2> DEFINE a == [opening |-> b, authorized |-> 0, captured |-> 0, expired |-> 0, entries |-> 0]
             r == NewPayer(b)
  <2>1. /\ payers' = Put(payers, x, r) /\ posted' = Put(posted, x, a)
        /\ UNCHANGED <<merchants, payments, holds, outbox, pc, loc, now, torn>>
    BY <1>5 DEF MemCreatePayer, CreatePayer, Put
  <2>2. r \in Payer /\ a \in Account
    BY ConstantsAssumption DEF NewPayer, Payer, Account
  <2> HIDE DEF r, a
  <2>3. /\ Map(payers', Payers) /\ payers'[x].val = r
        /\ \A y \in Payers \ {x} : payers'[y] = payers[y]
    BY <1>0, <2>1, MapWrite DEF Maps
  <2>4. /\ Map(posted', Payers) /\ posted'[x].val = a
        /\ \A y \in Payers \ {x} : posted'[y] = posted[y]
    BY <1>0, <2>1, MapWrite DEF Maps
  <2>5. \A y \in Payers : /\ payers'[y].val \in Payer \cup {None} /\ posted'[y].val \in Account \cup {None}
                          /\ payers'[y].val = None <=> posted'[y].val = None
    BY <1>0, <2>2, <2>3, <2>4, NoneAssumption DEF Maps, MemTypeOK
  <2>6. Maps'
    BY <1>0, <2>1, <2>3, <2>4, <2>5 DEF Maps
  <2>7. \A y \in Payers : payers'[y] = Unlocked(payers'[y].val)
    BY <2>3 DEF Map
  <2> QED BY <1>0, <2>1, <2>5, <2>6, <2>7 DEF MemTypeOK
<1>6. ASSUME NEW p \in Procs, MemStartAuthorize(p) \/ MemStartCapture(p) PROVE MemTypeOK' /\ Maps'
  BY <1>0, <1>1, <1>6, MemStartSets DEF MemTypeOK
<1>7. ASSUME NEW p \in Procs, MemGetHold(p) PROVE MemTypeOK' /\ Maps'
  BY <1>0, <1>1, <1>7, MemGetHoldSets DEF MemTypeOK
<1>8. ASSUME NEW p \in Procs, EndCall(p), UNCHANGED tables, torn' \subseteq Payers \cup PaymentIDs
      PROVE  MemTypeOK' /\ Maps'
  BY <1>0, <1>1, <1>8, MemEnds DEF MemTypeOK
<1>9. ASSUME NEW p \in Procs, MemGetPayer(p) PROVE MemTypeOK' /\ Maps'
  <2>1. CASE Admits(p, Seen(payers[loc[p].payer], p))
    BY <1>0, <1>1, <1>9, <2>1, MemGetPayerSets DEF MemTypeOK
  <2>2. CASE ~Admits(p, Seen(payers[loc[p].payer], p))
    BY <1>0, <1>8, <1>9, <2>2, MemGetPayerFails DEF MemTypeOK
  <2> QED BY <2>1, <2>2
<1>10. ASSUME NEW p \in Procs, MemVersionConflict(p) PROVE MemTypeOK' /\ Maps'
  BY <1>0, <1>8, <1>10 DEF MemVersionConflict, MemTypeOK
<1>11. ASSUME NEW p \in Procs, MemFail(p) PROVE MemTypeOK' /\ Maps'
  <2>1. MemLocals(p) /\ pc[p] # "idle"
    BY <1>11 DEF MemCallInv, MemFail
  <2>2. loc[p].payer \in Payers /\ loc[p].payment \in PaymentIDs
    BY <2>1 DEF MemLocals
  <2>3. torn' \subseteq Payers \cup PaymentIDs
    BY <1>0, <1>11, <2>2 DEF MemFail, MemTypeOK
  <2> QED BY <1>8, <1>11, <2>3 DEF MemFail
<1>12. ASSUME NEW p \in Procs, MemUpdatePayer(p) PROVE MemTypeOK' /\ Maps'
  <2> DEFINE x == loc[p].payer
  <2>1. /\ UNCHANGED <<payments, holds, outbox, posted, merchants, now, loc, torn>> /\ pc' \in [Procs -> MemLabels]
        /\ MemLocals(p) /\ x \in Payers /\ loc[p].acct \in Payer /\ pc[p] = "update_payer"
    BY <1>12, MemWrites
  <2>2. payers[x].val # None
    BY <2>1 DEF MemLocals
  <2>3. /\ Map(payers', Payers) /\ payers'[x].val = loc[p].acct
        /\ \A y \in Payers \ {x} : payers'[y] = payers[y]
    BY <1>12, MemWritten
  <2>4. \A y \in Payers : /\ payers'[y] = Unlocked(payers'[y].val)
                          /\ payers'[y].val \in Payer \cup {None}
                          /\ payers'[y].val = None <=> posted[y].val = None
    <3>1. \A y \in Payers : payers'[y] = Unlocked(payers'[y].val)
      BY <2>3 DEF Map
    <3>2. \A y \in Payers : payers'[y].val \in Payer \cup {None} /\ (payers'[y].val = None <=> posted[y].val = None)
      BY <1>0, <2>1, <2>2, <2>3, NoneAssumption DEF MemTypeOK, Maps
    <3> QED BY <3>1, <3>2
  <2>5. Maps'
    BY <1>0, <2>1, <2>3, <2>4 DEF Maps
  <2> QED BY <1>0, <2>1, <2>4, <2>5 DEF MemTypeOK
<1>13. ASSUME NEW p \in Procs, MemCreatePayment(p) \/ MemUpdatePayment(p) PROVE MemTypeOK' /\ Maps'
  <2>1. /\ UNCHANGED <<payers, holds, outbox, posted, merchants, now, loc, torn>> /\ pc' \in [Procs -> MemLabels]
        /\ loc[p].payment \in PaymentIDs /\ loc[p].pay \in Payment
    BY <1>13, MemWrites
  <2>2. /\ Map(payments', PaymentIDs) /\ payments'[loc[p].payment].val = loc[p].pay
        /\ \A s \in PaymentIDs \ {loc[p].payment} : payments'[s] = payments[s]
    BY <1>13, MemWritten
  <2>3. \A s \in PaymentIDs : payments'[s] = Unlocked(payments'[s].val)
    BY <2>2 DEF Map
  <2>4. \A s \in PaymentIDs : payments'[s].val \in Payment \cup {None}
    BY <1>0, <2>1, <2>2 DEF MemTypeOK
  <2>5. Maps'
    BY <1>0, <2>1, <2>2 DEF Maps
  <2> QED BY <1>0, <2>1, <2>3, <2>4, <2>5 DEF MemTypeOK
<1>14. ASSUME NEW p \in Procs, MemCreateHold(p) \/ MemUpdateHold(p) PROVE MemTypeOK' /\ Maps'
  <2>1. /\ UNCHANGED <<payers, payments, outbox, posted, merchants, now, loc, torn>> /\ pc' \in [Procs -> MemLabels]
        /\ loc[p].payment \in PaymentIDs
    BY <1>14, MemWrites
  <2>2. /\ Map(holds', PaymentIDs)
        /\ holds'[loc[p].payment].val = IF MemCreateHold(p) THEN "HELD" ELSE "CAPTURED"
        /\ \A s \in PaymentIDs \ {loc[p].payment} : holds'[s] = holds[s]
    BY <1>14, MemWritten
  <2>3. \A s \in PaymentIDs : holds'[s] = Unlocked(holds'[s].val)
    BY <2>2 DEF Map
  <2>4. \A s \in PaymentIDs : holds'[s].val \in HoldStatuses \cup {None}
    BY <1>0, <2>1, <2>2 DEF MemTypeOK, HoldStatuses
  <2>5. Maps'
    BY <1>0, <2>1, <2>2 DEF Maps
  <2> QED BY <1>0, <2>1, <2>3, <2>4, <2>5 DEF MemTypeOK
<1>15. ASSUME NEW p \in Procs, MemCreateEvent(p) PROVE MemTypeOK' /\ Maps'
  <2> DEFINE x == loc[p].payer
  <2>1. /\ EndCall(p) /\ UNCHANGED <<payers, payments, holds, torn>>
        /\ x \in Payers /\ payers[x].val # None
        /\ Map(outbox', PaymentIDs)
        /\ \A s \in PaymentIDs : outbox'[s].val \in [EventTypes -> Nat]
        /\ Map(posted', Payers) /\ posted'[x].val \in Account
        /\ \A y \in Payers \ {x} : posted'[y] = posted[y]
    BY <1>15, MemPosts
  <2>2. pc' \in [Procs -> MemLabels] /\ loc' \in [Procs -> Local] /\ UNCHANGED <<merchants, now>>
    BY <2>1, MemEnds
  <2>3. \A y \in Payers : posted'[y].val \in Account \cup {None} /\ (payers[y].val = None <=> posted'[y].val = None)
    BY <1>0, <2>1, NoneAssumption DEF MemTypeOK, Maps
  <2>4. Maps'
    BY <1>0, <2>1, <2>2, <2>3 DEF Maps
  <2> QED BY <1>0, <2>1, <2>2, <2>3, <2>4 DEF MemTypeOK
<1> QED
   BY <1>2, <1>3, <1>4, <1>5, <1>6, <1>7, <1>9, <1>10, <1>11, <1>12, <1>13, <1>14, <1>15 DEF MemNext

\* What a step of p does at most to the rows the other calls rely on.
MemLeaves(p) ==
  /\ \A s \in Procs \ {p} : pc'[s] = pc[s] /\ loc'[s] = loc[s]
  /\ \A q \in PaymentIDs : payments[q].val # None => payments'[q].val # None
  /\ \A q \in PaymentIDs \ {loc[p].payment} : payments'[q].val = payments[q].val
  /\ \A x \in Payers : payers[x].val # None =>
       /\ payers'[x].val # None
       /\ payers'[x].val = payers[x].val \/ payers'[x].val.version = payers[x].val.version + 1
  /\ \/ loc'[p].payment = None /\ loc'[p].op # "authorize"
     \/ loc'[p].payment = loc[p].payment /\ loc'[p].op = loc[p].op
     \/ FreshID(loc'[p].payment) /\ loc'[p].payment \in PaymentIDs
     \/ loc'[p].op = "capture" /\ payments[loc'[p].payment].val # None

\* Another call keeps its locals, its id, and a payer that is current or
\* too old to be written.
LEMMA MemOther ==
  ASSUME MemCallInv, NEW p \in Procs, MemLeaves(p), NEW r \in Procs \ {p}
  PROVE  MemLocals(r)' /\ MemIds(r)' /\ MemRead(r)'
<1>0. /\ MemLocals(r) /\ MemIds(r) /\ MemRead(r) /\ pc'[r] = pc[r] /\ loc'[r] = loc[r]
      /\ \A x \in Payers : payers[x].val # None => payers[x].val \in Payer
  BY DEF MemCallInv, MemLeaves, MemTypeOK
<1>1. MemLocals(r)'
  <2>1. pc[r] \in Writing \cup {"update_payer"} \/ loc[r].op = "capture" => pc[r] # "idle"
    BY <1>0, NoneAssumption DEF MemLocals, NoCall, Call, Operations, Writing
  <2>2. pc[r] # "idle" => loc[r].payment \in PaymentIDs /\ loc[r].payer \in Payers
    BY <1>0 DEF MemLocals
  <2>3. /\ loc[r].op = "capture" => payments'[loc[r].payment].val # None
        /\ pc[r] \in Writing \cup {"update_payer"} => payers'[loc[r].payer].val # None
    BY <1>0, <2>1, <2>2 DEF MemLocals, MemLeaves
  <2> QED BY <1>0, <2>3 DEF MemLocals
<1>2. MemRead(r)'
  <2> SUFFICES ASSUME pc[r] = "update_payer" PROVE MemRead(r)'
    BY <1>0 DEF MemRead
  <2> PICK x \in Payers : x = loc[r].payer
    BY <1>0 DEF MemLocals
  <2>1. payers[x].val \in Payer /\ loc[r].acct \in Payer /\ loc[r].acct.version <= payers[x].val.version + 1
    BY <1>0 DEF MemLocals, MemRead
  <2>2. CASE payers'[x].val = payers[x].val
    BY <1>0, <2>2 DEF MemRead, MemVersionMatches
  <2>3. CASE payers'[x].val.version = payers[x].val.version + 1
    <3>1. /\ loc[r].acct.version <= payers'[x].val.version + 1
          /\ loc[r].acct.version # payers'[x].val.version + 1
      BY <2>1, <2>3 DEF Payer
    <3> QED BY <1>0, <3>1 DEF MemRead, MemVersionMatches
  <2> QED BY <1>0, <2>1, <2>2, <2>3, NoneAssumption DEF MemLeaves
<1>3. MemIds(r)'
  <2> SUFFICES ASSUME loc[r].op = "authorize" PROVE MemIds(r)'
    BY <1>0 DEF MemIds
  <2> PICK q \in PaymentIDs : q = loc[r].payment
    BY <1>0, NoneAssumption DEF MemLocals, NoCall, Call, Operations
  <2>1. q # None
    BY NoneAssumption
  <2>2. pc[r] \in {"get_payer", "update_payer", "create_payment"} =>
          /\ payments'[q].val = None
          /\ \A s \in Procs \ {r} : loc'[s].payment # q
    <3> SUFFICES ASSUME pc[r] \in {"get_payer", "update_payer", "create_payment"}
                 PROVE  payments'[q].val = None /\ \A s \in Procs \ {r} : loc'[s].payment # q
      OBVIOUS
    <3>1. payments[q].val = None /\ \A s \in Procs \ {r} : loc[s].payment # q
      BY <1>0 DEF MemIds
    <3>2. payments'[q].val = None
      BY <3>1 DEF MemLeaves
    <3>3. loc'[p].payment # q
      BY <2>1, <3>1 DEF MemLeaves, FreshID
    <3> QED BY <3>1, <3>2, <3>3 DEF MemLeaves
  <2>3. pc[r] \in {"create_hold", "create_event"} => payments'[q].val # None
    BY <1>0 DEF MemIds, MemLeaves
  <2>4. ASSUME NEW s \in Procs \ {r}, loc'[s].op = "authorize" PROVE loc'[s].payment # q
    <3>1. loc[s].op = "authorize" => loc[s].payment # q
      BY <1>0 DEF MemIds
    <3> QED BY <2>1, <2>4, <3>1 DEF MemLeaves, FreshID
  <2> QED BY <1>0, <2>2, <2>3, <2>4 DEF MemIds
<1> QED BY <1>1, <1>2, <1>3

\* The balances that are not negative are those of the values.
LEMMA ValuesFunded ==
  ASSUME Maps
  PROVE  NoOverdraft <=> \A x \in Payers : payers[x].val # None =>
                            payers[x].val.available >= 0 /\ payers[x].val.held >= 0
<1>1. ASSUME NEW x \in Payers PROVE payers[x].new = payers[x].val
  <2>1. payers[x] = Unlocked(payers[x].val)
    BY DEF Maps, Map
  <2> QED BY <2>1 DEF Unlocked
<1> QED BY <1>1 DEF NoOverdraft

\* What GetPayer admits leaves no negative balance, and counts one version up.
LEMMA MemCharged ==
  ASSUME NEW p, loc[p].op \in {"authorize", "capture"}, loc[p].amount \in Int, NEW r \in Payer, Admits(p, r),
         loc[p].op = "capture" => loc[p].pay \in Payment,
         r.available >= 0, r.held >= 0, NEW r1, r1 = Charged(loc[p].op, r, loc[p].amount)
  PROVE  /\ loc[p].amount > 0 /\ r1.available >= 0 /\ r1.held >= 0 /\ r1.version = r.version + 1
         /\ Advanced(p).status = IF loc[p].op = "authorize" THEN "AUTHORIZED" ELSE "CAPTURED"
         /\ loc[p].op = "capture" => loc[p].hold = "HELD"
<1>1. CASE loc[p].op = "authorize"
  <2>1. r1 = Reserve(r, loc[p].amount) /\ CanAuthorize(r, loc[p].amount)
    BY <1>1 DEF Charged, Admits
  <2>2. Advanced(p).status = "AUTHORIZED"
    BY <1>1 DEF Advanced, NewAuthorizedPayment
  <2> QED BY <1>1, <2>1, <2>2 DEF Reserve, CanAuthorize, Payer
<1>2. CASE loc[p].op = "capture"
  <2>1. /\ r1 = CaptureHeld(r, loc[p].amount) /\ HasHeld(r, loc[p].amount) /\ loc[p].hold = "HELD"
        /\ CanCapture(loc[p].pay, now)
    BY <1>2 DEF Charged, Admits
  <2>2. r1.available >= 0 /\ r1.held >= 0 /\ r1.version = r.version + 1 /\ loc[p].amount > 0
    BY <2>1 DEF CaptureHeld, HasHeld, Payer
  <2>3. Capture(loc[p].pay, now).status = "CAPTURED"
    BY <1>2 DEF Capture, Payment
  <2> QED BY <1>2, <2>1, <2>2, <2>3 DEF Advanced
<1> QED BY <1>1, <1>2

\* A call that ends, or fails, relies on nothing any more.
LEMMA MemIdle ==
  ASSUME NEW p, pc'[p] = "idle", loc'[p] = NoCall
  PROVE  MemLocals(p)' /\ MemIds(p)' /\ MemRead(p)'
BY NoneAssumption DEF MemLocals, MemIds, MemRead, NoCall, Call, Operations, Writing

\* A call that ends leaves the others alone.
LEMMA MemEndLeaves ==
  ASSUME MemCallInv, NEW p \in Procs, EndCall(p), UNCHANGED <<payers, payments>>
  PROVE  MemLeaves(p) /\ MemLocals(p)' /\ MemIds(p)' /\ MemRead(p)'
<1>1. /\ pc'[p] = "idle" /\ loc'[p] = NoCall
      /\ \A r \in Procs \ {p} : pc'[r] = pc[r] /\ loc'[r] = loc[r]
  BY MemEnds
<1>2. NoCall.payment = None /\ NoCall.op # "authorize"
  BY NoneAssumption DEF NoCall, Call, Operations
<1> QED BY <1>1, <1>2, MemIdle DEF MemLeaves

\* StartAuthorize and StartCapture.
LEMMA MemStartLeaves ==
  ASSUME MemCallInv, NEW p \in Procs, MemStartAuthorize(p) \/ MemStartCapture(p)
  PROVE  MemLeaves(p) /\ MemLocals(p)' /\ MemIds(p)' /\ MemRead(p)'
<1> DEFINE q == loc'[p].payment
<1>1. /\ UNCHANGED <<payers, payments>> /\ q \in PaymentIDs /\ loc'[p].payer \in Payers
      /\ \A r \in Procs \ {p} : pc'[r] = pc[r] /\ loc'[r] = loc[r]
      /\ \/ /\ pc'[p] = "get_payer" /\ loc'[p].op = "authorize" /\ FreshID(q)
         \/ /\ pc'[p] = "get_hold" /\ loc'[p].op = "capture"
            /\ payments[q].val # None /\ loc'[p].pay = payments[q].val
  BY MemStartSets DEF tables
<1>2. MemLeaves(p)
  BY <1>1 DEF MemLeaves
<1>3. MemLocals(p)'
  BY <1>1 DEF MemLocals, Writing, MemCallInv, MemTypeOK
<1>4. MemIds(p)'
  BY <1>1 DEF MemIds, FreshID
<1> QED BY <1>1, <1>2, <1>3, <1>4 DEF MemRead

\* GetHold.
LEMMA MemGetHoldLeaves ==
  ASSUME MemCallInv, NEW p \in Procs, MemGetHold(p)
  PROVE  MemLeaves(p) /\ MemLocals(p)' /\ MemIds(p)' /\ MemRead(p)'
<1>1. /\ UNCHANGED <<payers, payments>> /\ pc[p] = "get_hold" /\ loc[p].op = "capture" /\ pc'[p] = "get_payer"
      /\ loc'[p] = [loc[p] EXCEPT !.hold = holds[loc[p].payment].val]
      /\ \A r \in Procs \ {p} : pc'[r] = pc[r] /\ loc'[r] = loc[r]
      /\ MemLocals(p) /\ loc[p] \in Local
  BY MemGetHoldSets DEF tables, MemCallInv, MemTypeOK
<1>2. /\ loc'[p].op = "capture" /\ loc'[p].payment = loc[p].payment /\ loc'[p].payer = loc[p].payer
      /\ loc'[p].pay = loc[p].pay
  BY <1>1 DEF Local
<1>3. MemLeaves(p)
  BY <1>1, <1>2 DEF MemLeaves
<1>4. MemLocals(p)'
  BY <1>1, <1>2 DEF MemLocals, Writing
<1> QED BY <1>1, <1>2, <1>3, <1>4 DEF MemIds, MemRead

\* GetPayer and its checks: what is computed is current and not overdrawn.
LEMMA MemGetPayerLeaves ==
  ASSUME MemCallInv, NEW p \in Procs, MemGetPayer(p)
  PROVE  MemLeaves(p) /\ MemLocals(p)' /\ MemIds(p)' /\ MemRead(p)'
<1>1. CASE ~Admits(p, Seen(payers[loc[p].payer], p))
  BY <1>1, MemGetPayerFails, MemEndLeaves DEF tables
<1>2. CASE Admits(p, Seen(payers[loc[p].payer], p))
  <2>1. PICK x : x = loc[p].payer
    OBVIOUS
  <2>2. PICK r : r = payers[x].val
    OBVIOUS
  <2>3. /\ UNCHANGED <<payers, payments>> /\ pc[p] = "get_payer" /\ x \in Payers
        /\ loc[p].op \in {"authorize", "capture"} /\ Admits(p, r) /\ r \in Payer
        /\ pc'[p] = "update_payer"
        /\ loc'[p].op = loc[p].op /\ loc'[p].payment = loc[p].payment /\ loc'[p].payer = x
        /\ loc'[p].amount = loc[p].amount
        /\ loc'[p].acct = Charged(loc[p].op, r, loc[p].amount) /\ loc'[p].acct \in Payer
        /\ loc'[p].pay = Advanced(p) /\ loc'[p].pay \in Payment
        /\ \A s \in Procs \ {p} : pc'[s] = pc[s] /\ loc'[s] = loc[s]
    BY <1>2, <2>1, <2>2, MemGetPayerSets DEF tables
  <2>4. MemLocals(p) /\ MemIds(p) /\ loc[p].amount \in Int /\ r # None
    BY <2>3, NoneAssumption DEF MemCallInv, MemTypeOK, Local
  <2>5. r.available >= 0 /\ r.held >= 0
    BY <2>2, <2>3, <2>4 DEF MemCallInv, NoOverdraft
  <2>6. /\ loc[p].amount > 0 /\ loc'[p].acct.available >= 0 /\ loc'[p].acct.held >= 0
        /\ loc'[p].acct.version = r.version + 1
        /\ loc'[p].pay.status = IF loc[p].op = "authorize" THEN "AUTHORIZED" ELSE "CAPTURED"
    <3>1. loc[p].op = "capture" => loc[p].pay \in Payment
      BY <2>4 DEF MemLocals
    <3> QED BY <2>3, <2>4, <2>5, <3>1, MemCharged
  <2>7. MemLeaves(p)
    BY <2>3 DEF MemLeaves
  <2>8. MemLocals(p)'
    BY <2>2, <2>3, <2>4, <2>6 DEF MemLocals
  <2>9. MemIds(p)'
    BY <2>3, <2>4 DEF MemIds
  <2>10. MemRead(p)'
    <3>1. loc'[p].acct.version <= r.version + 1
      BY <2>3, <2>6 DEF Payer
    <3> QED BY <2>2, <2>3, <2>6, <3>1 DEF MemRead
  <2> QED BY <2>7, <2>8, <2>9, <2>10
<1> QED BY <1>1, <1>2

\* UpdatePayer: it writes a record computed from the current one.
LEMMA MemUpdatePayerLeaves ==
  ASSUME MemCallInv, NEW p \in Procs, MemUpdatePayer(p)
  PROVE  MemLeaves(p) /\ MemLocals(p)' /\ MemIds(p)' /\ MemRead(p)'
<1> PICK x : x = loc[p].payer
  OBVIOUS
<1>1. /\ UNCHANGED <<payments, loc>> /\ pc[p] = "update_payer"
      /\ pc'[p] = IF loc[p].op = "authorize" THEN "create_payment" ELSE "update_hold"
      /\ \A s \in Procs \ {p} : pc'[s] = pc[s]
      /\ MemLocals(p) /\ x \in Payers /\ loc[p].acct \in Payer /\ loc[p].op \in {"authorize", "capture"}
  BY MemWrites
<1>2. payers'[x].val = loc[p].acct /\ \A y \in Payers \ {x} : payers'[y] = payers[y]
  BY MemWritten
<1>3. loc[p].acct.version = payers[x].val.version + 1 /\ MemIds(p)
  BY DEF MemUpdatePayer, MemVersionMatches, MemCallInv
<1>4. MemLeaves(p)
  BY <1>1, <1>2, <1>3, NoneAssumption DEF MemLeaves
<1>5. MemLocals(p)'
  BY <1>1, <1>2, NoneAssumption DEF MemLocals, Writing
<1>6. MemIds(p)'
  BY <1>1, <1>3 DEF MemIds
<1> QED BY <1>1, <1>4, <1>5, <1>6 DEF MemRead

\* CreatePayment and UpdatePayment: the payment exists from then on.
LEMMA MemPaymentLeaves ==
  ASSUME MemCallInv, NEW p \in Procs, MemCreatePayment(p) \/ MemUpdatePayment(p)
  PROVE  MemLeaves(p) /\ MemLocals(p)' /\ MemIds(p)' /\ MemRead(p)'
<1> PICK q : q = loc[p].payment
  OBVIOUS
<1>1. /\ UNCHANGED <<payers, loc>>
      /\ \/ pc[p] = "create_payment" /\ pc'[p] = "create_hold"
         \/ pc[p] = "update_payment" /\ pc'[p] = "create_event"
      /\ \A s \in Procs \ {p} : pc'[s] = pc[s]
      /\ MemLocals(p) /\ q \in PaymentIDs /\ loc[p].pay \in Payment
  BY MemWrites
<1>2. /\ payments'[q].val = loc[p].pay /\ payments'[q].val # None
      /\ \A s \in PaymentIDs \ {q} : payments'[s] = payments[s]
  BY <1>1, MemWritten, NoneAssumption
<1>3. MemIds(p)
  BY DEF MemCallInv
<1>4. MemLeaves(p)
  BY <1>1, <1>2 DEF MemLeaves
<1>5. MemLocals(p)'
  BY <1>1, <1>2 DEF MemLocals, Writing
<1>6. MemIds(p)'
  BY <1>1, <1>2, <1>3 DEF MemIds
<1> QED BY <1>1, <1>4, <1>5, <1>6 DEF MemRead

\* CreateHold and UpdateHold.
LEMMA MemHoldLeaves ==
  ASSUME MemCallInv, NEW p \in Procs, MemCreateHold(p) \/ MemUpdateHold(p)
  PROVE  MemLeaves(p) /\ MemLocals(p)' /\ MemIds(p)' /\ MemRead(p)'
<1>1. /\ UNCHANGED <<payers, payments, loc>>
      /\ \/ pc[p] = "create_hold" /\ pc'[p] = "create_event"
         \/ pc[p] = "update_hold" /\ pc'[p] = "update_payment"
      /\ \A s \in Procs \ {p} : pc'[s] = pc[s]
      /\ MemLocals(p)
  BY MemWrites
<1>2. MemIds(p)
  BY DEF MemCallInv
<1>3. MemLeaves(p)
  BY <1>1 DEF MemLeaves
<1>4. MemLocals(p)'
  BY <1>1 DEF MemLocals, Writing
<1>5. MemIds(p)'
  BY <1>1, <1>2 DEF MemIds
<1> QED BY <1>1, <1>3, <1>4, <1>5 DEF MemRead

\* A step of p that leaves what the others rely on, and the balances funded.
LEMMA MemCallBy ==
  ASSUME MemCallInv, [MemNext]_mvars, NEW p \in Procs, MemLeaves(p), MemLocals(p)', MemIds(p)', MemRead(p)',
         NoOverdraft'
  PROVE  MemCallInv'
<1>1. \A r \in Procs : (MemLocals(r) /\ MemIds(r) /\ MemRead(r))'
  BY MemOther
<1> QED BY <1>1, MemTypeStep DEF MemCallInv

\* What a call relies on is inductive: no statement of one call takes it from
\* another, although no row is ever locked.
LEMMA MemCallStep == MemCallInv /\ [MemNext]_mvars => MemCallInv'
<1> SUFFICES ASSUME MemCallInv, [MemNext]_mvars PROVE MemCallInv'
    OBVIOUS
<1>0. /\ MemTypeOK' /\ Maps' /\ MemTypeOK /\ Maps /\ NoOverdraft
      /\ \A r \in Procs : MemLocals(r) /\ MemIds(r) /\ MemRead(r)
  BY MemTypeStep DEF MemCallInv
<1>1. ASSUME payers' = payers PROVE NoOverdraft'
  BY <1>0, <1>1 DEF NoOverdraft
<1>2. ASSUME UNCHANGED <<payers, payments, pc, loc>> PROVE MemCallInv'
  <2>1. \A r \in Procs : (MemLocals(r) /\ MemIds(r) /\ MemRead(r))'
    BY <1>0, <1>2 DEF MemLocals, MemIds, MemRead, MemVersionMatches
  <2> QED BY <1>0, <1>1, <1>2, <2>1 DEF MemCallInv
<1>3. CASE Tick /\ UNCHANGED torn
  BY <1>2, <1>3 DEF Tick, tables
<1>4. ASSUME NEW m \in Merchants, MemCreateMerchant(m) PROVE MemCallInv'
  BY <1>2, <1>4 DEF MemCreateMerchant, CreateMerchant, tables
<1>5. ASSUME NEW x \in Payers, NEW b \in Openings, MemCreatePayer(x, b) PROVE MemCallInv'
  <2>1. /\ payers[x].val = None /\ UNCHANGED <<payments, pc, loc>> /\ b >= 0 /\ b \in Int
        /\ payers'[x] = Unlocked(NewPayer(b)) /\ \A y \in Payers \ {x} : payers'[y] = payers[y]
    BY <1>0, <1>5, ConstantsAssumption DEF MemCreatePayer, CreatePayer, Maps, Map
  <2>2. ASSUME NEW r \in Procs PROVE (MemLocals(r) /\ MemIds(r) /\ MemRead(r))'
    <3>1. pc[r] \in Writing \cup {"update_payer"} => loc[r].payer \in Payers \ {x}
      BY <1>0, <2>1 DEF MemLocals, Writing
    <3>2. pc[r] \in Writing \cup {"update_payer"} => payers'[loc[r].payer] = payers[loc[r].payer]
      BY <2>1, <3>1
    <3>3. MemLocals(r)'
      BY <1>0, <2>1, <3>2 DEF MemLocals
    <3>4. MemIds(r)'
      BY <1>0, <2>1 DEF MemIds
    <3>5. MemRead(r)'
      BY <1>0, <2>1, <3>2 DEF MemRead, MemVersionMatches
    <3> QED BY <3>3, <3>4, <3>5
  <2>3. NoOverdraft'
    <3>1. /\ payers'[x].val.available = b /\ payers'[x].val.held = 0
          /\ payers'[x].new.available = b /\ payers'[x].new.held = 0
      BY <2>1 DEF Unlocked, NewPayer
    <3> QED BY <1>0, <2>1, <3>1 DEF NoOverdraft
  <2> QED BY <1>0, <2>2, <2>3 DEF MemCallInv
<1>6. ASSUME NEW p \in Procs, MemStartAuthorize(p) \/ MemStartCapture(p) PROVE MemCallInv'
  <2>1. payers' = payers
    BY <1>6, MemStartSets DEF tables
  <2> QED BY <1>1, <1>6, <2>1, MemStartLeaves, MemCallBy
<1>7. ASSUME NEW p \in Procs, MemGetHold(p) PROVE MemCallInv'
  <2>1. payers' = payers
    BY <1>7, MemGetHoldSets DEF tables
  <2> QED BY <1>1, <1>7, <2>1, MemGetHoldLeaves, MemCallBy
<1>8. ASSUME NEW p \in Procs, MemGetPayer(p) PROVE MemCallInv'
  <2>1. payers' = payers
    <3>1. CASE ~Admits(p, Seen(payers[loc[p].payer], p))
      BY <1>8, <3>1, MemGetPayerFails DEF tables
    <3>2. CASE Admits(p, Seen(payers[loc[p].payer], p))
      BY <1>8, <3>2, MemGetPayerSets DEF tables
    <3> QED BY <3>1, <3>2
  <2> QED BY <1>1, <1>8, <2>1, MemGetPayerLeaves, MemCallBy
<1>9. ASSUME NEW p \in Procs, EndCall(p), UNCHANGED <<payers, payments>> PROVE MemCallInv'
  BY <1>1, <1>9, MemEndLeaves, MemCallBy
<1>10. ASSUME NEW p \in Procs, MemUpdatePayer(p) PROVE MemCallInv'
  <2> PICK x : x = loc[p].payer
    OBVIOUS
  <2>1. payers'[x].val = loc[p].acct /\ \A y \in Payers \ {x} : payers'[y] = payers[y]
    BY <1>10, MemWritten
  <2>2. loc[p].acct.available >= 0 /\ loc[p].acct.held >= 0 /\ pc[p] = "update_payer"
    BY <1>0, <1>10 DEF MemRead, MemUpdatePayer
  <2>3. \A y \in Payers : payers[y].val # None => payers[y].val.available >= 0 /\ payers[y].val.held >= 0
    BY <1>0 DEF NoOverdraft
  <2>4. \A y \in Payers : payers'[y].val # None => payers'[y].val.available >= 0 /\ payers'[y].val.held >= 0
    BY <2>1, <2>2, <2>3
  <2>5. \A y \in Payers : payers'[y].new = payers'[y].val
    BY <1>0 DEF Maps, Map, Unlocked
  <2>6. NoOverdraft'
    BY <2>4, <2>5 DEF NoOverdraft
  <2> QED BY <1>10, <2>6, MemUpdatePayerLeaves, MemCallBy
<1>11. ASSUME NEW p \in Procs, MemCreatePayment(p) \/ MemUpdatePayment(p) PROVE MemCallInv'
  <2>1. payers' = payers
    BY <1>11, MemWrites
  <2> QED BY <1>1, <1>11, <2>1, MemPaymentLeaves, MemCallBy
<1>12. ASSUME NEW p \in Procs, MemCreateHold(p) \/ MemUpdateHold(p) PROVE MemCallInv'
  <2>1. payers' = payers
    BY <1>12, MemWrites
  <2> QED BY <1>1, <1>12, <2>1, MemHoldLeaves, MemCallBy
<1>13. ASSUME NEW p \in Procs, MemCreateEvent(p) \/ MemVersionConflict(p) \/ MemFail(p) PROVE MemCallInv'
  <2>1. EndCall(p) /\ UNCHANGED <<payers, payments>>
    BY <1>13 DEF MemCreateEvent, MemVersionConflict, MemFail, tables
  <2> QED BY <1>9, <2>1
<1> QED
   BY <1>2, <1>3, <1>4, <1>5, <1>6, <1>7, <1>8, <1>10, <1>11, <1>12, <1>13
   DEF MemNext, mvars, vars, tables

LEMMA MemCallInit == MemInit => MemCallInv
<1> SUFFICES ASSUME MemInit PROVE MemCallInv
    OBVIOUS
<1>1. MemTypeOK
  BY DEF MemInit, Init, MemTypeOK, Unlocked, NoEvents, NoCall, Call, Local, MemLabels
<1>2. Maps
  BY DEF MemInit, Init, Maps, Map, Unlocked
<1>3. ASSUME NEW p \in Procs PROVE MemLocals(p) /\ MemIds(p) /\ MemRead(p)
  BY NoneAssumption DEF MemInit, Init, MemLocals, MemIds, MemRead, NoCall, Call, Operations, Writing
<1>4. NoOverdraft
  BY DEF MemInit, Init, NoOverdraft, Unlocked
<1> QED BY <1>1, <1>2, <1>3, <1>4 DEF MemCallInv

\* What a call in flight relies on holds at each of its statements, with the
\* mutex of each map alone: its locals are set, the id it authorizes is its
\* own, and the payer it is about to write is current or will be refused.
THEOREM MemCallsSafe == MemSpec => []MemCallInv
BY MemCallInit, MemCallStep, PTL DEF MemSpec

\* Every variable of the in-memory backend keeps its type, and no row is
\* ever locked.
THEOREM MemTypeCorrect == MemSpec => []MemTypeOK
<1>1. MemCallInv => MemTypeOK
  BY DEF MemCallInv
<1> QED BY <1>1, MemCallsSafe, PTL

\* Neither balance of a payer goes below zero on the in-memory backend: what
\* passed the checks on a record is only written while that record stands.
THEOREM MemFundsCorrect == MemSpec => []NoOverdraft
<1>1. MemCallInv => NoOverdraft
  BY DEF MemCallInv
<1> QED BY <1>1, MemCallsSafe, PTL

-----------------------------------------------------------------------------
(* Payments and holds.                                                     *)

\* Another call that is at a statement stays there.
LEMMA AtStays ==
  ASSUME NEW p \in Procs, \A s \in Procs \ {p} : pc'[s] = pc[s] /\ loc'[s] = loc[s],
         NEW labels, NEW q, At(labels, q), pc[p] \notin labels \/ loc[p].payment # q
  PROVE  At(labels, q)'
BY DEF At

\* A step of p that writes neither a payment nor a hold.
LEMMA MemBookSame ==
  ASSUME MemBookInv, NEW p \in Procs, UNCHANGED <<payments, holds, torn>>,
         \A s \in Procs \ {p} : pc'[s] = pc[s] /\ loc'[s] = loc[s],
         pc[p] \notin {"create_hold", "update_payment"}, MemHold(p)'
  PROVE  MemBookInv'
<1>1. ASSUME NEW r \in Procs PROVE MemHold(r)'
  BY DEF MemBookInv, MemHold
<1>2. ASSUME NEW q \in PaymentIDs PROVE MemBook(q)'
  <2>1. /\ At({"create_hold"}, q) => At({"create_hold"}, q)'
        /\ At({"update_payment"}, q) => At({"update_payment"}, q)'
    BY AtStays
  <2> QED BY <2>1 DEF MemBookInv, MemBook
<1> QED BY <1>1, <1>2 DEF MemBookInv

\* The reads: GetHold finds a hold HELD, and GetPayer goes on with no other.
LEMMA MemBookReads ==
  ASSUME MemCallInv, MemBookInv, NEW p \in Procs,
         MemStartAuthorize(p) \/ MemStartCapture(p) \/ MemGetHold(p) \/ MemGetPayer(p)
  PROVE  MemBookInv'
<1>1. CASE MemStartAuthorize(p) \/ MemStartCapture(p)
  <2>1. /\ UNCHANGED <<payments, holds, torn>> /\ pc[p] = "idle"
        /\ \A s \in Procs \ {p} : pc'[s] = pc[s] /\ loc'[s] = loc[s]
        /\ (pc'[p] = "get_payer" /\ loc'[p].op = "authorize") \/ pc'[p] = "get_hold"
    BY <1>1, MemStartSets DEF tables
  <2>2. MemHold(p)'
    BY <2>1 DEF MemHold
  <2> QED BY <2>1, <2>2, MemBookSame
<1>2. CASE MemGetHold(p)
  <2>1. /\ UNCHANGED <<payments, holds, torn>> /\ pc[p] = "get_hold" /\ pc'[p] = "get_payer"
        /\ loc'[p] = [loc[p] EXCEPT !.hold = holds[loc[p].payment].val] /\ loc[p] \in Local
        /\ \A s \in Procs \ {p} : pc'[s] = pc[s] /\ loc'[s] = loc[s]
    BY <1>2, MemGetHoldSets DEF tables, MemCallInv, MemTypeOK
  <2>2. loc'[p].payment = loc[p].payment /\ loc'[p].hold = holds[loc[p].payment].val
    BY <2>1 DEF Local
  <2>3. MemHold(p)'
    BY <2>1, <2>2 DEF MemHold
  <2> QED BY <2>1, <2>3, MemBookSame
<1>3. CASE MemGetPayer(p) /\ Admits(p, Seen(payers[loc[p].payer], p))
  <2>1. PICK x : x = loc[p].payer
    OBVIOUS
  <2>2. PICK r : r = payers[x].val
    OBVIOUS
  <2>3. /\ UNCHANGED <<payments, holds, torn>> /\ pc[p] = "get_payer" /\ pc'[p] = "update_payer"
        /\ Admits(p, r) /\ loc'[p].op = loc[p].op /\ loc'[p].payment = loc[p].payment
        /\ \A s \in Procs \ {p} : pc'[s] = pc[s] /\ loc'[s] = loc[s]
    BY <1>3, <2>1, <2>2, MemGetPayerSets DEF tables
  <2>4. loc[p].op = "capture" => loc[p].hold = "HELD"
    BY <2>3 DEF Admits
  <2>5. MemHold(p)'
    BY <2>3, <2>4 DEF MemHold, MemBookInv
  <2> QED BY <2>3, <2>5, MemBookSame
<1>4. CASE MemGetPayer(p) /\ ~Admits(p, Seen(payers[loc[p].payer], p))
  <2>1. UNCHANGED <<payments, holds, torn>> /\ pc[p] = "get_payer" /\ EndCall(p)
    BY <1>4, MemGetPayerFails DEF tables
  <2>2. pc'[p] = "idle" /\ \A s \in Procs \ {p} : pc'[s] = pc[s] /\ loc'[s] = loc[s]
    BY <2>1, MemEnds
  <2>3. MemHold(p)'
    BY <2>2 DEF MemHold
  <2> QED BY <2>1, <2>2, <2>3, MemBookSame
<1> QED BY <1>1, <1>2, <1>3, <1>4

\* UpdatePayer, and the statements that end a call whole.
LEMMA MemBookOthers ==
  ASSUME MemCallInv, MemBookInv, NEW p \in Procs,
         MemUpdatePayer(p) \/ MemVersionConflict(p) \/ MemCreateEvent(p)
  PROVE  MemBookInv'
<1>1. CASE MemUpdatePayer(p)
  <2>1. /\ UNCHANGED <<payments, holds, torn, loc>> /\ pc[p] = "update_payer"
        /\ pc'[p] = IF loc[p].op = "authorize" THEN "create_payment" ELSE "update_hold"
        /\ \A s \in Procs \ {p} : pc'[s] = pc[s] /\ loc'[s] = loc[s]
        /\ loc[p].op \in {"authorize", "capture"}
    BY <1>1, MemWrites
  <2>2. MemHold(p)'
    BY <2>1 DEF MemHold, MemBookInv
  <2> QED BY <2>1, <2>2, MemBookSame
<1>2. CASE MemVersionConflict(p) \/ MemCreateEvent(p)
  <2>1. UNCHANGED <<payments, holds, torn>> /\ pc[p] \in {"update_payer", "create_event"} /\ EndCall(p)
    BY <1>2 DEF MemVersionConflict, MemCreateEvent, tables
  <2>2. pc'[p] = "idle" /\ \A s \in Procs \ {p} : pc'[s] = pc[s] /\ loc'[s] = loc[s]
    BY <2>1, MemEnds
  <2>3. MemHold(p)'
    BY <2>2 DEF MemHold
  <2> QED BY <2>1, <2>2, <2>3, MemBookSame
<1> QED BY <1>1, <1>2

\* A call cut off between its writes: its payment is not looked at any more.
LEMMA MemBookFail ==
  ASSUME MemCallInv, MemBookInv, NEW p \in Procs, MemFail(p)
  PROVE  MemBookInv'
<1>1. /\ UNCHANGED <<payments, holds>> /\ EndCall(p) /\ torn \subseteq torn'
      /\ pc[p] \in Writing => loc[p].payment \in torn'
  BY DEF MemFail, tables
<1>2. pc'[p] = "idle" /\ \A s \in Procs \ {p} : pc'[s] = pc[s] /\ loc'[s] = loc[s]
  BY <1>1, MemEnds
<1>3. ASSUME NEW r \in Procs PROVE MemHold(r)'
  BY <1>1, <1>2 DEF MemBookInv, MemHold
<1>4. ASSUME NEW q \in PaymentIDs PROVE MemBook(q)'
  <2>1. CASE q \in torn'
    BY <1>1, <2>1 DEF MemBookInv, MemBook
  <2>2. CASE q \notin torn'
    <3>1. pc[p] \notin {"create_hold", "update_payment"} \/ loc[p].payment # q
      BY <1>1, <2>2 DEF Writing
    <3>2. /\ At({"create_hold"}, q) => At({"create_hold"}, q)'
          /\ At({"update_payment"}, q) => At({"update_payment"}, q)'
      BY <1>2, <3>1, AtStays
    <3> QED BY <1>1, <3>2 DEF MemBookInv, MemBook
  <2> QED BY <2>1, <2>2
<1> QED BY <1>3, <1>4 DEF MemBookInv

\* CreatePayment and UpdatePayment.
LEMMA MemBookPayment ==
  ASSUME MemCallInv, MemBookInv, NEW p \in Procs, MemCreatePayment(p) \/ MemUpdatePayment(p)
  PROVE  MemBookInv'
<1> PICK q : q = loc[p].payment
  OBVIOUS
<1>1. /\ UNCHANGED <<holds, torn, loc>> /\ q \in PaymentIDs /\ loc[p].pay \in Payment
      /\ \/ pc[p] = "create_payment" /\ pc'[p] = "create_hold"
         \/ pc[p] = "update_payment" /\ pc'[p] = "create_event"
      /\ \A s \in Procs \ {p} : pc'[s] = pc[s] /\ loc'[s] = loc[s]
      /\ MemLocals(p)
  BY MemWrites
<1>2. /\ payments'[q].val = loc[p].pay /\ payments'[q].val # None
      /\ \A s \in PaymentIDs \ {q} : payments'[s] = payments[s]
  BY <1>1, MemWritten, NoneAssumption
<1>3. /\ pc[p] = "create_payment" => loc[p].pay.status = "AUTHORIZED"
      /\ pc[p] = "update_payment" => loc[p].pay.status = "CAPTURED"
  BY <1>1, NoneAssumption DEF MemLocals, Writing
<1>4. pc[p] = "create_payment" => payments[q].val = None /\ holds[q].val = None
  <2> SUFFICES ASSUME pc[p] = "create_payment" PROVE payments[q].val = None /\ holds[q].val = None
    OBVIOUS
  <2>1. payments[q].val = None
    BY <1>1 DEF MemCallInv, MemLocals, MemIds
  <2> QED BY <1>1, <2>1 DEF MemBookInv, MemBook
<1>5. pc[p] = "update_payment" => holds[q].val = "CAPTURED"
  BY DEF MemBookInv, MemHold
<1>6. ASSUME NEW r \in Procs PROVE MemHold(r)'
  BY <1>1, <1>4 DEF MemBookInv, MemHold
<1>7. ASSUME NEW s \in PaymentIDs PROVE MemBook(s)'
  <2>1. CASE s # q
    <3>1. /\ At({"create_hold"}, s) => At({"create_hold"}, s)'
          /\ At({"update_payment"}, s) => At({"update_payment"}, s)'
      BY <1>1, <2>1, AtStays
    <3> QED BY <1>1, <1>2, <2>1, <3>1 DEF MemBookInv, MemBook
  <2>2. CASE s = q /\ pc[p] = "create_payment"
    <3>1. At({"create_hold"}, q)'
      BY <1>1, <2>2 DEF At
    <3>2. holds'[q].val = None
      BY <1>1, <1>4, <2>2
    <3>3. payments'[q].val.status = "AUTHORIZED"
      BY <1>2, <1>3, <2>2
    <3> QED BY <1>2, <2>2, <3>1, <3>2, <3>3, NoneAssumption DEF MemBook, HoldStatuses
  <2>3. CASE s = q /\ pc[p] = "update_payment"
    <3>1. payments[q].val # None
      BY <1>1, <2>3 DEF MemLocals
    <3>2. holds[q].val # None
      BY <1>5, <2>3, NoneAssumption DEF HoldStatuses
    <3> QED BY <1>1, <1>2, <1>3, <1>5, <2>3, <3>2 DEF MemBook
  <2> QED BY <1>1, <2>1, <2>2, <2>3
<1> QED BY <1>6, <1>7 DEF MemBookInv

\* CreateHold and UpdateHold.
LEMMA MemBookHold ==
  ASSUME MemCallInv, MemBookInv, NEW p \in Procs, MemCreateHold(p) \/ MemUpdateHold(p)
  PROVE  MemBookInv'
<1> PICK q : q = loc[p].payment
  OBVIOUS
<1>1. /\ UNCHANGED <<payments, torn, loc>> /\ q \in PaymentIDs
      /\ \A s \in Procs \ {p} : pc'[s] = pc[s] /\ loc'[s] = loc[s]
      /\ MemLocals(p) /\ MemIds(p) /\ MemBook(q) /\ MemHold(p)
  BY MemWrites DEF MemCallInv, MemBookInv
<1>2. \A s \in PaymentIDs \ {q} : holds'[s] = holds[s]
  BY MemWritten
<1>3. CASE MemCreateHold(p)
  <2>1. /\ holds'[q].val = "HELD" /\ pc[p] = "create_hold" /\ pc'[p] = "create_event"
        /\ loc[p].op = "authorize" /\ holds[q].val = None /\ payments[q].val # None
    BY <1>1, <1>3, MemWrites, MemWritten DEF MemLocals, MemHold, MemIds
  <2>2. payments[q].val.status = "AUTHORIZED"
    BY <1>1, <2>1, NoneAssumption DEF MemBook, HoldStatuses
  <2>3. ASSUME NEW r \in Procs PROVE MemHold(r)'
    <3>1. CASE r = p
      BY <2>1, <3>1 DEF MemHold
    <3>2. CASE r # p /\ loc[r].payment = q /\ pc[r] # "idle"
      <4>1. pc'[r] = pc[r] /\ loc'[r] = loc[r] /\ MemLocals(r) /\ MemHold(r)
        BY <1>1, <3>2 DEF MemCallInv, MemBookInv
      <4>2. pc[r] # "create_hold"
        BY <1>1, <2>1, <3>2, <4>1 DEF MemLocals, MemIds
      <4>3. pc[r] # "update_payment"
        BY <2>1, <3>2, <4>1, NoneAssumption DEF MemHold, HoldStatuses
      <4> QED BY <2>1, <3>2, <4>1, <4>2, <4>3 DEF MemHold
    <3>3. CASE r # p /\ (loc[r].payment # q \/ pc[r] = "idle")
      <4>1. pc'[r] = pc[r] /\ loc'[r] = loc[r] /\ MemLocals(r) /\ MemHold(r)
        BY <1>1, <3>3 DEF MemCallInv, MemBookInv
      <4>2. pc[r] # "idle" => holds'[loc[r].payment] = holds[loc[r].payment]
        BY <1>2, <3>3, <4>1 DEF MemLocals
      <4> QED BY <4>1, <4>2 DEF MemHold
    <3> QED BY <3>1, <3>2, <3>3
  <2>4. ASSUME NEW s \in PaymentIDs PROVE MemBook(s)'
    <3>1. CASE s # q
      <4>1. /\ At({"create_hold"}, s) => At({"create_hold"}, s)'
            /\ At({"update_payment"}, s) => At({"update_payment"}, s)'
        BY <1>1, <3>1, AtStays
      <4> QED BY <1>1, <1>2, <3>1, <4>1 DEF MemBookInv, MemBook
    <3>2. CASE s = q
      BY <1>1, <2>1, <2>2, <3>2, NoneAssumption DEF MemBook, HoldStatuses
    <3> QED BY <3>1, <3>2
  <2> QED BY <2>3, <2>4 DEF MemBookInv
<1>4. CASE MemUpdateHold(p)
  <2>0. pc[p] = "update_hold" /\ pc'[p] = "update_payment" /\ ~MemCreateHold(p)
    BY <1>4, MemWrites DEF MemCreateHold
  <2>1. /\ holds'[q].val = "CAPTURED" /\ holds[q].val \in {"HELD", "CAPTURED"} /\ payments[q].val # None
    BY <1>1, <1>4, <2>0, MemWritten DEF MemLocals, MemHold
  <2>2. ASSUME NEW r \in Procs PROVE MemHold(r)'
    <3>1. CASE r = p
      BY <1>1, <2>0, <2>1, <3>1 DEF MemHold
    <3>2. CASE r # p /\ loc[r].payment = q
      <4>1. pc'[r] = pc[r] /\ loc'[r] = loc[r] /\ MemHold(r)
        BY <1>1, <3>2 DEF MemBookInv
      <4>2. pc[r] # "create_hold"
        BY <2>1, <3>2, <4>1, NoneAssumption DEF MemHold, HoldStatuses
      <4> QED BY <2>1, <3>2, <4>1, <4>2 DEF MemHold
    <3>3. CASE r # p /\ loc[r].payment # q
      <4>1. pc'[r] = pc[r] /\ loc'[r] = loc[r] /\ MemLocals(r) /\ MemHold(r)
        BY <1>1, <3>3 DEF MemCallInv, MemBookInv
      <4>2. pc[r] # "idle" => holds'[loc[r].payment] = holds[loc[r].payment]
        BY <1>2, <3>3, <4>1 DEF MemLocals
      <4> QED BY <4>1, <4>2 DEF MemHold
    <3> QED BY <3>1, <3>2, <3>3
  <2>3. ASSUME NEW s \in PaymentIDs PROVE MemBook(s)'
    <3>1. CASE s # q
      <4>1. /\ At({"create_hold"}, s) => At({"create_hold"}, s)'
            /\ At({"update_payment"}, s) => At({"update_payment"}, s)'
        BY <1>1, <3>1, AtStays
      <4> QED BY <1>1, <1>2, <3>1, <4>1 DEF MemBookInv, MemBook
    <3>2. CASE s = q
      <4>1. At({"update_payment"}, q)'
        BY <1>1, <2>0 DEF At
      <4> QED BY <1>1, <2>1, <3>2, <4>1, NoneAssumption DEF MemBook, HoldStatuses
    <3> QED BY <3>1, <3>2
  <2> QED BY <2>2, <2>3 DEF MemBookInv
<1> QED BY <1>3, <1>4

\* The book is inductive.
LEMMA MemBookStep == MemCallInv /\ MemBookInv /\ [MemNext]_mvars => MemBookInv'
<1> SUFFICES ASSUME MemCallInv, MemBookInv, [MemNext]_mvars PROVE MemBookInv'
    OBVIOUS
<1>1. ASSUME UNCHANGED <<payments, holds, torn, pc, loc>> PROVE MemBookInv'
  <2>1. \A r \in Procs : MemHold(r)'
    BY <1>1 DEF MemBookInv, MemHold
  <2>2. \A q \in PaymentIDs : MemBook(q)'
    BY <1>1 DEF MemBookInv, MemBook, At
  <2> QED BY <2>1, <2>2 DEF MemBookInv
<1>2. CASE Tick /\ UNCHANGED torn
  BY <1>1, <1>2 DEF Tick, tables
<1>3. ASSUME NEW m \in Merchants, MemCreateMerchant(m) PROVE MemBookInv'
  BY <1>1, <1>3 DEF MemCreateMerchant, CreateMerchant, tables
<1>4. ASSUME NEW x \in Payers, NEW b \in Openings, MemCreatePayer(x, b) PROVE MemBookInv'
  BY <1>1, <1>4 DEF MemCreatePayer, CreatePayer
<1> QED
   BY <1>1, <1>2, <1>3, <1>4, MemBookReads, MemBookOthers, MemBookFail, MemBookPayment, MemBookHold
   DEF MemNext, mvars, vars, tables

LEMMA MemBookInit == MemInit => MemBookInv
BY NoneAssumption DEF MemInit, Init, MemBookInv, MemHold, MemBook, Unlocked, NoCall, Call, Operations

\* A payment and its hold agree between calls, although the two maps are
\* written one after the other and a capture may come in between; only a
\* call that was cut off leaves them apart.
THEOREM MemHoldsCorrect == MemSpec => []HoldFollowsUnlessTorn
<1>1. MemCallInv /\ MemBookInv => HoldFollowsUnlessTorn
  <2> SUFFICES ASSUME MemBookInv, NEW q \in PaymentIDs, payments[q].val # None, q \notin torn, ~InFlight(q)
               PROVE  holds[q].val = HoldFor(payments[q].val.status)
    BY DEF HoldFollowsUnlessTorn
  <2>1. ~At({"create_hold"}, q) /\ ~At({"update_payment"}, q)
    BY DEF At, InFlight, Writing
  <2> QED BY <2>1 DEF MemBookInv, MemBook, HoldFor
<1> QED BY <1>1, MemCallsSafe, MemBookInit, MemBookStep, MemCallInit, MemCallStep, PTL DEF MemSpec

-----------------------------------------------------------------------------
(* Balances and events.                                                    *)

\* The calls that owe an event are finitely many, and their amounts numbers.
LEMMA OwedFinite ==
  ASSUME MemCallInv, MemSumInv, NEW op, NEW x
  PROVE  /\ IsFiniteSet(Owed(op, x)) /\ Owed(op, x) \subseteq Procs
         /\ \A r \in Procs : AmountOfCall[r] = loc[r].amount /\ AmountOfCall[r] \in Int
         /\ OwedTotal(op, x) \in Int /\ Cardinality(Owed(op, x)) \in Nat
<1>1. IsFiniteSet(Owed(op, x)) /\ Owed(op, x) \subseteq Procs
  <2>1. Owed(op, x) \subseteq {p \in Procs : pc[p] # "idle"}
    BY DEF Owed, Writing
  <2> QED BY <2>1, FS_Subset DEF MemSumInv
<1>2. \A r \in Procs : AmountOfCall[r] = loc[r].amount /\ AmountOfCall[r] \in Int
  BY DEF AmountOfCall, MemCallInv, MemTypeOK, Local
<1>3. OwedTotal(op, x) \in Int
  <2>1. \A r \in Owed(op, x) : AmountOfCall[r] \in Int
    BY <1>1, <1>2
  <2> QED BY <1>1, <2>1, SumInt DEF OwedTotal
<1>4. Cardinality(Owed(op, x)) \in Nat
  BY <1>1, FS_CardinalityType
<1> QED BY <1>1, <1>2, <1>3, <1>4

\* A step of p after which p owes what it owed before.
LEMMA OwedSame ==
  ASSUME MemCallInv, MemSumInv, NEW p \in Procs,
         \A s \in Procs \ {p} : pc'[s] = pc[s] /\ loc'[s] = loc[s],
         NEW op, NEW x, p \in Owed(op, x)' <=> p \in Owed(op, x),
         p \in Owed(op, x) => loc'[p].amount = loc[p].amount
  PROVE  Owed(op, x)' = Owed(op, x) /\ OwedTotal(op, x)' = OwedTotal(op, x)
<1> DEFINE S == Owed(op, x)
           f == AmountOfCall
           g == AmountOfCall'
<1>1. Owed(op, x)' = S
  <2>1. \A s \in Procs \ {p} : s \in Owed(op, x)' <=> s \in S
    BY DEF Owed
  <2>2. Owed(op, x)' \subseteq Procs /\ S \subseteq Procs
    BY DEF Owed
  <2> QED BY <2>1, <2>2
<1>2. IsFiniteSet(S) /\ \A s \in S : g[s] = f[s]
  <2>1. IsFiniteSet(S) /\ S \subseteq Procs
    BY OwedFinite
  <2>2. \A s \in S : loc'[s].amount = loc[s].amount
    BY <2>1
  <2> QED BY <2>1, <2>2 DEF AmountOfCall
<1>3. OwedTotal(op, x)' = SumFunctionOnSet(g, S) /\ OwedTotal(op, x) = SumFunctionOnSet(f, S)
  BY <1>1 DEF OwedTotal
<1> HIDE DEF S, f, g
<1>4. SumFunctionOnSet(g, S) = SumFunctionOnSet(f, S)
  BY <1>2, SumSame
<1> QED BY <1>1, <1>3, <1>4 DEF S

\* A step of p after which p owes one more event.
LEMMA OwedMore ==
  ASSUME MemCallInv, MemSumInv, NEW p \in Procs,
         \A s \in Procs \ {p} : pc'[s] = pc[s] /\ loc'[s] = loc[s],
         NEW op, NEW x, p \notin Owed(op, x), p \in Owed(op, x)', loc'[p].amount = loc[p].amount
  PROVE  /\ OwedTotal(op, x)' = OwedTotal(op, x) + loc[p].amount
         /\ Cardinality(Owed(op, x)') = Cardinality(Owed(op, x)) + 1
<1> DEFINE S == Owed(op, x)
           f == AmountOfCall
           g == AmountOfCall'
<1>1. Owed(op, x)' = S \cup {p}
  <2>1. \A s \in Procs \ {p} : s \in Owed(op, x)' <=> s \in S
    BY DEF Owed
  <2>2. Owed(op, x)' \subseteq Procs /\ S \subseteq Procs
    BY DEF Owed
  <2> QED BY <2>1, <2>2
<1>2. IsFiniteSet(S) /\ p \notin S /\ \A s \in S \cup {p} : g[s] = f[s] /\ f[s] \in Int
  <2>1. IsFiniteSet(S) /\ S \subseteq Procs /\ \A s \in Procs : f[s] \in Int
    BY OwedFinite
  <2>2. \A s \in S \cup {p} : loc'[s].amount = loc[s].amount
    BY <2>1
  <2>3. \A s \in S \cup {p} : g[s] = f[s]
    BY <2>1, <2>2 DEF AmountOfCall
  <2> QED BY <2>1, <2>3
<1>3. OwedTotal(op, x)' = SumFunctionOnSet(g, S \cup {p}) /\ OwedTotal(op, x) = SumFunctionOnSet(f, S)
  BY <1>1 DEF OwedTotal
<1>4. f[p] = loc[p].amount
  BY DEF AmountOfCall
<1>5. Cardinality(Owed(op, x)') = Cardinality(S \cup {p})
  BY <1>1
<1> HIDE DEF S, f, g
<1>6. IsFiniteSet(S \cup {p}) /\ Cardinality(S \cup {p}) = Cardinality(S) + 1
  BY <1>2, FS_AddElement
<1>7. SumFunctionOnSet(g, S \cup {p}) = SumFunctionOnSet(f, S \cup {p})
  BY <1>2, <1>6, SumSame
<1>8. SumFunctionOnSet(f, S \cup {p}) = SumFunctionOnSet(f, S) + f[p]
  <2>1. IsFiniteSet(S) /\ p \notin S
    BY <1>2
  <2>2. \A s \in S \cup {p} : f[s] \in Int
    BY <1>2
  <2> QED BY ONLY <2>1, <2>2, SumAdd
<1> QED BY <1>3, <1>4, <1>5, <1>6, <1>7, <1>8 DEF S

\* A step of p after which p owes the event no more.
LEMMA OwedLess ==
  ASSUME MemCallInv, MemSumInv, NEW p \in Procs,
         \A s \in Procs \ {p} : pc'[s] = pc[s] /\ loc'[s] = loc[s],
         NEW op, NEW x, p \in Owed(op, x), p \notin Owed(op, x)'
  PROVE  /\ OwedTotal(op, x) = OwedTotal(op, x)' + loc[p].amount /\ OwedTotal(op, x)' \in Int
         /\ Cardinality(Owed(op, x)) = Cardinality(Owed(op, x)') + 1 /\ Cardinality(Owed(op, x)') \in Nat
<1> DEFINE S == Owed(op, x)
           f == AmountOfCall
           g == AmountOfCall'
<1>1. Owed(op, x)' = S \ {p}
  <2>1. \A s \in Procs \ {p} : s \in Owed(op, x)' <=> s \in S
    BY DEF Owed
  <2>2. Owed(op, x)' \subseteq Procs /\ S \subseteq Procs
    BY DEF Owed
  <2> QED BY <2>1, <2>2
<1>2. /\ IsFiniteSet(S) /\ p \in S /\ \A s \in S : f[s] \in Int
      /\ \A s \in S \ {p} : g[s] = f[s]
  <2>1. IsFiniteSet(S) /\ S \subseteq Procs /\ \A s \in Procs : f[s] \in Int
    BY OwedFinite
  <2>2. \A s \in S \ {p} : loc'[s].amount = loc[s].amount
    BY <2>1
  <2>3. \A s \in S \ {p} : g[s] = f[s]
    BY <2>1, <2>2 DEF AmountOfCall
  <2> QED BY <2>1, <2>3
<1>3. OwedTotal(op, x)' = SumFunctionOnSet(g, S \ {p}) /\ OwedTotal(op, x) = SumFunctionOnSet(f, S)
  BY <1>1 DEF OwedTotal
<1>4. f[p] = loc[p].amount
  BY DEF AmountOfCall
<1>5. Cardinality(Owed(op, x)') = Cardinality(S \ {p})
  BY <1>1
<1> HIDE DEF S, f, g
<1>6. /\ IsFiniteSet(S \ {p}) /\ Cardinality(S \ {p}) = Cardinality(S) - 1
      /\ Cardinality(S \ {p}) \in Nat /\ Cardinality(S) \in Nat
  BY <1>2, FS_RemoveElement, FS_CardinalityType
<1>7. SumFunctionOnSet(g, S \ {p}) = SumFunctionOnSet(f, S \ {p})
  BY <1>2, <1>6, SumSame
<1>8. SumFunctionOnSet(f, S) = f[p] + SumFunctionOnSet(f, S \ {p})
  BY <1>2, SumRemove
<1>9. SumFunctionOnSet(f, S \ {p}) \in Int /\ f[p] \in Int
  <2>1. \A s \in S \ {p} : f[s] \in Int
    BY <1>2
  <2> QED BY <1>2, <1>6, <2>1, SumInt
<1> QED BY <1>3, <1>4, <1>5, <1>6, <1>7, <1>8, <1>9 DEF S

\* The calls in flight stay finitely many.
LEMMA ActiveFinite ==
  ASSUME MemSumInv, NEW p \in Procs, \A s \in Procs \ {p} : pc'[s] = pc[s]
  PROVE  IsFiniteSet({s \in Procs : pc[s] # "idle"})'
<1> DEFINE A == {s \in Procs : pc[s] # "idle"}
           A1 == {s \in Procs : pc'[s] # "idle"}
<1>1. A1 \subseteq A \cup {p}
  OBVIOUS
<1>2. IsFiniteSet(A \cup {p})
  BY FS_AddElement DEF MemSumInv
<1> QED BY <1>1, <1>2, FS_Subset

\* A payer whose row, account and calls stay as they are.
LEMMA MemSumKept ==
  ASSUME NEW y, payers'[y].val = payers[y].val, posted'[y].val = posted[y].val,
         \A op \in {"authorize", "capture"} : Owed(op, y)' = Owed(op, y) /\ OwedTotal(op, y)' = OwedTotal(op, y)
  PROVE  (MemFunds(y) => MemFunds(y)') /\ (MemReconciles(y) => MemReconciles(y)')
<1>1. /\ Owed("authorize", y)' = Owed("authorize", y) /\ OwedTotal("authorize", y)' = OwedTotal("authorize", y)
      /\ Owed("capture", y)' = Owed("capture", y) /\ OwedTotal("capture", y)' = OwedTotal("capture", y)
  OBVIOUS
<1> QED BY <1>1 DEF MemFunds, MemReconciles

\* A step of p that writes neither a payer nor an event, and changes nothing
\* of what p owes.
LEMMA MemSumSame ==
  ASSUME MemCallInv, MemSumInv, NEW p \in Procs, UNCHANGED <<payers, posted, torn>>,
         \A s \in Procs \ {p} : pc'[s] = pc[s] /\ loc'[s] = loc[s],
         \/ pc[p] \notin Writing /\ pc'[p] \notin Writing
         \/ pc[p] \in Writing /\ pc'[p] \in Writing /\ loc'[p] = loc[p]
  PROVE  MemSumInv'
<1>1. ASSUME NEW op, NEW y
      PROVE  Owed(op, y)' = Owed(op, y) /\ OwedTotal(op, y)' = OwedTotal(op, y)
  <2>1. p \in Owed(op, y)' <=> p \in Owed(op, y)
    BY DEF Owed
  <2>2. p \in Owed(op, y) => loc'[p].amount = loc[p].amount
    BY DEF Owed
  <2> QED BY <2>1, <2>2, OwedSame
<1>2. ASSUME NEW y \in Payers, payers'[y].val # None
      PROVE  MemFunds(y)' /\ (y \notin torn' => MemReconciles(y)')
  BY <1>1, <1>2, MemSumKept DEF MemSumInv
<1> QED BY <1>2, ActiveFinite DEF MemSumInv

\* A call cut off while it owes an event: its payer is not looked at any
\* more, and what a capture has taken is gone.
LEMMA MemSumFail ==
  ASSUME MemCallInv, MemSumInv, NEW p \in Procs, MemFail(p)
  PROVE  MemSumInv'
<1>1. /\ UNCHANGED <<payers, posted>> /\ EndCall(p) /\ MemLocals(p) /\ loc[p].amount \in Int
      /\ torn' = IF pc[p] \in Writing THEN torn \cup {loc[p].payer, loc[p].payment} ELSE torn
  BY DEF MemFail, tables, MemCallInv, MemTypeOK, Local
<1>2. pc'[p] = "idle" /\ \A s \in Procs \ {p} : pc'[s] = pc[s] /\ loc'[s] = loc[s]
  BY <1>1, MemEnds
<1>3. CASE pc[p] \notin Writing
  BY <1>1, <1>2, <1>3, MemSumSame DEF Writing
<1>4. CASE pc[p] \in Writing
  <2>1. ASSUME NEW op, NEW y PROVE p \notin Owed(op, y)'
    BY <1>2 DEF Owed, Writing
  <2>2. ASSUME NEW y \in Payers, payers'[y].val # None
        PROVE  MemFunds(y)' /\ (y \notin torn' => MemReconciles(y)')
    <3>0. MemFunds(y) /\ (y \notin torn => MemReconciles(y))
      BY <1>1, <2>2 DEF MemSumInv
    <3>1. CASE y # loc[p].payer
      <4>1. ASSUME NEW op PROVE Owed(op, y)' = Owed(op, y) /\ OwedTotal(op, y)' = OwedTotal(op, y)
        <5>1. p \notin Owed(op, y)
          BY <3>1 DEF Owed
        <5> QED BY <1>2, <2>1, <5>1, OwedSame
      <4> QED BY <1>1, <1>4, <3>0, <4>1, MemSumKept
    <3>2. CASE y = loc[p].payer
      <4>1. y \in torn'
        BY <1>1, <1>4, <3>2
      <4>2. OwedTotal("capture", y)' <= OwedTotal("capture", y) /\ OwedTotal("capture", y)' \in Int
        <5>1. CASE p \in Owed("capture", y)
          <6>1. OwedTotal("capture", y) = OwedTotal("capture", y)' + loc[p].amount /\ OwedTotal("capture", y)' \in Int
            BY <1>2, <2>1, <5>1, OwedLess
          <6>2. loc[p].amount > 0
            BY <1>1, <1>4 DEF MemLocals
          <6> QED BY <1>1, <6>1, <6>2
        <5>2. CASE p \notin Owed("capture", y)
          <6>1. OwedTotal("capture", y)' = OwedTotal("capture", y)
            BY <1>2, <2>1, <5>2, OwedSame
          <6>2. OwedTotal("capture", y) \in Int
            BY OwedFinite
          <6> QED BY <6>1, <6>2
        <5> QED BY <5>1, <5>2
      <4>3. /\ payers[y].val \in Payer /\ posted[y].val \in Account
            /\ OwedTotal("capture", y) \in Int
        BY <1>1, <2>2, OwedFinite DEF MemCallInv, MemTypeOK, Maps
      <4>4. MemFunds(y)'
        BY <1>1, <3>0, <4>2, <4>3 DEF MemFunds, Payer, Account
      <4> QED BY <4>1, <4>4
    <3> QED BY <3>1, <3>2
  <2> QED BY <1>2, <2>2, ActiveFinite DEF MemSumInv
<1> QED BY <1>3, <1>4

\* UpdatePayer: what moves on the payer is what the call owes from now on.
LEMMA MemSumUpdatePayer ==
  ASSUME MemCallInv, MemSumInv, NEW p \in Procs, MemUpdatePayer(p)
  PROVE  MemSumInv'
<1> PICK x : x = loc[p].payer
  OBVIOUS
<1> PICK op : op = loc[p].op
  OBVIOUS
<1> PICK amount : amount = loc[p].amount
  OBVIOUS
<1> PICK r : r = payers[x].val
  OBVIOUS
<1>1. /\ UNCHANGED <<posted, torn, loc>> /\ pc[p] = "update_payer" /\ pc'[p] \in Writing
      /\ \A s \in Procs \ {p} : pc'[s] = pc[s] /\ loc'[s] = loc[s]
      /\ MemLocals(p) /\ MemRead(p) /\ x \in Payers /\ op \in {"authorize", "capture"} /\ amount \in Int
  BY MemWrites DEF MemCallInv, MemTypeOK, Local
<1>2. payers'[x].val = loc[p].acct /\ \A y \in Payers \ {x} : payers'[y] = payers[y]
  BY MemWritten
<1>3. r \in Payer /\ r # None /\ posted[x].val \in Account
  BY <1>1 DEF MemLocals, MemCallInv, MemTypeOK, Maps
<1>4. payers'[x].val = Charged(op, r, amount)
  BY <1>1, <1>2 DEF MemRead, MemUpdatePayer
<1>5. ASSUME NEW o, NEW y PROVE p \notin Owed(o, y) /\ (p \in Owed(o, y)' <=> o = op /\ y = x)
  BY <1>1 DEF Owed, Writing
<1>6. ASSUME NEW o, NEW y, o # op \/ y # x
      PROVE  Owed(o, y)' = Owed(o, y) /\ OwedTotal(o, y)' = OwedTotal(o, y)
  BY <1>1, <1>5, <1>6, OwedSame
<1>7. /\ OwedTotal(op, x)' = OwedTotal(op, x) + amount
      /\ Cardinality(Owed(op, x)') = Cardinality(Owed(op, x)) + 1
  BY <1>1, <1>5, OwedMore
<1>8. ASSUME NEW y \in Payers, payers'[y].val # None
      PROVE  MemFunds(y)' /\ (y \notin torn' => MemReconciles(y)')
  <2>1. CASE y # x
    BY <1>1, <1>2, <1>6, <1>8, <2>1, MemSumKept DEF MemSumInv
  <2>2. CASE y = x
    <3>1. MemFunds(x) /\ (x \notin torn => MemReconciles(x))
      BY <1>1, <1>3, <2>2 DEF MemSumInv
    <3>2. /\ OwedTotal("authorize", x) \in Int /\ OwedTotal("capture", x) \in Int
          /\ Cardinality(Owed("authorize", x)) \in Nat /\ Cardinality(Owed("capture", x)) \in Nat
      BY OwedFinite
    <3>3. CASE op = "authorize"
      <4>1. /\ OwedTotal("capture", x)' = OwedTotal("capture", x) /\ Owed("capture", x)' = Owed("capture", x)
            /\ OwedTotal("authorize", x)' = OwedTotal("authorize", x) + amount
            /\ Cardinality(Owed("authorize", x)') = Cardinality(Owed("authorize", x)) + 1
        BY <1>6, <1>7, <3>3
      <4>2. /\ payers'[x].val.available = r.available - amount /\ payers'[x].val.held = r.held + amount
            /\ payers'[x].val.version = r.version + 1
        BY <1>4, <3>3 DEF Charged, Reserve
      <4>3. MemFunds(x)'
        BY <1>1, <1>3, <3>1, <3>2, <4>1, <4>2 DEF MemFunds, Payer, Account
      <4>4. x \notin torn => MemReconciles(x)'
        <5> SUFFICES ASSUME MemReconciles(x) PROVE MemReconciles(x)'
          BY <3>1
        <5>1. /\ payers[x].val.available \in Int /\ payers[x].val.held \in Int /\ payers[x].val.version \in Int
              /\ posted[x].val.opening \in Int /\ posted[x].val.authorized \in Int /\ posted[x].val.captured \in Int
              /\ posted[x].val.expired \in Int /\ posted[x].val.entries \in Int
          BY <1>1, <1>3 DEF Payer, Account
        <5>2. /\ payers[x].val.available = posted[x].val.opening
                    - (posted[x].val.authorized + OwedTotal("authorize", x)) + posted[x].val.expired
              /\ payers[x].val.held = posted[x].val.authorized + OwedTotal("authorize", x)
                    - (posted[x].val.captured + OwedTotal("capture", x)) - posted[x].val.expired
              /\ payers[x].val.version = posted[x].val.entries
                    + Cardinality(Owed("authorize", x)) + Cardinality(Owed("capture", x))
          BY DEF MemReconciles
        <5>3. payers'[x].val.available = posted'[x].val.opening
                - (posted'[x].val.authorized + OwedTotal("authorize", x)') + posted'[x].val.expired
          BY <1>1, <3>2, <4>1, <4>2, <5>1, <5>2
        <5>4. payers'[x].val.held = posted'[x].val.authorized + OwedTotal("authorize", x)'
                - (posted'[x].val.captured + OwedTotal("capture", x)') - posted'[x].val.expired
          BY <1>1, <3>2, <4>1, <4>2, <5>1, <5>2
        <5>5. payers'[x].val.version = posted'[x].val.entries
                + Cardinality(Owed("authorize", x)') + Cardinality(Owed("capture", x)')
          BY <1>1, <3>2, <4>1, <4>2, <5>1, <5>2
        <5> QED BY <5>3, <5>4, <5>5 DEF MemReconciles
      <4> QED BY <1>1, <2>2, <4>3, <4>4
    <3>4. CASE op = "capture"
      <4>1. /\ OwedTotal("authorize", x)' = OwedTotal("authorize", x) /\ Owed("authorize", x)' = Owed("authorize", x)
            /\ OwedTotal("capture", x)' = OwedTotal("capture", x) + amount
            /\ Cardinality(Owed("capture", x)') = Cardinality(Owed("capture", x)) + 1
        BY <1>6, <1>7, <3>4
      <4>2. /\ payers'[x].val.available = r.available /\ payers'[x].val.held = r.held - amount
            /\ payers'[x].val.version = r.version + 1
        BY <1>4, <3>4 DEF Charged, CaptureHeld
      <4>3. MemFunds(x)'
        BY <1>1, <1>3, <3>1, <3>2, <4>1, <4>2 DEF MemFunds, Payer, Account
      <4>4. x \notin torn => MemReconciles(x)'
        <5> SUFFICES ASSUME MemReconciles(x) PROVE MemReconciles(x)'
          BY <3>1
        <5>1. /\ payers[x].val.available \in Int /\ payers[x].val.held \in Int /\ payers[x].val.version \in Int
              /\ posted[x].val.opening \in Int /\ posted[x].val.authorized \in Int /\ posted[x].val.captured \in Int
              /\ posted[x].val.expired \in Int /\ posted[x].val.entries \in Int
          BY <1>1, <1>3 DEF Payer, Account
        <5>2. /\ payers[x].val.available = posted[x].val.opening
                    - (posted[x].val.authorized + OwedTotal("authorize", x)) + posted[x].val.expired
              /\ payers[x].val.held = posted[x].val.authorized + OwedTotal("authorize", x)
                    - (posted[x].val.captured + OwedTotal("capture", x)) - posted[x].val.expired
              /\ payers[x].val.version = posted[x].val.entries
                    + Cardinality(Owed("authorize", x)) + Cardinality(Owed("capture", x))
          BY DEF MemReconciles
        <5>3. payers'[x].val.available = posted'[x].val.opening
                - (posted'[x].val.authorized + OwedTotal("authorize", x)') + posted'[x].val.expired
          BY <1>1, <3>2, <4>1, <4>2, <5>1, <5>2
        <5>4. payers'[x].val.held = posted'[x].val.authorized + OwedTotal("authorize", x)'
                - (posted'[x].val.captured + OwedTotal("capture", x)') - posted'[x].val.expired
          BY <1>1, <3>2, <4>1, <4>2, <5>1, <5>2
        <5>5. payers'[x].val.version = posted'[x].val.entries
                + Cardinality(Owed("authorize", x)') + Cardinality(Owed("capture", x)')
          BY <1>1, <3>2, <4>1, <4>2, <5>1, <5>2
        <5> QED BY <5>3, <5>4, <5>5 DEF MemReconciles
      <4> QED BY <1>1, <2>2, <4>3, <4>4
    <3> QED BY <1>1, <3>3, <3>4
  <2> QED BY <2>1, <2>2
<1> QED BY <1>1, <1>8, ActiveFinite DEF MemSumInv

\* CreateEvent: what the call owed is posted.
LEMMA MemSumEvent ==
  ASSUME MemCallInv, MemSumInv, NEW p \in Procs, MemCreateEvent(p)
  PROVE  MemSumInv'
<1> PICK x : x = loc[p].payer
  OBVIOUS
<1> PICK op : op = loc[p].op
  OBVIOUS
<1> PICK amount : amount = loc[p].amount
  OBVIOUS
<1> PICK a : a = posted[x].val
  OBVIOUS
<1>1. /\ UNCHANGED <<payers, torn>> /\ pc[p] = "create_event" /\ EndCall(p) /\ x \in Payers
      /\ op \in {"authorize", "capture"} /\ amount \in Int /\ payers[x].val # None /\ a \in Account
      /\ posted'[x].val = Posting(op, a, amount) /\ \A y \in Payers \ {x} : posted'[y] = posted[y]
  BY MemPosts
<1>2. pc'[p] = "idle" /\ \A s \in Procs \ {p} : pc'[s] = pc[s] /\ loc'[s] = loc[s]
  BY <1>1, MemEnds
<1>3. payers[x].val \in Payer
  BY <1>1 DEF MemCallInv, MemTypeOK
<1>5. ASSUME NEW o, NEW y PROVE p \notin Owed(o, y)' /\ (p \in Owed(o, y) <=> o = op /\ y = x)
  BY <1>1, <1>2 DEF Owed, Writing
<1>6. ASSUME NEW o, NEW y, o # op \/ y # x
      PROVE  Owed(o, y)' = Owed(o, y) /\ OwedTotal(o, y)' = OwedTotal(o, y)
  BY <1>2, <1>5, <1>6, OwedSame
<1>7. /\ OwedTotal(op, x) = OwedTotal(op, x)' + amount /\ OwedTotal(op, x)' \in Int
      /\ Cardinality(Owed(op, x)) = Cardinality(Owed(op, x)') + 1 /\ Cardinality(Owed(op, x)') \in Nat
  BY <1>2, <1>5, OwedLess
<1>8. ASSUME NEW y \in Payers, payers'[y].val # None
      PROVE  MemFunds(y)' /\ (y \notin torn' => MemReconciles(y)')
  <2>1. CASE y # x
    BY <1>1, <1>6, <1>8, <2>1, MemSumKept DEF MemSumInv
  <2>2. CASE y = x
    <3>1. MemFunds(x) /\ (x \notin torn => MemReconciles(x))
      BY <1>1 DEF MemSumInv
    <3>2. /\ OwedTotal("authorize", x) \in Int /\ OwedTotal("capture", x) \in Int
          /\ Cardinality(Owed("authorize", x)) \in Nat /\ Cardinality(Owed("capture", x)) \in Nat
      BY OwedFinite
    <3>3. CASE op = "authorize"
      <4>1. /\ OwedTotal("capture", x)' = OwedTotal("capture", x) /\ Owed("capture", x)' = Owed("capture", x)
            /\ OwedTotal("authorize", x) = OwedTotal("authorize", x)' + amount
            /\ OwedTotal("authorize", x)' \in Int
            /\ Cardinality(Owed("authorize", x)) = Cardinality(Owed("authorize", x)') + 1
            /\ Cardinality(Owed("authorize", x)') \in Nat
        BY <1>6, <1>7, <3>3
      <4>2. /\ posted'[x].val.opening = a.opening /\ posted'[x].val.authorized = a.authorized + amount
            /\ posted'[x].val.captured = a.captured /\ posted'[x].val.expired = a.expired
            /\ posted'[x].val.entries = a.entries + 1
        BY <1>1, <3>3 DEF Posting, Account
      <4>3. MemFunds(x)'
        BY <1>1, <1>3, <3>1, <3>2, <4>1, <4>2 DEF MemFunds, Payer, Account
      <4>4. x \notin torn => MemReconciles(x)'
        <5> SUFFICES ASSUME MemReconciles(x) PROVE MemReconciles(x)'
          BY <3>1
        <5>1. /\ payers[x].val.available \in Int /\ payers[x].val.held \in Int /\ payers[x].val.version \in Int
              /\ posted[x].val.opening \in Int /\ posted[x].val.authorized \in Int /\ posted[x].val.captured \in Int
              /\ posted[x].val.expired \in Int /\ posted[x].val.entries \in Int
          BY <1>1, <1>3 DEF Payer, Account
        <5>2. /\ payers[x].val.available = posted[x].val.opening
                    - (posted[x].val.authorized + OwedTotal("authorize", x)) + posted[x].val.expired
              /\ payers[x].val.held = posted[x].val.authorized + OwedTotal("authorize", x)
                    - (posted[x].val.captured + OwedTotal("capture", x)) - posted[x].val.expired
              /\ payers[x].val.version = posted[x].val.entries
                    + Cardinality(Owed("authorize", x)) + Cardinality(Owed("capture", x))
          BY DEF MemReconciles
        <5>3. payers'[x].val.available = posted'[x].val.opening
                - (posted'[x].val.authorized + OwedTotal("authorize", x)') + posted'[x].val.expired
          BY <1>1, <3>2, <4>1, <4>2, <5>1, <5>2
        <5>4. payers'[x].val.held = posted'[x].val.authorized + OwedTotal("authorize", x)'
                - (posted'[x].val.captured + OwedTotal("capture", x)') - posted'[x].val.expired
          BY <1>1, <3>2, <4>1, <4>2, <5>1, <5>2
        <5>5. payers'[x].val.version = posted'[x].val.entries
                + Cardinality(Owed("authorize", x)') + Cardinality(Owed("capture", x)')
          <6>1. payers'[x].val.version = payers[x].val.version /\ posted'[x].val.entries = posted[x].val.entries + 1
            BY <1>1, <4>2
          <6>2. /\ Cardinality(Owed("capture", x)') = Cardinality(Owed("capture", x)) /\ Cardinality(Owed("capture", x)) \in Nat
                /\ Cardinality(Owed("authorize", x)) = Cardinality(Owed("authorize", x)') + 1 /\ Cardinality(Owed("authorize", x)') \in Nat
            BY <3>2, <4>1
          <6> QED BY <5>1, <5>2, <6>1, <6>2
        <5> QED BY <5>3, <5>4, <5>5 DEF MemReconciles
      <4> QED BY <1>1, <2>2, <4>3, <4>4
    <3>4. CASE op = "capture"
      <4>1. /\ OwedTotal("authorize", x)' = OwedTotal("authorize", x) /\ Owed("authorize", x)' = Owed("authorize", x)
            /\ OwedTotal("capture", x) = OwedTotal("capture", x)' + amount
            /\ OwedTotal("capture", x)' \in Int
            /\ Cardinality(Owed("capture", x)) = Cardinality(Owed("capture", x)') + 1
            /\ Cardinality(Owed("capture", x)') \in Nat
        BY <1>6, <1>7, <3>4
      <4>2. /\ posted'[x].val.opening = a.opening /\ posted'[x].val.authorized = a.authorized
            /\ posted'[x].val.captured = a.captured + amount /\ posted'[x].val.expired = a.expired
            /\ posted'[x].val.entries = a.entries + 1
        BY <1>1, <3>4 DEF Posting, Account
      <4>3. MemFunds(x)'
        BY <1>1, <1>3, <3>1, <3>2, <4>1, <4>2 DEF MemFunds, Payer, Account
      <4>4. x \notin torn => MemReconciles(x)'
        <5> SUFFICES ASSUME MemReconciles(x) PROVE MemReconciles(x)'
          BY <3>1
        <5>1. /\ payers[x].val.available \in Int /\ payers[x].val.held \in Int /\ payers[x].val.version \in Int
              /\ posted[x].val.opening \in Int /\ posted[x].val.authorized \in Int /\ posted[x].val.captured \in Int
              /\ posted[x].val.expired \in Int /\ posted[x].val.entries \in Int
          BY <1>1, <1>3 DEF Payer, Account
        <5>2. /\ payers[x].val.available = posted[x].val.opening
                    - (posted[x].val.authorized + OwedTotal("authorize", x)) + posted[x].val.expired
              /\ payers[x].val.held = posted[x].val.authorized + OwedTotal("authorize", x)
                    - (posted[x].val.captured + OwedTotal("capture", x)) - posted[x].val.expired
              /\ payers[x].val.version = posted[x].val.entries
                    + Cardinality(Owed("authorize", x)) + Cardinality(Owed("capture", x))
          BY DEF MemReconciles
        <5>3. payers'[x].val.available = posted'[x].val.opening
                - (posted'[x].val.authorized + OwedTotal("authorize", x)') + posted'[x].val.expired
          BY <1>1, <3>2, <4>1, <4>2, <5>1, <5>2
        <5>4. payers'[x].val.held = posted'[x].val.authorized + OwedTotal("authorize", x)'
                - (posted'[x].val.captured + OwedTotal("capture", x)') - posted'[x].val.expired
          BY <1>1, <3>2, <4>1, <4>2, <5>1, <5>2
        <5>5. payers'[x].val.version = posted'[x].val.entries
                + Cardinality(Owed("authorize", x)') + Cardinality(Owed("capture", x)')
          <6>1. payers'[x].val.version = payers[x].val.version /\ posted'[x].val.entries = posted[x].val.entries + 1
            BY <1>1, <4>2
          <6>2. /\ Cardinality(Owed("authorize", x)') = Cardinality(Owed("authorize", x)) /\ Cardinality(Owed("authorize", x)) \in Nat
                /\ Cardinality(Owed("capture", x)) = Cardinality(Owed("capture", x)') + 1 /\ Cardinality(Owed("capture", x)') \in Nat
            BY <3>2, <4>1
          <6> QED BY <5>1, <5>2, <6>1, <6>2
        <5> QED BY <5>3, <5>4, <5>5 DEF MemReconciles
      <4> QED BY <1>1, <2>2, <4>3, <4>4
    <3> QED BY <1>1, <3>3, <3>4
  <2> QED BY <2>1, <2>2
<1> QED BY <1>2, <1>8, ActiveFinite DEF MemSumInv

\* A payer that no call owes an event.
LEMMA OwedNothing ==
  ASSUME NEW x, \A p \in Procs : ~(pc[p] \in Writing /\ loc[p].payer = x), NEW op
  PROVE  Owed(op, x) = {} /\ OwedTotal(op, x) = 0 /\ Cardinality(Owed(op, x)) = 0
<1>1. Owed(op, x) = {}
  BY DEF Owed
<1>2. SumFunctionOnSet(AmountOfCall, {}) = 0
  BY FS_EmptySet, SumFirst
<1> QED BY <1>1, <1>2, FS_EmptySet DEF OwedTotal

\* A new payer: no call can have written it before.
LEMMA MemSumCreatePayer ==
  ASSUME MemCallInv, MemSumInv, NEW x \in Payers, NEW b \in Openings, MemCreatePayer(x, b)
  PROVE  MemSumInv'
<1> DEFINE a == [opening |-> b, authorized |-> 0, captured |-> 0, expired |-> 0, entries |-> 0]
<1>1. /\ payers[x].val = None /\ UNCHANGED <<torn, pc, loc>> /\ b \in Int
      /\ payers'[x] = Unlocked(NewPayer(b)) /\ posted'[x] = Unlocked(a)
      /\ \A y \in Payers \ {x} : payers'[y] = payers[y] /\ posted'[y] = posted[y]
  BY ConstantsAssumption DEF MemCreatePayer, CreatePayer, MemCallInv, Maps, Map
<1>2. /\ payers'[x].val.available = b /\ payers'[x].val.held = 0 /\ payers'[x].val.version = 0
      /\ posted'[x].val = a
  BY <1>1 DEF Unlocked, NewPayer
<1>3. \A o \in {"authorize", "capture"}, y \in Payers : Owed(o, y)' = Owed(o, y) /\ OwedTotal(o, y)' = OwedTotal(o, y)
  <2>1. \A o \in {"authorize", "capture"}, y \in Payers : Owed(o, y)' = Owed(o, y)
    BY <1>1 DEF Owed
  <2>2. AmountOfCall' = AmountOfCall
    BY <1>1 DEF AmountOfCall
  <2> QED BY <2>1, <2>2 DEF OwedTotal
<1>4. ASSUME NEW y \in Payers, payers'[y].val # None
      PROVE  MemFunds(y)' /\ (y \notin torn' => MemReconciles(y)')
  <2>1. CASE y # x
    BY <1>1, <1>3, <1>4, <2>1, MemSumKept DEF MemSumInv
  <2>2. CASE y = x
    <3>1. \A p \in Procs : ~(pc[p] \in Writing /\ loc[p].payer = x)
      BY <1>1 DEF MemCallInv, MemLocals
    <3>2. /\ OwedTotal("authorize", x)' = 0 /\ Cardinality(Owed("authorize", x)') = 0
          /\ OwedTotal("capture", x)' = 0 /\ Cardinality(Owed("capture", x)') = 0
      BY <1>3, <3>1, OwedNothing
    <3>3. MemFunds(x)'
      BY <1>1, <1>2, <3>2 DEF MemFunds
    <3>4. MemReconciles(x)'
      BY <1>1, <1>2, <3>2 DEF MemReconciles
    <3> QED BY <2>2, <3>3, <3>4
  <2> QED BY <2>1, <2>2
<1>5. IsFiniteSet({s \in Procs : pc[s] # "idle"})'
  BY <1>1 DEF MemSumInv
<1> QED BY <1>4, <1>5 DEF MemSumInv

\* Balances and events move together, call by call.
LEMMA MemSumStep == MemCallInv /\ MemSumInv /\ [MemNext]_mvars => MemSumInv'
<1> SUFFICES ASSUME MemCallInv, MemSumInv, [MemNext]_mvars PROVE MemSumInv'
    OBVIOUS
<1>1. ASSUME UNCHANGED <<payers, posted, torn, pc, loc>> PROVE MemSumInv'
  BY <1>1 DEF MemSumInv, MemFunds, MemReconciles, OwedTotal, AmountOfCall, Owed
<1>2. CASE Tick /\ UNCHANGED torn
  BY <1>1, <1>2 DEF Tick, tables
<1>3. ASSUME NEW m \in Merchants, MemCreateMerchant(m) PROVE MemSumInv'
  BY <1>1, <1>3 DEF MemCreateMerchant, CreateMerchant, tables
<1>4. ASSUME NEW p \in Procs, MemStartAuthorize(p) \/ MemStartCapture(p) \/ MemGetHold(p) PROVE MemSumInv'
  <2>1. /\ UNCHANGED <<payers, posted, torn>> /\ pc[p] \notin Writing /\ pc'[p] \notin Writing
        /\ \A s \in Procs \ {p} : pc'[s] = pc[s] /\ loc'[s] = loc[s]
    BY <1>4, MemStartSets, MemGetHoldSets DEF tables, Writing
  <2> QED BY <2>1, MemSumSame
<1>5. ASSUME NEW p \in Procs, EndCall(p), UNCHANGED <<payers, posted, torn>>, pc[p] \notin Writing PROVE MemSumInv'
  <2>1. pc'[p] = "idle" /\ \A s \in Procs \ {p} : pc'[s] = pc[s] /\ loc'[s] = loc[s]
    BY <1>5, MemEnds
  <2> QED BY <1>5, <2>1, MemSumSame DEF Writing
<1>6. ASSUME NEW p \in Procs, MemGetPayer(p) PROVE MemSumInv'
  <2>1. CASE Admits(p, Seen(payers[loc[p].payer], p))
    <3>1. /\ UNCHANGED <<payers, posted, torn>> /\ pc[p] = "get_payer" /\ pc'[p] = "update_payer"
          /\ \A s \in Procs \ {p} : pc'[s] = pc[s] /\ loc'[s] = loc[s]
      BY <1>6, <2>1, MemGetPayerSets DEF tables
    <3> QED BY <3>1, MemSumSame DEF Writing
  <2>2. CASE ~Admits(p, Seen(payers[loc[p].payer], p))
    BY <1>5, <1>6, <2>2, MemGetPayerFails DEF tables, Writing
  <2> QED BY <2>1, <2>2
<1>7. ASSUME NEW p \in Procs, MemVersionConflict(p) PROVE MemSumInv'
  BY <1>5, <1>7 DEF MemVersionConflict, tables, Writing
<1>8. ASSUME NEW p \in Procs, MemCreatePayment(p) \/ MemUpdatePayment(p) \/ MemCreateHold(p) \/ MemUpdateHold(p)
      PROVE  MemSumInv'
  <2>1. /\ UNCHANGED <<payers, posted, torn, loc>> /\ pc[p] \in Writing /\ pc'[p] \in Writing
        /\ \A s \in Procs \ {p} : pc'[s] = pc[s]
    BY <1>8, MemWrites DEF Writing
  <2> QED BY <2>1, MemSumSame
<1> QED
   BY <1>1, <1>2, <1>3, <1>4, <1>6, <1>7, <1>8, MemSumUpdatePayer, MemSumEvent, MemSumFail, MemSumCreatePayer
   DEF MemNext, mvars, vars, tables

LEMMA MemSumInit == MemInit => MemSumInv
<1> SUFFICES ASSUME MemInit PROVE MemSumInv
    OBVIOUS
<1>1. {p \in Procs : pc[p] # "idle"} = {}
  BY DEF MemInit, Init
<1> QED BY <1>1, FS_EmptySet DEF MemInit, Init, MemSumInv, Unlocked

\* What a payer's row is short of, or ahead of, its events, the calls in
\* flight owe; a call that was cut off leaves only what a capture took.
THEOREM MemSumsSafe == MemSpec => [](MemCallInv /\ MemSumInv)
BY MemCallInit, MemSumInit, MemCallStep, MemSumStep, PTL DEF MemSpec

\* Without transactions too no update is lost: between calls the balances and
\* the version of a payer are what its events add up to, however authorize
\* and capture interleave on it, unless one of them was cut off.
THEOREM MemReconcileCorrect == MemSpec => []ReconcilesUnlessTorn
<1>1. MemCallInv /\ MemSumInv => ReconcilesUnlessTorn
  <2> SUFFICES ASSUME MemCallInv, MemSumInv, NEW x \in Payers, payers[x].val # None, x \notin torn, ~InFlight(x)
               PROVE  Reconciles(payers[x].val, posted[x].val)
    BY DEF ReconcilesUnlessTorn
  <2>1. MemReconciles(x) /\ payers[x].val \in Payer /\ posted[x].val \in Account
    BY DEF MemSumInv, MemCallInv, MemTypeOK, Maps
  <2>2. \A p \in Procs : ~(pc[p] \in Writing /\ loc[p].payer = x)
    BY DEF InFlight
  <2>3. /\ OwedTotal("authorize", x) = 0 /\ Cardinality(Owed("authorize", x)) = 0
        /\ OwedTotal("capture", x) = 0 /\ Cardinality(Owed("capture", x)) = 0
    BY <2>2, OwedNothing
  <2> QED BY <2>1, <2>3 DEF MemReconciles, Reconciles, Payer, Account
<1> QED BY <1>1, MemSumsSafe, PTL

\* The payer is written first and the event last, so at no instant, and after
\* no cut-off, is there more money than the payer brought.
THEOREM MemMoneyCorrect == MemSpec => []NoMoneyCreated
<1>1. MemCallInv /\ MemSumInv => NoMoneyCreated
  <2> SUFFICES ASSUME MemCallInv, MemSumInv, NEW x \in Payers, payers[x].val # None
               PROVE  payers[x].val.available + payers[x].val.held + posted[x].val.captured <= posted[x].val.opening
    BY DEF NoMoneyCreated
  <2>1. MemFunds(x) /\ payers[x].val \in Payer /\ posted[x].val \in Account
    BY DEF MemSumInv, MemCallInv, MemTypeOK, Maps
  <2>2. OwedTotal("capture", x) \in Nat
    <3>1. IsFiniteSet(Owed("capture", x))
      BY OwedFinite
    <3>2. \A p \in Owed("capture", x) : AmountOfCall[p] \in Nat
      <4> SUFFICES ASSUME NEW p \in Procs, pc[p] \in Writing PROVE AmountOfCall[p] \in Nat
        BY DEF Owed
      <4>1. AmountOfCall[p] = loc[p].amount /\ loc[p].amount \in Int
        BY OwedFinite
      <4>2. loc[p].amount > 0
        BY DEF MemCallInv, MemLocals
      <4> QED BY <4>1, <4>2
    <3> QED BY <3>1, <3>2, SumNat DEF OwedTotal
  <2> QED BY <2>1, <2>2 DEF MemFunds, Payer, Account
<1> QED BY <1>1, MemSumsSafe, PTL
=============================================================================
