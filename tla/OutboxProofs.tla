---------------------------- MODULE OutboxProofs ----------------------------
(***************************************************************************)
(* Theorems about Outbox, for any number of workers and events, any batch  *)
(* size and any behaviour of the broker.                                   *)
(***************************************************************************)
EXTENDS Outbox, FiniteSetTheorems, TLAPS

-----------------------------------------------------------------------------
(* The inductive invariants.                                               *)

\* The worker has committed its claim and not dealt with all of it.
Dealing(w) == pc[w] \in {"publish", "mark"}

\* A row is locked by the worker whose claim of it is not yet committed, and
\* by nobody else; an unlocked row has no other value than its committed one.
RowClaimed(e) ==
  /\ events[e].lock = None => events[e].new = events[e].val
  /\ events[e].lock # None => /\ HasClaimableStatus(events[e])
                              /\ events[e].new = Claimed(events[e].val)
  /\ \A w \in Workers : events[e].lock = w <=> pc[w] = "commit" /\ e \in batch[w]

\* What a worker has in its batch is in no other batch, and once its claim is
\* committed, IN_PROGRESS.
BatchHeld(w) ==
  /\ pc[w] = "idle" => batch[w] = {}
  /\ pc[w] = "mark" => result[w] \in Result /\ result[w].event \in batch[w]
  /\ \A e \in batch[w] : \A v \in Workers \ {w} : e \notin batch[v]
  /\ Dealing(w) => \A e \in batch[w] : events[e].val # None /\ Markable(e)

ClaimInv ==
  /\ TypeOK
  /\ \A e \in Events : RowClaimed(e)
  /\ \A w \in Workers : BatchHeld(w)

\* An event still to be published has had fewer copies made of it than it
\* was claimed times, and one whose Publish returned no error is delivered.
CopiesLeft(w) ==
  /\ Dealing(w) => \A e \in batch[w] :
       \/ pc[w] = "mark" /\ result[w].event = e
       \/ delivered[e] < events[e].val.attempts
  /\ pc[w] = "mark" /\ result[w].outcome = "ok" => delivered[result[w].event] > 0

CopiesInv ==
  /\ CopiesWithinAttempts
  /\ PublishedDelivered
  /\ \A w \in Workers : CopiesLeft(w)

-----------------------------------------------------------------------------
(* Types.                                                                  *)

\* A claim is of events that can be claimed, whatever the LIMIT.
LEMMA FirstOfSubset ==
  ASSUME NEW S, NEW n, NEW T \in FirstOf(S, n)
  PROVE  T \subseteq S
BY DEF FirstOf

\* The entity methods return events.
LEMMA EventMethods ==
  ASSUME NEW ev \in Event
  PROVE  /\ Claimed(ev) \in Event
         /\ Claimed(ev).status = "IN_PROGRESS" /\ Claimed(ev).attempts = ev.attempts + 1
         /\ \A outcome : now \in Nat => /\ Marked(ev, outcome) \in Event
                                        /\ Marked(ev, outcome).attempts = ev.attempts
<1>1. ASSUME NEW k \in Int
      PROVE  LET ck == [ev EXCEPT !.status = "IN_PROGRESS", !.attempts = k] IN
             ck \in Event /\ ck.status = "IN_PROGRESS" /\ ck.attempts = k
  BY DEF Event, Statuses
<1>2. ev.attempts + 1 \in Int /\ ev.availableAt \in Int /\ ev.createdAt \in Int
  BY DEF Event
<1>3. MarkPublished(ev) \in Event /\ MarkPublished(ev).attempts = ev.attempts
  BY DEF Event, Statuses, MarkPublished
<1>4. ASSUME NEW u \in Int PROVE MarkFailed(ev, u) \in Event /\ MarkFailed(ev, u).attempts = ev.attempts
  BY DEF Event, Statuses, MarkFailed
<1>5. now \in Nat => now + RetryDelay \in Int
  BY ConstantsAssumption
<1>6. /\ Claimed(ev) \in Event
      /\ Claimed(ev).status = "IN_PROGRESS" /\ Claimed(ev).attempts = ev.attempts + 1
  BY <1>1, <1>2 DEF Claimed
<1> QED BY <1>3, <1>4, <1>5, <1>6 DEF Marked

\* Every statement leaves every variable with its type.
LEMMA TypeStep == ClaimInv /\ [Next]_vars => TypeOK'
<1> SUFFICES ASSUME ClaimInv, [Next]_vars PROVE TypeOK'
    OBVIOUS
<1> USE ConstantsAssumption, NoneAssumption DEF ClaimInv, TypeOK
<1>1. CASE Tick
  BY <1>1 DEF Tick
<1>2. ASSUME NEW e \in Events, NEW t \in 0..now, CreateEvent(e, t) PROVE TypeOK'
  <2>1. NewEvent(t) \in Event
    BY DEF NewEvent, Event, Statuses
  <2> QED BY <1>2, <2>1 DEF CreateEvent, Unlocked, RowOf
<1>3. ASSUME NEW w \in Workers, ClaimPendingEvents(w) PROVE TypeOK'
  <2>1. PICK T \in FirstOf(Claimable, BatchSize) :
          /\ events' = [e \in Events |-> IF e \in T THEN Lock(events[e], w) ELSE events[e]]
          /\ batch' = [batch EXCEPT ![w] = T]
    BY <1>3 DEF ClaimPendingEvents
  <2>2. T \subseteq Claimable /\ Claimable \subseteq Events
    BY FirstOfSubset DEF Claimable
  <2>3. ASSUME NEW e \in T PROVE Lock(events[e], w) \in RowOf(Event \cup {None}, Workers)
    <3>1. events[e].val \in Event
      BY <2>2 DEF Claimable, HasClaimableStatus, RowOf
    <3> QED BY <3>1, EventMethods DEF Lock, Written, RowOf
  <2> QED BY <1>3, <2>1, <2>2, <2>3 DEF ClaimPendingEvents, Labels
<1>4. ASSUME NEW w \in Workers, CommitClaim(w) \/ RollbackClaim(w) PROVE TypeOK'
  BY <1>4 DEF CommitClaim, RollbackClaim, Committed, RolledBack, Unlocked, RowOf, Labels
<1>5. ASSUME NEW w \in Workers, Publish(w) PROVE TypeOK'
  <2>1. PICK e \in batch[w], outcome \in Outcomes, copies \in {0, 1} : Answer(w, e, outcome, copies)
    BY <1>5 DEF Publish, Outcomes
  <2>2. e \in Events /\ [event |-> e, outcome |-> outcome] \in Result
    BY DEF Result
  <2>3. delivered' \in [Events -> Nat]
    BY <2>1, <2>2 DEF Answer
  <2>4. result' \in [Workers -> Result \cup {None}]
    BY <2>1, <2>2 DEF Answer
  <2> QED BY <1>5, <2>3, <2>4 DEF Publish, Labels
<1>6. ASSUME NEW w \in Workers, MarkEvent(w) PROVE TypeOK'
  <2> DEFINE e == result[w].event
  <2>1. e \in Events /\ events[e].val \in Event
    BY <1>6 DEF MarkEvent, BatchHeld, Dealing, RowOf
  <2>2. Marked(events[e].val, result[w].outcome) \in Event
    BY <2>1, EventMethods
  <2>3. Unlocked(Marked(events[e].val, result[w].outcome)) \in RowOf(Event \cup {None}, Workers)
    BY <2>2 DEF Unlocked, RowOf
  <2>4. CASE Markable(e)
    <3>1. /\ events' = [events EXCEPT ![e] = Unlocked(Marked(events[e].val, result[w].outcome))]
          /\ batch' = [batch EXCEPT ![w] = batch[w] \ {e}]
          /\ pc' = [pc EXCEPT ![w] = IF batch[w] = {e} THEN "idle" ELSE "publish"]
          /\ result' = [result EXCEPT ![w] = None]
          /\ UNCHANGED <<delivered, now, abandons>>
      BY <1>6, <2>4 DEF MarkEvent
    <3> QED BY <2>1, <2>3, <3>1 DEF Labels
  <2>5. CASE ~Markable(e)
    BY <1>6, <2>5 DEF MarkEvent, Drop, Labels
  <2> QED BY <2>4, <2>5
<1>7. ASSUME NEW w \in Workers, Abandon(w) PROVE TypeOK'
  <2>1. abandons' \in Nat
    BY <1>7 DEF Abandon
  <2> QED BY <1>7, <2>1 DEF Abandon, Drop, Labels
<1>8. CASE UNCHANGED vars
  BY <1>8 DEF vars
<1> QED BY <1>1, <1>2, <1>3, <1>4, <1>5, <1>6, <1>7, <1>8 DEF Next, Step

-----------------------------------------------------------------------------
(* Claims.                                                                 *)

\* A step that leaves rows and batches alone, and brings no claim to its
\* COMMIT or past it, keeps every claim as it is.
LEMMA SameClaims ==
  ASSUME ClaimInv, events' = events, batch' = batch, NEW w \in Workers,
         \A v \in Workers \ {w} : pc'[v] = pc[v] /\ result'[v] = result[v],
         Dealing(w), Dealing(w)', pc'[w] = "mark" => result'[w] \in Result /\ result'[w].event \in batch[w]
  PROVE  (\A e \in Events : RowClaimed(e)') /\ (\A v \in Workers : BatchHeld(v)')
<1>1. ASSUME NEW v \in Workers PROVE pc'[v] = "commit" <=> pc[v] = "commit"
  BY DEF Dealing
<1>2. ASSUME NEW e \in Events PROVE RowClaimed(e)'
  BY <1>1 DEF ClaimInv, RowClaimed, HasClaimableStatus
<1>3. ASSUME NEW v \in Workers PROVE BatchHeld(v)'
  <2>1. BatchHeld(v)
    BY DEF ClaimInv
  <2>2. CASE v = w
    BY <2>1, <2>2 DEF BatchHeld, Dealing, Markable
  <2>3. CASE v # w
    BY <2>1, <2>3 DEF BatchHeld, Dealing, Markable
  <2> QED BY <2>2, <2>3
<1> QED BY <1>2, <1>3

\* A worker drops its batch, whose claim is committed.
LEMMA DroppedClaim ==
  ASSUME ClaimInv, NEW w \in Workers, Dealing(w), Drop(w)
  PROVE  (\A e \in Events : RowClaimed(e)') /\ (\A v \in Workers : BatchHeld(v)')
<1>1. /\ events' = events /\ pc' = [pc EXCEPT ![w] = "idle"]
      /\ batch' = [batch EXCEPT ![w] = {}] /\ result' = [result EXCEPT ![w] = None]
  BY DEF Drop
<1>2. ASSUME NEW e \in Events PROVE RowClaimed(e)'
  BY <1>1 DEF ClaimInv, TypeOK, RowClaimed, HasClaimableStatus, Dealing
<1>3. ASSUME NEW v \in Workers PROVE BatchHeld(v)'
  BY <1>1 DEF ClaimInv, TypeOK, BatchHeld, Dealing, Markable
<1> QED BY <1>2, <1>3

\* Claims stay with their workers at every step.
LEMMA ClaimStep == ClaimInv /\ [Next]_vars => ClaimInv'
<1> SUFFICES ASSUME ClaimInv, [Next]_vars
             PROVE  (\A e \in Events : RowClaimed(e)') /\ (\A v \in Workers : BatchHeld(v)')
    BY TypeStep DEF ClaimInv
<1>0. /\ TypeOK
      /\ \A e \in Events : RowClaimed(e)
      /\ \A v \in Workers : BatchHeld(v)
  BY DEF ClaimInv
<1> USE NoneAssumption
<1>1. CASE Tick \/ UNCHANGED vars
  BY <1>0, <1>1 DEF Tick, vars, RowClaimed, BatchHeld, Dealing, Markable, HasClaimableStatus
<1>2. ASSUME NEW d \in Events, NEW t \in 0..now, CreateEvent(d, t)
      PROVE  (\A e \in Events : RowClaimed(e)') /\ (\A v \in Workers : BatchHeld(v)')
  <2>1. ASSUME NEW e \in Events PROVE RowClaimed(e)'
    <3>1. CASE e = d
      <4>1. events[d].lock = None
        BY <1>0, <1>2 DEF CreateEvent, RowClaimed, HasClaimableStatus
      <4>2. events'[d].lock = None /\ events'[d].new = events'[d].val
        BY <1>0, <1>2 DEF CreateEvent, Unlocked, TypeOK
      <4>3. \A w \in Workers : ~(pc'[w] = "commit" /\ d \in batch'[w])
        BY <1>0, <1>2, <4>1 DEF CreateEvent, RowClaimed
      <4> QED BY <3>1, <4>2, <4>3 DEF RowClaimed
    <3>2. CASE e # d
      BY <1>0, <1>2, <3>2 DEF CreateEvent, RowClaimed, HasClaimableStatus, TypeOK
    <3> QED BY <3>1, <3>2
  <2>2. ASSUME NEW v \in Workers PROVE BatchHeld(v)'
    <3>1. ~(Dealing(v) /\ d \in batch[v])
      BY <1>0, <1>2 DEF CreateEvent, BatchHeld
    <3>2. \A e \in Events \ {d} : events'[e] = events[e]
      BY <1>0, <1>2 DEF CreateEvent, TypeOK
    <3>3. batch[v] \subseteq Events
      BY <1>0 DEF TypeOK
    <3> QED BY <1>0, <1>2, <3>1, <3>2, <3>3 DEF CreateEvent, BatchHeld, Dealing, Markable
  <2> QED BY <2>1, <2>2
<1>3. ASSUME NEW w \in Workers, ClaimPendingEvents(w)
      PROVE  (\A e \in Events : RowClaimed(e)') /\ (\A v \in Workers : BatchHeld(v)')
  <2>1. PICK T \in FirstOf(Claimable, BatchSize) :
          /\ events' = [e \in Events |-> IF e \in T THEN Lock(events[e], w) ELSE events[e]]
          /\ batch' = [batch EXCEPT ![w] = T]
    BY <1>3 DEF ClaimPendingEvents
  <2>2. /\ pc[w] = "idle" /\ batch[w] = {} /\ result' = result
        /\ pc' = [pc EXCEPT ![w] = "commit"]
    BY <1>0, <1>3 DEF ClaimPendingEvents, BatchHeld
  <2>3. ASSUME NEW e \in T
        PROVE  e \in Events /\ HasClaimableStatus(events[e]) /\ events[e].lock = None
    BY FirstOfSubset DEF Claimable
  <2>4. ASSUME NEW e \in T, NEW v \in Workers PROVE e \notin batch[v]
    <3>1. ~(pc[v] = "commit" /\ e \in batch[v])
      BY <1>0, <2>3 DEF RowClaimed
    <3>2. ~(Dealing(v) /\ e \in batch[v])
      BY <1>0, <2>3 DEF BatchHeld, Markable, HasClaimableStatus
    <3>3. ~(pc[v] = "idle" /\ e \in batch[v])
      BY <1>0 DEF BatchHeld
    <3> QED BY <1>0, <3>1, <3>2, <3>3 DEF TypeOK, Labels, Dealing
  <2>5. ASSUME NEW e \in Events PROVE RowClaimed(e)'
    <3>1. CASE e \in T
      <4>1. events'[e] = Lock(events[e], w)
        BY <2>1, <3>1
      <4>2. /\ events'[e].val = events[e].val /\ events'[e].lock = w
            /\ events'[e].new = Claimed(events[e].val)
        BY <4>1 DEF Lock, Written
      <4>3. \A v \in Workers : w = v <=> pc'[v] = "commit" /\ e \in batch'[v]
        BY <1>0, <2>1, <2>2, <2>4, <3>1 DEF TypeOK
      <4> QED BY <2>3, <3>1, <4>2, <4>3 DEF RowClaimed, HasClaimableStatus
    <3>2. CASE e \notin T
      <4>1. events'[e] = events[e]
        BY <2>1, <3>2
      <4>2. \A v \in Workers : pc'[v] = "commit" /\ e \in batch'[v] <=> pc[v] = "commit" /\ e \in batch[v]
        BY <1>0, <2>1, <2>2, <3>2 DEF TypeOK
      <4> QED BY <1>0, <4>1, <4>2 DEF RowClaimed, HasClaimableStatus
    <3> QED BY <3>1, <3>2
  <2>6. ASSUME NEW v \in Workers PROVE BatchHeld(v)'
    <3>1. \A e \in Events : events'[e].val = events[e].val
      BY <2>1 DEF Lock, Written
    <3>2. batch[v] \subseteq Events
      BY <1>0 DEF TypeOK
    <3>3. CASE v = w
      BY <1>0, <2>1, <2>2, <2>4, <3>3 DEF TypeOK, BatchHeld, Dealing
    <3>4. CASE v # w
      BY <1>0, <2>1, <2>2, <2>4, <3>1, <3>2, <3>4 DEF TypeOK, BatchHeld, Dealing, Markable
    <3> QED BY <3>3, <3>4
  <2> QED BY <2>5, <2>6
<1>4. ASSUME NEW w \in Workers, CommitClaim(w)
      PROVE  (\A e \in Events : RowClaimed(e)') /\ (\A v \in Workers : BatchHeld(v)')
  <2>1. /\ pc[w] = "commit" /\ pc' = [pc EXCEPT ![w] = "publish"]
        /\ events' = [e \in Events |-> Committed(events[e], w)]
        /\ batch' = batch /\ result' = result
    BY <1>4 DEF CommitClaim
  <2>2. ASSUME NEW e \in batch[w]
        PROVE  e \in Events /\ events'[e].val # None /\ events'[e].val.status = "IN_PROGRESS"
    <3>1. /\ e \in Events /\ events[e].lock = w
          /\ HasClaimableStatus(events[e]) /\ events[e].new = Claimed(events[e].val)
      BY <1>0, <2>1 DEF TypeOK, RowClaimed
    <3>2. events[e].val \in Event
      BY <1>0, <3>1 DEF TypeOK, RowOf, HasClaimableStatus
    <3>3. events'[e].val = Claimed(events[e].val)
      BY <2>1, <3>1 DEF Committed, Unlocked
    <3>4. Claimed(events[e].val) \in Event /\ Claimed(events[e].val).status = "IN_PROGRESS"
      BY <3>2, EventMethods
    <3> QED BY <3>1, <3>3, <3>4
  <2>3. ASSUME NEW e \in Events PROVE RowClaimed(e)'
    <3>1. CASE e \in batch[w]
      <4>1. events'[e].lock = None /\ events'[e].new = events'[e].val
        BY <1>0, <2>1, <3>1 DEF RowClaimed, Committed, Unlocked
      <4>2. \A v \in Workers : ~(pc'[v] = "commit" /\ e \in batch'[v])
        BY <1>0, <2>1, <3>1 DEF TypeOK, BatchHeld
      <4> QED BY <4>1, <4>2 DEF RowClaimed
    <3>2. CASE e \notin batch[w]
      BY <1>0, <2>1, <3>2 DEF TypeOK, RowClaimed, Committed, HasClaimableStatus
    <3> QED BY <3>1, <3>2
  <2>4. ASSUME NEW v \in Workers PROVE BatchHeld(v)'
    <3>1. CASE v = w
      BY <1>0, <2>1, <2>2, <3>1 DEF TypeOK, BatchHeld, Dealing, Markable
    <3>2. CASE v # w
      <4>1. ASSUME NEW e \in batch[v] PROVE events'[e] = events[e]
        BY <1>0, <2>1, <3>2 DEF TypeOK, BatchHeld, RowClaimed, Committed
      <4> QED BY <1>0, <2>1, <3>2, <4>1 DEF TypeOK, BatchHeld, Dealing, Markable
    <3> QED BY <3>1, <3>2
  <2> QED BY <2>3, <2>4
<1>5. ASSUME NEW w \in Workers, RollbackClaim(w)
      PROVE  (\A e \in Events : RowClaimed(e)') /\ (\A v \in Workers : BatchHeld(v)')
  <2>1. /\ pc[w] = "commit" /\ pc' = [pc EXCEPT ![w] = "idle"]
        /\ events' = [e \in Events |-> RolledBack(events[e], w)]
        /\ batch' = [batch EXCEPT ![w] = {}] /\ result' = result
    BY <1>5 DEF RollbackClaim
  <2>2. ASSUME NEW e \in Events PROVE RowClaimed(e)'
    <3>1. CASE events[e].lock = w
      BY <1>0, <2>1, <3>1 DEF TypeOK, RowClaimed, BatchHeld, RolledBack, Unlocked
    <3>2. CASE events[e].lock # w
      BY <1>0, <2>1, <3>2 DEF TypeOK, RowClaimed, RolledBack, HasClaimableStatus
    <3> QED BY <3>1, <3>2
  <2>3. ASSUME NEW v \in Workers PROVE BatchHeld(v)'
    <3>1. \A e \in Events : events'[e].val = events[e].val
      BY <2>1 DEF RolledBack, Unlocked
    <3>2. batch[v] \subseteq Events
      BY <1>0 DEF TypeOK
    <3>3. CASE v = w
      BY <1>0, <2>1, <3>3 DEF TypeOK, BatchHeld, Dealing
    <3>4. CASE v # w
      BY <1>0, <2>1, <3>1, <3>2, <3>4 DEF TypeOK, BatchHeld, Dealing, Markable
    <3> QED BY <3>3, <3>4
  <2> QED BY <2>2, <2>3
<1>6. ASSUME NEW w \in Workers, Publish(w)
      PROVE  (\A e \in Events : RowClaimed(e)') /\ (\A v \in Workers : BatchHeld(v)')
  <2>1. PICK e \in batch[w], outcome \in Outcomes, copies \in {0, 1} : Answer(w, e, outcome, copies)
    BY <1>6 DEF Publish, Outcomes
  <2>2. e \in Events /\ [event |-> e, outcome |-> outcome] \in Result
    BY <1>0 DEF TypeOK, Result
  <2>3. /\ events' = events /\ batch' = batch /\ pc[w] = "publish"
        /\ pc' = [pc EXCEPT ![w] = "mark"]
        /\ result' = [result EXCEPT ![w] = [event |-> e, outcome |-> outcome]]
    BY <1>6, <2>1 DEF Publish, Answer
  <2>4. result'[w] = [event |-> e, outcome |-> outcome] /\ pc'[w] = "mark"
    BY <1>0, <2>3 DEF TypeOK
  <2>5. \A v \in Workers \ {w} : pc'[v] = pc[v] /\ result'[v] = result[v]
    BY <1>0, <2>3 DEF TypeOK
  <2> QED BY <2>2, <2>3, <2>4, <2>5, SameClaims DEF Dealing
<1>7. ASSUME NEW w \in Workers, MarkEvent(w)
      PROVE  (\A e \in Events : RowClaimed(e)') /\ (\A v \in Workers : BatchHeld(v)')
  <2> DEFINE d == result[w].event
  <2>1. pc[w] = "mark" /\ d \in batch[w] /\ d \in Events /\ Markable(d)
    BY <1>0, <1>7 DEF MarkEvent, TypeOK, BatchHeld, Dealing
  <2>2. /\ events' = [events EXCEPT ![d] = Unlocked(Marked(events[d].val, result[w].outcome))]
        /\ batch' = [batch EXCEPT ![w] = batch[w] \ {d}]
        /\ pc' = [pc EXCEPT ![w] = IF batch[w] = {d} THEN "idle" ELSE "publish"]
        /\ result' = [result EXCEPT ![w] = None]
    BY <1>7, <2>1 DEF MarkEvent
  <2>3. ASSUME NEW v \in Workers \ {w} PROVE d \notin batch[v]
    BY <1>0, <2>1 DEF BatchHeld
  <2>4. ASSUME NEW e \in Events PROVE RowClaimed(e)'
    <3>1. CASE e = d
      <4>1. events'[d].lock = None /\ events'[d].new = events'[d].val
        BY <1>0, <2>1, <2>2 DEF TypeOK, Unlocked
      <4>2. \A v \in Workers : ~(pc'[v] = "commit" /\ d \in batch'[v])
        BY <1>0, <2>2, <2>3 DEF TypeOK
      <4> QED BY <3>1, <4>1, <4>2 DEF RowClaimed
    <3>2. CASE e # d
      <4>1. events'[e] = events[e]
        BY <1>0, <2>2, <3>2 DEF TypeOK
      <4>2. \A v \in Workers : pc'[v] = "commit" /\ e \in batch'[v] <=> pc[v] = "commit" /\ e \in batch[v]
        BY <1>0, <2>1, <2>2, <3>2 DEF TypeOK
      <4> QED BY <1>0, <4>1, <4>2 DEF RowClaimed, HasClaimableStatus
    <3> QED BY <3>1, <3>2
  <2>5. ASSUME NEW v \in Workers PROVE BatchHeld(v)'
    <3>1. ASSUME NEW e \in batch'[v] PROVE events'[e] = events[e] /\ e \in batch[v]
      BY <1>0, <2>1, <2>2, <2>3 DEF TypeOK
    <3>2. CASE v = w
      BY <1>0, <2>1, <2>2, <3>1, <3>2 DEF TypeOK, BatchHeld, Dealing, Markable
    <3>3. CASE v # w
      BY <1>0, <2>1, <2>2, <3>1, <3>3 DEF TypeOK, BatchHeld, Dealing, Markable
    <3> QED BY <3>2, <3>3
  <2> QED BY <2>4, <2>5
<1>8. ASSUME NEW w \in Workers, Abandon(w)
      PROVE  (\A e \in Events : RowClaimed(e)') /\ (\A v \in Workers : BatchHeld(v)')
  BY <1>8, DroppedClaim DEF Abandon, Dealing
<1> QED BY <1>1, <1>2, <1>3, <1>4, <1>5, <1>6, <1>7, <1>8 DEF Next, Step

\* What ClaimStep shows to be invariant.
LEMMA ClaimsKept == Spec => []ClaimInv
<1>1. Init => ClaimInv
  BY NoneAssumption
  DEF Init, ClaimInv, TypeOK, RowOf, Unlocked, Labels, RowClaimed, BatchHeld, Dealing
<1> QED BY <1>1, ClaimStep, PTL DEF Spec

\* Every variable of the outbox has its type, for any workers and events.
THEOREM OutboxTypeCorrect == Spec => []TypeOK
<1>1. ClaimInv => TypeOK
  BY DEF ClaimInv
<1> QED BY <1>1, ClaimsKept, PTL

\* FOR UPDATE SKIP LOCKED and the status the claim commits keep two workers
\* from ever publishing the same event under one claim.
THEOREM ClaimsExclusive == Spec => []ClaimExclusive
<1>1. ClaimInv => ClaimExclusive
  BY DEF ClaimInv, BatchHeld, ClaimExclusive, Dealing
<1> QED BY <1>1, ClaimsKept, PTL

-----------------------------------------------------------------------------
(* Copies.                                                                 *)

\* A step that takes no attempt and no copy away, adds none, and only
\* shrinks a batch leaves the count of copies as it is.
LEMMA SameCopies ==
  ASSUME ClaimInv, CopiesInv, delivered' = delivered,
         \A e \in Events : events'[e].val = events[e].val,
         \A v \in Workers :
           Dealing(v)' => pc'[v] = pc[v] /\ batch'[v] = batch[v] /\ result'[v] = result[v]
  PROVE  CopiesInv'
<1>1. ASSUME NEW v \in Workers PROVE CopiesLeft(v)'
  <2>1. CASE Dealing(v)'
    <3>1. Dealing(v) /\ pc'[v] = pc[v] /\ batch'[v] = batch[v] /\ result'[v] = result[v]
      BY <2>1 DEF Dealing
    <3>2. batch[v] \subseteq Events
      BY DEF ClaimInv, TypeOK
    <3> QED BY <3>1, <3>2 DEF CopiesInv, CopiesLeft, Dealing
  <2>2. CASE ~Dealing(v)'
    BY <2>2 DEF CopiesLeft, Dealing
  <2> QED BY <2>1, <2>2
<1> QED BY <1>1 DEF CopiesInv, CopiesWithinAttempts, PublishedDelivered

\* No statement makes more copies of an event than it was claimed times, or
\* marks an event PUBLISHED that the broker does not have.
LEMMA CopiesStep == ClaimInv /\ CopiesInv /\ [Next]_vars => CopiesInv'
<1> SUFFICES ASSUME ClaimInv, CopiesInv, [Next]_vars PROVE CopiesInv'
    OBVIOUS
<1>0. /\ TypeOK
      /\ \A e \in Events : RowClaimed(e)
      /\ \A v \in Workers : BatchHeld(v) /\ CopiesLeft(v)
      /\ CopiesWithinAttempts /\ PublishedDelivered
  BY DEF ClaimInv, CopiesInv
<1> USE NoneAssumption
<1>1. CASE Tick \/ UNCHANGED vars
  BY <1>1, SameCopies DEF Tick, vars, Dealing
<1>2. ASSUME NEW d \in Events, NEW t \in 0..now, CreateEvent(d, t) PROVE CopiesInv'
  <2>1. /\ events' = [events EXCEPT ![d] = Unlocked(NewEvent(t))] /\ events[d].val = None
        /\ UNCHANGED <<delivered, pc, batch, result>>
    BY <1>2 DEF CreateEvent
  <2>2. /\ events'[d].val = NewEvent(t) /\ NewEvent(t) # None
        /\ NewEvent(t).attempts = 0 /\ NewEvent(t).status = "PENDING"
    <3>1. NewEvent(t) \in Event
      BY <1>0 DEF NewEvent, Event, Statuses, TypeOK
    <3> QED BY <1>0, <2>1, <3>1 DEF TypeOK, Unlocked, NewEvent
  <2>3. \A e \in Events \ {d} : events'[e] = events[e]
    BY <1>0, <2>1 DEF TypeOK
  <2>4. CopiesWithinAttempts' /\ PublishedDelivered'
    BY <1>0, <2>1, <2>2, <2>3 DEF CopiesWithinAttempts, PublishedDelivered
  <2>5. ASSUME NEW v \in Workers PROVE CopiesLeft(v)'
    <3>1. Dealing(v) => d \notin batch[v] /\ batch[v] \subseteq Events
      BY <1>0, <2>1 DEF TypeOK, BatchHeld
    <3> QED BY <1>0, <2>1, <2>3, <3>1 DEF CopiesLeft, Dealing
  <2> QED BY <2>4, <2>5 DEF CopiesInv
<1>3. ASSUME NEW w \in Workers, ClaimPendingEvents(w) PROVE CopiesInv'
  <2>1. PICK T \in FirstOf(Claimable, BatchSize) :
          /\ events' = [e \in Events |-> IF e \in T THEN Lock(events[e], w) ELSE events[e]]
          /\ batch' = [batch EXCEPT ![w] = T]
    BY <1>3 DEF ClaimPendingEvents
  <2>2. /\ delivered' = delivered /\ result' = result
        /\ pc' = [pc EXCEPT ![w] = "commit"]
    BY <1>3 DEF ClaimPendingEvents
  <2>3. \A e \in Events : events'[e].val = events[e].val
    BY <2>1 DEF Lock, Written
  <2>4. ASSUME NEW v \in Workers, Dealing(v)'
        PROVE  pc'[v] = pc[v] /\ batch'[v] = batch[v] /\ result'[v] = result[v]
    BY <1>0, <2>1, <2>2, <2>4 DEF TypeOK, Dealing
  <2> QED BY <2>2, <2>3, <2>4, SameCopies
<1>4. ASSUME NEW w \in Workers, CommitClaim(w) PROVE CopiesInv'
  <2>1. /\ pc[w] = "commit" /\ pc' = [pc EXCEPT ![w] = "publish"]
        /\ events' = [e \in Events |-> Committed(events[e], w)]
        /\ UNCHANGED <<delivered, batch, result>>
    BY <1>4 DEF CommitClaim
  <2>2. ASSUME NEW e \in Events, e \in batch[w]
        PROVE  /\ events[e].val \in Event /\ events'[e].val = Claimed(events[e].val)
               /\ delivered[e] <= events[e].val.attempts
    <3>1. /\ events[e].lock = w /\ HasClaimableStatus(events[e])
          /\ events[e].new = Claimed(events[e].val)
      BY <1>0, <2>1, <2>2 DEF RowClaimed
    <3>2. events[e].val \in Event
      BY <1>0, <3>1 DEF TypeOK, RowOf, HasClaimableStatus
    <3>3. events'[e].val = Claimed(events[e].val)
      BY <2>1, <3>1 DEF Committed, Unlocked
    <3> QED BY <1>0, <3>2, <3>3 DEF CopiesWithinAttempts
  <2>3. ASSUME NEW e \in Events, e \in batch[w]
        PROVE  /\ events'[e].val # None /\ events'[e].val.status = "IN_PROGRESS"
               /\ delivered'[e] < events'[e].val.attempts
    <3>1. /\ events[e].val.attempts \in Int /\ delivered[e] \in Nat
          /\ Claimed(events[e].val) # None
      BY <1>0, <2>2, <2>3, EventMethods DEF Event, TypeOK
    <3>2. /\ Claimed(events[e].val).attempts = events[e].val.attempts + 1
          /\ Claimed(events[e].val).status = "IN_PROGRESS"
      BY <2>2, <2>3, EventMethods
    <3> QED BY <2>1, <2>2, <2>3, <3>1, <3>2
  <2>4. ASSUME NEW e \in Events, e \notin batch[w] PROVE events'[e] = events[e]
    BY <1>0, <2>1, <2>4 DEF RowClaimed, Committed
  <2>5. CopiesWithinAttempts' /\ PublishedDelivered'
    <3>1. ASSUME NEW e \in Events
          PROVE  delivered'[e] <= IF events'[e].val = None THEN 0 ELSE events'[e].val.attempts
      <4>1. CASE e \in batch[w]
        <5>1. delivered'[e] \in Nat /\ events'[e].val.attempts \in Int
          BY <1>0, <2>1, <2>2, <4>1, EventMethods DEF TypeOK, Event
        <5> QED BY <2>3, <4>1, <5>1
      <4>2. CASE e \notin batch[w]
        BY <1>0, <2>1, <2>4, <4>2 DEF CopiesWithinAttempts
      <4> QED BY <4>1, <4>2
    <3>2. ASSUME NEW e \in Events, events'[e].val # None, events'[e].val.status = "PUBLISHED"
          PROVE  delivered'[e] > 0
      BY <1>0, <2>1, <2>3, <2>4, <3>2 DEF PublishedDelivered
    <3> QED BY <3>1, <3>2 DEF CopiesWithinAttempts, PublishedDelivered
  <2>6. ASSUME NEW v \in Workers PROVE CopiesLeft(v)'
    <3>1. batch[v] \subseteq Events
      BY <1>0 DEF TypeOK
    <3>2. CASE v = w
      BY <1>0, <2>1, <2>3, <3>1, <3>2 DEF TypeOK, CopiesLeft, Dealing
    <3>3. CASE v # w
      <4>1. \A e \in batch[v] : events'[e] = events[e]
        BY <1>0, <2>4, <3>1, <3>3 DEF BatchHeld
      <4> QED BY <1>0, <2>1, <3>3, <4>1 DEF TypeOK, CopiesLeft, Dealing
    <3> QED BY <3>2, <3>3
  <2> QED BY <2>5, <2>6 DEF CopiesInv
<1>5. ASSUME NEW w \in Workers, RollbackClaim(w) PROVE CopiesInv'
  <2>1. /\ pc' = [pc EXCEPT ![w] = "idle"] /\ batch' = [batch EXCEPT ![w] = {}]
        /\ events' = [e \in Events |-> RolledBack(events[e], w)]
        /\ UNCHANGED <<delivered, result>>
    BY <1>5 DEF RollbackClaim
  <2>2. \A e \in Events : events'[e].val = events[e].val
    BY <2>1 DEF RolledBack, Unlocked
  <2>3. ASSUME NEW v \in Workers, Dealing(v)'
        PROVE  pc'[v] = pc[v] /\ batch'[v] = batch[v] /\ result'[v] = result[v]
    BY <1>0, <2>1, <2>3 DEF TypeOK, Dealing
  <2> QED BY <2>1, <2>2, <2>3, SameCopies
<1>6. ASSUME NEW w \in Workers, Publish(w) PROVE CopiesInv'
  <2>1. PICK d \in batch[w], outcome \in Outcomes, copies \in {0, 1} :
          Answer(w, d, outcome, copies) /\ (outcome = "ok" => copies = 1)
    BY <1>6 DEF Publish, Outcomes
  <2>2. /\ pc[w] = "publish" /\ pc' = [pc EXCEPT ![w] = "mark"]
        /\ events' = events /\ batch' = batch
        /\ result' = [result EXCEPT ![w] = [event |-> d, outcome |-> outcome]]
        /\ delivered' = [delivered EXCEPT ![d] = @ + copies]
    BY <1>6, <2>1 DEF Publish, Answer
  <2>3. d \in Events /\ events[d].val # None /\ events[d].val \in Event
    BY <1>0, <2>2 DEF TypeOK, BatchHeld, Dealing, RowOf
  <2>4. /\ delivered[d] \in Nat /\ events[d].val.attempts \in Int
        /\ delivered[d] < events[d].val.attempts
    BY <1>0, <2>2, <2>3 DEF TypeOK, Event, CopiesLeft, Dealing
  <2>5. /\ delivered'[d] = delivered[d] + copies
        /\ \A e \in Events \ {d} : delivered'[e] = delivered[e]
    BY <1>0, <2>2, <2>3 DEF TypeOK
  <2>6. delivered'[d] <= events[d].val.attempts /\ delivered'[d] >= delivered[d]
    BY <2>4, <2>5
  <2>7. CopiesWithinAttempts' /\ PublishedDelivered'
    <3>1. \A e \in Events : delivered[e] > 0 => delivered'[e] > 0
      BY <2>4, <2>5
    <3> QED BY <1>0, <2>2, <2>3, <2>5, <2>6, <3>1 DEF CopiesWithinAttempts, PublishedDelivered
  <2>8. ASSUME NEW v \in Workers PROVE CopiesLeft(v)'
    <3>1. batch[v] \subseteq Events
      BY <1>0 DEF TypeOK
    <3>2. CASE v = w
      <4>1. /\ pc'[w] = "mark" /\ result'[w] = [event |-> d, outcome |-> outcome]
        BY <1>0, <2>2 DEF TypeOK
      <4>2. \A e \in batch[w] \ {d} : delivered'[e] < events[e].val.attempts
        BY <1>0, <2>2, <2>5, <3>1, <3>2 DEF CopiesLeft, Dealing
      <4>3. outcome = "ok" => delivered'[d] > 0
        BY <2>1, <2>4, <2>5
      <4> QED BY <2>2, <3>2, <4>1, <4>2, <4>3 DEF CopiesLeft, Dealing
    <3>3. CASE v # w
      <4>1. d \notin batch[v]
        BY <1>0, <2>1, <3>3 DEF BatchHeld
      <4>2. pc'[v] = pc[v] /\ result'[v] = result[v]
        BY <1>0, <2>2, <3>3 DEF TypeOK
      <4>3. pc[v] = "mark" => result[v].event \in batch[v]
        BY <1>0 DEF BatchHeld
      <4> QED BY <1>0, <2>2, <2>5, <3>1, <4>1, <4>2, <4>3 DEF CopiesLeft, Dealing
    <3> QED BY <3>2, <3>3
  <2> QED BY <2>7, <2>8 DEF CopiesInv
<1>7. ASSUME NEW w \in Workers, MarkEvent(w) PROVE CopiesInv'
  <2> DEFINE d == result[w].event
             marked == Marked(events[d].val, result[w].outcome)
  <2>1. /\ pc[w] = "mark" /\ d \in batch[w] /\ d \in Events /\ Markable(d)
        /\ result[w] \in Result /\ events[d].val # None /\ events[d].val \in Event
    BY <1>0, <1>7 DEF MarkEvent, TypeOK, BatchHeld, Dealing, RowOf
  <2>2. /\ events' = [events EXCEPT ![d] = Unlocked(marked)]
        /\ batch' = [batch EXCEPT ![w] = batch[w] \ {d}]
        /\ pc' = [pc EXCEPT ![w] = IF batch[w] = {d} THEN "idle" ELSE "publish"]
        /\ result' = [result EXCEPT ![w] = None]
        /\ delivered' = delivered
    BY <1>7, <2>1 DEF MarkEvent
  <2>3. marked \in Event /\ marked.attempts = events[d].val.attempts
    BY <1>0, <2>1, EventMethods DEF TypeOK
  <2>4. marked.status = "PUBLISHED" => delivered[d] > 0
    <3>1. result[w].outcome # "ok" => marked.status = "FAILED"
      BY <2>1 DEF Marked, MarkFailed, Event
    <3> QED BY <1>0, <2>1, <3>1 DEF CopiesLeft
  <2>5. events'[d].val = marked /\ \A e \in Events \ {d} : events'[e] = events[e]
    BY <1>0, <2>1, <2>2 DEF TypeOK, Unlocked
  <2>6. CopiesWithinAttempts' /\ PublishedDelivered'
    BY <1>0, <2>1, <2>2, <2>3, <2>4, <2>5 DEF CopiesWithinAttempts, PublishedDelivered
  <2>7. ASSUME NEW v \in Workers PROVE CopiesLeft(v)'
    <3>1. batch[v] \subseteq Events
      BY <1>0 DEF TypeOK
    <3>2. CASE v = w
      BY <1>0, <2>1, <2>2, <2>5, <3>1, <3>2 DEF TypeOK, CopiesLeft, Dealing
    <3>3. CASE v # w
      <4>1. d \notin batch[v]
        BY <1>0, <2>1, <3>3 DEF BatchHeld
      <4> QED BY <1>0, <2>2, <2>5, <3>1, <3>3, <4>1 DEF TypeOK, CopiesLeft, Dealing
    <3> QED BY <3>2, <3>3
  <2> QED BY <2>6, <2>7 DEF CopiesInv
<1>8. ASSUME NEW w \in Workers, Abandon(w) PROVE CopiesInv'
  <2>1. /\ UNCHANGED <<events, delivered>> /\ pc' = [pc EXCEPT ![w] = "idle"]
        /\ batch' = [batch EXCEPT ![w] = {}] /\ result' = [result EXCEPT ![w] = None]
    BY <1>8 DEF Abandon, Drop
  <2>2. ASSUME NEW v \in Workers, Dealing(v)'
        PROVE  pc'[v] = pc[v] /\ batch'[v] = batch[v] /\ result'[v] = result[v]
    BY <1>0, <2>1, <2>2 DEF TypeOK, Dealing
  <2> QED BY <2>1, <2>2, SameCopies
<1> QED BY <1>1, <1>2, <1>3, <1>4, <1>5, <1>6, <1>7, <1>8 DEF Next, Step

\* What CopiesStep shows to be invariant.
LEMMA CopiesCounted == Spec => []CopiesInv
<1>1. Init => CopiesInv
  BY DEF Init, CopiesInv, CopiesWithinAttempts, PublishedDelivered, CopiesLeft, Dealing, Unlocked
<1> QED BY <1>1, CopiesStep, ClaimsKept, PTL DEF Spec

\* An event is marked PUBLISHED only after the broker has it, whatever
\* workers, rollbacks, lost acknowledgements and crashes do in between.
THEOREM DeliveredAtLeastOnce == Spec => []PublishedDelivered
<1>1. CopiesInv => PublishedDelivered
  BY DEF CopiesInv
<1> QED BY <1>1, CopiesCounted, PTL

\* A consumer gets an event at most once per claim of it.
THEOREM CopiesBounded == Spec => []CopiesWithinAttempts
<1>1. CopiesInv => CopiesWithinAttempts
  BY DEF CopiesInv
<1> QED BY <1>1, CopiesCounted, PTL

-----------------------------------------------------------------------------
(* The queue.                                                              *)

\* A claim not yet committed is one that could be made now.
BatchDue(w) ==
  pc[w] = "commit" =>
    /\ batch[w] # {} /\ Cardinality(batch[w]) <= BatchSize
    /\ \A e \in batch[w] : events[e].val.availableAt <= now

\* The events that have been created.
Created == {e \in Events : events[e].val # None}

DueInv ==
  /\ IsFiniteSet(Created)
  /\ \A w \in Workers : BatchDue(w)

\* Events are created one by one.
LEMMA CreatedFinite == ClaimInv /\ IsFiniteSet(Created) /\ [Next]_vars => IsFiniteSet(Created)'
<1> SUFFICES ASSUME ClaimInv, IsFiniteSet(Created), [Next]_vars PROVE IsFiniteSet(Created')
  OBVIOUS
<1>0. TypeOK /\ \A e \in Events : RowClaimed(e)
  BY DEF ClaimInv
<1>1. ASSUME NEW d \in Events, NEW t \in 0..now, CreateEvent(d, t) PROVE IsFiniteSet(Created')
  <2>1. Created' \subseteq Created \cup {d}
    BY <1>0, <1>1 DEF CreateEvent, Created, TypeOK
  <2>2. IsFiniteSet(Created \cup {d})
    BY FS_AddElement
  <2> HIDE DEF Created
  <2> QED BY <2>1, <2>2, FS_Subset
<1>2. CASE \A e \in Events : events'[e].val # None => events[e].val # None
  <2>1. Created' \subseteq Created
    BY <1>2 DEF Created
  <2> HIDE DEF Created
  <2> QED BY <2>1, FS_Subset
<1>3. CASE \A e \in Events, t \in 0..now : ~CreateEvent(e, t)
  <2>1. ASSUME NEW w \in Workers, ClaimPendingEvents(w)
        PROVE  \A e \in Events : events'[e].val # None => events[e].val # None
    BY <2>1 DEF ClaimPendingEvents, Lock, Written
  <2>2. ASSUME NEW w \in Workers, CommitClaim(w) \/ RollbackClaim(w)
        PROVE  \A e \in Events : events'[e].val # None => events[e].val # None
    BY <1>0, <2>2, NoneAssumption
    DEF CommitClaim, RollbackClaim, Committed, RolledBack, Unlocked, RowClaimed, HasClaimableStatus
  <2>3. ASSUME NEW w \in Workers, MarkEvent(w)
        PROVE  \A e \in Events : events'[e].val # None => events[e].val # None
    <3>1. events[result[w].event].val # None
      BY <2>3 DEF ClaimInv, BatchHeld, Dealing, MarkEvent
    <3> QED BY <1>0, <2>3, <3>1 DEF MarkEvent, Drop, TypeOK
  <2>4. \/ events' = events
        \/ \E w \in Workers : \/ ClaimPendingEvents(w) \/ CommitClaim(w) \/ RollbackClaim(w)
                              \/ MarkEvent(w)
    BY <1>3 DEF Next, Step, Tick, Publish, Abandon, Drop, vars
  <2> QED BY <1>2, <2>1, <2>2, <2>3, <2>4
<1> QED BY <1>1, <1>3

\* Time does not go back, and nobody touches a row that is locked.
LEMMA DueStep == ClaimInv /\ DueInv /\ [Next]_vars => DueInv'
<1> SUFFICES ASSUME ClaimInv, DueInv, [Next]_vars, NEW v \in Workers, pc'[v] = "commit"
             PROVE  BatchDue(v)'
  BY CreatedFinite DEF DueInv, BatchDue
<1>0. /\ TypeOK /\ BatchDue(v)
      /\ \A e \in Events : RowClaimed(e)
      /\ \A w \in Workers : BatchHeld(w)
  BY DEF ClaimInv, DueInv
<1>1. CASE \A e \in batch[v] : events'[e].val = events[e].val
  <2>1. ASSUME pc[v] = "commit", batch'[v] = batch[v], now' \in {now, now + 1} PROVE BatchDue(v)'
    <3>1. \A e \in batch[v] : events[e].val.availableAt \in Int
      <4> SUFFICES ASSUME NEW e \in batch[v] PROVE events[e].val.availableAt \in Int
        OBVIOUS
      <4>1. e \in Events /\ events[e].lock = v /\ events[e].lock # None
        BY <1>0, <2>1, NoneAssumption DEF RowClaimed, TypeOK
      <4>2. events[e].val \in Event
        BY <1>0, <4>1 DEF RowClaimed, HasClaimableStatus, TypeOK, RowOf
      <4> QED BY <4>2 DEF Event
    <3>2. now \in Int /\ now <= now'
      BY <1>0, <2>1 DEF TypeOK
    <3>3. \A e \in batch[v] : events'[e].val.availableAt <= now'
      <4> SUFFICES ASSUME NEW e \in batch[v] PROVE events'[e].val.availableAt <= now'
        OBVIOUS
      <4>1. events[e].val.availableAt <= now /\ events[e].val.availableAt \in Int
        BY <1>0, <2>1, <3>1 DEF BatchDue
      <4>2. now' \in Int
        BY <2>1, <3>2
      <4> QED BY <1>1, <3>2, <4>1, <4>2
    <3> QED BY <1>0, <2>1, <3>3 DEF BatchDue
  <2>2. CASE Tick \/ UNCHANGED vars \/ \E e \in Events, t \in 0..now : CreateEvent(e, t)
    BY <2>1, <2>2 DEF Tick, CreateEvent, vars
  <2>3. ASSUME NEW w \in Workers, ClaimPendingEvents(w) PROVE BatchDue(v)'
    <3>1. CASE w # v
      BY <1>0, <2>1, <2>3, <3>1 DEF ClaimPendingEvents, TypeOK
    <3>2. CASE w = v
      <4>1. PICK T \in FirstOf(Claimable, BatchSize) \ {{}} :
              /\ events' = [e \in Events |-> IF e \in T THEN Lock(events[e], w) ELSE events[e]]
              /\ batch' = [batch EXCEPT ![w] = T]
        BY <2>3 DEF ClaimPendingEvents
      <4>2. T # {} /\ T \subseteq Claimable /\ Cardinality(T) <= BatchSize
        <5>1. T # {} /\ T \subseteq Claimable /\ Claimable \subseteq Created
          BY FirstOfSubset DEF Claimable, HasClaimableStatus, Created
        <5>2. IsFiniteSet(Created)
          BY DEF DueInv
        <5> HIDE DEF Created, Claimable
        <5>3. Cardinality(T) \in Nat
          BY <5>1, <5>2, FS_Subset, FS_CardinalityType
        <5>4. Cardinality(T) = BatchSize \/ Cardinality(T) < BatchSize
          BY DEF FirstOf
        <5> QED BY <5>1, <5>3, <5>4, ConstantsAssumption
      <4>3. batch'[v] = T /\ now' = now
        BY <1>0, <2>3, <3>2, <4>1 DEF TypeOK, ClaimPendingEvents
      <4>4. \A e \in T : events'[e].val = events[e].val /\ events[e].val.availableAt <= now
        BY <4>1, <4>2 DEF Claimable, Lock, Written
      <4> QED BY <4>2, <4>3, <4>4 DEF BatchDue
    <3> QED BY <3>1, <3>2
  <2>4. ASSUME NEW w \in Workers,
               CommitClaim(w) \/ RollbackClaim(w) \/ Publish(w) \/ MarkEvent(w) \/ Abandon(w)
        PROVE  BatchDue(v)'
    <3>1. w # v /\ now' = now /\ pc[v] = "commit"
      BY <1>0, <2>4 DEF CommitClaim, RollbackClaim, Publish, MarkEvent, Abandon, Drop, TypeOK
    <3>2. batch'[v] = batch[v]
      BY <1>0, <2>4, <3>1 DEF CommitClaim, RollbackClaim, Publish, MarkEvent, Abandon, Drop, TypeOK
    <3> QED BY <2>1, <3>1, <3>2
  <2> QED BY <2>2, <2>3, <2>4 DEF Next, Step
<1>2. ASSUME NEW d \in batch[v], events'[d].val # events[d].val, batch'[v] = batch[v], pc[v] = "commit"
      PROVE  FALSE
  <2>1. d \in Events /\ events[d].lock = v /\ events[d].lock # None /\ events[d].val # None
    BY <1>0, <1>2, NoneAssumption DEF RowClaimed, TypeOK, HasClaimableStatus
  <2>2. ASSUME NEW e \in Events, NEW t \in 0..now, CreateEvent(e, t) PROVE FALSE
    BY <1>0, <1>2, <2>1, <2>2 DEF CreateEvent, TypeOK
  <2>3. ASSUME NEW w \in Workers, ClaimPendingEvents(w) PROVE FALSE
    BY <1>0, <1>2, <2>1, <2>3 DEF ClaimPendingEvents, Lock, Written
  <2>4. ASSUME NEW w \in Workers, CommitClaim(w) \/ RollbackClaim(w) PROVE FALSE
    <3>1. w # v
      BY <1>0, <2>4 DEF CommitClaim, RollbackClaim, TypeOK
    <3> QED BY <1>2, <2>1, <2>4, <3>1 DEF CommitClaim, RollbackClaim, Committed, RolledBack
  <2>5. ASSUME NEW w \in Workers, MarkEvent(w) PROVE FALSE
    <3>1. w # v /\ result[w].event \in batch[w]
      BY <1>0, <1>2, <2>5 DEF MarkEvent, BatchHeld
    <3>2. result[w].event # d
      BY <1>0, <1>2, <3>1 DEF BatchHeld
    <3> QED BY <1>0, <1>2, <2>1, <2>5, <3>2 DEF MarkEvent, Drop, TypeOK
  <2>6. events' = events \/ (\E e \in Events, t \in 0..now : CreateEvent(e, t))
          \/ \E w \in Workers : \/ ClaimPendingEvents(w) \/ CommitClaim(w) \/ RollbackClaim(w)
                                \/ MarkEvent(w)
    BY DEF Next, Step, Tick, Publish, Abandon, Drop, vars
  <2> QED BY <1>2, <2>2, <2>3, <2>4, <2>5, <2>6
<1>3. CASE \A w \in Workers : ~ClaimPendingEvents(w) \/ w # v
  <2>1. pc[v] = "commit" /\ batch'[v] = batch[v]
    BY <1>0, <1>3
    DEF Next, Step, Tick, CreateEvent, ClaimPendingEvents, CommitClaim, RollbackClaim, Publish,
        MarkEvent, Abandon, Drop, vars, TypeOK
  <2> QED BY <1>1, <1>2, <2>1
<1>4. CASE ClaimPendingEvents(v)
  <2>1. \A e \in Events : events'[e].val = events[e].val
    BY <1>4 DEF ClaimPendingEvents, Lock, Written
  <2>2. batch[v] \subseteq Events
    BY <1>0 DEF TypeOK
  <2> QED BY <1>1, <2>1, <2>2
<1> QED BY <1>3, <1>4

\* Somebody has e in hand.
InBatch(e) == \E w \in Workers : e \in batch[w]

\* A step that leaves the row of an event alone, and its answer and its
\* place in a batch too unless it is waiting, leaves it alone.
LEMMA SameMapped ==
  ASSUME NEW e \in Events, events'[e].val = events[e].val,
         \/ events[e].val = None \/ HasClaimableStatus(events[e])
         \/ /\ HasAnswer(e, "ok")' <=> HasAnswer(e, "ok")
            /\ HasAnswer(e, "error")' <=> HasAnswer(e, "error")
            /\ InBatch(e)' <=> InBatch(e)
  PROVE  Queued(e)' = Queued(e)
<1>1. HasClaimableStatus(events[e])' <=> HasClaimableStatus(events[e])
  BY DEF HasClaimableStatus
<1>2. IsPublished(e)' <=> IsPublished(e)
  BY DEF IsPublished
<1>3. events[e].val # None => Phase(e)' = Phase(e)
  BY <1>1, <1>2 DEF Phase, InBatch
<1> QED BY <1>3 DEF Queued

\* The answer a worker has is for an event of its batch alone.
LEMMA AnswerHeld ==
  ASSUME ClaimInv, NEW e \in Events, NEW w \in Workers, e \in batch[w]
  PROVE  \A outcome : HasAnswer(e, outcome) <=>
           pc[w] = "mark" /\ result[w] = [event |-> e, outcome |-> outcome]
<1>1. ASSUME NEW v \in Workers, NEW outcome, pc[v] = "mark",
             result[v] = [event |-> e, outcome |-> outcome]
      PROVE  v = w
  <2>1. result[v].event = e
    BY <1>1
  <2> QED BY <1>1, <2>1 DEF ClaimInv, BatchHeld
<1> QED BY <1>1 DEF HasAnswer

\* A step of w that leaves the rows of other events than those of S alone,
\* and of batches and answers changes only those of w, for events of S.
LEMMA OthersMapped ==
  ASSUME NEW w \in Workers, NEW S,
         \A f \in Events \ S : events'[f].val = events[f].val,
         \A v \in Workers \ {w} : pc'[v] = pc[v] /\ batch'[v] = batch[v] /\ result'[v] = result[v],
         \A f \in Events \ S : f \in batch'[w] <=> f \in batch[w],
         pc[w] = "mark" => result[w].event \in S,
         pc'[w] = "mark" => result'[w].event \in S,
         NEW f \in Events \ S
  PROVE  Queued(f)' = Queued(f)
<1>1. ASSUME NEW outcome PROVE HasAnswer(f, outcome)' <=> HasAnswer(f, outcome)
  <2>1. ~(pc[w] = "mark" /\ result[w] = [event |-> f, outcome |-> outcome])
    OBVIOUS
  <2>2. ~(pc'[w] = "mark" /\ result'[w] = [event |-> f, outcome |-> outcome])
    OBVIOUS
  <2> QED BY <2>1, <2>2 DEF HasAnswer
<1>2. InBatch(f)' <=> InBatch(f)
  BY DEF InBatch
<1> QED BY <1>1, <1>2, SameMapped

\* The queue after a step that changes one event, or a set of them.
LEMMA QueueChange ==
  ASSUME NEW S \in SUBSET Events, NEW new,
         \A f \in Events \ S : Queued(f)' = Queued(f),
         \A e \in S : Queued(e)' = new[e]
  PROVE  [e \in Events |-> Queued(e)']
           = [e \in Events |-> IF e \in S THEN new[e] ELSE Queued(e)]
OBVIOUS

\* CREATE puts an event into the queue.
LEMMA CreatePuts ==
  ASSUME ClaimInv, NEW e \in Events, NEW t \in 0..now, CreateEvent(e, t)
  PROVE  Abstract!Put(e, t)
<1>0. TypeOK /\ events[e].val = None /\ UNCHANGED <<delivered, pc, batch, result, now>>
  BY DEF ClaimInv, CreateEvent
<1>1. NewEvent(t) \in Event /\ NewEvent(t) # None
  BY <1>0, NoneAssumption DEF NewEvent, Event, Statuses, TypeOK
<1>2. events'[e].val = NewEvent(t) /\ \A f \in Events \ {e} : events'[f] = events[f]
  BY <1>0 DEF CreateEvent, TypeOK, Unlocked
<1>3. Queued(e) = Abstract!Absent
  BY <1>0 DEF Queued, Abstract!Absent
<1>4. Queued(e)' = [state |-> "waiting", due |-> t, takes |-> 0]
  <2>1. HasClaimableStatus(events[e])'
    BY <1>1, <1>2 DEF HasClaimableStatus, NewEvent
  <2>2. events'[e].val.availableAt = t /\ events'[e].val.attempts = 0
    BY <1>2 DEF NewEvent
  <2> QED BY <1>1, <1>2, <2>1, <2>2 DEF Queued, Phase
<1>5. ASSUME NEW f \in Events, f # e PROVE Queued(f)' = Queued(f)
  BY <1>0, <1>2, <1>5, SameMapped DEF HasAnswer, InBatch
<1>6. [f \in Events |-> Queued(f)']
        = [[f \in Events |-> Queued(f)] EXCEPT ![e] = [state |-> "waiting", due |-> t, takes |-> 0]]
  BY <1>4, <1>5
<1> QED BY <1>0, <1>3, <1>6 DEF Abstract!Put

\* The COMMIT of a claim takes its batch.
LEMMA CommitTakes ==
  ASSUME ClaimInv, DueInv, NEW w \in Workers, CommitClaim(w)
  PROVE  \E S \in SUBSET Events : Abstract!Take(S)
<1> PICK S : S = batch[w]
  OBVIOUS
<1>0. /\ TypeOK /\ BatchHeld(w) /\ BatchDue(w) /\ pc[w] = "commit" /\ S \subseteq Events
      /\ \A e \in Events : RowClaimed(e)
      /\ UNCHANGED <<delivered, batch, result, now>>
  BY DEF ClaimInv, DueInv, CommitClaim, TypeOK
<1>1. ASSUME NEW e \in S
      PROVE  /\ events[e].val \in Event /\ HasClaimableStatus(events[e])
             /\ events'[e].val = Claimed(events[e].val)
             /\ events[e].val.availableAt <= now
  <2>1. events[e].lock = w /\ e \in Events /\ w # None
    BY <1>0, NoneAssumption DEF RowClaimed
  <2>2. HasClaimableStatus(events[e]) /\ events[e].new = Claimed(events[e].val)
    BY <1>0, <2>1 DEF RowClaimed
  <2>3. events'[e].val = events[e].new
    BY <2>1 DEF CommitClaim, Committed, Unlocked
  <2> QED BY <1>0, <2>1, <2>2, <2>3 DEF HasClaimableStatus, TypeOK, RowOf, BatchDue
<1>2. \A f \in Events \ S : events'[f].val = events[f].val
  BY <1>0 DEF CommitClaim, Committed, RowClaimed
<1>3. /\ pc'[w] = "publish"
      /\ \A v \in Workers \ {w} : pc'[v] = pc[v] /\ batch'[v] = batch[v] /\ result'[v] = result[v]
  BY <1>0 DEF CommitClaim, TypeOK
<1>4. \A f \in Events \ S : Queued(f)' = Queued(f)
  BY <1>0, <1>2, <1>3, OthersMapped
<1>5. ASSUME NEW e \in S
      PROVE  /\ Queued(e).state = "waiting" /\ Queued(e).due <= now
             /\ Queued(e)' = [state |-> "taken", due |-> Queued(e).due, takes |-> Queued(e).takes + 1]
  <2>1. events[e].val # None /\ Queued(e) = [state |-> "waiting", due |-> events[e].val.availableAt,
                                             takes |-> events[e].val.attempts]
    BY <1>1 DEF Queued, Phase, HasClaimableStatus
  <2>2. /\ events'[e].val \in Event /\ events'[e].val # None
        /\ events'[e].val.status = "IN_PROGRESS"
        /\ events'[e].val.availableAt = events[e].val.availableAt
        /\ events'[e].val.attempts = events[e].val.attempts + 1
    <3>1. Claimed(events[e].val).availableAt = events[e].val.availableAt
      BY <1>1 DEF Claimed, Event
    <3> QED BY <1>1, <3>1, EventMethods, NoneAssumption
  <2>3. ~HasAnswer(e, "ok")' /\ ~HasAnswer(e, "error")'
    <3>1. ASSUME NEW outcome, HasAnswer(e, outcome)' PROVE FALSE
      <4>1. PICK v \in Workers : pc'[v] = "mark" /\ result'[v].event = e
        BY <3>1 DEF HasAnswer
      <4>2. v # w /\ pc[v] = "mark" /\ result[v].event = e
        BY <1>3, <4>1
      <4>3. e \in batch[v]
        BY <4>2 DEF ClaimInv, BatchHeld
      <4> QED BY <1>0, <4>2, <4>3 DEF BatchHeld
    <3> QED BY <3>1
  <2>4. Phase(e)' = "taken"
    BY <1>0, <2>2, <2>3 DEF Phase, HasClaimableStatus, IsPublished
  <2>5. Queued(e)' = [state |-> "taken", due |-> events[e].val.availableAt,
                      takes |-> events[e].val.attempts + 1]
    BY <2>2, <2>4 DEF Queued
  <2> QED BY <1>1, <2>1, <2>5
<1>6. [f \in Events |-> Queued(f)']
        = [f \in Events |->
             IF f \in S THEN [state |-> "taken", due |-> Queued(f).due, takes |-> Queued(f).takes + 1]
                        ELSE Queued(f)]
  BY <1>4, <1>5
<1>7. S # {} /\ Abstract!Cardinality(S) <= BatchSize
  <2>1. Abstract!Cardinality(S) = Cardinality(S)
    BY DEF Abstract!Cardinality, Cardinality
  <2> QED BY <1>0, <2>1 DEF BatchDue
<1>8. Abstract!Take(S)
  BY <1>0, <1>5, <1>6, <1>7 DEF Abstract!Take
<1> QED BY <1>0, <1>8

\* An event is sent by the worker that has it, and answered for.
LEMMA PublishSends ==
  ASSUME ClaimInv, NEW w \in Workers, Publish(w)
  PROVE  \E e \in Events, answer \in {"acknowledged", "refused"}, n \in {0, 1} :
           Abstract!Send(e, answer, n)
<1>0. TypeOK /\ BatchHeld(w) /\ pc[w] = "publish" /\ UNCHANGED <<events, batch, now>>
  BY DEF ClaimInv, Publish
<1>1. PICK e \in batch[w], outcome \in Outcomes, n \in {0, 1} :
        Answer(w, e, outcome, n) /\ (outcome = "ok" => n = 1)
  BY DEF Publish, Outcomes
<1>2. /\ result' = [result EXCEPT ![w] = [event |-> e, outcome |-> outcome]]
      /\ delivered' = [delivered EXCEPT ![e] = @ + n]
  BY <1>1 DEF Answer
<1>3. /\ e \in Events /\ events[e].val # None /\ Markable(e)
      /\ pc'[w] = "mark" /\ result'[w] = [event |-> e, outcome |-> outcome]
      /\ \A v \in Workers \ {w} : pc'[v] = pc[v] /\ result'[v] = result[v]
  BY <1>0, <1>2 DEF BatchHeld, Dealing, Publish, TypeOK
<1>4. \A f \in Events \ {e} : Queued(f)' = Queued(f)
  <2>1. \A v \in Workers : batch'[v] = batch[v]
    BY <1>0
  <2>2. result'[w].event = e
    BY <1>3
  <2> QED BY <1>0, <1>3, <2>1, <2>2, OthersMapped
<1> DEFINE answer == IF outcome = "ok" THEN "acknowledged" ELSE "refused"
<1>5. Phase(e) = "taken"
  <2>1. ~HasAnswer(e, "ok") /\ ~HasAnswer(e, "error")
    BY <1>0, <1>3, AnswerHeld
  <2> QED BY <1>3, <2>1 DEF Phase, Markable, HasClaimableStatus, IsPublished
<1>6. Phase(e)' = answer
  <2>1. \A o : HasAnswer(e, o)' <=> o = outcome
    <3>1. ASSUME NEW o, NEW v \in Workers, pc'[v] = "mark", result'[v] = [event |-> e, outcome |-> o]
          PROVE  o = outcome
      <4>1. CASE v = w
        BY <1>3, <3>1, <4>1
      <4>2. CASE v # w
        <5>1. pc[v] = "mark" /\ result[v].event = e
          BY <1>3, <3>1, <4>2
        <5> QED BY <4>2, <5>1 DEF ClaimInv, BatchHeld
      <4> QED BY <4>1, <4>2
    <3> QED BY <1>3, <3>1 DEF HasAnswer
  <2>2. Markable(e)' /\ events'[e].val # None
    BY <1>0, <1>3 DEF Markable
  <2> QED BY <2>1, <2>2 DEF Phase, Markable, HasClaimableStatus, IsPublished, Outcomes
<1>7. /\ Queued(e).state = "taken"
      /\ Queued(e)' = [Queued(e) EXCEPT !.state = answer]
  <2>1. Queued(e) = [state |-> "taken", due |-> events[e].val.availableAt, takes |-> events[e].val.attempts]
    BY <1>3, <1>5 DEF Queued
  <2>2. Queued(e)' = [state |-> answer, due |-> events[e].val.availableAt, takes |-> events[e].val.attempts]
    BY <1>0, <1>3, <1>6 DEF Queued
  <2>3. [Queued(e) EXCEPT !.state = answer]
          = [state |-> answer, due |-> events[e].val.availableAt, takes |-> events[e].val.attempts]
    BY <2>1
  <2> QED BY <2>1, <2>2, <2>3
<1> HIDE DEF answer
<1>8. [f \in Events |-> Queued(f)'] = [[f \in Events |-> Queued(f)] EXCEPT ![e] = [@ EXCEPT !.state = answer]]
  BY <1>3, <1>4, <1>7
<1>9. Abstract!Goes(e, {"taken"}, answer)
  BY <1>3, <1>7, <1>8 DEF Abstract!Goes
<1>10. answer \in {"acknowledged", "refused"} /\ (answer = "acknowledged" => n = 1)
  BY <1>1 DEF answer, Outcomes
<1>11. Abstract!Send(e, answer, n)
  BY <1>0, <1>2, <1>9, <1>10 DEF Abstract!Send
<1> QED BY <1>3, <1>10, <1>11

\* A mark finishes the event the broker has acknowledged, and puts back the
\* one it has refused.
LEMMA MarkEnds ==
  ASSUME ClaimInv, NEW w \in Workers, MarkEvent(w)
  PROVE  \E e \in Events : Abstract!Finish(e) \/ Abstract!Retry(e)
<1> PICK e, outcome : e = result[w].event /\ outcome = result[w].outcome
  OBVIOUS
<1>0. /\ TypeOK /\ BatchHeld(w) /\ pc[w] = "mark"
      /\ e \in Events /\ outcome \in Outcomes /\ e \in batch[w]
      /\ result[w] = [event |-> e, outcome |-> outcome]
  BY DEF ClaimInv, MarkEvent, BatchHeld, Result, TypeOK
<1>1. events[e].val \in Event /\ events[e].val # None /\ Markable(e)
  BY <1>0 DEF BatchHeld, Dealing, TypeOK, RowOf
<1>2. /\ events' = [events EXCEPT ![e] = Unlocked(Marked(events[e].val, outcome))]
      /\ batch' = [batch EXCEPT ![w] = @ \ {e}]
      /\ result' = [result EXCEPT ![w] = None]
      /\ UNCHANGED <<delivered, now>>
  BY <1>1 DEF MarkEvent
<1>3. /\ pc'[w] \in {"idle", "publish"} /\ batch'[w] = batch[w] \ {e}
      /\ \A v \in Workers \ {w} : pc'[v] = pc[v] /\ batch'[v] = batch[v] /\ result'[v] = result[v]
  BY <1>0, <1>1, <1>2 DEF MarkEvent, TypeOK
<1>4. events'[e].val = Marked(events[e].val, outcome) /\ \A f \in Events \ {e} : events'[f] = events[f]
  BY <1>0, <1>2 DEF TypeOK, Unlocked
<1>5. \A f \in Events \ {e} : Queued(f)' = Queued(f)
  <2>1. pc'[w] # "mark" /\ \A f \in Events \ {e} : f \in batch'[w] <=> f \in batch[w]
    BY <1>3
  <2> QED BY <1>3, <1>4, <2>1, OthersMapped
<1>6. \A o : HasAnswer(e, o) <=> o = outcome
  <2>1. \A o : result[w] = [event |-> e, outcome |-> o] <=> o = outcome
    BY <1>0
  <2> QED BY <1>0, <2>1, AnswerHeld
<1>7. Phase(e) = IF outcome = "ok" THEN "acknowledged" ELSE "refused"
  BY <1>0, <1>1, <1>6 DEF Phase, Markable, HasClaimableStatus, IsPublished, Outcomes
<1>8. Queued(e) = [state |-> IF outcome = "ok" THEN "acknowledged" ELSE "refused",
                   due |-> events[e].val.availableAt, takes |-> events[e].val.attempts]
  BY <1>1, <1>7 DEF Queued
<1>9. Marked(events[e].val, outcome) # None
  <2>1. now \in Nat
    BY <1>0 DEF TypeOK
  <2>2. Marked(events[e].val, outcome) \in Event
    BY <1>1, <2>1, EventMethods
  <2> QED BY <2>2, NoneAssumption
<1>10. CASE outcome = "ok"
  <2>1. /\ events'[e].val.status = "PUBLISHED"
        /\ events'[e].val.availableAt = events[e].val.availableAt
        /\ events'[e].val.attempts = events[e].val.attempts
    BY <1>1, <1>4, <1>10 DEF Marked, MarkPublished, Event
  <2>2. Phase(e)' = "published"
    BY <1>4, <1>9, <2>1 DEF Phase, HasClaimableStatus, IsPublished
  <2>3. Queued(e)' = [state |-> "published", due |-> events[e].val.availableAt,
                      takes |-> events[e].val.attempts]
    BY <1>4, <1>9, <2>1, <2>2 DEF Queued
  <2>4. Queued(e).state = "acknowledged" /\ Queued(e)' = [Queued(e) EXCEPT !.state = "published"]
    BY <1>8, <1>10, <2>3
  <2>5. [f \in Events |-> Queued(f)']
          = [[f \in Events |-> Queued(f)] EXCEPT ![e] = [@ EXCEPT !.state = "published"]]
    BY <1>0, <1>5, <2>4
  <2>6. Abstract!Finish(e)
    BY <1>0, <1>2, <2>4, <2>5 DEF Abstract!Finish, Abstract!Goes
  <2> QED BY <1>0, <2>6
<1>11. CASE outcome = "error"
  <2>1. /\ events'[e].val.status = "FAILED"
        /\ events'[e].val.availableAt = now + RetryDelay
        /\ events'[e].val.attempts = events[e].val.attempts
    BY <1>1, <1>4, <1>11 DEF Marked, MarkFailed, Event
  <2>2. Phase(e)' = "waiting"
    BY <1>4, <1>9, <2>1 DEF Phase, HasClaimableStatus
  <2>3. Queued(e)' = [state |-> "waiting", due |-> now + RetryDelay, takes |-> Queued(e).takes]
    BY <1>4, <1>8, <1>9, <2>1, <2>2 DEF Queued
  <2>4. Queued(e).state = "refused"
    BY <1>8, <1>11
  <2>5. [f \in Events |-> Queued(f)']
          = [[f \in Events |-> Queued(f)] EXCEPT ![e] =
               [state |-> "waiting", due |-> now + RetryDelay, takes |-> Queued(e).takes]]
    BY <1>0, <1>5, <2>3
  <2>6. Abstract!Retry(e)
    BY <1>0, <1>2, <2>4, <2>5 DEF Abstract!Retry
  <2> QED BY <1>0, <2>6
<1> QED BY <1>0, <1>10, <1>11 DEF Outcomes

\* A worker that gives up loses what it has in hand and nothing else.
LEMMA AbandonLoses ==
  ASSUME ClaimInv, NEW w \in Workers, Abandon(w)
  PROVE  \E S \in SUBSET Events : Abstract!Lose(S)
<1> PICK S : S = batch[w]
  OBVIOUS
<1>0. /\ TypeOK /\ BatchHeld(w) /\ Dealing(w) /\ S \subseteq Events
      /\ UNCHANGED <<events, delivered, now>>
  BY DEF ClaimInv, Abandon, Drop, Dealing, TypeOK
<1>1. /\ pc'[w] = "idle" /\ batch'[w] = {}
      /\ \A v \in Workers \ {w} : pc'[v] = pc[v] /\ batch'[v] = batch[v] /\ result'[v] = result[v]
  BY <1>0 DEF Abandon, Drop, TypeOK
<1>2. \A f \in Events \ S : Queued(f)' = Queued(f)
  <2>1. pc[w] = "mark" => result[w].event \in S
    BY <1>0 DEF BatchHeld
  <2> QED BY <1>0, <1>1, <2>1, OthersMapped
<1>3. ASSUME NEW e \in S
      PROVE  /\ Queued(e).state \in {"taken", "acknowledged", "refused"}
             /\ Queued(e)' = [Queued(e) EXCEPT !.state = "lost"]
  <2>1. events[e].val # None /\ Markable(e)
    BY <1>0 DEF BatchHeld
  <2>2. Phase(e) \in {"taken", "acknowledged", "refused"}
    BY <2>1 DEF Phase, Markable, HasClaimableStatus, IsPublished
  <2>3. \A v \in Workers : e \notin batch'[v]
    BY <1>0, <1>1 DEF BatchHeld
  <2>4. \A o : ~HasAnswer(e, o)'
    <3>1. ASSUME NEW o, NEW v \in Workers, pc'[v] = "mark", result'[v] = [event |-> e, outcome |-> o]
          PROVE  FALSE
      <4>1. v # w /\ pc[v] = "mark" /\ result[v].event = e
        BY <1>1, <3>1
      <4>2. e \in batch[v]
        BY <4>1 DEF ClaimInv, BatchHeld
      <4> QED BY <1>1, <2>3, <4>1, <4>2
    <3> QED BY <3>1 DEF HasAnswer
  <2>5. Phase(e)' = "lost"
    BY <1>0, <2>1, <2>3, <2>4 DEF Phase, Markable, HasClaimableStatus, IsPublished
  <2>6. Queued(e) = [state |-> Phase(e), due |-> events[e].val.availableAt, takes |-> events[e].val.attempts]
    BY <2>1 DEF Queued
  <2>7. Queued(e)' = [state |-> "lost", due |-> events[e].val.availableAt, takes |-> events[e].val.attempts]
    BY <1>0, <2>1, <2>5 DEF Queued
  <2> QED BY <2>2, <2>6, <2>7
<1>4. [f \in Events |-> Queued(f)']
        = [f \in Events |-> IF f \in S THEN [Queued(f) EXCEPT !.state = "lost"] ELSE Queued(f)]
  BY <1>2, <1>3
<1>5. Abstract!Lose(S)
  BY <1>0, <1>3, <1>4 DEF Abstract!Lose
<1> QED BY <1>0, <1>5

\* A claim before its COMMIT, or one that is rolled back, is not seen.
LEMMA ClaimUnseen ==
  ASSUME ClaimInv, NEW w \in Workers, ClaimPendingEvents(w) \/ RollbackClaim(w), NEW e \in Events
  PROVE  Queued(e)' = Queued(e)
<1>0. TypeOK /\ RowClaimed(e) /\ BatchHeld(w) /\ UNCHANGED <<result, now>>
  BY DEF ClaimInv, ClaimPendingEvents, RollbackClaim
<1>1. events'[e].val = events[e].val
  BY DEF ClaimPendingEvents, Lock, Written, RollbackClaim, RolledBack, Unlocked
<1>2. /\ pc[w] # "mark" /\ pc'[w] # "mark"
      /\ \A v \in Workers \ {w} : pc'[v] = pc[v] /\ batch'[v] = batch[v]
  BY <1>0 DEF ClaimPendingEvents, RollbackClaim, TypeOK
<1>3. e \in batch[w] \cup batch'[w] => HasClaimableStatus(events[e])
  <2>1. CASE RollbackClaim(w)
    <3>1. batch'[w] = {} /\ pc[w] = "commit"
      BY <1>0, <2>1 DEF RollbackClaim, TypeOK
    <3> QED BY <1>0, <3>1, NoneAssumption DEF RowClaimed
  <2>2. CASE ClaimPendingEvents(w)
    <3>1. PICK T \in FirstOf(Claimable, BatchSize) \ {{}} : batch' = [batch EXCEPT ![w] = T]
      BY <2>2 DEF ClaimPendingEvents
    <3>2. batch[w] = {} /\ batch'[w] = T
      BY <1>0, <2>2, <3>1 DEF BatchHeld, ClaimPendingEvents, TypeOK
    <3> QED BY <3>1, <3>2, FirstOfSubset DEF Claimable
  <2> QED BY <2>1, <2>2
<1>4. CASE HasClaimableStatus(events[e])
  BY <1>1, <1>4, SameMapped
<1>5. CASE e \notin batch[w] /\ e \notin batch'[w]
  BY <1>0, <1>1, <1>2, <1>5, OthersMapped, SameMapped DEF HasAnswer, InBatch
<1> QED BY <1>3, <1>4, <1>5

\* The workers together are one queue: each COMMIT of a claim, call of the
\* broker and mark is one step of it, in its order, and so is a worker's end.
THEOREM QueueRefined == Spec => ImplementsQueue
<1>1. Init => Abstract!Init
  BY DEF Init, Abstract!Init, Abstract!Absent, Queued, Unlocked
<1>2. ASSUME ClaimInv, DueInv, [Next]_vars PROVE [Abstract!Next]_(Abstract!qvars)
  <2>0. now \in Nat
    BY <1>2 DEF ClaimInv, TypeOK
  <2>1. ASSUME UNCHANGED <<events, pc, batch, result>> PROVE \A e \in Events : Queued(e)' = Queued(e)
    BY <2>1 DEF Queued, Phase, HasClaimableStatus, IsPublished, HasAnswer
  <2>2. CASE Tick
    <3>1. now' = now + 1 /\ UNCHANGED <<delivered, events, pc, batch, result>>
      BY <2>2 DEF Tick
    <3>2. Abstract!Tick
      BY <2>1, <3>1 DEF Abstract!Tick
    <3> QED BY <3>2 DEF Abstract!Next
  <2>3. CASE UNCHANGED vars
    BY <2>1, <2>3 DEF vars, Abstract!qvars
  <2>4. ASSUME NEW e \in Events, NEW t \in 0..now, CreateEvent(e, t) PROVE Abstract!Next
    BY <1>2, <2>4, CreatePuts DEF Abstract!Next
  <2>5. ASSUME NEW w \in Workers, ClaimPendingEvents(w) \/ RollbackClaim(w)
        PROVE  UNCHANGED Abstract!qvars
    <3>1. \A e \in Events : Queued(e)' = Queued(e)
      BY <1>2, <2>5, ClaimUnseen
    <3>2. UNCHANGED <<delivered, now>>
      BY <2>5 DEF ClaimPendingEvents, RollbackClaim
    <3> QED BY <3>1, <3>2 DEF Abstract!qvars
  <2>6. ASSUME NEW w \in Workers, CommitClaim(w) PROVE Abstract!Next
    BY <1>2, <2>6, CommitTakes DEF Abstract!Next
  <2>7. ASSUME NEW w \in Workers, Publish(w) PROVE Abstract!Next
    BY <1>2, <2>7, PublishSends DEF Abstract!Next
  <2>8. ASSUME NEW w \in Workers, MarkEvent(w) PROVE Abstract!Next
    BY <1>2, <2>8, MarkEnds DEF Abstract!Next
  <2>9. ASSUME NEW w \in Workers, Abandon(w) PROVE Abstract!Next
    BY <1>2, <2>9, AbandonLoses DEF Abstract!Next
  <2> QED BY <1>2, <2>2, <2>3, <2>4, <2>5, <2>6, <2>7, <2>8, <2>9 DEF Next, Step
<1>3. Init => DueInv
  BY FS_EmptySet DEF Init, DueInv, BatchDue, Created, Unlocked
<1>4. Spec => []DueInv
  BY <1>3, DueStep, ClaimsKept, PTL DEF Spec
<1> QED BY <1>1, <1>2, <1>4, ClaimsKept, PTL DEF Spec, ImplementsQueue, Abstract!Spec
=============================================================================
