------------------------------- MODULE Outbox -------------------------------
(***************************************************************************)
(* Publishing the transactional outbox: internal/outbox (event, worker),   *)
(* its adapters/postgres and adapters/kafka, and the loop of               *)
(* cmd/paycore-outbox-worker.                                              *)
(*                                                                         *)
(* Workers claim due events in one transaction, then publish and mark them *)
(* one by one, each mark a statement of its own outside any transaction.   *)
(***************************************************************************)
EXTENDS Integers, FiniteSets, FiniteSetsExt, PgRow

CONSTANTS
  Workers,      \* worker processes
  Events,       \* event ids
  BatchSize,    \* LIMIT of one claim
  RetryDelay,   \* the minute a failed event waits, in clock ticks
  MaxTime,      \* bound: the clock stops here unless an event waits for its retry
  MaxFailures,  \* bound: the broker may fail an event's first MaxFailures attempts
  MaxAbandons   \* bound: crashes, cancelled contexts and failed marks

ASSUME ConstantsAssumption ==
  /\ BatchSize \in Nat \ {0}
  /\ RetryDelay \in Nat \ {0}
  /\ MaxTime \in Nat
  /\ MaxFailures \in Nat
  /\ MaxAbandons \in Nat

VARIABLES
  events,     \* event id -> row of outbox_events
  delivered,  \* event id -> how many copies of it the broker has
  pc,         \* worker -> the statement it is about to run
  batch,      \* worker -> claimed events it has not dealt with
  result,     \* worker -> what publishing the event it is about to mark returned
  now,        \* the clock every process reads
  abandons    \* batches given up so far

vars == <<events, delivered, pc, batch, result, now, abandons>>

Statuses == {"PENDING", "IN_PROGRESS", "PUBLISHED", "FAILED"}

Event == [status: Statuses, attempts: Int, availableAt: Int, createdAt: Int]

Outcomes == {"ok", "error"}
Result   == [event: Events, outcome: Outcomes]
Labels   == {"idle", "commit", "publish", "mark"}

\* None is none of the things whose absence it stands for.
ASSUME NoneAssumption ==
  None \notin Workers /\ None \notin Event /\ None \notin Result

-----------------------------------------------------------------------------
(* Event methods.                                                          *)

\* outbox.NewEvent
NewEvent(t) == [status |-> "PENDING", attempts |-> 0, availableAt |-> t, createdAt |-> t]

\* Mutant: a claimed event is claimable again, as a naive lock recovery would do.
AnyUnpublished(row) == row.val # None /\ row.val.status # "PUBLISHED"

\* status IN ('PENDING', 'FAILED')
HasClaimableStatus(row) == row.val # None /\ row.val.status \in {"PENDING", "FAILED"}

\* Mutant: a claim is not counted as an attempt.
ClaimedUncounted(ev) == [ev EXCEPT !.status = "IN_PROGRESS"]

\* Event.Claim, and the SET of ClaimPendingEvents
Claimed(ev) == [ev EXCEPT !.status = "IN_PROGRESS", !.attempts = @ + 1]

\* Mutant: a status outside the column's CHECK.
MarkedSent(ev) == [ev EXCEPT !.status = "SENT"]

\* Event.MarkPublished and Event.MarkFailed, and the SETs of the two UPDATEs
MarkPublished(ev) == [ev EXCEPT !.status = "PUBLISHED"]

\* Mutant: a failed event keeps the status of its claim.
MarkFailedStuck(ev, t) == [ev EXCEPT !.availableAt = t]

\* Mutant: a failed event can be claimed again at once.
MarkFailedNow(ev, t) == [ev EXCEPT !.status = "FAILED"]

MarkFailed(ev, t) == [ev EXCEPT !.status = "FAILED", !.availableAt = t]

-----------------------------------------------------------------------------
(* Producers.                                                              *)

\* A business transaction that has built its event at time t commits it now.
CreateEvent(e, t) ==
  /\ events[e].val = None
  /\ events' = [events EXCEPT ![e] = Unlocked(NewEvent(t))]
  /\ UNCHANGED <<delivered, pc, batch, result, now, abandons>>

-----------------------------------------------------------------------------
(* Worker.ProcessBatch.                                                    *)

\* Rows the claim selects and does not skip as locked.
Claimable == {e \in Events : /\ HasClaimableStatus(events[e])
                             /\ events[e].lock = None
                             /\ events[e].val.availableAt <= now}

\* ORDER BY available_at, created_at, id (ids are random: ties go either way).
SortsBefore(a, b) ==
  \/ a.availableAt < b.availableAt
  \/ a.availableAt = b.availableAt /\ a.createdAt <= b.createdAt

\* LIMIT n: a batch of the n first.
FirstOf(S, n) ==
  {T \in SUBSET S : /\ Cardinality(T) = n \/ (T = S /\ Cardinality(S) < n)
                    /\ \A s \in T, r \in S \ T : SortsBefore(events[s].val, events[r].val)}

Lock(row, w) == Written(row, w, Claimed(row.val))

\* BEGIN, ClaimPendingEvents: one UPDATE of the batch, locked until the COMMIT.
\* A claim of nothing changes nothing.
ClaimPendingEvents(w) ==
  /\ pc[w] = "idle"
  /\ \E T \in FirstOf(Claimable, BatchSize) \ {{}} :
       /\ events' = [e \in Events |-> IF e \in T THEN Lock(events[e], w) ELSE events[e]]
       /\ batch' = [batch EXCEPT ![w] = T]
  /\ pc' = [pc EXCEPT ![w] = "commit"]
  /\ UNCHANGED <<delivered, result, now, abandons>>

CommitClaim(w) ==
  /\ pc[w] = "commit"
  /\ events' = [e \in Events |-> Committed(events[e], w)]
  /\ pc' = [pc EXCEPT ![w] = "publish"]
  /\ UNCHANGED <<delivered, batch, result, now, abandons>>

\* The claim fails or its worker dies before the COMMIT.
RollbackClaim(w) ==
  /\ pc[w] = "commit"
  /\ events' = [e \in Events |-> RolledBack(events[e], w)]
  /\ pc' = [pc EXCEPT ![w] = "idle"]
  /\ batch' = [batch EXCEPT ![w] = {}]
  /\ UNCHANGED <<delivered, result, now, abandons>>

\* What Publish returned for e and whether the broker has the message: an
\* error (a lost acknowledgement, a timeout) does not tell.
Answer(w, e, outcome, copies) ==
  /\ result' = [result EXCEPT ![w] = [event |-> e, outcome |-> outcome]]
  /\ delivered' = [delivered EXCEPT ![e] = @ + copies]

\* publisher.Publish, for the next event in the order RETURNING gave, which
\* SQL leaves open.
Publish(w) ==
  /\ pc[w] = "publish"
  /\ \E e \in batch[w] :
       \/ Answer(w, e, "ok", 1)
       \/ /\ events[e].val.attempts <= MaxFailures
          /\ \E copies \in {0, 1} : Answer(w, e, "error", copies)
  /\ pc' = [pc EXCEPT ![w] = "mark"]
  /\ UNCHANGED <<events, batch, now, abandons>>

\* WHERE status = 'IN_PROGRESS'
Markable(e) == events[e].val.status = "IN_PROGRESS"

\* Mutant: the error of Publish is not looked at.
MarkAsPublished(ev, outcome) == MarkPublished(ev)

\* MarkEventPublished or MarkEventFailed, as Publish has returned
Marked(ev, outcome) ==
  IF outcome = "ok" THEN MarkPublished(ev) ELSE MarkFailed(ev, now + RetryDelay)

\* The rest of the batch is dropped with its rows IN_PROGRESS.
Drop(w) ==
  /\ pc' = [pc EXCEPT ![w] = "idle"]
  /\ batch' = [batch EXCEPT ![w] = {}]
  /\ result' = [result EXCEPT ![w] = None]
  /\ UNCHANGED <<events, delivered, now>>

\* A mark that finds no row returns ErrEventNotFound, which ends the batch.
MarkEvent(w) ==
  /\ pc[w] = "mark"
  /\ LET e == result[w].event IN
     IF Markable(e)
     THEN /\ events' = [events EXCEPT ![e] =
                          Unlocked(Marked(events[e].val, result[w].outcome))]
          /\ batch' = [batch EXCEPT ![w] = @ \ {e}]
          /\ pc' = [pc EXCEPT ![w] = IF batch[w] = {e} THEN "idle" ELSE "publish"]
          /\ result' = [result EXCEPT ![w] = None]
          /\ UNCHANGED <<delivered, now>>
     ELSE Drop(w)
  /\ UNCHANGED abandons

\* The process dies, its context is cancelled (Publish and the marks then
\* fail at once), or a mark returns a database error.
Abandon(w) ==
  /\ pc[w] \in {"publish", "mark"}
  /\ abandons < MaxAbandons
  /\ abandons' = abandons + 1
  /\ Drop(w)

Waiting == \E e \in Events : /\ HasClaimableStatus(events[e])
                             /\ events[e].val.availableAt > now

Tick ==
  /\ now < MaxTime \/ Waiting
  /\ now' = now + 1
  /\ UNCHANGED <<events, delivered, pc, batch, result, abandons>>

-----------------------------------------------------------------------------
Init ==
  /\ events    = [e \in Events |-> Unlocked(None)]
  /\ delivered = [e \in Events |-> 0]
  /\ pc        = [w \in Workers |-> "idle"]
  /\ batch     = [w \in Workers |-> {}]
  /\ result    = [w \in Workers |-> None]
  /\ now = 0
  /\ abandons = 0

Step(w) == Publish(w) \/ MarkEvent(w)

Next ==
  \/ Tick
  \/ \E e \in Events, t \in 0..now : CreateEvent(e, t)
  \/ \E w \in Workers : \/ ClaimPendingEvents(w) \/ CommitClaim(w) \/ RollbackClaim(w)
                        \/ Step(w) \/ Abandon(w)

Spec == Init /\ [][Next]_vars

\* The worker polls forever and time passes.  A claim does not fail forever
\* (SF: it is retried at every poll), nor does the broker (MaxFailures).
Fairness ==
  /\ WF_vars(Tick)
  /\ \A w \in Workers : /\ WF_vars(ClaimPendingEvents(w)) /\ SF_vars(CommitClaim(w))
                        /\ WF_vars(Step(w))

FairSpec == Spec /\ Fairness

-----------------------------------------------------------------------------
(* Properties.                                                             *)

\* Every variable has its type.
TypeOK ==
  /\ events    \in [Events -> RowOf(Event \cup {None}, Workers)]
  /\ delivered \in [Events -> Nat]
  /\ pc        \in [Workers -> Labels]
  /\ batch     \in [Workers -> SUBSET Events]
  /\ result    \in [Workers -> Result \cup {None}]
  /\ now       \in Nat
  /\ abandons  \in Nat

\* At least once: an event marked PUBLISHED has reached the broker.
PublishedDelivered ==
  \A e \in Events :
    events[e].val # None /\ events[e].val.status = "PUBLISHED" => delivered[e] > 0

\* The broker has no more copies of an event than it was claimed times:
\* no two workers ever publish under the same claim, and none publishes
\* before its claim is committed.
CopiesWithinAttempts ==
  \A e \in Events :
    delivered[e] <= IF events[e].val = None THEN 0 ELSE events[e].val.attempts

\* A worker that has committed its claim is the only one to hold the event,
\* and the event stays IN_PROGRESS: the status guard of the two marks never
\* turns it away.
ClaimExclusive ==
  \A w \in Workers : pc[w] \in {"publish", "mark"} =>
    \A e \in batch[w] : /\ Markable(e)
                        /\ \A v \in Workers \ {w} : e \notin batch[v]

IsPublished(e) == events[e].val # None /\ events[e].val.status = "PUBLISHED"

\* Every committed event is published in the end, whatever the broker does
\* to its first attempts and whatever becomes of the workers.
EventuallyPublished == \A e \in Events : events[e].val # None ~> IsPublished(e)

\* A batch was given up, and with it event e: IN_PROGRESS and in no batch.
LeftBehind(e) ==
  /\ abandons > 0
  /\ events[e].val # None /\ Markable(e)
  /\ \A w \in Workers : e \notin batch[w]

\* Retries reach every event but the ones a worker gave up on: failed
\* publishes (MarkEventFailed), claims rolled back and batches the other
\* worker has taken keep no event from being published.  (Stated of all
\* events at once: there are finitely many, and both fates are final.)
BacklogDrains ==
  []<>(\A e \in Events : events[e].val # None => IsPublished(e) \/ LeftBehind(e))

-----------------------------------------------------------------------------
(* The queue.                                                              *)

\* A worker has this answer for e and has not marked e yet.
HasAnswer(e, outcome) ==
  \E w \in Workers : pc[w] = "mark" /\ result[w] = [event |-> e, outcome |-> outcome]

\* Where an event of the outbox is in the queue of AtLeastOnce.
Phase(e) ==
  IF HasClaimableStatus(events[e]) THEN "waiting"
  ELSE IF IsPublished(e) THEN "published"
  ELSE IF HasAnswer(e, "ok") THEN "acknowledged"
  ELSE IF HasAnswer(e, "error") THEN "refused"
  ELSE IF \E w \in Workers : e \in batch[w] THEN "taken"
  ELSE "lost"

\* A committed event, with what the workers have in hand of it.
Queued(e) ==
  IF events[e].val = None
  THEN [state |-> "absent", due |-> 0, takes |-> 0]
  ELSE [state |-> Phase(e), due |-> events[e].val.availableAt, takes |-> events[e].val.attempts]

Abstract ==
  INSTANCE AtLeastOnce WITH
    queue  <- [e \in Events |-> Queued(e)],
    copies <- delivered

\* The workers together are one queue: a claim takes its batch at the COMMIT,
\* all of it and nobody else's; each event is sent once per claim, and is
\* marked as the broker answered for it; only a worker that gives up loses
\* events, those it has in hand.
ImplementsQueue == Abstract!Spec
=============================================================================
