----------------------------- MODULE AtLeastOnce -----------------------------
(***************************************************************************)
(* What the outbox promises: a queue whose events are taken in batches,    *)
(* sent to the broker at most once per taking, and finished or put back    *)
(* as the broker has answered.  Module Outbox, where workers claim rows in *)
(* transactions and mark them by single statements, implements it          *)
(* (Outbox!ImplementsQueue).                                               *)
(*                                                                         *)
(* One thing it does not promise is that what is taken comes back: nothing *)
(* resets an event whose worker has given up, which is action Lose.        *)
(***************************************************************************)
EXTENDS Integers, FiniteSets

CONSTANTS
  Events,
  BatchSize,   \* events taken together
  RetryDelay   \* how long an event the broker has refused stays away

VARIABLES
  queue,   \* event id -> its state, when it is due, how often it was taken
  copies,  \* event id -> copies of it the broker has
  now

qvars == <<queue, copies, now>>

\* An event nobody has put into the queue.
Absent == [state |-> "absent", due |-> 0, takes |-> 0]

\* Event e, which is in one of these states, changes its state.
Goes(e, from, to) ==
  /\ queue[e].state \in from
  /\ queue' = [queue EXCEPT ![e] = [@ EXCEPT !.state = to]]

Put(e, t) ==
  /\ queue[e] = Absent
  /\ queue' = [queue EXCEPT ![e] = [state |-> "waiting", due |-> t, takes |-> 0]]
  /\ UNCHANGED <<copies, now>>

\* All events of a batch are taken together, each of them due.
Take(S) ==
  /\ S # {} /\ Cardinality(S) <= BatchSize
  /\ \A e \in S : queue[e].state = "waiting" /\ queue[e].due <= now
  /\ queue' = [e \in Events |->
                 IF e \in S
                 THEN [state |-> "taken", due |-> queue[e].due, takes |-> queue[e].takes + 1]
                 ELSE queue[e]]
  /\ UNCHANGED <<copies, now>>

\* The broker has what it acknowledges, and may have what it refuses.
Send(e, answer, n) ==
  /\ answer = "acknowledged" => n = 1
  /\ Goes(e, {"taken"}, answer)
  /\ copies' = [copies EXCEPT ![e] = @ + n]
  /\ UNCHANGED now

Finish(e) == Goes(e, {"acknowledged"}, "published") /\ UNCHANGED <<copies, now>>

\* A refused event is due again after RetryDelay.
Retry(e) ==
  /\ queue[e].state = "refused"
  /\ queue' = [queue EXCEPT ![e] =
                 [state |-> "waiting", due |-> now + RetryDelay, takes |-> queue[e].takes]]
  /\ UNCHANGED <<copies, now>>

\* Events that have been taken are never dealt with.
Lose(S) ==
  /\ \A e \in S : queue[e].state \in {"taken", "acknowledged", "refused"}
  /\ queue' = [e \in Events |-> IF e \in S THEN [queue[e] EXCEPT !.state = "lost"] ELSE queue[e]]
  /\ UNCHANGED <<copies, now>>

Tick == now' = now + 1 /\ UNCHANGED <<queue, copies>>

Init ==
  /\ queue = [e \in Events |-> Absent]
  /\ copies = [e \in Events |-> 0]
  /\ now = 0

Next ==
  \/ Tick
  \/ \E e \in Events : \/ \E t \in 0..now : Put(e, t)
                       \/ \E answer \in {"acknowledged", "refused"}, n \in {0, 1} : Send(e, answer, n)
                       \/ Finish(e) \/ Retry(e)
  \/ \E S \in SUBSET Events : Take(S) \/ Lose(S)

Spec == Init /\ [][Next]_qvars
=============================================================================
