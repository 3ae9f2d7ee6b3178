------------------------------- MODULE Ledger -------------------------------
(***************************************************************************)
(* What the payment service promises, with every operation one atomic      *)
(* step: payer accounts and a book of payments.  Module Payments, where an *)
(* operation is a transaction of many statements that interleave with      *)
(* others, fail and deadlock, implements it (Payments!ImplementsLedger).   *)
(*                                                                         *)
(* One thing it does not promise is that a payment has a single outcome:   *)
(* the service checks the status of the payment it has read, not of the    *)
(* one it overwrites, which is action Recapture.                           *)
(***************************************************************************)
EXTENDS Integers, FiniteSets, Functions

CONSTANTS
  None, Payers, PaymentIDs,
  Amounts, Openings,  \* amounts asked for, opening balances
  AuthorizationTTL,   \* how long a payment can be captured
  ExpiryLimit         \* payments one expiry may take

VARIABLES
  accounts,  \* payer id -> available and held balance, version
  book,      \* payment id -> payment
  now

lvars == <<accounts, book, now>>

\* A payer opens an account with what it brings.
Open(x, balance) ==
  /\ accounts[x] = None
  /\ balance >= 0
  /\ accounts' = [accounts EXCEPT ![x] = [available |-> balance, held |-> 0, version |-> 0]]
  /\ UNCHANGED <<book, now>>

\* Balances after moving the amounts in one or more operations.
Moved(r, available, held, operations) ==
  [available |-> r.available + available, held |-> r.held + held,
   version |-> r.version + operations]

\* A new payment reserves funds the payer has, for AuthorizationTTL from
\* some instant t of the call.
Authorize(q, x, amount, t) ==
  /\ book[q] = None /\ accounts[x] # None
  /\ 0 < amount /\ amount <= accounts[x].available
  /\ accounts' = [accounts EXCEPT ![x] = Moved(@, -amount, amount, 1)]
  /\ book' = [book EXCEPT ![q] =
                [payer |-> x, amount |-> amount, status |-> "AUTHORIZED",
                 expiresAt |-> t + AuthorizationTTL, capturedAt |-> None]]
  /\ UNCHANGED now

\* The amount of q leaves the held balance; q was captured at t, in time.
TakeHeld(q, t) ==
  /\ t <= book[q].expiresAt
  /\ book[q].amount <= accounts[book[q].payer].held
  /\ accounts' = [accounts EXCEPT ![book[q].payer] = Moved(@, 0, -book[q].amount, 1)]
  /\ book' = [book EXCEPT ![q] = [@ EXCEPT !.status = "CAPTURED", !.capturedAt = t]]
  /\ UNCHANGED now

Capture(q, t)   == book[q] # None /\ book[q].status = "AUTHORIZED" /\ TakeHeld(q, t)
Recapture(q, t) == book[q] # None /\ book[q].status # "AUTHORIZED" /\ TakeHeld(q, t)

\* The payments of S that payer x has made, and what they add up to
Of(x, S)    == {q \in S : book[q].payer = x}
Total(x, S) == SumFunction([q \in Of(x, S) |-> book[q].amount])

\* Open payments whose time is up give their funds back, all of them together.
Expire(S) ==
  /\ S # {} /\ Cardinality(S) <= ExpiryLimit
  /\ \A q \in S : book[q] # None /\ book[q].status = "AUTHORIZED" /\ book[q].expiresAt <= now
  /\ \A x \in Payers : Of(x, S) # {} => Total(x, S) <= accounts[x].held
  /\ accounts' = [x \in Payers |->
                    IF Of(x, S) = {} THEN accounts[x]
                    ELSE Moved(accounts[x], Total(x, S), -Total(x, S), Cardinality(Of(x, S)))]
  /\ book' = [q \in PaymentIDs |->
                IF q \in S THEN [book[q] EXCEPT !.status = "EXPIRED"] ELSE book[q]]
  /\ UNCHANGED now

Tick == now' = now + 1 /\ UNCHANGED <<accounts, book>>

Init ==
  /\ accounts = [x \in Payers |-> None]
  /\ book = [q \in PaymentIDs |-> None]
  /\ now = 0

Next ==
  \/ Tick
  \/ \E x \in Payers, balance \in Openings : Open(x, balance)
  \/ \E q \in PaymentIDs, t \in 0..now :
       \/ \E x \in Payers, amount \in Amounts : Authorize(q, x, amount, t)
       \/ Capture(q, t) \/ Recapture(q, t)
  \/ \E S \in SUBSET PaymentIDs : Expire(S)

Spec == Init /\ [][Next]_lvars
=============================================================================
