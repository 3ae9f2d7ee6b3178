------------------------------- MODULE OneShot -------------------------------
(***************************************************************************)
(* What an idempotency key promises: it belongs to the request that takes  *)
(* it, which is carried out once, and what is kept of its response is what *)
(* every retry of the same request is told.  Module Idempotency, where     *)
(* requests overlap, fail between any two statements and read a cache,     *)
(* implements it (Idempotency!ImplementsOneShot).                          *)
(*                                                                         *)
(* What it does not promise is that the response of a request that         *)
(* panicked is kept, nor, if it is, that it is the one its client got      *)
(* (Kept).                                                                 *)
(***************************************************************************)
EXTENDS Integers

CONSTANTS None, Keys, Hashes

VARIABLES
  taken,     \* key -> hash of the request it belongs to, or None
  carried,   \* key -> how often that has been carried out
  answered,  \* key -> what its client was answered, or None
  kept,      \* key -> the response kept for retries, or None
  told       \* key, request hash -> responses told to retries

ovars == <<taken, carried, answered, kept, told>>

Take(k, h) ==
  /\ taken[k] = None
  /\ taken' = [taken EXCEPT ![k] = h]
  /\ UNCHANGED <<carried, answered, kept, told>>

\* What can come of a request: done or not, with the answer to match, or
\* done with an answer that says otherwise.
Outcomes == {<<1, "created">>, <<0, "rejected">>, <<1, "rejected">>,
             <<0, "internal">>, <<1, "internal">>}

\* The request is carried out, once.
CarryOut(k, outcome) ==
  /\ taken[k] # None /\ answered[k] = None
  /\ carried' = [carried EXCEPT ![k] = @ + outcome[1]]
  /\ answered' = [answered EXCEPT ![k] = outcome[2]]
  /\ UNCHANGED <<taken, kept, told>>

\* What is kept of an answer: the one of a panic is not seen.
Kept(answer) == IF answer = "internal" THEN "blank" ELSE answer

Keep(k) ==
  /\ answered[k] # None /\ kept[k] = None
  /\ kept' = [kept EXCEPT ![k] = Kept(answered[k])]
  /\ UNCHANGED <<taken, carried, answered, told>>

\* A retry of the request the key belongs to.
Tell(k) ==
  /\ kept[k] # None
  /\ told' = [told EXCEPT ![k][taken[k]] = @ \cup {kept[k]}]
  /\ UNCHANGED <<taken, carried, answered, kept>>

Init ==
  /\ taken    = [k \in Keys |-> None]
  /\ carried  = [k \in Keys |-> 0]
  /\ answered = [k \in Keys |-> None]
  /\ kept     = [k \in Keys |-> None]
  /\ told     = [k \in Keys |-> [h \in Hashes |-> {}]]

Next ==
  \E k \in Keys :
    \/ \E h \in Hashes : Take(k, h)
    \/ \E outcome \in Outcomes : CarryOut(k, outcome)
    \/ Keep(k) \/ Tell(k)

Spec == Init /\ [][Next]_ovars
=============================================================================
