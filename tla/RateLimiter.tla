---------------------------- MODULE RateLimiter -----------------------------
(***************************************************************************)
(* The fixed-window limiter in front of the payment routes:                *)
(* internal/ratelimit/adapters/redis and rateLimitMiddleware of            *)
(* internal/http.                                                          *)
(*                                                                         *)
(* A process is one request in the middleware.  INCR and EXPIRE are two    *)
(* Redis commands, so requests of one client interleave between them.      *)
(***************************************************************************)
EXTENDS Integers

CONSTANTS
  None,
  Requests,    \* requests that can be in the middleware together
  Clients,     \* client keys
  Limit,       \* requests allowed per window
  Window,      \* the window, in clock ticks
  MaxCount,    \* bound: the count a key may reach
  MaxFailures  \* bound: Redis commands that fail, requests that vanish

ASSUME ConstantsAssumption ==
  /\ Limit \in Nat \ {0} /\ Window \in Nat \ {0}
  /\ MaxCount \in Nat /\ MaxFailures \in Nat
  /\ Clients # {}

ASSUME NoneAssumption == None \notin 1..Window

VARIABLES
  count,    \* client -> value of its Redis key, 0 when the key does not exist
  ttl,      \* client -> ticks its key has left, None for a key without expiry
  pc,       \* request -> the command it is about to send
  client,   \* request -> the client it belongs to
  got,      \* request -> the count its INCR returned
  admitted, \* client -> history: requests let through since its key was created
  failures  \* failures so far

vars == <<count, ttl, pc, client, got, admitted, failures>>

\* Mutant: the comparison is off by one.
AllowedOneMore(n) == n - 1 <= Limit

\* Allowed: count <= limit
Allowed(n) == n <= Limit

\* The middleware passes a request with the n-th count on, or answers it 429.
Admit(c, n) ==
  admitted' = [admitted EXCEPT ![c] = @ + IF Allowed(n) THEN 1 ELSE 0]

\* Mutant: every request sets the expiry.
AlwaysFirst(n) == TRUE

\* if count == 1
IsFirst(n) == n = 1

\* Limiter.Allow: INCR, which keeps the expiry of an existing key.  The
\* first request of a window goes on to set it.
Incr(p, c) ==
  /\ pc[p] = "idle"
  /\ count[c] < MaxCount
  /\ count' = [count EXCEPT ![c] = @ + 1]
  /\ client' = [client EXCEPT ![p] = c]
  /\ got' = [got EXCEPT ![p] = count[c] + 1]
  /\ IF IsFirst(count[c] + 1)
     THEN pc' = [pc EXCEPT ![p] = "expire"] /\ UNCHANGED admitted
     ELSE Admit(c, count[c] + 1) /\ UNCHANGED pc
  /\ UNCHANGED <<ttl, failures>>

\* Mutant: EXPIRE is skipped for the first request.
NoExpiry(p) == UNCHANGED ttl

\* Mutant: EXPIRE with a TTL of zero or less deletes the key.
ExpireAtZero(p) == ttl' = [ttl EXCEPT ![client[p]] = 0]

\* EXPIRE key window; on a key that is gone it does nothing.
SetExpiry(p) ==
  ttl' = [ttl EXCEPT ![client[p]] = IF count[client[p]] > 0 THEN Window ELSE None]

Expire(p) ==
  /\ pc[p] = "expire"
  /\ SetExpiry(p)
  /\ Admit(client[p], got[p])
  /\ pc' = [pc EXCEPT ![p] = "idle"]
  /\ UNCHANGED <<count, client, got, failures>>

\* INCR or EXPIRE returns an error (the middleware fails closed with 503), or
\* the request is gone.  A command that failed may have been carried out (an
\* INCR that was not leaves nothing to model).
Fail(p, c) ==
  /\ failures < MaxFailures
  /\ failures' = failures + 1
  /\ \/ /\ pc[p] = "expire"
        /\ SetExpiry(p) \/ UNCHANGED ttl
        /\ UNCHANGED count
     \/ /\ pc[p] = "idle"
        /\ count' = [count EXCEPT ![c] = @ + 1]
        /\ UNCHANGED ttl
  /\ pc' = [pc EXCEPT ![p] = "idle"]
  /\ UNCHANGED <<client, got, admitted>>

Expiring == {c \in Clients : ttl[c] = 1}

\* Time passes; Redis drops the keys whose time is up.
Tick ==
  /\ \E c \in Clients : ttl[c] # None
  /\ count' = [c \in Clients |-> IF c \in Expiring THEN 0 ELSE count[c]]
  /\ ttl' = [c \in Clients |-> IF c \in Expiring \/ ttl[c] = None THEN None ELSE ttl[c] - 1]
  /\ admitted' = [c \in Clients |-> IF c \in Expiring THEN 0 ELSE admitted[c]]
  /\ UNCHANGED <<pc, client, got, failures>>

Init ==
  /\ count = [c \in Clients |-> 0]
  /\ ttl = [c \in Clients |-> None]
  /\ pc = [p \in Requests |-> "idle"]
  /\ client = [p \in Requests |-> CHOOSE c \in Clients : TRUE]
  /\ got = [p \in Requests |-> 0]
  /\ admitted = [c \in Clients |-> 0]
  /\ failures = 0

Next ==
  \/ Tick
  \/ \E p \in Requests, c \in Clients : Incr(p, c) \/ Fail(p, c)
  \/ \E p \in Requests : Expire(p)

Spec == Init /\ [][Next]_vars

\* Time passes, and a request that has sent INCR goes on to send EXPIRE.
FairSpec == Spec /\ WF_vars(Tick) /\ \A p \in Requests : WF_vars(Expire(p))

-----------------------------------------------------------------------------
(* Properties.                                                             *)

\* Every variable has its type, and a time to live is never zero.
TypeOK ==
  /\ count    \in [Clients -> Nat]
  /\ ttl      \in [Clients -> 1..Window \cup {None}]
  /\ pc       \in [Requests -> {"idle", "expire"}]
  /\ client   \in [Requests -> Clients]
  /\ got      \in [Requests -> Nat]
  /\ admitted \in [Clients -> Nat]
  /\ failures \in Nat

\* However the requests of a client interleave, no more than Limit of them
\* get through between two expiries of its key.
AdmittedWithinLimit == \A c \in Clients : admitted[c] <= Limit

\* The window is fixed: once a key has its expiry, no request of the client,
\* allowed or not, moves it further away.
WindowNeverExtended ==
  [][\A c \in Clients : ttl[c] # None /\ ttl'[c] # None => ttl'[c] <= ttl[c]]_vars

\* A client's key goes away: one that has used up its window gets another.
KeyExpires == \A c \in Clients : count[c] > 0 ~> count[c] = 0

\* A key that lives on has lost its EXPIRE to a failure: requests that come
\* between INCR and EXPIRE, or after the limit, never keep it alive.
KeyExpiresUnlessLost ==
  \A c \in Clients : count[c] > 0 ~> count[c] = 0 \/ (ttl[c] = None /\ failures > 0)
=============================================================================
