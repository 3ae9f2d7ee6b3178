------------------------- MODULE RateLimiterProofs --------------------------
(***************************************************************************)
(* Theorems about RateLimiter, for any limit, window, clients and          *)
(* requests, with failed commands and vanished requests anywhere.          *)
(***************************************************************************)
EXTENDS RateLimiter, TLAPS

-----------------------------------------------------------------------------
(* The inductive invariant.                                                *)

\* The request created the key of c and has still to set its expiry.
Creating(p, c) == pc[p] = "expire" /\ client[p] = c

\* A key that does not exist has no expiry, and of its requests no more got
\* through than were counted, or than the limit allows.
KeyCounted(c) ==
  /\ count[c] = 0 => ttl[c] = None
  /\ admitted[c] <= count[c] /\ admitted[c] <= Limit

\* A key is created by one request.  As long as that one has neither sent
\* EXPIRE nor failed, the key has no expiry, so it cannot go away and be
\* created again, and there is room for that request.
KeyCreated(p, c) ==
  Creating(p, c) =>
    /\ got[p] = 1 /\ count[c] >= 1 /\ ttl[c] = None
    /\ admitted[c] <= count[c] - 1 /\ admitted[c] <= Limit - 1
    /\ \A q \in Requests \ {p} : ~Creating(q, c)

WindowInv ==
  /\ TypeOK
  /\ \A c \in Clients : KeyCounted(c)
  /\ \A p \in Requests, c \in Clients : KeyCreated(p, c)

-----------------------------------------------------------------------------
(* Its proof.                                                              *)

\* Every command leaves every variable with its type.
LEMMA TypeStep == WindowInv /\ [Next]_vars => TypeOK'
<1> SUFFICES ASSUME WindowInv, [Next]_vars PROVE TypeOK'
    OBVIOUS
<1> USE ConstantsAssumption, NoneAssumption DEF WindowInv, TypeOK
<1>1. CASE Tick
  <2>1. ASSUME NEW c \in Clients, ttl[c] # None, ttl[c] # 1 PROVE ttl[c] - 1 \in 1..Window
    <3>1. ttl[c] \in 1..Window
      BY <2>1
    <3> QED BY <2>1, <3>1
  <2>2. ttl' \in [Clients -> 1..Window \cup {None}]
    BY <1>1, <2>1 DEF Tick, Expiring
  <2> QED BY <1>1, <2>2 DEF Tick
<1>2. ASSUME NEW p \in Requests, NEW c \in Clients, Incr(p, c) PROVE TypeOK'
  <2>1. count[c] + 1 \in Nat
    OBVIOUS
  <2>2. admitted' \in [Clients -> Nat]
    BY <1>2 DEF Incr, Admit
  <2> QED BY <1>2, <2>1, <2>2 DEF Incr
<1>3. ASSUME NEW p \in Requests, SetExpiry(p) PROVE ttl' \in [Clients -> 1..Window \cup {None}]
  BY <1>3 DEF SetExpiry
<1>4. ASSUME NEW p \in Requests, NEW c \in Clients, Fail(p, c) PROVE TypeOK'
  <2>1. failures' \in Nat /\ count' \in [Clients -> Nat]
    BY <1>4 DEF Fail
  <2>2. ttl' \in [Clients -> 1..Window \cup {None}]
    BY <1>3, <1>4 DEF Fail
  <2> QED BY <1>4, <2>1, <2>2 DEF Fail
<1>5. ASSUME NEW p \in Requests, Expire(p) PROVE TypeOK'
  <2>1. admitted' \in [Clients -> Nat]
    BY <1>5 DEF Expire, Admit
  <2> QED BY <1>3, <1>5, <2>1 DEF Expire
<1>6. CASE UNCHANGED vars
  BY <1>6 DEF vars
<1> QED BY <1>1, <1>2, <1>4, <1>5, <1>6 DEF Next

\* What is said of a client is kept by a step that leaves its key and its
\* admissions alone and has no request of it begin to create a key.
LEMMA OtherClient ==
  ASSUME NEW c \in Clients, KeyCounted(c), \A p \in Requests : KeyCreated(p, c),
         count'[c] = count[c], ttl'[c] = ttl[c], admitted'[c] = admitted[c],
         \A p \in Requests : Creating(p, c)' => Creating(p, c) /\ got'[p] = got[p]
  PROVE  KeyCounted(c)' /\ \A p \in Requests : KeyCreated(p, c)'
<1>1. KeyCounted(c)'
  BY DEF KeyCounted
<1>2. ASSUME NEW p \in Requests PROVE KeyCreated(p, c)'
  BY <1>2 DEF KeyCreated
<1> QED BY <1>1, <1>2

\* The invariant is kept by every command, failure and tick.
LEMMA WindowStep == WindowInv /\ [Next]_vars => WindowInv'
<1> SUFFICES ASSUME WindowInv, [Next]_vars, NEW c \in Clients
             PROVE  KeyCounted(c)' /\ \A p \in Requests : KeyCreated(p, c)'
    BY TypeStep DEF WindowInv
<1>0. TypeOK /\ KeyCounted(c) /\ \A p \in Requests : KeyCreated(p, c)
  BY DEF WindowInv
<1>t. /\ count[c] \in Nat /\ admitted[c] \in Nat /\ Limit \in Nat \ {0}
      /\ None \notin 1..Window /\ ttl[c] \in 1..Window \cup {None} /\ Window \in Nat \ {0}
  BY <1>0, ConstantsAssumption, NoneAssumption DEF TypeOK
<1>1. CASE Tick
  <2>1. \A p \in Requests : /\ Creating(p, c)' <=> Creating(p, c)
                            /\ got'[p] = got[p]
    BY <1>1 DEF Tick, Creating
  <2>2. CASE ttl[c] = 1
    <3>1. count'[c] = 0 /\ ttl'[c] = None /\ admitted'[c] = 0
      BY <1>1, <2>2 DEF Tick, Expiring
    <3>2. \A p \in Requests : ~Creating(p, c)
      BY <1>0, <1>t, <2>2 DEF KeyCreated
    <3> QED BY <1>t, <2>1, <3>1, <3>2 DEF KeyCounted, KeyCreated
  <2>3. CASE ttl[c] # 1
    <3>1. /\ count'[c] = count[c] /\ admitted'[c] = admitted[c]
          /\ ttl[c] = None => ttl'[c] = None
      BY <1>1, <2>3 DEF Tick, Expiring
    <3> QED BY <1>0, <2>1, <3>1 DEF KeyCounted, KeyCreated
  <2> QED BY <2>2, <2>3
<1>2. ASSUME NEW r \in Requests, NEW d \in Clients, Incr(r, d)
      PROVE  KeyCounted(c)' /\ \A p \in Requests : KeyCreated(p, c)'
  <2>1. /\ pc[r] = "idle" /\ ttl' = ttl
        /\ \A p \in Requests \ {r} : /\ Creating(p, c)' <=> Creating(p, c)
                                     /\ got'[p] = got[p]
    BY <1>0, <1>2 DEF Incr, Creating, TypeOK
  <2>2. CASE d # c
    <3>1. ~Creating(r, c)'
      BY <1>0, <1>2, <2>2 DEF Incr, Creating, TypeOK
    <3>2. count'[c] = count[c] /\ admitted'[c] = admitted[c]
      BY <1>0, <1>2, <2>2 DEF Incr, Admit, TypeOK
    <3> QED BY <1>0, <2>1, <3>1, <3>2, OtherClient
  <2>3. CASE d = c /\ count[c] = 0
    <3>1. /\ count'[c] = 1 /\ admitted'[c] = admitted[c] /\ got'[r] = 1
          /\ Creating(r, c)'
      BY <1>0, <1>2, <2>3 DEF Incr, IsFirst, Creating, TypeOK
    <3>2. \A p \in Requests : ~Creating(p, c)
      BY <1>0, <1>t, <2>3 DEF KeyCreated
    <3>3. admitted[c] = 0 /\ ttl[c] = None
      BY <1>0, <1>t, <2>3 DEF KeyCounted
    <3> QED BY <1>t, <2>1, <3>1, <3>2, <3>3 DEF KeyCounted, KeyCreated
  <2>4. CASE d = c /\ count[c] # 0
    <3>1. /\ count'[c] = count[c] + 1 /\ ~Creating(r, c)'
          /\ admitted'[c] = admitted[c] + IF count[c] + 1 <= Limit THEN 1 ELSE 0
      BY <1>0, <1>t, <1>2, <2>4 DEF Incr, IsFirst, Admit, Allowed, Creating, TypeOK
    <3>2. KeyCounted(c)'
      BY <1>0, <1>t, <2>1, <2>4, <3>1 DEF KeyCounted
    <3>3. ASSUME NEW p \in Requests PROVE KeyCreated(p, c)'
      BY <1>0, <1>t, <2>1, <3>1 DEF KeyCreated
    <3> QED BY <3>2, <3>3
  <2> QED BY <2>2, <2>3, <2>4
<1>3. ASSUME NEW r \in Requests, Expire(r)
      PROVE  KeyCounted(c)' /\ \A p \in Requests : KeyCreated(p, c)'
  <2>1. /\ pc[r] = "expire" /\ count' = count /\ ~Creating(r, c)'
        /\ \A p \in Requests \ {r} : /\ Creating(p, c)' <=> Creating(p, c)
                                     /\ got'[p] = got[p]
    BY <1>0, <1>3 DEF Expire, Creating, TypeOK
  <2>2. CASE client[r] # c
    <3>1. ttl'[c] = ttl[c] /\ admitted'[c] = admitted[c]
      BY <1>0, <1>3, <2>2 DEF Expire, SetExpiry, Admit, TypeOK
    <3> QED BY <1>0, <2>1, <3>1, OtherClient
  <2>3. CASE client[r] = c
    <3>1. /\ got[r] = 1 /\ count[c] >= 1
          /\ admitted[c] <= count[c] - 1 /\ admitted[c] <= Limit - 1
          /\ \A p \in Requests : ~Creating(p, c)'
      BY <1>0, <2>1, <2>3 DEF KeyCreated, Creating
    <3>2. admitted'[c] = admitted[c] + 1
      BY <1>0, <1>t, <1>3, <2>3, <3>1 DEF Expire, Admit, Allowed, TypeOK
    <3> QED BY <1>t, <2>1, <3>1, <3>2 DEF KeyCounted, KeyCreated
  <2> QED BY <2>2, <2>3
<1>4. ASSUME NEW r \in Requests, NEW d \in Clients, Fail(r, d)
      PROVE  KeyCounted(c)' /\ \A p \in Requests : KeyCreated(p, c)'
  <2>1. /\ admitted' = admitted /\ ~Creating(r, c)'
        /\ \A p \in Requests \ {r} : /\ Creating(p, c)' <=> Creating(p, c)
                                     /\ got'[p] = got[p]
    BY <1>0, <1>4 DEF Fail, Creating, TypeOK
  <2>2. CASE pc[r] = "expire" /\ client[r] = c
    <3>1. count' = count /\ count[c] >= 1 /\ \A p \in Requests : ~Creating(p, c)'
      BY <1>0, <1>4, <2>1, <2>2 DEF Fail, KeyCreated, Creating
    <3> QED BY <1>0, <1>t, <2>1, <3>1 DEF KeyCounted, KeyCreated
  <2>3. CASE pc[r] = "expire" /\ client[r] # c
    <3>1. count' = count /\ ttl'[c] = ttl[c]
      BY <1>0, <1>4, <2>3 DEF Fail, SetExpiry, TypeOK
    <3> QED BY <1>0, <2>1, <3>1, OtherClient
  <2>4. CASE pc[r] # "expire"
    <3>1. ttl' = ttl /\ (count'[c] = count[c] \/ count'[c] = count[c] + 1)
      BY <1>0, <1>4, <2>4 DEF Fail, TypeOK
    <3>2. KeyCounted(c)'
      BY <1>0, <1>t, <2>1, <3>1 DEF KeyCounted
    <3>3. ASSUME NEW p \in Requests PROVE KeyCreated(p, c)'
      BY <1>0, <1>t, <2>1, <3>1 DEF KeyCreated
    <3> QED BY <3>2, <3>3
  <2> QED BY <2>2, <2>3, <2>4
<1>5. CASE UNCHANGED vars
  BY <1>0, <1>5 DEF vars, KeyCounted, KeyCreated, Creating
<1> QED BY <1>1, <1>2, <1>3, <1>4, <1>5 DEF Next

\* What WindowStep shows to be invariant.
LEMMA WindowsKept == Spec => []WindowInv
<1>1. Init => WindowInv
  BY ConstantsAssumption, NoneAssumption
  DEF Init, WindowInv, TypeOK, KeyCounted, KeyCreated, Creating
<1> QED BY <1>1, WindowStep, PTL DEF Spec

\* Every variable of the limiter has its type, for any clients and requests.
THEOREM RateLimiterTypeCorrect == Spec => []TypeOK
<1>1. WindowInv => TypeOK
  BY DEF WindowInv
<1> QED BY <1>1, WindowsKept, PTL

\* At most Limit requests of a client get through in one window of Allow,
\* whatever its requests do between INCR and EXPIRE.
THEOREM LimitKept == Spec => []AdmittedWithinLimit
<1>1. WindowInv => AdmittedWithinLimit
  BY DEF WindowInv, KeyCounted, AdmittedWithinLimit
<1> QED BY <1>1, WindowsKept, PTL

\* No request moves the end of a window: EXPIRE is sent by the request that
\* created the key only, and the key has no expiry before.
THEOREM WindowFixed == Spec => WindowNeverExtended
<1>1. WindowInv /\ [Next]_vars =>
        [\A c \in Clients : ttl[c] # None /\ ttl'[c] # None => ttl'[c] <= ttl[c]]_vars
  <2> SUFFICES ASSUME WindowInv, Next, NEW c \in Clients, ttl[c] # None, ttl'[c] # None
               PROVE  ttl'[c] <= ttl[c]
      OBVIOUS
  <2>0. /\ TypeOK /\ \A p \in Requests : KeyCreated(p, c)
        /\ ttl[c] \in 1..Window /\ Window \in Nat
    BY ConstantsAssumption DEF WindowInv, TypeOK
  <2>1. CASE Tick
    BY <2>0, <2>1 DEF Tick
  <2>2. ASSUME NEW p \in Requests, SetExpiry(p), pc[p] = "expire" PROVE ttl'[c] = ttl[c]
    <3>1. client[p] # c
      BY <2>0, <2>2 DEF KeyCreated, Creating
    <3> QED BY <2>0, <2>2, <3>1 DEF SetExpiry, TypeOK
  <2>3. ttl' = ttl \/ Tick \/ \E p \in Requests : SetExpiry(p) /\ pc[p] = "expire"
    BY DEF Next, Incr, Fail, Expire
  <2> QED BY <2>0, <2>1, <2>2, <2>3
<1> QED BY <1>1, WindowsKept, PTL DEF Spec, WindowNeverExtended
=============================================================================
