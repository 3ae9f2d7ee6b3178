------------------------- MODULE IdempotencyProofs --------------------------
(***************************************************************************)
(* Theorems about Idempotency, for any number of requests and keys, with   *)
(* requests gone, panics and evictions anywhere.                           *)
(***************************************************************************)
EXTENDS Idempotency, TLAPS

-----------------------------------------------------------------------------
(* The inductive invariants.                                               *)

\* A request that has inserted the record of its key and still deals with it
Owning == Working \cup {"set_response"}

\* What a request relies on at its next statement: it has a key, and past
\* CreateRecord the key has a record.
RequestReady(p) ==
  pc[p] # "idle" =>
    /\ loc[p].key \in Keys /\ loc[p].hash \in Hashes
    /\ pc[p] # "create" => records[loc[p].key] # None
    /\ pc[p] \in {"read_record", "update_record"} => loc[p].response \in Responses

\* The record of a key is in the hands of the request that inserted it, which
\* alone can complete it; others only read it once it is COMPLETED.
RecordHeld(p) ==
  /\ pc[p] \in Owning => \A r \in Requests \ {p} : pc[r] \in Owning => loc[r].key # loc[p].key
  /\ pc[p] \in Working => records[loc[p].key].status = "IN_PROGRESS"
  /\ pc[p] = "update_record" => loc[p].rec = Complete(records[loc[p].key], loc[p].response)
  /\ pc[p] \in {"get_response", "set_response"} =>
       /\ loc[p].rec = records[loc[p].key]
       /\ loc[p].rec.status = "COMPLETED"
  /\ pc[p] = "get_response" => loc[p].rec.hash = loc[p].hash

\* A completed record has a response.
ResponseSet(k) == IsCompleted(k) => records[k].response \in Responses

RecordInv ==
  /\ TypeOK
  /\ \A p \in Requests : RequestReady(p) /\ RecordHeld(p)
  /\ \A k \in Keys : ResponseSet(k)

\* Nothing has been done for a key before the service call of the request
\* that inserted its record.
Untouched(k) == mutations[k] = 0 /\ answer[k] = None

MutationInv ==
  /\ AtMostOneMutation
  /\ \A k \in Keys : records[k] = None => Untouched(k)
  /\ \A p \in Requests : pc[p] = "serve" => Untouched(loc[p].key)

\* A response is the answer of the handler, or what the recorder has of a panic.
Answers(k, response) ==
  answer[k] = response \/ (Panicked(k) /\ response = "blank")

\* What is cached, replayed, stored or about to be stored for a key is the
\* answer of the handler that did the work, unless the service panicked and
\* the store takes the response of that.
Answered(k) ==
  /\ \A h \in Hashes : replayed[k][h] # {} =>
       IsCompleted(k) /\ records[k].hash = h /\ replayed[k][h] = {records[k].response}
  /\ IsCompleted(k) => Answers(k, records[k].response) /\ Storable(records[k])

AnswerInv ==
  /\ CacheAgreesWithRecord
  /\ \A k \in Keys : Answered(k)
  /\ \A p \in Requests : pc[p] \in {"read_record", "update_record"} =>
       Answers(loc[p].key, loc[p].response)

-----------------------------------------------------------------------------
(* Records.                                                                *)

\* The record methods return records.
LEMMA RecordMethods ==
  /\ \A h \in Hashes, t \in Int :
       /\ NewRecord(h, t) \in Record /\ NewRecord(h, t) # None
       /\ NewRecord(h, t).status = "IN_PROGRESS"
  /\ \A rec \in Record, response \in Responses :
       /\ Complete(rec, response) \in Record
       /\ Complete(rec, response).status = "COMPLETED"
       /\ Complete(rec, response).response = response
       /\ Complete(rec, response).hash = rec.hash
<1>1. ASSUME NEW h \in Hashes, NEW t \in Int
      PROVE  /\ NewRecord(h, t) \in Record /\ NewRecord(h, t) # None
             /\ NewRecord(h, t).status = "IN_PROGRESS"
  <2>1. t + TTL \in Int
    BY <1>1, ConstantsAssumption
  <2> QED BY <1>1, <2>1, NoneAssumption DEF NewRecord, Record
<1>2. ASSUME NEW rec \in Record, NEW response \in Responses
      PROVE  /\ Complete(rec, response) \in Record
             /\ Complete(rec, response).status = "COMPLETED"
             /\ Complete(rec, response).response = response
             /\ Complete(rec, response).hash = rec.hash
  BY <1>2 DEF Complete, Record
<1> QED BY <1>1, <1>2

\* Locals stay locals when a record or a response is put into them.
LEMMA LocalUpdates ==
  /\ \A l \in Local, rec \in Record : [l EXCEPT !.rec = rec] \in Local
  /\ \A l \in Local, response \in Responses : [l EXCEPT !.response = response] \in Local
<1>1. ASSUME NEW l \in Local, NEW rec \in Record PROVE [l EXCEPT !.rec = rec] \in Local
  BY DEF Local
<1>2. ASSUME NEW l \in Local, NEW response \in Responses PROVE [l EXCEPT !.response = response] \in Local
  BY DEF Local
<1> QED BY <1>1, <1>2

\* A step of p that takes its locals and its statement only, and of the
\* records at most the one of its key, which is new or which p works on,
\* leaves every other request what it relies on.
LEMMA OtherRequest ==
  ASSUME RecordInv, NEW p \in Requests, NEW r \in Requests \ {p},
         pc'[r] = pc[r], loc'[r] = loc[r],
         \/ records' = records
         \/ /\ (pc[p] = "create" /\ records[loc[p].key] = None) \/ pc[p] \in Working
            /\ \A k \in Keys \ {loc[p].key} : records'[k] = records[k]
            /\ records'[loc[p].key] # None
  PROVE  /\ RequestReady(r)'
         /\ pc[r] \in Working => records'[loc[r].key].status = "IN_PROGRESS"
         /\ pc[r] = "update_record" => loc[r].rec = Complete(records'[loc[r].key], loc[r].response)
         /\ pc[r] \in {"get_response", "set_response"} => loc[r].rec = records'[loc[r].key]
<1>0. RequestReady(p) /\ RequestReady(r) /\ RecordHeld(p) /\ RecordHeld(r)
  BY DEF RecordInv
<1>1. CASE records' = records
  BY <1>0, <1>1 DEF RequestReady, RecordHeld
<1>2. CASE /\ (pc[p] = "create" /\ records[loc[p].key] = None) \/ pc[p] \in Working
           /\ \A k \in Keys \ {loc[p].key} : records'[k] = records[k]
           /\ records'[loc[p].key] # None
  <2>1. CASE pc[r] # "idle" /\ loc[r].key = loc[p].key
    <3>1. pc[r] \notin Owning /\ pc[r] # "get_response"
      BY <1>0, <1>2, <2>1 DEF RequestReady, RecordHeld, Owning, Working
    <3> QED BY <1>0, <1>2, <2>1, <3>1 DEF RequestReady, Owning, Working
  <2>2. CASE pc[r] # "idle" /\ loc[r].key # loc[p].key
    <3>1. records'[loc[r].key] = records[loc[r].key]
      BY <1>0, <1>2, <2>2 DEF RequestReady
    <3> QED BY <1>0, <2>2, <3>1 DEF RequestReady, RecordHeld
  <2>3. CASE pc[r] = "idle"
    BY <2>3 DEF RequestReady, Working
  <2> QED BY <2>1, <2>2, <2>3
<1> QED BY <1>1, <1>2

\* The request that takes the step is in the same position, if it owns a
\* record then no other owns the same.
LEMMA AllHeld ==
  ASSUME RecordInv, NEW p \in Requests,
         \A r \in Requests \ {p} : pc'[r] = pc[r] /\ loc'[r] = loc[r],
         \/ records' = records
         \/ /\ (pc[p] = "create" /\ records[loc[p].key] = None) \/ pc[p] \in Working
            /\ \A k \in Keys \ {loc[p].key} : records'[k] = records[k]
            /\ records'[loc[p].key] # None,
         pc'[p] \in Owning => /\ loc'[p].key = loc[p].key
                              /\ pc[p] \in Owning \/ (pc[p] = "create" /\ records[loc[p].key] = None),
         RequestReady(p)',
         pc'[p] \in Working => records'[loc'[p].key].status = "IN_PROGRESS",
         pc'[p] = "update_record" => loc'[p].rec = Complete(records'[loc'[p].key], loc'[p].response),
         pc'[p] \in {"get_response", "set_response"} =>
           loc'[p].rec = records'[loc'[p].key] /\ loc'[p].rec.status = "COMPLETED",
         pc'[p] = "get_response" => loc'[p].rec.hash = loc'[p].hash
  PROVE  \A r \in Requests : RequestReady(r)' /\ RecordHeld(r)'
<1>1. ASSUME NEW r \in Requests \ {p}, pc'[r] \in Owning, pc'[p] \in Owning
      PROVE  loc'[r].key # loc'[p].key
  <2>1. (pc[r] \in Owning /\ loc[r].key # loc[p].key) \/ pc[p] \notin Owning
    BY <1>1 DEF RecordInv, RecordHeld
  <2>2. records[loc[r].key] # None
    BY <1>1 DEF RecordInv, RequestReady, Owning, Working
  <2> QED BY <1>1, <2>1, <2>2
<1>2. ASSUME NEW r \in Requests \ {p} PROVE RequestReady(r)' /\ RecordHeld(r)'
  <2>1. RecordHeld(r)
    BY DEF RecordInv
  <2>2. \A o \in Requests \ {r} : pc'[r] \in Owning /\ pc'[o] \in Owning => loc'[o].key # loc'[r].key
    BY <1>1, <2>1 DEF RecordHeld
  <2> QED BY <2>1, <2>2, OtherRequest DEF RecordHeld
<1>3. RecordHeld(p)'
  BY <1>1 DEF RecordHeld
<1> QED BY <1>2, <1>3

\* Every statement leaves every variable with its type.
LEMMA TypeStep == RecordInv /\ [Next]_vars => TypeOK'
<1> SUFFICES ASSUME RecordInv, [Next]_vars PROVE TypeOK'
    OBVIOUS
<1>0. TypeOK /\ \A p \in Requests : RequestReady(p) /\ RecordHeld(p)
  BY DEF RecordInv
<1> USE ConstantsAssumption, NoneAssumption DEF TypeOK
<1>1. CASE Tick
  BY <1>0, <1>1 DEF Tick, history
<1>2. ASSUME NEW k \in Keys, NEW h \in Hashes, Evict(k, h) PROVE TypeOK'
  BY <1>0, <1>2 DEF Evict, history
<1>3. ASSUME NEW p \in Requests, NEW k \in Keys, NEW h \in Hashes, Arrive(p, k, h) PROVE TypeOK'
  <2>1. [NoRequest EXCEPT !.key = k, !.hash = h, !.start = now] \in Local
    <3>1. now \in Int
      BY <1>0
    <3> QED BY <3>1 DEF Local, NoRequest
  <2>2. loc' \in [Requests -> Local]
    BY <1>0, <1>3, <2>1 DEF Arrive
  <2> QED BY <1>0, <1>3, <2>2 DEF Arrive, history, GoTo, Labels
<1>4. ASSUME NEW p \in Requests, CreateRecord(p) PROVE TypeOK'
  <2>1. NewRecord(loc[p].hash, loc[p].start) \in Record
    BY <1>0, <1>4, RecordMethods DEF CreateRecord, RequestReady, Local
  <2>2. records' \in [Keys -> Record \cup {None}]
    BY <1>0, <1>4, <2>1 DEF CreateRecord
  <2>3. pc' \in [Requests -> Labels]
    BY <1>0, <1>4 DEF CreateRecord, GoTo, Labels
  <2> QED BY <1>0, <1>4, <2>2, <2>3 DEF CreateRecord, history
<1>5. ASSUME NEW p \in Requests, End(p) PROVE pc' \in [Requests -> Labels] /\ loc' \in [Requests -> Local]
  BY <1>0, <1>5 DEF End, GoTo, Labels, Local, NoRequest
<1>6. ASSUME NEW p \in Requests, LookUp(p) PROVE TypeOK'
  <2>1. CASE End(p)
    BY <1>0, <1>5, <1>6, <2>1 DEF LookUp, history
  <2>2. CASE ~End(p)
    <3>1. loc' = [loc EXCEPT ![p].rec = records[loc[p].key]] /\ GoTo(p, "get_response")
      BY <1>6, <2>2 DEF LookUp
    <3>2. records[loc[p].key] \in Record
      BY <1>0, <1>6 DEF LookUp, RequestReady
    <3>3. loc' \in [Requests -> Local]
      BY <1>0, <3>1, <3>2, LocalUpdates
    <3> QED BY <1>0, <1>6, <3>1, <3>3 DEF LookUp, history, GoTo, Labels
  <2> QED BY <2>1, <2>2
<1>7. ASSUME NEW p \in Requests, GetResponse(p) PROVE TypeOK'
  <2>1. loc[p].key \in Keys /\ loc[p].hash \in Hashes
    BY <1>0, <1>7 DEF GetResponse, RequestReady
  <2>2. /\ loc[p].rec = records[loc[p].key] /\ records[loc[p].key] # None
        /\ records[loc[p].key].status = "COMPLETED"
    BY <1>0, <1>7 DEF GetResponse, RequestReady, RecordHeld
  <2>3. loc[p].rec \in Record /\ loc[p].rec.response \in Responses
    BY <1>0, <2>1, <2>2 DEF RecordInv, ResponseSet, IsCompleted
  <2>4. cache[loc[p].key][loc[p].rec.hash] \in Responses \cup {None}
    BY <1>0, <2>1, <2>3 DEF Record
  <2>5. Cached(loc[p].key, loc[p].rec.hash) \subseteq Responses
    BY <2>4 DEF Cached
  <2>6. PICK response \in Cached(loc[p].key, loc[p].rec.hash) \cup {loc[p].rec.response} :
          replayed' = [replayed EXCEPT ![loc[p].key][loc[p].hash] = @ \cup {response}]
    BY <1>7 DEF GetResponse
  <2>7. replayed' \in [Keys -> [Hashes -> SUBSET Responses]]
    BY <1>0, <2>1, <2>3, <2>5, <2>6
  <2> QED BY <1>0, <1>5, <1>7, <2>7 DEF GetResponse
<1>8. ASSUME NEW p \in Requests, Serve(p) PROVE TypeOK'
  <2>1. PICK outcome \in ServiceOutcomes :
          /\ mutations' = [mutations EXCEPT ![loc[p].key] = @ + outcome.commits]
          /\ answer' = [answer EXCEPT ![loc[p].key] = outcome.response]
          /\ loc' = [loc EXCEPT ![p].response = outcome.response]
    BY <1>8 DEF Serve
  <2>2. outcome.commits \in Nat /\ outcome.response \in Responses /\ loc[p].key \in Keys
    BY <1>0, <1>8 DEF ServiceOutcomes, Responses, Serve, RequestReady
  <2>3. mutations' \in [Keys -> Nat]
    BY <1>0, <2>1, <2>2
  <2>4. answer' \in [Keys -> Responses \cup {None}]
    BY <1>0, <2>1, <2>2
  <2>5. loc' \in [Requests -> Local]
    BY <1>0, <2>1, <2>2, LocalUpdates
  <2> QED BY <1>0, <1>8, <2>3, <2>4, <2>5 DEF Serve, GoTo, Labels
<1>9. ASSUME NEW p \in Requests, ServePanics(p) PROVE TypeOK'
  <2>1. panics' \in Nat
    BY <1>0, <1>9 DEF ServePanics
  <2>2. loc' \in [Requests -> Local]
    <3>1. "blank" \in Responses
      BY DEF Responses
    <3> QED BY <1>0, <1>9, <3>1, LocalUpdates DEF ServePanics
  <2>3. answer' \in [Keys -> Responses \cup {None}]
    BY <1>0, <1>9 DEF ServePanics, Responses
  <2>4. mutations' \in [Keys -> Nat]
    <3>1. PICK commits \in {0, 1} : mutations' = [mutations EXCEPT ![loc[p].key] = @ + commits]
      BY <1>9 DEF ServePanics
    <3>2. \A k \in Keys : mutations[k] + commits \in Nat
      BY <1>0
    <3> QED BY <1>0, <3>1, <3>2
  <2> QED BY <1>0, <1>9, <2>1, <2>2, <2>3, <2>4 DEF ServePanics, GoTo, Labels
<1>10. ASSUME NEW p \in Requests, ReadRecord(p) PROVE TypeOK'
  <2>1. CASE End(p)
    BY <1>0, <1>5, <1>10, <2>1 DEF ReadRecord, history
  <2>2. CASE ~End(p)
    <3>1. /\ loc' = [loc EXCEPT ![p].rec = Complete(records[loc[p].key], loc[p].response)]
          /\ GoTo(p, "update_record")
      BY <1>10, <2>2 DEF ReadRecord
    <3>2. records[loc[p].key] \in Record /\ loc[p].response \in Responses
      BY <1>0, <1>10 DEF ReadRecord, RequestReady
    <3>3. Complete(records[loc[p].key], loc[p].response) \in Record
      BY <3>2, RecordMethods
    <3>4. loc' \in [Requests -> Local]
      BY <1>0, <3>1, <3>3, LocalUpdates
    <3> QED BY <1>0, <1>10, <3>1, <3>4 DEF ReadRecord, history, GoTo, Labels
  <2> QED BY <2>1, <2>2
<1>11. ASSUME NEW p \in Requests, UpdateRecord(p) PROVE TypeOK'
  <2>1. loc[p].rec \in Record
    <3>1. records[loc[p].key] \in Record /\ loc[p].response \in Responses
      BY <1>0, <1>11 DEF UpdateRecord, RequestReady
    <3> QED BY <1>0, <1>11, <3>1, RecordMethods DEF UpdateRecord, RecordHeld
  <2>2. CASE Storable(loc[p].rec)
    BY <1>0, <1>11, <2>1, <2>2 DEF UpdateRecord, GoTo, history, Labels
  <2>3. CASE ~Storable(loc[p].rec)
    BY <1>0, <1>5, <1>11, <2>3 DEF UpdateRecord, history
  <2> QED BY <2>2, <2>3
<1>12. ASSUME NEW p \in Requests, SetResponse(p) PROVE TypeOK'
  <2>1. loc[p].rec \in Record /\ loc[p].key \in Keys
    BY <1>0, <1>12 DEF SetResponse, RequestReady, RecordHeld
  <2>2. loc[p].rec.response \in Responses \cup {None} /\ loc[p].rec.hash \in Hashes
    BY <2>1 DEF Record
  <2>3. [cache[loc[p].key] EXCEPT ![loc[p].rec.hash] = loc[p].rec.response]
          \in [Hashes -> Responses \cup {None}]
    BY <1>0, <2>1, <2>2
  <2>4. cache' \in [Keys -> [Hashes -> Responses \cup {None}]]
    BY <1>0, <1>12, <2>1, <2>3 DEF SetResponse
  <2> QED BY <1>0, <1>5, <1>12, <2>4 DEF SetResponse, history
<1>13. ASSUME NEW p \in Requests, Vanish(p) PROVE TypeOK'
  <2>1. orphaned' \subseteq Keys
    BY <1>0, <1>13 DEF Vanish, RequestReady
  <2> QED BY <1>0, <1>5, <1>13, <2>1 DEF Vanish
<1>14. CASE UNCHANGED vars
  BY <1>0, <1>14 DEF vars, history
<1> QED BY <1>1, <1>2, <1>3, <1>4, <1>6, <1>7, <1>8, <1>9, <1>10, <1>11, <1>12, <1>13, <1>14
        DEF Next, Step

\* A request that ends owns nothing any more.
LEMMA EndedRequest ==
  ASSUME RecordInv, NEW p \in Requests, End(p), records' = records
  PROVE  \A r \in Requests : RequestReady(r)' /\ RecordHeld(r)'
<1>1. pc'[p] = "idle" /\ \A r \in Requests \ {p} : pc'[r] = pc[r] /\ loc'[r] = loc[r]
  BY DEF End, GoTo, RecordInv, TypeOK
<1>2. RequestReady(p)'
  BY <1>1 DEF RequestReady
<1> QED BY <1>1, <1>2, AllHeld DEF Owning, Working

\* Only the request that inserted a record changes it, as long as it is
\* IN_PROGRESS.
LEMMA RecordStep == RecordInv /\ [Next]_vars => RecordInv'
<1> SUFFICES ASSUME RecordInv, [Next]_vars
             PROVE  /\ \A r \in Requests : RequestReady(r)' /\ RecordHeld(r)'
                    /\ \A k \in Keys : ResponseSet(k)'
    BY TypeStep DEF RecordInv
<1>0. /\ TypeOK /\ \A p \in Requests : RequestReady(p) /\ RecordHeld(p)
      /\ \A k \in Keys : ResponseSet(k)
  BY DEF RecordInv
<1> USE NoneAssumption
<1>a. records' = records => \A k \in Keys : ResponseSet(k)'
  BY <1>0 DEF ResponseSet, IsCompleted
<1>1. CASE Tick \/ UNCHANGED vars \/ \E k \in Keys, h \in Hashes : Evict(k, h)
  <2>1. UNCHANGED <<records, pc, loc>>
    BY <1>1 DEF Tick, vars, Evict
  <2> QED BY <1>0, <1>a, <2>1 DEF RequestReady, RecordHeld
<1>2. ASSUME NEW p \in Requests, NEW k \in Keys, NEW h \in Hashes, Arrive(p, k, h)
      PROVE  \A r \in Requests : RequestReady(r)' /\ RecordHeld(r)'
  <2>1. /\ records' = records /\ pc'[p] = "create"
        /\ \A r \in Requests \ {p} : pc'[r] = pc[r] /\ loc'[r] = loc[r]
        /\ loc'[p] = [NoRequest EXCEPT !.key = k, !.hash = h, !.start = now]
    BY <1>0, <1>2 DEF Arrive, GoTo, TypeOK
  <2>2. loc'[p].key = k /\ loc'[p].hash = h
    BY <2>1 DEF NoRequest
  <2>3. RequestReady(p)'
    BY <2>1, <2>2 DEF RequestReady
  <2> QED BY <2>1, <2>3, AllHeld DEF Owning, Working
<1>3. ASSUME NEW p \in Requests, CreateRecord(p)
      PROVE  /\ \A r \in Requests : RequestReady(r)' /\ RecordHeld(r)'
             /\ \A k \in Keys : ResponseSet(k)'
  <2>1. /\ pc[p] = "create" /\ loc' = loc /\ loc[p].key \in Keys /\ loc[p].hash \in Hashes
        /\ loc[p].start \in Int
        /\ \A r \in Requests \ {p} : pc'[r] = pc[r]
    BY <1>0, <1>3 DEF CreateRecord, GoTo, TypeOK, RequestReady, Local
  <2>2. CASE records[loc[p].key] = None
    <3>1. /\ records' = [records EXCEPT ![loc[p].key] = NewRecord(loc[p].hash, loc[p].start)]
          /\ pc'[p] = "serve"
      BY <1>0, <1>3, <2>2 DEF CreateRecord, KeyIsFree, GoTo, TypeOK
    <3>2. /\ records'[loc[p].key] # None /\ records'[loc[p].key].status = "IN_PROGRESS"
          /\ \A k \in Keys \ {loc[p].key} : records'[k] = records[k]
      BY <1>0, <2>1, <3>1, RecordMethods DEF TypeOK
    <3>3. RequestReady(p)'
      BY <2>1, <3>1, <3>2 DEF RequestReady
    <3>4. \A k \in Keys : ResponseSet(k)'
      BY <1>0, <3>2 DEF ResponseSet, IsCompleted
    <3> QED BY <2>1, <2>2, <3>1, <3>2, <3>3, <3>4, AllHeld
  <2>3. CASE records[loc[p].key] # None
    <3>1. records' = records /\ pc'[p] = "lookup"
      BY <1>0, <1>3, <2>3 DEF CreateRecord, KeyIsFree, GoTo, TypeOK
    <3>2. RequestReady(p)'
      BY <2>1, <2>3, <3>1 DEF RequestReady
    <3> QED BY <1>a, <2>1, <3>1, <3>2, AllHeld DEF Owning, Working
  <2> QED BY <2>2, <2>3
<1>4. ASSUME NEW p \in Requests, LookUp(p)
      PROVE  \A r \in Requests : RequestReady(r)' /\ RecordHeld(r)'
  <2>1. pc[p] = "lookup" /\ records' = records
    BY <1>4 DEF LookUp
  <2>2. CASE Replayable(records[loc[p].key], loc[p].hash, loc[p].start)
    <3>1. /\ loc' = [loc EXCEPT ![p].rec = records[loc[p].key]] /\ GoTo(p, "get_response")
          /\ records[loc[p].key].status = "COMPLETED" /\ records[loc[p].key].hash = loc[p].hash
      BY <1>4, <2>2 DEF LookUp, Replayable
    <3>2. /\ pc'[p] = "get_response" /\ loc'[p] = [loc[p] EXCEPT !.rec = records[loc[p].key]]
          /\ \A r \in Requests \ {p} : pc'[r] = pc[r] /\ loc'[r] = loc[r]
      BY <1>0, <3>1 DEF GoTo, TypeOK
    <3>3. /\ loc'[p].rec = records[loc[p].key] /\ loc'[p].key = loc[p].key
          /\ loc'[p].hash = loc[p].hash
      BY <1>0, <3>2 DEF TypeOK, Local
    <3>4. RequestReady(p)'
      BY <1>0, <2>1, <3>2, <3>3 DEF RequestReady
    <3> QED BY <2>1, <3>1, <3>2, <3>3, <3>4, AllHeld DEF Owning, Working
  <2>3. CASE ~Replayable(records[loc[p].key], loc[p].hash, loc[p].start)
    BY <1>4, <2>1, <2>3, EndedRequest DEF LookUp
  <2> QED BY <2>2, <2>3
<1>5. ASSUME NEW p \in Requests, GetResponse(p) \/ SetResponse(p) \/ Vanish(p)
      PROVE  \A r \in Requests : RequestReady(r)' /\ RecordHeld(r)'
  BY <1>5, EndedRequest DEF GetResponse, SetResponse, Vanish
<1>6. ASSUME NEW p \in Requests, Serve(p) \/ ServePanics(p)
      PROVE  \A r \in Requests : RequestReady(r)' /\ RecordHeld(r)'
  <2>1. PICK response \in Responses : loc' = [loc EXCEPT ![p].response = response]
    <3>1. CASE Serve(p)
      <4>1. PICK outcome \in ServiceOutcomes : loc' = [loc EXCEPT ![p].response = outcome.response]
        BY <3>1 DEF Serve
      <4>2. outcome.response \in Responses
        BY DEF ServiceOutcomes, Responses
      <4> QED BY <4>1, <4>2
    <3>2. CASE ServePanics(p)
      BY <3>2 DEF ServePanics, Responses
    <3> QED BY <1>6, <3>1, <3>2
  <2>2. /\ pc[p] = "serve" /\ records' = records /\ pc'[p] = "read_record"
        /\ \A r \in Requests \ {p} : pc'[r] = pc[r] /\ loc'[r] = loc[r]
        /\ loc'[p] = [loc[p] EXCEPT !.response = response]
    BY <1>0, <1>6, <2>1 DEF Serve, ServePanics, GoTo, TypeOK
  <2>3. loc'[p].response = response /\ loc'[p].key = loc[p].key /\ loc'[p].hash = loc[p].hash
    BY <1>0, <2>2 DEF TypeOK, Local
  <2>4. RequestReady(p)' /\ records[loc[p].key].status = "IN_PROGRESS"
    BY <1>0, <2>2, <2>3 DEF RequestReady, RecordHeld, Working
  <2> QED BY <2>2, <2>3, <2>4, AllHeld DEF Owning, Working
<1>7. ASSUME NEW p \in Requests, ReadRecord(p)
      PROVE  \A r \in Requests : RequestReady(r)' /\ RecordHeld(r)'
  <2>1. pc[p] = "read_record" /\ records' = records /\ records[loc[p].key].status = "IN_PROGRESS"
    BY <1>0, <1>7 DEF ReadRecord, RecordHeld, Working
  <2>2. /\ loc' = [loc EXCEPT ![p].rec = Complete(records[loc[p].key], loc[p].response)]
        /\ GoTo(p, "update_record")
    BY <1>7, <2>1 DEF ReadRecord
  <2>3. /\ pc'[p] = "update_record"
        /\ \A r \in Requests \ {p} : pc'[r] = pc[r] /\ loc'[r] = loc[r]
        /\ loc'[p] = [loc[p] EXCEPT !.rec = Complete(records[loc[p].key], loc[p].response)]
    BY <1>0, <2>2 DEF GoTo, TypeOK
  <2>4. /\ loc'[p].rec = Complete(records[loc[p].key], loc[p].response)
        /\ loc'[p].key = loc[p].key /\ loc'[p].hash = loc[p].hash
        /\ loc'[p].response = loc[p].response
    BY <1>0, <2>3 DEF TypeOK, Local
  <2>5. RequestReady(p)'
    BY <1>0, <2>1, <2>3, <2>4 DEF RequestReady
  <2> QED BY <2>1, <2>3, <2>4, <2>5, AllHeld DEF Owning, Working
<1>8. ASSUME NEW p \in Requests, UpdateRecord(p)
      PROVE  /\ \A r \in Requests : RequestReady(r)' /\ RecordHeld(r)'
             /\ \A k \in Keys : ResponseSet(k)'
  <2>1. CASE ~Storable(loc[p].rec)
    <3>1. End(p) /\ records' = records
      BY <1>8, <2>1 DEF UpdateRecord
    <3> QED BY <1>a, <3>1, EndedRequest
  <2>2. CASE Storable(loc[p].rec)
    <3>1. /\ pc[p] = "update_record" /\ loc' = loc /\ pc'[p] = "set_response"
          /\ \A r \in Requests \ {p} : pc'[r] = pc[r]
          /\ loc[p].key \in Keys /\ loc[p].hash \in Hashes
          /\ records[loc[p].key] \in Record /\ loc[p].response \in Responses
          /\ loc[p].rec = Complete(records[loc[p].key], loc[p].response)
      BY <1>0, <1>8, <2>2 DEF UpdateRecord, GoTo, TypeOK, RequestReady, RecordHeld
    <3>2. /\ loc[p].rec \in Record /\ loc[p].rec.status = "COMPLETED"
          /\ loc[p].rec.response \in Responses
      BY <3>1, RecordMethods
    <3>3. /\ records'[loc[p].key] = loc[p].rec /\ loc[p].rec # None
          /\ \A k \in Keys \ {loc[p].key} : records'[k] = records[k]
      BY <1>0, <1>8, <2>2, <3>1, <3>2 DEF UpdateRecord, TypeOK
    <3>4. RequestReady(p)'
      BY <3>1, <3>3 DEF RequestReady
    <3>5. \A k \in Keys : ResponseSet(k)'
      BY <1>0, <3>2, <3>3 DEF ResponseSet, IsCompleted
    <3> QED BY <3>1, <3>2, <3>3, <3>4, <3>5, AllHeld DEF Owning, Working
  <2> QED BY <2>1, <2>2
<1>9. ASSUME NEW p \in Requests, Step(p) \/ Vanish(p) \/ \E k \in Keys, h \in Hashes : Arrive(p, k, h)
      PROVE  /\ \A r \in Requests : RequestReady(r)' /\ RecordHeld(r)'
             /\ \A k \in Keys : ResponseSet(k)'
  <2>1. CASE CreateRecord(p) \/ UpdateRecord(p)
    BY <1>3, <1>8, <2>1
  <2>2. CASE ~(CreateRecord(p) \/ UpdateRecord(p))
    <3>1. records' = records
      BY <1>9, <2>2
      DEF Step, LookUp, GetResponse, Serve, ServePanics, ReadRecord, SetResponse, Vanish, Arrive
    <3> QED BY <1>2, <1>4, <1>5, <1>6, <1>7, <1>9, <1>a, <2>2, <3>1 DEF Step
  <2> QED BY <2>1, <2>2
<1> QED BY <1>1, <1>9 DEF Next

\* What RecordStep shows to be invariant.
LEMMA RecordsKept == Spec => []RecordInv
<1>1. Init => RecordInv
  BY NoneAssumption
  DEF Init, RecordInv, TypeOK, Labels, Local, NoRequest, RequestReady, RecordHeld, Owning, Working,
      ResponseSet, IsCompleted
<1> QED BY <1>1, RecordStep, PTL DEF Spec

\* Every variable has its type, for any requests and keys.
THEOREM IdempotencyTypeCorrect == Spec => []TypeOK
<1>1. RecordInv => TypeOK
  BY DEF RecordInv
<1> QED BY <1>1, RecordsKept, PTL

\* A completed record is final: the only statement that overwrites a record
\* is that of the request which works on it while it is IN_PROGRESS.
THEOREM CompletedRecordsFinal == Spec => CompletedIsFinal
<1>1. RecordInv /\ [Next]_vars => [\A k \in Keys : IsCompleted(k) => records'[k] = records[k]]_vars
  <2> SUFFICES ASSUME RecordInv, Next, NEW k \in Keys, IsCompleted(k)
               PROVE  records'[k] = records[k]
      OBVIOUS
  <2>1. CASE records' = records
    BY <2>1
  <2>2. ASSUME NEW p \in Requests, CreateRecord(p) PROVE records'[k] = records[k]
    <3>1. records' = records \/ (loc[p].key # k /\
             records' = [records EXCEPT ![loc[p].key] = NewRecord(loc[p].hash, loc[p].start)])
      BY <2>2 DEF CreateRecord, KeyIsFree, IsCompleted
    <3> QED BY <3>1 DEF RecordInv, TypeOK
  <2>3. ASSUME NEW p \in Requests, UpdateRecord(p) PROVE records'[k] = records[k]
    <3>1. loc[p].key # k
      BY <2>3 DEF UpdateRecord, RecordInv, RecordHeld, Working, IsCompleted
    <3> QED BY <2>3, <3>1 DEF UpdateRecord, RecordInv, TypeOK
  <2>4. \/ records' = records
        \/ \E p \in Requests : CreateRecord(p) \/ UpdateRecord(p)
    BY DEF Next, Tick, Evict, Step, LookUp, GetResponse, Serve, ServePanics, ReadRecord,
           SetResponse, Vanish, Arrive
  <2> QED BY <2>1, <2>2, <2>3, <2>4
<1> QED BY <1>1, RecordsKept, PTL DEF Spec, CompletedIsFinal

-----------------------------------------------------------------------------
(* Mutations.                                                              *)

\* Service calls aside, a step keeps what has been done for a key, the keys
\* that have records, and which requests are about to call the service.
LEMMA BesidesTheService ==
  ASSUME RecordInv, [Next]_vars, \A p \in Requests : ~Serve(p) /\ ~ServePanics(p)
  PROVE  /\ UNCHANGED <<mutations, answer>>
         /\ \A k \in Keys : records'[k] = None => records[k] = None
         /\ \A p \in Requests : pc'[p] = "serve" =>
              /\ loc'[p] = loc[p]
              /\ pc[p] = "serve" \/ (pc[p] = "create" /\ records[loc[p].key] = None)
<1>0. TypeOK /\ \A p \in Requests : RequestReady(p) /\ RecordHeld(p)
  BY DEF RecordInv
<1>1. UNCHANGED <<mutations, answer>>
  BY DEF Next, Step, Tick, Evict, Arrive, CreateRecord, LookUp, GetResponse, ReadRecord,
         UpdateRecord, SetResponse, Vanish, vars, history
<1>2. ASSUME NEW k \in Keys, records[k] # None PROVE records'[k] # None
  <2>1. ASSUME NEW p \in Requests, CreateRecord(p) PROVE records'[k] # None
    <3>1. loc[p].hash \in Hashes /\ loc[p].start \in Int
      BY <1>0, <2>1 DEF CreateRecord, RequestReady, TypeOK, Local
    <3>2. NewRecord(loc[p].hash, loc[p].start) # None
      BY <3>1, RecordMethods
    <3>3. records' = records \/ records' = [records EXCEPT ![loc[p].key] = NewRecord(loc[p].hash, loc[p].start)]
      BY <2>1 DEF CreateRecord
    <3> QED BY <1>0, <1>2, <3>2, <3>3 DEF TypeOK
  <2>2. ASSUME NEW p \in Requests, UpdateRecord(p) PROVE records'[k] # None
    <3>1. records[loc[p].key] \in Record /\ loc[p].response \in Responses
      BY <1>0, <2>2 DEF UpdateRecord, TypeOK, RequestReady
    <3>2. loc[p].rec # None
      BY <1>0, <2>2, <3>1, RecordMethods, NoneAssumption DEF UpdateRecord, RecordHeld
    <3> QED BY <1>0, <1>2, <2>2, <3>2 DEF UpdateRecord, TypeOK
  <2>3. records' = records \/ \E p \in Requests : CreateRecord(p) \/ UpdateRecord(p)
    BY DEF Next, Step, Tick, Evict, Arrive, LookUp, GetResponse, ReadRecord, SetResponse, Vanish,
           vars
  <2> QED BY <1>2, <2>1, <2>2, <2>3
<1>3. ASSUME NEW p \in Requests, pc'[p] = "serve"
      PROVE  /\ loc'[p] = loc[p]
             /\ pc[p] = "serve" \/ (pc[p] = "create" /\ records[loc[p].key] = None)
  <2>1. ASSUME NEW r \in Requests, NEW label \in Labels \ {"serve"}, GoTo(r, label),
               \A q \in Requests \ {r} : loc'[q] = loc[q]
        PROVE  pc[p] = "serve" /\ loc'[p] = loc[p]
    BY <1>0, <1>3, <2>1 DEF GoTo, TypeOK
  <2>2. ASSUME NEW r \in Requests, End(r) PROVE pc[p] = "serve" /\ loc'[p] = loc[p]
    BY <1>0, <2>1, <2>2 DEF End, Labels, TypeOK
  <2>3. ASSUME NEW r \in Requests, CreateRecord(r)
        PROVE  /\ loc'[p] = loc[p]
               /\ pc[p] = "serve" \/ (pc[p] = "create" /\ records[loc[p].key] = None)
    BY <1>0, <1>3, <2>3 DEF CreateRecord, KeyIsFree, GoTo, TypeOK
  <2>4. ASSUME NEW r \in Requests,
               \/ \E k \in Keys, h \in Hashes : Arrive(r, k, h)
               \/ LookUp(r) \/ GetResponse(r)
        PROVE  pc[p] = "serve" /\ loc'[p] = loc[p]
    BY <1>0, <2>1, <2>2, <2>4 DEF Arrive, LookUp, GetResponse, Labels, TypeOK
  <2>5. ASSUME NEW r \in Requests,
               ReadRecord(r) \/ UpdateRecord(r) \/ SetResponse(r) \/ Vanish(r)
        PROVE  pc[p] = "serve" /\ loc'[p] = loc[p]
    BY <1>0, <2>1, <2>2, <2>5
    DEF ReadRecord, UpdateRecord, SetResponse, Vanish, Labels, TypeOK
  <2>6. CASE Tick \/ (\E k \in Keys, h \in Hashes : Evict(k, h)) \/ UNCHANGED vars
    BY <1>3, <2>6 DEF Tick, Evict, vars
  <2> QED BY <2>3, <2>4, <2>5, <2>6 DEF Next, Step
<1> QED BY <1>1, <1>2, <1>3

\* The service runs once for a key: only the request that inserted the record
\* calls it, and before that nothing is done.
LEMMA MutationStep == RecordInv /\ MutationInv /\ [Next]_vars => MutationInv'
<1> SUFFICES ASSUME RecordInv, MutationInv, [Next]_vars PROVE MutationInv'
    OBVIOUS
<1>0. TypeOK /\ \A p \in Requests : RequestReady(p) /\ RecordHeld(p)
  BY DEF RecordInv
<1>1. CASE \A p \in Requests : ~Serve(p) /\ ~ServePanics(p)
  <2>1. AtMostOneMutation'
    BY <1>1, BesidesTheService DEF MutationInv, AtMostOneMutation
  <2>2. \A k \in Keys : records'[k] = None => Untouched(k)'
    BY <1>1, BesidesTheService DEF MutationInv, Untouched
  <2>3. \A p \in Requests : pc'[p] = "serve" => Untouched(loc[p].key)' /\ loc'[p] = loc[p]
    BY <1>0, <1>1, BesidesTheService DEF MutationInv, Untouched, RequestReady
  <2> QED BY <2>1, <2>2, <2>3 DEF MutationInv
<1>2. ASSUME NEW p \in Requests, Serve(p) \/ ServePanics(p) PROVE MutationInv'
  <2> DEFINE key == loc[p].key
  <2>1. /\ pc[p] = "serve" /\ key \in Keys /\ records[key] # None /\ records' = records
        /\ Untouched(key)
    BY <1>0, <1>2 DEF Serve, ServePanics, RequestReady, MutationInv
  <2>2. \A k \in Keys \ {key} : mutations'[k] = mutations[k] /\ answer'[k] = answer[k]
    BY <1>0, <1>2 DEF Serve, ServePanics, TypeOK
  <2>3. mutations'[key] <= 1
    <3>1. CASE Serve(p)
      <4>1. PICK outcome \in ServiceOutcomes :
              mutations' = [mutations EXCEPT ![key] = @ + outcome.commits]
        BY <3>1 DEF Serve
      <4>2. outcome.commits \in 0..1
        BY DEF ServiceOutcomes
      <4>3. mutations'[key] = mutations[key] + outcome.commits
        BY <1>0, <2>1, <4>1 DEF TypeOK
      <4> QED BY <2>1, <4>2, <4>3 DEF Untouched
    <3>2. CASE ServePanics(p)
      <4>1. PICK commits \in {0, 1} : mutations' = [mutations EXCEPT ![key] = @ + commits]
        BY <3>2 DEF ServePanics
      <4> QED BY <1>0, <2>1, <4>1 DEF Untouched, TypeOK
    <3> QED BY <1>2, <3>1, <3>2
  <2>4. AtMostOneMutation'
    BY <2>2, <2>3 DEF MutationInv, AtMostOneMutation
  <2>5. \A k \in Keys : records'[k] = None => Untouched(k)'
    BY <2>1, <2>2 DEF MutationInv, Untouched
  <2>6. ASSUME NEW r \in Requests, pc'[r] = "serve" PROVE Untouched(loc[r].key)' /\ loc'[r] = loc[r]
    <3>1. r # p /\ pc[r] = "serve" /\ loc'[r] = loc[r]
      BY <1>0, <1>2, <2>6 DEF Serve, ServePanics, GoTo, TypeOK
    <3>2. loc[r].key \in Keys \ {key}
      BY <1>0, <2>1, <3>1 DEF RequestReady, RecordHeld, Owning, Working
    <3>3. Untouched(loc[r].key)
      BY <3>1 DEF MutationInv
    <3> QED BY <2>2, <3>1, <3>2, <3>3 DEF Untouched
  <2> QED BY <2>4, <2>5, <2>6 DEF MutationInv
<1> QED BY <1>1, <1>2

\* What MutationStep shows to be invariant.
LEMMA MutationsKept == Spec => []MutationInv
<1>1. Init => MutationInv
  BY DEF Init, MutationInv, AtMostOneMutation, Untouched
<1> QED BY <1>1, MutationStep, RecordsKept, PTL DEF Spec

\* At most one of the requests with a key changes anything, however many
\* there are, however they interleave and wherever they fail: the row of the
\* key is never removed, and only the request that inserted it is served.
THEOREM MutatedAtMostOnce == Spec => []AtMostOneMutation
<1>1. MutationInv => AtMostOneMutation
  BY DEF MutationInv
<1> QED BY <1>1, MutationsKept, PTL

-----------------------------------------------------------------------------
(* Answers.                                                                *)

\* A step that leaves alone the cache or empties a place in it, and leaves
\* alone a key's record, answer and replays, keeps what is said of the key.
CacheAgrees(k) ==
  \A h \in Hashes :
    cache[k][h] # None => IsCompleted(k) /\ records[k].hash = h /\ records[k].response = cache[k][h]

LEMMA CacheByKey == CacheAgreesWithRecord <=> \A k \in Keys : CacheAgrees(k)
  BY DEF CacheAgreesWithRecord, CacheAgrees, IsCompleted

LEMMA KeyAlone ==
  ASSUME NEW k \in Keys, CacheAgrees(k), Answered(k),
         records'[k] = records[k], answer'[k] = answer[k], replayed'[k] = replayed[k],
         \A h \in Hashes : cache'[k][h] \in {cache[k][h], None}
  PROVE  CacheAgrees(k)' /\ Answered(k)'
  BY DEF CacheAgrees, Answered, Answers, Panicked, Storable, IsCompleted

\* The request is about to store the answer of its handler.
AnswerReady(p) ==
  pc[p] \in {"read_record", "update_record"} => Answers(loc[p].key, loc[p].response)

\* Others are not disturbed by a request that changes the answer of its key
\* while it works on it.
LEMMA OtherAnswers ==
  ASSUME RecordInv, AnswerInv, NEW p \in Requests, NEW r \in Requests \ {p},
         pc'[r] = pc[r], loc'[r] = loc[r],
         \/ answer' = answer
         \/ pc[p] \in Working /\ \A k \in Keys \ {loc[p].key} : answer'[k] = answer[k]
  PROVE  AnswerReady(r)'
<1>1. AnswerReady(r) /\ RequestReady(r) /\ RecordHeld(p)
  BY DEF AnswerInv, RecordInv, AnswerReady
<1> QED BY <1>1 DEF AnswerReady, Answers, Panicked, RequestReady, RecordHeld, Owning, Working

\* The only response a request finds for a completed record is the record's.
LEMMA FoundResponse ==
  ASSUME RecordInv, AnswerInv, NEW p \in Requests, pc[p] = "get_response",
         NEW response \in Cached(loc[p].key, loc[p].rec.hash) \cup {loc[p].rec.response}
  PROVE  /\ IsCompleted(loc[p].key) /\ records[loc[p].key].hash = loc[p].hash
         /\ response = records[loc[p].key].response
<1>1. /\ loc[p].key \in Keys /\ loc[p].hash \in Hashes /\ IsCompleted(loc[p].key)
      /\ loc[p].rec = records[loc[p].key] /\ loc[p].rec.hash = loc[p].hash
  BY DEF RecordInv, RequestReady, RecordHeld, IsCompleted
<1>2. CASE response = loc[p].rec.response
  BY <1>1, <1>2
<1>3. CASE response = cache[loc[p].key][loc[p].hash] /\ response # None
  BY <1>1, <1>3 DEF AnswerInv, CacheAgreesWithRecord
<1> QED BY <1>1, <1>2, <1>3 DEF Cached

\* What is stored, cached and replayed is the answer of the one handler that
\* did the work.
LEMMA AnswerStep == RecordInv /\ MutationInv /\ AnswerInv /\ [Next]_vars => AnswerInv'
<1> SUFFICES ASSUME RecordInv, MutationInv, AnswerInv, [Next]_vars
             PROVE  /\ \A k \in Keys : CacheAgrees(k)' /\ Answered(k)'
                    /\ \A r \in Requests : AnswerReady(r)'
  <2>1. (\A k \in Keys : CacheAgrees(k)') => CacheAgreesWithRecord'
    BY DEF CacheAgreesWithRecord, CacheAgrees, IsCompleted
  <2> QED BY <2>1 DEF AnswerInv, AnswerReady
<1>0. /\ TypeOK /\ \A p \in Requests : RequestReady(p) /\ RecordHeld(p)
      /\ \A k \in Keys : CacheAgrees(k) /\ Answered(k)
      /\ \A p \in Requests : AnswerReady(p)
  BY CacheByKey DEF RecordInv, AnswerInv, AnswerReady
<1> DEFINE KeysKept == \A k \in Keys : CacheAgrees(k)' /\ Answered(k)'
<1>a. UNCHANGED <<records, cache, answer, replayed>> => KeysKept
  BY <1>0, KeyAlone
<1>b. ASSUME NEW p \in Requests, pc'[p] \notin {"read_record", "update_record"},
             \A r \in Requests \ {p} : pc'[r] = pc[r] /\ loc'[r] = loc[r], answer' = answer
      PROVE  \A r \in Requests : AnswerReady(r)'
  BY <1>b, OtherAnswers DEF AnswerReady
<1>1. CASE Tick \/ UNCHANGED vars
  BY <1>0, <1>1, <1>a DEF Tick, vars, history, AnswerReady, Answers, Panicked
<1>2. ASSUME NEW k \in Keys, NEW h \in Hashes, Evict(k, h)
      PROVE  KeysKept /\ \A r \in Requests : AnswerReady(r)'
  <2>1. \A r \in Requests : AnswerReady(r)'
    BY <1>0, <1>2 DEF Evict, history, AnswerReady, Answers, Panicked
  <2>2. \A j \in Keys, i \in Hashes : cache'[j][i] \in {cache[j][i], None}
    BY <1>0, <1>2 DEF Evict, TypeOK
  <2> QED BY <1>0, <1>2, <2>1, <2>2, KeyAlone DEF Evict, history
<1>3. ASSUME NEW p \in Requests, NEW k \in Keys, NEW h \in Hashes, Arrive(p, k, h)
      PROVE  KeysKept /\ \A r \in Requests : AnswerReady(r)'
  BY <1>0, <1>3, <1>a, <1>b DEF Arrive, GoTo, TypeOK, history
<1>4. ASSUME NEW p \in Requests, CreateRecord(p)
      PROVE  KeysKept /\ \A r \in Requests : AnswerReady(r)'
  <2>1. \A r \in Requests : AnswerReady(r)'
    BY <1>0, <1>4, <1>b DEF CreateRecord, GoTo, TypeOK, history
  <2>2. CASE records' = records
    BY <1>4, <1>a, <2>1, <2>2 DEF CreateRecord, history
  <2>3. CASE records' # records
    <3>0. PICK key \in Keys : key = loc[p].key
      BY <1>0, <1>4 DEF CreateRecord, RequestReady
    <3>1. /\ records[loc[p].key] = None
          /\ records' = [records EXCEPT ![loc[p].key] = NewRecord(loc[p].hash, loc[p].start)]
          /\ UNCHANGED <<cache, answer, replayed>>
      BY <1>4, <2>3 DEF CreateRecord, KeyIsFree, history
    <3>2. loc[p].hash \in Hashes /\ loc[p].start \in Int
      BY <1>0, <1>4 DEF CreateRecord, RequestReady, TypeOK, Local
    <3>3. records'[key].status = "IN_PROGRESS"
      BY <1>0, <3>0, <3>1, <3>2, RecordMethods DEF TypeOK
    <3>4. CacheAgrees(key)' /\ Answered(key)'
      BY <1>0, <3>0, <3>1, <3>3 DEF CacheAgrees, Answered, IsCompleted
    <3>5. \A k \in Keys \ {key} : CacheAgrees(k)' /\ Answered(k)'
      BY <1>0, <3>0, <3>1, KeyAlone DEF TypeOK
    <3> QED BY <2>1, <3>4, <3>5
  <2> QED BY <2>2, <2>3
<1>5. ASSUME NEW p \in Requests, LookUp(p) \/ Vanish(p)
      PROVE  KeysKept /\ \A r \in Requests : AnswerReady(r)'
  <2>1. /\ UNCHANGED <<records, cache, answer, replayed>>
        /\ pc'[p] \notin {"read_record", "update_record"}
        /\ \A r \in Requests \ {p} : pc'[r] = pc[r] /\ loc'[r] = loc[r]
    BY <1>0, <1>5 DEF LookUp, Vanish, End, GoTo, TypeOK, history
  <2> QED BY <1>a, <1>b, <2>1
<1>6. ASSUME NEW p \in Requests, GetResponse(p)
      PROVE  KeysKept /\ \A r \in Requests : AnswerReady(r)'
  <2>0. PICK key \in Keys, hash \in Hashes : key = loc[p].key /\ hash = loc[p].hash
    BY <1>0, <1>6 DEF GetResponse, RequestReady
  <2>1. \A r \in Requests : AnswerReady(r)'
    BY <1>0, <1>6, <1>b DEF GetResponse, End, GoTo, TypeOK
  <2>2. PICK response \in Cached(key, loc[p].rec.hash) \cup {loc[p].rec.response} :
          replayed' = [replayed EXCEPT ![key][hash] = @ \cup {response}]
    BY <1>6, <2>0 DEF GetResponse
  <2>3. /\ IsCompleted(key) /\ records[key].hash = hash /\ response = records[key].response
        /\ UNCHANGED <<records, cache, answer>>
    BY <1>6, <2>0, FoundResponse DEF GetResponse
  <2>4. /\ replayed'[key] = [replayed[key] EXCEPT ![hash] = @ \cup {response}]
        /\ \A k \in Keys \ {key} : replayed'[k] = replayed[k]
    BY <1>0, <2>2, <2>3 DEF TypeOK
  <2>5. \A h \in Hashes : replayed'[key][h] # {} =>
          records[key].hash = h /\ replayed'[key][h] = {records[key].response}
    BY <1>0, <2>3, <2>4 DEF TypeOK, Answered
  <2>6. Answered(key)' /\ CacheAgrees(key)'
    BY <1>0, <2>3, <2>5 DEF Answered, Answers, Panicked, Storable, CacheAgrees, IsCompleted
  <2>7. \A k \in Keys \ {key} : CacheAgrees(k)' /\ Answered(k)'
    BY <1>0, <2>3, <2>4, KeyAlone
  <2> QED BY <2>1, <2>6, <2>7
<1>7. ASSUME NEW p \in Requests, Serve(p) \/ ServePanics(p)
      PROVE  KeysKept /\ \A r \in Requests : AnswerReady(r)'
  <2>0. PICK key \in Keys : key = loc[p].key
    BY <1>0, <1>7 DEF Serve, ServePanics, RequestReady
  <2>1. /\ pc[p] = "serve" /\ records[key].status = "IN_PROGRESS"
        /\ UNCHANGED <<records, cache, replayed>>
        /\ \A r \in Requests \ {p} : pc'[r] = pc[r] /\ loc'[r] = loc[r]
    BY <1>0, <1>7, <2>0 DEF Serve, ServePanics, RecordHeld, Working, GoTo, TypeOK
  <2>2. PICK response \in Responses, written \in Responses :
          /\ answer' = [answer EXCEPT ![key] = response]
          /\ loc' = [loc EXCEPT ![p].response = written]
          /\ response = written \/ (response = "internal" /\ written = "blank")
    <3>1. CASE Serve(p)
      <4>1. PICK outcome \in ServiceOutcomes : /\ answer' = [answer EXCEPT ![key] = outcome.response]
                                               /\ loc' = [loc EXCEPT ![p].response = outcome.response]
        BY <2>0, <3>1 DEF Serve
      <4>2. outcome.response \in Responses
        BY DEF ServiceOutcomes, Responses
      <4> QED BY <4>1, <4>2
    <3>2. CASE ServePanics(p)
      BY <2>0, <3>2 DEF ServePanics, Responses
    <3> QED BY <1>7, <3>1, <3>2
  <2>3. answer'[key] = response /\ \A k \in Keys \ {key} : answer'[k] = answer[k]
    BY <1>0, <2>1, <2>2 DEF TypeOK
  <2>4. CacheAgrees(key)' /\ Answered(key)'
    BY <1>0, <2>1 DEF CacheAgrees, Answered, IsCompleted
  <2>5. \A k \in Keys \ {key} : CacheAgrees(k)' /\ Answered(k)'
    BY <1>0, <2>1, <2>3, KeyAlone
  <2>6. loc'[p].key = key /\ loc'[p].response = written
    <3>1. loc[p] \in Local /\ loc'[p] = [loc[p] EXCEPT !.response = written]
      BY <1>0, <2>2 DEF TypeOK
    <3> QED BY <2>0, <3>1 DEF Local
  <2>7. AnswerReady(p)'
    BY <2>0, <2>2, <2>3, <2>6 DEF AnswerReady, Answers, Panicked
  <2>8. \A r \in Requests \ {p} : AnswerReady(r)'
    BY <2>0, <2>1, <2>3, OtherAnswers DEF Working
  <2> QED BY <2>4, <2>5, <2>7, <2>8
<1>8. ASSUME NEW p \in Requests, ReadRecord(p)
      PROVE  KeysKept /\ \A r \in Requests : AnswerReady(r)'
  <2>1. /\ pc[p] = "read_record" /\ UNCHANGED <<records, cache, answer, replayed>>
        /\ \A r \in Requests \ {p} : pc'[r] = pc[r] /\ loc'[r] = loc[r]
    BY <1>0, <1>8 DEF ReadRecord, End, GoTo, TypeOK, history
  <2>2. CASE End(p)
    BY <1>0, <1>a, <1>b, <2>1, <2>2 DEF End, GoTo, TypeOK
  <2>3. CASE ~End(p)
    <3>1. loc'[p] = [loc[p] EXCEPT !.rec = Complete(records[loc[p].key], loc[p].response)]
      BY <1>0, <1>8, <2>3 DEF ReadRecord, TypeOK
    <3>2. loc'[p].key = loc[p].key /\ loc'[p].response = loc[p].response
      BY <1>0, <3>1 DEF TypeOK, Local
    <3>3. AnswerReady(p)'
      BY <1>0, <2>1, <3>2 DEF AnswerReady, Answers, Panicked
    <3> QED BY <1>a, <2>1, <3>3, OtherAnswers
  <2> QED BY <2>2, <2>3
<1>9. ASSUME NEW p \in Requests, UpdateRecord(p)
      PROVE  KeysKept /\ \A r \in Requests : AnswerReady(r)'
  <2>0. PICK key \in Keys : key = loc[p].key
    BY <1>0, <1>9 DEF UpdateRecord, RequestReady
  <2>1. /\ pc[p] = "update_record" /\ UNCHANGED <<cache, answer, replayed>>
        /\ records[key].status = "IN_PROGRESS"
        /\ loc[p].rec = Complete(records[key], loc[p].response)
        /\ Answers(key, loc[p].response)
    BY <1>0, <1>9, <2>0 DEF UpdateRecord, history, RecordHeld, Working, AnswerReady
  <2>2. \A r \in Requests : AnswerReady(r)'
    <3>1. /\ pc'[p] \notin {"read_record", "update_record"}
          /\ \A r \in Requests \ {p} : pc'[r] = pc[r] /\ loc'[r] = loc[r]
      BY <1>0, <1>9 DEF UpdateRecord, End, GoTo, TypeOK
    <3> QED BY <1>b, <2>1, <3>1
  <2>3. CASE ~Storable(loc[p].rec)
    BY <1>9, <1>a, <2>1, <2>2, <2>3 DEF UpdateRecord
  <2>4. CASE Storable(loc[p].rec)
    <3>1. loc[p].rec.response = loc[p].response
      <4>1. records[key] \in Record /\ loc[p].response \in Responses
        BY <1>0, <2>0, <2>1 DEF RequestReady, TypeOK
      <4> QED BY <2>1, <4>1, RecordMethods
    <3>2. records'[key] = loc[p].rec /\ \A k \in Keys \ {key} : records'[k] = records[k]
      BY <1>0, <1>9, <2>0, <2>4 DEF UpdateRecord, TypeOK
    <3>3. CacheAgrees(key)'
      BY <1>0, <2>1 DEF CacheAgrees, IsCompleted
    <3>4. Answered(key)'
      BY <1>0, <2>1, <2>4, <3>1, <3>2 DEF Answered, Answers, Panicked, Storable, IsCompleted
    <3>5. \A k \in Keys \ {key} : CacheAgrees(k)' /\ Answered(k)'
      BY <1>0, <2>1, <3>2, KeyAlone
    <3> QED BY <2>2, <3>3, <3>4, <3>5
  <2> QED BY <2>3, <2>4
<1>10. ASSUME NEW p \in Requests, SetResponse(p)
       PROVE  KeysKept /\ \A r \in Requests : AnswerReady(r)'
  <2>0. PICK key \in Keys : key = loc[p].key
    BY <1>0, <1>10 DEF SetResponse, RequestReady
  <2>1. /\ pc[p] = "set_response" /\ UNCHANGED <<records, answer, replayed>>
        /\ IsCompleted(key) /\ loc[p].rec = records[key]
    BY <1>0, <1>10, <2>0 DEF SetResponse, history, RequestReady, RecordHeld, IsCompleted
  <2>2. \A r \in Requests : AnswerReady(r)'
    BY <1>0, <1>10, <1>b, <2>1 DEF SetResponse, End, GoTo, TypeOK
  <2>3. CASE cache' = cache
    BY <1>a, <2>1, <2>2, <2>3
  <2>4. CASE cache' = [cache EXCEPT ![key][loc[p].rec.hash] = loc[p].rec.response]
    <3>1. /\ cache'[key] = [cache[key] EXCEPT ![loc[p].rec.hash] = loc[p].rec.response]
          /\ \A k \in Keys \ {key} : cache'[k] = cache[k]
      BY <1>0, <2>1, <2>4 DEF TypeOK
    <3>2. \A h \in Hashes : cache'[key][h] = cache[key][h] \/
                            (h = records[key].hash /\ cache'[key][h] = records[key].response)
      BY <1>0, <2>1, <3>1 DEF TypeOK
    <3>3. CacheAgrees(key)' /\ Answered(key)'
      BY <1>0, <2>1, <3>2 DEF CacheAgrees, Answered, Answers, Panicked, Storable, IsCompleted
    <3>4. \A k \in Keys \ {key} : CacheAgrees(k)' /\ Answered(k)'
      BY <1>0, <2>1, <3>1, KeyAlone
    <3> QED BY <2>2, <3>3, <3>4
  <2> QED BY <1>10, <2>0, <2>3, <2>4 DEF SetResponse
<1> QED BY <1>1, <1>2, <1>3, <1>4, <1>5, <1>6, <1>7, <1>8, <1>9, <1>10 DEF Next, Step

\* What AnswerStep shows to be invariant.
LEMMA AnswersKept == Spec => []AnswerInv
<1>1. Init => AnswerInv
  BY DEF Init, AnswerInv, CacheAgreesWithRecord, Answered, IsCompleted
<1> QED BY <1>1, AnswerStep, RecordsKept, MutationsKept, PTL DEF Spec

\* Redis never knows more than PostgreSQL: the response is cached after the
\* record is updated, and a completed record does not change.
THEOREM CacheNeverAhead == Spec => []CacheAgreesWithRecord
<1>1. AnswerInv => CacheAgreesWithRecord
  BY DEF AnswerInv
<1> QED BY <1>1, AnswersKept, PTL

\* All that StartRequest replays under a key has the request hash of its
\* record: a key reused for another request gets a conflict.
THEOREM ReplayedToSameRequest == Spec => []ReplayForSameRequest
<1>1. AnswerInv => ReplayForSameRequest
  BY DEF AnswerInv, Answered, ReplayForSameRequest, IsCompleted
<1> QED BY <1>1, AnswersKept, PTL

\* A duplicate is told what the handler that did the work answered, from the
\* record or from the cache, unless the service panicked and the store is the
\* in-memory one.
THEOREM ReplayedAsAnswered == Spec => []ReplayUnlessPanic
<1>1. AnswerInv => ReplayUnlessPanic
  <2> SUFFICES ASSUME AnswerInv, NEW k \in Keys, NEW h \in Hashes, BodyRequired \/ ~Panicked(k)
               PROVE  replayed[k][h] \subseteq {answer[k]}
      BY DEF ReplayUnlessPanic
  <2>1. replayed[k][h] # {} => replayed[k][h] = {answer[k]}
    BY DEF AnswerInv, Answered, Answers, Storable
  <2> QED BY <2>1
<1> QED BY <1>1, AnswersKept, PTL

-----------------------------------------------------------------------------
(* The one-shot register.                                                  *)

\* What a request is about to store is what OneShot keeps of the answer.
KeptReady(p) ==
  pc[p] \in {"read_record", "update_record"} =>
    /\ answer[loc[p].key] # None
    /\ loc[p].response = Abstract!Kept(answer[loc[p].key])

KeptInv == \A p \in Requests : KeptReady(p)

\* A request is disturbed by no other one.
LEMMA OtherKept ==
  ASSUME RecordInv, NEW p \in Requests, NEW r \in Requests \ {p}, KeptReady(r),
         pc'[r] = pc[r], loc'[r] = loc[r],
         \/ answer' = answer
         \/ pc[p] \in Working /\ \A k \in Keys \ {loc[p].key} : answer'[k] = answer[k]
  PROVE  KeptReady(r)'
<1>1. RequestReady(r) /\ RecordHeld(p)
  BY DEF RecordInv
<1> QED BY <1>1 DEF KeptReady, RequestReady, RecordHeld, Owning, Working

\* The recorder copies what the handler writes, or nothing of a panic.
LEMMA KeptStep == RecordInv /\ KeptInv /\ [Next]_vars => KeptInv'
<1> SUFFICES ASSUME RecordInv, KeptInv, [Next]_vars PROVE KeptInv'
  OBVIOUS
<1>0. TypeOK /\ \A p \in Requests : RequestReady(p) /\ KeptReady(p)
  BY DEF RecordInv, KeptInv
<1>1. CASE Tick \/ (\E k \in Keys, h \in Hashes : Evict(k, h)) \/ UNCHANGED vars
  BY <1>0, <1>1 DEF Tick, Evict, vars, history, KeptInv, KeptReady
<1>2. ASSUME NEW p \in Requests, KeptReady(p)',
             \A r \in Requests \ {p} : pc'[r] = pc[r] /\ loc'[r] = loc[r],
             \/ answer' = answer
             \/ pc[p] \in Working /\ \A k \in Keys \ {loc[p].key} : answer'[k] = answer[k]
      PROVE  KeptInv'
  BY <1>0, <1>2, OtherKept DEF KeptInv
<1>3. ASSUME NEW p \in Requests,
             \/ \E k \in Keys, h \in Hashes : Arrive(p, k, h)
             \/ CreateRecord(p) \/ LookUp(p) \/ GetResponse(p)
             \/ UpdateRecord(p) \/ SetResponse(p) \/ Vanish(p)
      PROVE  KeptInv'
  <2>1. /\ answer' = answer
        /\ \A r \in Requests \ {p} : pc'[r] = pc[r] /\ loc'[r] = loc[r]
    BY <1>0, <1>3 DEF Arrive, CreateRecord, LookUp, GetResponse, UpdateRecord, SetResponse, Vanish,
                      GoTo, End, history, TypeOK
  <2>2. pc'[p] \notin {"read_record", "update_record"}
    BY <1>0, <1>3 DEF Arrive, CreateRecord, LookUp, GetResponse, UpdateRecord, SetResponse, Vanish,
                      GoTo, End, TypeOK
  <2> QED BY <1>2, <2>1, <2>2 DEF KeptReady
<1>4. ASSUME NEW p \in Requests, Serve(p) \/ ServePanics(p) PROVE KeptInv'
  <2>1. PICK a \in Responses : /\ a # "blank"
                               /\ answer' = [answer EXCEPT ![loc[p].key] = a]
                               /\ loc' = [loc EXCEPT ![p] = [loc[p] EXCEPT !.response = Abstract!Kept(a)]]
    BY <1>4 DEF Serve, ServePanics, ServiceOutcomes, Responses, Abstract!Kept
  <2>2. /\ pc[p] = "serve" /\ loc[p].key \in Keys /\ loc[p] \in Local
        /\ \A r \in Requests \ {p} : pc'[r] = pc[r]
    BY <1>0, <1>4 DEF Serve, ServePanics, RequestReady, GoTo, TypeOK
  <2>3. loc'[p].key = loc[p].key /\ loc'[p].response = Abstract!Kept(a)
    BY <1>0, <2>1, <2>2 DEF TypeOK, Local
  <2>4. answer'[loc[p].key] = a /\ \A k \in Keys \ {loc[p].key} : answer'[k] = answer[k]
    BY <1>0, <2>1, <2>2 DEF TypeOK
  <2>5. KeptReady(p)'
    BY <2>1, <2>3, <2>4, NoneAssumption DEF KeptReady
  <2>6. \A r \in Requests \ {p} : loc'[r] = loc[r]
    BY <1>0, <2>1 DEF TypeOK
  <2> QED BY <1>2, <2>2, <2>4, <2>5, <2>6 DEF Working
<1>5. ASSUME NEW p \in Requests, ReadRecord(p) PROVE KeptInv'
  <2>1. /\ pc[p] = "read_record" /\ answer' = answer
        /\ \A r \in Requests \ {p} : pc'[r] = pc[r] /\ loc'[r] = loc[r]
    BY <1>0, <1>5 DEF ReadRecord, GoTo, End, history, TypeOK
  <2>2. pc'[p] = "idle" \/ (loc'[p].key = loc[p].key /\ loc'[p].response = loc[p].response)
    BY <1>0, <1>5 DEF ReadRecord, GoTo, End, TypeOK, Local
  <2>3. KeptReady(p)'
    BY <1>0, <2>1, <2>2 DEF KeptReady
  <2> QED BY <1>2, <2>1, <2>3
<1> QED BY <1>1, <1>3, <1>4, <1>5 DEF Next, Step

\* A step that leaves the records alone leaves taken and kept alone.
LEMMA SameRegister ==
  ASSUME records' = records
  PROVE  /\ [k \in Keys |-> IF records'[k] = None THEN None ELSE records'[k].hash]
              = [k \in Keys |-> IF records[k] = None THEN None ELSE records[k].hash]
         /\ [k \in Keys |-> IF IsCompleted(k)' THEN records'[k].response ELSE None]
              = [k \in Keys |-> IF IsCompleted(k) THEN records[k].response ELSE None]
BY DEF IsCompleted

\* INSERT of a key that is free takes it.
LEMMA CreateTakes ==
  ASSUME RecordInv, NEW p \in Requests, CreateRecord(p), records[loc[p].key] = None
  PROVE  \E k \in Keys, h \in Hashes : Abstract!Take(k, h)
<1> DEFINE rec == NewRecord(loc[p].hash, loc[p].start)
<1> PICK key, h : key = loc[p].key /\ h = loc[p].hash
  OBVIOUS
<1>0. /\ TypeOK /\ key \in Keys /\ h \in Hashes /\ loc[p].start \in Int
      /\ records[key] = None
  BY DEF RecordInv, RequestReady, CreateRecord, TypeOK, Local
<1>1. rec # None /\ rec.status = "IN_PROGRESS" /\ rec.hash = h
  BY <1>0, RecordMethods DEF NewRecord
<1>2. /\ records' = [records EXCEPT ![key] = rec]
      /\ UNCHANGED <<mutations, answer, replayed>>
  BY <1>0 DEF CreateRecord, KeyIsFree, history
<1> HIDE DEF rec
<1>3. \A k \in Keys : records'[k] = IF k = key THEN rec ELSE records[k]
  BY <1>0, <1>2 DEF TypeOK
<1>4. [k \in Keys |-> IF records'[k] = None THEN None ELSE records'[k].hash]
        = [[k \in Keys |-> IF records[k] = None THEN None ELSE records[k].hash]
             EXCEPT ![key] = h]
  BY <1>0, <1>1, <1>3
<1>5. \A k \in Keys : /\ IsCompleted(k)' <=> IsCompleted(k)
                      /\ IsCompleted(k) => records'[k] = records[k]
  BY <1>0, <1>1, <1>3 DEF IsCompleted
<1>6. [k \in Keys |-> IF IsCompleted(k)' THEN records'[k].response ELSE None]
        = [k \in Keys |-> IF IsCompleted(k) THEN records[k].response ELSE None]
  BY <1>5
<1>7. Abstract!Take(key, h)
  BY <1>0, <1>2, <1>4, <1>6 DEF Abstract!Take
<1> QED BY <1>0, <1>7

\* UPDATE of the record keeps the response, if it is not refused.
LEMMA UpdateKeeps ==
  ASSUME RecordInv, KeptInv, NEW p \in Requests, UpdateRecord(p), Storable(loc[p].rec)
  PROVE  \E k \in Keys : Abstract!Keep(k)
<1> PICK key, rec : key = loc[p].key /\ rec = loc[p].rec
  OBVIOUS
<1>0. /\ TypeOK /\ key \in Keys /\ records[key] \in Record /\ loc[p].response \in Responses
      /\ records[key].status = "IN_PROGRESS" /\ rec = Complete(records[key], loc[p].response)
  BY DEF RecordInv, RequestReady, RecordHeld, UpdateRecord, Working, TypeOK
<1>1. /\ rec # None /\ rec.status = "COMPLETED"
      /\ rec.hash = records[key].hash /\ rec.response = loc[p].response
  BY <1>0, RecordMethods, NoneAssumption
<1>2. records' = [records EXCEPT ![key] = rec] /\ UNCHANGED <<mutations, answer, replayed>>
  BY DEF UpdateRecord, history
<1>3. answer[key] # None /\ rec.response = Abstract!Kept(answer[key])
  BY <1>1 DEF KeptInv, KeptReady, UpdateRecord
<1>4. \A k \in Keys : records'[k] = IF k = key THEN rec ELSE records[k]
  BY <1>0, <1>2 DEF TypeOK
<1>5. [k \in Keys |-> IF records'[k] = None THEN None ELSE records'[k].hash]
        = [k \in Keys |-> IF records[k] = None THEN None ELSE records[k].hash]
  BY <1>0, <1>1, <1>4, NoneAssumption
<1>6. IsCompleted(key)' /\ ~IsCompleted(key)
  BY <1>0, <1>1, <1>4 DEF IsCompleted
<1>7. \A k \in Keys \ {key} : (IsCompleted(k)' <=> IsCompleted(k)) /\ records'[k] = records[k]
  BY <1>4 DEF IsCompleted
<1>8. [k \in Keys |-> IF IsCompleted(k)' THEN records'[k].response ELSE None]
        = [[k \in Keys |-> IF IsCompleted(k) THEN records[k].response ELSE None]
             EXCEPT ![key] = Abstract!Kept(answer[key])]
  BY <1>0, <1>3, <1>4, <1>6, <1>7
<1>9. Abstract!Keep(key)
  BY <1>0, <1>2, <1>3, <1>5, <1>6, <1>8 DEF Abstract!Keep
<1> QED BY <1>0, <1>9

\* A replay, from the cache or the record, tells what is kept.
LEMMA GetTells ==
  ASSUME RecordInv, AnswerInv, NEW p \in Requests, GetResponse(p)
  PROVE  \E k \in Keys : Abstract!Tell(k)
<1> PICK key, h : key = loc[p].key /\ h = loc[p].hash
  OBVIOUS
<1>0. TypeOK /\ key \in Keys /\ h \in Hashes /\ pc[p] = "get_response"
  BY DEF RecordInv, RequestReady, GetResponse
<1>1. PICK response \in Cached(key, loc[p].rec.hash) \cup {loc[p].rec.response} :
        replayed' = [replayed EXCEPT ![key][h] = @ \cup {response}]
  BY DEF GetResponse
<1>2. IsCompleted(key) /\ records[key].hash = h /\ response = records[key].response
  BY <1>0, <1>1, FoundResponse
<1>3. response \in Responses /\ response # None /\ records[key] # None
  BY <1>0, <1>2, NoneAssumption DEF RecordInv, ResponseSet, IsCompleted
<1>4. records' = records /\ UNCHANGED <<mutations, answer>>
  BY DEF GetResponse
<1> DEFINE takenBy == [k \in Keys |-> IF records[k] = None THEN None ELSE records[k].hash]
           keptOf  == [k \in Keys |-> IF IsCompleted(k) THEN records[k].response ELSE None]
<1>5. takenBy[key] = h /\ keptOf[key] = response
  BY <1>0, <1>2, <1>3
<1> HIDE DEF takenBy, keptOf
<1>6. /\ keptOf[key] # None
      /\ replayed' = [replayed EXCEPT ![key][takenBy[key]] = @ \cup {keptOf[key]}]
  BY <1>1, <1>3, <1>5
<1>7. Abstract!Tell(key)
  BY <1>4, <1>6, SameRegister DEF Abstract!Tell, takenBy, keptOf
<1> QED BY <1>0, <1>7

\* The service call carries the request out, whatever becomes of it.
LEMMA ServeCarriesOut ==
  ASSUME RecordInv, MutationInv, NEW p \in Requests, Serve(p) \/ ServePanics(p)
  PROVE  \E k \in Keys, outcome \in Abstract!Outcomes : Abstract!CarryOut(k, outcome)
<1> PICK key : key = loc[p].key
  OBVIOUS
<1>0. /\ TypeOK /\ key \in Keys /\ records[key] \in Record /\ records[key] # None
      /\ answer[key] = None /\ mutations[key] = 0
  BY NoneAssumption DEF RecordInv, RequestReady, MutationInv, Untouched, Serve, ServePanics, TypeOK
<1>1. records' = records /\ replayed' = replayed
  BY DEF Serve, ServePanics
<1>2. records[key].hash # None
  BY <1>0, NoneAssumption DEF Record
<1>3. PICK outcome \in Abstract!Outcomes :
        /\ mutations' = [mutations EXCEPT ![key] = @ + outcome[1]]
        /\ answer' = [answer EXCEPT ![key] = outcome[2]]
  <2>1. CASE Serve(p)
    <3>1. PICK o \in ServiceOutcomes :
            /\ mutations' = [mutations EXCEPT ![key] = @ + o.commits]
            /\ answer' = [answer EXCEPT ![key] = o.response]
      BY <2>1 DEF Serve
    <3>2. <<o.commits, o.response>> \in Abstract!Outcomes
      BY DEF ServiceOutcomes, Abstract!Outcomes
    <3> QED BY <3>1, <3>2
  <2>2. CASE ServePanics(p)
    <3>1. PICK commits \in {0, 1} : mutations' = [mutations EXCEPT ![key] = @ + commits]
      BY <2>2 DEF ServePanics
    <3>2. <<commits, "internal">> \in Abstract!Outcomes
      BY DEF Abstract!Outcomes
    <3> QED BY <2>2, <3>1, <3>2 DEF ServePanics
  <2> QED BY <2>1, <2>2
<1>4. Abstract!CarryOut(key, outcome)
  BY <1>0, <1>1, <1>2, <1>3, SameRegister DEF Abstract!CarryOut
<1> QED BY <1>0, <1>4

\* The requests with a key are one request: however they overlap, fail or
\* are retried, each of their statements is a step of the one-shot register
\* or none, in its order.
THEOREM OneShotRefined == Spec => ImplementsOneShot
<1> DEFINE Inv == RecordInv /\ MutationInv /\ AnswerInv /\ KeptInv
<1>1. Init => Abstract!Init
  BY DEF Init, Abstract!Init, IsCompleted
<1>2. ASSUME Inv, [Next]_vars PROVE [Abstract!Next]_(Abstract!ovars)
  <2>1. ASSUME NEW p \in Requests, CreateRecord(p), records[loc[p].key] = None
        PROVE  Abstract!Next
    BY <1>2, <2>1, CreateTakes DEF Abstract!Next
  <2>2. ASSUME NEW p \in Requests, Serve(p) \/ ServePanics(p) PROVE Abstract!Next
    BY <1>2, <2>2, ServeCarriesOut DEF Abstract!Next
  <2>3. ASSUME NEW p \in Requests, UpdateRecord(p), Storable(loc[p].rec) PROVE Abstract!Next
    BY <1>2, <2>3, UpdateKeeps DEF Abstract!Next
  <2>4. ASSUME NEW p \in Requests, GetResponse(p) PROVE Abstract!Next
    BY <1>2, <2>4, GetTells DEF Abstract!Next
  <2>5. CASE UNCHANGED <<records, mutations, answer, replayed>>
    BY <2>5, SameRegister DEF Abstract!ovars
  <2>6. ASSUME NEW p \in Requests,
               \/ CreateRecord(p) /\ records[loc[p].key] # None
               \/ UpdateRecord(p) /\ ~Storable(loc[p].rec)
        PROVE  UNCHANGED <<records, mutations, answer, replayed>>
    BY <2>6 DEF CreateRecord, UpdateRecord, KeyIsFree, history
  <2>7. \/ UNCHANGED <<records, mutations, answer, replayed>>
        \/ \E p \in Requests : \/ CreateRecord(p) \/ Serve(p) \/ ServePanics(p)
                               \/ UpdateRecord(p) \/ GetResponse(p)
    BY <1>2 DEF Next, Step, Tick, Evict, Arrive, LookUp, ReadRecord, SetResponse, Vanish, vars, history
  <2> QED BY <2>1, <2>2, <2>3, <2>4, <2>5, <2>6, <2>7
<1>3. Init => KeptInv
  BY DEF Init, KeptInv, KeptReady
<1>4. Spec => []KeptInv
  BY <1>3, KeptStep, RecordsKept, PTL DEF Spec
<1> QED BY <1>1, <1>2, <1>4, RecordsKept, MutationsKept, AnswersKept, PTL
        DEF Spec, ImplementsOneShot, Abstract!Spec
=============================================================================
