--------------------------- MODULE EvidenceCache ---------------------------
(***************************************************************************)
(* What the evidence store promises its callers, with no locks, staging    *)
(* directories or fsyncs.  Each of load, verify, quarantine and put is a   *)
(* request that takes effect in one atomic step and answers then.          *)
(* EvidenceStore is shown to implement this specification.                 *)
(***************************************************************************)
EXTENDS EvidenceRecords

VARIABLES
  cache,    \* cache[k]: the record a caller would find for key k, or NoEntry
  undo,     \* undo[k]: removals from k that stable storage does not hold yet
  request,  \* request[p]: the operation p is executing, or NoRequest
  outcome   \* outcome[p]: what p's latest completed operation answered

cacheVars == <<cache, undo, request, outcome>>

-----------------------------------------------------------------------------
CacheInit ==
  /\ cache = [k \in Key |-> NoEntry]
  /\ undo = [k \in Key |-> {}]
  /\ request = [p \in Proc |-> NoRequest]
  /\ outcome = [p \in Proc |-> NoOutcome]

Call(p) ==
  /\ request[p] = NoRequest
  /\ \E r \in Request : request' = [request EXCEPT ![p] = r]
  /\ outcome' = [outcome EXCEPT ![p] = NoOutcome]
  /\ UNCHANGED <<cache, undo>>

\* p's operation ends with answer a about record e.
Answers(p, a, e) ==
  /\ outcome' = [outcome EXCEPT ![p] =
                   [answer |-> a, key |-> request[p].key, record |-> e]]
  /\ request' = [request EXCEPT ![p] = NoRequest]

\* A verified record is handed out; nothing changes in the cache.
Hit(p) ==
  LET r == request[p] IN
  /\ r # NoRequest /\ r.op # "quarantine"
  /\ Verifies(cache[r.key], Expected(r))
  /\ Answers(p, IF r.op = "put" THEN "reused" ELSE "hit", cache[r.key])
  /\ UNCHANGED <<cache, undo>>

\* A record that fails the caller's verification is moved aside; only
\* quarantine moves one that would verify.
Discard(p) ==
  LET r == request[p] IN
  /\ r # NoRequest /\ r.op # "verify"
  /\ cache[r.key] # NoEntry
  /\ r.op = "quarantine" \/ ~ Verifies(cache[r.key], Expected(r))
  /\ cache' = [cache EXCEPT ![r.key] = NoEntry]
  /\ undo' = [undo EXCEPT ![r.key] = @ \cup {cache[r.key]}]
  /\ UNCHANGED <<request, outcome>>

\* The removals p made are stable now, or were before.
Settled(k) == undo' \in {undo, [undo EXCEPT ![k] = {}]}

\* load and quarantine answer once the key is empty.
Miss(p) ==
  LET r == request[p] IN
  /\ r # NoRequest /\ r.op \in {"load", "quarantine"}
  /\ cache[r.key] = NoEntry
  /\ Answers(p, IF r.op = "load" THEN "miss" ELSE "moved", NoEntry)
  /\ Settled(r.key) /\ UNCHANGED cache

\* verify never changes the cache: it raises where load would discard.
VerifyRaises(p) ==
  LET r == request[p] IN
  /\ r # NoRequest /\ r.op = "verify"
  /\ ~ Verifies(cache[r.key], r.boundary)
  /\ Answers(p, "raised", NoEntry)
  /\ UNCHANGED <<cache, undo>>

\* put fills an empty key, and only with a whole record.
Store(p) ==
  LET r == request[p] IN
  /\ r # NoRequest /\ r.op = "put"
  /\ cache[r.key] = NoEntry /\ r.record.state = "whole"
  /\ cache' = [cache EXCEPT ![r.key] = r.record]
  /\ Settled(r.key)
  /\ Answers(p, "stored", r.record)

\* The record a failing put withdraws may come back with a power loss.
Withdraw(p) ==
  LET r == request[p] IN
  /\ r # NoRequest /\ r.op = "put" /\ cache[r.key] = NoEntry
  /\ \E e \in {r.record, Rotten(r.record)} :
       undo' = [undo EXCEPT ![r.key] = @ \cup {e}]
  /\ UNCHANGED <<cache, request, outcome>>

Settle(k) ==
  /\ undo' = [undo EXCEPT ![k] = {}]
  /\ UNCHANGED <<cache, request, outcome>>

\* What a put cut short may have left at key k.
Unfinished(p, k) ==
  IF request[p] # NoRequest /\ request[p].op = "put" /\ request[p].key = k
       /\ request[p].record.state = "whole"
  THEN {request[p].record, Rotten(request[p].record)} ELSE {}

\* An operation that raises has done nothing, or has emptied the key; a put
\* whose handler fails as well may leave its record behind.
Raises(p) ==
  LET r == request[p] IN
  /\ r # NoRequest /\ r.op # "verify"
  /\ Answers(p, "raised", NoEntry)
  /\ \/ UNCHANGED <<cache, undo>>
     \/ cache[r.key] = NoEntry /\ Settled(r.key) /\ UNCHANGED cache
     \/ /\ cache[r.key] = NoEntry /\ UNCHANGED undo
        /\ \E e \in Unfinished(p, r.key) : cache' = [cache EXCEPT ![r.key] = e]

\* A process that dies mid-operation has had its effect or none.
Die(p) ==
  LET r == request[p] IN
  /\ r # NoRequest
  /\ request' = [request EXCEPT ![p] = NoRequest]
  /\ \/ UNCHANGED cache
     \/ /\ cache[r.key] = NoEntry
        /\ \E e \in Unfinished(p, r.key) : cache' = [cache EXCEPT ![r.key] = e]
  /\ UNCHANGED <<undo, outcome>>

Rot(k) ==
  /\ cache[k] # NoEntry
  /\ cache' = [cache EXCEPT ![k] = Rotten(@)]
  /\ UNCHANGED <<undo, request, outcome>>

\* The machine loses power: unfinished operations have had their effect or
\* none, removals not yet stable may be undone, and an entry may vanish.
LosePower ==
  /\ request' = [p \in Proc |-> NoRequest]
  /\ undo' = [k \in Key |-> {}]
  /\ cache' \in [Key -> Record \cup {NoEntry}]
  /\ \A k \in Key :
       cache'[k] \in {cache[k], NoEntry} \cup undo[k]
                       \cup UNION {Unfinished(p, k) : p \in Proc}
  /\ UNCHANGED outcome

CacheNext ==
  \/ \E p \in Proc : \/ Call(p) \/ Hit(p) \/ Discard(p) \/ Miss(p)
                     \/ VerifyRaises(p) \/ Store(p) \/ Raises(p)
                     \/ Withdraw(p) \/ Die(p)
  \/ \E k \in Key : Settle(k) \/ Rot(k)
  \/ LosePower

CacheSpec == CacheInit /\ [][CacheNext]_cacheVars
=============================================================================
