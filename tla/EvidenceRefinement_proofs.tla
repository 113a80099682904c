--------------------- MODULE EvidenceRefinement_proofs ---------------------
(***************************************************************************)
(* The store with its locks, renames and fsyncs implements EvidenceCache,  *)
(* the store whose operations take effect in one step: every initial state *)
(* maps to an initial state, every step to a step or to none.              *)
(***************************************************************************)
EXTENDS EvidenceStore_proofs

\* Beyond IInv: what the abstract store can see of a process.
Refining ==
  \A p \in Proc :
    /\ pc[p] = "idle" => request[p] = NoRequest
    /\ pc[p] = "undo_sync" => disk[K(p)] = NoEntry
    /\ pc[p] \in Unconfirmed /\ disk[K(p)] # NoEntry =>
         request[p].record.state = "whole"

\* The cache the abstract store has in this state.
Shown == [k \in Key |-> Cached(k)]

RInv == IInv /\ Refining
-----------------------------------------------------------------------------
\* An entry is out of sight while a put at its key has not confirmed it.
HiddenWhilePut ==
  \A k \in Key :
    Cached(k) = IF \E p \in Proc : pc[p] \in Unconfirmed /\ K(p) = k
                THEN NoEntry ELSE disk[k]

\* The cache can be told from the steps of the processes, without the locks.
LEMMA Hidden == Control => HiddenWhilePut
<1> SUFFICES ASSUME Control, NEW k \in Key
             PROVE  (\E p \in owner[k] : pc[p] \in Unconfirmed)
                      <=> \E p \in Proc : pc[p] \in Unconfirmed /\ K(p) = k
  BY DEF Cached, HiddenWhilePut
<1> QED
  BY DEF Control, ControlTypes, LocksHeld, Unconfirmed, Writing

\* No entry and no put about to confirm one has changed: nor has the cache.
LEMMA SameCache ==
  ASSUME IInv, IInv', disk' = disk,
         \A q \in Proc : \/ pc'[q] = pc[q] /\ request'[q] = request[q]
                         \/ pc[q] \notin Unconfirmed /\ pc'[q] \notin Unconfirmed
  PROVE  Shown' = Shown
<1>1. Control /\ Control'
  BY DEF IInv
<1>2. HiddenWhilePut /\ HiddenWhilePut'
  BY <1>1, Hidden, PTL
<1>3. \A k \in Key : Cached(k)' = Cached(k)
  BY <1>2 DEF HiddenWhilePut, K
<1> QED
  BY <1>3 DEF Shown

\* A writer changes the cache at its own key only.
LEMMA WriterCache ==
  ASSUME IInv, IInv', NEW p \in Proc, pc[p] \in Writing,
         \A q \in Proc \ {p} : pc'[q] = pc[q] /\ request'[q] = request[q],
         \A k \in Key : k # K(p) => disk'[k] = disk[k],
         pc'[p] \in Unconfirmed => request'[p] = request[p]
  PROVE  /\ K(p) \in Key
         /\ Shown[K(p)] = IF pc[p] \in Unconfirmed THEN NoEntry ELSE disk[K(p)]
         /\ Shown' = [Shown EXCEPT ![K(p)] =
                        IF pc'[p] \in Unconfirmed THEN NoEntry ELSE disk'[K(p)]]
<1>1. Control /\ Control' /\ K(p) \in Key
  BY Working DEF IInv, Writing
<1>2. HiddenWhilePut /\ HiddenWhilePut'
  BY <1>1, Hidden, PTL
<1>3. \A q \in Proc \ {p} : pc[q] \in Unconfirmed => K(q) # K(p)
  BY <1>1, Exclusion DEF WritersAlone, Writing, Unconfirmed
<1>4. \A q \in Proc \ {p} : K(q)' = K(q)
  BY DEF K
<1>5. pc'[p] \in Unconfirmed => K(p)' = K(p)
  BY DEF K
<1>6. Cached(K(p)) = IF pc[p] \in Unconfirmed THEN NoEntry ELSE disk[K(p)]
  BY <1>1, <1>2, <1>3 DEF HiddenWhilePut
<1>7. \A k \in Key : k # K(p) => Cached(k)' = Cached(k)
  BY <1>1, <1>2, <1>4, <1>5 DEF HiddenWhilePut
<1>8. (\E q \in Proc : pc'[q] \in Unconfirmed /\ K(q)' = K(p)) <=> pc'[p] \in Unconfirmed
  BY <1>1, <1>3, <1>4, <1>5
<1>9. ASSUME NEW k \in Key, k = K(p)
      PROVE  Cached(k)' = IF pc'[p] \in Unconfirmed THEN NoEntry ELSE disk'[k]
  BY <1>2, <1>8, <1>9 DEF HiddenWhilePut
<1> QED
  BY <1>1, <1>6, <1>7, <1>9 DEF Shown

\* A process changes the entry of the key it holds for writing, if any.
LEMMA ActsAtKey ==
  ASSUME IInv, NEW q \in Proc, Acts(q)
  PROVE  \/ disk' = disk
         \/ /\ pc[q] \in Writing /\ K(q) \in Key
            /\ \A k \in Key : k # K(q) => disk'[k] = disk[k]
<1>1. ASSUME LoadRecheck(q) \/ QuarantineMove(q) \/ PutCheck(q) \/ PutReplace(q) \/ PutUndo(q)
      PROVE  \/ disk' = disk
             \/ pc[q] \in Writing /\ \E e : disk' = [disk EXCEPT ![K(q)] = e]
  BY <1>1
     DEF LoadRecheck, QuarantineMove, PutCheck, PutCheckAnswers, PutReplace, PutUndo, MoveAside,
         Writing, store
<1>2. ASSUME \/ LoadLock(q) \/ LoadCheck(q) \/ LoadUpgrade(q) \/ VerifyLock(q) \/ VerifyCheck(q)
             \/ QuarantineLock(q) \/ MovedSync(q) \/ PutLock(q) \/ PutWrite(q) \/ PutFsync(q)
             \/ PutVerify(q) \/ PutSync(q) \/ PutConfirm(q) \/ UndoSync(q) \/ Call(q)
             \/ PutFails(q) \/ MoveFails(q) \/ SyncFails(q) \/ Crash(q)
      PROVE  disk' = disk
  BY <1>2
     DEF LoadLock, LoadCheck, LoadUpgrade, VerifyLock, VerifyCheck, QuarantineLock, MovedSync,
         PutLock, PutWrite, PutFsync, PutVerify, PutSync, PutConfirm, UndoSync, Call, PutFails,
         MoveFails, SyncFails, Crash, Acquired, store
<1>3. disk \in [Key -> Record \cup {NoEntry}] /\ (pc[q] # "idle" => K(q) \in Key)
  BY Working DEF IInv, Contents, StoreTypes
<1> QED
  BY <1>1, <1>2, <1>3 DEF Acts, Step, Writing

\* Under its lock a process sees no change of others to its entry.
LEMMA KeptByOthers ==
  ASSUME IInv, NEW q \in Proc, Acts(q), NEW p \in Proc, p # q, pc[p] \in Writing
  PROVE  disk'[K(p)] = disk[K(p)]
<1>1. K(p) \in Key /\ (pc[q] \in Writing => K(q) # K(p))
  BY Working, Exclusion DEF IInv, WritersAlone, Writing
<1> QED
  BY <1>1, ActsAtKey

\* What a put about to confirm, or about to undo, finds in place.
LEMMA RefiningNext ==
  ASSUME RInv, [Next]_vars
  PROVE  Refining'
<1>1. /\ pc \in [Proc -> PC] /\ request \in [Proc -> Request \cup {NoRequest}]
      /\ disk \in [Key -> Record \cup {NoEntry}]
  BY DEF RInv, IInv, Control, ControlTypes, Contents, StoreTypes
<1>2. ASSUME NEW q \in Proc, Acts(q), NEW p \in Proc, p # q
      PROVE  /\ pc'[p] = "idle" => request'[p] = NoRequest
             /\ pc'[p] = "undo_sync" => disk'[K(p)'] = NoEntry
             /\ pc'[p] \in Unconfirmed /\ disk'[K(p)'] # NoEntry =>
                  request'[p].record.state = "whole"
  <2>1. pc'[p] = pc[p] /\ request'[p] = request[p] /\ K(p)' = K(p)
    BY <1>2, OneMoves DEF RInv, K
  <2>2. pc[p] \in Writing => disk'[K(p)] = disk[K(p)]
    BY <1>2, KeptByOthers DEF RInv
  <2> QED
    BY <2>1, <2>2 DEF RInv, Refining, Unconfirmed, Writing
<1>3. ASSUME NEW p \in Proc, Acts(p), pc'[p] = "idle"
      PROVE  request'[p] = NoRequest
  <2>1. ~ Call(p)
    BY <1>1, <1>3, RequestFields DEF Call, GoTo, FirstStep
  <2> QED
    BY <1>3, <2>1, OneMoves DEF RInv
<1>4. ASSUME NEW p \in Proc, Acts(p), pc'[p] \in Unconfirmed \cup {"undo_sync"}
      PROVE  \/ PutVerify(p) \/ PutReplace(p) \/ PutSync(p) \/ PutConfirm(p) \/ PutFails(p)
             \/ PutUndo(p)
  <2>1. MovedSync(p) => request[p].op \in {"load", "quarantine", "put"}
    BY Working DEF RInv, MovedSync, StepOf, LoadSteps, VerifySteps, QuarantineSteps
  <2>2. ~ Call(p)
    BY <1>1, <1>4, RequestFields DEF Call, GoTo, FirstStep, Unconfirmed
  <2>3. ASSUME \/ LoadLock(p) \/ LoadCheck(p) \/ LoadUpgrade(p) \/ LoadRecheck(p)
               \/ VerifyLock(p) \/ VerifyCheck(p) \/ QuarantineLock(p) \/ QuarantineMove(p)
               \/ MovedSync(p) \/ PutLock(p) \/ PutCheck(p) \/ PutWrite(p) \/ PutFsync(p)
               \/ UndoSync(p) \/ MoveFails(p) \/ SyncFails(p) \/ Crash(p)
        PROVE  \E s \in PC \ (Unconfirmed \cup {"undo_sync"}) : GoTo(p, s)
    BY <2>1, <2>3
       DEF LoadLock, LoadCheck, LoadUpgrade, LoadRecheck, VerifyLock, VerifyCheck,
           QuarantineLock, QuarantineMove, MovedSync, PutLock, PutCheck, PutCheckAnswers,
           PutWrite, PutFsync, UndoSync, MoveFails, SyncFails, Crash, PutGoes, Raise, CleanUp,
           Finish, Leave, Acquired, PC, Unconfirmed
  <2> QED
    BY <1>1, <1>4, <2>2, <2>3 DEF Acts, Step, GoTo
<1>5. ASSUME NEW p \in Proc, Acts(p), pc'[p] = "undo_sync"
      PROVE  disk'[K(p)'] = NoEntry
  <2>1. PutUndo(p) /\ Entry(p) # NoEntry
    BY <1>1, <1>4, <1>5
       DEF PutVerify, PutReplace, PutSync, PutConfirm, PutFails, PutUndo, PutGoes, GoTo, Finish,
           Leave, CleanUp, Raise
  <2>2. K(p) \in Key
    BY <2>1, Working DEF RInv, PutUndo
  <2> QED
    BY <1>1, <2>1, <2>2 DEF PutUndo, MoveAside, K
<1>6. ASSUME NEW p \in Proc, Acts(p), pc'[p] \in Unconfirmed, disk'[K(p)'] # NoEntry
      PROVE  request'[p].record.state = "whole"
  <2>1. CASE PutReplace(p)
    BY <1>1, <1>6, <2>1
       DEF RInv, IInv, Contents, Staged, OwnEntry, PutReplace, Entry, K
  <2>2. CASE PutVerify(p) \/ PutSync(p) \/ PutConfirm(p) \/ PutFails(p)
    <3>1. disk' = disk /\ (request'[p] = request[p] \/ pc'[p] = "idle")
      BY <1>1, <2>2 DEF PutVerify, PutSync, PutConfirm, PutFails, PutGoes, Finish, Leave, GoTo, store
    <3>2. disk[K(p)] # NoEntry /\ request'[p] = request[p]
      BY <1>6, <3>1 DEF K, Unconfirmed
    <3>3. pc[p] \in Unconfirmed
      BY <2>2, <3>2
         DEF RInv, IInv, Contents, OwnEntry, PutVerify, PutSync, PutConfirm, PutFails, PutGoes,
             Unconfirmed
    <3> QED
      BY <3>2, <3>3 DEF RInv, Refining
  <2>3. CASE PutUndo(p)
    BY <1>1, <1>6, <2>3 DEF PutUndo, CleanUp, Raise, Leave, GoTo, Unconfirmed
  <2> QED
    BY <1>4, <1>6, <2>1, <2>2, <2>3
<1>7. CASE PowerLoss
  BY <1>7 DEF PowerLoss, Refining, Unconfirmed
<1>8. ASSUME NEW k \in Key, Rot(k)
      PROVE  Refining'
  <2>1. /\ pc' = pc /\ request' = request
        /\ \A p \in Proc : K(p) \in Key => (disk'[K(p)] = NoEntry <=> disk[K(p)] = NoEntry)
    BY <1>1, <1>8, RecordFields DEF Rot
  <2> QED
    BY <2>1, Working DEF RInv, Refining, K, Unconfirmed
<1>9. CASE UNCHANGED vars
  BY <1>9 DEF RInv, Refining, vars, store, K
<1>10. CASE \E q \in Proc : Acts(q)
  BY <1>2, <1>3, <1>5, <1>6, <1>10 DEF Refining
<1> QED
  BY <1>7, <1>8, <1>9, <1>10 DEF Next, Acts
-----------------------------------------------------------------------------
(* The step the abstract store takes, for each action.                     *)

\* The two stores speak of the same requests and records.
LEMMA SameWords ==
  /\ Abstract!Request = Request /\ Abstract!Record = Record
  /\ \A e, b : Abstract!Verifies(e, b) <=> Verifies(e, b)
  /\ \A r : Abstract!Expected(r) = Expected(r)
  /\ \A e : Abstract!Rotten(e) = Rotten(e)
BY DEF Abstract!Request, Request, Abstract!Record, Record, Abstract!RecordState, RecordState,
       Abstract!Verifies, Verifies, Abstract!Expected, Expected, Abstract!Rotten, Rotten

\* Entering an operation.
LEMMA CallMaps ==
  ASSUME RInv, IInv', NEW p \in Proc, Call(p)
  PROVE  Abstract!Call(p)
<1>1. pc'[p] \notin Unconfirmed /\ \A q \in Proc \ {p} : pc'[q] = pc[q] /\ request'[q] = request[q]
  BY RequestFields
     DEF RInv, IInv, Control, ControlTypes, Call, GoTo, FirstStep, Unconfirmed
<1>2. Shown' = Shown
  BY <1>1, SameCache DEF RInv, Call, store, Unconfirmed
<1>3. request[p] = NoRequest
  BY DEF RInv, Refining, Call
<1> QED
  BY <1>2, <1>3, SameWords DEF Call, Abstract!Call, Shown, store

\* What a step leaves of the cache when its process is not about to confirm.
LEMMA PlainStep ==
  ASSUME IInv, IInv', NEW p \in Proc, disk' = disk, pc[p] \notin Unconfirmed,
         NEW s \in PC \ Unconfirmed, GoTo(p, s),
         \A q \in Proc \ {p} : request'[q] = request[q]
  PROVE  Shown' = Shown
BY SameCache DEF IInv, Control, ControlTypes, GoTo

\* An operation that ends without having changed an entry.
LEMMA PlainEnd ==
  ASSUME IInv, IInv', NEW p \in Proc, disk' = disk, pc[p] \notin Unconfirmed,
         NEW a, NEW e, Leave(p, a, e)
  PROVE  /\ Shown' = Shown
         /\ outcome' = [outcome EXCEPT ![p] =
                          [answer |-> a, key |-> request[p].key, record |-> e]]
         /\ request' = [request EXCEPT ![p] = NoRequest]
<1>1. GoTo(p, "idle") /\ request' = [request EXCEPT ![p] = NoRequest]
  BY DEF Leave
<1>2. \A q \in Proc \ {p} : request'[q] = request[q]
  BY <1>1 DEF IInv, Control, ControlTypes
<1> QED
  BY <1>1, <1>2, PlainStep DEF Leave, PC, Unconfirmed, K

\* The entry a process sees under its lock is the abstract one.
LEMMA SeenUnderLock ==
  ASSUME IInv, NEW p \in Proc, pc[p] \in (Writing \cup Reading) \ Unconfirmed
  PROVE  K(p) \in Key /\ Shown[K(p)] = Entry(p)
<1>1. Control /\ HiddenWhilePut /\ K(p) \in Key
  BY Hidden, Working DEF IInv, Writing, Reading
<1>2. \A q \in Proc : pc[q] \in Unconfirmed => K(q) # K(p)
  BY <1>1, Exclusion DEF WritersAlone, Writing, Reading, Unconfirmed
<1> QED
  BY <1>1, <1>2 DEF HiddenWhilePut, Shown, Entry

\* The steps that only lock, look or stage are not seen.
LEMMA LocksMap ==
  ASSUME RInv, IInv', NEW p \in Proc,
         \/ LoadLock(p) \/ LoadUpgrade(p) \/ VerifyLock(p) \/ QuarantineLock(p) \/ PutLock(p)
         \/ PutWrite(p) \/ PutFsync(p)
  PROVE  UNCHANGED <<Shown, undo, request, outcome>>
<1>1. /\ UNCHANGED <<disk, undo, request, outcome>> /\ pc[p] \notin Unconfirmed
      /\ \E s \in PC \ Unconfirmed : GoTo(p, s)
  BY DEF LoadLock, LoadUpgrade, VerifyLock, QuarantineLock, PutLock, PutWrite, PutFsync,
         Acquired, PutGoes, store, PC, Unconfirmed
<1> QED
  BY <1>1, PlainStep DEF RInv

\* A reader answers, or comes back for the writer's lock.
LEMMA ReadersMap ==
  ASSUME RInv, IInv', NEW p \in Proc, LoadCheck(p) \/ VerifyCheck(p)
  PROVE  \/ Abstract!Miss(p) \/ Abstract!Hit(p) \/ Abstract!VerifyRaises(p)
         \/ UNCHANGED <<Shown, undo, request, outcome>>
<1>1. /\ pc[p] \in Reading /\ pc[p] \notin Unconfirmed /\ request[p] \in Request
      /\ StepOf(pc[p], request[p]) /\ UNCHANGED <<disk, undo>>
  BY Working DEF RInv, LoadCheck, VerifyCheck, Reading, Unconfirmed, store
<1>2. /\ Shown[request[p].key] = Entry(p) /\ request[p] # NoRequest
      /\ LoadCheck(p) => request[p].op = "load"
      /\ VerifyCheck(p) => request[p].op = "verify"
  BY <1>1, SeenUnderLock, RequestFields
     DEF RInv, K, LoadCheck, VerifyCheck, StepOf, LoadSteps, VerifySteps, QuarantineSteps, PutSteps
<1>3. ASSUME NEW a, NEW e, Finish(p, a, e)
      PROVE  /\ Shown' = Shown
             /\ outcome' = [outcome EXCEPT ![p] =
                              [answer |-> a, key |-> request[p].key, record |-> e]]
             /\ request' = [request EXCEPT ![p] = NoRequest]
  BY <1>1, <1>3, PlainEnd DEF RInv, Finish
<1>4. CASE LoadCheck(p) /\ Finish(p, "miss", NoEntry) /\ Entry(p) = NoEntry
  BY <1>1, <1>2, <1>3, <1>4 DEF Abstract!Miss, Abstract!Answers, Abstract!Settled, Shown
<1>5. CASE Finish(p, "hit", Entry(p)) /\ Verifies(Entry(p), Expected(request[p]))
  BY <1>1, <1>2, <1>3, <1>5, SameWords DEF Abstract!Hit, Abstract!Answers, Shown
<1>6. CASE /\ VerifyCheck(p) /\ Finish(p, "raised", NoEntry)
           /\ ~ Verifies(Entry(p), Expected(request[p]))
  BY <1>1, <1>2, <1>3, <1>6, SameWords
     DEF Abstract!VerifyRaises, Abstract!Answers, Expected, Shown
<1>7. CASE GoTo(p, "load_ex") /\ UNCHANGED <<request, outcome>>
  BY <1>1, <1>7, PlainStep DEF RInv, PC, Unconfirmed
<1> QED
  BY <1>4, <1>5, <1>6, <1>7 DEF LoadCheck, VerifyCheck

\* A failing entry is moved: to the abstract store it is discarded.
LEMMA MoveMaps ==
  ASSUME RInv, IInv', NEW p \in Proc, pc[p] \in Writing \ Unconfirmed, MoveAside(K(p)),
         Entry(p) # NoEntry, request[p].op # "verify",
         request[p].op = "quarantine" \/ ~ Verifies(Entry(p), Expected(request[p])),
         GoTo(p, "moved_sync"), UNCHANGED <<request, outcome>>
  PROVE  Abstract!Discard(p)
<1>1. /\ request[p] # NoRequest /\ K(p) \in Key /\ Shown[K(p)] = Entry(p)
  BY Working, RequestFields, SeenUnderLock DEF RInv, Writing
<1>2. /\ pc'[p] = "moved_sync" /\ \A q \in Proc \ {p} : pc'[q] = pc[q]
      /\ disk' = [disk EXCEPT ![K(p)] = NoEntry]
      /\ disk \in [Key -> Record \cup {NoEntry}]
      /\ undo' = [undo EXCEPT ![K(p)] = @ \cup {disk[K(p)]}]
  BY DEF RInv, IInv, Control, ControlTypes, Contents, StoreTypes, GoTo, MoveAside, Entry
<1>3. Shown' = [Shown EXCEPT ![K(p)] = NoEntry]
  BY <1>1, <1>2, WriterCache DEF RInv, Unconfirmed
<1> QED
  BY <1>1, <1>2, <1>3, SameWords DEF Abstract!Discard, Shown, K, Entry

\* Under the writer's lock: answer with the entry, or that there is none.
LEMMA WritersMap ==
  ASSUME RInv, IInv', NEW p \in Proc, LoadRecheck(p) \/ QuarantineMove(p) \/ PutCheck(p)
  PROVE  \/ Abstract!Miss(p) \/ Abstract!Hit(p) \/ Abstract!Discard(p)
         \/ UNCHANGED <<Shown, undo, request, outcome>>
<1>1. /\ pc[p] \in Writing \ Unconfirmed /\ request[p] \in Request
      /\ StepOf(pc[p], request[p]) /\ request[p] # NoRequest
  BY Working, RequestFields
     DEF RInv, LoadRecheck, QuarantineMove, PutCheck, PutCheckAnswers, Writing, Unconfirmed
<1>2. /\ K(p) \in Key /\ Shown[request[p].key] = Entry(p)
      /\ LoadRecheck(p) => request[p].op = "load"
      /\ QuarantineMove(p) => request[p].op = "quarantine"
      /\ PutCheck(p) => request[p].op = "put"
  BY <1>1, SeenUnderLock
     DEF RInv, K, LoadRecheck, QuarantineMove, PutCheck, PutCheckAnswers, StepOf, LoadSteps,
         VerifySteps, QuarantineSteps, PutSteps
<1>3. ASSUME NEW a, NEW e, Finish(p, a, e), disk' = disk
      PROVE  /\ Shown' = Shown
             /\ outcome' = [outcome EXCEPT ![p] =
                              [answer |-> a, key |-> request[p].key, record |-> e]]
             /\ request' = [request EXCEPT ![p] = NoRequest]
  BY <1>1, <1>3, PlainEnd DEF RInv, Finish
<1>4. CASE LoadRecheck(p)
  <2>1. CASE Entry(p) = NoEntry /\ Finish(p, "miss", NoEntry) /\ UNCHANGED store
    BY <1>1, <1>2, <1>3, <1>4, <2>1
       DEF Abstract!Miss, Abstract!Answers, Abstract!Settled, Shown, store
  <2>2. CASE /\ Verifies(Entry(p), Expected(request[p]))
             /\ Finish(p, "hit", Entry(p)) /\ UNCHANGED store
    BY <1>1, <1>2, <1>3, <1>4, <2>2, SameWords DEF Abstract!Hit, Abstract!Answers, Shown, store
  <2> QED
    BY <1>1, <1>2, <1>4, <2>1, <2>2, MoveMaps DEF LoadRecheck
<1>5. CASE QuarantineMove(p)
  <2>1. CASE Entry(p) = NoEntry
    <3>1. UNCHANGED <<disk, undo>>
      BY <1>2, <1>5, <2>1
         DEF QuarantineMove, MoveAside, Entry, RInv, IInv, Contents, StoreTypes
    <3> QED
      BY <1>1, <1>2, <1>3, <1>5, <2>1, <3>1
         DEF QuarantineMove, Abstract!Miss, Abstract!Answers, Abstract!Settled, Shown
  <2> QED
    BY <1>1, <1>2, <1>5, <2>1, MoveMaps DEF QuarantineMove
<1>6. CASE PutCheck(p)
  <2>1. CASE /\ Verifies(Entry(p), Expected(request[p]))
             /\ Finish(p, "reused", Entry(p)) /\ UNCHANGED store
    BY <1>1, <1>2, <1>3, <1>6, <2>1, SameWords DEF Abstract!Hit, Abstract!Answers, Shown, store
  <2>2. CASE /\ GoTo(p, "put_write") /\ UNCHANGED <<store, request, outcome>>
    BY <1>1, <2>2, PlainStep DEF RInv, PC, Unconfirmed, store
  <2> QED
    BY <1>1, <1>2, <1>6, <2>1, <2>2, MoveMaps DEF PutCheck, PutCheckAnswers
<1> QED
  BY <1>4, <1>5, <1>6

\* The fsyncs after a removal settle it; load and quarantine then answer.
LEMMA SyncMaps ==
  ASSUME RInv, IInv', NEW p \in Proc, MovedSync(p)
  PROVE  Abstract!Miss(p) \/ Abstract!Settle(K(p))
<1>1. /\ pc[p] \in Writing \ Unconfirmed /\ request[p] \in Request
      /\ StepOf(pc[p], request[p]) /\ request[p] # NoRequest
      /\ request[p].op \in {"load", "quarantine", "put"}
  BY Working, RequestFields
     DEF RInv, MovedSync, Writing, Unconfirmed, StepOf, LoadSteps, VerifySteps, QuarantineSteps
<1>2. /\ K(p) \in Key /\ Shown[request[p].key] = NoEntry
      /\ disk' = disk /\ undo' = [undo EXCEPT ![K(p)] = {}]
  BY <1>1, SeenUnderLock DEF RInv, IInv, Contents, OwnEntry, K, Entry, MovedSync
<1>3. ASSUME NEW a, Finish(p, a, NoEntry)
      PROVE  /\ Shown' = Shown
             /\ outcome' = [outcome EXCEPT ![p] =
                              [answer |-> a, key |-> request[p].key, record |-> NoEntry]]
             /\ request' = [request EXCEPT ![p] = NoRequest]
  BY <1>1, <1>2, <1>3, PlainEnd DEF RInv, Finish
<1>4. CASE request[p].op \in {"load", "quarantine"}
  <2>1. Finish(p, IF request[p].op = "load" THEN "miss" ELSE "moved", NoEntry)
    BY <1>4 DEF MovedSync
  <2> QED
    BY <1>1, <1>2, <1>3, <1>4, <2>1
       DEF Abstract!Miss, Abstract!Answers, Abstract!Settled, Shown, K
<1>5. CASE request[p].op = "put"
  <2>1. GoTo(p, "put_write") /\ UNCHANGED <<request, outcome>>
    BY <1>5 DEF MovedSync
  <2> QED
    BY <1>1, <1>2, <2>1, PlainStep DEF RInv, PC, Unconfirmed, Abstract!Settle, Shown
<1> QED
  BY <1>1, <1>4, <1>5

\* What put works on; until it has confirmed, the abstract key is empty.
LEMMA PutHides ==
  ASSUME RInv, NEW p \in Proc, pc[p] \in PutStages
  PROVE  /\ K(p) \in Key /\ request[p] \in Request /\ request[p] # NoRequest
         /\ request[p].op = "put" /\ request[p].record \in Record
         /\ Shown[K(p)] = NoEntry /\ pc[p] \in Writing
         /\ pc[p] \notin Unconfirmed => disk[K(p)] = NoEntry
         /\ disk[K(p)] # NoEntry =>
              /\ disk[K(p)] \in {request[p].record, Rotten(request[p].record)}
              /\ request[p].record.state = "whole"
<1>1. /\ K(p) \in Key /\ request[p] \in Request /\ request[p] # NoRequest
      /\ request[p].op = "put" /\ request[p].record \in Record /\ pc[p] \in Writing
  BY Working, RequestFields
     DEF RInv, PutStages, Writing, StepOf, LoadSteps, VerifySteps, QuarantineSteps
<1>2. /\ pc[p] \notin Unconfirmed => disk[K(p)] = NoEntry
      /\ disk[K(p)] # NoEntry =>
              /\ disk[K(p)] \in {request[p].record, Rotten(request[p].record)}
              /\ request[p].record.state = "whole"
  BY DEF RInv, Refining, IInv, Contents, OwnEntry, PutStages, Unconfirmed
<1>3. HiddenWhilePut
  BY Hidden DEF RInv, IInv
<1> QED
  BY <1>1, <1>2, <1>3 DEF HiddenWhilePut, Shown

\* put goes on under its lock: nothing is seen of it.
LEMMA PutGoesUnseen ==
  ASSUME RInv, IInv', NEW p \in Proc, pc[p] \in PutStages,
         NEW s \in PutStages, GoTo(p, s), request' = request,
         pc[p] \in Unconfirmed => s \in Unconfirmed,
         \/ disk' = disk
         \/ s \in Unconfirmed /\ \E e : disk' = [disk EXCEPT ![K(p)] = e]
  PROVE  Shown' = Shown
<1>1. /\ pc'[p] = s /\ \A q \in Proc \ {p} : pc'[q] = pc[q]
      /\ disk \in [Key -> Record \cup {NoEntry}]
  BY DEF RInv, IInv, Control, ControlTypes, Contents, StoreTypes, GoTo
<1>2. /\ K(p) \in Key /\ Shown[K(p)] = NoEntry /\ pc[p] \in Writing
      /\ pc[p] \notin Unconfirmed => disk[K(p)] = NoEntry
  BY PutHides
<1>3. \A k \in Key : k # K(p) => disk'[k] = disk[k]
  BY <1>1, <1>2
<1>4. Shown' = [Shown EXCEPT ![K(p)] =
                  IF pc'[p] \in Unconfirmed THEN NoEntry ELSE disk'[K(p)]]
  BY <1>1, <1>2, <1>3, WriterCache DEF RInv
<1>5. CASE s \in Unconfirmed
  BY <1>1, <1>2, <1>4, <1>5 DEF Shown
<1>6. CASE s \notin Unconfirmed /\ pc[p] \notin Unconfirmed
  BY <1>1, <1>2, <1>4, <1>6 DEF Shown
<1> QED
  BY <1>5, <1>6

\* The steps of put between its check and its answer.
LEMMA StagesMap ==
  ASSUME RInv, IInv', NEW p \in Proc,
         PutVerify(p) \/ PutReplace(p) \/ PutSync(p) \/ PutFails(p)
  PROVE  \/ Abstract!Settle(K(p)) /\ K(p) \in Key
         \/ UNCHANGED <<Shown, undo, request, outcome>>
<1>1. /\ pc[p] \in PutStages /\ UNCHANGED <<request, outcome>>
      /\ \E s \in PutStages :
           /\ GoTo(p, s) /\ (pc[p] \in Unconfirmed => s \in Unconfirmed)
           /\ \/ disk' = disk
              \/ s \in Unconfirmed /\ \E e : disk' = [disk EXCEPT ![K(p)] = e]
  BY DEF PutVerify, PutReplace, PutSync, PutFails, PutGoes, PutStages, Unconfirmed, store
<1>2. Shown' = Shown /\ K(p) \in Key
  BY <1>1, PutGoesUnseen, PutHides
<1>3. undo' = undo \/ undo' = [undo EXCEPT ![K(p)] = {}]
  BY DEF PutVerify, PutReplace, PutSync, PutFails, store
<1> QED
  BY <1>1, <1>2, <1>3 DEF Abstract!Settle, Shown

\* put's confirmation is the moment its record is stored.
LEMMA ConfirmMaps ==
  ASSUME RInv, IInv', NEW p \in Proc, PutConfirm(p)
  PROVE  Abstract!Store(p) \/ UNCHANGED <<Shown, undo, request, outcome>>
<1>1. pc[p] = "put_confirm" /\ pc[p] \in PutStages /\ UNCHANGED <<disk, undo>>
  BY DEF PutConfirm, PutStages, store
<1>2. CASE ~ Verifies(Entry(p), Expected(request[p]))
  BY <1>1, <1>2, PutGoesUnseen DEF PutConfirm, PutStages, Unconfirmed
<1>3. CASE Verifies(Entry(p), Expected(request[p]))
  <2>1. /\ K(p) \in Key /\ request[p] # NoRequest /\ request[p].op = "put"
        /\ request[p].record \in Record /\ Shown[K(p)] = NoEntry /\ pc[p] \in Writing
        /\ Entry(p) \in {request[p].record, Rotten(request[p].record)}
    BY <1>1, <1>3, PutHides DEF Verifies, Entry
  <2>2. Entry(p) = request[p].record /\ request[p].record.state = "whole"
    BY <1>3, <2>1, RecordFields DEF Verifies
  <2>3. /\ GoTo(p, "idle") /\ request' = [request EXCEPT ![p] = NoRequest]
        /\ outcome' = [outcome EXCEPT ![p] =
                         [answer |-> "stored", key |-> K(p), record |-> request[p].record]]
    BY <1>3, <2>2 DEF PutConfirm, Finish, Leave
  <2>4. /\ pc'[p] = "idle"
        /\ \A q \in Proc \ {p} : pc'[q] = pc[q] /\ request'[q] = request[q]
    BY <2>3 DEF RInv, IInv, Control, ControlTypes, GoTo
  <2>5. Shown' = [Shown EXCEPT ![K(p)] = request[p].record]
    BY <1>1, <2>1, <2>2, <2>4, WriterCache DEF RInv, Unconfirmed, Entry
  <2> QED
    BY <1>1, <2>1, <2>2, <2>3, <2>5
       DEF Abstract!Store, Abstract!Answers, Abstract!Settled, Shown, K
<1> QED
  BY <1>2, <1>3

\* What put, or its handler, leaves of its record becomes visible when its
\* operation is over.
LEMMA PutLeaves ==
  ASSUME RInv, IInv', NEW p \in Proc, pc[p] \in PutStages, disk' = disk,
         GoTo(p, "idle"), request' = [request EXCEPT ![p] = NoRequest]
  PROVE  \/ Shown' = Shown
         \/ \E e \in Abstract!Unfinished(p, K(p)) : Shown' = [Shown EXCEPT ![K(p)] = e]
<1>1. /\ pc'[p] = "idle"
      /\ \A q \in Proc \ {p} : pc'[q] = pc[q] /\ request'[q] = request[q]
  BY DEF RInv, IInv, Control, ControlTypes, GoTo
<1>2. /\ K(p) \in Key /\ request[p] # NoRequest /\ request[p].op = "put"
      /\ Shown[K(p)] = NoEntry /\ pc[p] \in Writing
      /\ disk[K(p)] # NoEntry =>
              /\ disk[K(p)] \in {request[p].record, Rotten(request[p].record)}
              /\ request[p].record.state = "whole"
  BY PutHides
<1>3. Shown' = [Shown EXCEPT ![K(p)] = disk[K(p)]]
  BY <1>1, <1>2, WriterCache DEF RInv, Unconfirmed
<1>4. CASE disk[K(p)] = NoEntry
  BY <1>2, <1>3, <1>4 DEF Shown
<1>5. CASE disk[K(p)] # NoEntry
  <2>1. disk[K(p)] \in Abstract!Unfinished(p, K(p))
    BY <1>2, <1>5, SameWords DEF Abstract!Unfinished, K
  <2> QED
    BY <1>3, <2>1
<1> QED
  BY <1>4, <1>5

\* put's handler: there is nothing to withdraw, or its record is withdrawn.
LEMMA UndoMaps ==
  ASSUME RInv, IInv', NEW p \in Proc, PutUndo(p)
  PROVE  Abstract!Raises(p) \/ Abstract!Withdraw(p)
<1>1. /\ pc[p] = "put_undo" /\ pc[p] \in PutStages
      /\ pc \in [Proc -> PC] /\ request \in [Proc -> Request \cup {NoRequest}]
      /\ disk \in [Key -> Record \cup {NoEntry}]
  BY DEF PutUndo, PutStages, RInv, IInv, Control, ControlTypes, Contents, StoreTypes
<1>2. /\ K(p) \in Key /\ request[p] # NoRequest /\ request[p].op = "put"
      /\ Shown[K(p)] = NoEntry /\ pc[p] \in Writing
      /\ disk[K(p)] # NoEntry =>
              disk[K(p)] \in {request[p].record, Rotten(request[p].record)}
  BY <1>1, PutHides
<1>3. CASE Entry(p) = NoEntry
  <2>1. /\ UNCHANGED <<disk, undo>> /\ GoTo(p, "idle")
        /\ request' = [request EXCEPT ![p] = NoRequest]
        /\ outcome' = [outcome EXCEPT ![p] =
                         [answer |-> "raised", key |-> K(p), record |-> NoEntry]]
    BY <1>3 DEF PutUndo, CleanUp, Raise, Leave, store
  <2>2. /\ pc'[p] = "idle"
        /\ \A q \in Proc \ {p} : pc'[q] = pc[q] /\ request'[q] = request[q]
    BY <1>1, <2>1 DEF GoTo
  <2>3. Shown' = Shown
    <3>1. Shown' = [Shown EXCEPT ![K(p)] = NoEntry]
      BY <1>2, <1>3, <2>1, <2>2, WriterCache DEF RInv, Unconfirmed, Entry
    <3> QED
      BY <1>2, <3>1 DEF Shown
  <2> QED
    BY <1>2, <2>1, <2>3 DEF Abstract!Raises, Abstract!Answers, Shown, K
<1>4. CASE Entry(p) # NoEntry
  <2>1. /\ disk' = [disk EXCEPT ![K(p)] = NoEntry]
        /\ undo' = [undo EXCEPT ![K(p)] = @ \cup {disk[K(p)]}]
        /\ GoTo(p, "undo_sync") /\ UNCHANGED <<request, outcome>>
    BY <1>4 DEF PutUndo, MoveAside, Entry
  <2>2. /\ pc'[p] = "undo_sync" /\ \A q \in Proc \ {p} : pc'[q] = pc[q]
        /\ \A k \in Key : k # K(p) => disk'[k] = disk[k]
        /\ disk'[K(p)] = NoEntry
    BY <1>1, <1>2, <2>1 DEF GoTo
  <2>3. Shown' = Shown
    <3>1. Shown' = [Shown EXCEPT ![K(p)] = NoEntry]
      BY <1>2, <2>1, <2>2, WriterCache DEF RInv, Unconfirmed
    <3> QED
      BY <1>2, <3>1 DEF Shown
  <2> QED
    BY <1>2, <1>4, <2>1, <2>3, SameWords DEF Abstract!Withdraw, Shown, K, Entry
<1> QED
  BY <1>3, <1>4

\* An operation that raises after its removal has emptied the key.
LEMMA RaiseMaps ==
  ASSUME RInv, IInv', NEW p \in Proc, UndoSync(p) \/ SyncFails(p)
  PROVE  Abstract!Raises(p)
<1>1. /\ pc[p] \in {"moved_sync", "undo_sync"} /\ disk' = disk
      /\ undo' \in {undo, [undo EXCEPT ![K(p)] = {}]} /\ Leave(p, "raised", NoEntry)
  BY DEF UndoSync, SyncFails, CleanUp, Raise
<1>2. /\ pc[p] \in Writing \ Unconfirmed /\ request[p] # NoRequest
      /\ request[p].op # "verify" /\ K(p) \in Key /\ Entry(p) = NoEntry
  BY <1>1, Working, RequestFields
     DEF RInv, Refining, IInv, Contents, OwnEntry, Entry, Writing, Unconfirmed, StepOf,
         VerifySteps
<1>3. Shown[K(p)] = NoEntry
  BY <1>2, SeenUnderLock DEF RInv
<1>4. /\ Shown' = Shown
      /\ outcome' = [outcome EXCEPT ![p] =
                       [answer |-> "raised", key |-> request[p].key, record |-> NoEntry]]
      /\ request' = [request EXCEPT ![p] = NoRequest]
  BY <1>1, <1>2, PlainEnd DEF RInv
<1> QED
  BY <1>1, <1>2, <1>3, <1>4
     DEF Abstract!Raises, Abstract!Answers, Abstract!Settled, Shown, K

\* One that raises because its removal fails leaves the entry: in put's
\* handler its own record, which is seen from then on.
LEMMA MoveFailsMaps ==
  ASSUME RInv, IInv', NEW p \in Proc, MoveFails(p)
  PROVE  Abstract!Raises(p)
<1>1. /\ pc[p] \in {"quarantine_move", "put_undo", "load_recheck", "put_check"}
      /\ UNCHANGED <<disk, undo>> /\ Leave(p, "raised", NoEntry) /\ GoTo(p, "idle")
      /\ request' = [request EXCEPT ![p] = NoRequest]
      /\ outcome' = [outcome EXCEPT ![p] =
                       [answer |-> "raised", key |-> request[p].key, record |-> NoEntry]]
  BY DEF MoveFails, Raise, Leave, K, store
<1>2. /\ request[p] # NoRequest /\ request[p].op # "verify" /\ K(p) \in Key
  BY <1>1, Working, RequestFields DEF RInv, StepOf, VerifySteps
<1>3. CASE pc[p] \notin Unconfirmed
  <2>1. Shown' = Shown
    BY <1>1, <1>3, PlainEnd DEF RInv
  <2> QED
    BY <1>1, <1>2, <2>1 DEF Abstract!Raises, Abstract!Answers, Shown
<1>4. CASE pc[p] = "put_undo"
  <2>1. Shown[K(p)] = NoEntry
    BY <1>4, PutHides DEF PutStages
  <2>2. \/ Shown' = Shown
        \/ \E e \in Abstract!Unfinished(p, K(p)) : Shown' = [Shown EXCEPT ![K(p)] = e]
    BY <1>1, <1>4, PutLeaves DEF PutStages
  <2> QED
    BY <1>1, <1>2, <2>1, <2>2 DEF Abstract!Raises, Abstract!Answers, Shown, K
<1> QED
  BY <1>1, <1>3, <1>4 DEF Unconfirmed

\* A process that dies.
LEMMA CrashMaps ==
  ASSUME RInv, IInv', NEW p \in Proc, Crash(p)
  PROVE  Abstract!Die(p)
<1>1. /\ pc[p] # "idle" /\ UNCHANGED <<disk, undo, outcome>> /\ GoTo(p, "idle")
      /\ request' = [request EXCEPT ![p] = NoRequest]
  BY DEF Crash, store
<1>2. request[p] # NoRequest /\ K(p) \in Key
  BY <1>1, Working, RequestFields DEF RInv
<1>3. CASE pc[p] \notin Unconfirmed
  <2>1. \A q \in Proc \ {p} : request'[q] = request[q]
    BY <1>1 DEF RInv, IInv, Control, ControlTypes
  <2>2. Shown' = Shown
    BY <1>1, <1>3, <2>1, PlainStep DEF RInv, PC, Unconfirmed
  <2> QED
    BY <1>1, <1>2, <2>2 DEF Abstract!Die, Shown
<1>4. CASE pc[p] \in Unconfirmed
  <2>1. Shown[K(p)] = NoEntry
    BY <1>4, PutHides DEF PutStages, Unconfirmed
  <2>2. \/ Shown' = Shown
        \/ \E e \in Abstract!Unfinished(p, K(p)) : Shown' = [Shown EXCEPT ![K(p)] = e]
    BY <1>1, <1>4, PutLeaves DEF PutStages, Unconfirmed
  <2> QED
    BY <1>1, <1>2, <2>1, <2>2 DEF Abstract!Die, Shown, K
<1> QED
  BY <1>3, <1>4

\* An entry rots, in sight or out of it.
LEMMA RotMaps ==
  ASSUME RInv, IInv', NEW k \in Key, Rot(k)
  PROVE  Abstract!Rot(k) \/ UNCHANGED <<Shown, undo, request, outcome>>
<1>1. /\ disk[k] # NoEntry /\ disk' = [disk EXCEPT ![k] = Rotten(@)]
      /\ UNCHANGED <<pc, undo, request, outcome>> /\ disk \in [Key -> Record \cup {NoEntry}]
  BY DEF Rot, RInv, IInv, Contents, StoreTypes
<1>2. Control /\ Control'
  BY DEF RInv, IInv
<1>3. HiddenWhilePut /\ HiddenWhilePut'
  BY <1>2, Hidden, PTL
<1>4. \A l \in Key : l # k => Cached(l)' = Cached(l)
  BY <1>1, <1>3 DEF HiddenWhilePut, K
<1>5. \/ Cached(k) = NoEntry /\ Cached(k)' = NoEntry
      \/ Cached(k) = disk[k] /\ Cached(k)' = Rotten(disk[k])
  BY <1>1, <1>3 DEF HiddenWhilePut, K
<1>6. CASE Cached(k) = NoEntry /\ Cached(k)' = NoEntry
  <2>1. \A l \in Key : Cached(l)' = Cached(l)
    BY <1>4, <1>6
  <2> QED
    BY <1>1, <2>1 DEF Shown
<1>7. CASE Cached(k) = disk[k] /\ Cached(k)' = Rotten(disk[k])
  <2>1. Shown' = [Shown EXCEPT ![k] = Rotten(disk[k])] /\ Shown[k] = disk[k]
    BY <1>4, <1>7 DEF Shown
  <2> QED
    BY <1>1, <2>1, SameWords DEF Abstract!Rot, Shown
<1> QED
  BY <1>5, <1>6, <1>7

\* The machine loses power: what was out of sight may be seen afterwards.
LEMMA PowerLossMaps ==
  ASSUME RInv, IInv', PowerLoss
  PROVE  Abstract!LosePower
<1>1. Control /\ Control'
  BY DEF RInv, IInv
<1>2. HiddenWhilePut /\ HiddenWhilePut'
  BY <1>1, Hidden, PTL
<1>3. \A k \in Key : Cached(k)' = disk'[k]
  BY <1>2 DEF HiddenWhilePut, PowerLoss, Unconfirmed
<1>4. ASSUME NEW k \in Key
      PROVE  /\ disk'[k] \in Record \cup {NoEntry}
             /\ disk'[k] \in {Cached(k), NoEntry} \cup undo[k]
                   \cup UNION {Abstract!Unfinished(p, k) : p \in Proc}
  <2>1. disk'[k] \in {NoEntry, disk[k]} \cup undo[k]
    BY DEF PowerLoss, RInv, IInv, Contents, Stable, Survivors
  <2>2. CASE \E p \in Proc : pc[p] \in Unconfirmed /\ K(p) = k
    <3>1. PICK p \in Proc : pc[p] \in Unconfirmed /\ K(p) = k
      BY <2>2
    <3>2. disk[k] # NoEntry => disk[k] \in Abstract!Unfinished(p, k)
      BY <3>1, PutHides, SameWords DEF Abstract!Unfinished, PutStages, Unconfirmed, K
    <3> QED
      BY <2>1, <3>2 DEF RInv, IInv, Contents, StoreTypes
  <2>3. CASE ~ \E p \in Proc : pc[p] \in Unconfirmed /\ K(p) = k
    <3>1. Cached(k) = disk[k]
      BY <1>2, <2>3 DEF HiddenWhilePut
    <3> QED
      BY <2>1, <3>1 DEF RInv, IInv, Contents, StoreTypes
  <2> QED
    BY <2>2, <2>3
<1>5. /\ Shown' \in [Key -> Record \cup {NoEntry}]
      /\ \A k \in Key : Shown'[k] = disk'[k] /\ Shown[k] = Cached(k)
  BY <1>3, <1>4 DEF Shown
<1>6. /\ \A k \in Key : Shown'[k] \in {Shown[k], NoEntry} \cup undo[k]
                           \cup UNION {Abstract!Unfinished(p, k) : p \in Proc}
  BY <1>4, <1>5
<1> QED
  BY <1>5, <1>6, SameWords DEF Abstract!LosePower, PowerLoss, Shown
-----------------------------------------------------------------------------
\* Every step of the store is one of the abstract store, or none.
LEMMA StepMaps ==
  ASSUME RInv, IInv', [Next]_vars
  PROVE  [Abstract!CacheNext]_(Abstract!cacheVars)
<1>1. ASSUME NEW p \in Proc, Step(p)
      PROVE  Abstract!CacheNext \/ UNCHANGED <<Shown, undo, request, outcome>>
  <2>1. CASE MovedSync(p)
    <3>1. K(p) \in Key
      BY <2>1, Working DEF RInv, MovedSync
    <3> QED
      BY <2>1, <3>1, SyncMaps DEF Abstract!CacheNext
  <2> QED
    BY <1>1, <2>1, LocksMap, ReadersMap, WritersMap, StagesMap, ConfirmMaps, UndoMaps, RaiseMaps
       DEF Step, Abstract!CacheNext
<1>2. ASSUME NEW p \in Proc, Call(p) \/ PutFails(p) \/ MoveFails(p) \/ SyncFails(p) \/ Crash(p)
      PROVE  Abstract!CacheNext \/ UNCHANGED <<Shown, undo, request, outcome>>
  BY <1>2, CallMaps, StagesMap, MoveFailsMaps, RaiseMaps, CrashMaps DEF Abstract!CacheNext
<1>3. ASSUME NEW k \in Key, Rot(k)
      PROVE  Abstract!CacheNext \/ UNCHANGED <<Shown, undo, request, outcome>>
  BY <1>3, RotMaps DEF Abstract!CacheNext
<1>4. CASE PowerLoss
  BY <1>4, PowerLossMaps DEF Abstract!CacheNext
<1>5. CASE UNCHANGED vars
  <2>1. Shown' = Shown
    BY <1>5, SameCache DEF RInv, vars, store
  <2> QED
    BY <1>5, <2>1 DEF vars, store, Abstract!cacheVars, Shown
<1>6. UNCHANGED <<Shown, undo, request, outcome>> => UNCHANGED Abstract!cacheVars
  BY DEF Shown, Abstract!cacheVars
<1> QED
  BY <1>1, <1>2, <1>3, <1>4, <1>5, <1>6 DEF Next

\* The empty store is the empty cache.
LEMMA InitMaps == Init => Abstract!CacheInit
<1> SUFFICES ASSUME Init PROVE Abstract!CacheInit
  OBVIOUS
<1>1. \A k \in Key : Cached(k) = NoEntry
  BY DEF Init, Cached
<1> QED
  BY <1>1 DEF Init, Abstract!CacheInit

\* What a put about to confirm has in place is whole, in every reachable state.
THEOREM RefiningInvariant == Spec => []RInv
<1>1. Init => Refining
  BY DEF Init, Refining, Unconfirmed
<1>2. RInv /\ [Next]_vars => RInv'
  BY Preserved, RefiningNext DEF RInv
<1> QED
  BY <1>1, <1>2, Starts, PTL DEF Spec, RInv

(* The store implements its promise: whatever the interleaving of steps,   *)
(* failing calls, deaths and power losses, callers see operations that     *)
(* take effect at once.                                                    *)
THEOREM StoreImplementsCache == Spec => Implements
<1>1. RInv /\ RInv' /\ [Next]_vars => [Abstract!CacheNext]_(Abstract!cacheVars)
  BY StepMaps DEF RInv
<1> QED
  BY <1>1, InitMaps, RefiningInvariant, PTL DEF Spec, Implements, Abstract!CacheSpec
=============================================================================
