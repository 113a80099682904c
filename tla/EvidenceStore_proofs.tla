------------------------ MODULE EvidenceStore_proofs ------------------------
(***************************************************************************)
(* Safety of EvidenceStore for any number of processes, keys, calls and    *)
(* faults: type correctness, exclusion, no half-published entry, and no    *)
(* good entry taken away; and what callers are told stays accounted for.   *)
(***************************************************************************)
EXTENDS EvidenceStore, TLAPS

LoadSteps == {"load_sh", "load_check", "load_ex", "load_recheck", "moved_sync"}
VerifySteps == {"verify_sh", "verify_check"}
QuarantineSteps == {"quarantine_ex", "quarantine_move", "moved_sync"}
PutSteps ==
  {"put_ex", "put_check", "moved_sync", "put_write", "put_fsync", "put_verify",
   "put_replace", "put_sync", "put_confirm", "put_undo", "undo_sync"}

\* Step s belongs to the operation r.op.
StepOf(s, r) ==
  \/ r.op = "load" /\ s \in LoadSteps
  \/ r.op = "verify" /\ s \in VerifySteps
  \/ r.op = "quarantine" /\ s \in QuarantineSteps
  \/ r.op = "put" /\ s \in PutSteps

\* The variables that say where the processes are, and their locks.
ControlTypes ==
  /\ shared \in [Key -> SUBSET Proc]
  /\ owner \in [Key -> SUBSET Proc]
  /\ pc \in [Proc -> PC]
  /\ request \in [Proc -> Request \cup {NoRequest}]
  /\ outcome \in [Proc -> Outcome \cup {NoOutcome}]
  /\ calls \in [Proc -> 0 .. MaxCalls]
  /\ faults \in 0 .. MaxFaults

\* The variables that say what is on disk.
StoreTypes ==
  /\ disk \in [Key -> Record \cup {NoEntry}]
  /\ synced \subseteq Key
  /\ undo \in [Key -> SUBSET Record]
  /\ gone \in [Key -> SUBSET Attempt]
  /\ stage \in [Proc -> Record \cup {NoEntry}]
  /\ flushed \subseteq Proc

\* A process at work has a request, and is at a step of its operation.
AtWork ==
  \A p \in Proc : pc[p] # "idle" =>
    request[p] \in Request /\ StepOf(pc[p], request[p])

\* The locks are held by the processes whose step needs them, by nobody else.
LocksHeld ==
  /\ \A p \in Proc :
       /\ pc[p] \in Writing => owner[K(p)] = {p}
       /\ pc[p] \in Reading => p \in shared[K(p)]
  /\ \A k \in Key :
       /\ \A p \in owner[k] : pc[p] \in Writing /\ K(p) = k
       /\ \A p \in shared[k] : pc[p] \in Reading /\ K(p) = k
       /\ owner[k] # {} => shared[k] = {}

\* What put has staged is the record it was given, flushed and verified in time.
Staged ==
  \A p \in Proc :
    /\ pc[p] \in {"put_fsync", "put_verify", "put_replace"} =>
         stage[p] = request[p].record
    /\ pc[p] \in {"put_verify", "put_replace"} => p \in flushed
    /\ pc[p] = "put_replace" => stage[p].state = "whole"

\* While put works on a key, the entry there is its own or there is none.
OwnEntry ==
  \A p \in Proc :
    /\ pc[p] \in {"moved_sync", "put_write", "put_fsync", "put_verify",
                  "put_replace"} => disk[K(p)] = NoEntry
    /\ pc[p] \in {"put_sync", "put_confirm", "put_undo"} =>
         disk[K(p)] \in {NoEntry, request[p].record, Rotten(request[p].record)}

\* Entries, and the ones a power loss may bring back, are on stable storage.
Intact == {"whole", "rotten"}
Stable ==
  \A k \in Key :
    /\ disk[k] # NoEntry => k \in synced /\ disk[k].state \in Intact
    /\ \A e \in undo[k] : e.state \in Intact

Control == ControlTypes /\ AtWork /\ LocksHeld
Contents == StoreTypes /\ Staged /\ OwnEntry /\ Stable
IInv == Control /\ Contents
-----------------------------------------------------------------------------
(* Control: what taking a lock, moving on under it and finishing preserve. *)

\* What a request is made of; no request is NoRequest.
LEMMA RequestFields ==
  ASSUME NEW r \in Request
  PROVE  /\ r.key \in Key
         /\ r.op \in {"load", "verify", "quarantine", "put"}
         /\ r.op = "put" => r.record \in Record
         /\ r # NoRequest
BY NoneAssumption DEF Request

\* The fields of an outcome, the answer about the request just served.
LEMMA OutcomeFields ==
  ASSUME NEW a \in Answer, NEW k \in Key, NEW e \in Record \cup {NoEntry}
  PROVE  [answer |-> a, key |-> k, record |-> e] \in Outcome
BY DEF Outcome

\* An operation that ends leaves its locks behind.
LEMMA LeaveControl ==
  ASSUME Control, NEW p \in Proc, pc[p] # "idle",
         NEW a \in Answer, NEW e \in Record \cup {NoEntry}, Leave(p, a, e),
         UNCHANGED calls, faults' \in 0 .. MaxFaults
  PROVE  Control'
<1>1. request[p] \in Request /\ K(p) \in Key
  BY RequestFields DEF Control, AtWork, K
<1>2. ControlTypes'
  BY <1>1, OutcomeFields
     DEF Control, ControlTypes, Leave, Unlock, GoTo, PC
<1>3. AtWork'
  BY DEF Control, ControlTypes, AtWork, Leave, GoTo
<1>4. LocksHeld'
  BY <1>1 DEF Control, ControlTypes, LocksHeld, K, Leave, Unlock, GoTo, Writing, Reading
<1> QED
  BY <1>2, <1>3, <1>4 DEF Control

\* So does one that ends without a fault.
LEMMA FinishControl ==
  ASSUME Control, NEW p \in Proc, pc[p] # "idle",
         NEW a \in Answer, NEW e \in Record \cup {NoEntry}, Finish(p, a, e)
  PROVE  Control'
BY LeaveControl DEF Finish, Control, ControlTypes, bounds

\* A step under the exclusive lock.
LEMMA WritingControl ==
  ASSUME Control, NEW p \in Proc, pc[p] \in Writing,
         NEW s \in Writing, StepOf(s, request[p]), GoTo(p, s),
         UNCHANGED <<locks, request, outcome, calls>>, faults' \in 0 .. MaxFaults
  PROVE  Control'
<1>1. ControlTypes'
  BY DEF Control, ControlTypes, GoTo, PC, Writing, locks
<1>2. AtWork'
  BY DEF Control, ControlTypes, AtWork, GoTo, Writing
<1>3. LocksHeld'
  BY DEF Control, ControlTypes, LocksHeld, K, GoTo, locks, Writing, Reading
<1> QED
  BY <1>1, <1>2, <1>3 DEF Control

\* The reader's lock is granted, or the writer's.
LEMMA LockControl ==
  ASSUME Control, NEW p \in Proc, pc[p] \notin Writing \cup Reading \cup {"idle"},
         NEW s \in PC \ {"idle"}, StepOf(s, request[p]), GoTo(p, s),
         UNCHANGED <<request, outcome, bounds>>,
         \/ LockShared(K(p), p) /\ s \in Reading
         \/ LockExclusive(K(p), p) /\ s \in Writing
  PROVE  Control'
<1>1. request[p] \in Request /\ K(p) \in Key
  BY RequestFields DEF Control, AtWork, K
<1>2. ControlTypes'
  BY <1>1 DEF Control, ControlTypes, GoTo, LockShared, LockExclusive, bounds
<1>3. AtWork'
  BY DEF Control, ControlTypes, AtWork, GoTo
<1>4. /\ pc' = [pc EXCEPT ![p] = s] /\ pc \in [Proc -> PC]
      /\ \A q \in Proc : K(q)' = K(q)
      /\ shared \in [Key -> SUBSET Proc] /\ owner \in [Key -> SUBSET Proc]
      /\ \A k \in Key : p \notin shared[k] \cup owner[k]
  BY DEF Control, ControlTypes, LocksHeld, GoTo, K
<1>5. CASE LockShared(K(p), p) /\ s \in Reading
  <2>1. LocksHeld'
    BY <1>1, <1>4, <1>5 DEF Control, LocksHeld, LockShared, Writing, Reading
  <2> QED
    BY <1>2, <1>3, <2>1 DEF Control
<1>6. CASE LockExclusive(K(p), p) /\ s \in Writing
  <2>1. LocksHeld'
    BY <1>1, <1>4, <1>6 DEF Control, LocksHeld, LockExclusive, Writing, Reading
  <2> QED
    BY <1>2, <1>3, <2>1 DEF Control
<1> QED
  BY <1>5, <1>6

\* load gives the reader's lock up to come back for the writer's.
LEMMA UpgradeControl ==
  ASSUME Control, NEW p \in Proc, pc[p] = "load_check",
         Unlock(K(p), p), GoTo(p, "load_ex"), UNCHANGED <<request, outcome, bounds>>
  PROVE  Control'
<1>1. request[p] \in Request /\ K(p) \in Key /\ StepOf("load_ex", request[p])
  BY RequestFields
     DEF Control, AtWork, K, StepOf, LoadSteps, VerifySteps, QuarantineSteps, PutSteps
<1>2. ControlTypes'
  BY <1>1 DEF Control, ControlTypes, Unlock, GoTo, PC, bounds
<1>3. AtWork'
  BY <1>1 DEF Control, ControlTypes, AtWork, GoTo
<1>4. LocksHeld'
  BY <1>1 DEF Control, ControlTypes, LocksHeld, K, Unlock, GoTo, Writing, Reading
<1> QED
  BY <1>2, <1>3, <1>4 DEF Control

\* A caller enters an operation at its first step, without a lock.
LEMMA CallControl ==
  ASSUME Control, NEW p \in Proc, Call(p)
  PROVE  Control'
<1>1. PICK r \in Request : /\ request' = [request EXCEPT ![p] = r]
                          /\ GoTo(p, FirstStep[r.op])
  BY DEF Call
<1>2. FirstStep[r.op] \in PC \ (Writing \cup Reading) /\ StepOf(FirstStep[r.op], r)
  BY RequestFields
     DEF FirstStep, PC, Writing, Reading, StepOf, LoadSteps, VerifySteps,
         QuarantineSteps, PutSteps
<1>3. ControlTypes'
  BY <1>1, <1>2, BoundsAssumption DEF Control, ControlTypes, Call, GoTo, locks
<1>4. AtWork'
  BY <1>1, <1>2 DEF Control, ControlTypes, AtWork, GoTo
<1>5. /\ locks' = locks /\ pc'[p] \notin Writing \cup Reading
      /\ \A k \in Key : p \notin shared[k] \cup owner[k]
      /\ \A q \in Proc \ {p} : pc'[q] = pc[q] /\ K(q)' = K(q)
      /\ shared \in [Key -> SUBSET Proc] /\ owner \in [Key -> SUBSET Proc]
  BY <1>1, <1>2
     DEF Control, ControlTypes, LocksHeld, Call, GoTo, K, Writing, Reading
<1>6. LocksHeld'
  BY <1>5 DEF Control, LocksHeld, locks
<1> QED
  BY <1>3, <1>4, <1>6 DEF Control

\* A killed process leaves its locks and its operation behind.
LEMMA CrashControl ==
  ASSUME Control, NEW p \in Proc, Crash(p)
  PROVE  Control'
<1>1. request[p] \in Request /\ K(p) \in Key
  BY RequestFields DEF Control, AtWork, K, Crash
<1>2. ControlTypes'
  BY <1>1, BoundsAssumption DEF Control, ControlTypes, Crash, Fault, Unlock, GoTo, PC
<1>3. AtWork'
  BY DEF Control, ControlTypes, AtWork, Crash, GoTo
<1>4. LocksHeld'
  BY <1>1
     DEF Control, ControlTypes, LocksHeld, K, Crash, Unlock, GoTo, Writing, Reading
<1> QED
  BY <1>2, <1>3, <1>4 DEF Control

\* After a power loss nobody is at work and no lock is held.
LEMMA PowerLossControl == Control /\ PowerLoss => Control'
<1> SUFFICES ASSUME Control, PowerLoss PROVE Control'
  OBVIOUS
<1>1. ControlTypes'
  BY BoundsAssumption DEF Control, ControlTypes, PowerLoss, Fault, PC
<1>2. AtWork' /\ LocksHeld'
  BY DEF PowerLoss, AtWork, LocksHeld, Writing, Reading
<1> QED
  BY <1>1, <1>2 DEF Control

(* At most one process writes at a key, and none reads there meanwhile.    *)
LEMMA Exclusion == Control => WritersAlone
<1> SUFFICES ASSUME Control, NEW p \in Proc, NEW q \in Proc, p # q,
                    pc[p] \in Writing, pc[q] \in Writing \cup Reading, K(p) = K(q)
             PROVE  FALSE
  BY DEF WritersAlone
<1>1. K(p) \in Key
  BY RequestFields DEF Control, AtWork, K, Writing
<1> QED
  BY <1>1 DEF Control, LocksHeld
-----------------------------------------------------------------------------
(* Contents: what the steps preserve of the entries.                       *)

\* The steps of which OwnEntry says something.
PutStages == {"put_write", "put_fsync", "put_verify", "put_replace",
              "put_sync", "put_confirm", "put_undo"}
Guarded == PutStages \cup {"moved_sync"}

\* Nothing on disk changes, and nobody comes to a new step of put's publication.
LEMMA SameContents ==
  ASSUME Contents, UNCHANGED <<store, local>>,
         \A q \in Proc : \/ pc'[q] = pc[q] /\ request'[q] = request[q]
                        \/ pc'[q] \notin Guarded
  PROVE  Contents'
BY DEF Contents, StoreTypes, Staged, OwnEntry, Stable, K, store, local, Guarded, PutStages

\* What a record is made of, rotten or not; no record is NoEntry.
LEMMA RecordFields ==
  ASSUME NEW e \in Record
  PROVE  /\ e.attempt \in Attempt /\ e.boundary \in Boundary /\ e.state \in RecordState
         /\ Rotten(e) \in Record /\ Rotten(e).state = "rotten"
         /\ Rotten(Rotten(e)) = Rotten(e)
         /\ [e EXCEPT !.state = "torn"] \in Record
         /\ e # NoEntry
BY NoneAssumption DEF Record, Rotten, RecordState

\* The writer of key k moves its entry aside.
LEMMA MoveContents ==
  ASSUME IInv, NEW p \in Proc, pc[p] \in Writing, MoveAside(K(p)), UNCHANGED local,
         \A q \in Proc \ {p} : pc'[q] = pc[q] /\ request'[q] = request[q],
         \/ pc'[p] \notin Guarded
         \/ pc'[p] = "moved_sync" /\ request'[p] = request[p]
  PROVE  Contents'
<1>1. K(p) \in Key /\ \A q \in Proc \ {p} : pc[q] \in Writing => K(q) \in Key /\ K(q) # K(p)
  BY Exclusion, RequestFields DEF IInv, Control, AtWork, K, WritersAlone, Writing
<1>2. StoreTypes'
  <2>1. CASE disk[K(p)] = NoEntry
    BY <1>1, <2>1 DEF IInv, Contents, StoreTypes, MoveAside, local
  <2>2. CASE disk[K(p)] \in Record
    <3>1. disk[K(p)] # NoEntry /\ disk[K(p)].attempt \in Attempt
      BY <2>2, RecordFields
    <3> QED
      BY <1>1, <2>2, <3>1 DEF IInv, Contents, StoreTypes, MoveAside, local
  <2> QED
    BY <1>1, <2>1, <2>2 DEF IInv, Contents, StoreTypes
<1>3. Staged'
  BY DEF IInv, Contents, Staged, local, Guarded, PutStages
<1>4. OwnEntry'
  BY <1>1 DEF IInv, Contents, StoreTypes, OwnEntry, K, MoveAside, Guarded, PutStages, Writing
<1>5. Stable'
  BY <1>1 DEF IInv, Contents, StoreTypes, Stable, MoveAside
<1> QED
  BY <1>2, <1>3, <1>4, <1>5 DEF Contents

\* The removals made at a key reach stable storage.
LEMMA SyncContents ==
  ASSUME Contents, NEW k \in Key, undo' = [undo EXCEPT ![k] = {}],
         UNCHANGED <<disk, synced, gone, local>>,
         \A q \in Proc : \/ pc'[q] = pc[q] /\ request'[q] = request[q]
                        \/ pc'[q] \notin Guarded
  PROVE  Contents'
BY DEF Contents, StoreTypes, Staged, OwnEntry, Stable, K, local, Guarded, PutStages

\* A process at work, its key and what is there.
LEMMA Working ==
  ASSUME IInv, NEW p \in Proc, pc[p] # "idle"
  PROVE  /\ request[p] \in Request /\ K(p) \in Key
         /\ Entry(p) \in Record \cup {NoEntry}
         /\ StepOf(pc[p], request[p])
BY RequestFields DEF IInv, Control, Contents, AtWork, StoreTypes, K, Entry

\* The operation a process is in, told from its step.
LEMMA StepOfs ==
  ASSUME NEW r
  PROVE  /\ \A s, u \in LoadSteps \ {"moved_sync"} : StepOf(s, r) => StepOf(u, r)
         /\ \A s, u \in PutSteps \ {"moved_sync"} : StepOf(s, r) => StepOf(u, r)
         /\ StepOf("verify_sh", r) => StepOf("verify_check", r)
         /\ StepOf("quarantine_ex", r) => StepOf("quarantine_move", r)
         /\ \A s \in {"load_recheck", "put_check", "quarantine_move"} :
              StepOf(s, r) => StepOf("moved_sync", r)
BY DEF StepOf, LoadSteps, VerifySteps, QuarantineSteps, PutSteps

\* The five steps that take a lock.
LEMMA LockSteps ==
  ASSUME IInv, NEW p \in Proc,
         \/ LoadLock(p) \/ LoadUpgrade(p) \/ VerifyLock(p)
         \/ QuarantineLock(p) \/ PutLock(p)
  PROVE  IInv'
<1>1. PICK s \in {"load_check", "load_recheck", "verify_check", "quarantine_move",
                  "put_check"} :
        /\ Acquired(p, s)
        /\ pc[p] \in {"load_sh", "load_ex", "verify_sh", "quarantine_ex", "put_ex"}
        /\ StepOf(pc[p], request[p]) => StepOf(s, request[p])
        /\ \/ LockShared(K(p), p) /\ s \in Reading
           \/ LockExclusive(K(p), p) /\ s \in Writing
  BY StepOfs
     DEF LoadLock, LoadUpgrade, VerifyLock, QuarantineLock, PutLock, LoadSteps,
         PutSteps, Reading, Writing
<1>2. Control'
  BY <1>1, Working, LockControl DEF IInv, Acquired, Writing, Reading, PC
<1>3. \A q \in Proc : \/ pc'[q] = pc[q] /\ request'[q] = request[q]
                      \/ pc'[q] \notin Guarded
  BY <1>1 DEF IInv, Control, ControlTypes, Acquired, GoTo, Guarded, PutStages
<1>4. Contents'
  BY <1>1, <1>3, SameContents DEF IInv, Acquired
<1> QED
  BY <1>2, <1>4 DEF IInv

\* An operation ends, and changes nothing on disk.
LEMMA FinishSame ==
  ASSUME IInv, NEW p \in Proc, pc[p] # "idle", NEW a \in Answer,
         NEW e \in Record \cup {NoEntry}, Finish(p, a, e), UNCHANGED <<store, local>>
  PROVE  IInv'
<1>1. \A q \in Proc : \/ pc'[q] = pc[q] /\ request'[q] = request[q]
                      \/ pc'[q] \notin Guarded
  BY DEF IInv, Control, ControlTypes, Finish, Leave, GoTo, Guarded, PutStages
<1> QED
  BY <1>1, FinishControl, SameContents DEF IInv

\* A writer moves the entry aside and goes on to the fsyncs.
LEMMA MoveOn ==
  ASSUME IInv, NEW p \in Proc, pc[p] \in Writing, MoveAside(K(p)),
         NEW s \in {"moved_sync", "undo_sync"}, StepOf(s, request[p]), GoTo(p, s),
         UNCHANGED <<locks, local, request, outcome, bounds>>
  PROVE  IInv'
<1>1. Control'
  BY WritingControl DEF IInv, Control, ControlTypes, Writing, bounds
<1>2. pc'[p] \in {"moved_sync", "undo_sync"} /\ \A q \in Proc \ {p} : pc'[q] = pc[q]
  BY DEF IInv, Control, ControlTypes, GoTo, Guarded, PutStages
<1> QED
  BY <1>1, <1>2, MoveContents DEF IInv, Guarded, PutStages

\* load and verify under the shared lock, and load once it has the other.
LEMMA ReadingSteps ==
  ASSUME IInv, NEW p \in Proc, LoadCheck(p) \/ LoadRecheck(p) \/ VerifyCheck(p)
  PROVE  IInv'
<1>1. pc[p] # "idle" /\ Entry(p) \in Record \cup {NoEntry} /\ StepOf(pc[p], request[p])
  BY Working DEF LoadCheck, LoadRecheck, VerifyCheck
<1>2. CASE LoadCheck(p)
  <2>1. CASE GoTo(p, "load_ex") /\ Unlock(K(p), p) /\ UNCHANGED <<request, outcome, bounds>>
    <3>1. \A q \in Proc : \/ pc'[q] = pc[q] /\ request'[q] = request[q]
                          \/ pc'[q] \notin Guarded
      BY <2>1 DEF IInv, Control, ControlTypes, GoTo, Guarded, PutStages
    <3> QED
      BY <1>2, <2>1, <3>1, UpgradeControl, SameContents DEF IInv, LoadCheck
  <2> QED
    BY <1>1, <1>2, <2>1, FinishSame DEF LoadCheck, Answer
<1>3. CASE LoadRecheck(p)
  <2>1. StepOf("moved_sync", request[p]) /\ pc[p] \in Writing
    BY <1>1, <1>3, StepOfs DEF LoadRecheck, Writing
  <2> QED
    BY <1>1, <1>3, <2>1, FinishSame, MoveOn DEF LoadRecheck, Answer
<1>4. CASE VerifyCheck(p)
  BY <1>1, <1>4, FinishSame DEF VerifyCheck, Answer
<1> QED
  BY <1>2, <1>3, <1>4

\* quarantine moves the entry aside, or finds none and answers.
LEMMA QuarantineMoves ==
  ASSUME IInv, NEW p \in Proc, QuarantineMove(p)
  PROVE  IInv'
<1>1. /\ pc[p] \in Writing /\ pc[p] # "idle" /\ StepOf("moved_sync", request[p])
      /\ K(p) \in Key
  BY Working, StepOfs DEF QuarantineMove, Writing
<1>2. CASE Entry(p) = NoEntry
  <2>1. Control'
    BY <1>1, <1>2, FinishControl DEF IInv, QuarantineMove, Answer
  <2>2. pc'[p] \notin Guarded
        /\ \A q \in Proc \ {p} : pc'[q] = pc[q] /\ request'[q] = request[q]
    BY <1>2 DEF IInv, Control, ControlTypes, QuarantineMove, Finish, Leave, GoTo,
                Guarded, PutStages
  <2> QED
    BY <1>1, <2>1, <2>2, MoveContents DEF IInv, QuarantineMove
<1>3. CASE Entry(p) # NoEntry
  BY <1>1, <1>3, MoveOn DEF QuarantineMove
<1> QED
  BY <1>2, <1>3

\* The fsyncs at a key whose entry is gone.
LEMMA MovedSyncs ==
  ASSUME IInv, NEW p \in Proc, MovedSync(p), disk[K(p)] = NoEntry
  PROVE  IInv'
<1>1. /\ pc[p] \in Writing /\ pc[p] # "idle" /\ K(p) \in Key /\ request[p] \in Request
      /\ StepOf("moved_sync", request[p])
  BY Working DEF MovedSync, Writing
<1>2. CASE request[p].op = "put"
  <2>1. StepOf("put_write", request[p])
    BY <1>2 DEF StepOf, PutSteps
  <2>2. Control'
    BY <1>1, <1>2, <2>1, WritingControl
       DEF IInv, Control, ControlTypes, MovedSync, Writing, bounds
  <2>3. StoreTypes' /\ Stable'
    BY <1>1 DEF IInv, Contents, StoreTypes, Stable, MovedSync, local
  <2>4. Staged' /\ OwnEntry'
    BY <1>2 DEF IInv, Control, ControlTypes, Contents, Staged, OwnEntry, MovedSync,
                GoTo, K, local
  <2> QED
    BY <2>2, <2>3, <2>4 DEF IInv, Contents
<1>3. CASE request[p].op # "put"
  <2>1. PICK a \in {"miss", "moved"} : Finish(p, a, NoEntry)
    BY <1>1, <1>3 DEF MovedSync, StepOf, VerifySteps
  <2>2. Control'
    BY <1>1, <2>1, FinishControl DEF IInv, Answer
  <2>3. \A q \in Proc : \/ pc'[q] = pc[q] /\ request'[q] = request[q]
                        \/ pc'[q] \notin Guarded
    BY <2>1 DEF IInv, Control, ControlTypes, Finish, Leave, GoTo, Guarded, PutStages
  <2> QED
    BY <1>1, <2>2, <2>3, SyncContents DEF IInv, MovedSync
<1> QED
  BY <1>2, <1>3

\* A step of put under its lock, seen from the control variables.
LEMMA PutControl ==
  ASSUME IInv, NEW p \in Proc, pc[p] \in PutStages \cup {"put_check"},
         NEW s \in PutStages, GoTo(p, s),
         UNCHANGED <<locks, request, outcome, calls>>, faults' \in 0 .. MaxFaults
  PROVE  Control'
<1>1. StepOf(s, request[p]) /\ pc[p] \in Writing /\ s \in Writing
  BY Working, StepOfs DEF PutSteps, PutStages, Writing
<1> QED
  BY <1>1, WritingControl DEF IInv

\* put answers with the entry in place, moves it aside, or goes on to write.
LEMMA PutChecks ==
  ASSUME IInv, NEW p \in Proc, PutCheck(p)
  PROVE  IInv'
<1>1. /\ pc[p] \in Writing /\ pc[p] # "idle" /\ StepOf("moved_sync", request[p])
      /\ Entry(p) \in Record \cup {NoEntry}
  BY Working, StepOfs DEF PutCheck, PutCheckAnswers, Writing
<1>2. CASE Verifies(Entry(p), Expected(request[p]))
  BY <1>1, <1>2, FinishSame
     DEF PutCheck, PutCheckAnswers, Verifies, Answer, GoTo
<1>3. CASE Entry(p) # NoEntry /\ ~ Verifies(Entry(p), Expected(request[p]))
  BY <1>1, <1>3, MoveOn DEF PutCheck, PutCheckAnswers
<1>4. CASE Entry(p) = NoEntry
  <2>1. GoTo(p, "put_write") /\ UNCHANGED <<store, locks, local, request, outcome, bounds>>
    BY <1>4 DEF PutCheck, PutCheckAnswers, Verifies
  <2>2. Control'
    BY <2>1, PutControl
       DEF IInv, Control, ControlTypes, PutCheck, PutCheckAnswers, PutStages, bounds
  <2>3. StoreTypes' /\ Stable'
    BY <2>1 DEF IInv, Contents, StoreTypes, Stable, store, local
  <2>4. Staged' /\ OwnEntry'
    BY <1>4, <2>1
       DEF IInv, Control, ControlTypes, Contents, Staged, OwnEntry, GoTo, K, Entry,
           store, local
  <2> QED
    BY <2>2, <2>3, <2>4 DEF IInv, Contents
<1> QED
  BY <1>2, <1>3, <1>4

\* The steps of put before its rename, and a call of put that fails.
LEMMA PutGoesOn ==
  ASSUME IInv, NEW p \in Proc,
         PutWrite(p) \/ PutFsync(p) \/ PutVerify(p) \/ PutFails(p)
  PROVE  IInv'
<1>1. /\ request[p] \in Request /\ K(p) \in Key /\ StepOf(pc[p], request[p])
      /\ pc[p] \in PutStages
  BY Working DEF PutWrite, PutFsync, PutVerify, PutFails, PutGoes, PutStages
<1>2. request[p].record \in Record
  BY <1>1, RequestFields
     DEF StepOf, PutStages, LoadSteps, VerifySteps, QuarantineSteps
<1>3. PICK s \in PutStages :
        /\ GoTo(p, s) /\ UNCHANGED <<store, locks, request, outcome, calls>>
        /\ faults' \in 0 .. MaxFaults
  BY BoundsAssumption
     DEF IInv, Control, ControlTypes, PutWrite, PutFsync, PutVerify, PutFails, PutGoes,
         PutStages, bounds
<1>4. Control'
  BY <1>1, <1>3, PutControl
<1>5. StoreTypes' /\ Stable'
  BY <1>2, <1>3
     DEF IInv, Contents, StoreTypes, Stable, PutWrite, PutFsync, PutVerify, PutFails,
         store, local
<1>6. OwnEntry'
  BY <1>3
     DEF IInv, Control, ControlTypes, Contents, OwnEntry, PutWrite, PutFsync, PutVerify,
         PutFails, PutGoes, GoTo, K, store
<1>7. Staged'
  <2>1. CASE PutVerify(p)
    BY <2>1
       DEF IInv, Control, ControlTypes, Contents, StoreTypes, Staged, PutVerify, GoTo,
           Verifies, local
  <2>2. CASE PutWrite(p) \/ PutFsync(p)
    BY <1>1, <2>2
       DEF IInv, Control, ControlTypes, Contents, StoreTypes, Staged, PutWrite, PutFsync,
           PutGoes, GoTo
  <2>3. CASE PutFails(p)
    BY <2>3
       DEF IInv, Control, ControlTypes, Contents, Staged, PutFails, GoTo, local
  <2> QED
    BY <2>1, <2>2, <2>3
<1> QED
  BY <1>4, <1>5, <1>6, <1>7 DEF IInv, Contents

\* put's rename publishes what was fsynced and verified, and only there.
LEMMA PutReplaces ==
  ASSUME IInv, NEW p \in Proc, PutReplace(p)
  PROVE  IInv'
<1>1. /\ K(p) \in Key /\ pc[p] = "put_replace" /\ Entry(p) = NoEntry
      /\ stage[p] = request[p].record /\ stage[p].state = "whole" /\ p \in flushed
      /\ stage[p] \in Record \cup {NoEntry} /\ request[p] \in Request
      /\ StepOf(pc[p], request[p])
  BY Working DEF IInv, Contents, StoreTypes, Staged, OwnEntry, PutReplace, Entry
<1>2. /\ disk' = [disk EXCEPT ![K(p)] = stage[p]] /\ GoTo(p, "put_sync")
      /\ synced' = synced \cup {K(p)}
      /\ stage' = [stage EXCEPT ![p] = NoEntry] /\ flushed' = flushed \ {p}
      /\ UNCHANGED <<undo, gone, locks, request, outcome, bounds>>
  BY <1>1 DEF PutReplace
<1>3. Control'
  BY <1>1, <1>2, PutControl DEF IInv, Control, ControlTypes, PutStages, bounds
<1>4. \A q \in Proc \ {p} : pc[q] \in Writing => K(q) # K(p)
  BY <1>1, Exclusion DEF IInv, WritersAlone, Writing
<1>5. StoreTypes' /\ Stable'
  BY <1>1, <1>2 DEF IInv, Contents, StoreTypes, Stable, Intact
<1>6. Staged'
  BY <1>2 DEF IInv, Control, ControlTypes, Contents, StoreTypes, Staged, GoTo
<1>7. OwnEntry'
  BY <1>1, <1>2, <1>4
     DEF IInv, Control, ControlTypes, Contents, StoreTypes, OwnEntry, GoTo, K, Writing
<1> QED
  BY <1>3, <1>5, <1>6, <1>7 DEF IInv, Contents

\* put's directory fsync makes the removals before it stable.
LEMMA PutSyncs ==
  ASSUME IInv, NEW p \in Proc, PutSync(p)
  PROVE  IInv'
<1>1. K(p) \in Key
  BY Working DEF PutSync, PutGoes
<1>2. Control'
  BY PutControl DEF IInv, Control, ControlTypes, PutSync, PutGoes, PutStages, bounds
<1>3. StoreTypes' /\ Stable'
  BY <1>1 DEF IInv, Contents, StoreTypes, Stable, PutSync, local
<1>4. Staged' /\ OwnEntry'
  BY DEF IInv, Control, ControlTypes, Contents, Staged, OwnEntry, PutSync, PutGoes,
         GoTo, K, local
<1> QED
  BY <1>2, <1>3, <1>4 DEF IInv, Contents

\* put answers with the entry it reads back, or enters its handler.
LEMMA PutConfirms ==
  ASSUME IInv, NEW p \in Proc, PutConfirm(p)
  PROVE  IInv'
<1>1. /\ pc[p] = "put_confirm" /\ Entry(p) \in Record \cup {NoEntry}
      /\ UNCHANGED <<store, local>>
  BY Working DEF PutConfirm
<1>2. CASE Verifies(Entry(p), Expected(request[p]))
  BY <1>1, <1>2, FinishSame DEF PutConfirm, Answer
<1>3. CASE ~ Verifies(Entry(p), Expected(request[p]))
  <2>1. Control'
    BY <1>3, PutControl
       DEF IInv, Control, ControlTypes, PutConfirm, PutStages, bounds
  <2>2. StoreTypes' /\ Stable'
    BY <1>1 DEF IInv, Contents, StoreTypes, Stable, store, local
  <2>3. Staged' /\ OwnEntry'
    BY <1>1, <1>3
       DEF IInv, Control, ControlTypes, Contents, Staged, OwnEntry, PutConfirm, GoTo, K,
           store, local
  <2> QED
    BY <2>1, <2>2, <2>3 DEF IInv, Contents
<1> QED
  BY <1>2, <1>3

\* An exception ends the operation, its removals stable or not.
LEMMA RaiseEnds ==
  ASSUME IInv, NEW p \in Proc, pc[p] # "idle", Raise(p),
         UNCHANGED <<disk, synced, gone, calls>>, faults' \in 0 .. MaxFaults,
         undo' \in {undo, [undo EXCEPT ![K(p)] = {}]}
  PROVE  IInv'
<1>1. Control'
  BY LeaveControl DEF IInv, Raise, Answer
<1>2. StoreTypes' /\ Stable'
  BY Working DEF IInv, Contents, StoreTypes, Stable, Raise
<1>3. /\ pc' = [pc EXCEPT ![p] = "idle"] /\ pc \in [Proc -> PC]
      /\ request' = [request EXCEPT ![p] = NoRequest]
      /\ request \in [Proc -> Request \cup {NoRequest}]
      /\ stage' = [stage EXCEPT ![p] = NoEntry] /\ flushed' = flushed \ {p}
      /\ stage \in [Proc -> Record \cup {NoEntry}]
  BY DEF IInv, Control, ControlTypes, Contents, StoreTypes, Raise, Leave, GoTo
<1>4. Staged' /\ OwnEntry'
  BY <1>3 DEF IInv, Contents, Staged, OwnEntry, K
<1> QED
  BY <1>1, <1>2, <1>4 DEF IInv, Contents

\* put's handler withdraws its entry, or has none to withdraw.
LEMMA PutUndoes ==
  ASSUME IInv, NEW p \in Proc, PutUndo(p) \/ UndoSync(p)
  PROVE  IInv'
<1>1. /\ pc[p] \in Writing /\ pc[p] # "idle"
      /\ pc[p] = "put_undo" => StepOf("undo_sync", request[p])
  BY Working, StepOfs DEF PutUndo, UndoSync, Writing, PutSteps
<1>2. CASE PutUndo(p) /\ Entry(p) # NoEntry
  BY <1>1, <1>2, MoveOn DEF PutUndo
<1>3. CASE PutUndo(p) /\ Entry(p) = NoEntry
  BY <1>1, <1>3, RaiseEnds DEF PutUndo, CleanUp, store, bounds, IInv, Control, ControlTypes
<1>4. CASE UndoSync(p)
  BY <1>1, <1>4, RaiseEnds DEF UndoSync, CleanUp, bounds, IInv, Control, ControlTypes
<1> QED
  BY <1>2, <1>3, <1>4

\* _quarantine_locked fails, in its rename or in an fsync after it.
LEMMA MovesFail ==
  ASSUME IInv, NEW p \in Proc, MoveFails(p) \/ SyncFails(p)
  PROVE  IInv'
<1>1. pc[p] # "idle" /\ Raise(p) /\ UNCHANGED <<disk, synced, gone, calls>>
      /\ undo' \in {undo, [undo EXCEPT ![K(p)] = {}]}
  BY DEF MoveFails, SyncFails, store
<1>2. faults' \in 0 .. MaxFaults
  BY BoundsAssumption DEF IInv, Control, ControlTypes, MoveFails, SyncFails, Fault
<1> QED
  BY <1>1, <1>2, RaiseEnds

\* Entering an operation preserves the invariant.
LEMMA Calls ==
  ASSUME IInv, NEW p \in Proc, Call(p)
  PROVE  IInv'
<1>1. pc'[p] \notin Guarded
      /\ \A q \in Proc \ {p} : pc'[q] = pc[q] /\ request'[q] = request[q]
  BY RequestFields
     DEF IInv, Control, ControlTypes, Call, GoTo, FirstStep, Guarded, PutStages
<1> QED
  BY <1>1, CallControl, SameContents DEF IInv, Call

\* The death of a process preserves it, at every step of every operation.
LEMMA Crashes ==
  ASSUME IInv, NEW p \in Proc, Crash(p)
  PROVE  IInv'
<1>1. StoreTypes' /\ Stable'
  BY DEF IInv, Contents, StoreTypes, Stable, Crash, store
<1>2. Staged' /\ OwnEntry'
  BY DEF IInv, Control, ControlTypes, Contents, StoreTypes, Staged, OwnEntry, Crash,
         GoTo, K, store
<1> QED
  BY <1>1, <1>2, CrashControl DEF IInv, Contents

\* A record that rots stays one that was whole when it was published.
LEMMA Rots ==
  ASSUME IInv, NEW k \in Key, Rot(k)
  PROVE  IInv'
<1>1. /\ disk[k] \in Record /\ Rotten(disk[k]) \in Record
      /\ Rotten(disk[k]).state = "rotten" /\ disk' = [disk EXCEPT ![k] = Rotten(disk[k])]
      /\ Rotten(Rotten(disk[k])) = Rotten(disk[k]) /\ disk[k] # NoEntry
  BY RecordFields DEF IInv, Contents, StoreTypes, Rot
<1>2. Control'
  BY BoundsAssumption
     DEF IInv, Control, ControlTypes, AtWork, LocksHeld, Rot, Fault, K, locks
<1>3. StoreTypes' /\ Stable' /\ Staged'
  BY <1>1 DEF IInv, Contents, StoreTypes, Stable, Staged, Rot, local, Intact
<1>4. ASSUME NEW p \in Proc, pc[p] \in PutStages
      PROVE  request[p].record \in Record
             /\ Rotten(Rotten(request[p].record)) = Rotten(request[p].record)
  BY <1>4, RequestFields, RecordFields, Working
     DEF StepOf, LoadSteps, VerifySteps, QuarantineSteps, PutStages
<1>5. \A p \in Proc : pc'[p] = pc[p] /\ request'[p] = request[p] /\ K(p)' = K(p)
  BY DEF Rot, K
<1>6. OwnEntry'
  BY <1>1, <1>4, <1>5 DEF IInv, Contents, StoreTypes, OwnEntry, PutStages
<1> QED
  BY <1>2, <1>3, <1>6 DEF IInv, Contents

\* What a power loss leaves was fsynced before its rename, or is gone.
LEMMA PowerLosses == IInv /\ PowerLoss => IInv'
<1> SUFFICES ASSUME IInv, PowerLoss PROVE IInv'
  OBVIOUS
<1>1. \A k \in Key : disk'[k] \in Survivors(k)
  BY DEF PowerLoss
<1>2. \A k \in Key : disk'[k] # NoEntry =>
        disk'[k] \in Record /\ disk'[k].state \in Intact
  BY <1>1 DEF IInv, Contents, StoreTypes, Stable, Survivors
<1>3. disk' \in [Key -> Record \cup {NoEntry}]
  BY <1>2 DEF PowerLoss
<1>4. gone' \in [Key -> SUBSET Attempt]
  BY RecordFields DEF IInv, Contents, StoreTypes, PowerLoss
<1>5. StoreTypes' /\ Stable'
  BY <1>2, <1>3, <1>4 DEF StoreTypes, Stable, PowerLoss
<1>6. Staged' /\ OwnEntry'
  BY DEF PowerLoss, Staged, OwnEntry
<1> QED
  BY <1>5, <1>6, PowerLossControl DEF IInv, Contents
-----------------------------------------------------------------------------
\* The empty store satisfies the invariant.
LEMMA Starts == Init => IInv
BY BoundsAssumption
   DEF Init, IInv, Control, ControlTypes, AtWork, LocksHeld, Contents, StoreTypes,
       Staged, OwnEntry, Stable, PC, Writing, Reading

\* Every step of every process preserves it.
LEMMA Preserved == IInv /\ [Next]_vars => IInv'
<1> SUFFICES ASSUME IInv, [Next]_vars PROVE IInv'
  OBVIOUS
<1>1. ASSUME NEW p \in Proc, Step(p) PROVE IInv'
  <2>1. CASE MovedSync(p)
    BY <2>1, MovedSyncs DEF IInv, Contents, OwnEntry, MovedSync
  <2> QED
    BY <1>1, <2>1, LockSteps, ReadingSteps, QuarantineMoves, PutChecks, PutGoesOn,
       PutReplaces, PutSyncs, PutConfirms, PutUndoes
       DEF Step
<1>2. CASE UNCHANGED vars
  BY <1>2
     DEF vars, store, locks, local, bounds, IInv, Control, ControlTypes, AtWork,
         LocksHeld, Contents, StoreTypes, Staged, OwnEntry, Stable, K
<1> QED
  BY <1>1, <1>2, Calls, PutGoesOn, MovesFail, Crashes, Rots, PowerLosses DEF Next

\* The inductive invariant holds in every reachable state.
THEOREM Invariant == Spec => []IInv
BY Starts, Preserved, PTL DEF Spec

(* TypeOK holds in every reachable state.                                  *)
THEOREM TypeCorrect == Spec => []TypeOK
<1>1. IInv => TypeOK
  BY DEF IInv, Control, ControlTypes, Contents, StoreTypes, TypeOK
<1> QED
  BY <1>1, Invariant, PTL

(* The advisory locks keep writers alone, crashes and power losses included. *)
THEOREM WritersStayAlone == Spec => []WritersAlone
<1>1. IInv => WritersAlone
  BY Exclusion DEF IInv
<1> QED
  BY <1>1, Invariant, PTL

(* However an operation is cut short, what is visible was fsynced and      *)
(* verified before it was renamed into place.                              *)
THEOREM NothingHalfPublished == Spec => []NoHalfPublishedEntry
<1>1. IInv => NoHalfPublishedEntry
  BY DEF IInv, Contents, Stable, Intact, NoHalfPublishedEntry
<1> QED
  BY <1>1, Invariant, PTL

\* The writer that moves the entry of its key has a reason to.
LEMMA MovedForAReason ==
  ASSUME IInv, NEW p \in Proc, Step(p), NEW k \in Key,
         disk[k] # NoEntry, disk'[k] = NoEntry
  PROVE  /\ p \in owner[k]
         /\ \/ request[p].op = "quarantine"
            \/ ~ Verifies(disk[k], Expected(request[p]))
            \/ request[p].op = "put" /\ disk[k] = request[p].record
<1>1. disk \in [Key -> Record \cup {NoEntry}]
  BY DEF IInv, Contents, StoreTypes
<1>2. \/ LoadRecheck(p) \/ QuarantineMove(p) \/ PutCheck(p) \/ PutUndo(p)
      \/ PutReplace(p)
  BY DEF Step, LoadLock, LoadCheck, LoadUpgrade, VerifyLock, VerifyCheck, QuarantineLock,
         MovedSync, PutLock, PutWrite, PutFsync, PutVerify, PutSync, PutConfirm, UndoSync,
         Acquired, PutGoes, store
<1>3. /\ pc[p] \in Writing /\ K(p) \in Key /\ owner[K(p)] = {p}
      /\ request[p] \in Request /\ StepOf(pc[p], request[p])
  BY <1>2, Working
     DEF IInv, Control, LocksHeld, LoadRecheck, QuarantineMove, PutCheck, PutCheckAnswers,
         PutUndo, PutReplace, Writing
<1>4. K(p) = k
  BY <1>1, <1>2, <1>3
     DEF LoadRecheck, QuarantineMove, PutCheck, PutCheckAnswers, PutUndo, PutReplace,
         MoveAside, store
<1>5. CASE LoadRecheck(p) \/ PutCheck(p)
  BY <1>3, <1>4, <1>5 DEF LoadRecheck, PutCheck, PutCheckAnswers, Entry, store
<1>6. CASE QuarantineMove(p)
  BY <1>3, <1>4, <1>6
     DEF QuarantineMove, StepOf, LoadSteps, VerifySteps, PutSteps
<1>7. CASE PutUndo(p)
  <2>1. request[p].op = "put" /\ request[p].record \in Record
    BY <1>3, <1>7, RequestFields
       DEF PutUndo, StepOf, LoadSteps, VerifySteps, QuarantineSteps
  <2>2. disk[k] \in {request[p].record, Rotten(request[p].record)}
    BY <1>4, <1>7 DEF IInv, Contents, OwnEntry, PutUndo
  <2> QED
    BY <1>3, <1>4, <2>1, <2>2, RecordFields DEF Verifies
<1>8. CASE PutReplace(p)
  BY <1>3, <1>4, <1>8 DEF IInv, Contents, OwnEntry, PutReplace
<1> QED
  BY <1>2, <1>5, <1>6, <1>7, <1>8

(* A load or a put never takes a good entry away, for any number of        *)
(* processes between load's two locks.                                     *)
THEOREM GoodEntriesAreKept == Spec => GoodEntriesStay
<1>1. ASSUME IInv, [Next]_vars, NEW k \in Key,
             disk[k] # NoEntry, disk'[k] = NoEntry, faults' = faults
      PROVE  \E p \in owner[k] :
                \/ request[p].op = "quarantine"
                \/ ~ Verifies(disk[k], Expected(request[p]))
                \/ request[p].op = "put" /\ disk[k] = request[p].record
  <2>1. faults \in Nat
    BY <1>1, BoundsAssumption DEF IInv, Control, ControlTypes
  <2>2. disk' # disk /\ faults' # faults + 1
    BY <1>1, <2>1
  <2>3. PICK p \in Proc : Step(p)
    BY <1>1, <2>2
       DEF Next, Call, PutFails, MoveFails, SyncFails, Crash, Rot, PowerLoss, Fault, vars,
           store
  <2> QED
    BY <1>1, <2>3, MovedForAReason
<1>2. IInv /\ [Next]_vars =>
        [\A k \in Key :
           /\ disk[k] # NoEntry /\ disk'[k] = NoEntry /\ faults' = faults
           => \E p \in owner[k] :
                \/ request[p].op = "quarantine"
                \/ ~ Verifies(disk[k], Expected(request[p]))
                \/ request[p].op = "put" /\ disk[k] = request[p].record]_vars
  BY <1>1
<1> QED
  BY <1>2, Invariant, PTL DEF Spec, GoodEntriesStay
-----------------------------------------------------------------------------
(* What callers have been told.  The invariant above says nothing of the    *)
(* past; this one ties every answer given to the entries and removals of    *)
(* now, by the attempt that wrote a record: an attempt is published once.   *)

\* Process p takes the step.
Acts(p) ==
  \/ Call(p) \/ Step(p) \/ PutFails(p) \/ MoveFails(p) \/ SyncFails(p) \/ Crash(p)

\* A put that has not renamed its record into place.
Publishing(p) ==
  /\ pc[p] \in {"put_ex", "put_check", "moved_sync", "put_write", "put_fsync",
                "put_verify", "put_replace"}
  /\ request[p].op = "put"

\* A record of a put that was called, but of none that has yet to publish it.
Dated(e) ==
  \E q \in Proc, n \in Nat :
    e.attempt = <<q, n>> /\ n <= calls[q] /\ (Publishing(q) => n # calls[q])

\* The same after a step, of a record of now or then.
DatedThen(e) ==
  \E q \in Proc, n \in Nat :
    e.attempt = <<q, n>> /\ n <= calls'[q] /\ (Publishing(q)' => n # calls'[q])

\* A record handed out is in its place, or has left it.
Accounted(o) ==
  /\ o.record.state = "whole" /\ Dated(o.record)
  /\ \/ o.record.attempt \in gone[o.key]
     \/ disk[o.key] # NoEntry /\ disk[o.key].attempt = o.record.attempt

\* What the answers of finished operations say of the store.
Answered ==
  \A p \in Proc : outcome[p] # NoOutcome =>
    /\ outcome[p].record # NoEntry => Accounted(outcome[p])
    /\ outcome[p].answer = "stored" => outcome[p].record # NoEntry

\* No entry, present or removed, is of a put that has yet to publish it.
DatedEntries ==
  \A k \in Key : /\ disk[k] # NoEntry => Dated(disk[k])
                 /\ \A e \in undo[k] : Dated(e)

\* A put writes the attempt of its call, and confirms over settled removals.
Named ==
  \A p \in Proc :
    /\ pc[p] # "idle" /\ request[p].op = "put" =>
         request[p].record.attempt = <<p, calls[p]>>
    /\ pc[p] = "put_confirm" => undo[K(p)] = {}

History == Answered /\ DatedEntries /\ Named
HInv == History /\ StoredReplacesForGood
-----------------------------------------------------------------------------
\* What a step may do to the entries, and who does it.
LEMMA StoreSteps ==
  ASSUME IInv, [Next]_vars
  PROVE  \/ UNCHANGED <<disk, undo, gone>>
         \/ \E p \in Proc : /\ pc[p] \in Writing /\ K(p) \in Key /\ MoveAside(K(p))
                            /\ pc'[p] # "put_confirm"
         \/ \E k \in Key : undo' = [undo EXCEPT ![k] = {}] /\ UNCHANGED <<disk, gone>>
         \/ \E p \in Proc : PutReplace(p)
         \/ \E k \in Key : Rot(k)
         \/ PowerLoss
<1>1. ASSUME NEW p \in Proc, LoadRecheck(p) \/ QuarantineMove(p) \/ PutCheck(p) \/ PutUndo(p)
      PROVE  \/ UNCHANGED <<disk, undo, gone>>
             \/ /\ pc[p] \in Writing /\ K(p) \in Key /\ MoveAside(K(p))
                /\ pc'[p] # "put_confirm"
  <2>1. pc[p] \in Writing /\ K(p) \in Key
    BY <1>1, Working DEF LoadRecheck, QuarantineMove, PutCheck, PutCheckAnswers, PutUndo, Writing
  <2>2. pc \in [Proc -> PC]
    BY DEF IInv, Control, ControlTypes
  <2> QED
    BY <1>1, <2>1, <2>2
       DEF LoadRecheck, QuarantineMove, PutCheck, PutCheckAnswers, PutUndo, GoTo, Finish, Leave,
           store
<1>2. ASSUME NEW p \in Proc, MovedSync(p) \/ PutSync(p) \/ UndoSync(p) \/ SyncFails(p)
      PROVE  \/ UNCHANGED <<disk, undo, gone>>
             \/ \E k \in Key : undo' = [undo EXCEPT ![k] = {}] /\ UNCHANGED <<disk, gone>>
  <2>1. K(p) \in Key
    BY <1>2, Working DEF MovedSync, PutSync, PutGoes, UndoSync, SyncFails
  <2> QED
    BY <1>2, <2>1 DEF MovedSync, PutSync, UndoSync, SyncFails
<1>3. ASSUME NEW p \in Proc,
             \/ LoadLock(p) \/ LoadCheck(p) \/ LoadUpgrade(p) \/ VerifyLock(p) \/ VerifyCheck(p)
             \/ QuarantineLock(p) \/ PutLock(p) \/ PutWrite(p) \/ PutFsync(p) \/ PutVerify(p)
             \/ PutConfirm(p) \/ Call(p) \/ PutFails(p) \/ MoveFails(p) \/ Crash(p)
      PROVE  UNCHANGED <<disk, undo, gone>>
  BY <1>3
     DEF LoadLock, LoadCheck, LoadUpgrade, VerifyLock, VerifyCheck, QuarantineLock, PutLock,
         PutWrite, PutFsync, PutVerify, PutConfirm, Call, PutFails, MoveFails, Crash, Acquired,
         store
<1> QED
  BY <1>1, <1>2, <1>3 DEF Next, Step, vars, store

\* What becomes of the entry of a key: it stays, or it is gone for all to see.
LEMMA KeySteps ==
  ASSUME IInv, [Next]_vars, NEW k \in Key
  PROVE  /\ gone[k] \subseteq gone'[k]
         /\ disk[k] # NoEntry => \/ disk[k].attempt \in gone'[k]
                                 \/ disk'[k] # NoEntry /\ disk'[k].attempt = disk[k].attempt
         /\ \/ disk'[k] \in {NoEntry, disk[k]}
            \/ disk[k] # NoEntry /\ disk'[k] = Rotten(disk[k])
            \/ disk'[k] \in undo[k] /\ undo'[k] = {}
            \/ \E p \in Proc : PutReplace(p) /\ K(p) = k
         /\ \/ undo'[k] \subseteq undo[k]
            \/ disk'[k] = NoEntry /\ undo'[k] \subseteq undo[k] \cup ({disk[k]} \ {NoEntry})
<1>1. /\ disk \in [Key -> Record \cup {NoEntry}] /\ gone \in [Key -> SUBSET Attempt]
      /\ undo \in [Key -> SUBSET Record]
  BY DEF IInv, Contents, StoreTypes
<1>2. CASE \E p \in Proc : pc[p] \in Writing /\ K(p) \in Key /\ MoveAside(K(p))
  BY <1>1, <1>2 DEF MoveAside
<1>3. CASE \E l \in Key : undo' = [undo EXCEPT ![l] = {}] /\ UNCHANGED <<disk, gone>>
  BY <1>1, <1>3
<1>4. CASE \E p \in Proc : PutReplace(p)
  BY <1>1, <1>4, Working DEF PutReplace, Entry
<1>5. CASE \E l \in Key : Rot(l)
  <2>1. PICK l \in Key : Rot(l)
    BY <1>5
  <2>2. disk[l] \in Record /\ disk' = [disk EXCEPT ![l] = Rotten(disk[l])]
    BY <1>1, <2>1 DEF Rot
  <2>3. Rotten(disk[l]) # NoEntry /\ Rotten(disk[l]).attempt = disk[l].attempt
    BY <2>2, RecordFields DEF Rotten, Record
  <2> QED
    BY <1>1, <2>1, <2>2, <2>3 DEF Rot
<1>6. CASE PowerLoss
  <2>1. disk'[k] \in Survivors(k) /\ undo'[k] = {}
    BY <1>6 DEF PowerLoss
  <2>2. disk'[k] \in {NoEntry, disk[k]} \cup undo[k]
    BY <2>1 DEF IInv, Contents, Stable, Survivors
  <2>3. gone'[k] = IF disk[k] = NoEntry \/ disk'[k] = disk[k]
                   THEN gone[k] ELSE gone[k] \cup {disk[k].attempt}
    BY <1>6 DEF PowerLoss
  <2> QED
    BY <1>1, <2>1, <2>2, <2>3
<1>7. CASE UNCHANGED <<disk, undo, gone>>
  BY <1>7
<1> QED
  BY <1>2, <1>3, <1>4, <1>5, <1>6, <1>7, StoreSteps

\* What a process has been told: a record that verified in its place.
LEMMA Answering ==
  ASSUME IInv, [Next]_vars, NEW p \in Proc
  PROVE  \/ outcome'[p] = outcome[p] \/ outcome'[p] = NoOutcome
         \/ outcome'[p].record = NoEntry /\ outcome'[p].answer # "stored"
         \/ /\ UNCHANGED <<disk, undo, gone>>
            /\ K(p) \in Key /\ outcome'[p].key = K(p)
            /\ outcome'[p].record = disk[K(p)]
            /\ Verifies(disk[K(p)], Expected(request[p]))
            /\ outcome'[p].answer = "stored" => pc[p] = "put_confirm"
<1>1. outcome \in [Proc -> Outcome \cup {NoOutcome}]
  BY DEF IInv, Control, ControlTypes
<1>2. ASSUME NEW q \in Proc, NEW a, NEW e, Leave(q, a, e)
      PROVE  outcome'[p] = IF p = q THEN [answer |-> a, key |-> K(p), record |-> e]
                           ELSE outcome[p]
  BY <1>1, <1>2 DEF Leave
<1>3. ASSUME NEW q \in Proc, LoadCheck(q) \/ LoadRecheck(q) \/ VerifyCheck(q)
      PROVE  \/ outcome' = outcome
             \/ Leave(q, "miss", NoEntry) \/ Leave(q, "raised", NoEntry)
             \/ /\ Leave(q, "hit", Entry(q)) /\ Verifies(Entry(q), Expected(request[q]))
                /\ UNCHANGED <<disk, undo, gone>> /\ pc[q] # "idle"
  BY <1>3 DEF LoadCheck, LoadRecheck, VerifyCheck, Finish, store
<1>4. ASSUME NEW q \in Proc, PutCheck(q) \/ PutConfirm(q)
      PROVE  \/ outcome' = outcome
             \/ /\ Verifies(Entry(q), Expected(request[q]))
                /\ UNCHANGED <<disk, undo, gone>> /\ pc[q] # "idle"
                /\ \/ Leave(q, "reused", Entry(q))
                   \/ Leave(q, "stored", Entry(q)) /\ pc[q] = "put_confirm"
  BY <1>4 DEF PutCheck, PutCheckAnswers, PutConfirm, Finish, store
<1>5. ASSUME NEW q \in Proc,
             \/ QuarantineMove(q) \/ MovedSync(q) \/ PutUndo(q) \/ UndoSync(q) \/ MoveFails(q)
             \/ SyncFails(q)
      PROVE  outcome' = outcome \/ \E a \in {"miss", "moved", "raised"} : Leave(q, a, NoEntry)
  <2>1. MovedSync(q) => request[q].op \in {"load", "quarantine", "put"}
    BY Working DEF MovedSync, StepOf, LoadSteps, VerifySteps, QuarantineSteps
  <2> QED
    BY <1>5, <2>1
       DEF QuarantineMove, MovedSync, PutUndo, UndoSync, CleanUp, MoveFails, SyncFails, Raise,
           Finish
<1>6. ASSUME NEW q \in Proc,
             \/ LoadLock(q) \/ LoadUpgrade(q) \/ VerifyLock(q) \/ QuarantineLock(q) \/ PutLock(q)
             \/ PutWrite(q) \/ PutFsync(q) \/ PutVerify(q) \/ PutReplace(q) \/ PutSync(q)
             \/ PutFails(q) \/ Crash(q)
      PROVE  outcome' = outcome
  BY <1>6
     DEF LoadLock, LoadUpgrade, VerifyLock, QuarantineLock, PutLock, PutWrite, PutFsync,
         PutVerify, PutReplace, PutSync, PutFails, Crash, Acquired, PutGoes
<1>7. ASSUME NEW q \in Proc, Call(q)
      PROVE  outcome'[p] \in {outcome[p], NoOutcome}
  BY <1>1, <1>7 DEF Call
<1>8. ASSUME NEW k \in Key, Rot(k) PROVE outcome' = outcome
  BY <1>8 DEF Rot
<1>9. PowerLoss \/ UNCHANGED vars => outcome' = outcome
  BY DEF PowerLoss, vars
<1>10. pc[p] # "idle" => K(p) \in Key
  BY Working
<1>11. ASSUME NEW q \in Proc, NEW a, NEW e, Leave(q, a, e)
       PROVE  \/ outcome'[p] = outcome[p]
              \/ /\ p = q /\ outcome'[p].answer = a /\ outcome'[p].key = K(p)
                 /\ outcome'[p].record = e
  <2>1. CASE p = q
    <3>1. outcome'[p] = [answer |-> a, key |-> K(p), record |-> e]
      BY <1>2, <1>11, <2>1, Zenon
    <3> QED
      BY <2>1, <3>1
  <2>2. CASE p # q
    BY <1>2, <1>11, <2>2, Zenon
  <2> QED
    BY <2>1, <2>2
<1>12. ASSUME NEW q \in Proc, NEW a \in {"miss", "moved", "raised"}, Leave(q, a, NoEntry)
       PROVE  outcome'[p] = outcome[p]
              \/ (outcome'[p].record = NoEntry /\ outcome'[p].answer # "stored")
  BY <1>11, <1>12
<1>13. ASSUME NEW q \in Proc, NEW a \in {"hit", "reused", "stored"}, Leave(q, a, Entry(q)),
              Verifies(Entry(q), Expected(request[q])), UNCHANGED <<disk, undo, gone>>,
              pc[q] # "idle", a = "stored" => pc[q] = "put_confirm"
       PROVE  \/ outcome'[p] = outcome[p]
              \/ /\ UNCHANGED <<disk, undo, gone>>
                 /\ K(p) \in Key /\ outcome'[p].key = K(p)
                 /\ outcome'[p].record = disk[K(p)]
                 /\ Verifies(disk[K(p)], Expected(request[p]))
                 /\ outcome'[p].answer = "stored" => pc[p] = "put_confirm"
  BY <1>10, <1>11, <1>13 DEF Entry
<1>14. ASSUME NEW q \in Proc, \/ LoadCheck(q) \/ LoadRecheck(q) \/ VerifyCheck(q) \/ PutCheck(q)
                              \/ PutConfirm(q) \/ QuarantineMove(q) \/ MovedSync(q) \/ PutUndo(q)
                              \/ UndoSync(q) \/ MoveFails(q) \/ SyncFails(q)
       PROVE  \/ outcome' = outcome
              \/ \E a \in {"miss", "moved", "raised"} : Leave(q, a, NoEntry)
              \/ \E a \in {"hit", "reused", "stored"} :
                   /\ Leave(q, a, Entry(q)) /\ Verifies(Entry(q), Expected(request[q]))
                   /\ UNCHANGED <<disk, undo, gone>> /\ pc[q] # "idle"
                   /\ a = "stored" => pc[q] = "put_confirm"
  BY <1>3, <1>4, <1>5, <1>14
<1> QED
  BY <1>6, <1>7, <1>8, <1>9, <1>12, <1>13, <1>14 DEF Next, Step

\* What the process does that takes the step; the others stay where they are.
LEMMA OneMoves ==
  ASSUME IInv, NEW q \in Proc,
         Acts(q)
  PROVE  /\ \A p \in Proc \ {q} : /\ pc'[p] = pc[p] /\ request'[p] = request[p]
                                  /\ calls'[p] = calls[p]
         /\ \/ Call(q)
            \/ pc'[q] = "idle" /\ request'[q] = NoRequest /\ calls' = calls
            \/ request'[q] = request[q] /\ calls' = calls /\ GoTo(q, pc'[q]) /\ pc'[q] # "idle"
<1>1. /\ calls \in [Proc -> 0 .. MaxCalls] /\ pc \in [Proc -> PC]
      /\ request \in [Proc -> Request \cup {NoRequest}]
  BY DEF IInv, Control, ControlTypes
<1>2. CASE Call(q)
  BY <1>1, <1>2 DEF Call, GoTo
<1>3. ASSUME pc' = [pc EXCEPT ![q] = "idle"], calls' = calls,
             request' = [request EXCEPT ![q] = NoRequest]
      PROVE  /\ \A p \in Proc \ {q} : /\ pc'[p] = pc[p] /\ request'[p] = request[p]
                                      /\ calls'[p] = calls[p]
             /\ pc'[q] = "idle" /\ request'[q] = NoRequest
  BY <1>1, <1>3
<1>4. ASSUME NEW s \in PC \ {"idle"}, GoTo(q, s), calls' = calls, request' = request
      PROVE  /\ \A p \in Proc \ {q} : /\ pc'[p] = pc[p] /\ request'[p] = request[p]
                                      /\ calls'[p] = calls[p]
             /\ request'[q] = request[q] /\ GoTo(q, pc'[q]) /\ pc'[q] # "idle"
  BY <1>1, <1>4 DEF GoTo
<1>5. ASSUME NEW a, NEW e, Leave(q, a, e), calls' = calls
      PROVE  /\ pc' = [pc EXCEPT ![q] = "idle"]
             /\ request' = [request EXCEPT ![q] = NoRequest] /\ calls' = calls
  BY <1>5 DEF Leave, GoTo
<1>6. ASSUME \/ LoadLock(q) \/ LoadUpgrade(q) \/ VerifyLock(q) \/ QuarantineLock(q) \/ PutLock(q)
             \/ PutWrite(q) \/ PutFsync(q) \/ PutVerify(q) \/ PutReplace(q) \/ PutSync(q)
             \/ PutFails(q)
      PROVE  \E s \in PC \ {"idle"} : GoTo(q, s) /\ calls' = calls /\ request' = request
  BY <1>6
     DEF LoadLock, LoadUpgrade, VerifyLock, QuarantineLock, PutLock, PutWrite, PutFsync,
         PutVerify, PutReplace, PutSync, PutFails, Acquired, PutGoes, bounds, PC
<1>7. ASSUME \/ LoadCheck(q) \/ LoadRecheck(q) \/ VerifyCheck(q) \/ QuarantineMove(q)
             \/ MovedSync(q) \/ PutCheck(q) \/ PutConfirm(q) \/ PutUndo(q) \/ UndoSync(q)
             \/ MoveFails(q) \/ SyncFails(q) \/ Crash(q)
      PROVE  /\ calls' = calls
             /\ \/ \E s \in PC \ {"idle"} : GoTo(q, s) /\ request' = request
                \/ /\ pc' = [pc EXCEPT ![q] = "idle"]
                   /\ request' = [request EXCEPT ![q] = NoRequest]
  <2>1. MovedSync(q) => request[q].op \in {"load", "quarantine", "put"}
    BY Working DEF MovedSync, StepOf, LoadSteps, VerifySteps, QuarantineSteps
  <2> QED
    BY <1>7, <2>1
       DEF LoadCheck, LoadRecheck, VerifyCheck, QuarantineMove, MovedSync, PutCheck,
           PutCheckAnswers, PutConfirm, PutUndo, UndoSync, MoveFails, SyncFails, Crash, Raise,
           CleanUp, Finish, Leave, GoTo, bounds, PC
<1> QED
  BY <1>2, <1>3, <1>4, <1>6, <1>7 DEF Acts, Step

\* A put goes towards its rename only; a new one has a new number.
LEMMA Progress ==
  ASSUME IInv, [Next]_vars, NEW p \in Proc
  PROVE  /\ calls[p] \in Nat /\ calls'[p] \in Nat
         /\ \/ calls'[p] = calls[p] + 1
            \/ calls'[p] = calls[p] /\ (Publishing(p)' => Publishing(p))
<1>1. calls \in [Proc -> 0 .. MaxCalls] /\ pc \in [Proc -> PC] /\ calls[p] \in Nat
  BY BoundsAssumption DEF IInv, Control, ControlTypes
<1>2. CASE Call(p)
  BY <1>1, <1>2 DEF Call
<1>3. CASE pc'[p] = "idle" /\ calls'[p] = calls[p]
  BY <1>1, <1>3 DEF Publishing
<1>4. CASE pc'[p] = pc[p] /\ request'[p] = request[p] /\ calls'[p] = calls[p]
  BY <1>1, <1>4 DEF Publishing
<1>5. ASSUME Step(p) \/ PutFails(p) \/ MoveFails(p) \/ SyncFails(p) \/ Crash(p),
             request'[p] = request[p], GoTo(p, pc'[p]), pc'[p] # "idle", Publishing(p)'
      PROVE  Publishing(p)
  <2>1. pc[p] # "idle" /\ request[p].op = "put"
    BY <1>5
       DEF Publishing, Step, LoadLock, LoadCheck, LoadUpgrade, LoadRecheck, VerifyLock,
           VerifyCheck, QuarantineLock, QuarantineMove, MovedSync, PutLock, PutCheck,
           PutCheckAnswers, PutWrite, PutFsync, PutVerify, PutReplace, PutSync, PutConfirm,
           PutUndo, UndoSync, PutFails, MoveFails, SyncFails, Crash, PutGoes
  <2>2. pc[p] \in PutSteps
    BY <2>1, Working DEF StepOf
  <2>3. pc[p] \notin {"put_sync", "put_confirm", "put_undo", "undo_sync"}
    <3>1. ASSUME pc[p] \in {"put_sync", "put_confirm", "put_undo", "undo_sync"}
          PROVE  \E s \in {"put_confirm", "put_undo", "undo_sync", "idle"} : GoTo(p, s)
      BY <1>5, <3>1
         DEF Step, LoadLock, LoadCheck, LoadUpgrade, LoadRecheck, VerifyLock, VerifyCheck,
             QuarantineLock, QuarantineMove, MovedSync, PutLock, PutCheck, PutCheckAnswers,
             PutWrite, PutFsync, PutVerify, PutReplace, PutSync, PutConfirm, PutUndo, UndoSync,
             PutFails, MoveFails, SyncFails, Crash, PutGoes, Raise, CleanUp, Finish, Leave
    <3> QED
      BY <1>1, <1>5, <3>1 DEF GoTo, Publishing
  <2> QED
    BY <2>1, <2>2, <2>3 DEF Publishing, PutSteps
<1>6. CASE PowerLoss \/ UNCHANGED vars \/ \E k \in Key : Rot(k)
  BY <1>1, <1>3, <1>4, <1>6 DEF PowerLoss, Rot, vars, bounds
<1>7. CASE \E q \in Proc : Acts(q)
  <2>1. PICK q \in Proc : Acts(q)
    BY <1>7
  <2> QED
    BY <1>1, <1>2, <1>3, <1>4, <1>5, <2>1, OneMoves DEF Acts
<1> QED
  BY <1>6, <1>7 DEF Next, Acts

\* A record stays one of a put that has published it.
LEMMA DatedStays ==
  ASSUME IInv, [Next]_vars, NEW e, Dated(e)
  PROVE  DatedThen(e)
<1>1. PICK q \in Proc, n \in Nat :
        e.attempt = <<q, n>> /\ n <= calls[q] /\ (Publishing(q) => n # calls[q])
  BY DEF Dated
<1>2. n <= calls'[q]
  BY <1>1, Progress
<1>3. Publishing(q)' => n # calls'[q]
  BY <1>1, Progress
<1> QED
  BY <1>1, <1>2, <1>3 DEF DatedThen

\* What put renames into place is the record of the call that it is in.
LEMMA Published ==
  ASSUME IInv, Named, NEW p \in Proc, PutReplace(p), disk' # disk
  PROVE  /\ K(p) \in Key /\ disk' = [disk EXCEPT ![K(p)] = stage[p]]
         /\ stage[p].attempt = <<p, calls[p]>> /\ stage[p] \in Record
         /\ Publishing(p) /\ ~ Publishing(p)' /\ calls' = calls /\ undo' = undo
<1>1. /\ pc[p] = "put_replace" /\ Entry(p) = NoEntry /\ GoTo(p, "put_sync")
      /\ disk' = [disk EXCEPT ![K(p)] = stage[p]] /\ calls' = calls /\ undo' = undo
  BY DEF PutReplace, bounds
<1>2. K(p) \in Key /\ request[p] \in Request /\ StepOf(pc[p], request[p])
  BY <1>1, Working
<1>3. request[p].op = "put"
  BY <1>1, <1>2 DEF StepOf, LoadSteps, VerifySteps, QuarantineSteps
<1>4. stage[p] = request[p].record /\ request[p].record \in Record
  BY <1>1, <1>2, <1>3, RequestFields DEF IInv, Contents, Staged
<1>5. pc'[p] = "put_sync"
  BY <1>1 DEF GoTo, IInv, Control, ControlTypes
<1> QED
  BY <1>1, <1>2, <1>3, <1>4, <1>5 DEF Publishing, Named

\* Entries come from calls that were made and have published them.
LEMMA DatedEntriesNext ==
  ASSUME IInv, History, [Next]_vars
  PROVE  DatedEntries'
<1>1. /\ disk \in [Key -> Record \cup {NoEntry}] /\ undo \in [Key -> SUBSET Record]
      /\ calls \in [Proc -> Nat]
  BY BoundsAssumption DEF IInv, Control, ControlTypes, Contents, StoreTypes
<1>2. ASSUME NEW k \in Key, disk'[k] # NoEntry
      PROVE  DatedThen(disk'[k])
  <2>1. CASE disk'[k] = disk[k]
    BY <1>2, <2>1, DatedStays DEF History, DatedEntries
  <2>2. CASE disk[k] # NoEntry /\ disk'[k] = Rotten(disk[k])
    <3>1. disk'[k].attempt = disk[k].attempt
      BY <1>1, <2>2 DEF Rotten, Record
    <3>2. DatedThen(disk[k])
      BY <2>2, DatedStays DEF History, DatedEntries
    <3> QED
      BY <3>1, <3>2 DEF DatedThen
  <2>3. CASE disk'[k] \in undo[k]
    BY <2>3, DatedStays DEF History, DatedEntries
  <2>4. CASE \E p \in Proc : PutReplace(p) /\ K(p) = k /\ disk'[k] # disk[k]
    <3>1. PICK p \in Proc : PutReplace(p) /\ K(p) = k /\ disk'[k] # disk[k]
      BY <2>4
    <3>2. disk'[k] = stage[p] /\ stage[p].attempt = <<p, calls[p]>> /\ calls[p] \in Nat
          /\ calls' = calls /\ ~ Publishing(p)'
      BY <1>1, <3>1, Published DEF History
    <3>3. /\ disk'[k].attempt = <<p, calls[p]>> /\ calls[p] <= calls'[p]
          /\ Publishing(p)' => calls[p] # calls'[p]
      BY <3>2
    <3> QED
      BY <3>2, <3>3 DEF DatedThen
  <2> QED
    BY <1>2, <2>1, <2>2, <2>3, <2>4, KeySteps
<1>3. ASSUME NEW k \in Key, NEW e \in undo'[k]
      PROVE  DatedThen(e)
  <2>1. e \in undo[k] \/ (e = disk[k] /\ disk[k] # NoEntry)
    BY <1>3, KeySteps
  <2> QED
    BY <2>1, DatedStays DEF History, DatedEntries
<1> QED
  BY <1>2, <1>3 DEF DatedEntries, Dated, DatedThen

\* A put keeps its record for its call, and its directory fsync comes before
\* it confirms.
LEMMA NamedNext ==
  ASSUME IInv, History, [Next]_vars
  PROVE  Named'
<1>1. /\ pc \in [Proc -> PC] /\ undo \in [Key -> SUBSET Record]
      /\ request \in [Proc -> Request \cup {NoRequest}] /\ calls \in [Proc -> Nat]
  BY BoundsAssumption DEF IInv, Control, ControlTypes, Contents, StoreTypes
<1>2. ASSUME NEW p \in Proc, pc'[p] # "idle", request'[p].op = "put"
      PROVE  request'[p].record.attempt = <<p, calls'[p]>>
  <2>1. CASE pc'[p] = pc[p] /\ request'[p] = request[p] /\ calls'[p] = calls[p]
    BY <1>2, <2>1 DEF History, Named
  <2>2. CASE Call(p)
    BY <1>1, <1>2, <2>2 DEF Call
  <2>3. ASSUME Step(p) \/ PutFails(p) \/ MoveFails(p) \/ SyncFails(p) \/ Crash(p),
               request'[p] = request[p], calls'[p] = calls[p]
        PROVE  pc[p] # "idle"
    BY <2>3
       DEF Step, LoadLock, LoadCheck, LoadUpgrade, LoadRecheck, VerifyLock,
           VerifyCheck, QuarantineLock, QuarantineMove, MovedSync, PutLock, PutCheck,
           PutCheckAnswers, PutWrite, PutFsync, PutVerify, PutReplace, PutSync, PutConfirm,
           PutUndo, UndoSync, PutFails, MoveFails, SyncFails, Crash, PutGoes
  <2>4. CASE \E q \in Proc : Acts(q)
    <3>1. PICK q \in Proc : Acts(q)
      BY <2>4
    <3>2. CASE q # p
      BY <2>1, <3>1, <3>2, OneMoves
    <3>3. CASE q = p /\ ~ Call(p)
      <4>1. request'[p] = request[p] /\ calls'[p] = calls[p] /\ pc[p] # "idle"
        BY <1>2, <2>3, <3>1, <3>3, OneMoves DEF Acts
      <4> QED
        BY <1>2, <4>1 DEF History, Named
    <3> QED
      BY <2>2, <3>2, <3>3
  <2>5. CASE PowerLoss \/ UNCHANGED vars \/ \E k \in Key : Rot(k)
    BY <1>2, <2>1, <2>5 DEF PowerLoss, Rot, vars, bounds
  <2> QED
    BY <2>4, <2>5 DEF Next, Acts
<1>3. ASSUME NEW p \in Proc, pc'[p] = "put_confirm"
      PROVE  undo'[request'[p].key] = {}
  <2>1. CASE pc[p] = "put_confirm" /\ pc'[p] = pc[p] /\ request'[p] = request[p]
    <3>1. K(p) \in Key /\ undo[K(p)] = {} /\ request'[p].key = K(p)
      BY <2>1, Working DEF History, Named, K
    <3>2. CASE undo'[K(p)] \subseteq undo[K(p)]
      BY <3>1, <3>2
    <3>3. CASE ~ undo'[K(p)] \subseteq undo[K(p)]
      <4>1. PICK q \in Proc : pc[q] \in Writing /\ MoveAside(K(q)) /\ pc'[q] # "put_confirm"
        <5>1. ~ PowerLoss
          BY <1>3 DEF PowerLoss
        <5>2. ~ \E k \in Key : Rot(k)
          BY <3>3 DEF Rot
        <5>3. ~ \E q \in Proc : PutReplace(q)
          BY <3>3 DEF PutReplace
        <5>4. ~ \E k \in Key : undo' = [undo EXCEPT ![k] = {}]
          BY <1>1, <3>1, <3>3
        <5> QED
          BY <3>3, <5>1, <5>2, <5>3, <5>4, StoreSteps
      <4>2. q # p /\ K(q) # K(p)
        BY <1>3, <2>1, <4>1, Exclusion DEF IInv, WritersAlone, Writing
      <4> QED
        BY <1>1, <3>1, <3>3, <4>1, <4>2 DEF MoveAside
    <3> QED
      BY <3>2, <3>3
  <2>2. CASE PutSync(p)
    <3>1. K(p) \in Key
      BY <2>2, Working DEF PutSync, PutGoes
    <3> QED
      BY <1>1, <2>2, <3>1 DEF PutSync, PutGoes, K
  <2>3. CASE \E q \in Proc : Acts(q)
    <3>1. PICK q \in Proc : Acts(q)
      BY <2>3
    <3>2. CASE q # p
      BY <1>3, <2>1, <3>1, <3>2, OneMoves
    <3>3. CASE q = p
      <4>1. ASSUME ~ PutSync(p)
            PROVE  \E s \in PC \ {"put_confirm"} : GoTo(p, s)
        <5>1. MovedSync(p) => request[p].op \in {"load", "quarantine", "put"}
          BY Working DEF MovedSync, StepOf, LoadSteps, VerifySteps, QuarantineSteps
        <5>2. Call(p) => \E s \in PC \ {"put_confirm"} : GoTo(p, s)
          BY RequestFields DEF Call, FirstStep, PC
        <5> QED
          BY <3>1, <3>3, <4>1, <5>1, <5>2
             DEF Acts, Step, LoadLock, LoadCheck, LoadUpgrade, LoadRecheck, VerifyLock,
                 VerifyCheck, QuarantineLock, QuarantineMove, MovedSync, PutLock, PutCheck,
                 PutCheckAnswers, PutWrite, PutFsync, PutVerify, PutReplace, PutConfirm,
                 PutUndo, UndoSync, PutFails, MoveFails, SyncFails, Crash, PutGoes, Raise,
                 CleanUp, Finish, Leave, Acquired, PC
      <4> QED
        BY <1>1, <1>3, <2>2, <4>1 DEF GoTo
    <3> QED
      BY <3>2, <3>3
  <2>4. CASE PowerLoss \/ UNCHANGED vars \/ \E k \in Key : Rot(k)
    BY <1>3, <2>1, <2>4 DEF PowerLoss, Rot, vars
  <2> QED
    BY <2>3, <2>4 DEF Next, Acts
<1> QED
  BY <1>2, <1>3 DEF Named, K

\* An answer stays accounted for, and a new one is.
LEMMA AnsweredNext ==
  ASSUME IInv, History, [Next]_vars
  PROVE  Answered'
<1>1. ASSUME NEW p \in Proc, outcome[p] # NoOutcome, outcome'[p] = outcome[p],
             outcome[p].record # NoEntry
      PROVE  Accounted(outcome[p])'
  <2>1. outcome[p].key \in Key /\ outcome[p].record.state = "whole"
        /\ Dated(outcome[p].record)
    BY <1>1 DEF History, Answered, Accounted, IInv, Control, ControlTypes, Outcome
  <2>2. DatedThen(outcome[p].record)
    BY <2>1, DatedStays
  <2>3. \/ outcome[p].record.attempt \in gone[outcome[p].key]
        \/ /\ disk[outcome[p].key] # NoEntry
           /\ disk[outcome[p].key].attempt = outcome[p].record.attempt
    BY <1>1 DEF History, Answered, Accounted
  <2>4. \/ outcome[p].record.attempt \in gone'[outcome[p].key]
        \/ /\ disk'[outcome[p].key] # NoEntry
           /\ disk'[outcome[p].key].attempt = outcome[p].record.attempt
    BY <2>1, <2>3, KeySteps
  <2> QED
    BY <1>1, <2>1, <2>2, <2>4 DEF Accounted, Dated, DatedThen
<1>2. ASSUME NEW p \in Proc, outcome'[p] # NoOutcome, outcome'[p] # outcome[p],
             outcome'[p].record # NoEntry
      PROVE  Accounted(outcome[p])'
  <2>1. /\ UNCHANGED <<disk, undo, gone>>
        /\ K(p) \in Key /\ outcome'[p].key = K(p)
        /\ outcome'[p].record = disk[K(p)]
        /\ Verifies(disk[K(p)], Expected(request[p]))
    BY <1>2, Answering
  <2>2. DatedThen(disk[K(p)])
    BY <1>2, <2>1, DatedStays DEF History, DatedEntries
  <2> QED
    BY <1>2, <2>1, <2>2 DEF Accounted, Dated, DatedThen, Verifies
<1>3. ASSUME NEW p \in Proc, outcome'[p] # NoOutcome, outcome'[p].answer = "stored"
      PROVE  outcome'[p].record # NoEntry
  BY <1>3, Answering DEF History, Answered, Verifies
<1> QED
  BY <1>1, <1>2, <1>3 DEF Answered

\* While the record put stored is in place, no removal is left to come back.
LEMMA ReplacesNext ==
  ASSUME IInv, HInv, [Next]_vars
  PROVE  StoredReplacesForGood'
<1> SUFFICES ASSUME NEW p \in Proc, outcome'[p] # NoOutcome,
                    outcome'[p].answer = "stored",
                    disk'[outcome'[p].key] = outcome'[p].record
             PROVE  undo'[outcome'[p].key] = {}
  BY DEF StoredReplacesForGood
<1>1. /\ disk \in [Key -> Record \cup {NoEntry}] /\ undo \in [Key -> SUBSET Record]
      /\ outcome \in [Proc -> Outcome \cup {NoOutcome}]
  BY DEF IInv, Control, ControlTypes, Contents, StoreTypes
<1>2. CASE outcome'[p] # outcome[p]
  <2>1. /\ undo' = undo /\ outcome'[p].key = K(p) /\ pc[p] = "put_confirm"
    BY <1>2, Answering
  <2> QED
    BY <2>1 DEF HInv, History, Named
<1>3. CASE outcome'[p] = outcome[p]
  <2> DEFINE k == outcome[p].key
             e == outcome[p].record
  <2>1. /\ k \in Key /\ e # NoEntry /\ Accounted(outcome[p])
        /\ disk'[k] = e /\ e.state = "whole" /\ Dated(e)
    BY <1>1, <1>3 DEF HInv, History, Answered, Accounted, Outcome
  <2>2. disk'[k] = disk[k] => undo[k] = {}
    BY <1>3, <2>1 DEF HInv, StoredReplacesForGood
  <2>3. undo'[k] \subseteq undo[k]
    BY <2>1, KeySteps
  <2>4. disk[k] # NoEntry => disk'[k] # Rotten(disk[k])
    <3>1. disk[k] # NoEntry => Rotten(disk[k]).state = "rotten"
      BY <1>1, <2>1, RecordFields
    <3> QED
      BY <2>1, <3>1
  <2>5. ASSUME NEW q \in Proc, PutReplace(q), K(q) = k, disk'[k] # disk[k]
        PROVE  FALSE
    <3>1. /\ stage[q] = e /\ stage[q].attempt = <<q, calls[q]>> /\ Publishing(q)
      BY <1>1, <2>1, <2>5, Published DEF HInv, History
    <3>2. PICK r \in Proc, n \in Nat :
            e.attempt = <<r, n>> /\ n <= calls[r] /\ (Publishing(r) => n # calls[r])
      BY <2>1 DEF Dated
    <3> QED
      BY <3>1, <3>2
  <2> HIDE DEF k, e
  <2>6. undo'[k] = {}
    BY <2>1, <2>2, <2>3, <2>4, <2>5, KeySteps
  <2> QED
    BY <1>3, <2>6 DEF k
<1> QED
  BY <1>2, <1>3

\* The empty store has no history.
LEMMA HistoryStarts == Init => HInv
BY DEF Init, HInv, History, Answered, DatedEntries, Named, StoredReplacesForGood

\* The history invariant holds in every reachable state.
THEOREM HistoryInvariant == Spec => []HInv
<1>1. IInv /\ HInv /\ [Next]_vars => HInv'
  BY DatedEntriesNext, NamedNext, AnsweredNext, ReplacesNext DEF HInv, History
<1> QED
  BY <1>1, HistoryStarts, Invariant, PTL DEF Spec

(* A record that put stored is replaced for good.                          *)
THEOREM StoredIsForGood == Spec => []StoredReplacesForGood
BY HistoryInvariant, PTL DEF HInv

(* Two callers told different things: one of the records has left.         *)
THEOREM CallersAgree == Spec => []AnswersAgree
<1>1. IInv /\ HInv => AnswersAgree
  BY DEF HInv, History, Answered, Accounted, AnswersAgree
<1> QED
  BY <1>1, Invariant, HistoryInvariant, PTL
=============================================================================
