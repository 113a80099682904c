--------------------------- MODULE EvidenceStore ---------------------------
(***************************************************************************)
(* The on-disk obligation store, one step of an operation at a time.       *)
(*                                                                         *)
(* Processes share a directory tree.  Every operation holds the advisory   *)
(* lock of its key, shared for reading and exclusive for changing, and is  *)
(* cut here at each point where another process, a failing system call, a  *)
(* crash or a power loss could come in between.  Reading and verifying an  *)
(* entry under its lock is one step.                                       *)
(***************************************************************************)
EXTENDS EvidenceRecords, Naturals

CONSTANTS
  MaxCalls,   \* bound: operations each process performs
  MaxFaults   \* bound: crashes, power losses, failing calls and rot in a run

ASSUME BoundsAssumption == MaxCalls \in Nat /\ MaxFaults \in Nat

VARIABLES
  disk,       \* disk[k]: the record in k's entry directory, or NoEntry
  synced,     \* the keys whose entry's files were fsynced before the rename
  undo,       \* undo[k]: entries moved away from k by a rename not yet fsynced
  gone,       \* gone[k]: attempts that have left k (quarantine, power loss)
  shared,     \* shared[k]: the processes holding k's lock for reading
  owner,      \* owner[k]: the processes holding k's lock for writing
  pc,         \* pc[p]: the step p executes next
  stage,      \* stage[p]: the record in p's staging directory, or NoEntry
  flushed,    \* the processes whose staging files are fsynced
  request, outcome,
  calls,      \* calls[p]: operations p has begun
  faults      \* faults so far

store  == <<disk, synced, undo, gone>>
locks  == <<shared, owner>>
local  == <<stage, flushed>>
bounds == <<calls, faults>>
vars   == <<store, locks, pc, local, request, outcome, bounds>>

PC == {"idle", "load_sh", "load_check", "load_ex", "load_recheck",
       "verify_sh", "verify_check", "quarantine_ex", "quarantine_move",
       "moved_sync", "put_ex", "put_check", "put_write", "put_fsync",
       "put_verify", "put_replace", "put_sync", "put_confirm",
       "put_undo", "undo_sync"}

\* Steps taken while holding the key's lock for writing.
Writing == {"load_recheck", "quarantine_move", "moved_sync", "put_check",
            "put_write", "put_fsync", "put_verify", "put_replace", "put_sync",
            "put_confirm", "put_undo", "undo_sync"}
Reading == {"load_check", "verify_check"}

\* put's entry is in place, and put has not yet decided to answer with it.
Unconfirmed == {"put_sync", "put_confirm", "put_undo"}

TypeOK ==
  /\ disk \in [Key -> Record \cup {NoEntry}]
  /\ synced \subseteq Key
  /\ undo \in [Key -> SUBSET Record]
  /\ gone \in [Key -> SUBSET Attempt]
  /\ shared \in [Key -> SUBSET Proc]
  /\ owner \in [Key -> SUBSET Proc]
  /\ pc \in [Proc -> PC]
  /\ stage \in [Proc -> Record \cup {NoEntry}]
  /\ flushed \subseteq Proc
  /\ request \in [Proc -> Request \cup {NoRequest}]
  /\ outcome \in [Proc -> Outcome \cup {NoOutcome}]
  /\ calls \in [Proc -> 0 .. MaxCalls]
  /\ faults \in 0 .. MaxFaults

Init ==
  /\ disk = [k \in Key |-> NoEntry]
  /\ synced = {}
  /\ undo = [k \in Key |-> {}]
  /\ gone = [k \in Key |-> {}]
  /\ shared = [k \in Key |-> {}]
  /\ owner = [k \in Key |-> {}]
  /\ pc = [p \in Proc |-> "idle"]
  /\ stage = [p \in Proc |-> NoEntry]
  /\ flushed = {}
  /\ request = [p \in Proc |-> NoRequest]
  /\ outcome = [p \in Proc |-> NoOutcome]
  /\ calls = [p \in Proc |-> 0]
  /\ faults = 0
-----------------------------------------------------------------------------
K(p) == request[p].key
Entry(p) == disk[K(p)]
GoTo(p, step) == pc' = [pc EXCEPT ![p] = step]

\* flock(LOCK_SH) and flock(LOCK_EX) block until they can be granted.
LockShared(k, p) ==
  /\ owner[k] = {}
  /\ shared' = [shared EXCEPT ![k] = @ \cup {p}]
  /\ UNCHANGED owner
LockExclusive(k, p) ==
  /\ owner[k] = {} /\ shared[k] = {}
  /\ owner' = [owner EXCEPT ![k] = {p}]
  /\ UNCHANGED shared
Unlock(k, p) ==
  /\ shared' = [shared EXCEPT ![k] = @ \ {p}]
  /\ owner' = [owner EXCEPT ![k] = @ \ {p}]

\* The operation leaves its lock and answers a about record e.
Leave(p, a, e) ==
  /\ Unlock(K(p), p)
  /\ outcome' = [outcome EXCEPT ![p] =
                   [answer |-> a, key |-> K(p), record |-> e]]
  /\ request' = [request EXCEPT ![p] = NoRequest]
  /\ GoTo(p, "idle")
Finish(p, a, e) == Leave(p, a, e) /\ UNCHANGED bounds

\* A plausible mistake: _quarantine_locked without its early return.
MoveAsideUnchecked(k) ==
  /\ disk' = [disk EXCEPT ![k] = NoEntry]
  /\ undo' = [undo EXCEPT ![k] = @ \cup {disk[k]}]
  /\ gone' = [gone EXCEPT ![k] = @ \cup
                IF disk[k] = NoEntry THEN {} ELSE {disk[k].attempt}]
  /\ synced' = synced \ {k}

\* _quarantine_locked up to its os.replace; it does nothing for an absent
\* entry.  The fsyncs of the two directories are a step of their own.
MoveAside(k) ==
  /\ disk' = [disk EXCEPT ![k] = NoEntry]
  /\ undo' = [undo EXCEPT ![k] = IF disk[k] = NoEntry THEN @ ELSE @ \cup {disk[k]}]
  /\ gone' = [gone EXCEPT ![k] = IF disk[k] = NoEntry THEN @ ELSE @ \cup {disk[k].attempt}]
  /\ synced' = synced \ {k}

FirstStep ==
  [load |-> "load_sh", verify |-> "verify_sh",
   quarantine |-> "quarantine_ex", put |-> "put_ex"]

\* A caller enters one of the four operations.  The record given to put is
\* new; it may be one that its content checks refuse.
Call(p) ==
  /\ pc[p] = "idle" /\ calls[p] < MaxCalls
  /\ \E r \in Request :
       /\ r.op = "put" => /\ r.record.attempt = <<p, calls[p] + 1>>
                          /\ r.record.state \in {"whole", "invalid"}
       /\ request' = [request EXCEPT ![p] = r]
       /\ GoTo(p, FirstStep[r.op])
  /\ calls' = [calls EXCEPT ![p] = @ + 1]
  /\ outcome' = [outcome EXCEPT ![p] = NoOutcome]
  /\ UNCHANGED <<store, locks, local, faults>>

\* A step that only takes the key's lock.
Acquired(p, step) ==
  /\ GoTo(p, step)
  /\ UNCHANGED <<store, local, request, outcome, bounds>>
-----------------------------------------------------------------------------
LoadLock(p) ==
  /\ pc[p] = "load_sh"
  /\ LockShared(K(p), p) /\ Acquired(p, "load_check")

\* A plausible mistake: wait for the exclusive lock with the shared one held.
LoadCheckKeepsLock(p) ==
  /\ pc[p] = "load_check"
  /\ UNCHANGED <<store, local>>
  /\ \/ Entry(p) = NoEntry /\ Finish(p, "miss", NoEntry)
     \/ Verifies(Entry(p), Expected(request[p])) /\ Finish(p, "hit", Entry(p))
     \/ /\ Entry(p) # NoEntry /\ ~ Verifies(Entry(p), Expected(request[p]))
        /\ GoTo(p, "load_ex")
        /\ UNCHANGED <<locks, request, outcome, bounds>>

\* Under the shared lock load answers, or gives the lock up to come back for
\* the exclusive one.
LoadCheck(p) ==
  /\ pc[p] = "load_check"
  /\ UNCHANGED <<store, local>>
  /\ \/ Entry(p) = NoEntry /\ Finish(p, "miss", NoEntry)
     \/ Verifies(Entry(p), Expected(request[p])) /\ Finish(p, "hit", Entry(p))
     \/ /\ Entry(p) # NoEntry /\ ~ Verifies(Entry(p), Expected(request[p]))
        /\ Unlock(K(p), p) /\ GoTo(p, "load_ex")
        /\ UNCHANGED <<request, outcome, bounds>>

LoadUpgrade(p) ==
  /\ pc[p] = "load_ex"
  /\ LockExclusive(K(p), p) /\ Acquired(p, "load_recheck")

\* A plausible mistake: act on the check made under the shared lock.
LoadRecheckStale(p) ==
  /\ pc[p] = "load_recheck"
  /\ MoveAside(K(p)) /\ GoTo(p, "moved_sync")
  /\ UNCHANGED <<locks, local, request, outcome, bounds>>

\* Under the exclusive lock load looks again before it moves anything.
LoadRecheck(p) ==
  /\ pc[p] = "load_recheck"
  /\ UNCHANGED local
  /\ \/ Entry(p) = NoEntry /\ Finish(p, "miss", NoEntry) /\ UNCHANGED store
     \/ /\ Verifies(Entry(p), Expected(request[p]))
        /\ Finish(p, "hit", Entry(p)) /\ UNCHANGED store
     \/ /\ Entry(p) # NoEntry /\ ~ Verifies(Entry(p), Expected(request[p]))
        /\ MoveAside(K(p)) /\ GoTo(p, "moved_sync")
        /\ UNCHANGED <<locks, request, outcome, bounds>>

VerifyLock(p) ==
  /\ pc[p] = "verify_sh"
  /\ LockShared(K(p), p) /\ Acquired(p, "verify_check")

VerifyCheck(p) ==
  /\ pc[p] = "verify_check"
  /\ UNCHANGED <<store, local>>
  /\ IF Verifies(Entry(p), Expected(request[p]))
     THEN Finish(p, "hit", Entry(p))
     ELSE Finish(p, "raised", NoEntry)

QuarantineLock(p) ==
  /\ pc[p] = "quarantine_ex"
  /\ LockExclusive(K(p), p) /\ Acquired(p, "quarantine_move")

QuarantineMove(p) ==
  /\ pc[p] = "quarantine_move"
  /\ MoveAside(K(p))
  /\ UNCHANGED local
  /\ IF Entry(p) = NoEntry
     THEN Finish(p, "moved", NoEntry)
     ELSE GoTo(p, "moved_sync") /\ UNCHANGED <<locks, request, outcome, bounds>>

\* The fsyncs that end _quarantine_locked; then each caller goes on.
MovedSync(p) ==
  /\ pc[p] = "moved_sync"
  /\ undo' = [undo EXCEPT ![K(p)] = {}]
  /\ UNCHANGED <<disk, synced, gone, local>>
  /\ CASE request[p].op = "load" -> Finish(p, "miss", NoEntry)
       [] request[p].op = "quarantine" -> Finish(p, "moved", NoEntry)
       [] request[p].op = "put" -> /\ GoTo(p, "put_write")
                                   /\ UNCHANGED <<locks, request, outcome, bounds>>
-----------------------------------------------------------------------------
\* A plausible mistake: put under the reader's lock.
PutLockShared(p) ==
  /\ pc[p] = "put_ex"
  /\ LockShared(K(p), p) /\ Acquired(p, "put_check")

PutLock(p) ==
  /\ pc[p] = "put_ex"
  /\ LockExclusive(K(p), p) /\ Acquired(p, "put_check")

\* An entry that verifies is answered as it is (e is what put answers); one
\* that does not is moved.
PutCheckAnswers(p, e) ==
  /\ pc[p] = "put_check"
  /\ UNCHANGED local
  /\ \/ /\ Verifies(Entry(p), Expected(request[p]))
        /\ Finish(p, "reused", e) /\ UNCHANGED store
     \/ /\ Entry(p) # NoEntry /\ ~ Verifies(Entry(p), Expected(request[p]))
        /\ MoveAside(K(p)) /\ GoTo(p, "moved_sync")
        /\ UNCHANGED <<locks, request, outcome, bounds>>
     \/ /\ Entry(p) = NoEntry /\ GoTo(p, "put_write")
        /\ UNCHANGED <<store, locks, request, outcome, bounds>>

\* A plausible mistake: answer with the new record, not the one in place.
PutCheckOwnRecord(p) == PutCheckAnswers(p, request[p].record)

PutCheck(p) == PutCheckAnswers(p, Entry(p))

\* A step of put between two points of failure.
PutGoes(p, from, to) ==
  /\ pc[p] = from /\ GoTo(p, to)
  /\ UNCHANGED <<locks, request, outcome, bounds>>

PutWrite(p) ==
  /\ PutGoes(p, "put_write", "put_fsync")
  /\ stage' = [stage EXCEPT ![p] = request[p].record]
  /\ UNCHANGED <<store, flushed>>

\* A plausible mistake: no fsync of the staged files.
PutFsyncSkipped(p) ==
  /\ PutGoes(p, "put_fsync", "put_verify")
  /\ UNCHANGED <<store, local>>

PutFsync(p) ==
  /\ PutGoes(p, "put_fsync", "put_verify")
  /\ flushed' = flushed \cup {p}
  /\ UNCHANGED <<store, stage>>

PutVerify(p) ==
  /\ pc[p] = "put_verify"
  /\ GoTo(p, IF Verifies(stage[p], Expected(request[p])) THEN "put_replace"
                                                         ELSE "put_undo")
  /\ UNCHANGED <<store, locks, local, request, outcome, bounds>>

\* os.replace publishes the staging directory as the entry; over an existing
\* one it would raise.
PutReplace(p) ==
  /\ pc[p] = "put_replace"
  /\ UNCHANGED <<undo, gone, locks, request, outcome, bounds>>
  /\ IF Entry(p) # NoEntry
     THEN GoTo(p, "put_undo") /\ UNCHANGED <<disk, synced, local>>
     ELSE /\ GoTo(p, "put_sync")
          /\ disk' = [disk EXCEPT ![K(p)] = stage[p]]
          /\ synced' = IF p \in flushed THEN synced \cup {K(p)} ELSE synced
          /\ stage' = [stage EXCEPT ![p] = NoEntry]
          /\ flushed' = flushed \ {p}

\* A plausible mistake: no fsync of the directory after the rename.
PutSyncSkipped(p) ==
  /\ PutGoes(p, "put_sync", "put_confirm")
  /\ UNCHANGED <<store, local>>

PutSync(p) ==
  /\ PutGoes(p, "put_sync", "put_confirm")
  /\ undo' = [undo EXCEPT ![K(p)] = {}]
  /\ UNCHANGED <<disk, synced, gone, local>>

\* A plausible mistake: answer without reading the entry back.
PutConfirmBlindly(p) ==
  /\ pc[p] = "put_confirm"
  /\ UNCHANGED <<store, local>>
  /\ Finish(p, "stored", request[p].record)

\* put answers with what it reads back.
PutConfirm(p) ==
  /\ pc[p] = "put_confirm"
  /\ UNCHANGED <<store, local>>
  /\ IF Verifies(Entry(p), Expected(request[p]))
     THEN Finish(p, "stored", Entry(p))
     ELSE /\ GoTo(p, "put_undo")
          /\ UNCHANGED <<locks, request, outcome, bounds>>

\* An exception ends the operation; no staging directory is read again.
Raise(p) ==
  /\ stage' = [stage EXCEPT ![p] = NoEntry]
  /\ flushed' = flushed \ {p}
  /\ Leave(p, "raised", NoEntry)

\* rmtree of the staging directory, and the exception goes on.
CleanUp(p) == Raise(p) /\ UNCHANGED bounds

\* The exception handler: withdraw the entry, if it got that far, remove the
\* staging directory, raise.
PutUndo(p) ==
  /\ pc[p] = "put_undo"
  /\ IF Entry(p) = NoEntry
     THEN CleanUp(p) /\ UNCHANGED store
     ELSE /\ MoveAside(K(p)) /\ GoTo(p, "undo_sync")
          /\ UNCHANGED <<locks, local, request, outcome, bounds>>

UndoSync(p) ==
  /\ pc[p] = "undo_sync"
  /\ undo' = [undo EXCEPT ![K(p)] = {}]
  /\ CleanUp(p)
  /\ UNCHANGED <<disk, synced, gone>>

\* A system call of put's try block fails.
PutFails(p) ==
  /\ pc[p] \in {"put_write", "put_fsync", "put_verify", "put_replace",
                "put_sync", "put_confirm"}
  /\ faults < MaxFaults /\ faults' = faults + 1
  /\ GoTo(p, "put_undo")
  /\ UNCHANGED <<store, locks, local, request, outcome, calls>>
-----------------------------------------------------------------------------
Fault == faults < MaxFaults /\ faults' = faults + 1

\* The rename of _quarantine_locked fails, in put's handler too: the entry
\* stays where it is.
MoveFails(p) ==
  /\ \/ pc[p] \in {"quarantine_move", "put_undo"}
     \/ /\ pc[p] \in {"load_recheck", "put_check"}
        /\ ~ Verifies(Entry(p), Expected(request[p]))
  /\ Entry(p) # NoEntry
  /\ Fault /\ Raise(p)
  /\ UNCHANGED <<store, calls>>

\* One of its two fsyncs fails: the entry is gone, for now or for good.
SyncFails(p) ==
  /\ pc[p] \in {"moved_sync", "undo_sync"}
  /\ undo' \in {undo, [undo EXCEPT ![K(p)] = {}]}
  /\ Fault /\ Raise(p)
  /\ UNCHANGED <<disk, synced, gone, calls>>

\* The process is killed: the kernel drops its locks, a staging directory
\* stays behind under a name nothing reads.
Crash(p) ==
  /\ pc[p] # "idle" /\ Fault
  /\ Unlock(K(p), p)
  /\ GoTo(p, "idle")
  /\ request' = [request EXCEPT ![p] = NoRequest]
  /\ stage' = [stage EXCEPT ![p] = NoEntry]
  /\ flushed' = flushed \ {p}
  /\ UNCHANGED <<store, outcome, calls>>

\* An entry changes on disk without the store's doing.
Rot(k) ==
  /\ disk[k] # NoEntry /\ disk[k].state # "rotten" /\ Fault
  /\ disk' = [disk EXCEPT ![k] = Rotten(@)]
  /\ UNCHANGED <<synced, undo, gone, locks, pc, local, request, outcome, calls>>

\* What may be found at k after a power loss: the entry, torn if its files
\* were not on stable storage; an entry whose removal was not; or nothing,
\* for the directories above an entry are created without an fsync.
Survivors(k) ==
  {NoEntry} \cup undo[k] \cup
    IF disk[k] = NoEntry THEN {}
    ELSE IF k \in synced THEN {disk[k]}
    ELSE {disk[k], [disk[k] EXCEPT !.state = "torn"]}

PowerLoss ==
  /\ Fault
  /\ disk' \in [Key -> UNION {Survivors(k) : k \in Key}]
  /\ \A k \in Key : disk'[k] \in Survivors(k)
  /\ gone' = [k \in Key |-> IF disk[k] = NoEntry \/ disk'[k] = disk[k]
                            THEN gone[k] ELSE gone[k] \cup {disk[k].attempt}]
  /\ synced' = {k \in Key : disk'[k] # NoEntry}
  /\ undo' = [k \in Key |-> {}]
  /\ shared' = [k \in Key |-> {}]
  /\ owner' = [k \in Key |-> {}]
  /\ pc' = [p \in Proc |-> "idle"]
  /\ stage' = [p \in Proc |-> NoEntry]
  /\ flushed' = {}
  /\ request' = [p \in Proc |-> NoRequest]
  /\ UNCHANGED <<outcome, calls>>

\* The steps of the operation p is in.
Step(p) ==
  \/ LoadLock(p) \/ LoadCheck(p) \/ LoadUpgrade(p) \/ LoadRecheck(p)
  \/ VerifyLock(p) \/ VerifyCheck(p)
  \/ QuarantineLock(p) \/ QuarantineMove(p) \/ MovedSync(p)
  \/ PutLock(p) \/ PutCheck(p) \/ PutWrite(p) \/ PutFsync(p) \/ PutVerify(p)
  \/ PutReplace(p) \/ PutSync(p) \/ PutConfirm(p) \/ PutUndo(p) \/ UndoSync(p)

Next ==
  \/ \E p \in Proc : Call(p) \/ Step(p) \/ PutFails(p) \/ MoveFails(p) \/ SyncFails(p)
                     \/ Crash(p)
  \/ \E k \in Key : Rot(k)
  \/ PowerLoss

Spec == Init /\ [][Next]_vars
FairSpec == Spec /\ \A p \in Proc : WF_vars(Step(p))
-----------------------------------------------------------------------------
(* Nobody reads or changes a key's entry while another process changes it. *)
(* The lock file is per key and every _quarantine_locked, os.replace and   *)
(* _verify_entry runs inside one _lock block.                              *)
WritersAlone ==
  \A p, q \in Proc :
    /\ p # q /\ pc[p] \in Writing /\ pc[q] \in Writing \cup Reading
    => K(p) # K(q)

(* Whatever is cut short (a put between any two of its steps, by a failing *)
(* call, a crash or a power loss), a visible entry is one its content      *)
(* checks accept, unless it has rotted since: no torn or refused payload.  *)
NoHalfPublishedEntry ==
  \A k \in Key : disk[k] # NoEntry => disk[k].state \in {"whole", "rotten"}

(* Two callers told different things about one key were told so because    *)
(* one of the two records has left the store in between; the store never   *)
(* holds two answers, and put never replaces one under a reader.           *)
AnswersAgree ==
  \A p, q \in Proc :
    LET a == outcome[p]
        b == outcome[q] IN
    /\ a # NoOutcome /\ b # NoOutcome
    /\ a.key = b.key /\ a.record # NoEntry /\ b.record # NoEntry
    /\ a.record.attempt # b.record.attempt
    => gone[a.key] \cap {a.record.attempt, b.record.attempt} # {}

(* While the record a put stored is the entry, no older entry can come     *)
(* back: its removal is on stable storage before put answers.              *)
StoredReplacesForGood ==
  \A p \in Proc :
    /\ outcome[p] # NoOutcome /\ outcome[p].answer = "stored"
    /\ disk[outcome[p].key] = outcome[p].record
    => undo[outcome[p].key] = {}

(* An entry that verifies for the process at work is not taken away by a   *)
(* load, whatever other processes did between its shared and its exclusive *)
(* lock, nor by a put, save the put that withdraws its own record.         *)
GoodEntriesStay ==
  [][\A k \in Key :
       /\ disk[k] # NoEntry /\ disk'[k] = NoEntry /\ faults' = faults
       => \E p \in owner[k] :
            \/ request[p].op = "quarantine"
            \/ ~ Verifies(disk[k], Expected(request[p]))
            \/ request[p].op = "put" /\ disk[k] = request[p].record]_vars

(* Every operation ends: load gives its shared lock up before it waits for *)
(* the exclusive one, and no step waits for anything else.                 *)
OperationsEnd == \A p \in Proc : pc[p] # "idle" ~> pc[p] = "idle"

(* The store implements EvidenceCache: an entry counts as cached once the  *)
(* put that published it has confirmed it, or died.                        *)
Cached(k) ==
  IF \E p \in owner[k] : pc[p] \in Unconfirmed THEN NoEntry ELSE disk[k]

Abstract == INSTANCE EvidenceCache WITH cache <- [k \in Key |-> Cached(k)]

Implements == Abstract!CacheSpec
=============================================================================
