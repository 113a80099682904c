--------------------------- MODULE CandidateGate ---------------------------
(***************************************************************************)
(* The semantic loop of run_candidate_gate: concurrent gate processes that *)
(* obtain the results of their obligations from the shared evidence store, *)
(* or execute the solver and put what it found there.                      *)
(*                                                                         *)
(* A batch is one (program pair, semantic model) group of obligations,     *)
(* which one solver execution answers together.  The store's operations    *)
(* are single steps here, as EvidenceCache promises they appear.           *)
(***************************************************************************)
EXTENDS Naturals, Sequences, FiniteSets

CONSTANTS
  Gate,         \* gate processes that share an evidence store
  Batch,
  NumKinds,     \* obligations per batch
  Schedule,     \* Schedule[g]: the batches gate g needs, in priority order
  NoEntry, NoGate,
  MaxFaults     \* bound: processes killed and entries rotten in a run

ASSUME KindsAssumption == NumKinds \in Nat \ {0}
ASSUME ScheduleAssumption ==
  /\ Schedule \in [Gate -> Seq(Batch)]
  /\ \A g \in Gate : \A i, j \in DOMAIN Schedule[g] :
       Schedule[g][i] = Schedule[g][j] => i = j
ASSUME BoundsAssumption == MaxFaults \in Nat
ASSUME NoneAssumption == NoGate \notin Gate /\ NoEntry \notin Nat

Kind    == 1 .. NumKinds
Attempt == Nat \ {0}
Result  == [attempt : Attempt, reused : BOOLEAN]

VARIABLES
  entry,     \* entry[b][k]: the execution attempt stored for an obligation
  rotten,    \* the <<b, k>> whose entry no longer verifies
  attempts,  \* solver executions so far; the latest one's attempt
  claim,     \* claim[b]: the gate holding b's execution claim, or NoGate
  pc,
  at,        \* at[g]: position in Schedule[g]
  next,      \* next[g]: the kind the current pass over the batch comes to
  cached,    \* cached[g][k]: what load returned, the dict `cached`
  fresh,     \* fresh[g]: the attempt of g's latest solver execution
  results,   \* results[g][b][k]: the obligation result g goes on with
  reuseCount, executedCount, executedBatches,
  runs,      \* runs[b]: solver executions of batch b by all gates
  faults

gateVars == <<pc, at, next, cached, fresh, results,
              reuseCount, executedCount, executedBatches>>
vars == <<entry, rotten, attempts, claim, gateVars, runs, faults>>

\* Steps taken inside `with store.execution_claim(...)`.
Claimed == {"load", "discard", "execute", "put"}

TypeOK ==
  /\ entry \in [Batch -> [Kind -> Attempt \cup {NoEntry}]]
  /\ rotten \subseteq Batch \X Kind
  /\ attempts \in Nat
  /\ claim \in [Batch -> Gate \cup {NoGate}]
  /\ pc \in [Gate -> Claimed \cup {"claim", "done", "dead"}]
  /\ at \in [Gate -> Nat \ {0}]
  /\ next \in [Gate -> 1 .. NumKinds + 1]
  /\ cached \in [Gate -> [Kind -> Attempt \cup {NoEntry}]]
  /\ fresh \in [Gate -> Nat]
  /\ results \in [Gate -> [Batch -> [Kind -> Result \cup {NoEntry}]]]
  /\ reuseCount \in [Gate -> Nat]
  /\ executedCount \in [Gate -> Nat]
  /\ executedBatches \in [Gate -> Nat]
  /\ runs \in [Batch -> Nat]
  /\ faults \in 0 .. MaxFaults

NoneCached == [k \in Kind |-> NoEntry]
NoResults  == [b \in Batch |-> NoneCached]

Init ==
  /\ entry = [b \in Batch |-> NoneCached]
  /\ rotten = {}
  /\ attempts = 0
  /\ claim = [b \in Batch |-> NoGate]
  /\ pc = [g \in Gate |-> "claim"]
  /\ at = [g \in Gate |-> 1]
  /\ next = [g \in Gate |-> 1]
  /\ cached = [g \in Gate |-> NoneCached]
  /\ fresh = [g \in Gate |-> 0]
  /\ results = [g \in Gate |-> NoResults]
  /\ reuseCount = [g \in Gate |-> 0]
  /\ executedCount = [g \in Gate |-> 0]
  /\ executedBatches = [g \in Gate |-> 0]
  /\ runs = [b \in Batch |-> 0]
  /\ faults = 0
-----------------------------------------------------------------------------
Cur(g) == Schedule[g][at[g]]
GoTo(g, step) == pc' = [pc EXCEPT ![g] = step]
Present(g) == {k \in Kind : cached[g][k] # NoEntry}

\* The obligation's entry is moved to the quarantine directory.
MoveAside(b, k) ==
  /\ entry' = [entry EXCEPT ![b][k] = NoEntry]
  /\ rotten' = rotten \ {<<b, k>>}

\* A plausible mistake: the claim is not given up before the next batch.
NextBatchKeepsClaim(g) ==
  /\ UNCHANGED claim
  /\ at' = [at EXCEPT ![g] = @ + 1]
  /\ GoTo(g, "claim")

\* The claim of the batch is given up and the loop goes on.
NextBatch(g) ==
  /\ claim' = [claim EXCEPT ![Cur(g)] = NoGate]
  /\ at' = [at EXCEPT ![g] = @ + 1]
  /\ GoTo(g, "claim")

\* The gate holds the batch's claim and starts on its obligations.
Enter(g) ==
  /\ claim' = [claim EXCEPT ![Cur(g)] = g]
  /\ next' = [next EXCEPT ![g] = 1]
  /\ cached' = [cached EXCEPT ![g] = NoneCached]
  /\ GoTo(g, "load")
  /\ UNCHANGED <<entry, rotten, attempts, at, fresh, results, reuseCount,
                 executedCount, executedBatches, runs, faults>>

\* A plausible mistake: the loop without the execution claim.
ClaimIgnored(g) == pc[g] = "claim" /\ at[g] <= Len(Schedule[g]) /\ Enter(g)

\* execution_claim blocks on the exclusive lock of the obligation set.
Claim(g) ==
  /\ pc[g] = "claim" /\ at[g] <= Len(Schedule[g])
  /\ claim[Cur(g)] = NoGate
  /\ Enter(g)

\* One store.load: a verified entry, or None with what failed moved aside.
Load(g) ==
  LET b == Cur(g)
      k == next[g] IN
  /\ pc[g] = "load" /\ k <= NumKinds
  /\ IF <<b, k>> \in rotten
     THEN MoveAside(b, k) /\ UNCHANGED cached
     ELSE /\ cached' = [cached EXCEPT ![g][k] = entry[b][k]]
          /\ UNCHANGED <<entry, rotten>>
  /\ next' = [next EXCEPT ![g] = k + 1]
  /\ UNCHANGED <<attempts, claim, pc, at, fresh, results, reuseCount,
                 executedCount, executedBatches, runs, faults>>

\* Every obligation of the batch is cached: the loop takes them all.
Reuse(g) ==
  /\ pc[g] = "load" /\ next[g] > NumKinds
  /\ Present(g) = Kind
  /\ results' = [results EXCEPT ![g][Cur(g)] =
                   [k \in Kind |-> [attempt |-> cached[g][k], reused |-> TRUE]]]
  /\ reuseCount' = [reuseCount EXCEPT ![g] = @ + NumKinds]
  /\ NextBatch(g)
  /\ UNCHANGED <<entry, rotten, attempts, next, cached, fresh,
                 executedCount, executedBatches, runs, faults>>

\* The next pass over the batch begins, at step pass.
Begin(g, pass) ==
  /\ GoTo(g, pass)
  /\ next' = [next EXCEPT ![g] = 1]
  /\ UNCHANGED <<attempts, claim, at, cached, fresh, results, reuseCount,
                 executedCount, executedBatches, runs, faults>>

\* Plausible mistakes: execute over a partial batch and keep what is there;
\* quarantine what is present without asking whether any is missing.
DecideKeepsPartial(g) ==
  /\ pc[g] = "load" /\ next[g] > NumKinds
  /\ Present(g) # Kind
  /\ Begin(g, "execute") /\ UNCHANGED <<entry, rotten>>
DecideUnguarded(g) ==
  /\ pc[g] = "load" /\ next[g] > NumKinds
  /\ Begin(g, IF Present(g) = {} THEN "execute" ELSE "discard")
  /\ UNCHANGED <<entry, rotten>>

\* Some obligation is missing: the ones that were there are quarantined.
Decide(g) ==
  /\ pc[g] = "load" /\ next[g] > NumKinds
  /\ Present(g) # Kind
  /\ Begin(g, IF Present(g) = {} THEN "execute" ELSE "discard")
  /\ UNCHANGED <<entry, rotten>>

\* A plausible mistake: the first present obligation is left where it is.
DiscardSkipsFirst(g) ==
  LET k == next[g] IN
  /\ pc[g] = "discard" /\ k <= NumKinds
  /\ IF k \in Present(g) /\ k # 1 THEN MoveAside(Cur(g), k)
                                  ELSE UNCHANGED <<entry, rotten>>
  /\ next' = [next EXCEPT ![g] = k + 1]
  /\ UNCHANGED <<attempts, claim, pc, at, cached, fresh, results, reuseCount,
                 executedCount, executedBatches, runs, faults>>

\* One turn of the quarantine loop, which visits the present obligations.
Discard(g) ==
  LET k == next[g] IN
  /\ pc[g] = "discard" /\ k <= NumKinds
  /\ IF k \in Present(g) THEN MoveAside(Cur(g), k)
                         ELSE UNCHANGED <<entry, rotten>>
  /\ next' = [next EXCEPT ![g] = k + 1]
  /\ UNCHANGED <<attempts, claim, pc, at, cached, fresh, results, reuseCount,
                 executedCount, executedBatches, runs, faults>>

Discarded(g) ==
  /\ pc[g] = "discard" /\ next[g] > NumKinds
  /\ Begin(g, "execute") /\ UNCHANGED <<entry, rotten>>

\* A plausible mistake: the results keep the previous attempt's identity.
ExecuteUnidentified(g) ==
  /\ pc[g] = "execute"
  /\ attempts' = attempts + 1
  /\ runs' = [runs EXCEPT ![Cur(g)] = @ + 1]
  /\ executedBatches' = [executedBatches EXCEPT ![g] = @ + 1]
  /\ executedCount' = [executedCount EXCEPT ![g] = @ + NumKinds]
  /\ GoTo(g, "put")
  /\ UNCHANGED <<entry, rotten, claim, at, next, cached, fresh, results,
                 reuseCount, faults>>

\* execute_model answers every obligation of the batch.
Execute(g) ==
  /\ pc[g] = "execute"
  /\ attempts' = attempts + 1
  /\ fresh' = [fresh EXCEPT ![g] = attempts + 1]
  /\ runs' = [runs EXCEPT ![Cur(g)] = @ + 1]
  /\ executedBatches' = [executedBatches EXCEPT ![g] = @ + 1]
  /\ executedCount' = [executedCount EXCEPT ![g] = @ + NumKinds]
  /\ GoTo(g, "put")
  /\ UNCHANGED <<entry, rotten, claim, at, next, cached, results, reuseCount,
                 faults>>

\* One store.put: what it returns, not what was executed, becomes the result.
Put(g) ==
  LET b == Cur(g)
      k == next[g]
      found == entry[b][k] # NoEntry /\ <<b, k>> \notin rotten
      stored == IF found THEN entry[b][k] ELSE fresh[g] IN
  /\ pc[g] = "put" /\ k <= NumKinds
  /\ entry' = [entry EXCEPT ![b][k] = stored]
  /\ rotten' = rotten \ {<<b, k>>}
  /\ results' = [results EXCEPT ![g][b][k] = [attempt |-> stored, reused |-> found]]
  /\ next' = [next EXCEPT ![g] = k + 1]
  /\ UNCHANGED <<attempts, claim, pc, at, cached, fresh, reuseCount,
                 executedCount, executedBatches, runs, faults>>

Release(g) ==
  /\ pc[g] = "put" /\ next[g] > NumKinds
  /\ NextBatch(g)
  /\ UNCHANGED <<entry, rotten, attempts, next, cached, fresh, results,
                 reuseCount, executedCount, executedBatches, runs, faults>>

\* The loop is over; the counts go into the manifest.
Finish(g) ==
  /\ pc[g] = "claim" /\ at[g] > Len(Schedule[g])
  /\ GoTo(g, "done")
  /\ UNCHANGED <<entry, rotten, attempts, claim, at, next, cached, fresh,
                 results, reuseCount, executedCount, executedBatches, runs,
                 faults>>
-----------------------------------------------------------------------------
Fault == faults < MaxFaults /\ faults' = faults + 1

\* The process is killed, or an exception (a put that raises, a solver that
\* cannot be started) ends it; the kernel drops its claim.
Die(g) ==
  /\ pc[g] \in Claimed \cup {"claim"} /\ Fault
  /\ GoTo(g, "dead")
  /\ claim' = [b \in Batch |-> IF claim[b] = g THEN NoGate ELSE claim[b]]
  /\ UNCHANGED <<entry, rotten, attempts, at, next, cached, fresh, results,
                 reuseCount, executedCount, executedBatches, runs>>

\* The gate is run again with --resume: nothing but the store is kept.
Restart(g) ==
  /\ pc[g] = "dead"
  /\ GoTo(g, "claim")
  /\ at' = [at EXCEPT ![g] = 1]
  /\ results' = [results EXCEPT ![g] = NoResults]
  /\ reuseCount' = [reuseCount EXCEPT ![g] = 0]
  /\ executedCount' = [executedCount EXCEPT ![g] = 0]
  /\ executedBatches' = [executedBatches EXCEPT ![g] = 0]
  /\ UNCHANGED <<entry, rotten, attempts, claim, next, cached, fresh, runs,
                 faults>>

\* An entry changes on disk without the store's doing.
Rot(b, k) ==
  /\ entry[b][k] # NoEntry /\ <<b, k>> \notin rotten /\ Fault
  /\ rotten' = rotten \cup {<<b, k>>}
  /\ UNCHANGED <<entry, attempts, claim, gateVars, runs>>

Step(g) ==
  \/ Claim(g) \/ Load(g) \/ Reuse(g) \/ Decide(g) \/ Discard(g) \/ Discarded(g)
  \/ Execute(g) \/ Put(g) \/ Release(g) \/ Finish(g)

Next ==
  \/ \E g \in Gate : Step(g) \/ Die(g) \/ Restart(g)
  \/ \E b \in Batch, k \in Kind : Rot(b, k)

Spec == Init /\ [][Next]_vars
FairSpec == Spec /\ \A g \in Gate : WF_vars(Step(g))
-----------------------------------------------------------------------------
(* Whatever the interleaving and wherever a process died, the entries of a *)
(* batch all come from one solver execution: no gate can later assemble a  *)
(* batch from two runs that may have disagreed.                            *)
StoreCoherent ==
  \A b \in Batch : \A i, j \in Kind :
    entry[b][i] # NoEntry /\ entry[b][j] # NoEntry => entry[b][i] = entry[b][j]

(* The results a gate classifies for a batch come from one execution.      *)
BatchFromOneExecution ==
  \A g \in Gate, b \in Batch : \A i, j \in Kind :
    results[g][b][i] # NoEntry /\ results[g][b][j] # NoEntry
      => results[g][b][i] = results[g][b][j]

(* No batch is executed again but for a fault: gates that need the same    *)
(* batch at the same time share one execution.                             *)
NoDuplicateExecution == \A b \in Batch : runs[b] <= 1 + faults

(* Two gates that both have results for a batch have the same ones, unless *)
(* a fault forced a second execution in between.                           *)
GatesAgree ==
  faults = 0 =>
    \A g, h \in Gate, b \in Batch, k \in Kind :
      results[g][b][k] # NoEntry /\ results[h][b][k] # NoEntry
        => results[g][b][k].attempt = results[h][b][k].attempt

(* A gate that is not killed comes to the end of its schedule, also after  *)
(* a restart: it never waits for a claim that nobody will give up.         *)
Stopped == {"done", "dead"}
GatesFinish == \A g \in Gate : pc[g] \notin Stopped ~> pc[g] \in Stopped
=============================================================================
