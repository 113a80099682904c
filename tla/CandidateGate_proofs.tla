------------------------ MODULE CandidateGate_proofs ------------------------
(***************************************************************************)
(* Safety of CandidateGate for any number of gates, batches, obligations   *)
(* per batch and faults: what one execution answered stays together, in    *)
(* the store and in a gate's results, and is not computed again for no     *)
(* reason.                                                                 *)
(***************************************************************************)
EXTENDS CandidateGate, TLAPS

AtBatch(g) == at[g] \in DOMAIN Schedule[g]

\* What a gate that holds a claim knows, at each pass, of the batch's entries.
AtWork(g) ==
  /\ pc[g] \in Claimed => AtBatch(g) /\ claim[Cur(g)] = g
  /\ pc[g] = "load" => \A k \in Kind :
       cached[g][k] = IF k < next[g] THEN entry[Cur(g)][k] ELSE NoEntry
  /\ pc[g] = "discard" =>
       /\ \A k \in Kind :
            entry[Cur(g)][k] = IF k < next[g] THEN NoEntry ELSE cached[g][k]
       /\ \E k \in Kind : cached[g][k] = NoEntry
  /\ pc[g] = "execute" =>
       next[g] = 1 /\ \A k \in Kind : entry[Cur(g)][k] = NoEntry
  /\ pc[g] = "put" =>
       /\ fresh[g] \in Attempt
       /\ \A k \in Kind :
            entry[Cur(g)][k] = IF k < next[g] THEN fresh[g] ELSE NoEntry

\* A result of a reused entry, and of one that was executed and put.
Reused(a) == [attempt |-> a, reused |-> TRUE]
Executed(a) == [attempt |-> a, reused |-> FALSE]

\* A gate that is not dead has no results yet for the batches ahead of it, and
\* for the current one those it has put; a batch's results are of one kind.
NoneAhead(g) ==
  pc[g] # "dead" => \A j \in DOMAIN Schedule[g], k \in Kind :
    j > at[g] \/ (j = at[g] /\ pc[g] # "put") => results[g][Schedule[g][j]][k] = NoEntry
PutSoFar(g) ==
  pc[g] = "put" => \A k \in Kind :
    results[g][Cur(g)][k] =
      IF k < next[g] THEN Executed(fresh[g]) ELSE NoEntry
Together(g) ==
  \A b \in Batch : \A i, j \in Kind :
    results[g][b][i] # NoEntry /\ results[g][b][j] # NoEntry
      => results[g][b][i] = results[g][b][j]
OwnResults(g) == NoneAhead(g) /\ PutSoFar(g) /\ Together(g)

\* The entries of a batch come from one execution; only what is there rots.
OneExecution(b) ==
  /\ \A i, j \in Kind : entry[b][i] # NoEntry /\ entry[b][j] # NoEntry
                          => entry[b][i] = entry[b][j]
  /\ \A k \in Kind : <<b, k>> \in rotten => entry[b][k] # NoEntry

\* The batch is in the store, whole, or on its way there.
Putting(g, b) == pc[g] = "put" /\ Cur(g) = b
Intact(b) ==
  /\ \A k \in Kind : <<b, k>> \notin rotten
  /\ \/ \A k \in Kind : entry[b][k] # NoEntry
     \/ \E g \in Gate : Putting(g, b)

\* Each execution of a batch but the one it is intact from cost a fault.
Budget(b) == runs[b] <= faults \/ (Intact(b) /\ runs[b] <= faults + 1)

\* Before the first fault no result loses its entry and no batch is partial.
Faultless(b) ==
  faults = 0 =>
    /\ \A k \in Kind : <<b, k>> \notin rotten
    /\ \A g \in Gate : pc[g] \notin {"discard", "dead"}
    /\ \A g \in Gate, k \in Kind :
         results[g][b][k] # NoEntry => entry[b][k] = results[g][b][k].attempt
    /\ \/ \A k \in Kind : entry[b][k] = NoEntry
       \/ \A k \in Kind : entry[b][k] # NoEntry
       \/ \E g \in Gate : Putting(g, b)

IInv ==
  /\ TypeOK
  /\ \A g \in Gate : AtWork(g) /\ OwnResults(g)
  /\ \A b \in Batch : OneExecution(b) /\ Budget(b) /\ Faultless(b)
-----------------------------------------------------------------------------
\* A gate at work is at a batch of its schedule.
LEMMA CurBatch ==
  ASSUME NEW g \in Gate, AtBatch(g) PROVE Cur(g) \in Batch
BY ScheduleAssumption DEF AtBatch, Cur

\* A result names the execution it is from and whether it was reused.
LEMMA ResultFields ==
  ASSUME NEW a
  PROVE  /\ Reused(a).attempt = a /\ Executed(a).attempt = a
         /\ a \in Attempt => Reused(a) \in Result /\ Executed(a) \in Result
BY DEF Reused, Executed, Result

\* The pass of a gate over the kinds of a batch.
LEMMA KindFacts ==
  ASSUME NEW n \in 1 .. NumKinds + 1
  PROVE  /\ n <= NumKinds => /\ n \in Kind /\ n + 1 \in 1 .. NumKinds + 1
                             /\ \A k \in Kind : k < n + 1 <=> k < n \/ k = n
                             /\ ~ n < n
         /\ n > NumKinds => \A k \in Kind : k < n
         /\ \A k \in Kind : ~ k < 1
         /\ 1 \in Kind /\ 1 \in 1 .. NumKinds + 1
BY KindsAssumption DEF Kind

\* A gate at work, and the other gates, are at different batches.
LEMMA Apart ==
  ASSUME IInv, NEW g \in Gate, pc[g] \in Claimed
  PROVE  /\ Cur(g) \in Batch /\ AtBatch(g) /\ claim[Cur(g)] = g
         /\ \A h \in Gate \ {g} : pc[h] \in Claimed => Cur(h) \in Batch /\ Cur(h) # Cur(g)
BY CurBatch DEF IInv, AtWork

\* What a step of gate g leaves alone.
OthersAlone(g) ==
  \A h \in Gate \ {g} :
    /\ pc'[h] = pc[h] /\ at'[h] = at[h] /\ next'[h] = next[h]
    /\ cached'[h] = cached[h] /\ fresh'[h] = fresh[h] /\ results'[h] = results[h]
    /\ pc[h] \in Claimed => /\ claim'[Cur(h)] = claim[Cur(h)]
                            /\ entry'[Cur(h)] = entry[Cur(h)]

\* A gate's step leaves the invariant of the other gates alone.
LEMMA OthersKeep ==
  ASSUME IInv, NEW g \in Gate, OthersAlone(g), NEW h \in Gate \ {g}
  PROVE  AtWork(h)' /\ OwnResults(h)'
<1>1. AtWork(h) /\ OwnResults(h) /\ Cur(h)' = Cur(h)
  BY DEF IInv, OthersAlone, Cur
<1>2. AtWork(h)'
  BY <1>1 DEF AtWork, OthersAlone, AtBatch, Claimed
<1>3. OwnResults(h)'
  <2>1. NoneAhead(h)'
    BY <1>1 DEF OwnResults, NoneAhead, OthersAlone
  <2>2. PutSoFar(h)'
    BY <1>1 DEF OwnResults, PutSoFar, OthersAlone
  <2>3. Together(h)'
    BY <1>1 DEF OwnResults, Together, OthersAlone
  <2> QED
    BY <2>1, <2>2, <2>3 DEF OwnResults
<1> QED
  BY <1>2, <1>3

\* A step that changes no entry, and neither starts nor ends a put.
LEMMA SameStore ==
  ASSUME IInv, NEW g \in Gate, UNCHANGED <<entry, rotten, runs, faults>>,
         OthersAlone(g), pc[g] # "put", pc'[g] # "put"
  PROVE  \A b \in Batch : OneExecution(b)' /\ Budget(b)'
<1> SUFFICES ASSUME NEW b \in Batch PROVE OneExecution(b)' /\ Budget(b)'
  OBVIOUS
<1>1. OneExecution(b) /\ Budget(b)
  BY DEF IInv
<1>2. \A h \in Gate : Putting(h, b)' <=> Putting(h, b)
  BY DEF Putting, OthersAlone, Cur
<1> QED
  BY <1>1, <1>2 DEF OneExecution, Budget, Intact

\* While nothing is stored, what holds of fault-free runs stands.
LEMMA SameFaultless ==
  ASSUME IInv, NEW g \in Gate, UNCHANGED <<entry, rotten, faults>>,
         OthersAlone(g), pc[g] # "put", pc'[g] \notin {"put", "discard", "dead"},
         results' = results
  PROVE  \A b \in Batch : Faultless(b)'
<1> SUFFICES ASSUME NEW b \in Batch PROVE Faultless(b)'
  OBVIOUS
<1>1. Faultless(b)
  BY DEF IInv
<1>2. \A h \in Gate : Putting(h, b)' <=> Putting(h, b)
  BY DEF Putting, OthersAlone, Cur
<1> QED
  BY <1>1, <1>2 DEF Faultless, OthersAlone
-----------------------------------------------------------------------------
\* The gate's results stand, and it stays at its batch or comes to the next.
LEMMA SameResults ==
  ASSUME IInv, NEW g \in Gate, results'[g] = results[g], pc[g] # "dead",
         pc'[g] \notin {"put", "dead"},
         \/ at'[g] = at[g] /\ pc[g] # "put"
         \/ at'[g] = at[g] + 1
  PROVE  OwnResults(g)'
<1>1. NoneAhead(g) /\ Together(g) /\ at[g] \in Nat /\ DOMAIN Schedule[g] \subseteq Nat
  BY ScheduleAssumption DEF IInv, TypeOK, OwnResults
<1>2. NoneAhead(g)'
  BY <1>1 DEF NoneAhead
<1>3. PutSoFar(g)'
  BY DEF PutSoFar
<1>4. Together(g)'
  BY <1>1 DEF Together
<1> QED
  BY <1>2, <1>3, <1>4 DEF OwnResults

\* Waiting for the claim of a batch, and taking it, preserve the invariant.
LEMMA Claims ==
  ASSUME IInv, NEW g \in Gate, Claim(g) PROVE IInv'
<1>1. AtBatch(g) /\ Cur(g) \in Batch /\ claim[Cur(g)] = NoGate
  BY CurBatch, ScheduleAssumption DEF IInv, TypeOK, AtBatch, Claim
<1>2. TypeOK'
  BY <1>1, KindFacts, KindsAssumption
     DEF IInv, TypeOK, Claimed, NoneCached, Claim, Enter, GoTo
<1>3. OthersAlone(g)
  BY <1>1, NoneAssumption
     DEF IInv, TypeOK, AtWork, OthersAlone, Claim, Enter, GoTo
<1>4. AtWork(g)'
  BY <1>1, KindFacts
     DEF IInv, TypeOK, AtWork, AtBatch, Cur, NoneCached, Claimed, Claim, Enter, GoTo
<1>5. OwnResults(g)'
  BY SameResults DEF IInv, TypeOK, Claim, Enter, GoTo
<1>6. \A b \in Batch : OneExecution(b)' /\ Budget(b)' /\ Faultless(b)'
  BY <1>3, SameStore, SameFaultless DEF IInv, TypeOK, Claim, Enter, GoTo
<1> QED
  BY <1>2, <1>3, <1>4, <1>5, <1>6, OthersKeep DEF IInv

\* An entry of batch b is moved aside.
LEMMA EntryMoved ==
  ASSUME IInv, NEW b \in Batch, NEW n \in Kind, MoveAside(b, n)
  PROVE  /\ entry' \in [Batch -> [Kind -> Attempt \cup {NoEntry}]]
         /\ rotten' \subseteq Batch \X Kind
         /\ entry'[b][n] = NoEntry
         /\ \A k \in Kind \ {n} : entry'[b][k] = entry[b][k]
         /\ \A c \in Batch \ {b} : entry'[c] = entry[c]
         /\ \A c \in Batch, k \in Kind :
              <<c, k>> \in rotten' <=> <<c, k>> \in rotten /\ <<c, k>> # <<b, n>>
         /\ \A c \in Batch : OneExecution(c)'
<1>1. /\ entry' = [entry EXCEPT ![b][n] = NoEntry] /\ rotten' = rotten \ {<<b, n>>}
      /\ entry \in [Batch -> [Kind -> Attempt \cup {NoEntry}]] /\ rotten \subseteq Batch \X Kind
  BY DEF IInv, TypeOK, MoveAside
<1>2. /\ entry' \in [Batch -> [Kind -> Attempt \cup {NoEntry}]]
      /\ rotten' \subseteq Batch \X Kind
      /\ entry'[b][n] = NoEntry
      /\ \A k \in Kind \ {n} : entry'[b][k] = entry[b][k]
      /\ \A c \in Batch \ {b} : entry'[c] = entry[c]
  BY <1>1
<1>3. \A c \in Batch, k \in Kind :
        <<c, k>> \in rotten' <=> <<c, k>> \in rotten /\ <<c, k>> # <<b, n>>
  BY <1>1
<1>4. ASSUME NEW c \in Batch PROVE OneExecution(c)'
  BY <1>2, <1>3 DEF IInv, OneExecution
<1> QED
  BY <1>2, <1>3, <1>4

\* A load reads the kind's entry, or moves aside what does not verify.
LEMMA Loads ==
  ASSUME IInv, NEW g \in Gate, Load(g) PROVE IInv'
<1>1. PICK c \in Batch, n \in Kind :
        /\ c = Cur(g) /\ n = next[g] /\ AtBatch(g) /\ claim[c] = g /\ pc[g] = "load"
        /\ n + 1 \in 1 .. NumKinds + 1 /\ \A k \in Kind : k < n + 1 <=> k < n \/ k = n
        /\ ~ n < n /\ \A h \in Gate \ {g} : pc[h] \in Claimed => Cur(h) \in Batch /\ Cur(h) # c
  BY Apart, KindFacts DEF IInv, TypeOK, Load, Claimed
<1>2. /\ next' = [next EXCEPT ![g] = n + 1]
      /\ UNCHANGED <<attempts, claim, pc, at, fresh, results, reuseCount, executedCount,
                     executedBatches, runs, faults>>
      /\ \/ <<c, n>> \in rotten /\ cached' = cached /\ MoveAside(c, n)
         \/ /\ <<c, n>> \notin rotten /\ cached' = [cached EXCEPT ![g][n] = entry[c][n]]
            /\ UNCHANGED <<entry, rotten>>
  BY <1>1 DEF Load
<1>3. AtWork(g) /\ \A k \in Kind : cached[g][k] = IF k < n THEN entry[c][k] ELSE NoEntry
  BY <1>1 DEF IInv, AtWork
<1>4. OwnResults(g)'
  BY <1>1, <1>2, SameResults
<1>5. Cur(g)' = c /\ \A h \in Gate, b \in Batch : Putting(h, b)' <=> Putting(h, b)
  BY <1>1, <1>2 DEF Putting, Cur
<1>6. cached' \in [Gate -> [Kind -> Attempt \cup {NoEntry}]]
      /\ \A h \in Gate \ {g} : cached'[h] = cached[h]
  <2>1. entry[c][n] \in Attempt \cup {NoEntry}
    BY <1>1 DEF IInv, TypeOK
  <2>2. cached \in [Gate -> [Kind -> Attempt \cup {NoEntry}]]
    BY DEF IInv, TypeOK
  <2> QED
    BY <1>2, <2>1, <2>2
<1>7. CASE <<c, n>> \in rotten /\ cached' = cached /\ MoveAside(c, n)
  <2>1. TypeOK'
    BY <1>1, <1>2, <1>6, <1>7, EntryMoved DEF IInv, TypeOK
  <2>2. OthersAlone(g)
    BY <1>1, <1>2, <1>6, <1>7, EntryMoved DEF IInv, TypeOK, OthersAlone
  <2>3. AtWork(g)'
    BY <1>1, <1>2, <1>3, <1>5, <1>7, EntryMoved DEF IInv, TypeOK, AtWork, AtBatch
  <2>4. ASSUME NEW b \in Batch PROVE OneExecution(b)' /\ Budget(b)' /\ Faultless(b)'
    <3>1. runs' = runs /\ faults' = faults /\ Budget(b) /\ Faultless(b)
      BY <1>2 DEF IInv
    <3>2. Budget(b)'
      BY <1>5, <1>7, <3>1, EntryMoved DEF Budget, Intact
    <3>3. Faultless(b)'
      BY <1>2, <1>5, <1>7, <3>1, EntryMoved DEF IInv, Faultless
    <3> QED
      BY <1>7, <3>2, <3>3, EntryMoved
  <2> QED
    BY <1>4, <2>1, <2>2, <2>3, <2>4, OthersKeep DEF IInv
<1>8. CASE cached' = [cached EXCEPT ![g][n] = entry[c][n]] /\ UNCHANGED <<entry, rotten>>
  <2>1. TypeOK'
    BY <1>1, <1>2, <1>6, <1>8 DEF IInv, TypeOK
  <2>2. OthersAlone(g)
    BY <1>1, <1>2, <1>6, <1>8 DEF IInv, TypeOK, OthersAlone
  <2>3. cached'[g][n] = entry[c][n] /\ \A k \in Kind \ {n} : cached'[g][k] = cached[g][k]
    BY <1>1, <1>8 DEF IInv, TypeOK
  <2>4. AtWork(g)'
    BY <1>1, <1>2, <1>3, <1>5, <1>8, <2>3 DEF IInv, TypeOK, AtWork, AtBatch
  <2>5. \A b \in Batch : OneExecution(b)' /\ Budget(b)' /\ Faultless(b)'
    BY <1>1, <1>2, <1>8, <2>2, SameStore, SameFaultless
  <2> QED
    BY <1>4, <2>1, <2>2, <2>4, <2>5, OthersKeep DEF IInv
<1> QED
  BY <1>2, <1>7, <1>8

\* A batch found whole is reused, and the claim released.
LEMMA Reuses ==
  ASSUME IInv, NEW g \in Gate, Reuse(g) PROVE IInv'
<1>1. PICK c \in Batch :
        /\ c = Cur(g) /\ AtBatch(g) /\ claim[c] = g /\ pc[g] = "load"
        /\ \A k \in Kind : k < next[g]
        /\ \A h \in Gate \ {g} : pc[h] \in Claimed => Cur(h) # c
  BY Apart, KindFacts DEF IInv, TypeOK, Reuse, Claimed
<1>2. \A k \in Kind : cached[g][k] = entry[c][k] /\ cached[g][k] # NoEntry
  BY <1>1 DEF IInv, AtWork, Reuse, Present
<1>3. /\ pc' = [pc EXCEPT ![g] = "claim"] /\ claim' = [claim EXCEPT ![c] = NoGate]
      /\ at' = [at EXCEPT ![g] = @ + 1]
      /\ results' = [results EXCEPT ![g][c] =
            [k \in Kind |-> Reused(cached[g][k])]]
  BY <1>1 DEF Reuse, NextBatch, GoTo, Reused
<1>4. TypeOK'
  <2>1. \A k \in Kind : Reused(cached[g][k]) \in Result
    BY <1>2, ResultFields DEF IInv, TypeOK
  <2>2. results' \in [Gate -> [Batch -> [Kind -> Result \cup {NoEntry}]]]
    BY <1>1, <1>3, <2>1 DEF IInv, TypeOK
  <2> QED
    BY <1>1, <1>3, <2>2, KindsAssumption DEF IInv, TypeOK, Reuse
<1>5. OthersAlone(g)
  BY <1>1, <1>3 DEF IInv, TypeOK, OthersAlone, Reuse
<1>6. AtWork(g)'
  BY <1>3 DEF IInv, TypeOK, AtWork, Claimed
<1>7. NoneAhead(g)'
  <2>1. \A j \in DOMAIN Schedule[g] :
          j > at[g] => j \in Nat /\ Schedule[g][j] \in Batch /\ Schedule[g][j] # c
    BY <1>1, ScheduleAssumption DEF IInv, TypeOK, AtBatch, Cur
  <2>2. \A b \in Batch \ {c} : results'[g][b] = results[g][b]
    BY <1>1, <1>3 DEF IInv, TypeOK
  <2>3. at[g] \in Nat /\ at'[g] = at[g] + 1
    BY <1>3 DEF IInv, TypeOK
  <2> QED
    BY <1>1, <2>1, <2>2, <2>3, ScheduleAssumption DEF IInv, OwnResults, NoneAhead
<1>8. PutSoFar(g)'
  BY <1>3 DEF IInv, TypeOK, PutSoFar
<1>9. /\ \A k \in Kind : results'[g][c][k] = Reused(entry[c][k])
      /\ \A b \in Batch \ {c} : results'[g][b] = results[g][b]
      /\ \A h \in Gate \ {g} : results'[h] = results[h]
  BY <1>1, <1>2, <1>3 DEF IInv, TypeOK
<1>13. Together(g)'
  <2>1. \A i, j \in Kind : results'[g][c][i] = results'[g][c][j]
    BY <1>2, <1>9 DEF IInv, OneExecution
  <2>2. Together(g)
    BY DEF IInv, OwnResults
  <2> QED
    BY <1>9, <2>1, <2>2 DEF Together
<1>10. \A b \in Batch : OneExecution(b)' /\ Budget(b)'
  BY <1>1, <1>3, <1>5, SameStore DEF IInv, TypeOK, Reuse
<1>11. \A h \in Gate, b \in Batch : Putting(h, b)' <=> Putting(h, b)
  BY <1>1, <1>3 DEF IInv, TypeOK, Putting, Cur
<1>12. ASSUME NEW b \in Batch PROVE Faultless(b)'
  <2>1. Faultless(b) /\ UNCHANGED <<entry, rotten, faults>>
    BY DEF IInv, Reuse
  <2>2. \A k \in Kind : results'[g][c][k].attempt = entry[c][k]
    BY <1>9, ResultFields
  <2>3. \A h \in Gate, k \in Kind :
          faults = 0 /\ results'[h][b][k] # NoEntry => entry[b][k] = results'[h][b][k].attempt
    BY <1>9, <2>1, <2>2 DEF Faultless
  <2>4. \A h \in Gate : pc'[h] \in {pc[h], "claim"}
    BY <1>3 DEF IInv, TypeOK
  <2> QED
    BY <1>11, <2>1, <2>3, <2>4 DEF Faultless
<1> QED
  BY <1>4, <1>5, <1>6, <1>7, <1>8, <1>10, <1>12, <1>13, OthersKeep DEF IInv, OwnResults

\* A batch found in part is to be discarded, one not found executed.
LEMMA Decides ==
  ASSUME IInv, NEW g \in Gate, Decide(g) PROVE IInv'
<1>1. PICK c \in Batch :
        /\ c = Cur(g) /\ AtBatch(g) /\ claim[c] = g /\ pc[g] = "load"
        /\ \A k \in Kind : k < next[g] /\ ~ k < 1
        /\ \A h \in Gate \ {g} : pc[h] \in Claimed => Cur(h) # c
        /\ 1 \in 1 .. NumKinds + 1
  BY Apart, KindFacts DEF IInv, TypeOK, Decide, Claimed
<1>2. /\ next' = [next EXCEPT ![g] = 1]
      /\ pc' = [pc EXCEPT ![g] = IF Present(g) = {} THEN "execute" ELSE "discard"]
      /\ UNCHANGED <<entry, rotten, attempts, claim, at, cached, fresh, results,
                     reuseCount, executedCount, executedBatches, runs, faults>>
  BY DEF Decide, Begin, GoTo
<1>3. /\ \A k \in Kind : cached[g][k] = entry[c][k]
      /\ \E k \in Kind : cached[g][k] = NoEntry
      /\ Present(g) = {} => \A k \in Kind : entry[c][k] = NoEntry
  BY <1>1 DEF IInv, AtWork, Decide, Present
<1>4. TypeOK'
  BY <1>1, <1>2 DEF IInv, TypeOK, Claimed
<1>5. OthersAlone(g)
  BY <1>2 DEF IInv, TypeOK, OthersAlone
<1>6. AtWork(g)'
  BY <1>1, <1>2, <1>3 DEF IInv, TypeOK, AtWork, AtBatch, Cur
<1>7. OwnResults(g)'
  BY <1>1, <1>2, SameResults DEF IInv, TypeOK
<1>8. \A b \in Batch : OneExecution(b)' /\ Budget(b)'
  BY <1>1, <1>2, <1>5, SameStore DEF IInv, TypeOK
<1>9. ASSUME faults = 0 PROVE Present(g) = {}
  <2>1. Faultless(c) /\ \A h \in Gate : ~ Putting(h, c)
    BY <1>1 DEF IInv, Putting, Claimed
  <2> QED
    BY <1>3, <1>9, <2>1 DEF Faultless, Present
<1>10. ASSUME NEW b \in Batch PROVE Faultless(b)'
  <2>1. CASE faults = 0
    BY <1>1, <1>2, <1>5, <1>9, <2>1, SameFaultless DEF IInv, TypeOK
  <2>2. CASE faults # 0
    BY <1>2, <2>2 DEF Faultless
  <2> QED
    BY <2>1, <2>2
<1> QED
  BY <1>4, <1>5, <1>6, <1>7, <1>8, <1>10, OthersKeep DEF IInv

\* One entry of a partial batch is moved aside.
LEMMA Discards ==
  ASSUME IInv, NEW g \in Gate, Discard(g) PROVE IInv'
<1>1. PICK c \in Batch, n \in Kind :
        /\ c = Cur(g) /\ n = next[g] /\ AtBatch(g) /\ claim[c] = g /\ pc[g] = "discard"
        /\ n + 1 \in 1 .. NumKinds + 1 /\ \A k \in Kind : k < n + 1 <=> k < n \/ k = n
        /\ ~ n < n
        /\ \A h \in Gate \ {g} : pc[h] \in Claimed => Cur(h) \in Batch /\ Cur(h) # c
  BY Apart, KindFacts DEF IInv, TypeOK, Discard, Claimed
<1>2. /\ next' = [next EXCEPT ![g] = n + 1]
      /\ UNCHANGED <<attempts, claim, pc, at, cached, fresh, results, reuseCount,
                     executedCount, executedBatches, runs, faults>>
      /\ \/ cached[g][n] # NoEntry /\ MoveAside(c, n)
         \/ cached[g][n] = NoEntry /\ UNCHANGED <<entry, rotten>>
  BY <1>1 DEF Discard, Present
<1>3. /\ \A k \in Kind : entry[c][k] = IF k < n THEN NoEntry ELSE cached[g][k]
      /\ \E k \in Kind : cached[g][k] = NoEntry
      /\ faults # 0
  BY <1>1 DEF IInv, AtWork, Faultless
<1>4. OwnResults(g)'
  BY <1>1, <1>2, SameResults
<1>5. Cur(g)' = c /\ \A h \in Gate, b \in Batch : Putting(h, b)' <=> Putting(h, b)
  BY <1>1, <1>2 DEF Putting, Cur
<1>6. \A b \in Batch : Faultless(b)'
  BY <1>2, <1>3 DEF Faultless
<1>7. CASE cached[g][n] # NoEntry /\ MoveAside(c, n)
  <2>1. TypeOK'
    BY <1>1, <1>2, <1>7, EntryMoved DEF IInv, TypeOK
  <2>2. OthersAlone(g)
    BY <1>1, <1>2, <1>7, EntryMoved DEF IInv, TypeOK, OthersAlone
  <2>3. AtWork(g)'
    BY <1>1, <1>2, <1>3, <1>5, <1>7, EntryMoved DEF IInv, TypeOK, AtWork, AtBatch
  <2>4. ASSUME NEW b \in Batch PROVE Budget(b)'
    <3>1. Budget(b) /\ \A h \in Gate : ~ Putting(h, c)
      BY <1>1 DEF IInv, Putting, Claimed
    <3>2. ~ Intact(c)
      BY <1>3, <3>1 DEF Intact
    <3> QED
      BY <1>2, <1>5, <1>7, <3>1, <3>2, EntryMoved DEF Budget, Intact
  <2> QED
    BY <1>4, <1>6, <1>7, <2>1, <2>2, <2>3, <2>4, EntryMoved, OthersKeep DEF IInv
<1>8. CASE cached[g][n] = NoEntry /\ UNCHANGED <<entry, rotten>>
  <2>1. TypeOK'
    BY <1>1, <1>2, <1>8 DEF IInv, TypeOK
  <2>2. OthersAlone(g)
    BY <1>1, <1>2, <1>8 DEF IInv, TypeOK, OthersAlone
  <2>3. AtWork(g)'
    BY <1>1, <1>2, <1>3, <1>5, <1>8 DEF IInv, TypeOK, AtWork, AtBatch
  <2>4. \A b \in Batch : OneExecution(b)' /\ Budget(b)'
    BY <1>1, <1>2, <1>8, <2>2, SameStore
  <2> QED
    BY <1>4, <1>6, <2>1, <2>2, <2>3, <2>4, OthersKeep DEF IInv
<1> QED
  BY <1>2, <1>7, <1>8

\* With the partial batch discarded the gate goes on to execute.
LEMMA DiscardsAll ==
  ASSUME IInv, NEW g \in Gate, Discarded(g) PROVE IInv'
<1>1. PICK c \in Batch :
        /\ c = Cur(g) /\ AtBatch(g) /\ claim[c] = g /\ pc[g] = "discard"
        /\ \A k \in Kind : k < next[g]
        /\ 1 \in 1 .. NumKinds + 1
  BY Apart, KindFacts DEF IInv, TypeOK, Discarded, Claimed
<1>2. /\ next' = [next EXCEPT ![g] = 1] /\ pc' = [pc EXCEPT ![g] = "execute"]
      /\ UNCHANGED <<entry, rotten, attempts, claim, at, cached, fresh, results,
                     reuseCount, executedCount, executedBatches, runs, faults>>
  BY DEF Discarded, Begin, GoTo
<1>3. \A k \in Kind : entry[c][k] = NoEntry
  BY <1>1 DEF IInv, AtWork
<1>4. TypeOK'
  BY <1>1, <1>2 DEF IInv, TypeOK, Claimed
<1>5. OthersAlone(g)
  BY <1>2 DEF IInv, TypeOK, OthersAlone
<1>6. AtWork(g)'
  BY <1>1, <1>2, <1>3 DEF IInv, TypeOK, AtWork, AtBatch, Cur
<1>7. OwnResults(g)'
  BY <1>1, <1>2, SameResults DEF IInv, TypeOK
<1>8. \A b \in Batch : OneExecution(b)' /\ Budget(b)' /\ Faultless(b)'
  BY <1>1, <1>2, <1>5, SameStore, SameFaultless DEF IInv, TypeOK
<1> QED
  BY <1>4, <1>5, <1>6, <1>7, <1>8, OthersKeep DEF IInv

\* The execution of a claimed batch starts from an empty one.
LEMMA Executes ==
  ASSUME IInv, NEW g \in Gate, Execute(g) PROVE IInv'
<1>1. PICK c \in Batch :
        /\ c = Cur(g) /\ AtBatch(g) /\ claim[c] = g /\ pc[g] = "execute"
        /\ next[g] = 1 /\ \A k \in Kind : ~ k < 1 /\ entry[c][k] = NoEntry
        /\ \A h \in Gate \ {g} : pc[h] \in Claimed => Cur(h) # c
        /\ 1 \in Kind
  BY Apart, KindFacts DEF IInv, TypeOK, AtWork, Execute, Claimed
<1>2. /\ attempts' = attempts + 1 /\ fresh' = [fresh EXCEPT ![g] = attempts + 1]
      /\ runs' = [runs EXCEPT ![c] = @ + 1] /\ pc' = [pc EXCEPT ![g] = "put"]
      /\ UNCHANGED <<entry, rotten, claim, at, next, cached, results, reuseCount, faults>>
  BY <1>1 DEF Execute, GoTo
<1>3. TypeOK'
  BY <1>1, <1>2, KindsAssumption DEF IInv, TypeOK, Claimed, Execute
<1>4. OthersAlone(g)
  BY <1>2 DEF IInv, TypeOK, OthersAlone
<1>5. AtWork(g)'
  BY <1>1, <1>2 DEF IInv, TypeOK, AtWork, AtBatch, Cur, Attempt
<1>6. results'[g] = results[g] /\ at'[g] = at[g] /\ Cur(g)' = c
  BY <1>1, <1>2 DEF Cur
<1>7. OwnResults(g)'
  <2>1. NoneAhead(g) /\ Together(g) /\ c = Schedule[g][at[g]] /\ AtBatch(g)
    BY <1>1 DEF IInv, OwnResults, Cur
  <2>2. NoneAhead(g)'
    BY <1>1, <1>2, <1>6, <2>1 DEF NoneAhead
  <2>3. PutSoFar(g)'
    BY <1>1, <1>2, <1>6, <2>1 DEF NoneAhead, PutSoFar, AtBatch
  <2>4. Together(g)'
    BY <1>6, <2>1 DEF Together
  <2> QED
    BY <2>2, <2>3, <2>4 DEF OwnResults
<1>8. \A h \in Gate, b \in Batch : Putting(h, b)' <=> Putting(h, b) \/ (h = g /\ b = c)
  BY <1>1, <1>2 DEF IInv, TypeOK, Putting, Cur
<1>9. ASSUME NEW b \in Batch PROVE OneExecution(b)'
  BY <1>2 DEF IInv, OneExecution
<1>10. ASSUME NEW b \in Batch PROVE Budget(b)'
  <2>1. Budget(b) /\ OneExecution(b) /\ runs[b] \in Nat /\ faults \in Nat
    BY DEF IInv, TypeOK
  <2>2. CASE b = c
    <3>1. ~ Intact(c) /\ \A k \in Kind : <<c, k>> \notin rotten
      BY <1>1, <2>1, <2>2 DEF Intact, OneExecution, Putting, Claimed
    <3>2. Intact(c)' /\ runs'[c] = runs[c] + 1
      BY <1>2, <1>8, <3>1 DEF IInv, TypeOK, Intact
    <3> QED
      BY <1>2, <2>1, <2>2, <3>1, <3>2 DEF Budget
  <2>3. CASE b # c
    BY <1>2, <1>8, <2>1, <2>3 DEF IInv, TypeOK, Budget, Intact
  <2> QED
    BY <2>2, <2>3
<1>11. ASSUME NEW b \in Batch PROVE Faultless(b)'
  <2>1. Faultless(b) /\ \A h \in Gate : pc'[h] \in {pc[h], "put"}
    BY <1>2 DEF IInv, TypeOK
  <2> QED
    BY <1>2, <1>8, <2>1 DEF Faultless
<1> QED
  BY <1>3, <1>4, <1>5, <1>7, <1>9, <1>10, <1>11, OthersKeep DEF IInv

\* The results of a gate that ends its put are whole, and so is the batch.
LEMMA Releases ==
  ASSUME IInv, NEW g \in Gate, Release(g) PROVE IInv'
<1>1. PICK c \in Batch :
        /\ c = Cur(g) /\ AtBatch(g) /\ claim[c] = g /\ pc[g] = "put"
        /\ \A k \in Kind : k < next[g]
        /\ \A h \in Gate \ {g} : pc[h] \in Claimed => Cur(h) # c
  BY Apart, KindFacts DEF IInv, TypeOK, Release, Claimed
<1>2. /\ pc' = [pc EXCEPT ![g] = "claim"] /\ claim' = [claim EXCEPT ![c] = NoGate]
      /\ at' = [at EXCEPT ![g] = @ + 1]
      /\ UNCHANGED <<entry, rotten, attempts, next, cached, fresh, results,
                     reuseCount, executedCount, executedBatches, runs, faults>>
  BY <1>1 DEF Release, NextBatch, GoTo
<1>3. \A k \in Kind : entry[c][k] # NoEntry
  BY <1>1, NoneAssumption DEF IInv, AtWork, Attempt
<1>4. TypeOK'
  BY <1>1, <1>2, KindsAssumption DEF IInv, TypeOK
<1>5. OthersAlone(g)
  BY <1>1, <1>2 DEF IInv, TypeOK, OthersAlone
<1>6. AtWork(g)'
  BY <1>2 DEF IInv, TypeOK, AtWork, Claimed
<1>7. OwnResults(g)'
  BY <1>1, <1>2, SameResults DEF IInv, TypeOK
<1>8. \A h \in Gate, b \in Batch : b # c => (Putting(h, b)' <=> Putting(h, b))
  BY <1>1, <1>2 DEF IInv, TypeOK, Putting, Cur
<1>9. ASSUME NEW b \in Batch PROVE OneExecution(b)' /\ Budget(b)' /\ Faultless(b)'
  <2>1. OneExecution(b) /\ Budget(b) /\ Faultless(b)
    BY DEF IInv
  <2>2. OneExecution(b)'
    BY <1>2, <2>1 DEF OneExecution
  <2>3. Budget(b)'
    BY <1>2, <1>3, <1>8, <2>1 DEF Budget, Intact
  <2>4. \A h \in Gate : pc'[h] \in {pc[h], "claim"}
    BY <1>2 DEF IInv, TypeOK
  <2>5. Faultless(b)'
    BY <1>2, <1>3, <1>8, <2>1, <2>4 DEF Faultless
  <2> QED
    BY <2>2, <2>3, <2>5
<1> QED
  BY <1>4, <1>5, <1>6, <1>7, <1>9, OthersKeep DEF IInv

\* A gate past its last batch has all its results.
LEMMA Finishes ==
  ASSUME IInv, NEW g \in Gate, Finish(g) PROVE IInv'
<1>1. /\ pc' = [pc EXCEPT ![g] = "done"] /\ pc[g] = "claim"
      /\ UNCHANGED <<entry, rotten, attempts, claim, at, next, cached, fresh, results,
                     reuseCount, executedCount, executedBatches, runs, faults>>
  BY DEF Finish, GoTo
<1>2. TypeOK' /\ OthersAlone(g)
  BY <1>1 DEF IInv, TypeOK, OthersAlone
<1>3. AtWork(g)' /\ OwnResults(g)'
  BY <1>1, SameResults DEF IInv, TypeOK, AtWork, Claimed
<1>4. \A b \in Batch : OneExecution(b)' /\ Budget(b)' /\ Faultless(b)'
  BY <1>1, <1>2, SameStore, SameFaultless DEF IInv, TypeOK
<1> QED
  BY <1>2, <1>3, <1>4, OthersKeep DEF IInv

\* A put adds one entry of the execution to those already there.
LEMMA Puts ==
  ASSUME IInv, NEW g \in Gate, Put(g) PROVE IInv'
<1>1. PICK c \in Batch, n \in Kind :
        /\ c = Cur(g) /\ n = next[g] /\ AtBatch(g) /\ claim[c] = g /\ pc[g] = "put"
        /\ n + 1 \in 1 .. NumKinds + 1 /\ \A k \in Kind : k < n + 1 <=> k < n \/ k = n
        /\ ~ n < n
        /\ \A h \in Gate \ {g} : pc[h] \in Claimed => Cur(h) \in Batch /\ Cur(h) # c
  BY Apart, KindFacts DEF IInv, TypeOK, Put, Claimed
<1>2. PICK a \in Attempt :
        /\ a = fresh[g] /\ a # NoEntry
        /\ \A k \in Kind : entry[c][k] = IF k < n THEN a ELSE NoEntry
  BY <1>1, NoneAssumption DEF IInv, AtWork, Attempt
<1>3. entry[c][n] = NoEntry /\ <<c, n>> \notin rotten /\ rotten \ {<<c, n>>} = rotten
  BY <1>1, <1>2 DEF IInv, OneExecution
<1>4. /\ entry' = [entry EXCEPT ![c][n] = a] /\ rotten' = rotten
      /\ results' = [results EXCEPT ![g][c][n] = Executed(a)]
      /\ next' = [next EXCEPT ![g] = n + 1]
      /\ UNCHANGED <<attempts, claim, pc, at, cached, fresh, reuseCount,
                     executedCount, executedBatches, runs, faults>>
  BY <1>1, <1>2, <1>3 DEF Put, Executed
<1>5. /\ entry' \in [Batch -> [Kind -> Attempt \cup {NoEntry}]]
      /\ entry'[c][n] = a /\ \A k \in Kind \ {n} : entry'[c][k] = entry[c][k]
      /\ \A b \in Batch \ {c} : entry'[b] = entry[b]
  BY <1>4 DEF IInv, TypeOK
<1>6. /\ results' \in [Gate -> [Batch -> [Kind -> Result \cup {NoEntry}]]]
      /\ results'[g][c][n] = Executed(a)
      /\ \A k \in Kind \ {n} : results'[g][c][k] = results[g][c][k]
      /\ \A b \in Batch \ {c} : results'[g][b] = results[g][b]
      /\ \A h \in Gate \ {g} : results'[h] = results[h]
  BY <1>4, ResultFields DEF IInv, TypeOK
<1>7. /\ \A h \in Gate, b \in Batch : Putting(h, b)' <=> Putting(h, b)
      /\ Putting(g, c) /\ Cur(g)' = c
  BY <1>1, <1>4 DEF Putting, Cur
<1>8. TypeOK'
  BY <1>1, <1>4, <1>5, <1>6 DEF IInv, TypeOK
<1>9. OthersAlone(g)
  BY <1>1, <1>4, <1>5, <1>6 DEF IInv, TypeOK, OthersAlone
<1>10. AtWork(g)'
  BY <1>1, <1>2, <1>4, <1>5, <1>7 DEF IInv, TypeOK, AtWork, AtBatch
<1>11. next'[g] = n + 1
  BY <1>4 DEF IInv, TypeOK
<1>12. OwnResults(g)'
  <2>1. NoneAhead(g) /\ PutSoFar(g) /\ Together(g)
    BY DEF IInv, OwnResults
  <2>2. \A j \in DOMAIN Schedule[g] :
          j > at[g] => Schedule[g][j] \in Batch /\ Schedule[g][j] # c
    BY <1>1, ScheduleAssumption DEF IInv, TypeOK, AtBatch, Cur
  <2>3. NoneAhead(g)'
    BY <1>1, <1>4, <1>6, <2>1, <2>2 DEF NoneAhead
  <2>4. PutSoFar(g)'
    BY <1>1, <1>2, <1>4, <1>6, <1>7, <1>11, <2>1 DEF PutSoFar
  <2>5. \A k \in Kind : results'[g][c][k] \in {Executed(a), NoEntry}
    BY <1>1, <1>2, <1>6, <2>1 DEF PutSoFar
  <2>6. Together(g)'
    BY <1>6, <2>1, <2>5 DEF Together
  <2> QED
    BY <2>3, <2>4, <2>6 DEF OwnResults
<1>13. ASSUME NEW b \in Batch PROVE OneExecution(b)'
  <2>1. \A k \in Kind : entry'[c][k] \in {a, NoEntry} /\ <<c, n>> \notin rotten
    BY <1>2, <1>3, <1>5
  <2> QED
    BY <1>2, <1>4, <1>5, <2>1 DEF IInv, OneExecution
<1>14. ASSUME NEW b \in Batch PROVE Budget(b)' /\ Faultless(b)'
  <2>1. Budget(b) /\ Faultless(b)
    BY DEF IInv
  <2>2. Budget(b)'
    BY <1>4, <1>5, <1>7, <2>1 DEF Budget, Intact
  <2>3. ASSUME faults = 0, NEW h \in Gate, NEW k \in Kind, results'[h][b][k] # NoEntry
        PROVE  entry'[b][k] = results'[h][b][k].attempt
    <3>1. CASE b = c /\ k = n
      <4>1. h = g \/ results[h][c][n] = NoEntry
        <5>1. results[h][c][n] \in Result => results[h][c][n].attempt # NoEntry
          BY NoneAssumption DEF Result, Attempt
        <5>2. results[h][c][n] \in Result \cup {NoEntry}
          BY DEF IInv, TypeOK
        <5> QED
          BY <1>3, <2>1, <2>3, <3>1, <5>1, <5>2 DEF Faultless
      <4> QED
        BY <1>5, <1>6, <2>3, <3>1, <4>1, ResultFields
    <3>2. CASE ~ (b = c /\ k = n)
      <4>1. entry'[b][k] = entry[b][k] /\ results'[h][b][k] = results[h][b][k]
        BY <1>5, <1>6, <3>2
      <4> QED
        BY <2>1, <2>3, <4>1 DEF Faultless
    <3> QED
      BY <3>1, <3>2
  <2>4. Faultless(b)'
    BY <1>4, <1>5, <1>7, <2>1, <2>3 DEF Faultless
  <2> QED
    BY <2>2, <2>4
<1> QED
  BY <1>8, <1>9, <1>10, <1>12, <1>13, <1>14, OthersKeep DEF IInv

\* A gate dies anywhere and leaves its batch as it was, unclaimed.
LEMMA Deaths ==
  ASSUME IInv, NEW g \in Gate, Die(g) PROVE IInv'
<1>1. /\ pc' = [pc EXCEPT ![g] = "dead"] /\ faults' = faults + 1 /\ faults < MaxFaults
      /\ claim' = [b \in Batch |-> IF claim[b] = g THEN NoGate ELSE claim[b]]
      /\ UNCHANGED <<entry, rotten, attempts, at, next, cached, fresh, results,
                     reuseCount, executedCount, executedBatches, runs>>
      /\ faults \in Nat /\ faults' \in 0 .. MaxFaults /\ faults' # 0
  BY BoundsAssumption DEF IInv, TypeOK, Die, Fault, GoTo
<1>2. TypeOK'
  BY <1>1 DEF IInv, TypeOK
<1>3. OthersAlone(g)
  <2>1. ASSUME NEW h \in Gate \ {g}, pc[h] \in Claimed
        PROVE  claim'[Cur(h)] = claim[Cur(h)]
    BY <1>1, <2>1, Apart
  <2> QED
    BY <1>1, <2>1 DEF IInv, TypeOK, OthersAlone
<1>4. AtWork(g)' /\ OwnResults(g)'
  <2>1. pc'[g] = "dead" /\ results' = results /\ Together(g)
    BY <1>1 DEF IInv, TypeOK, OwnResults
  <2>2. AtWork(g)'
    BY <2>1 DEF AtWork, Claimed
  <2>3. OwnResults(g)'
    BY <2>1 DEF OwnResults, NoneAhead, PutSoFar, Together
  <2> QED
    BY <2>2, <2>3
<1>5. ASSUME NEW b \in Batch PROVE OneExecution(b)' /\ Budget(b)' /\ Faultless(b)'
  <2>1. OneExecution(b) /\ Budget(b) /\ runs[b] \in Nat
    BY DEF IInv, TypeOK
  <2> QED
    BY <1>1, <2>1 DEF OneExecution, Budget, Faultless
<1> QED
  BY <1>2, <1>3, <1>4, <1>5, OthersKeep DEF IInv

\* A gate that starts again has neither results nor a claim.
LEMMA Restarts ==
  ASSUME IInv, NEW g \in Gate, Restart(g) PROVE IInv'
<1>1. /\ pc' = [pc EXCEPT ![g] = "claim"] /\ pc[g] = "dead" /\ at' = [at EXCEPT ![g] = 1]
      /\ results' = [results EXCEPT ![g] = NoResults]
      /\ UNCHANGED <<entry, rotten, attempts, claim, next, cached, fresh, runs, faults>>
  BY DEF Restart, GoTo
<1>2. TypeOK'
  BY <1>1 DEF IInv, TypeOK, Restart, NoResults, NoneCached
<1>3. OthersAlone(g)
  BY <1>1 DEF IInv, TypeOK, OthersAlone
<1>4. AtWork(g)'
  BY <1>1 DEF IInv, TypeOK, AtWork, Claimed
<1>5. \A b \in Batch, k \in Kind : results'[g][b][k] = NoEntry
  BY <1>1 DEF IInv, TypeOK, NoResults, NoneCached
<1>6. NoneAhead(g)'
  BY <1>5, ScheduleAssumption DEF NoneAhead
<1>7. PutSoFar(g)'
  BY <1>1 DEF IInv, TypeOK, PutSoFar
<1>8. Together(g)'
  BY <1>5 DEF Together
<1>9. \A b \in Batch : OneExecution(b)' /\ Budget(b)'
  BY <1>1, <1>3, SameStore DEF IInv, TypeOK, Restart
<1>10. ASSUME NEW b \in Batch PROVE Faultless(b)'
  BY <1>1 DEF IInv, Faultless
<1> QED
  BY <1>2, <1>3, <1>4, <1>6, <1>7, <1>8, <1>9, <1>10, OthersKeep DEF IInv, OwnResults

\* A rotten entry does not change which execution it came from.
LEMMA Rots ==
  ASSUME IInv, NEW b \in Batch, NEW k \in Kind, Rot(b, k) PROVE IInv'
<1>1. /\ rotten' = rotten \cup {<<b, k>>} /\ entry[b][k] # NoEntry /\ faults' = faults + 1
      /\ UNCHANGED <<entry, attempts, claim, pc, at, next, cached, fresh, results,
                     reuseCount, executedCount, executedBatches, runs>>
      /\ faults \in Nat /\ faults' \in 0 .. MaxFaults /\ faults' # 0
  BY BoundsAssumption DEF IInv, TypeOK, Rot, Fault, gateVars
<1>2. TypeOK'
  BY <1>1 DEF IInv, TypeOK
<1>3. ASSUME NEW g \in Gate PROVE AtWork(g)' /\ OwnResults(g)'
  <2>1. AtWork(g) /\ OwnResults(g) /\ Cur(g)' = Cur(g)
    BY <1>1 DEF IInv, Cur
  <2>2. AtWork(g)'
    BY <1>1, <2>1 DEF AtWork, AtBatch
  <2>3. NoneAhead(g)'
    BY <1>1, <2>1 DEF OwnResults, NoneAhead
  <2>4. PutSoFar(g)' /\ Together(g)'
    BY <1>1, <2>1 DEF OwnResults, PutSoFar, Together
  <2> QED
    BY <2>2, <2>3, <2>4 DEF OwnResults
<1>4. ASSUME NEW c \in Batch PROVE OneExecution(c)' /\ Budget(c)' /\ Faultless(c)'
  <2>1. OneExecution(c) /\ Budget(c) /\ runs[c] \in Nat
    BY DEF IInv, TypeOK
  <2>2. OneExecution(c)'
    BY <1>1, <2>1 DEF OneExecution
  <2> QED
    BY <1>1, <2>1, <2>2 DEF Budget, Faultless
<1> QED
  BY <1>2, <1>3, <1>4 DEF IInv
-----------------------------------------------------------------------------
\* With nothing stored and no gate at work the invariant holds.
LEMMA Starts == Init => IInv
<1> SUFFICES ASSUME Init PROVE IInv
  OBVIOUS
<1>1. TypeOK
  BY KindsAssumption, BoundsAssumption, KindFacts
     DEF Init, TypeOK, NoResults, NoneCached, Claimed
<1>2. ASSUME NEW g \in Gate PROVE AtWork(g) /\ OwnResults(g)
  <2>1. pc[g] = "claim" /\ \A b \in Batch, k \in Kind : results[g][b][k] = NoEntry
    BY DEF Init, NoResults, NoneCached
  <2>2. NoneAhead(g)
    BY <2>1, ScheduleAssumption DEF NoneAhead
  <2> QED
    BY <2>1, <2>2 DEF AtWork, OwnResults, PutSoFar, Together, Claimed
<1>3. ASSUME NEW b \in Batch PROVE OneExecution(b) /\ Budget(b) /\ Faultless(b)
  BY DEF Init, OneExecution, Budget, Faultless, NoResults, NoneCached
<1> QED
  BY <1>1, <1>2, <1>3 DEF IInv

\* Every step of every gate preserves it, and every fault.
LEMMA Preserved == IInv /\ [Next]_vars => IInv'
<1> SUFFICES ASSUME IInv, [Next]_vars PROVE IInv'
  OBVIOUS
<1>1. CASE UNCHANGED vars
  <2>1. /\ UNCHANGED <<entry, rotten, attempts, claim, pc, at, next, cached, fresh, results,
                       reuseCount, executedCount, executedBatches, runs, faults>>
        /\ \A g \in Gate : Cur(g)' = Cur(g)
    BY <1>1 DEF vars, gateVars, Cur
  <2>2. TypeOK'
    BY <2>1 DEF IInv, TypeOK
  <2>3. \A g \in Gate : AtWork(g)'
    BY <2>1 DEF IInv, AtWork, AtBatch
  <2>4. \A g \in Gate : NoneAhead(g)'
    BY <2>1 DEF IInv, OwnResults, NoneAhead
  <2>5. \A g \in Gate : PutSoFar(g)'
    BY <2>1 DEF IInv, OwnResults, PutSoFar
  <2>6. \A g \in Gate : Together(g)'
    BY <2>1 DEF IInv, OwnResults, Together
  <2>7. \A b \in Batch : OneExecution(b)' /\ Faultless(b)'
    BY <2>1 DEF IInv, OneExecution, Faultless, Putting
  <2>8. \A b \in Batch : Budget(b)'
    BY <2>1 DEF IInv, Budget, Intact, Putting
  <2> QED
    BY <2>2, <2>3, <2>4, <2>5, <2>6, <2>7, <2>8 DEF IInv, OwnResults
<1>2. ASSUME NEW g \in Gate, Step(g) PROVE IInv'
  BY <1>2, Claims, Loads, Reuses, Decides, Discards, DiscardsAll, Executes, Puts,
     Releases, Finishes
     DEF Step
<1> QED
  BY <1>1, <1>2, Deaths, Restarts, Rots DEF Next

\* The inductive invariant holds in every reachable state.
THEOREM Invariant == Spec => []IInv
BY Starts, Preserved, PTL DEF Spec

(* TypeOK holds in every reachable state.                                  *)
THEOREM TypeCorrect == Spec => []TypeOK
<1>1. IInv => TypeOK
  BY DEF IInv
<1> QED
  BY <1>1, Invariant, PTL

(* The entries of a batch never come from two executions, and neither do   *)
(* the results a gate goes on with.                                        *)
THEOREM StoreStaysCoherent == Spec => []StoreCoherent
<1>1. IInv => StoreCoherent
  BY DEF IInv, OneExecution, StoreCoherent
<1> QED
  BY <1>1, Invariant, PTL

\* What a gate goes on with for a batch is one execution's, never a mix.
THEOREM ResultsStayTogether == Spec => []BatchFromOneExecution
<1>1. IInv => BatchFromOneExecution
  BY DEF IInv, OwnResults, Together, BatchFromOneExecution
<1> QED
  BY <1>1, Invariant, PTL

(* Every execution of a batch after the first is paid for by a fault.      *)
THEOREM ExecutionsArePaidFor == Spec => []NoDuplicateExecution
<1>1. IInv => NoDuplicateExecution
  <2>1. ASSUME IInv, NEW b \in Batch PROVE runs[b] <= 1 + faults
    BY <2>1, BoundsAssumption DEF IInv, TypeOK, Budget
  <2> QED
    BY <2>1 DEF NoDuplicateExecution
<1> QED
  BY <1>1, Invariant, PTL

(* Without a fault all gates go on with the same results.                  *)
THEOREM GatesStayAgreed == Spec => []GatesAgree
<1>1. IInv => GatesAgree
  BY DEF IInv, Faultless, GatesAgree
<1> QED
  BY <1>1, Invariant, PTL
=============================================================================
