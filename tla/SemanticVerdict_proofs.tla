----------------------- MODULE SemanticVerdict_proofs -----------------------
(***************************************************************************)
(* The verdicts of the backend are true, and the classifications made from *)
(* them sound, for any inputs and any worlds: whatever the two programs do *)
(* and wherever a model's domain and the runtime bound lie.                *)
(***************************************************************************)
EXTENDS SemanticVerdict, TLAPS

\* Status s of obligation k of model m claims nothing false.
Honest(m, k, s) ==
  /\ s \in {"proven", "valid"} => Holds(m, k)
  /\ s = "falsified" => ~ Holds(m, k)

Differ == \E i \in Input : world.out["old"][i] # world.out["new"][i]

\* While a model is executed no obligation of it is marked with a false verdict.
ProofsHonest ==
  /\ stage = "waiting" <=> model \notin Model
  /\ \A k \in Kind :
       IF model \in Model THEN Honest(model, k, proof[k]) ELSE proof[k] = "absent"

\* The replay comes after a falsified equivalence, and confirms real differences.
Replays ==
  /\ stage \in {"witness", "replay"} => proof["equivalence"] = "falsified"
  /\ stage = "replay" => witness \in Input
  /\ replayed => /\ stage = "returned" /\ proof["equivalence"] = "falsified"
                 /\ Differ

RowsHonest ==
  \A m \in Model : \A k \in DOMAIN results[m] :
    /\ Honest(m, k, results[m][k].status)
    /\ results[m][k].replayed =>
         k = "equivalence" /\ results[m][k].status = "falsified" /\ Differ

IInv == TypeOK /\ ProofsHonest /\ Replays /\ RowsHonest
-----------------------------------------------------------------------------
\* No step changes the two programs, hence what holds of them.
LEMMA WorldStands ==
  ASSUME UNCHANGED world
  PROVE  /\ \A m \in Model, k \in Kind : Holds(m, k)' <=> Holds(m, k)
         /\ \A m, k, s : Honest(m, k, s)' <=> Honest(m, k, s)
         /\ Differ' <=> Differ
BY DEF Holds, Honest, Differ, Observation

\* Recorded rows are rows: a status and whether a replay confirmed it.
LEMMA RowsTyped ==
  /\ NoRows \in Rows
  /\ \A f \in [Kind -> Row] : f \in Rows /\ DOMAIN f = Kind
<1>1. NoRows \in [{} -> Row]
  BY DEF NoRows
<1> QED
  BY <1>1 DEF Rows

\* A step that records nothing leaves the rows as honest as they were.
LEMMA RowsKept ==
  ASSUME IInv, UNCHANGED <<world, results>> PROVE RowsHonest'
BY WorldStands DEF IInv, RowsHonest

\* compare returns, or goes on to a stage before the counterexample's.
LEMMA Quiet ==
  ASSUME IInv, UNCHANGED <<world, model, proof, witness, replayed, results>>,
         stage # "waiting", stage # "returned",
         stage' \in Stage \ {"waiting", "witness", "replay"},
         trial' \in {"valid", "falsified", "inconclusive"}, status' \in BackendStatus
  PROVE  IInv'
<1>1. TypeOK'
  BY DEF IInv, TypeOK
<1>2. ProofsHonest' /\ Replays'
  BY WorldStands DEF IInv, TypeOK, ProofsHonest, Replays
<1> QED
  BY <1>1, <1>2, RowsKept DEF IInv

\* The stages that conclude nothing: set-up, refusals and timeouts.
LEMMA QuietSteps ==
  ASSUME IInv,
         \/ RefuseAbi \/ EnvironmentFails \/ Import \/ Prepare \/ TrialTimesOut
         \/ TrialConflicts \/ TrialFails \/ WitnessFails
         \/ ProveNonVacuity /\ UNCHANGED proof
  PROVE  IInv'
<1>1. trial \in {"valid", "falsified", "inconclusive"} /\ status \in BackendStatus
      /\ stage \in Stage
  BY DEF IInv, TypeOK
<1>2. /\ UNCHANGED <<world, model, proof, witness, replayed, results>>
      /\ stage # "waiting" /\ stage # "returned"
      /\ stage' \in Stage \ {"waiting", "witness", "replay"}
      /\ status' \in BackendStatus
  BY <1>1
     DEF RefuseAbi, EnvironmentFails, Import, Prepare, TrialTimesOut, TrialConflicts,
         TrialFails, WitnessFails, ProveNonVacuity, Return, Advance, Trials, Stage,
         BackendStatus
<1>3. trial' \in {"valid", "falsified", "inconclusive"}
  BY <1>1
     DEF RefuseAbi, EnvironmentFails, Import, Prepare, TrialTimesOut, TrialConflicts,
         TrialFails, WitnessFails, ProveNonVacuity, Return, Advance, NextTrial
<1> QED
  BY <1>2, <1>3, Quiet

\* A new comparison starts with nothing concluded.
LEMMA Begins ==
  ASSUME IInv, (\E m \in Model : Execute(m)) \/ Open
  PROVE  IInv'
<1>1. CASE Open
  <2>1. TypeOK'
    BY <1>1 DEF IInv, TypeOK, Open, Advance, Stage, AllAre, ProofStatus
  <2>2. ProofsHonest' /\ Replays'
    BY <1>1 DEF IInv, TypeOK, ProofsHonest, Replays, Honest, Open, Advance, AllAre
  <2> QED
    BY <1>1, <2>1, <2>2, RowsKept DEF IInv, Open, Advance
<1>2. CASE \E m \in Model : Execute(m)
  <2>1. TypeOK'
    BY <1>2 DEF IInv, TypeOK, Execute, Stage
  <2>2. ProofsHonest' /\ Replays'
    BY <1>2 DEF IInv, TypeOK, ProofsHonest, Replays, Honest, Execute, Model
  <2> QED
    BY <1>2, <2>1, <2>2, RowsKept DEF IInv, Execute
<1> QED
  BY <1>1, <1>2

\* An obligation gets its verdict.
LEMMA Concludes ==
  ASSUME IInv, \/ ProveNonVacuity /\ proof' # proof
               \/ CompletionConcludes \/ EquivalenceConcludes
  PROVE  IInv'
<1>1. PICK k \in Kind, s \in {"proven", "valid", "falsified", "inconclusive"} :
        /\ proof' = [proof EXCEPT ![k] = s] /\ Honest(model, k, s)
        /\ stage \in {"nonVacuity", "old", "new", "equivalence"}
        /\ stage' = "witness" => k = "equivalence" /\ s = "falsified"
        /\ stage' \in Stage \ {"waiting", "replay"}
        /\ UNCHANGED <<world, model, witness, replayed, results>>
        /\ status' \in BackendStatus /\ trial' \in {"valid", "falsified", "inconclusive"}
  <2>1. trial \in {"valid", "falsified", "inconclusive"} /\ status \in BackendStatus
    BY DEF IInv, TypeOK
  <2>2. CASE ProveNonVacuity /\ proof' # proof
    BY <2>1, <2>2
       DEF ProveNonVacuity, Return, Advance, Honest, Kind, Stage, BackendStatus
  <2>3. CASE CompletionConcludes
    BY <2>1, <2>3
       DEF CompletionConcludes, Admitted, Advance, Honest, Completion, Kind, Stage
  <2>4. CASE EquivalenceConcludes
    BY <2>1, <2>4
       DEF EquivalenceConcludes, Admitted, Advance, Return, Honest, Kind, Stage,
           BackendStatus
  <2> QED
    BY <2>2, <2>3, <2>4
<1>2. TypeOK'
  BY <1>1 DEF IInv, TypeOK, ProofStatus
<1>3. ProofsHonest'
  BY <1>1, WorldStands DEF IInv, TypeOK, ProofsHonest
<1>4. Replays'
  BY <1>1 DEF IInv, TypeOK, Replays
<1> QED
  BY <1>1, <1>2, <1>3, <1>4, RowsKept DEF IInv

\* Reading a counterexample back out of the log concludes nothing.
LEMMA WitnessParses == ASSUME IInv, WitnessParsed PROVE IInv'
<1>1. TypeOK'
  BY DEF IInv, TypeOK, WitnessParsed, Stage, BackendStatus
<1>2. ProofsHonest' /\ Replays'
  BY WorldStands DEF IInv, TypeOK, ProofsHonest, Replays, WitnessParsed
<1> QED
  BY <1>1, <1>2, RowsKept DEF IInv, WitnessParsed

\* A replay is confirmed only of two outcomes that were both evaluated.
LEMMA ReplayEnds == ASSUME IInv, Replay PROVE IInv'
<1>1. replayed' \in BOOLEAN /\ (replayed' => Differ)
  BY DEF IInv, TypeOK, Replays, Replay, Confirms, Evaluations, Differ
<1>2. TypeOK'
  BY <1>1 DEF IInv, TypeOK, Replay, Stage
<1>3. ProofsHonest' /\ Replays'
  BY <1>1, WorldStands DEF IInv, TypeOK, ProofsHonest, Replays, Replay
<1> QED
  BY <1>2, <1>3, RowsKept DEF IInv, Replay

\* What is made of an obligation without a verdict claims nothing.
LEMMA TerminalHonest ==
  ASSUME NEW p \in ProofStatus, NEW s \in BackendStatus
  PROVE  /\ Terminal(p, s) \in TerminalStatus
         /\ Terminal(p, s) \in {"proven", "valid", "falsified"} => p = Terminal(p, s)
         /\ p = "falsified" => Terminal(p, s) = "falsified"
BY DEF Terminal, ProofStatus, BackendStatus, TerminalStatus

\* The rows recorded at the end say no more than the stages concluded.
LEMMA Records == ASSUME IInv, Record PROVE IInv'
<1>1. model \in Model /\ UNCHANGED world
  BY DEF IInv, ProofsHonest, Record
<1>2. DEFINE row(k) == [status |-> Terminal(proof[k], status),
                        replayed |-> k = "equivalence" /\ replayed]
<1>3. ASSUME NEW k \in Kind
      PROVE  /\ row(k) \in Row
             /\ Honest(model, k, row(k).status)
             /\ row(k).replayed => k = "equivalence" /\ row(k).status = "falsified" /\ Differ
  <2>1. proof[k] \in ProofStatus /\ status \in BackendStatus /\ Honest(model, k, proof[k])
    BY <1>1 DEF IInv, TypeOK, ProofsHonest
  <2>2. row(k).status = Terminal(proof[k], status)
    OBVIOUS
  <2>3. row(k).replayed <=> k = "equivalence" /\ replayed
    OBVIOUS
  <2>4. row(k) \in Row
    BY <2>1, TerminalHonest DEF Row
  <2>5. Honest(model, k, row(k).status)
    BY <2>1, <2>2, TerminalHonest DEF Honest
  <2>6. row(k).replayed => k = "equivalence" /\ row(k).status = "falsified" /\ Differ
    BY <2>1, <2>2, <2>3, TerminalHonest DEF IInv, Replays
  <2> QED
    BY <2>4, <2>5, <2>6
<1>4. results' = [results EXCEPT ![model] = [k \in Kind |-> row(k)]]
  BY DEF Record
<1> HIDE DEF row
<1>5. [k \in Kind |-> row(k)] \in Rows /\ DOMAIN [k \in Kind |-> row(k)] = Kind
  BY <1>3, RowsTyped
<1>6. /\ results'[model] = [k \in Kind |-> row(k)]
      /\ \A m \in Model \ {model} : results'[m] = results[m]
      /\ results' \in [Model -> Rows]
  BY <1>1, <1>4, <1>5 DEF IInv, TypeOK
<1>7. TypeOK'
  BY <1>6 DEF IInv, TypeOK, Record, Stage, AllAre, ProofStatus, BackendStatus
<1>8. ProofsHonest' /\ Replays'
  BY DEF Record, ProofsHonest, Replays, AllAre, Model
<1>9. RowsHonest'
  <2>1. ASSUME NEW m \in Model, NEW k \in DOMAIN results'[m]
        PROVE  /\ Honest(m, k, results'[m][k].status)
               /\ results'[m][k].replayed =>
                    k = "equivalence" /\ results'[m][k].status = "falsified" /\ Differ
    <3>1. CASE m = model
      BY <1>3, <1>5, <1>6, <3>1
    <3>2. CASE m # model
      BY <1>6, <3>2 DEF IInv, RowsHonest
    <3> QED
      BY <3>1, <3>2
  <2> QED
    BY <1>1, <2>1, WorldStands DEF RowsHonest
<1> QED
  BY <1>7, <1>8, <1>9 DEF IInv
-----------------------------------------------------------------------------
\* Before the first comparison nothing is concluded or recorded.
LEMMA Starts == Init => IInv
<1> SUFFICES ASSUME Init PROVE IInv
  OBVIOUS
<1>1. TypeOK
  BY WorldsAssumption, RowsTyped
     DEF Init, TypeOK, AllAre, Stage, ProofStatus, BackendStatus
<1>2. ProofsHonest /\ Replays
  BY DEF Init, ProofsHonest, Replays, AllAre, Model
<1>3. RowsHonest
  BY DEF Init, RowsHonest, NoRows
<1> QED
  BY <1>1, <1>2, <1>3 DEF IInv

\* Every stage of every comparison preserves the invariant.
LEMMA Preserved == IInv /\ [Next]_vars => IInv'
<1> SUFFICES ASSUME IInv, [Next]_vars PROVE IInv'
  OBVIOUS
<1>1. CASE UNCHANGED vars
  <2>1. UNCHANGED <<world, model, stage, trial, proof, status, witness, replayed, results>>
    BY <1>1 DEF vars, compareVars
  <2>2. TypeOK'
    BY <2>1 DEF IInv, TypeOK
  <2>3. ProofsHonest' /\ Replays'
    BY <2>1, WorldStands DEF IInv, ProofsHonest, Replays
  <2> QED
    BY <2>1, <2>2, <2>3, RowsKept DEF IInv
<1>2. CASE Next
  BY <1>2, QuietSteps, Begins, Concludes, WitnessParses, ReplayEnds, Records DEF Next
<1> QED
  BY <1>1, <1>2

\* The inductive invariant holds in every reachable state.
THEOREM Invariant == Spec => []IInv
BY Starts, Preserved, PTL DEF Spec

(* TypeOK holds in every reachable state.                                  *)
THEOREM TypeCorrect == Spec => []TypeOK
<1>1. IInv => TypeOK
  BY DEF IInv
<1> QED
  BY <1>1, Invariant, PTL

(* No timeout, failure or retry of a stage ever becomes a false verdict.   *)
THEOREM RecordedVerdictsTrue == Spec => []VerdictsTrue
<1>1. IInv => VerdictsTrue
  BY DEF IInv, RowsHonest, Honest, VerdictsTrue
<1> QED
  BY <1>1, Invariant, PTL

(* A confirmed replay is a real difference, whatever witness was parsed.   *)
THEOREM ConfirmedIsDifferent == Spec => []ConfirmedMeansDifferent
<1>1. IInv => ConfirmedMeansDifferent
  <2>1. ASSUME IInv, NEW m \in Model, NEW k \in DOMAIN results[m], results[m][k].replayed
        PROVE  results[m]["equivalence"].status = "falsified" /\ Differ
    BY <2>1 DEF IInv, RowsHonest
  <2> QED
    BY <2>1 DEF ConfirmedMeansDifferent, Differ
<1> QED
  BY <1>1, Invariant, PTL
-----------------------------------------------------------------------------
(* What the policy makes of the rows.                                      *)

\* strict accepts a changed pair only on complete raw evidence.
LEMMA AcceptedMeansComplete ==
  ASSUME NEW rows, NEW ledger,
         FinalClassification(RawClassification(rows, FALSE), ledger) \in StrictAccepted
  PROVE  ModelComplete(rows)
<1>1. RawClassification(rows, FALSE) \in StrictAccepted
  BY DEF FinalClassification, StrictAccepted
<1> QED
  BY <1>1 DEF RawClassification, StrictAccepted

\* off-ledger is said of raw evidence that was falsified.
LEMMA OffLedgerMeansFalsified ==
  ASSUME NEW rows, NEW ledger,
         FinalClassification(RawClassification(rows, FALSE), ledger) = "off_ledger_difference"
  PROVE  ledger /\ Has(rows, "equivalence", "falsified")
<1>1. ledger /\ RawClassification(rows, FALSE) \in Difference
  BY DEF FinalClassification, RawClassification
<1> QED
  BY <1>1 DEF RawClassification, Difference, Has

\* Within the completion bound of both programs equal observations are equal
\* outcomes.
LEMMA CompleteMeansEqual ==
  ASSUME IInv, NEW m \in Model, ModelComplete(results[m])
  PROVE  AgreeOn(m) /\ world.domain[m] # {}
<1>1. /\ Holds(m, "equivalence") /\ Holds(m, "nonVacuity")
      /\ Holds(m, "old") /\ Holds(m, "new")
  BY DEF IInv, RowsHonest, Honest, ModelComplete, Has, Completion
<1>2. /\ \A i \in world.domain[m] : Observation("old", i) = Observation("new", i)
      /\ world.domain[m] # {}
      /\ \A i \in world.domain[m] : i \notin world.slow["old"] /\ i \notin world.slow["new"]
  BY <1>1 DEF Holds, Completion
<1> QED
  BY <1>2 DEF AgreeOn, Observation

(* What strict accepts is equivalent on a non-empty domain.                *)
THEOREM StrictStaysSound == Spec => []StrictIsSound
<1>1. IInv => StrictIsSound
  <2>1. ASSUME IInv, Classification \in StrictAccepted
        PROVE  AgreeOn("raw") /\ world.domain["raw"] # {}
    BY <2>1, AcceptedMeansComplete, CompleteMeansEqual DEF Classification, Raw, Model
  <2> QED
    BY <2>1 DEF StrictIsSound
<1> QED
  BY <1>1, Invariant, PTL

(* An off-ledger difference is one: nothing ledger-valid tells the         *)
(* programs apart, and something raw does.                                 *)
THEOREM OffLedgerStaysOffLedger == Spec => []OffLedgerIsOffLedger
<1>1. IInv => OffLedgerIsOffLedger
  <2>1. ASSUME IInv, Classification = "off_ledger_difference"
        PROVE  /\ AgreeOn("ledger") /\ world.domain["ledger"] # {}
               /\ ~ Holds("raw", "equivalence")
    <3>1. LedgerComplete /\ Has(results["raw"], "equivalence", "falsified")
      BY <2>1, OffLedgerMeansFalsified DEF Classification, Raw
    <3>2. ~ Holds("raw", "equivalence")
      BY <2>1, <3>1 DEF IInv, RowsHonest, Honest, Has, Model
    <3> QED
      BY <2>1, <3>1, <3>2, CompleteMeansEqual DEF LedgerComplete, Model
  <2> QED
    BY <2>1 DEF OffLedgerIsOffLedger
<1> QED
  BY <1>1, Invariant, PTL
=============================================================================
