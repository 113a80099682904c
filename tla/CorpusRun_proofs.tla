-------------------------- MODULE CorpusRun_proofs --------------------------
(***************************************************************************)
(* Safety of CorpusRun for any corpus, any number of jobs, calls and       *)
(* deaths: a result or a report that passes is true whatever was resumed,  *)
(* work is done on locked sources only, and finished results stay.         *)
(***************************************************************************)
EXTENDS CorpusRun, TLAPS

Active == {"pending", "staged", "locked", "compared", "compiled"}
Resuming == call.resume /\ ~call.force /\ call.only = {}

\* Where the tasks are: a lane has its own steps, a task that is done has a
\* result, nothing is on its way before the pool and after it, and what a
\* resumed call works on has no finished result.
Placed ==
  /\ \A t \in Task : stage[t] = "compared" => t \in Equivalence
  /\ \A t \in Task : stage[t] = "compiled" => t \in Direct
  /\ \A t \in Task : stage[t] = "done" => results[t] \in ResultFile
  /\ pc \in {"idle", "plan", "open"} => \A t \in Task : stage[t] = "none"
  /\ pc = "report" => \A t \in Task : stage[t] \in {"none", "done"}
  /\ Resuming => \A t \in Task : stage[t] \in Active => ~Finished(file[t])

\* The rows of a bundle are about the pairs of its task, and those that pass
\* are true.
RowsTrue ==
  \A t \in Equivalence :
    /\ Evaluated(t) \subseteq Pairs[t]
    /\ \A p \in Evaluated(t) : bundle[t].rows[p] = "pass" => p \notin differs

\* A result that passes speaks about pairs of its task, about one at least if
\* it has any, and about none that differ.
RowTrue(row, t) ==
  row \in ResultFile /\ row.strict =>
    /\ row.pairs \cap differs = {} /\ t \notin failing
    /\ row.immutable /\ t \notin meddling
    /\ t \in Equivalence =>
         row.pairs \subseteq Pairs[t] /\ (row.pairs = {} => Pairs[t] = {})
AllTrue == \A t \in Task : RowTrue(file[t], t) /\ RowTrue(results[t], t)

IInv == TypeOK /\ Placed /\ RowsTrue /\ AllTrue /\ SummaryTrue /\ SourcesPinned
-----------------------------------------------------------------------------
\* What stands for a file that is missing or cut short is no result.
LEMMA NoResult ==
  /\ NoFile \notin ResultFile /\ TornFile \notin ResultFile
  /\ ~Finished(NoFile) /\ ~Finished(TornFile)
BY DEF NoFile, TornFile, ResultFile, Class, Finished

\* A call that ends leaves no task and no result in memory.
LEMMA Ended ==
  ASSUME IInv, NEW value \in {"none", "raised", "plan failed", "pass", "fail"},
         End(value), UNCHANGED world
  PROVE  /\ pc' = "idle" /\ call' = NoCall /\ answer' = value
         /\ stage' \in [Task -> Stage] /\ results' = NoResults
         /\ call' \in [resume: BOOLEAN, force: BOOLEAN, only: SUBSET Pair, tasks: SUBSET Task]
         /\ results' \in [Task -> ResultFile \cup {NoFile}]
         /\ Placed' /\ SourcesPinned'
         /\ \A t \in Task : RowTrue(results[t], t)'
<1>1. /\ pc' = "idle" /\ call' = NoCall /\ answer' = value /\ ~NoCall.resume
      /\ stage' = [t \in Task |-> "none"] /\ results' = NoResults
  BY DEF End, NoCall
<1>2. Placed'
  BY <1>1 DEF Placed, Resuming
<1>3. \A t \in Task : RowTrue(results[t], t)'
  BY <1>1, NoResult DEF NoResults, RowTrue
<1> QED
  BY <1>1, <1>2, <1>3 DEF NoCall, NoResults, Stage, SourcesPinned

\* A call that ends without touching the disk.
LEMMA EndKeeps ==
  ASSUME IInv, NEW value \in {"none", "raised", "plan failed", "pass", "fail"},
         End(value), UNCHANGED <<world, disk, calls, faults>>
  PROVE  IInv'
<1>1. AllTrue'
  BY Ended DEF IInv, AllTrue, RowTrue, world, disk
<1>2. RowsTrue' /\ SummaryTrue'
  BY DEF IInv, RowsTrue, SummaryTrue, Evaluated, world, disk
<1> QED
  BY <1>1, <1>2, Ended DEF IInv, TypeOK, world, disk

\* The bundles and package copies as the steps of a task leave them.
BundlesFine ==
  /\ copied \subseteq Direct
  /\ bundle \in [Equivalence -> Bundle \cup {NoBundle}]
  /\ RowsTrue

\* A task is done: its result is written and kept.
LEMMA FinishKeeps ==
  ASSUME IInv, NEW t \in Task, pc = "pool", stage[t] \in Active,
         NEW row \in ResultFile, RowTrue(row, t), Finish(t, row), BundlesFine'
  PROVE  IInv'
<1>1. /\ file' = [file EXCEPT ![t] = row] /\ results' = [results EXCEPT ![t] = row]
      /\ stage' = [stage EXCEPT ![t] = "done"]
      /\ UNCHANGED <<world, checkout, root, report, pc, call, answer, calls, faults>>
  BY DEF Finish, To
<1>2. TypeOK'
  BY <1>1 DEF IInv, TypeOK, BundlesFine, Stage, world
<1>3. Placed'
  BY <1>1 DEF IInv, TypeOK, Placed, Resuming, Active
<1>4. AllTrue'
  BY <1>1 DEF IInv, TypeOK, AllTrue, RowTrue, world
<1>5. SummaryTrue' /\ SourcesPinned'
  BY <1>1 DEF IInv, SummaryTrue, SourcesPinned, world
<1> QED
  BY <1>2, <1>3, <1>4, <1>5 DEF IInv, BundlesFine

\* A task goes on to its next step.
LEMMA AdvanceKeeps ==
  ASSUME IInv, NEW t \in Task, pc = "pool", stage[t] \in Active,
         NEW place \in {"staged", "locked", "compared", "compiled"},
         place = "compared" => t \in Equivalence,
         place = "compiled" => t \in Direct,
         Advance(t, place), BundlesFine'
  PROVE  IInv'
<1>1. /\ stage' = [stage EXCEPT ![t] = place]
      /\ UNCHANGED <<world, checkout, root, file, report, pc, call, results, answer,
                     calls, faults>>
  BY DEF Advance, To
<1>2. TypeOK'
  BY <1>1 DEF IInv, TypeOK, BundlesFine, Stage, world
<1>3. Placed'
  BY <1>1 DEF IInv, TypeOK, Placed, Resuming, Active
<1>4. AllTrue' /\ SummaryTrue' /\ SourcesPinned'
  BY <1>1 DEF IInv, AllTrue, RowTrue, SummaryTrue, SourcesPinned, world
<1> QED
  BY <1>2, <1>3, <1>4 DEF IInv, BundlesFine

\* A result of a failure in the runner, or of a task that never got to judge.
LEMMA FailureTrue ==
  ASSUME NEW t \in Task, NEW class \in Class, NEW pairs \in SUBSET Pair
  PROVE  LET row == Result(class, FALSE, FALSE, pairs)
         IN  row \in ResultFile /\ RowTrue(row, t)
BY DEF Result, ResultFile, RowTrue

\* Steps that touch no bundle and no copy leave them fine.
LEMMA BundlesStay ==
  ASSUME IInv, UNCHANGED <<differs, copied, bundle>>
  PROVE  BundlesFine'
BY DEF IInv, TypeOK, BundlesFine, RowsTrue, Evaluated

\* The verdict of a lane: it is true, or the inputs are changed and it is not
\* given.
LEMMA JudgeKeeps ==
  ASSUME IInv, NEW t \in Task, pc = "pool", stage[t] \in Active,
         NEW class \in Class, NEW strict \in BOOLEAN, NEW pairs \in SUBSET Pair,
         strict => RowTrue(Result(class, strict, TRUE, pairs), t) \/ t \in meddling,
         Judge(t, class, strict, pairs), UNCHANGED <<copied, bundle>>
  PROVE  IInv'
<1>1. BundlesFine'
  BY BundlesStay DEF Judge, Finish, world
<1>2. CASE t \in meddling
  <2>1. Finish(t, Result("source_mutated", FALSE, FALSE, pairs))
    BY <1>2 DEF Judge
  <2> QED
    BY <1>1, <2>1, FinishKeeps, FailureTrue DEF Class
<1>3. CASE t \notin meddling
  <2>1. Finish(t, Result(class, strict, TRUE, pairs))
    BY <1>3 DEF Judge
  <2>2. RowTrue(Result(class, strict, TRUE, pairs), t)
    BY <1>3 DEF RowTrue, Result
  <2>3. Result(class, strict, TRUE, pairs) \in ResultFile
    BY DEF Result, ResultFile
  <2> QED
    BY <1>1, <2>1, <2>2, <2>3, FinishKeeps
<1> QED
  BY <1>2, <1>3
-----------------------------------------------------------------------------
LEMMA InitInv == Init => IInv
<1> SUFFICES ASSUME Init PROVE IInv
  OBVIOUS
<1>1. TypeOK
  <2>1. /\ file \in [Task -> ResultFile \cup {NoFile, TornFile}]
        /\ results \in [Task -> ResultFile \cup {NoFile}]
        /\ stage \in [Task -> Stage]
        /\ checkout \in [Source -> {"absent", "pinned", "other"}]
        /\ bundle \in [Equivalence -> Bundle \cup {NoBundle}]
    BY DEF Init, NoResults, Stage
  <2>2. call \in [resume: BOOLEAN, force: BOOLEAN, only: SUBSET Pair, tasks: SUBSET Task]
    BY DEF Init, NoCall
  <2>3. calls \in 0 .. MaxCalls /\ faults \in 0 .. MaxFaults
    BY CorpusAssumption DEF Init
  <2> QED
    BY <2>1, <2>2, <2>3 DEF Init, TypeOK
<1>2. Placed
  BY DEF Init, Placed, Resuming, NoCall
<1>3. RowsTrue
  BY DEF Init, RowsTrue, Evaluated
<1>4. AllTrue
  BY NoResult DEF Init, AllTrue, RowTrue, NoResults
<1>5. SummaryTrue /\ SourcesPinned
  BY DEF Init, SummaryTrue, SourcesPinned
<1> QED
  BY <1>1, <1>2, <1>3, <1>4, <1>5 DEF IInv

LEMMA CallInv == IInv /\ Call => IInv'
<1> SUFFICES ASSUME IInv, Call PROVE IInv'
  OBVIOUS
<1>1. PICK resume \in BOOLEAN, force \in BOOLEAN, only \in SUBSET Pair, tasks \in Selections :
        call' = [resume |-> resume, force |-> force, only |-> only, tasks |-> tasks]
  BY DEF Call
<1>2. tasks \in SUBSET Task
  BY CorpusAssumption
<1>3. TypeOK'
  <2>1. call' \in [resume: BOOLEAN, force: BOOLEAN, only: SUBSET Pair, tasks: SUBSET Task]
    BY <1>1, <1>2
  <2>2. calls' \in 0 .. MaxCalls
    <3>1. calls \in 0 .. MaxCalls /\ calls < MaxCalls /\ calls' = calls + 1
      BY DEF IInv, TypeOK, Call
    <3> QED
      BY <3>1, CorpusAssumption
  <2> QED
    BY <2>1, <2>2 DEF IInv, TypeOK, Call, world, disk
<1>4. Placed'
  BY DEF IInv, TypeOK, Placed, Call, Active
<1>5. RowsTrue' /\ AllTrue' /\ SummaryTrue' /\ SourcesPinned'
  BY DEF IInv, Call, RowsTrue, Evaluated, AllTrue, RowTrue, SummaryTrue, SourcesPinned,
         world, disk
<1> QED
  BY <1>3, <1>4, <1>5 DEF IInv

LEMMA PlanInv == IInv /\ Plan => IInv'
<1> SUFFICES ASSUME IInv, NEW s \in Source, Materialize(s),
                    UNCHANGED <<world, root, file, copied, bundle, report, calls, faults>>
             PROVE  IInv'
  BY DEF Plan
<1>1. CASE UNCHANGED checkout /\ End("plan failed")
  BY <1>1, EndKeeps DEF disk
<1>2. CASE /\ pc = "plan" /\ checkout' = [checkout EXCEPT ![s] = "pinned"]
           /\ UNCHANGED <<pc, call, stage, results, answer>>
  <2>1. TypeOK'
    BY <1>2 DEF IInv, TypeOK, world
  <2>2. Placed' /\ RowsTrue' /\ AllTrue' /\ SummaryTrue' /\ SourcesPinned'
    BY <1>2 DEF IInv, Placed, Resuming, RowsTrue, Evaluated, AllTrue, RowTrue, SummaryTrue,
                SourcesPinned, world
  <2> QED
    BY <2>1, <2>2 DEF IInv
<1>3. CASE /\ pc = "plan" /\ \A u \in Source : checkout[u] = "pinned"
           /\ pc' = "open" /\ UNCHANGED <<checkout, call, stage, results, answer>>
  <2>1. TypeOK'
    BY <1>3 DEF IInv, TypeOK, world
  <2>2. Placed'
    BY <1>3 DEF IInv, Placed, Resuming, Active
  <2>3. RowsTrue' /\ AllTrue' /\ SummaryTrue' /\ SourcesPinned'
    BY <1>3 DEF IInv, RowsTrue, Evaluated, AllTrue, RowTrue, SummaryTrue, SourcesPinned, world
  <2> QED
    BY <2>1, <2>2, <2>3 DEF IInv
<1> QED
  BY <1>1, <1>2, <1>3 DEF Materialize

LEMMA RefuseInv == IInv /\ Refuse => IInv'
<1> SUFFICES ASSUME IInv, Refuse PROVE IInv'
  OBVIOUS
<1> QED
  BY EndKeeps DEF Refuse, Raises, disk

LEMMA OpenInv == IInv /\ Open => IInv'
<1> SUFFICES ASSUME IInv, Open PROVE IInv'
  OBVIOUS
<1>1. PICK tasks \in SUBSET Task :
        /\ stage' = [t \in Task |-> IF t \notin tasks THEN "none"
                                    ELSE IF TakenOver(t) THEN "done" ELSE "pending"]
        /\ results' = [t \in Task |-> IF t \in tasks /\ TakenOver(t) THEN file[t] ELSE NoFile]
  <2>1. call.tasks \subseteq Task /\ Matched \subseteq Task
    BY DEF IInv, TypeOK, Matched
  <2> QED
    BY <2>1 DEF Open
<1>2. \A t \in Task : TakenOver(t) => file[t] \in ResultFile
  BY DEF TakenOver, Finished
<1>3. TypeOK'
  BY <1>1, <1>2 DEF IInv, TypeOK, Open, Stage, world
<1>4. Placed'
  BY <1>1, <1>2 DEF IInv, Placed, Open, Resuming, Active, TakenOver
<1>5. AllTrue'
  BY <1>1, NoResult DEF IInv, Open, AllTrue, RowTrue, world
<1>6. RowsTrue' /\ SummaryTrue' /\ SourcesPinned'
  BY DEF IInv, Open, RowsTrue, Evaluated, SummaryTrue, SourcesPinned, world
<1> QED
  BY <1>3, <1>4, <1>5, <1>6 DEF IInv

LEMMA StartInv == ASSUME IInv, NEW t \in Task, Start(t) \/ MaterializeLock(t) PROVE IInv'
<1>1. BundlesFine'
  BY BundlesStay DEF Start, MaterializeLock, Advance, Finish, world
<1>2. pc = "pool" /\ stage[t] \in Active
  BY DEF Start, MaterializeLock, Active
<1>3. \/ Advance(t, "staged") \/ Advance(t, "locked")
      \/ Finish(t, Result("not_ready", FALSE, FALSE, {}))
  BY DEF Start, MaterializeLock
<1> QED
  BY <1>1, <1>2, <1>3, AdvanceKeeps, FinishKeeps, FailureTrue DEF Class

LEMMA CompareInv == ASSUME IInv, NEW t \in Task, Compare(t) PROVE IInv'
<1>1. pc = "pool" /\ stage[t] \in Active /\ t \in Equivalence /\ UNCHANGED <<differs, copied>>
  BY DEF Compare, Active, RunnerError, Advance, Finish, world
<1>2. ASSUME bundle' = [bundle EXCEPT ![t] = [rows |-> NoRows]] PROVE BundlesFine'
  BY <1>1, <1>2 DEF IInv, TypeOK, BundlesFine, Bundle, RowsTrue, Evaluated, NoRows
<1>3. ASSUME NEW rows \in [Pairs[t] -> {"pass", "fail"}],
             \A p \in Pairs[t] : rows[p] = "pass" => p \notin differs,
             bundle' = [bundle EXCEPT ![t] = [rows |-> rows]]
      PROVE  BundlesFine'
  <2>1. rows \in Rows
    BY <1>1 DEF Rows
  <2> QED
    BY <1>1, <1>3, <2>1 DEF IInv, TypeOK, BundlesFine, Bundle, RowsTrue, Evaluated
<1>4. CASE RunnerError(t) /\ bundle' = [bundle EXCEPT ![t] = [rows |-> NoRows]]
  BY <1>1, <1>2, <1>4, FinishKeeps, FailureTrue DEF RunnerError, Class
<1>5. CASE Advance(t, "compared")
  <2>1. BundlesFine'
    BY <1>2, <1>3, <1>5 DEF Compare, RunnerError, Finish, Advance, To
  <2> QED
    BY <1>1, <1>5, <2>1, AdvanceKeeps
<1> QED
  BY <1>4, <1>5 DEF Compare

LEMMA JudgePairsInv == ASSUME IInv, NEW t \in Task, JudgePairs(t) PROVE IInv'
<1> DEFINE judged == IF call.only = {} THEN Evaluated(t) ELSE Evaluated(t) \cap call.only
           Verdict(clean) ==
             \/ clean /\ judged # {} /\ \A p \in judged : bundle[t].rows[p] = "pass"
             \/ clean /\ Pairs[t] = {} /\ t \notin Required
<1>1. PICK clean \in BOOLEAN :
        Judge(t, IF Verdict(clean) THEN "passed" ELSE "failed", Verdict(clean), judged)
  BY DEF JudgePairs
<1>2. /\ pc = "pool" /\ stage[t] = "compared" /\ stage[t] \in Active
      /\ t \in Equivalence /\ t \notin failing
  BY DEF IInv, TypeOK, Placed, JudgePairs, Active, Direct
<1>3. judged \subseteq Pairs[t] /\ judged \subseteq Evaluated(t) /\ judged \in SUBSET Pair
  BY <1>2 DEF IInv, RowsTrue, Pair
<1>4. Verdict(clean) \in BOOLEAN
  OBVIOUS
<1>5. ASSUME Verdict(clean), t \notin meddling
      PROVE  RowTrue(Result(IF Verdict(clean) THEN "passed" ELSE "failed",
                            Verdict(clean), TRUE, judged), t)
  <2>1. judged \cap differs = {} /\ (judged = {} => Pairs[t] = {})
    BY <1>2, <1>3, <1>5 DEF IInv, RowsTrue
  <2> HIDE DEF judged, Verdict
  <2> QED
    BY <1>2, <1>3, <1>5, <2>1 DEF RowTrue, Result
<1> HIDE DEF judged, Verdict
<1>6. UNCHANGED <<copied, bundle>>
  BY DEF JudgePairs
<1>7. (IF Verdict(clean) THEN "passed" ELSE "failed") \in Class
  BY DEF Class
<1> QED
  BY <1>1, <1>2, <1>3, <1>4, <1>5, <1>6, <1>7, JudgeKeeps

LEMMA CompileInv == ASSUME IInv, NEW t \in Task, Compile(t) PROVE IInv'
<1>1. pc = "pool" /\ stage[t] \in Active /\ t \in Direct /\ UNCHANGED <<differs, bundle>>
  BY DEF Compile, Active, RunnerError, Advance, Finish, world
<1>2. BundlesFine'
  BY <1>1 DEF IInv, TypeOK, Compile, BundlesFine, RowsTrue, Evaluated
<1>3. RunnerError(t) \/ Advance(t, "compiled")
  BY DEF Compile
<1> QED
  BY <1>1, <1>2, <1>3, AdvanceKeeps, FinishKeeps, FailureTrue DEF RunnerError, Class

LEMMA JudgeLaneInv == ASSUME IInv, NEW t \in Task, JudgeLane(t) PROVE IInv'
<1>1. PICK strict \in BOOLEAN :
        /\ strict => t \notin failing
        /\ Judge(t, IF strict THEN "passed" ELSE "failed", strict, {})
  BY DEF JudgeLane
<1>2. pc = "pool" /\ stage[t] \in Active /\ t \notin Equivalence
  BY DEF IInv, Placed, JudgeLane, Active, Direct
<1>3. t \notin meddling /\ strict =>
        RowTrue(Result(IF strict THEN "passed" ELSE "failed", strict, TRUE, {}), t)
  BY <1>1, <1>2 DEF RowTrue, Result
<1>4. UNCHANGED <<copied, bundle>>
  BY DEF JudgeLane
<1>5. (IF strict THEN "passed" ELSE "failed") \in Class /\ {} \in SUBSET Pair
  BY DEF Class
<1> QED
  BY <1>1, <1>2, <1>3, <1>4, <1>5, JudgeKeeps

LEMMA GatherInv == IInv /\ Gather => IInv'
<1> SUFFICES ASSUME IInv, Gather PROVE IInv'
  OBVIOUS
<1>1. TypeOK'
  BY DEF IInv, TypeOK, Gather, world, disk
<1>2. Placed'
  BY DEF IInv, Placed, Gather, Selected, Resuming, Active, world, disk
<1>3. RowsTrue' /\ AllTrue' /\ SummaryTrue' /\ SourcesPinned'
  BY DEF IInv, Gather, RowsTrue, Evaluated, AllTrue, RowTrue, SummaryTrue, SourcesPinned,
         world, disk
<1> QED
  BY <1>1, <1>2, <1>3 DEF IInv

LEMMA ReportInv == IInv /\ Report => IInv'
<1> SUFFICES ASSUME IInv, Report PROVE IInv'
  OBVIOUS
<1>1. PICK value \in {"pass", "fail", "raised"} : End(value)
  BY DEF Report
<1>2. CASE UNCHANGED report
  BY <1>1, <1>2, EndKeeps DEF Report, disk
<1>3. CASE report' = [strict |-> StrictPass, tasks |-> Selected]
  <2>1. StrictPass \in BOOLEAN /\ Selected \subseteq Task
    BY DEF StrictPass, Selected
  <2>2. StrictPass =>
          /\ Selected # {}
          /\ \A t \in Selected : results[t] \in ResultFile /\ results[t].strict
    BY DEF IInv, Placed, Report, StrictPass, Selected
  <2>3. StrictPass =>
          /\ Selected \cap (failing \cup meddling) = {}
          /\ \A t \in Selected \cap Equivalence :
               Pairs[t] = {} \/ ~(Pairs[t] \subseteq differs)
    BY <2>1, <2>2 DEF IInv, AllTrue, RowTrue
  <2> HIDE DEF StrictPass, Selected
  <2>4. SummaryTrue'
    BY <1>3, <2>1, <2>2, <2>3 DEF Report, SummaryTrue, world
  <2>5. AllTrue' /\ RowsTrue'
    BY <1>1, Ended DEF IInv, Report, AllTrue, RowTrue, RowsTrue, Evaluated, world
  <2>6. TypeOK'
    BY <1>1, <1>3, <2>1, Ended DEF IInv, TypeOK, Report, world
  <2> QED
    BY <1>1, <2>4, <2>5, <2>6, Ended DEF IInv, Report
<1> QED
  BY <1>2, <1>3 DEF Report

LEMMA CrashInv == IInv /\ Crash => IInv'
<1> SUFFICES ASSUME IInv, Crash PROVE IInv'
  OBVIOUS
<1>1. End("none") /\ UNCHANGED world
  BY DEF Crash
<1>2. /\ file' \in [Task -> ResultFile \cup {NoFile, TornFile}]
      /\ \A t \in Task : file'[t] = file[t] \/ file'[t] = TornFile
  BY DEF IInv, TypeOK, Crash, Running
<1>3. /\ bundle' \in [Equivalence -> Bundle \cup {NoBundle}]
      /\ \A t \in Equivalence : bundle'[t] = bundle[t] \/ bundle'[t] = [rows |-> NoRows]
  <2>1. \/ bundle' = bundle
        \/ \E t \in Equivalence : bundle' = [bundle EXCEPT ![t] = [rows |-> NoRows]]
    BY DEF Crash
  <2>2. [rows |-> NoRows] \in Bundle
    BY DEF Bundle
  <2> QED
    BY <2>1, <2>2 DEF IInv, TypeOK
<1>4. checkout' \in [Source -> {"absent", "pinned", "other"}] /\ faults' \in 0 .. MaxFaults
  <2>1. \/ checkout' = checkout
        \/ \E s \in Source : checkout' = [checkout EXCEPT ![s] = "other"]
    BY DEF Crash
  <2>2. faults' \in 0 .. MaxFaults
    <3>1. faults \in 0 .. MaxFaults /\ faults < MaxFaults /\ faults' = faults + 1
      BY DEF IInv, TypeOK, Crash
    <3> QED
      BY <3>1, CorpusAssumption
  <2> QED
    BY <2>1, <2>2 DEF IInv, TypeOK
<1>5. report' = report \/ report' = NoReport
  BY DEF Crash
<1>6. TypeOK'
  BY <1>1, <1>2, <1>3, <1>4, <1>5, Ended DEF IInv, TypeOK, Crash, world
<1>7. RowsTrue'
  <2>1. ASSUME NEW t \in Equivalence
        PROVE  Evaluated(t)' = {} \/ (bundle'[t] = bundle[t] /\ Evaluated(t)' = Evaluated(t))
    BY <1>3 DEF Evaluated, NoRows
  <2> QED
    BY <1>1, <2>1 DEF IInv, RowsTrue, world
<1>8. AllTrue'
  BY <1>1, <1>2, Ended, NoResult DEF IInv, AllTrue, RowTrue, world
<1>9. SummaryTrue'
  BY <1>1, <1>5 DEF IInv, SummaryTrue, world
<1> QED
  BY <1>1, <1>6, <1>7, <1>8, <1>9, Ended DEF IInv

LEMMA StutterInv == IInv /\ UNCHANGED vars => IInv'
<1> SUFFICES ASSUME IInv, UNCHANGED vars PROVE IInv'
  OBVIOUS
<1>1. TypeOK'
  BY DEF IInv, TypeOK, vars, world, disk, local
<1>2. Placed' /\ RowsTrue' /\ AllTrue' /\ SummaryTrue' /\ SourcesPinned'
  BY DEF IInv, Placed, Resuming, RowsTrue, Evaluated, AllTrue, RowTrue, SummaryTrue,
         SourcesPinned, vars, world, disk, local
<1> QED
  BY <1>1, <1>2 DEF IInv

\* The invariant holds in every state of every execution.
THEOREM Invariant == Spec => []IInv
<1>1. IInv /\ [Next]_vars => IInv'
  BY CallInv, PlanInv, RefuseInv, OpenInv, StartInv, CompareInv, JudgePairsInv, CompileInv,
     JudgeLaneInv, GatherInv, ReportInv, CrashInv, StutterInv DEF Next, Step, Work
<1> QED
  BY InitInv, <1>1, PTL DEF Spec
-----------------------------------------------------------------------------
\* The variables of run_corpus have their types.
THEOREM TypesCorrect == Spec => []TypeOK
BY Invariant, PTL DEF IInv

\* A result file that says strict_pass is true of the pairs it speaks about,
\* with any number of tasks, threads, calls and deaths (_execute_task).
THEOREM ResultsAreTrue == Spec => []ResultsTrue
<1>1. IInv => ResultsTrue
  BY DEF IInv, AllTrue, RowTrue, ResultsTrue
<1> QED
  BY Invariant, <1>1, PTL

\* A passing summary.json covers no task that failed, was meddled with, or has
\* only pairs that differ (run_corpus).
THEOREM SummaryIsTrue == Spec => []SummaryTrue
BY Invariant, PTL DEF IInv

\* Tasks work on sources at their locked revisions (_materialize_source).
THEOREM SourcesArePinned == Spec => []SourcesPinned
BY Invariant, PTL DEF IInv

\* A resumed call that selects no pairs leaves finished results alone
\* (run_corpus).
THEOREM FinishedResultsStay == Spec => FinishedStay
<1> DEFINE Stays(t) == Finished(file[t]) /\ Resuming => file'[t] = file[t]
<1>1. ASSUME IInv, Next, NEW t \in Task PROVE Stays(t)
  <2>1. CASE \E u \in Task : Work(u)
    <3>1. PICK u \in Task : Work(u)
      BY <2>1
    <3>2. stage[u] \in Active /\ (file' = file \/ \E row : file' = [file EXCEPT ![u] = row])
      BY <3>1 DEF Work, Start, MaterializeLock, Compare, JudgePairs, Compile, JudgeLane, Judge,
                  RunnerError, Finish, Advance, Active
    <3> QED
      BY <1>1, <3>2 DEF IInv, TypeOK, Placed
  <2>2. CASE Crash
    <3>1. file' = file \/ \E u \in Running : file' = [file EXCEPT ![u] = TornFile]
      BY <2>2 DEF Crash
    <3> QED
      BY <1>1, <3>1 DEF IInv, TypeOK, Placed, Running, Active
  <2>3. CASE Call \/ Plan \/ Refuse \/ Open \/ Gather \/ Report
    BY <2>3 DEF Call, Plan, Refuse, Raises, Open, Gather, Report, disk
  <2> QED
    BY <1>1, <2>1, <2>2, <2>3 DEF Next, Step
<1>2. ASSUME IInv, [Next]_vars
      PROVE  [\A t \in Task : Finished(file[t]) /\ call.resume /\ ~call.force /\ call.only = {}
                 => file'[t] = file[t]]_vars
  BY <1>1, <1>2 DEF Resuming
<1> QED
  BY Invariant, <1>2, PTL DEF Spec, FinishedStay
=============================================================================
