------------------------------ MODULE CorpusRun ------------------------------
(***************************************************************************)
(* run_corpus of corpus.py: a locked corpus of sources and tasks, run with *)
(* a pool of jobs, again and again in the same directory                   *)
(* corpus-runs/<run id>, with --resume, --force, --only-pair and           *)
(* selections of tasks (--only, shards).  compare_package (PackageRun) is  *)
(* taken by what it promises: a bundle whose rows are true of the pairs.   *)
(* What is true of the programs is fixed in the beginning: `differs` are   *)
(* the pairs that are not equivalent, `failing` the tasks of the other     *)
(* lanes that a compiler fails, `meddling` the tasks whose compilers       *)
(* change the package they are given.                                      *)
(***************************************************************************)
EXTENDS Naturals, FiniteSets

CONSTANTS
  Source,      \* locked repositories
  Task,        \* the tasks of the plan: a target and a lane of a source
  SourceOf,    \* [Task -> Source]
  Equivalence, \* the tasks of the equivalence lane
  Required,    \* the tasks with equivalence_required
  Pairs,       \* [Equivalence -> set of program pairs of its package]
  Selections,  \* the sets of tasks that --only or a shard may select
  Jobs,        \* --jobs
  MaxCalls,    \* bound: calls of run_corpus
  MaxFaults    \* bound: deaths of its process

ASSUME CorpusAssumption ==
  /\ SourceOf \in [Task -> Source]
  /\ Equivalence \subseteq Task /\ DOMAIN Pairs = Equivalence
  /\ Selections \subseteq SUBSET Task
  /\ Jobs \in Nat \ {0} /\ MaxCalls \in Nat /\ MaxFaults \in Nat

Pair == UNION {Pairs[t] : t \in Equivalence}
Direct == Task \ Equivalence

VARIABLES
  differs, failing, meddling,
  checkout,    \* corpus-sources/<source>: absent, at the revision, or neither
  root,        \* corpus-runs/<run id> exists
  file,        \* tasks/<task>/result.json
  copied,      \* tasks whose directory has a <compiler>/package copy
  bundle,      \* the bundle of each equivalence task, or NoBundle
  report,      \* summary.json, or NoReport
  pc, call,    \* the place in run_corpus; its resume, force, only_pair, selection
  stage,       \* where each selected task is
  results,     \* results
  answer,      \* what the last call returned
  calls, faults

world == <<differs, failing, meddling>>
disk == <<checkout, root, file, copied, bundle, report>>
local == <<pc, call, stage, results>>
vars == <<world, disk, local, answer, calls, faults>>

Class == {"passed", "failed", "not_ready", "source_mutated", "runner_error"}
\* `pairs` is what a result speaks about: all pairs, or the --only-pair ones.
ResultFile == [class: Class, strict: BOOLEAN, immutable: BOOLEAN, pairs: SUBSET Pair]
NoFile == [class |-> "none"]
TornFile == [class |-> "torn"]
\* A bundle; `rows` is empty when the builds failed or the call was cut short.
NoRows == [p \in {} |-> "pass"]
Rows == UNION {[Pairs[t] -> {"pass", "fail"}] : t \in Equivalence}
Bundle == [rows: Rows \cup {NoRows}]
NoBundle == [absent |-> TRUE]
NoReport == [strict |-> "none"]
NoCall == [resume |-> FALSE, force |-> FALSE, only |-> {}, tasks |-> {}]
NoResults == [t \in Task |-> NoFile]

Stage == {"none", "pending", "staged", "locked", "compared", "compiled", "done"}
TypeOK ==
  /\ differs \subseteq Pair /\ failing \subseteq Direct /\ meddling \subseteq Task
  /\ checkout \in [Source -> {"absent", "pinned", "other"}]
  /\ root \in BOOLEAN
  /\ file \in [Task -> ResultFile \cup {NoFile, TornFile}]
  /\ copied \subseteq Direct
  /\ bundle \in [Equivalence -> Bundle \cup {NoBundle}]
  /\ report \in [strict: BOOLEAN, tasks: SUBSET Task] \cup {NoReport}
  /\ pc \in {"idle", "plan", "open", "pool", "report"}
  /\ call \in [resume: BOOLEAN, force: BOOLEAN, only: SUBSET Pair, tasks: SUBSET Task]
  /\ stage \in [Task -> Stage]
  /\ results \in [Task -> ResultFile \cup {NoFile}]
  /\ answer \in {"none", "raised", "plan failed", "pass", "fail"}
  /\ calls \in 0..MaxCalls /\ faults \in 0..MaxFaults

Init ==
  /\ differs \in SUBSET Pair /\ failing \in SUBSET Direct
  /\ meddling \in {s \in SUBSET Task : Cardinality(s) <= 1}
  /\ checkout = [s \in Source |-> "absent"] /\ root = FALSE
  /\ file = NoResults /\ copied = {} /\ bundle = [t \in Equivalence |-> NoBundle]
  /\ report = NoReport
  /\ pc = "idle" /\ call = NoCall
  /\ stage = [t \in Task |-> "none"] /\ results = NoResults
  /\ answer = "none" /\ calls = 0 /\ faults = 0

-----------------------------------------------------------------------------
(* A call: the plan, and the choice of the tasks. *)

Call ==
  /\ pc = "idle" /\ calls < MaxCalls /\ calls' = calls + 1
  /\ \E resume, force \in BOOLEAN, only \in SUBSET Pair, tasks \in Selections :
       call' = [resume |-> resume, force |-> force, only |-> only, tasks |-> tasks]
  /\ pc' = "plan" /\ answer' = "none"
  /\ UNCHANGED <<world, disk, stage, results, faults>>

End(value) ==
  /\ pc' = "idle" /\ call' = NoCall /\ answer' = value
  /\ stage' = [t \in Task |-> "none"] /\ results' = NoResults

\* Mutation: a checkout that is there is taken without a look at its HEAD.
MaterializeTrusting(s) ==
  \/ /\ pc = "plan" /\ checkout[s] = "absent"
     /\ checkout' = [checkout EXCEPT ![s] = "pinned"]
     /\ UNCHANGED <<pc, call, stage, results, answer>>
  \/ /\ pc = "plan" /\ \A u \in Source : checkout[u] # "absent"
     /\ pc' = "open"
     /\ UNCHANGED <<checkout, call, stage, results, answer>>

\* _materialize_source.  A failed clone or checkout is removed; a checkout
\* that another process left is used at the locked revision only.
Materialize(s) ==
  \/ /\ pc = "plan" /\ checkout[s] = "absent"
     /\ \/ /\ checkout' = [checkout EXCEPT ![s] = "pinned"]
           /\ UNCHANGED <<pc, call, stage, results, answer>>
        \/ End("plan failed") /\ UNCHANGED checkout
  \/ /\ pc = "plan" /\ checkout[s] = "other"
     /\ End("plan failed") /\ UNCHANGED checkout
  \/ /\ pc = "plan" /\ \A u \in Source : checkout[u] = "pinned"
     /\ pc' = "open"
     /\ UNCHANGED <<checkout, call, stage, results, answer>>

Plan ==
  /\ \E s \in Source : Materialize(s)
  /\ UNCHANGED <<world, root, file, copied, bundle, report, calls, faults>>

Raises ==
  /\ End("raised")
  /\ UNCHANGED <<world, checkout, root, file, copied, bundle, report, calls, faults>>

Refused ==
  \/ root /\ ~(call.resume \/ call.force)
  \/ call.only # {} /\ (~root \/ ~(call.resume \/ call.force))

\* The pairs of pair-results.json.
Evaluated(t) == IF bundle[t] = NoBundle THEN {} ELSE DOMAIN bundle[t].rows

\* The tasks with finished evidence for one of the requested pairs.
Matched ==
  {t \in call.tasks \cap Equivalence :
     /\ file[t] \in ResultFile /\ file[t].class \in {"passed", "failed", "source_mutated"}
     /\ call.only \cap Evaluated(t) # {}}

\* A result file that was cut short cannot be read, in search of the pairs.
MayNarrow ==
  /\ \A t \in call.tasks \cap Equivalence : file[t] # TornFile
  /\ call.only \subseteq UNION {Pairs[t] : t \in Matched}

Refuse ==
  /\ pc = "open"
  /\ \/ Refused
     \/ call.only # {} /\ ~MayNarrow
  /\ Raises

Finished(row) == row \in ResultFile /\ row.class # "runner_error"

\* Mutations: a result that was cut short is taken over; a failed one is not.
TakenOverIfThere(t) == call.resume /\ ~call.force /\ call.only = {} /\ file[t] # NoFile
TakenOverIfPassed(t) ==
  call.resume /\ ~call.force /\ call.only = {} /\ file[t] # NoFile /\ file[t].class = "passed"

\* The results a resumed call takes over.
TakenOver(t) == call.resume /\ ~call.force /\ call.only = {} /\ Finished(file[t])

Open ==
  /\ pc = "open" /\ ~Refused
  /\ call.only # {} => MayNarrow
  /\ LET tasks == IF call.only = {} THEN call.tasks ELSE Matched
     IN  /\ stage' = [t \in Task |-> IF t \notin tasks THEN "none"
                                     ELSE IF TakenOver(t) THEN "done" ELSE "pending"]
         /\ results' = [t \in Task |-> IF t \in tasks /\ TakenOver(t) THEN file[t] ELSE NoFile]
  /\ root' = TRUE /\ pc' = "pool"
  /\ UNCHANGED <<world, checkout, file, copied, bundle, report, call, answer, calls, faults>>

-----------------------------------------------------------------------------
(* One task, in a thread of the pool. *)

Running == {t \in Task : stage[t] \in {"staged", "locked", "compared", "compiled"}}
To(t, place) == stage' = [stage EXCEPT ![t] = place]
Finish(t, row) ==
  /\ file' = [file EXCEPT ![t] = row] /\ results' = [results EXCEPT ![t] = row]
  /\ To(t, "done")
  /\ UNCHANGED <<world, checkout, root, report, pc, call, answer, calls, faults>>
Advance(t, place) ==
  /\ To(t, place)
  /\ UNCHANGED <<world, checkout, root, file, report, pc, call, results, answer,
                 calls, faults>>

Result(class, strict, immutable, pairs) ==
  [class |-> class, strict |-> strict, immutable |-> immutable, pairs |-> pairs]

RunnerError(t) == Finish(t, Result("runner_error", FALSE, FALSE, {}))

\* _apply_adapter: the staged source is made anew.
Start(t) ==
  /\ pc = "pool" /\ stage[t] = "pending" /\ Cardinality(Running) < Jobs
  /\ \/ Advance(t, "staged")
     \/ Finish(t, Result("not_ready", FALSE, FALSE, {}))
  /\ UNCHANGED <<copied, bundle>>

\* _materialize_dependency_lock
MaterializeLock(t) ==
  /\ pc = "pool" /\ stage[t] = "staged"
  /\ \/ Advance(t, "locked")
     \/ Finish(t, Result("not_ready", FALSE, FALSE, {}))
  /\ UNCHANGED <<copied, bundle>>

\* compare_package, which is only called with a bundle there when --resume or
\* --force was given.  The builds may fail or the call raise, which leaves a
\* bundle without rows; with --only-pair the other pairs keep their rows.
Compare(t) ==
  /\ pc = "pool" /\ stage[t] = "locked" /\ t \in Equivalence
  /\ LET Kept(p) == call.only # {} /\ p \notin call.only
     IN  \/ RunnerError(t) /\ bundle' = [bundle EXCEPT ![t] = [rows |-> NoRows]]
         \/ Advance(t, "compared") /\ bundle' = [bundle EXCEPT ![t] = [rows |-> NoRows]]
         \/ /\ call.only \subseteq Pairs[t]
            /\ \E rows \in [Pairs[t] -> {"pass", "fail"}] :
                 /\ \A p \in Pairs[t] : rows[p] = "pass" => p \notin differs
                 /\ \A p \in Evaluated(t) : Kept(p) => rows[p] = bundle[t].rows[p]
                 /\ bundle' = [bundle EXCEPT ![t] = [rows |-> rows]]
            /\ Advance(t, "compared")
  /\ UNCHANGED copied

\* Mutation: the verdict is given before the inputs are compared.
JudgeUnchecked(t, class, strict, pairs) ==
  Finish(t, Result(class, strict, t \notin meddling, pairs))

\* The inputs are hashed again: changed ones overrule the verdict.
Judge(t, class, strict, pairs) ==
  IF t \in meddling
  THEN Finish(t, Result("source_mutated", FALSE, FALSE, pairs))
  ELSE Finish(t, Result(class, strict, TRUE, pairs))

\* The lane's own verdict, on the rows asked for; a package without
\* validators need not have any.  `clean`: the package has no gaps.
JudgePairs(t) ==
  /\ pc = "pool" /\ stage[t] = "compared"
  /\ LET judged == IF call.only = {} THEN Evaluated(t) ELSE Evaluated(t) \cap call.only
     IN  \E clean \in BOOLEAN :
           LET strict == \/ clean /\ judged # {} /\ \A p \in judged : bundle[t].rows[p] = "pass"
                         \/ clean /\ Pairs[t] = {} /\ t \notin Required
           IN  Judge(t, IF strict THEN "passed" ELSE "failed", strict, judged)
  /\ UNCHANGED <<copied, bundle>>

\* _run_lane_compiler, for both compilers: a copy of the package that is there
\* already is an error.
Compile(t) ==
  /\ pc = "pool" /\ stage[t] = "locked" /\ t \in Direct
  /\ IF t \in copied THEN RunnerError(t) /\ UNCHANGED copied
     ELSE copied' = copied \cup {t} /\ Advance(t, "compiled")
  /\ UNCHANGED bundle

\* A process that times out fails as well.
JudgeLane(t) ==
  /\ pc = "pool" /\ stage[t] = "compiled"
  /\ \E strict \in BOOLEAN :
       /\ strict => t \notin failing
       /\ Judge(t, IF strict THEN "passed" ELSE "failed", strict, {})
  /\ UNCHANGED <<copied, bundle>>

Work(t) ==
  Start(t) \/ MaterializeLock(t) \/ Compare(t) \/ JudgePairs(t) \/ Compile(t) \/ JudgeLane(t)

-----------------------------------------------------------------------------
(* The report. *)

Selected == {t \in Task : stage[t] # "none"}
Gather ==
  /\ pc = "pool" /\ \A t \in Selected : stage[t] = "done"
  /\ pc' = "report"
  /\ UNCHANGED <<world, disk, call, stage, results, answer, calls, faults>>

\* Mutation: one task that passes is enough.
StrictPassOfAny == \E t \in Selected : results[t].strict

StrictPass == Selected # {} /\ \A t \in Selected : results[t].strict

\* A pair's rows are looked for again; one that is gone raises.
Found == UNION {Evaluated(t) : t \in {u \in Selected \cap Equivalence : Finished(results[u])}}
Report ==
  /\ pc = "report"
  /\ IF call.only \subseteq Found
     THEN /\ End(IF StrictPass THEN "pass" ELSE "fail")
          /\ report' = IF call.only # {} THEN report
                       ELSE [strict |-> StrictPass, tasks |-> Selected]
     ELSE End("raised") /\ UNCHANGED report
  /\ UNCHANGED <<world, checkout, root, file, copied, bundle, calls, faults>>

\* The process dies: results that were being written are torn, a clone may be
\* left without its revision.
Crash ==
  /\ pc # "idle" /\ faults < MaxFaults /\ faults' = faults + 1
  /\ \/ /\ \E t \in Running : file' = [file EXCEPT ![t] = TornFile]
        /\ UNCHANGED <<checkout, report, bundle>>
     \/ /\ \E t \in Running \cap Equivalence :
             stage[t] = "locked" /\ bundle' = [bundle EXCEPT ![t] = [rows |-> NoRows]]
        /\ UNCHANGED <<checkout, report, file>>
     \/ /\ pc = "plan"
        /\ \E s \in Source : checkout[s] = "absent" /\ checkout' = [checkout EXCEPT ![s] = "other"]
        /\ UNCHANGED <<file, report, bundle>>
     \/ /\ pc = "report" /\ call.only = {} /\ report' = NoReport
        /\ UNCHANGED <<checkout, file, bundle>>
     \/ UNCHANGED <<checkout, file, report, bundle>>
  /\ End("none")
  /\ UNCHANGED <<world, root, copied, calls>>

Step == Plan \/ Refuse \/ Open \/ (\E t \in Task : Work(t)) \/ Gather \/ Report
Next == Call \/ Step \/ Crash
Spec == Init /\ [][Next]_vars

-----------------------------------------------------------------------------
(* What a corpus run promises. *)

\* A result that says strict_pass is true of what it speaks about, whatever was
\* resumed or cut short, and its inputs were those that were hashed
\* (corpus.py 1093-1107, 888-906).
ResultsTrue ==
  \A t \in Task : file[t] \in ResultFile /\ file[t].strict =>
    /\ file[t].pairs \cap differs = {} /\ t \notin failing
    /\ file[t].immutable /\ t \notin meddling

\* A passing summary.json has a task, and none of its tasks was failed by a
\* compiler, meddled with, or judged on a pair that differs (1176-1203).
SummaryTrue ==
  report # NoReport /\ report.strict = TRUE =>
    /\ report.tasks # {}
    /\ report.tasks \cap (failing \cup meddling) = {}
    /\ \A t \in report.tasks \cap Equivalence :
         Pairs[t] = {} \/ ~(Pairs[t] \subseteq differs)

\* The same with every pair of every task: "every_required_pair_must_pass_raw_
\* model" (corpus.py:36).
EveryPairPasses ==
  report # NoReport /\ report.strict = TRUE =>
    \A t \in report.tasks \cap Equivalence : Pairs[t] \cap differs = {}

\* A task only works on a source at its locked revision, whatever an earlier
\* call left of the checkout (corpus.py 128-132).
SourcesPinned == pc \in {"open", "pool", "report"} => \A s \in Source : checkout[s] = "pinned"

\* A resumed call that selects no pairs leaves every finished result as it is
\* (corpus.py 1093-1107).
FinishedStay ==
  [][\A t \in Task :
       Finished(file[t]) /\ call.resume /\ ~call.force /\ call.only = {}
         => file'[t] = file[t]]_vars

=============================================================================
