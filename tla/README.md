# Formal models of the equivalence checker

`equiv-checker` decides whether two Aiken compilers produce equivalent
validators.  A gate run compiles a corpus of packages with both, pairs the
programs, asks a Lean/Blaster/Z3 backend four questions about each pair that
differs, replays counterexamples with an independent evaluator, keeps the
answers in an evidence store shared by all runs, and lets a policy decide.
This directory holds TLA+ models of the parts of it that are hard to test, the
TLC configurations that check them, and proofs of their main properties.
Paths below are relative to `src/tool/equiv_checker/`; `PROJECT.json` maps
every definition to the lines it models.

## Inventory

| Component | State | Operations | Interaction, and what is hard | What makes it correct |
|---|---|---|---|---|
| Evidence store, `evidence_store.py` | one directory per obligation, a quarantine directory, lock files | `load`, `verify`, `quarantine`, `put`, `execution_claim` | shared by processes through `flock`; crashes, power loss and failing calls between any two system calls; `load` changes locks midway | only whole, verified records are visible; one record per key at a time; the answer of a `put` is durable |
| Gate, `candidate.py` | the output directory, dicts of results, counters | `run_candidate_gate`: tasks, compilers, the semantic loop, publication | calls the store, the backend, the policy; concurrent gates on one store; killed and resumed | a batch is never assembled from two executions; nothing is executed twice for no reason; gates that share a batch agree |
| Execution, `candidate_execution.py` | none | `planned_model_obligations`, `execute_model`, `_terminal_status` | calls the backend once per model, and the replay | four terminal rows per model, each true |
| Backend, `blaster.py` | a Lean project directory | `compare`, `replay` | child processes with timeouts; three trials per theorem; a failure at any stage | a failure never becomes a verdict |
| Policy, `candidate_policy.py` | none | `classify_changed_pairs`, `derive_candidate_decisions` | reads the rows of both models | strict accepts only what is equivalent |
| Bundle, `candidate_bundle.py` | the published directory and archive | finalise, verify, attest | reads back what the gate wrote; a resumed gate writes over what a dead one left, and the directory is tested for existence long before it is made | what verifies is one call's bundle; strict is earned by every pair; only trusted evidence is publishable |
| Processes, `process.py` | a child process group | `run_process` | timeout against a late exit, orphans | bounded time, no orphan |
| Compiler builds, `compiler_artifacts.py` | one output directory per build: checkout, binary, manifest, bundle | `build_local`, `build_release`, verification, the release lock | reads a worktree by several commands while it is edited; removes and refills a directory without a lock; reuses what verifies | the binary is of the source its manifest names; a reused build is the one asked for; locks let the locked release through only |
| Package runs, `runner.py`, `pipeline.py` | `runs/<run_id>`, its earlier attempts | `compare_package` with `--resume`, `--force`, `--only-pair` | cut short anywhere; rows and generated sources taken from an earlier bundle; reports written one by one | no passing report about a pair that differs; evidence is kept, and reused if it can be |
| Corpus runs, `corpus.py` | checkouts, a result file per task, `summary.json` | plan, pool of tasks, resume, aggregation | threads end and raise in any order; result files of earlier, cut-short or narrowed calls are taken over | results and summary are true of their tasks; finished ones stay |
| Pairing, `pairing.py`; semantic models, `semantics.py` | none | match validators; choose models | pure | pairs are one to one |
| Profiles and baselines, `profiles.py`, `baseline.py` | the release outputs; baseline directories | run, capture, compare | a release is built unless it is there, validated, and loaded once more | the compilers compared are those of the lock |
| The rest: records and identities (`evidence.py`), configuration, command line, blueprints, census, generators, scripts, Rust shim, Lean project | none, or their own output | constructors, readers, generators | pure or one-shot | - |

How they call each other: `corpus.py` runs `compare_package` of `runner.py`
for each equivalence task; `candidate.py` runs the corpus, takes the pairs it
found to the semantic loop over store and backend, asks the policy, and
publishes the bundle; `profiles.py` and the gate get their compilers from
`compiler_artifacts.py`.

The hazards of this code, with the line of each and the properties that watch
it, are listed in `PROJECT.json`.

## Modules

    EvidenceRecords ----- EvidenceCache (abstract)
          |                     ^ implements
          +------------- EvidenceStore ---- EvidenceStore_proofs -- EvidenceRefinement_proofs
                                            MCEvidenceStore
    CandidateGate ---- CandidateGate_proofs, MCCandidateGate
    PolicyRules -- BlasterBackend -- SemanticVerdict ---- SemanticVerdict_proofs
          |                                               MCSemanticVerdict
          +----- CandidateBundle ---- CandidateBundle_proofs, MCCandidateBundle
    PackageRun ---- PackageRun_proofs, MCPackageRun
    CorpusRun ----- CorpusRun_proofs, MCCorpusRun
    CompilerCache - CompilerCache_proofs, MCCompilerCache

**EvidenceRecords** is the vocabulary of the store and of what it promises.  A
*key* is a (checker configuration, logical obligation) pair, a *boundary* the
other fields of the reuse boundary, an *attempt* the payload of one execution.
All content checks of `_verify_entry` are the predicate `Verifies`: the record
is whole and has the boundary the caller expects.

**EvidenceCache** is the abstract store: each operation takes effect in one
step.  It says what callers may rely on, faults included: a miss means an empty
key, a hit a verified record; only `quarantine` removes a good record; a dead
`put` has had its effect or none; a power loss may undo only what the fsyncs
did not cover; an operation that raises leaves its key as it was or empty,
unless the handler of a `put` fails too.

**EvidenceStore** is the store on disk, cut at every point where another
process, a failing call, a crash or a power loss can come in between.  `pc[p]`
is the place in the function; `shared` and `owner` are the holders of the
`flock`; `stage` and `flushed` are the staging directory of a `put` and whether
its files were fsynced; `synced` and `undo` are what stable storage holds.
`load` is `LoadLock, LoadCheck, LoadUpgrade, LoadRecheck, MovedSync`, `put` is
`PutLock, PutCheck, MovedSync, PutWrite, PutFsync, PutVerify, PutReplace,
PutSync, PutConfirm` with the handler `PutUndo, UndoSync`; `PutFails`,
`MoveFails` and `SyncFails` are its error paths.

**CandidateGate** is the loop of `run_candidate_gate` over its batches, with
the store's operations as the single steps EvidenceCache shows them to be.
Processes share `entry` and the execution claims; each has the dict `cached`,
its `results` and its three counters.  `Die` and `Restart` are a killed gate
and one run again with `--resume`.

**BlasterBackend** is `compare`, stage by stage, the replay and the rows
`execute_model` records, for the raw model and then the ledger model of a pair.
What is true of the two programs is a *world* fixed in the beginning: their
outcomes, the inputs on which they exceed the step bound, the domain of each
model.  A stage may always fail or time out; a marker that is printed and
accepted is true.  **PolicyRules** has the classification of a pair as
operators, and **SemanticVerdict** puts the two together.

**CandidateBundle** is the rest of `run_candidate_gate`: calls that publish
into one output directory.  The directory is named by an identity of the
inputs: compilers, tasks, their sources and the semantic models of the planned
obligations, but not how the tasks of discovery ended.  So each call has its
own `outcome`, and `MayCall` lists the calls one directory can get: how they are
made, and outcomes that plan the same models (`CallsAssumption`).  A task whose
runner failed is recorded with other hashes than one that ran, so the two are
never in one `MayCall` of the configurations.  `Check` and `Open` are the test for the directory and its creation,
`Obtained`, `Reuse` and `Execute` the evidence of the changed pairs (the loop
of CandidateGate in one step per pair), `Write` one file after the other in the
order of the code, `Verify` and `Judge` the two halves of
`verify_candidate_bundle`, and `Pack` a CI job that signs the directory.  A file
is a record of what it was derived from and a hash is the content itself, so
"the checksum matches" is an equality; `Whole`, `Consistent` and `Publishable`
are what the verifiers ask.  `Counts` are the numbers the decisions and the
manifest carry, which the verifier takes again from the files, and the content
ID covers the manifest's own inputs.  The attestation names the content ID its
call computed (`seen`), not one read back.  The second finalisation
(`candidate.py:1325-1333`) is not modelled: `_local_attestation` never leaves
the placeholder that asks for it.  It takes the policy's classes from PolicyRules.

**PackageRun** is `compare_package`, called again and again on one run
directory.  `bundle` is `runs/<run_id>` and `attempts` the directories it was
moved to.  `Reusable`, `MoveAside`, `Loaded` and `Matches` are what is reused
of an earlier bundle; `ReusePair`, `RefusePair`, `IdenticalPair` and
`ComparePair` are one turn of the loop over the pairs; the reports are
`WriteAggregate`, `WriteRow`, `WriteSummary`, `WriteRun`, then the validation
(`Return`, or `Withdraw` twice).  `made` in a row remembers the call whose
backend run it reports.

**CorpusRun** is `run_corpus`: `Plan` (the checkouts), `Open` (which tasks run,
and which results are taken over), the steps of a task in the pool (`Start`,
`MaterializeLock`, `Compare` and `JudgePairs` or `Compile` and `JudgeLane`),
`Gather` and `Report`.  It composes with PackageRun by assumption and
guarantee: `Compare` leaves any bundle whose rows are true and which keeps the
pairs that were not asked for - what `StrictTrue` and `OnlyPairKeeps` say of
PackageRun.

**CompilerCache** is the output directory of a compiler build and the worktree,
tags and toolchain that change around it.  A commit is named by the content of
its tracked files and a binary by what it was compiled from.  The reads of
`build_local` are one step each (`ReadHead`, `ReadDiff`, `ReadUntracked`,
`ReadRecords`, `ReadHashes`), since an edit can come between any two; `Remove`
removes the old output file by file in any order; `Clone`, `Copy`, `Bundle`,
`Compile`, `Install` and `WriteManifest` fill the new one.  `Accepts` is
`verify_compiler_manifest`, `Hit` `_existing_cache`, `LockAccepts`
`verify_release_lock`.  `Find`, `Validate` and `Use` are a profile run that
gets its compilers.

## Runs

**evidence_store** - two processes, two operations each, one key, two
boundaries, at most two faults.  Operations touch one key only and keys share
nothing, so one key suffices; two boundaries make a record good for one caller
and bad for another; two operations allow a second `put` over a first, and two
faults a `put` that fails and is then killed, or whose handler fails too.
Checked: `TypeOK`; `WritersAlone` (the locks exclude); `NoHalfPublishedEntry`
(what is visible was whole); `AnswersAgree` (different answers about a key mean
that one record has left it); `StoredReplacesForGood` (no older entry behind a
confirmed one); `GoodEntriesStay` (`load` between its two locks and `put` never
drop a good entry); `OperationsEnd`; and `Implements`, the refinement of
EvidenceCache.  About 200,000 states.

**candidate_gate** - two gates, one of which needs both batches and one the
second, three obligations per batch, two faults (a gate killed, an entry
rotten).  Three obligations give a partial batch a first, a middle and a last
one; the shared batch is where gates meet; two faults allow a crash in the
recovery from a crash.  Checked: `TypeOK`, `StoreCoherent`,
`BatchFromOneExecution`, `NoDuplicateExecution`, `GatesAgree`, `GatesFinish`.

**semantic_verdict** - every pair of programs over two inputs, of which the
ledger model may admit none, one or both; each program may be slow on one
input; every outcome of every stage.  Two inputs are enough for a difference on
an input outside the ledger domain together with agreement inside it, and for
a program slow on one input and different on another.  That the old program
succeeds everywhere loses nothing: only whether two outcomes differ matters.
Checked: `TypeOK`, `VerdictsTrue`, `ConfirmedMeansDifferent`, `StrictIsSound`,
`OffLedgerIsOffLedger`, `AllRecorded`.

**bounded_verdict** - expects a violation.  The repository's README (lines
232-234) speaks of `bounded_equivalent` for *solver-valid* pairs and calls any
exhaustion inconclusive, but `classify_changed_pairs` looks for a falsified
completion theorem before it asks for the equivalence: the pair is called
`bounded_equivalent`, and screening accepts it, although the equivalence timed
out.  The other way round, a solver-valid pair whose completion trial was
inconclusive is classified `inconclusive`.

**package_run** - three calls with any options on a package of a changed pair
and a pair of equal scripts, of which another build has the first only; one
crash at any step or one edited row or lost source at any moment.  Three calls
make a bundle that was assembled from another one be reused in its turn; two
pairs are one that is asked for and one that is not.  Checked: `TypeOK`;
`StrictTrue` (no passing report about a pair that differs); `EvidenceKept` (no
call overwrites evidence); `ResumeReuses` (a resumed call runs nothing whose
evidence survived); `OnlyPairKeeps`.  1.7 million states.

**corpus_run** - two calls with any options and selections, a task of the
equivalence lane with two pairs and a task of another lane, two threads, one
death of the process at any step.  Two pairs allow an `--only-pair` call for
one of them, two tasks two threads in all their steps; resume needs a second
call.  Checked: `TypeOK`, `ResultsTrue`, `SummaryTrue`, `SourcesPinned` (work
only on sources at their revision), `FinishedStay` (a resumed call leaves
finished results alone).  0.6 million states.

**narrowed_task** - expects a violation, of `EveryPairPasses`: three calls, a
full one, one with `--only-pair`, a resumed one.  The second writes the verdict
on its pairs into the result file of the whole task, and the third takes it
over: `summary.json` passes although another pair differs.  That is why
`SummaryTrue` excludes only tasks all of whose pairs differ.

**candidate_bundle** - two calls one after the other, three tasks (one whose
equivalence is required, with an unchanged and a changed pair; one with the
changed pair; one that only compiles); resumed calls may find that all ran or
that one was edited on the way, failed, or did not build, whatever the call
before found; a death at or in any write, one file of an answered bundle or one store
entry lost before the second call, one archive.  Checked: `TypeOK`;
`AcceptedWhole` (what verifies is one call's bundle); `StrictEarned` (strict
passes only what ran and was proved); `RaisesExcused` (leftovers never make a
resumed call fail); `PublishedEarned`.  0.9 million states.

**gates_together** - two resumed calls at the same time into one directory, one
task with both pairs and one that only compiles, each of which may end
differently for the two calls, and a death of either: `AcceptedWhole`.  What
verifies has the results and the lineage of one call and the tasks as one call
found them, resting on those results, and its decisions follow from both.  One
call alone cannot break this run's mutant, a verifier that takes the decisions
on the disk as they are: its own files always go together.  It takes a race that
leaves one call's decisions beside the tasks of another.  1.1 million states.

**failed_task** - expects a violation, of `FailuresDecided`: a task that failed
in the corpus runner is recorded as not verified, the verifier compares its
hashes, finds them equal, and raises; the gate ends in an error instead of a
decision.  That is the first exception `RaisesExcused` makes.

**compiler_cache** - two calls of any kind (local build, release build,
historical profile run), one after the other, over one output; two edits
(tracked or untracked file, commit, moved tag, toolchain update) at any moment,
a death in any step, a lost or damaged file.  Two calls are needed to reuse,
two edits to change something and change it back or move two things.  Checked:
`TypeOK`, `BinaryOfItsSource`, `AnswerMatches`, `ReleasesLocked`.  0.9 million
states.

**ignored_source** - expects a violation, of `Rebuilds`: one build, one file
that Git ignores.  It is copied, hashed and built in, while the manifest says
clean and reproducible from its commit.

Every property of the passing runs has a mutant in `PROJECT.json`, a plausible
mistake in the code (the operators commented "A plausible mistake") that breaks
it.

Deadlock is not checked: in every model the calls, the schedule or the models
to execute come to an end, and the system stops.

### Fairness

`EvidenceStore` and `CandidateGate` assume weak fairness of each process's own
steps: a running process goes on.  Weak fairness of a lock step is enough
because calls and faults are bounded, so nobody takes the lock for ever; no
fairness between waiting processes is assumed of `flock`.  New calls, faults
and `Restart` are never required.  `BlasterBackend` is one sequential
process; weak fairness of `Next` says that every stage ends, which its
wall-clock timeout does.  `PackageRun`, `CorpusRun`, `CandidateBundle` and
`CompilerCache` state safety only and assume no fairness: each of their calls is
a bounded sequence of steps, and what could keep one from ending (a child
process, a lock of the store) is in other models or in none.

### Bounds that shape a fault

Faults are bounded by `MaxFaults`, `MaxDamage` and `MaxMoves`, calls by
`MaxCalls` or the set of calls.  In CandidateBundle and CompilerCache `AtOnce`
bounds the calls that run together; in CandidateBundle files are damaged
only after a call has answered and before another one comes, since a call that
dies leaves damage of its own; in CompilerCache they are damaged between calls.
`Quiet` keeps edits out of running builds.  PackageRun and CorpusRun have one
process at a time on a directory: nothing in the repository promises more.

## Disagreements the properties leave out

Four disagreements of code and documentation are runs that expect a violation
(above, and `findings` in `PROJECT.json`).  Others were met while modelling: the
models contain each of them, TLC showed it in the configuration named with a
stronger property than the ones kept, and the properties and configurations
that are kept leave it out:

- *A handler with an unsupported ledger model* (PackageRun, `Fallback = {p1}`).
  The row of such a changed pair never has the obligations the plan has
  (`runner.py:1249-1280`, `1696`): every resumed call runs it again, and
  `--only-pair` of another pair raises for it.  `ResumeReuses` excludes it.
- *Attempt numbers* (PackageRun).  The number of an attempt is derived from
  the attempt directories only if `runs/<run_id>` exists (`1524-1549`): a call
  that follows a death between the move and the `mkdir` uses number 1 again.
- *A task of a direct lane twice* (CorpusRun).  `_run_lane_compiler` copies the
  package to a directory that is there from an earlier call and raises
  (`corpus.py:494`): with `--force` such a task ends in `runner_error`.
- *`--only-pair` for pairs of two tasks* (CorpusRun).  Each task is given the
  pairs of both, and raises for those it does not have (`corpus.py:1124`).
- *Two children with a handler in common* (CandidateBundle).  The plan counts
  links per child, the bundle merges them by handler, and the verifier wants as
  many as planned (`candidate.py:807`, `candidate_bundle.py:1029-1057`): the
  second exception of `RaisesExcused`.
- *Two gates without `--resume`* (CandidateBundle, `AtOnce = 2`).  Both pass
  the test for the directory (`candidate.py:792`) before either makes it.
- *Two gates into one directory* (CandidateBundle, `AtOnce = 2`, the conjuncts
  that say `AtOnce = 1` without it).  A bundle that verifies may have the
  lineage of one call and the tasks of the other; an answer is the decision its
  call derived, with the content ID of the bundle it verified, which may hold
  the decision of the other (`candidate.py:1334-1347`); and a call of trusted CI
  whose own tasks went wrong may attest files of a call that found strict
  satisfied, if the counts agree, and so make them publishable.
- *Two builds into one output* (CompilerCache, `AtOnce = 2`).  One removes the
  directory and clones into it while the other is about to compile; the result
  verifies with a binary of the unedited source (`compiler_artifacts.py:539`).
- *An edit between `git diff` and the hashing* (CompilerCache, `Rebuilds` with
  `Quiet = FALSE`).  It is built into a manifest that says clean (`862-864`).
- *A death while the old output is removed* (CompilerCache, `Rebuilds` with
  `MayCrash`).  The reproducibility bundle may be gone and the rest verify.
- *A release built while a profile run is between its two loads*
  (CompilerCache, `AtOnce = 2`, a moved tag; `profiles.py:257-282`).

The ignored file, the edit after the diff, the lost bundle and the failed task
were also confirmed by running the code.

## Proofs

All theorems hold for every value of the constants under the assumptions named
in the modules: the placeholders (`NoEntry`, ...) are no records, bounds are
naturals, a schedule names no batch twice, a ledger domain lies in the raw one,
every task of a corpus has a source and only equivalence tasks have pairs, the
calls, tasks and handlers of a bundle and the builds of an output are finitely
many, and a solver run finds one of the classifications `PolicyRules` can give.
The conclusions about calls that come one after the other assume `AtOnce = 1`;
the section names them.  Every safety property of the passing runs is proved.

**EvidenceStore_proofs** - `TypeOK`, `WritersAlone`, `NoHalfPublishedEntry`,
`GoodEntriesStay`.  None of the invariants is inductive: exclusion needs that a
lock is held exactly by the processes whose step is inside its block
(`LocksHeld`), and those have a request of the right kind (`AtWork`); that
nothing half-published shows needs that the record in the staging directory is
the request's, is fsynced from `put_verify` on and whole at `put_replace`
(`Staged`), that the key is empty meanwhile (`OwnEntry`), and that what a power
loss may restore is intact too (`Stable`).  `Control` is preserved by a few
lemmas about taking and leaving locks, `Contents` action by action.

`AnswersAgree` and `StoredReplacesForGood` are about what was answered and has
since changed, so they need an invariant about the past (`HInv`): the record of
an answer is in its place or among those that have left it (`Answered`), no
entry, present or recoverable, is of a `put` that has yet to publish it
(`DatedEntries`: otherwise an answer could be given about an entry that comes a
second time), and a `put` that confirms has no unsettled removal behind it
(`Named`).  `StoreSteps` reduces every action to what it may do to the entries.

**EvidenceRefinement_proofs** - `Implements`: `EvidenceStore` implements
`EvidenceCache` under the mapping the module states.  An entry is hidden while a
`put` at its key has not confirmed it (`Hidden`), which can be told from the
steps of the processes alone.  Initial states map to an initial state; the
taking a lock, writing, fsyncing and renaming a staging directory are stutters;
the check that answers, a move aside, the confirmation of a `put` and each step
of its handler are steps of the abstract store.  A death in a `put`
is an abstract death with or without effect, and what a power loss leaves of a
key is what `LosePower` allows, since removals not yet synced are the same in
both.  There is one lemma per group of actions.  `Refining` adds to `IInv` what
the abstract store can see of a process: a `put` that has published has a whole
record, and one that withdraws has an empty key.

**CandidateGate_proofs** - `TypeOK`, `StoreCoherent`, `BatchFromOneExecution`,
`NoDuplicateExecution`, `GatesAgree`.  The invariant ties the entries of a
claimed batch to the pass its gate is in (`AtWork`: while it puts, exactly the
obligations already put have an entry, of the fresh attempt), its results to
what it put (`OwnResults`), and counts: a batch whose executions outnumber the
faults by one is intact in the store or being put (`Budget`).

**SemanticVerdict_proofs** - `TypeOK`, `VerdictsTrue`,
`ConfirmedMeansDifferent`, `StrictIsSound`, `OffLedgerIsOffLedger`, for any set
of inputs and any worlds.  The invariant says of every obligation concluded so
far what `VerdictsTrue` says of the recorded rows (`ProofsHonest`), and that
a replay runs only after a falsified equivalence (`Replays`).  That strict is
sound combines it with what the policy requires of the rows, and with the fact
that within the completion bound equal observations are equal outcomes.

**CandidateBundle_proofs** - `TypeOK`, `AcceptedWhole`, `StrictEarned`,
`RaisesExcused`, `PublishedEarned`, for any tasks, pairs, verdicts and policies
and any number of calls, deaths and losses.  All but `RaisesExcused` hold however
many calls write at once and however differently their tasks end; the conjuncts
that begin with `AtOnce = 1` say what more is true of calls one after the other.
The invariant for any number of calls (`IInv`) says of a running call that the
evidence it holds is of its obligations, and of all of them once it writes
(`Holding`), and that the manifest it is about to attest has its own policy
(`Making`); and of every whole file by itself, whoever wrote it (`Files`, for
the directory and for the archive): lineage and tasks are those of a call that
had all its evidence, a manifest has the policy of a call, an attestation the
trust of the call that made its parent.  What the verifier compares does the
rest: it derives results, classes, counts and decisions again from these files,
so `Consistent` forces the pieces to fit, whichever calls they are of.  For
calls one after the other `LInv` says more: every file up to the step a call is
at is as that call writes it (`Untouched`), so nothing an earlier call left can
make the verification raise, and the three calls of `AcceptedWhole` are one.

That three calls may be needed was found by trying to prove it with one, and by
TLC when the tasks of two calls were let end differently; what is not true of
racing calls is among the disagreements above.

**CompilerCache_proofs** - `TypeOK` and `AnswerMatches` for any number of builds
at once; `BinaryOfItsSource` and `ReleasesLocked` for builds one after the other
(`AtOnce = 1`), with any number of edits, moved tags, toolchain updates, deaths
and losses in between and during them.  For two at once the latter are false,
see the disagreements above.  The invariant for any number of builds (`IInv`)
says what each build knows at its step (`ReadBy`: which inputs it has read, and
that a cached manifest it reuses is for just those) and that the keys of
manifests have the form of their kind (`Keys`).  The one for builds one after
the other (`SInv`) follows the source through the build (`MadeBy`): from the
copy on, checkout, target and binary have the files that were hashed before
them, until the manifest says so (`Faithful`).

**CorpusRun_proofs** - `TypeOK`, `ResultsTrue`, `SummaryTrue`, `SourcesPinned`
and the action property `FinishedStay`, for any corpus and any number of jobs,
calls and deaths.  The invariant says where tasks can be (`Placed`: a lane has
its own steps, a task that is done has a result, a resumed call works on
nothing that is finished), that bundles have rows of their own task and true
ones (`RowsTrue`), and of every result, on disk or in memory, that a passing
one speaks about pairs of its task, about one at least if there is any
(`AllTrue`): the last is what makes the summary true.  Steps of a task either
finish or advance it, so two lemmas (`FinishKeeps`, `AdvanceKeeps`) carry most
of the actions.

**PackageRun_proofs** - `TypeOK`, `StrictTrue` and the action properties
`EvidenceKept`, `ResumeReuses` and `OnlyPairKeeps`, for any package, any builds
and any number of calls and faults.
The invariant says how far the reports of a call have come (`Placed`: until the
rows are written the new bundle has none, afterwards its aggregate is what the
call holds and speaks about exactly the pairs found), that what the call holds
is sealed and honest (`Held`), and of every bundle, the present one and those
moved aside, that its sealed rows and its aggregate are honest and a passing
summary judged passing pairs only (`Sound`).  An edited row is no longer sealed,
so it is neither loaded nor believed; that evidence stays follows from `Placed`,
by which a row is only written where there is none.  The two properties about
reuse compare backend runs of different calls: what a call holds was loaded
from the last bundle moved aside, and a pair that was not selected has the run
of that bundle's row (`Taken`), and whatever lies in a bundle about to be loaded
is older than the call (`Dated`), so a run of this call is never one of those.

Only model-checked is what is beyond the prover: liveness under fairness
(`OperationsEnd`, `GatesFinish`, `AllRecorded`) and the violations.  `ENABLED`
and induction over data are beyond it too, but nothing here needs them.

## What the models leave out

- Contents of records and the single checks of `_verify_entry`; malformed and
  truncated files are a record that is not whole.  `_verify_entry` under a lock
  is one step, and reading does not fail transiently: an `OSError` there counts
  as a failed verification in the code.  An entry path that exists and is not a
  directory does not occur.
- A staging directory left by a crash is never read; quarantined entries are
  never read back.
- A failing `mkdir` or `open` before an operation changed anything, which only
  raises.
- In CandidateGate, an entry for another boundary at the same key (its callers
  agree on it), and exceptions as opposed to deaths: both end the process and
  release the claim.
- The generated Lean text and the parsing of solver logs: a marker accepted by
  `parse_result_protocol` is taken to be true, the parsed counterexample to be
  any input.  Outcomes of programs are what the theorems tell apart; for pure
  integer programs the theorem takes two results of other types for equal.
  The secondary evaluator, which changes only the replay's confidence.
- One raw and one ledger model per pair; with several ledger models the policy
  lets any complete one rename a difference.
- In PackageRun, feature coverage of sentinel runs, the links between records
  and the wording of reports; a file that is cut short is read like a missing
  one.  What the solver answers is any sound answer.
- In CorpusRun, the schema of the lock file and its first version; several
  shards at once (they share `summary.json` and the checkouts, and nothing
  keeps them apart).
- In CandidateBundle, the preparation of the Lean environment, identities (an
  identity is what it is the hash of), the single obligations of a pair, and
  the difference between a result and its witness and replay records.  Of the
  links of features and sources, only those of handlers; of the counts, not
  that of consumers served from one result.
- In CompilerCache, build commands, target triples, branches and logs, which
  are the same for every call; an artifact outside the output directory.  One
  file stands for all files of its kind.

## Not modelled

- *Tool processes* (`process.py`): signals, pipes and wall-clock time.  A child
  process is one step of its caller that answers, fails or times out.  The
  hazard at `process.py:104` has no property for this reason.
- *Validator pairing*, *semantic models*, *records and identities*: pure
  functions of blueprints, pairs and records.  Their results are constants or
  choices of the models.
- *Profiles and baselines*: the comparison of a profile is PackageRun's and its
  compilers are CompilerCache's; expectations and the capture of baselines are
  not modelled.
- *Gate exit codes*, *configuration and command line*, *blueprints and census*,
  *corpus generators*, *scripts*, *the Rust shim and the Lean project*:
  stateless tables, parsing, text generation, or programs behind the answers
  that the models choose.

## Plan

1. Transient read errors as a fault of EvidenceStore, with the weaker
   `GoodEntriesStay` they leave, and its proof.
2. That CandidateGate composes with the store: the operations it uses as the
   steps of EvidenceCache, by a refinement mapping rather than by reading.
3. The guarantee of PackageRun that CorpusRun assumes of `Compare`, stated as an
   abstract specification both refer to.
4. Liveness of package and corpus calls under weak fairness (TLC only).
5. `Pairing`: operators against a reference definition over small blueprints.
