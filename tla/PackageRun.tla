----------------------------- MODULE PackageRun -----------------------------
(***************************************************************************)
(* compare_package of runner.py: one package built with both compilers and *)
(* compared pair by pair, again and again in the same run directory, with  *)
(* --resume, --force and --only-pair.  `bundle` is the directory           *)
(* runs/<run_id>, `attempts` the directories attempts/<run_id>/<n> that    *)
(* earlier bundles were moved to; a file that is cut short by a crash is   *)
(* read like one that is missing.  What is true of the programs is fixed   *)
(* in the beginning: `differs` are the pairs that are not equivalent.      *)
(***************************************************************************)
EXTENDS Naturals, Sequences, FiniteSets

CONSTANTS
  Pair,        \* the program pairs the package may be built into
  Same,        \* pairs whose two scripts are the same bytes
  Fallback,    \* pairs one of whose ledger models is unsupported (else handler)
  Builds,      \* the sets of pairs a build may produce
  MaxCalls,    \* bound: calls of compare_package
  MaxFaults    \* bound: crashes and damaged files

ASSUME PackageAssumption ==
  /\ Same \subseteq Pair /\ Fallback \subseteq Pair
  /\ Builds \subseteq (SUBSET Pair \ {{}})
  /\ MaxCalls \in Nat /\ MaxFaults \in Nat

VARIABLES
  differs,     \* the pairs whose programs are not equivalent
  bundle,      \* runs/<run_id>, or Absent
  attempts,    \* attempts/<run_id>/000001, ...
  pc, call,    \* the place in compare_package; its resume, force, only_pairs
  moved,       \* previous_bundle_root is set
  cached,      \* cached_pair_results
  seq,         \* current_attempt_sequence
  found, todo, \* the pairs of this build; those not yet in pair_results
  results,     \* pair_results
  answer,      \* what the last call returned
  calls, faults

vars == <<differs, bundle, attempts, pc, call, moved, cached, seq, found, todo,
          results, answer, calls, faults>>
local == <<moved, cached, seq, found, todo, results>>

Changed == Pair \ Same

Status ==
  {"identical", "equivalent_under_raw_model", "blaster_timeout",
   "blaster_falsified_unreplayed", "confirmed_non_equivalent",
   "off_ledger_difference"}
Passing == {"identical", "equivalent_under_raw_model"}

\* A sealed row has the checksum of its content.  `made` is the call whose
\* backend run the row reports; the program keeps the number of the attempt.
Row == [status: Status, attempt: Nat \ {0}, made: Nat \ {0}, sealed: BOOLEAN]
NoRow == [status |-> "none"]
Rows == [Pair -> Row \cup {NoRow}]
NoRows == [p \in Pair |-> NoRow]

NoAggregate == [p \in {} |-> NoRow]
Bundle ==
  [rows: Rows,                        \* pairs/<pair>/result.json
   lean: SUBSET Pair,                 \* generated sources, as checksummed
   aggregate: Rows \cup {NoAggregate},  \* pair-results.json
   summary: {"none", "pass", "fail"},   \* strict_pass of summary.json
   run: {"open", "pass", "fail", "torn"}]  \* strict_pass of run.json
Absent == [summary |-> "absent"]
Empty == [rows |-> NoRows, lean |-> {}, aggregate |-> NoAggregate,
          summary |-> "none", run |-> "open"]

NoCall == [resume |-> FALSE, force |-> FALSE, only |-> {}]
Place == {"idle", "open", "prepare", "build", "pairs", "aggregate", "rows",
          "summary", "run", "validate", "summary again", "run again"}

TypeOK ==
  /\ differs \subseteq Changed
  /\ bundle \in Bundle \cup {Absent}
  /\ attempts \in Seq(Bundle)
  /\ pc \in Place
  /\ call \in [resume: BOOLEAN, force: BOOLEAN, only: SUBSET Pair]
  /\ moved \in BOOLEAN /\ seq \in Nat \ {0}
  /\ cached \in Rows /\ results \in Rows
  /\ found \subseteq Pair /\ todo \subseteq Pair
  /\ answer \in {"none", "raised", "pass", "fail"}
  /\ calls \in 0..MaxCalls /\ faults \in 0..MaxFaults

Init ==
  /\ differs \in SUBSET Changed
  /\ bundle = Absent /\ attempts = <<>>
  /\ pc = "idle" /\ call = NoCall
  /\ moved = FALSE /\ seq = 1 /\ cached = NoRows
  /\ found = {} /\ todo = {} /\ results = NoRows
  /\ answer = "none" /\ calls = 0 /\ faults = 0

-----------------------------------------------------------------------------
(* Reading what an earlier call left. *)

\* Mutation: the checksum of a row is not compared.
LoadedUnsealed(b) ==
  [p \in Pair |->
     IF b.rows[p] # NoRow /\ (p \in Same \/ p \in b.lean) THEN b.rows[p] ELSE NoRow]

\* _load_valid_pair_results: the rows with a good checksum whose generated
\* sources are all there.
Loaded(b) ==
  [p \in Pair |->
     IF b.rows[p] # NoRow /\ b.rows[p].sealed /\ (p \in Same \/ p \in b.lean)
     THEN b.rows[p] ELSE NoRow]

\* _validate_bundle: every file is there, and the individual results are
\* those of the aggregate.
Valid(b) ==
  /\ b.aggregate # NoAggregate /\ b.summary # "none" /\ b.run # "torn"
  /\ \A p \in Pair : b.aggregate[p] # NoRow => b.rows[p] = b.aggregate[p]

\* Mutation: a pair of equal scripts has no sources to compare, hence no match.
MatchesChanged(p) == cached[p] # NoRow /\ p \notin Same /\ p \notin Fallback

\* _cached_pair_matches.  The row's obligations are those of its supported
\* models, the planned ones those of all models: a changed pair with an
\* unsupported model never matches.
Matches(p) == cached[p] # NoRow /\ (p \in Same \/ p \notin Fallback)

\* The status of a changed pair, from the raw verdict, its replay and the
\* verdicts of the ledger models.
OffLedger(ledger) ==
  /\ "equivalent_under_ledger_model" \in ledger
  /\ ledger \subseteq {"equivalent_under_ledger_model", "ledger_model_unsupported"}
Verdict(raw, confirmed, ledger) ==
  CASE raw = "blaster_valid" -> "equivalent_under_raw_model"
    [] raw = "blaster_timeout" -> raw
    [] raw = "blaster_falsified_unreplayed" ->
         IF ~confirmed THEN raw
         ELSE IF OffLedger(ledger) THEN "off_ledger_difference"
         ELSE "confirmed_non_equivalent"

\* The ledger verdicts of a pair, as sets.
LedgerVerdicts(p) ==
  LET models == IF p \in Fallback THEN {"ledger_model_unsupported"} ELSE {}
  IN  {models \cup {s} : s \in {"equivalent_under_ledger_model", "blaster_timeout"}}

\* Every outcome of the solver that is sound, and of the replay.
Verdicts(p) ==
  {Verdict(v[1], v[2], l) :
     v \in {x \in {"blaster_valid", "blaster_timeout", "blaster_falsified_unreplayed"}
                  \X BOOLEAN :
              /\ x[1] = "blaster_valid" => p \notin differs
              /\ x[2] => p \in differs},
     l \in LedgerVerdicts(p)}

-----------------------------------------------------------------------------
(* A call. *)

Goto(place) == pc' = place
Forget ==
  /\ moved' = FALSE /\ seq' = 1 /\ cached' = NoRows
  /\ found' = {} /\ todo' = {} /\ results' = NoRows
End(value) == Goto("idle") /\ call' = NoCall /\ answer' = value /\ Forget
Raise == End("raised") /\ UNCHANGED <<bundle, attempts>>

Call ==
  /\ pc = "idle" /\ calls < MaxCalls /\ calls' = calls + 1
  /\ \E resume, force \in BOOLEAN, only \in {{}} \cup {{p} : p \in Pair} :
       call' = [resume |-> resume, force |-> force, only |-> only]
  /\ Goto("open") /\ answer' = "none"
  /\ UNCHANGED <<differs, bundle, attempts, faults, local>>

Reusable ==
  /\ call.resume /\ ~call.force /\ call.only = {}
  /\ bundle.summary # "none" /\ Valid(bundle)
MayReplace == call.resume \/ call.force

OpenFresh ==
  /\ pc = "open" /\ bundle = Absent
  /\ Goto("prepare")
  /\ UNCHANGED <<differs, bundle, attempts, call, answer, calls, faults, local>>

ReturnReused ==
  /\ pc = "open" /\ bundle # Absent /\ Reusable
  /\ End(bundle.summary)
  /\ UNCHANGED <<differs, bundle, attempts, calls, faults>>

Refuse ==
  /\ pc = "open" /\ bundle # Absent /\ ~MayReplace
  /\ Raise
  /\ UNCHANGED <<differs, calls, faults>>

MoveTo(aside, number) ==
  /\ pc = "open" /\ bundle # Absent /\ MayReplace /\ ~Reusable
  /\ cached' = IF call.resume \/ call.only # {} THEN Loaded(bundle) ELSE NoRows
  /\ attempts' = aside
  /\ bundle' = Absent
  /\ moved' = TRUE /\ seq' = number
  /\ Goto("prepare")
  /\ UNCHANGED <<differs, call, found, todo, results, answer, calls, faults>>

\* Mutations: the new attempt has the number of the last; the last is replaced.
MoveAsideOffByOne == MoveTo(Append(attempts, bundle), Len(attempts))
MoveAsideOverTheLast ==
  MoveTo(IF attempts = <<>> THEN <<bundle>>
         ELSE [attempts EXCEPT ![Len(attempts)] = bundle], Len(attempts) + 2)

MoveAside == MoveTo(Append(attempts, bundle), Len(attempts) + 2)

Prepare ==
  /\ pc = "prepare"
  /\ bundle' = Empty /\ Goto("build")
  /\ UNCHANGED <<differs, attempts, call, answer, calls, faults, local>>

\* Both compilers build their copy of the package, and the validators are
\* paired.  A requested pair must be among them.
Build ==
  /\ pc = "build"
  /\ \E f \in Builds :
       IF call.only \subseteq f
       THEN /\ found' = f /\ todo' = f /\ Goto("pairs")
            /\ UNCHANGED <<bundle, attempts, call, moved, cached, seq, results, answer>>
       ELSE Raise
  /\ UNCHANGED <<differs, calls, faults>>

\* A build or the extraction fails: there are no pairs, and the failure is the
\* result.
BuildFails ==
  /\ pc = "build" /\ Goto("aggregate")
  /\ UNCHANGED <<differs, bundle, attempts, call, answer, calls, faults, local>>

BuildRaises ==
  /\ pc = "build" /\ Raise
  /\ UNCHANGED <<differs, calls, faults>>

-----------------------------------------------------------------------------
(* The loop over the pairs, the changed ones first, else in a fixed order. *)

First(pairs) == CHOOSE p \in pairs : TRUE
Turn(p) ==
  /\ pc = "pairs" /\ todo # {}
  /\ p = First(IF todo \subseteq Same THEN todo ELSE todo \ Same)

\* Mutation: --only-pair is heeded with --force only.
UnselectedIfForced(p) == call.force /\ call.only # {} /\ p \notin call.only

Unselected(p) == call.only # {} /\ p \notin call.only
Result(p, row) ==
  /\ results' = [results EXCEPT ![p] = row]
  /\ todo' = todo \ {p}
  /\ UNCHANGED <<differs, attempts, pc, call, moved, cached, seq, found, answer,
                 calls, faults>>
Reuses(p) == Matches(p) /\ ((call.resume /\ ~call.force) \/ Unselected(p))

\* _restore_reused_artifacts copies the sources the row names; a resumed
\* falsification is replayed again.
ReusePair(p) ==
  /\ Turn(p) /\ Reuses(p)
  /\ LET restored == [bundle EXCEPT !.lean =
                        @ \cup ({p} \cap attempts[Len(attempts)].lean)]
     IN  bundle' = restored
  /\ \E confirmed \in BOOLEAN :
       /\ confirmed => /\ p \in differs /\ call.resume
                       /\ cached[p].status = "blaster_falsified_unreplayed"
       /\ Result(p, [cached[p] EXCEPT
                       !.attempt = seq,
                       !.status = IF confirmed THEN "confirmed_non_equivalent" ELSE @])

RefusePair(p) ==
  /\ Turn(p) /\ ~Reuses(p) /\ Unselected(p)
  /\ Raise
  /\ UNCHANGED <<differs, calls, faults>>

SealedRow(status) == [status |-> status, attempt |-> seq, made |-> calls, sealed |-> TRUE]

IdenticalPair(p) ==
  /\ Turn(p) /\ ~Reuses(p) /\ ~Unselected(p) /\ p \in Same
  /\ Result(p, SealedRow("identical")) /\ UNCHANGED bundle

ComparePair(p) ==
  /\ Turn(p) /\ ~Reuses(p) /\ ~Unselected(p) /\ p \in Changed
  /\ \E s \in Verdicts(p) : Result(p, SealedRow(s))
  /\ bundle' = [bundle EXCEPT !.lean = @ \cup {p}]

-----------------------------------------------------------------------------
(* The reports, in the order they are written. *)

Written(b, place) ==
  /\ bundle' = b /\ Goto(place)
  /\ UNCHANGED <<differs, attempts, call, moved, cached, seq, found, results,
                 answer, calls, faults>>

WriteAggregate ==
  /\ pc \in {"pairs", "aggregate"} /\ todo = {}
  /\ Written([bundle EXCEPT !.aggregate = results], "rows")
  /\ todo' = {p \in Pair : results[p] # NoRow}

WriteRow(p) ==
  /\ pc = "rows" /\ todo # {} /\ p = First(todo)
  /\ Written([bundle EXCEPT !.rows[p] = results[p]], "rows")
  /\ todo' = todo \ {p}

\* strict_pass: no gap, and every status passes.  `clean` stands for the gaps
\* (locks, sources, validators without a partner) that are not about pairs.
StrictPass(clean) ==
  clean /\ found # {} /\ \A p \in found : results[p].status \in Passing

WriteSummary ==
  /\ pc = "rows" /\ todo = {}
  /\ \E clean \in BOOLEAN :
       Written([bundle EXCEPT !.summary = IF StrictPass(clean) THEN "pass" ELSE "fail"],
               "run")
  /\ UNCHANGED todo

WriteRun ==
  /\ pc = "run"
  /\ Written([bundle EXCEPT !.run = bundle.summary], "validate")
  /\ UNCHANGED todo

Return ==
  /\ pc = "validate" /\ Valid(bundle)
  /\ End(bundle.summary)
  /\ UNCHANGED <<differs, bundle, attempts, calls, faults>>

WithdrawThen(place) ==
  /\ \/ /\ pc = "validate" /\ ~Valid(bundle)
        /\ Written([bundle EXCEPT !.summary = "fail"], "run again")
     \/ /\ pc = "run again"
        /\ Written([bundle EXCEPT !.run = "fail"], place)
  /\ UNCHANGED todo

\* _validate_bundle found an error: the verdict is withdrawn.
Withdraw == WithdrawThen("summary again")
ReturnWithdrawn ==
  /\ pc = "summary again" /\ End("fail")
  /\ UNCHANGED <<differs, bundle, attempts, calls, faults>>

-----------------------------------------------------------------------------
(* Faults. *)

\* The process dies; the file it was writing over is cut short.
Crash ==
  /\ pc # "idle" /\ faults < MaxFaults /\ faults' = faults + 1
  /\ bundle' \in {bundle} \cup
       CASE pc \in {"run", "run again"} -> {[bundle EXCEPT !.run = "torn"]}
         [] pc = "validate" -> {[bundle EXCEPT !.summary = "none"]}
         [] OTHER -> {}
  /\ End("none")
  /\ UNCHANGED <<differs, attempts, calls>>

\* A result file is damaged or edited, or a generated source is lost.
Damage ==
  /\ faults < MaxFaults /\ faults' = faults + 1 /\ bundle # Absent
  /\ \E p \in Pair :
       \/ /\ bundle.rows[p] # NoRow /\ bundle.rows[p].sealed
          /\ bundle' = [bundle EXCEPT
               !.rows[p].sealed = FALSE,
               !.rows[p].status = "equivalent_under_raw_model"]
       \/ p \in bundle.lean /\ bundle' = [bundle EXCEPT !.lean = @ \ {p}]
  /\ UNCHANGED <<differs, attempts, pc, call, local, answer, calls>>

Step ==
  \/ OpenFresh \/ ReturnReused \/ Refuse \/ MoveAside \/ Prepare
  \/ Build \/ BuildFails \/ BuildRaises
  \/ \E p \in Pair : \/ ReusePair(p) \/ RefusePair(p) \/ IdenticalPair(p)
                     \/ ComparePair(p) \/ WriteRow(p)
  \/ WriteAggregate \/ WriteSummary \/ WriteRun
  \/ Return \/ Withdraw \/ ReturnWithdrawn

Next == Call \/ Step \/ Crash \/ Damage

Spec == Init /\ [][Next]_vars

-----------------------------------------------------------------------------
(* What a run directory promises. *)

Reports == {b \in {bundle} \cup {attempts[n] : n \in DOMAIN attempts} : b # Absent}

\* A report that passes, returned or left on disk in whatever order calls,
\* crashes and damage came, judged at least one pair and every pair it judged
\* is equivalent: no edited result, no old verdict of another build and no
\* half-written report gets a strict_pass (runner.py 2478-2484).
StrictTrue ==
  /\ \A b \in Reports : b.summary = "pass" =>
       LET judged == {p \in DOMAIN b.aggregate : b.aggregate[p] # NoRow}
       IN  /\ judged # {} /\ judged \cap differs = {}
           /\ \A p \in judged : b.aggregate[p].status \in Passing
  /\ answer = "pass" => bundle.summary = "pass"

\* The runs of the backend that a sealed row on disk still reports.
Evidence ==
  UNION {{<<p, b.rows[p].made>> : p \in {q \in Pair : b.rows[q] # NoRow /\ b.rows[q].sealed}}
         : b \in Reports}

\* Only a fault takes evidence away: --force and --resume move the bundle
\* aside to an attempt number of its own and never write over one
\* (runner.py 1542-1549).
EvidenceKept == [][faults' = faults => Evidence \subseteq Evidence']_vars

\* The step runs the backend for p although the bundle that this resumed call
\* moved aside has a row for it that can be trusted.
Reruns(p) ==
  /\ pc = "pairs" /\ results[p] = NoRow /\ results'[p] # NoRow
  /\ results'[p].made = calls
  /\ call.resume /\ ~call.force /\ moved
  /\ Loaded(attempts[Len(attempts)])[p] # NoRow

\* --resume reruns no pair whose evidence survived, except a changed pair with
\* an unsupported ledger model (runner.py 1708).
ResumeReuses == [][\A p \in Pair : (p \in Fallback => p \in Same) => ~Reruns(p)]_vars

\* An --only-pair call that returns reports, for every other pair, the backend
\* run that the bundle before it reported (runner.py 1704-1766).
OnlyPairKeeps ==
  [][pc = "validate" /\ pc' = "idle" /\ answer' # "none" =>
       \A p \in found \ call.only : call.only # {} =>
         moved /\ results[p].made = attempts[Len(attempts)].rows[p].made]_vars

=============================================================================
