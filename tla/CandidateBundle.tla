-------------------------- MODULE CandidateBundle --------------------------
(***************************************************************************)
(* The evidence bundle of run_candidate_gate: the gate calls that publish  *)
(* into one directory, what verify_candidate_bundle accepts of it, and     *)
(* what verify_attested_candidate_archive says of a signed copy.           *)
(*                                                                         *)
(* The directory's name is the evidence run ID, an identity of the inputs: *)
(* calls that found other tasks, sources, models or compilers write        *)
(* elsewhere, so `clean` is one choice for all calls here.  How the tasks  *)
(* ended is not among the inputs: two calls over one directory may differ. *)
(* A changed pair's obligations stand as one piece of evidence with the    *)
(* classification PolicyRules gives them.  Contents are records of what    *)
(* they were derived from, and a hash is the content itself.               *)
(***************************************************************************)
EXTENDS PolicyRules, Integers, Sequences, FiniteSets

CONSTANTS
  Gate,         \* the gate calls
  Task, Pair, Handler,
  Equivalence,  \* tasks of the equivalence lane; the others compile
  Demanding,    \* tasks whose equivalence is required
  PairsOf,      \* PairsOf[t]: the program pairs of t in identity order
  HandlersOf,   \* HandlersOf[t]: the validator links of t
  PairOf,       \* PairOf[h]: the pair a handler's link is about
  Changed,      \* pairs whose two programs differ
  ModelsOf,     \* ModelsOf[p]: the semantic models of a changed pair
  Verdict,      \* the raw classifications solver runs end with
  MayCall,      \* the calls of one run ID: how made, how their stages end
  MaxDamage,    \* bound: files torn and store entries lost in a run
  AtOnce        \* bound: calls that run at the same time

\* runner_error: the runner itself failed; failed: before the comparison, with
\* a row of its own (adapter_failed, dependency_materialization_failed).
Failed  == {"failed", "runner_error"}
Outcome == {"ran", "build_failed", "mutated"} \cup Failed

PairSet(t) == {PairsOf[t][i] : i \in DOMAIN PairsOf[t]}

ASSUME TasksAssumption ==
  /\ Demanding \subseteq Equivalence /\ Equivalence \subseteq Task
  /\ PairsOf \in [Task -> Seq(Pair)] /\ HandlersOf \in [Task -> SUBSET Handler]
  /\ Changed \subseteq Pair
  /\ \A t \in Task : \A h \in HandlersOf[t] : PairOf[h] \in PairSet(t)
\* The classifications a changed pair can get.
ASSUME VerdictAssumption ==
  \A v \in Verdict : \E rows \in Rows, missing, complete \in BOOLEAN :
    v = FinalClassification(RawClassification(rows, missing), complete)
ASSUME FiniteAssumption == IsFiniteSet(Gate) /\ IsFiniteSet(Task) /\ IsFiniteSet(Handler)
ASSUME BoundsAssumption == MaxDamage \in Nat /\ AtOnce \in Nat \ {0}

\* What is derived of o, how the tasks of a call ended.  The children with an
\* output: their pairs and links are in the plan.
Compared(o) == {t \in Equivalence : o[t] \in {"ran", "mutated"}}
Planned(o)  == UNION {PairSet(t) : t \in Compared(o)}
Obliged(o)  == Planned(o) \cap Changed
RawLinks(o) == UNION {{<<t, h>> : h \in HandlersOf[t]} : t \in Compared(o)}
Linked(o)   == {l[2] : l \in RawLinks(o)}

\* The run ID binds the models, and nothing else of what the tasks came to.
ASSUME CallsAssumption ==
  /\ MayCall \subseteq [resume : BOOLEAN, trusted : BOOLEAN,
                       policy : {"strict", "screening"}, outcome : [Task -> Outcome]]
  /\ \A c, e \in MayCall : UNION {ModelsOf[p] : p \in Obliged(c.outcome)}
                            = UNION {ModelsOf[p] : p \in Obliged(e.outcome)}

VARIABLES
  clean,      \* the candidate compiler was built from a clean commit
  store,      \* store[p]: the solver run in the evidence store, 0 for none
  verdict,    \* verdict[n]: what solver run n found
  exists,     \* the output directory is there
  dir,        \* dir[f]: the content of a file, or NoFile
  work,       \* the solver runs whose semantic-work is in the directory
  pc,
  call,       \* call[g]: --resume, the selected policy, whether in trusted CI,
              \* and how the tasks of its discovery stage ended
  got,        \* got[g][p]: the evidence g goes on with, and whether reused
  seen,       \* seen[g]: the manifest g made, then the one it has verified
  answer,     \* answer[g]: what the call returned
  archive,    \* the signed archive a CI job made of the directory
  damage

vars == <<clean, store, verdict, exists, dir, work, pc, call, got,
          seen, answer, archive, damage>>
gateVars == <<call, got, seen, answer>>

None   == [absent |-> TRUE]
NoFile == [missing |-> TRUE]
Torn   == [torn |-> TRUE]

\* The order of the writes; one name stands for the files of a group.
Writes ==
  <<"plan", "obtain", "sources", "results", "lineage", "links", "tasks",
    "classes", "decisions", "environment", "manifest", "attestation",
    "checksums", "verify">>
Required  == {Writes[i] : i \in DOMAIN Writes} \ {"obtain", "verify"}
Described == Required \ {"manifest", "attestation", "checksums"}
After(step) == Writes[1 + CHOOSE i \in DOMAIN Writes : Writes[i] = step]

Init ==
  /\ clean \in BOOLEAN
  /\ store = [p \in Changed |-> 0]
  /\ verdict = <<>>
  /\ exists = FALSE
  /\ dir = [f \in Required |-> NoFile]
  /\ work = {}
  /\ pc = [g \in Gate |-> "idle"]
  /\ call = [g \in Gate |-> None]
  /\ got = [g \in Gate |-> <<>>]
  /\ seen = [g \in Gate |-> None]
  /\ answer = [g \in Gate |-> None]
  /\ archive = None
  /\ damage = 0
-----------------------------------------------------------------------------
(* What the gate derives, and the verifier derives again. *)

Classify(planned, runs) ==
  [p \in planned |-> IF p \in Changed THEN verdict[runs[p]] ELSE "identical"]

\* _task_inputs_verified: the hashes taken before and after are the same.
HashesAgree(how) == how # "mutated"

\* A plausible mistake: the flag of the corpus row is not asked for.
VerifiedByHashes(how) == HashesAgree(how)

\* _task_record asks for the row's source_immutable too, which a task that
\* failed before its comparison does not have.
InputsVerified(how) == how \in {"ran", "build_failed"}

RawAccepted == {"identical", "equivalent_under_raw_model", "bounded_equivalent"}
TaskPasses == {"equivalence_passed", "compile_passed", "not_applicable"}

\* expected_task_classification; a task of another lane that failed has none
\* and keeps its own.  A runner_error row does not say what was required.
TaskClass(t, how, classes) ==
  LET of == IF t \in Equivalence /\ how \in {"ran", "mutated"} THEN PairsOf[t] ELSE <<>> IN
  IF ~ HashesAgree(how) THEN "source_mutated"
  ELSE IF how = "build_failed" THEN "old_build_failed"
  ELSE IF t \notin Equivalence THEN IF how \in Failed THEN how ELSE "compile_passed"
  ELSE IF of = <<>>
    THEN IF t \in Demanding /\ how # "runner_error" THEN "missing_evidence"
                                                  ELSE "not_applicable"
  ELSE IF \A i \in DOMAIN of : classes[of[i]] \in RawAccepted
    THEN "equivalence_passed" ELSE classes[of[1]]

ScreeningAccepted == StrictAccepted \cup {"bounded_equivalent"}

\* derive_candidate_decisions: no pair, task or source blocks.
Passes(accepted, classes, tasks) ==
  /\ \A p \in DOMAIN classes : classes[p] \in accepted
  /\ \A t \in Task : tasks[t].class \in TaskPasses /\ tasks[t].verified

Decisions(policy, classes, tasks, counts) ==
  [strict |-> Passes(StrictAccepted, classes, tasks),
   screening |-> Passes(ScreeningAccepted, classes, tasks),
   policy |-> policy, counts |-> counts]

\* Of the plan, of the lineage and of the classes; the others follow.
Counts(plan, lineage, classes) ==
  [pairs |-> Cardinality(plan.pairs), obligations |-> Cardinality(plan.obliged),
   links |-> plan.links,
   reused |-> Cardinality({p \in DOMAIN lineage : lineage[p].reused}),
   complete |-> Cardinality({p \in DOMAIN classes : classes[p] = "equivalent_under_raw_model"})]

\* inputs: the manifest without its content ID.
Content(inputs, d, w) == [manifest |-> inputs, files |-> [f \in Described |-> d[f]], work |-> w]
Sums(d, w) == [files |-> [f \in Required \ {"checksums"} |-> d[f]], work |-> w]
-----------------------------------------------------------------------------
(* verify_candidate_bundle, which has only the files to go by *)

\* A plausible mistake: the files are there, whatever they hold.
WholeByName(d, w) == \A f \in Required : d[f] \notin {NoFile, Torn}

\* Its first part: the required files, the checksum table, the content ID.
Whole(d, w) ==
  /\ \A f \in Required : d[f] # NoFile
  /\ d["checksums"] = Sums(d, w)
  /\ d["manifest"] # Torn
  /\ d["manifest"].content = Content(d["manifest"].inputs, d, w)

\* The manifest's identity inputs and the candidate's provenance flags.
ManifestSound(manifest) == manifest.inputs.clean = clean

\* Artifacts, pairs, models and obligations hang together.
PlanSound(d) == d["plan"].obliged = d["plan"].pairs \cap Changed

\* One final result per obligation, with its execution and its source.
ResultsSound(d) ==
  LET rows == d["results"].rows  sources == d["sources"].runs IN
  /\ DOMAIN rows = d["plan"].obliged
  /\ \A p \in DOMAIN rows : p \in DOMAIN sources /\ sources[p] = rows[p].run

\* Lineage for each result, of the same execution.
LineageSound(d) ==
  LET rows == d["results"].rows  lineage == d["lineage"].rows IN
  /\ DOMAIN lineage = DOMAIN rows
  /\ \A p \in DOMAIN rows : lineage[p].run = rows[p].run

\* The evidence that a link or a task names is that of the results.
Rests(d, pairs, evidence) ==
  /\ pairs \subseteq d["plan"].pairs
  /\ DOMAIN evidence \subseteq DOMAIN d["results"].rows
  /\ \A p \in DOMAIN evidence : evidence[p] = d["results"].rows[p].run

\* No two links of one handler, and as many as the plan has.
LinksSound(d) ==
  LET links == d["links"].rows IN
  /\ d["plan"].links = Cardinality(DOMAIN links)
  /\ \A h \in DOMAIN links : Rests(d, {PairOf[h]}, links[h])

\* Pairs are classified again, then the tasks, and their inputs compared.
ClassesSound(d) ==
  /\ d["classes"].rows =
       Classify(d["plan"].pairs, [p \in DOMAIN d["results"].rows |-> d["results"].rows[p].run])
  /\ \A t \in Task :
       LET row == d["tasks"].rows[t] IN
       /\ Rests(d, row.pairs, row.evidence)
       /\ row.class = TaskClass(t, row.how, d["classes"].rows)
       /\ row.verified = HashesAgree(row.how)

CountsSound(d, manifest) ==
  manifest.inputs.counts = Counts(d["plan"], d["lineage"].rows, d["classes"].rows)

\* A plausible mistake: the decisions on the disk are taken as they are.
DecisionsTrusted(d, manifest) == d["attestation"].parent = manifest.content

DecisionsSound(d, manifest) ==
  /\ d["decisions"] = Decisions(manifest.inputs.policy, d["classes"].rows, d["tasks"].rows,
                                manifest.inputs.counts)
  /\ d["attestation"].parent = manifest.content

\* The rest: every record against its parents, every derived one again, with
\* the manifest that was read.
Consistent(d, manifest) ==
  /\ \A f \in Required : d[f] # Torn
  /\ ManifestSound(manifest) /\ PlanSound(d) /\ ResultsSound(d) /\ LineageSound(d)
  /\ LinksSound(d) /\ ClassesSound(d) /\ CountsSound(d, manifest)
  /\ DecisionsSound(d, manifest)

Accepts(d, w) == Whole(d, w) /\ Consistent(d, d["manifest"])

\* verify_attested_candidate_archive: the signature is GitHub's, the bundle
\* verifies, its attestation is a trusted run's, and strict decides for it.
Publishable(a) ==
  /\ a # None
  /\ Accepts(a.dir, a.work)
  /\ a.dir["attestation"].trusted
  /\ a.dir["manifest"].inputs.policy = "strict" /\ a.dir["manifest"].inputs.clean
  /\ a.dir["decisions"].strict
-----------------------------------------------------------------------------
(* run_candidate_gate *)
Stopped == {"idle", "refused", "raised", "ended", "dead"}
Alive == {g \in Gate : pc[g] \notin Stopped}
To(g, step) == pc' = [pc EXCEPT ![g] = step]

\* The stages of discovery have ended, and with them the run ID is known.
Call(g) ==
  /\ pc[g] = "idle" /\ Cardinality(Alive) < AtOnce
  /\ \E c \in MayCall : call' = [call EXCEPT ![g] = c]
  /\ To(g, "check")
  /\ UNCHANGED <<clean, store, verdict, exists, dir, work, got, seen, answer,
                 archive, damage>>

Check(g) ==
  /\ pc[g] = "check"
  /\ To(g, IF exists /\ ~ call[g].resume THEN "refused" ELSE "open")
  /\ UNCHANGED <<clean, store, verdict, exists, dir, work, gateVars,
                 archive, damage>>

\* mkdir(exist_ok=True): what an earlier call left stays.
Open(g) ==
  /\ pc[g] = "open"
  /\ exists' = TRUE
  /\ To(g, Writes[1])
  /\ UNCHANGED <<clean, store, verdict, dir, work, gateVars, archive,
                 damage>>

ObligedOf(g) == Obliged(call[g].outcome)

\* The evidence of p, as the call holds it.
Hold(g, p, run, reused) ==
  got' = [got EXCEPT ![g] = [q \in DOMAIN @ \cup {p} |->
            IF q = p THEN [run |-> run, reused |-> reused] ELSE @[q]]]

\* Evidence of an earlier or a concurrent call.
Reuse(g, p) ==
  /\ pc[g] = "obtain" /\ p \in ObligedOf(g) \ DOMAIN got[g] /\ store[p] # 0
  /\ Hold(g, p, store[p], TRUE)
  /\ UNCHANGED <<clean, store, verdict, exists, dir, work, pc, call,
                 seen, answer, archive, damage>>

\* A solver run, its work under the output directory, its result in the store.
Execute(g, p) ==
  /\ pc[g] = "obtain" /\ p \in ObligedOf(g) \ DOMAIN got[g] /\ store[p] = 0
  /\ \E v \in Verdict : verdict' = Append(verdict, v)
  /\ LET run == Len(verdict) + 1 IN
       /\ store' = [store EXCEPT ![p] = run]
       /\ work' = work \cup {run}
       /\ Hold(g, p, run, FALSE)
  /\ UNCHANGED <<clean, exists, dir, pc, call, seen, answer, archive,
                 damage>>

Obtained(g) ==
  /\ pc[g] = "obtain" /\ DOMAIN got[g] = ObligedOf(g)
  /\ To(g, After("obtain"))
  /\ UNCHANGED <<clean, store, verdict, exists, dir, work, gateVars,
                 archive, damage>>

Runs(g) == [p \in DOMAIN got[g] |-> got[g][p].run]
Classes(g) == Classify(Planned(call[g].outcome), Runs(g))

\* What a link or a task rests on, of the evidence of the call.
Evidence(g, pairs) == [p \in pairs \cap DOMAIN got[g] |-> got[g][p].run]

TaskRow(g, t) ==
  LET how == call[g].outcome[t]
      pairs == IF t \in Compared(call[g].outcome) THEN PairSet(t) ELSE {} IN
  [how |-> how, pairs |-> pairs, evidence |-> Evidence(g, pairs),
   class |-> TaskClass(t, how, Classes(g)), verified |-> InputsVerified(how)]
Tasks(g) == [t \in Task |-> TaskRow(g, t)]

Plan(g) ==
  LET o == call[g].outcome IN
  [pairs |-> Planned(o), obliged |-> Obliged(o), links |-> Cardinality(RawLinks(o))]
CountsOf(g) == Counts(Plan(g), got[g], Classes(g))
DecisionsOf(g) == Decisions(call[g].policy, Classes(g), Tasks(g), CountsOf(g))

\* A source is written over that of its obligation; those of obligations that
\* only another call had stay.
Sources(g) ==
  LET left == IF dir["sources"] \in {NoFile, Torn} THEN <<>> ELSE dir["sources"].runs IN
  [p \in DOMAIN left \cup DOMAIN got[g] |->
     IF p \in DOMAIN got[g] THEN got[g][p].run ELSE left[p]]

\* A plausible mistake: the attestation says where it hopes to be signed.
AttestationAnywhere(g) == [trusted |-> TRUE, parent |-> seen[g].content]

\* _local_attestation and the content ID finalize_candidate_bundle holds.
Attestation(g) == [trusted |-> call[g].trusted, parent |-> seen[g].content]

Manifest(g) ==
  LET inputs == [policy |-> call[g].policy, clean |-> clean, counts |-> CountsOf(g)] IN
  [inputs |-> inputs, content |-> Content(inputs, dir, work)]

\* What g writes into f; the hashes are of what is then on the disk.
Written(g, f) ==
  CASE f = "plan" -> Plan(g)
    [] f = "sources" -> [runs |-> Sources(g)]
    [] f \in {"results", "lineage"} -> [rows |-> got[g]]
    [] f = "links" -> [rows |-> [h \in Linked(call[g].outcome) |-> Evidence(g, {PairOf[h]})]]
    [] f = "tasks" -> [rows |-> Tasks(g)]
    [] f = "classes" -> [rows |-> Classes(g)]
    [] f = "decisions" -> DecisionsOf(g)
    [] f = "environment" -> [captured |-> g]
    [] f = "manifest" -> Manifest(g)
    [] f = "attestation" -> Attestation(g)
    [] OTHER -> Sums(dir, work)

\* A plausible mistake: a resumed call keeps a file that is there.
WriteMissing(g) ==
  /\ pc[g] \in Required
  /\ dir' = IF dir[pc[g]] = NoFile
            THEN [dir EXCEPT ![pc[g]] = Written(g, pc[g])] ELSE dir
  /\ seen' = IF pc[g] = "manifest" THEN [seen EXCEPT ![g] = Manifest(g)] ELSE seen
  /\ To(g, After(pc[g]))
  /\ UNCHANGED <<clean, store, verdict, exists, work, call, got, answer, archive,
                 damage>>

Write(g) ==
  /\ pc[g] \in Required
  /\ dir' = [dir EXCEPT ![pc[g]] = Written(g, pc[g])]
  /\ seen' = IF pc[g] = "manifest" THEN [seen EXCEPT ![g] = Manifest(g)] ELSE seen
  /\ To(g, After(pc[g]))
  /\ UNCHANGED <<clean, store, verdict, exists, work, call, got, answer, archive,
                 damage>>

\* The call verifies what it wrote, as any reader would: first the hashes ...
Verify(g) ==
  /\ pc[g] = "verify"
  /\ IF Whole(dir, work)
     THEN To(g, "judge") /\ seen' = [seen EXCEPT ![g] = dir["manifest"]]
     ELSE To(g, "raised") /\ UNCHANGED seen
  /\ UNCHANGED <<clean, store, verdict, exists, dir, work, call, got,
                 answer, archive, damage>>

\* A plausible mistake: the answer is there before it is verified.
JudgeLate(g) ==
  /\ pc[g] = "judge"
  /\ To(g, IF Consistent(dir, seen[g]) THEN "ended" ELSE "raised")
  /\ answer' = [answer EXCEPT ![g] =
       [decisions |-> DecisionsOf(g), id |-> seen[g].content]]
  /\ UNCHANGED <<clean, store, verdict, exists, dir, work, call, got,
                 seen, archive, damage>>

\* ... then the records.  What it returns is the decision it derived itself,
\* with the content ID it has read.
Judge(g) ==
  /\ pc[g] = "judge"
  /\ IF Consistent(dir, seen[g])
     THEN /\ To(g, "ended")
          /\ answer' = [answer EXCEPT ![g] =
               [decisions |-> DecisionsOf(g), id |-> seen[g].content]]
     ELSE To(g, "raised") /\ UNCHANGED answer
  /\ UNCHANGED <<clean, store, verdict, exists, dir, work, call, got,
                 seen, archive, damage>>

\* The process dies between two writes, or in one.
Crash(g) ==
  /\ g \in Alive
  /\ To(g, "dead")
  /\ \/ UNCHANGED dir
     \/ pc[g] \in Required /\ dir' = [dir EXCEPT ![pc[g]] = Torn]
  /\ UNCHANGED <<clean, store, verdict, exists, work, gateVars, archive,
                 damage>>

\* Before another call, a file of a bundle that was answered for, or an entry
\* of the store, is lost.  (A call that died leaves enough behind of its own.)
Damage ==
  /\ damage < MaxDamage /\ Alive = {}
  /\ \E g, h \in Gate : pc[g] = "ended" /\ pc[h] = "idle"
  /\ damage' = damage + 1
  /\ \/ \E f \in Required : dir[f] # NoFile /\ dir' = [dir EXCEPT ![f] = Torn]
                            /\ UNCHANGED store
     \/ \E p \in Changed : store[p] # 0 /\ store' = [store EXCEPT ![p] = 0]
                           /\ UNCHANGED dir
  /\ UNCHANGED <<clean, verdict, exists, work, pc, gateVars, archive>>

\* The job on main that ran the gate packs the directory, whatever became of
\* the call, and has the archive signed.
Pack(g) ==
  /\ archive = None /\ Alive = {} /\ exists
  /\ pc[g] # "idle" /\ call[g].trusted
  /\ archive' = [dir |-> dir, work |-> work]
  /\ UNCHANGED <<clean, store, verdict, exists, dir, work, pc, gateVars,
                 damage>>

Step(g) ==
  \/ Check(g) \/ Open(g) \/ Obtained(g) \/ Write(g) \/ Verify(g) \/ Judge(g)
  \/ \E p \in Pair : Reuse(g, p) \/ Execute(g, p)

Next ==
  \/ \E g \in Gate : Call(g) \/ Step(g) \/ Crash(g) \/ Pack(g)
  \/ Damage

Spec == Init /\ [][Next]_vars
-----------------------------------------------------------------------------
TypeOK ==
  /\ clean \in BOOLEAN /\ exists \in BOOLEAN
  /\ store \in [Changed -> 0 .. Len(verdict)] /\ verdict \in Seq(Verdict)
  /\ DOMAIN dir = Required /\ work \subseteq 1 .. Len(verdict)
  /\ pc \in [Gate -> Stopped \cup {Writes[i] : i \in DOMAIN Writes}
                             \cup {"check", "open", "judge"}]
  /\ \A g \in Gate :
       /\ IF pc[g] = "idle" THEN call[g] = None /\ DOMAIN got[g] = {}
          ELSE call[g] \in MayCall /\ DOMAIN got[g] \subseteq ObligedOf(g)
       /\ pc[g] = "ended" <=> answer[g] # None
  /\ damage \in 0 .. MaxDamage

\* The call has evidence for all its obligations.
Complete(g) == pc[g] # "idle" /\ DOMAIN got[g] = ObligedOf(g)

(* Whatever calls were cut short, resumed or ran together over one         *)
(* directory, and however their tasks ended: a bundle that verifies has    *)
(* the lineage of one call g and the results of the runs it names, the     *)
(* tasks as one call t found them, resting on those results, and the       *)
(* decisions these two deserve, under the policy of a call h.  The three   *)
(* are one call unless two wrote at the same time.                         *)
AcceptedWhole ==
  Accepts(dir, work) =>
    \E g, t, h \in Gate :
      LET classes == Classify(dir["plan"].pairs, Runs(g)) IN
      /\ Complete(g) /\ Complete(t) /\ pc[h] # "idle"
      /\ dir["lineage"] = [rows |-> got[g]]
      /\ DOMAIN dir["results"].rows = DOMAIN got[g]
      /\ \A p \in DOMAIN got[g] : dir["results"].rows[p].run = got[g][p].run
      /\ dir["tasks"] = [rows |-> Tasks(t)]
      /\ \A p \in ObligedOf(t) : p \in DOMAIN got[g] /\ got[g][p].run = got[t][p].run
      /\ dir["decisions"] = Decisions(call[h].policy, classes, Tasks(t),
                                      Counts(dir["plan"], got[g], classes))
      /\ AtOnce = 1 => g = t /\ t = h /\ dir["environment"] = [captured |-> g]

(* No bundle that verifies and no answer lets strict pass unless every     *)
(* task ran to its end on unchanged inputs and every changed pair has a    *)
(* solver run that proved it equivalent: for the bundle, the tasks of one  *)
(* call and the results in it; for the answer, those of the call itself.   *)
Deserves(o, runs) ==
  /\ \A t \in Task : o[t] = "ran"
  /\ \A p \in Obliged(o) : p \in DOMAIN runs
                           /\ verdict[runs[p]] = "equivalent_under_raw_model"
Found(d) == [p \in DOMAIN d["results"].rows |-> d["results"].rows[p].run]
StrictEarned ==
  /\ Accepts(dir, work) /\ dir["decisions"].strict =>
       \E t \in Gate : pc[t] # "idle" /\ Deserves(call[t].outcome, Found(dir))
  /\ \A g \in Gate : answer[g] # None /\ answer[g].decisions.strict
                       => Deserves(call[g].outcome, Runs(g))

(* What an earlier call left in the directory, whole, cut short or torn,   *)
(* never makes a resumed call fail its own verification: a lone call       *)
(* raises only over a task of its own that failed, or over two of its      *)
(* children with a handler in common.                                      *)
Excused(o) ==
  \/ \E t \in Task : o[t] \in Failed
  \/ \E t, u \in Compared(o) : t # u /\ HandlersOf[t] \cap HandlersOf[u] # {}
RaisesExcused ==
  AtOnce = 1 => \A g \in Gate : pc[g] = "raised" => Excused(call[g].outcome)

(* A signed archive is publishable only for a clean candidate, when a call *)
(* of trusted CI under the strict policy attested it and a call found what *)
(* strict asks for.  One call, whose files the archive holds, when calls   *)
(* do not overlap: packing and signing what a local call left is not       *)
(* enough.                                                                 *)
PublishedEarned ==
  Publishable(archive) =>
    /\ clean
    /\ \E g, t \in Gate :
         /\ pc[g] # "idle" /\ call[g].trusted /\ call[g].policy = "strict"
         /\ pc[t] # "idle" /\ Deserves(call[t].outcome, Found(archive.dir))
         /\ AtOnce = 1 => g = t /\ archive.dir["environment"] = [captured |-> g]

(* src/README.md derives the policy from task records: a gate whose stages *)
(* have ended ends in a decision, also when a task of theirs failed.       *)
FailuresDecided ==
  \A g \in Gate : pc[g] = "raised" => \A t \in Task : call[g].outcome[t] \notin Failed

=============================================================================
