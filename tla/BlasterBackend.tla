--------------------------- MODULE BlasterBackend ---------------------------
(***************************************************************************)
(* One program pair checked by the Lean/Blaster/Z3 backend: the stages of  *)
(* RealBlasterBackend.compare, the concrete replay of a counterexample and *)
(* the terminal statuses execute_model records, for the raw model and then *)
(* for the ledger model.                                                   *)
(*                                                                         *)
(* The world fixes what is true of the two programs.  A Lean process may   *)
(* time out, fail, print a broken marker or give up; the marker it does    *)
(* print for a trial is true, and the evaluator's answer is what the       *)
(* program does.                                                           *)
(***************************************************************************)
EXTENDS PolicyRules

CONSTANTS
  Input, NoInput,
  Worlds    \* the worlds considered

Side  == {"old", "new"}
Model == {"raw", "ledger"}

(* world.out: what each program does on an input; world.slow: the inputs on *)
(* which it needs more steps than the runtime bound; world.domain: the      *)
(* inputs a model admits (a ledger model restricts the raw one);            *)
(* world.planned: the supported models; world.abi: the pair's ABI is        *)
(* verified.                                                                *)
World ==
  [out : [Side -> [Input -> {"success", "failure"}]],
   slow : [Side -> SUBSET Input],
   domain : [Model -> SUBSET Input],
   planned : SUBSET Model,
   abi : BOOLEAN]

ASSUME WorldsAssumption ==
  /\ Worlds \subseteq World
  /\ \A w \in Worlds : w.domain["ledger"] \subseteq w.domain["raw"]
ASSUME InputAssumption == NoInput \notin Input

VARIABLES
  world,
  model,    \* the model being executed, or "none"
  stage,
  trial,    \* the solver answer the running Lean source expects
  proof,    \* proof[k]: proof_obligations[k]["status"]
  status,   \* the BlasterResult's status, once compare returned
  witness,  \* the input of the counterexample, or NoInput
  replayed, \* the replay confirmed the counterexample
  results   \* results[m]: the rows recorded for model m

compareVars == <<stage, trial, proof, status, witness, replayed>>
vars == <<world, model, compareVars, results>>

Stage == {"waiting", "start", "import", "preparation", "nonVacuity", "old",
          "new", "equivalence", "witness", "replay", "returned"}
ProofStatus == {"absent", "pending", "proven", "valid", "falsified", "inconclusive"}
BackendStatus ==
  {"none", "raw_model_unsupported", "blaster_error", "blaster_timeout",
   "blaster_inconclusive", "domain_non_vacuous_failed", "blaster_valid",
   "bounded_equivalent", "blaster_falsified_unreplayed"}

TypeOK ==
  /\ world \in World
  /\ model \in Model \cup {"none"}
  /\ stage \in Stage
  /\ trial \in {"valid", "falsified", "inconclusive"}
  /\ proof \in [Kind -> ProofStatus]
  /\ status \in BackendStatus
  /\ witness \in Input \cup {NoInput}
  /\ replayed \in BOOLEAN
  /\ results \in [Model -> Rows]

Observation(side, i) ==
  IF i \in world.slow[side] THEN "runtimeBoundExhausted" ELSE world.out[side][i]

\* The theorem of each obligation; non-vacuity is proved by refuting that
\* the domain is empty.
Holds(m, k) ==
  CASE k = "nonVacuity" -> world.domain[m] # {}
    [] k \in Completion -> world.domain[m] \cap world.slow[k] = {}
    [] k = "equivalence" -> \A i \in world.domain[m] :
                              Observation("old", i) = Observation("new", i)

\* The markers a trial of obligation k can end with.
Admitted(m, k, t) ==
  CASE t = "valid" -> Holds(m, k)
    [] t = "falsified" -> ~ Holds(m, k)
    [] t = "inconclusive" -> TRUE

AllAre(s) == [k \in Kind |-> s]

Init ==
  /\ world \in Worlds
  /\ model = "none" /\ stage = "waiting" /\ trial = "valid"
  /\ proof = AllAre("absent") /\ status = "none"
  /\ witness = NoInput /\ replayed = FALSE
  /\ results = [m \in Model |-> NoRows]
-----------------------------------------------------------------------------
\* execute_model is called for each planned model, raw models first.
Execute(m) ==
  /\ stage = "waiting" /\ m \in world.planned /\ results[m] = NoRows
  /\ m = "ledger" /\ "raw" \in world.planned => results["raw"] # NoRows
  /\ model' = m /\ stage' = "start"
  /\ UNCHANGED <<world, trial, proof, status, witness, replayed, results>>

\* compare returns with status s and the obligations as they stand.
Return(s) ==
  /\ stage' = "returned" /\ status' = s
  /\ UNCHANGED <<world, model, trial, witness, replayed, results>>

Advance(to) ==
  /\ stage' = to
  /\ UNCHANGED <<world, model, status, witness, replayed, results>>

\* The pair's ABI is not verified: no obligation is even opened.
RefuseAbi ==
  /\ stage = "start" /\ ~ world.abi
  /\ Return("raw_model_unsupported") /\ UNCHANGED proof

\* A lock, version or build problem of the pinned environment.
EnvironmentFails ==
  /\ stage = "start" /\ world.abi
  /\ Return("blaster_error") /\ UNCHANGED proof

Open ==
  /\ stage = "start" /\ world.abi
  /\ proof' = AllAre("pending")
  /\ Advance("import") /\ UNCHANGED trial

Import ==
  /\ stage = "import" /\ UNCHANGED proof
  /\ \/ Advance("preparation") /\ UNCHANGED trial
     \/ Return("blaster_timeout")
     \/ Return("blaster_error")

Prepare ==
  /\ stage = "preparation" /\ UNCHANGED proof
  /\ \/ Advance("nonVacuity") /\ UNCHANGED trial
     \/ Return("blaster_timeout")
     \/ Return("blaster_inconclusive")

\* A timeout, a failure and a wrong marker end this stage alike.
ProveNonVacuity ==
  /\ stage = "nonVacuity"
  /\ \/ /\ Holds(model, "nonVacuity")
        /\ proof' = [proof EXCEPT !["nonVacuity"] = "proven"]
        /\ Advance("old") /\ trial' = "valid"
     \/ Return("domain_non_vacuous_failed") /\ UNCHANGED proof

Trials == {"old", "new", "equivalence"}
NextTrial == [valid |-> "falsified", falsified |-> "inconclusive"]

TrialTimesOut ==
  /\ stage \in Trials
  /\ Return("blaster_timeout") /\ UNCHANGED proof

\* A broken marker, or one of another trial.
TrialConflicts ==
  /\ stage \in Trials
  /\ Return("blaster_error") /\ UNCHANGED proof

\* A non-zero exit moves on to the next expected answer; after the last one
\* there is no verdict.
TrialFails ==
  /\ stage \in Trials /\ UNCHANGED proof
  /\ IF trial = "inconclusive"
     THEN Return("blaster_error")
     ELSE Advance(stage) /\ trial' = NextTrial[trial]

\* A plausible mistake: take the trial's expected answer without its marker.
CompletesUnmarked ==
  /\ stage \in Completion
  /\ proof' = [proof EXCEPT ![stage] = IF trial = "valid" THEN "proven" ELSE trial]
  /\ Advance(IF stage = "old" THEN "new" ELSE "equivalence")
  /\ trial' = "valid"

CompletionConcludes ==
  /\ stage \in Completion /\ Admitted(model, stage, trial)
  /\ proof' = [proof EXCEPT ![stage] = IF trial = "valid" THEN "proven" ELSE trial]
  /\ Advance(IF stage = "old" THEN "new" ELSE "equivalence")
  /\ trial' = "valid"

CompletionProven == \A k \in Completion : proof[k] = "proven"

EquivalenceConcludes ==
  /\ stage = "equivalence" /\ Admitted(model, "equivalence", trial)
  /\ proof' = [proof EXCEPT !["equivalence"] = trial]
  /\ CASE trial = "valid" ->
            Return(IF CompletionProven THEN "blaster_valid" ELSE "bounded_equivalent")
       [] trial = "inconclusive" -> Return("blaster_inconclusive")
       [] trial = "falsified" -> Advance("witness") /\ UNCHANGED trial

\* The counterexample cannot be parsed, or does not survive encoding; the
\* obligation stays falsified.
WitnessFails ==
  /\ stage = "witness"
  /\ Return("blaster_error") /\ UNCHANGED proof

\* The parsed counterexample is some input: nothing checks it against the
\* domain before it is run.
WitnessParsed ==
  /\ stage = "witness"
  /\ stage' = "replay" /\ status' = "blaster_falsified_unreplayed"
  /\ witness' \in Input
  /\ UNCHANGED <<world, model, trial, proof, replayed, results>>

\* What the evaluator reports for one side: what the program does, or one of
\* the outcomes that say nothing about it (a timeout, an exhausted budget, a
\* crash, a decoding or argument error).
Evaluations(side) == {world.out[side][witness], "not_semantic"}
\* A plausible mistake: any two different reports confirm the difference.
ConfirmsAnyDifference(old, new) == old # new
Confirms(old, new) == old # "not_semantic" /\ new # "not_semantic" /\ old # new

\* The replay runs both programs; without an evaluator, or with one that is
\* one of the compared compilers, it confirms nothing.
Replay ==
  /\ stage = "replay"
  /\ \/ replayed' = FALSE
     \/ \E old \in Evaluations("old"), new \in Evaluations("new") :
          replayed' = Confirms(old, new)
  /\ stage' = "returned"
  /\ UNCHANGED <<world, model, trial, proof, status, witness, results>>

\* Plausible mistakes: every obligation takes the backend's verdict; what was
\* never reached stays pending.
TerminalOfBackend(p, s) ==
  CASE s = "blaster_valid" -> "valid"
    [] s = "bounded_equivalent" -> "valid"
    [] s = "blaster_falsified_unreplayed" -> "falsified"
    [] OTHER -> "tool_error"
TerminalLeavesPending(p, s) == IF s = "blaster_error" THEN "tool_error" ELSE p

\* _terminal_status: an obligation without a verdict of its own takes one
\* from the backend's.
Terminal(p, s) ==
  CASE p \in {"proven", "valid", "falsified", "inconclusive"} -> p
    [] p \in {"absent", "pending"} ->
         CASE s = "blaster_timeout" -> "timeout"
           [] s = "raw_model_unsupported" -> "unsupported"
           [] s = "bounded_equivalent" -> "bounded"
           [] s = "blaster_inconclusive" -> "inconclusive"
           [] s = "domain_non_vacuous_failed" -> "invalid"
           [] OTHER -> "tool_error"

\* A plausible mistake: only the obligations that were reached get a row.
RecordReached ==
  /\ stage = "returned"
  /\ results' = [results EXCEPT ![model] =
       [k \in {kind \in Kind : proof[kind] \notin {"absent", "pending"}} |->
          [status |-> Terminal(proof[k], status),
           replayed |-> k = "equivalence" /\ replayed]]]
  /\ model' = "none" /\ stage' = "waiting" /\ trial' = "valid"
  /\ proof' = AllAre("absent") /\ status' = "none"
  /\ witness' = NoInput /\ replayed' = FALSE
  /\ UNCHANGED world

\* One row per obligation; only the equivalence refers to the replay.
Record ==
  /\ stage = "returned"
  /\ results' = [results EXCEPT ![model] =
       [k \in Kind |-> [status |-> Terminal(proof[k], status),
                        replayed |-> k = "equivalence" /\ replayed]]]
  /\ model' = "none" /\ stage' = "waiting" /\ trial' = "valid"
  /\ proof' = AllAre("absent") /\ status' = "none"
  /\ witness' = NoInput /\ replayed' = FALSE
  /\ UNCHANGED world

Next ==
  \/ \E m \in Model : Execute(m)
  \/ RefuseAbi \/ EnvironmentFails \/ Open \/ Import \/ Prepare
  \/ ProveNonVacuity \/ TrialTimesOut \/ TrialConflicts \/ TrialFails
  \/ CompletionConcludes \/ EquivalenceConcludes
  \/ WitnessFails \/ WitnessParsed \/ Replay \/ Record

Spec == Init /\ [][Next]_vars
FairSpec == Spec /\ WF_vars(Next)
-----------------------------------------------------------------------------
(* Whatever stage failed or timed out, a row that claims a verdict claims  *)
(* one that is true: no failure is ever turned into a proof or into a      *)
(* refutation, and none of one model's verdicts ends up in the other's.    *)
VerdictsTrue ==
  \A m \in Model : \A k \in DOMAIN results[m] :
    LET s == results[m][k].status IN
    /\ s \in {"proven", "valid"} => Holds(m, k)
    /\ s = "falsified" => ~ Holds(m, k)

(* A confirmed replay is evidence that does not depend on the solver: on   *)
(* some input the two programs really end differently, though neither the  *)
(* witness parser nor the evaluator checks the model's domain.             *)
ConfirmedMeansDifferent ==
  \A m \in Model :
    (\E k \in DOMAIN results[m] : results[m][k].replayed)
      => /\ results[m]["equivalence"].status = "falsified"
         /\ \E i \in Input : world.out["old"][i] # world.out["new"][i]

(* Every planned model is brought to four terminal rows, whichever way its *)
(* stages end.                                                             *)
AllRecorded ==
  \A m \in Model : m \in world.planned ~> DOMAIN results[m] = Kind
=============================================================================
