-------------------------- MODULE SemanticVerdict --------------------------
(***************************************************************************)
(* The backend's rows put through the policy: what a pair's classification *)
(* says about the two programs.                                            *)
(***************************************************************************)
EXTENDS BlasterBackend

\* Every planned model has its rows.
Finished == \A m \in world.planned : results[m] # NoRows

LedgerComplete == ModelComplete(results["ledger"])
Raw == RawClassification(results["raw"], FALSE)
Classification == FinalClassification(Raw, LedgerComplete)

\* The two programs end alike on every input the model admits.
AgreeOn(m) ==
  \A i \in world.domain[m] : world.out["old"][i] = world.out["new"][i]
-----------------------------------------------------------------------------
(* A changed pair that strict accepts really is equivalent on a non-empty  *)
(* raw domain, within the bound and beyond it: the completion theorems     *)
(* make up for an equivalence theorem that takes two exhausted runs for    *)
(* equal, and no ledger result stands in for a raw one.                    *)
StrictIsSound ==
  Finished /\ Classification \in StrictAccepted
    => AgreeOn("raw") /\ world.domain["raw"] # {}

(* An off-ledger difference is what its name says: the programs agree on   *)
(* every ledger-valid input, and the raw model told them apart.            *)
OffLedgerIsOffLedger ==
  Finished /\ Classification = "off_ledger_difference"
    => /\ AgreeOn("ledger") /\ world.domain["ledger"] # {}
       /\ ~ Holds("raw", "equivalence")

(* README.md: "A solver-valid non-identical pair is promoted to            *)
(* equivalent_under_raw_model only when [both completion theorems are      *)
(* proved].  Without both completion proofs it remains                     *)
(* bounded_equivalent": bounded_equivalent is said of solver-valid pairs.  *)
BoundedMeansSolverValid ==
  Finished /\ Classification = "bounded_equivalent"
    => Has(results["raw"], "equivalence", "valid")
=============================================================================
