---------------------------- MODULE PolicyRules ----------------------------
(***************************************************************************)
(* How obligation results become a pair's classification, and which        *)
(* classifications strict accepts.                                         *)
(*                                                                         *)
(* A model's rows are a function from the obligation kinds that have a     *)
(* result to [status, replayed]; a kind outside its domain has none.  Raw  *)
(* and ledger models name their non-vacuity and equivalence kinds          *)
(* differently in the code and play the same part.                         *)
(***************************************************************************)
Kind == {"nonVacuity", "old", "new", "equivalence"}
Completion == {"old", "new"}

\* _terminal_status never answers anything else.
TerminalStatus ==
  {"proven", "valid", "falsified", "inconclusive", "timeout", "unsupported",
   "bounded", "invalid", "tool_error"}
Row  == [status : TerminalStatus, replayed : BOOLEAN]
Rows == UNION {[K -> Row] : K \in SUBSET Kind}
NoRows == [k \in {} |-> k]

Has(rows, k, s) == k \in DOMAIN rows /\ rows[k].status = s

\* A plausible mistake: completion proofs are not asked for.
ModelValid(rows) ==
  Has(rows, "equivalence", "valid") /\ Has(rows, "nonVacuity", "proven")

\* The four obligations of one model are all met.
ModelComplete(rows) ==
  /\ Has(rows, "equivalence", "valid")
  /\ Has(rows, "nonVacuity", "proven")
  /\ \A k \in Completion : Has(rows, k, "proven")

\* The elif chain over the raw model's results.  missing: some obligation of
\* the pair, of either model, has no result.
RawClassification(rows, missing) ==
  IF missing \/ "equivalence" \notin DOMAIN rows THEN "missing_evidence"
  ELSE IF rows["equivalence"].status = "falsified"
    THEN IF rows["equivalence"].replayed THEN "confirmed_non_equivalent"
                                         ELSE "blaster_falsified_unreplayed"
  ELSE IF \E k \in Completion : Has(rows, k, "falsified")
    THEN "bounded_equivalent"
  ELSE IF ModelComplete(rows) THEN "equivalent_under_raw_model"
  ELSE IF \E k \in Kind : Has(rows, k, "unsupported") THEN "unsupported"
  ELSE IF \E k \in Kind : Has(rows, k, "timeout") THEN "timeout"
  ELSE "inconclusive"

Difference == {"confirmed_non_equivalent", "blaster_falsified_unreplayed"}

\* A plausible mistake: a ledger model vouches for the pair.
LedgerVouches(raw, ledgerComplete) ==
  IF ledgerComplete THEN "equivalent_under_raw_model" ELSE raw

\* A complete ledger model renames a difference; it changes nothing else.
FinalClassification(raw, ledgerComplete) ==
  IF ledgerComplete /\ raw \in Difference THEN "off_ledger_difference" ELSE raw

StrictAccepted ==
  {"equivalent_under_raw_model", "expected_negative_diagnostic", "identical",
   "not_applicable"}
=============================================================================
