-------------------------- MODULE EvidenceRecords --------------------------
(***************************************************************************)
(* The vocabulary the evidence store and its callers share.                *)
(*                                                                         *)
(* A key stands for one (checker configuration, logical obligation) pair,  *)
(* a boundary for the remaining fields of the reuse boundary, and an       *)
(* attempt for the whole payload one execution wrote.  A record is whole   *)
(* when every content check of _verify_entry accepts it; otherwise its     *)
(* state says why they refuse it: the caller built it wrong (invalid), its *)
(* files never reached stable storage (torn) or they changed since         *)
(* (rotten).                                                               *)
(***************************************************************************)
CONSTANTS Proc, Key, Boundary, Attempt, NoEntry, NoRequest, NoOutcome

RecordState == {"whole", "invalid", "torn", "rotten"}
Record  == [attempt : Attempt, boundary : Boundary, state : RecordState]
Request == [op : {"load", "verify", "quarantine"}, key : Key, boundary : Boundary]
             \cup [op : {"put"}, key : Key, record : Record]
Answer  == {"hit", "miss", "moved", "stored", "reused", "raised"}
Outcome == [answer : Answer, key : Key, record : Record \cup {NoEntry}]

ASSUME NoneAssumption ==
  NoEntry \notin Record /\ NoRequest \notin Request /\ NoOutcome \notin Outcome

\* The boundary the request expects: put derives it from the record it is given.
Expected(r) == IF r.op = "put" THEN r.record.boundary ELSE r.boundary

\* The record passes _verify_entry for a caller that expects boundary b.
Verifies(e, b) == e # NoEntry /\ e.state = "whole" /\ e.boundary = b

Rotten(e) == [e EXCEPT !.state = "rotten"]
=============================================================================
