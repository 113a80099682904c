-------------------------- MODULE MCCandidateGate --------------------------
(* Gates that need the same two batches, in the order every gate sorts      *)
(* them, and a last one that needs the second only.                         *)
EXTENDS CandidateGate

CONSTANTS gLast, b1, b2

MCSchedule == [g \in Gate |-> IF g = gLast THEN <<b2>> ELSE <<b1, b2>>]
=============================================================================
