-------------------------- MODULE MCEvidenceStore --------------------------
(* A small instance of EvidenceStore: an attempt is named by the process    *)
(* and the operation that wrote it.                                         *)
EXTENDS EvidenceStore


MCAttempt == Proc \X (1 .. 2)
=============================================================================
