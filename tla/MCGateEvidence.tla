--------------------------- MODULE MCGateEvidence ---------------------------
(* A small instance of GateEvidence: with a mutation command, and a source *)
(* whose first edit breaks the tests.                                      *)
EXTENDS GateEvidence

MCFlawed == {1}
=============================================================================
