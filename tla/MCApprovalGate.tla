--------------------------- MODULE MCApprovalGate ---------------------------
(* A repository without configured domains, with source that a gate          *)
(* fingerprints and a skill that only a release approval binds.              *)
EXTENDS ApprovalGate

CONSTANTS repository, source, skill

MCDomain == {repository}
MCOther == {source, skill}
MCWatched == {source}
\* Each path has two contents.  The second content of the constitution and of
\* the requirements is as good as the first, that of every other path is not.
MCVersion == 1..2
MCSound == [p \in Path |->
    IF p \in {Constitution, <<"requirements", repository>>} THEN {1, 2} ELSE {1}]
=============================================================================
