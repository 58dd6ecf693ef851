----------------------- MODULE MCEvidenceTransaction -----------------------
(***************************************************************************)
(* Instances of EvidenceTransaction for TLC: three files, of which a merge *)
(* replaces all (tdd.json behaves as changes.json) and a refresh two.      *)
(***************************************************************************)
EXTENDS EvidenceTransaction

MCTarget == {"order", "changes", "waivers"}
MCReplaces == [merge |-> MCTarget, quality |-> {"order", "changes"}]
MCOptional == {"waivers"}

\* "changes" plays the same part as "order" in everything but these: single
\* files are recorded in "order" and "waivers" only.
MCNext == Next /\ ~Write("changes")

MCSpec == Init /\ [][MCNext]_vars /\ Fairness
=============================================================================
