-------------------------- MODULE MCEvidenceMerge --------------------------
(***************************************************************************)
(* Instances of EvidenceMerge for TLC: two worktrees of one repository,    *)
(* one change of two requirements with a batch of both and a batch of one, *)
(* and the Red and Green of each.                                          *)
(***************************************************************************)
EXTENDS EvidenceMerge, TLC

TwoBatches == {Req, {CHOOSE q \in Req : TRUE}}
RedGreen == <<"red", "green">>

\* The history whose records are these identities, all but the orphans paid.
History(log, orphans) ==
    [log |-> log,
     held |-> {[id |-> log[i], order |-> i, listed |-> i,
                at |-> <<None, 1, Cardinality({j \in 1..(i - 1) : log[j][1] = "quality"})>>] :
                  i \in (DOMAIN log) \ orphans}]

Start == {<<"tdd:red", c>> : c \in Cycle}
Begun == <<CHOOSE id \in Start : TRUE, <<"red", Req>>>>
Checked == Append(Append(Begun, <<"green", Req>>), <<"quality", 1>>)
Waiver == <<"waiver", CHOOSE w \in Scope : TRUE>>

Continued == Append(Checked, <<"red", CHOOSE b \in TwoBatches : b # Req>>)

Turned == Append(Begun, <<"tdd:green", CHOOSE c \in Cycle : TRUE>>)

\* A change begun, one begun after a killed `change waiver', one checked, one
\* with a second batch begun since, and one with a cycle to refactor or relink.
FiveTrunks ==
    {History(Begun, {}), History(<<Waiver>> \o Begun, {1}), History(Checked, {}),
     History(Continued, {}), History(Turned, {})}

\* No cycle is archived: no order is compared with that of an archive.  A cycle
\* that was Green at the start, and no other, is refactored or relinked, and
\* then nothing else is recorded.
MCNext ==
    /\ MergeNext
    /\ \A r \in Root : pending'[r] # None =>
           LET kind == pending'[r][1]
           IN /\ kind # "tdd:archive"
              /\ kind \in {"tdd:refactor", "tdd:migrate"} <=>
                     \E c \in Cycle : \E p \in Of(hist[r], <<"tdd:green", c>>) : p.at[1] = None

MCSpec == MergeInit /\ [][MCNext]_mergeVars

OneTrunk == {History(Begun, {})}
OneBatch == {Req}

Symmetry == Permutations(Root)
=============================================================================
