--------------------------- MODULE EvidenceMerge ---------------------------
(***************************************************************************)
(* What `evidence merge' makes of two evidence histories                   *)
(* (evidence-merge.ts: planEvidenceMerge, buildCandidates).  The roots are *)
(* worktrees of one repository; each records TDD phases, change phases,    *)
(* Quality checkpoints and waivers in its own history, and merges another  *)
(* root's history into its own.  How the four merged files replace the old *)
(* ones is module EvidenceTransaction: here they change in one step.       *)
(*                                                                         *)
(* A history is the order log, as a sequence of identities, and the        *)
(* payloads of tdd.json, changes.json and change-waivers.json, each with   *)
(* the sequence number of its order record.  A payload's content is the    *)
(* root that recorded it and what that root knew then: how many payloads   *)
(* of the identity, and how many Quality checkpoints.  Equal contents are  *)
(* what semanticEqual and waiverIdentity compare.                          *)
(*                                                                         *)
(* A command appends to the log and then writes its payload, in two        *)
(* writes under the root's lock; the lock of the root that is merged from  *)
(* is looked at but not held while its files are read.  Test ids, document *)
(* presence and file formats are left out, and waiver conditions: any      *)
(* scope may be waived at any time.  Runs are taken to be valid: one that  *)
(* is not, a failed Refactor say, is compared with less.                   *)
(***************************************************************************)
EXTENDS Naturals, Sequences, FiniteSets

CONSTANTS
    Root,        \* the worktrees
    Cycle,       \* ids for TDD cycles, random and so never chosen twice
    Req,         \* the requirements of the change
    Batches,     \* the requirement batches recorded
    BatchPhases, \* the phases of a batch in order, the first and the last at least
    Scope,       \* the waived diagnostics
    Trunks,      \* the histories the worktrees may have started from
    MaxAhead,    \* bound: records of a log with no payload of the trunk
    MaxRecords,  \* bound: length of an order log
    None         \* no write outstanding, and the root the trunk came from

\* TDD_PHASES
TddKind == {"tdd:red", "tdd:green", "tdd:refactor", "tdd:migrate", "tdd:void", "tdd:archive"}

ASSUME RootAssumption == None \notin Root
ASSUME BatchesAssumption ==
    /\ Batches \subseteq SUBSET Req
    /\ BatchPhases \in Seq({BatchPhases[n] : n \in DOMAIN BatchPhases})
    /\ Len(BatchPhases) > 1
    /\ \A m, n \in DOMAIN BatchPhases : BatchPhases[m] = BatchPhases[n] => m = n
    /\ \A n \in DOMAIN BatchPhases :
          BatchPhases[n] \notin TddKind \cup {"quality", "waiver"}
ASSUME BoundsAssumption == MaxAhead \in Nat /\ MaxRecords \in Nat

VARIABLES
    hist,    \* the evidence of each root: [log, held]
    pending  \* the identity each root has logged and not yet written

mergeVars == <<hist, pending>>

PhaseOf(n) == BatchPhases[n]
LastPhase == PhaseOf(Len(BatchPhases))

\* TDD phases of a cycle, phases of a batch, ordinals of Quality, waivers.
TddId == TddKind \X Cycle
BatchId == {PhaseOf(n) : n \in DOMAIN BatchPhases} \X Batches
QualityId == {"quality"} \X (1..MaxRecords)
WaiverId == {"waiver"} \X Scope
Id == TddId \cup BatchId \cup QualityId \cup WaiverId

\* `listed' is the order a relink repeats in migrateHistory; of any other
\* payload it is the order itself.
Authored == (Root \cup {None}) \X (1..MaxRecords) \X (0..MaxRecords)
Payload == [id : Id, at : Authored,
            order : 1..MaxRecords, listed : 1..MaxRecords]

MergeInit ==
    /\ \E trunk \in Trunks : hist = [r \in Root |-> trunk]
    /\ pending = [r \in Root |-> None]

IsWaiver(id) == id \in WaiverId
Of(h, id) == {p \in h.held : p.id = id}
Holds(h, id) == Of(h, id) # {}
Logs(h, id) == \E i \in DOMAIN h.log : h.log[i] = id
OrderOf(h, id) == (CHOOSE p \in Of(h, id) : TRUE).order

\* payloadFor: a waiver is found by its order, anything else by its identity.
Paid(h, i) == {p \in Of(h, h.log[i]) : IsWaiver(p.id) => p.order = i}

\* qualityLineage: the checkpoints, the last of which is authoritative.
Ordinals(h) == {n \in 1..MaxRecords : Holds(h, <<"quality", n>>)}
Authoritative(h) == OrderOf(h, <<"quality", Cardinality(Ordinals(h))>>)

\* batchFor: of the batches of q, the one with the latest Red.
IsCurrent(h, q, b) ==
    LET red(x) == <<PhaseOf(1), x>>
    IN /\ q \in b
       /\ Holds(h, red(b))
       /\ \A x \in Batches : q \in x /\ Holds(h, red(x)) =>
              OrderOf(h, red(x)) <= OrderOf(h, red(b))

-----------------------------------------------------------------------------
(* Recording in one root                                                   *)

\* What has to be recorded first.
Prerequisite ==
    {<<<<"tdd:red", c>>, <<kind, c>>>> : kind \in {"tdd:green", "tdd:void", "tdd:archive"}, c \in Cycle}
    \cup {<<<<"tdd:green", c>>, <<kind, c>>>> : kind \in {"tdd:refactor", "tdd:migrate"}, c \in Cycle}
    \cup {<<<<PhaseOf(n - 1), b>>, <<PhaseOf(n), b>>>> :
              n \in 2..Len(BatchPhases), b \in Batches}

\* A voided or archived cycle.
Marked(h, c) == Holds(h, <<"tdd:void", c>>) \/ Holds(h, <<"tdd:archive", c>>)

\* What runTddPhase, the migrations, void, archive and recordChangePhase ask of
\* the recorded phases.  A Refactor may follow a relink.
Acceptable(r, id) ==
    LET h == hist[r]
        kind == id[1]
    IN /\ kind = "tdd:red" => \A s \in Root : ~Logs(hist[s], id)
       /\ \A step \in Prerequisite : step[2] = id => Holds(h, step[1])
       /\ kind \in {"tdd:void", "tdd:archive"} => ~Marked(h, id[2])
       /\ kind = "tdd:void" =>
              /\ ~Holds(h, <<"tdd:green", id[2]>>)
              /\ \E c \in Cycle : Holds(h, <<"tdd:green", c>>) /\ ~Marked(h, c)
       /\ kind = "tdd:migrate" => ~Holds(h, <<"tdd:archive", id[2]>>)
       /\ kind = "quality" =>
              /\ id[2] = 1
              /\ \A q \in Req : \E b \in Batches : q \in b /\ Holds(h, <<LastPhase, b>>)

\* appendEvidenceOrder: an identity once, but for waivers.
Appendable(h, id) ==
    /\ Logs(h, id) => IsWaiver(id)
    /\ Len(h.log) - Cardinality({p \in h.held : p.at[1] = None}) < MaxAhead

\* The payload of the last record of the log.
Written(h, r, id) ==
    [id |-> id, at |-> <<r, Cardinality(Of(h, id)) + 1, Cardinality(Ordinals(h))>>,
     order |-> Len(h.log), listed |-> Len(h.log)]

Recordable(r) == {id \in Id : Acceptable(r, id) /\ Appendable(hist[r], id)}

LogRecord(r, id) ==
    /\ pending[r] = None
    /\ id \in Recordable(r)
    /\ hist' = [hist EXCEPT ![r].log = Append(@, id)]
    /\ pending' = [pending EXCEPT ![r] = id]

WritePayload(r) ==
    /\ pending[r] # None
    /\ hist' = [hist EXCEPT ![r].held = @ \cup {Written(hist[r], r, pending[r])}]
    /\ pending' = [pending EXCEPT ![r] = None]

\* The command is killed, or its second write fails; the lock is recovered.
LosePayload(r) ==
    /\ pending[r] # None
    /\ pending' = [pending EXCEPT ![r] = None]
    /\ UNCHANGED hist

\* A Quality exists, the current batch of every requirement is Green, and one
\* of these Greens is newer.
Refreshable(h) ==
    LET last(b) == <<LastPhase, b>>
        current(q) == {b \in Batches : IsCurrent(h, q, b) /\ Holds(h, last(b))}
    IN /\ Ordinals(h) # {}
       /\ \A q \in Req : current(q) # {}
       /\ \E q \in Req : \E b \in current(q) : OrderOf(h, last(b)) > Authoritative(h)

\* refreshQuality writes both files in one transaction.
RefreshQuality(r) ==
    LET h == hist[r]
        next == <<"quality", Cardinality(Ordinals(h)) + 1>>
        logged == [h EXCEPT !.log = Append(@, next)]
    IN /\ pending[r] = None
       /\ r \in {x \in Root : Refreshable(hist[x])}
       /\ Appendable(h, next)
       /\ hist' = [hist EXCEPT ![r] = [logged EXCEPT !.held = @ \cup {Written(logged, r, next)}]]
       /\ UNCHANGED pending

-----------------------------------------------------------------------------
(* The plan of a merge: which record of the base is which of the incoming  *)

\* Wrong variant: waivers are never matched.
SameButWaivers(base, j, inc, i) ==
    base.log[j] = inc.log[i] /\ ~IsWaiver(inc.log[i])

\* orderKey: an unpaired waiver record is the same as no other.
Same(base, j, inc, i) ==
    /\ base.log[j] = inc.log[i]
    /\ IsWaiver(inc.log[i]) =>
           \E p \in Paid(base, j), q \in Paid(inc, i) : p.at = q.at

Matches(base, inc, i) == {j \in DOMAIN base.log : Same(base, j, inc, i)}

\* The records to append, as places of the incoming log.
Fresh(base, inc) == {i \in DOMAIN inc.log : Matches(base, inc, i) = {}}

\* incomingOrderMap: the place of the record it matches, or the next free one.
OrderMap(base, inc) ==
    [i \in DOMAIN inc.log |->
        IF Matches(base, inc, i) # {}
        THEN CHOOSE j \in Matches(base, inc, i) : TRUE
        ELSE Len(base.log) + Cardinality({k \in Fresh(base, inc) : k <= i})]

\* Wrong variant: a payload that was renumbered is taken for another one.
DivergentInPlace(base, inc) ==
    \E i \in DOMAIN inc.log : \E j \in Matches(base, inc, i) :
        \E p \in Paid(base, j), q \in Paid(inc, i) : p.at # q.at \/ p.order # q.order

\* `Matching logical evidence has divergent payloads.'
Divergent(base, inc) ==
    \E i \in DOMAIN inc.log : \E j \in Matches(base, inc, i) :
        \E p \in Paid(base, j), q \in Paid(inc, i) : p.at # q.at

\* Wrong variant: a merge may reorder what it shares with the incoming root.
InvertingNever(base, inc) == FALSE

\* `Deduplication would invert incoming chronology.'
Inverting(base, inc) ==
    LET map == OrderMap(base, inc)
    IN \E i \in 2..Len(inc.log) : map[i] <= map[i - 1]

-----------------------------------------------------------------------------
(* The candidate                                                           *)

\* Wrong variant: a payload is dropped where the base logged its record.
KeptUnlogged(base, inc) == {p \in inc.held : Matches(base, inc, p.order) = {}}

\* mergeTdd, mergeChanges and mergeWaivers take what the base lacks.
Kept(base, inc) ==
    {p \in inc.held : ~\E q \in Of(base, p.id) : IsWaiver(p.id) => q.at = p.at}

\* A cycle the base lacks is cloned, migrateHistory and all; a phase it lacks
\* is filled in alone.
IsCloned(base, p) == p.id[1] = "tdd:migrate" /\ ~Holds(base, <<"tdd:red", p.id[2]>>)

\* rewritePhase, which does not look into migrateHistory.
Rewritten(base, map, p) ==
    [p EXCEPT !.order = map[p.order],
              !.listed = IF IsCloned(base, p) THEN p.listed ELSE map[p.order]]

\* buildOrder and the merged payloads.
Merged(base, inc) ==
    LET map == OrderMap(base, inc)
        appended(n) == inc.log[CHOOSE i \in Fresh(base, inc) : map[i] = Len(base.log) + n]
    IN [log |-> base.log \o [n \in 1..Cardinality(Fresh(base, inc)) |-> appended(n)],
        held |-> base.held \cup {Rewritten(base, map, p) : p \in Kept(base, inc)}]

\* A payload is where its order says.
Paired(h, p) == p.order \in DOMAIN h.log /\ h.log[p.order] = p.id
ListedPaired(h, p) == p.listed \in DOMAIN h.log /\ h.log[p.listed] = p.id

\* `Quality order identity is orphaned or malformed.', of a recorded change.
QualityPaired(h) ==
    (\E id \in BatchId \cup QualityId : Holds(h, id)) =>
        \A i \in DOMAIN h.log : h.log[i] \in QualityId => Holds(h, h.log[i])

\* loadHistory and validateInputEntities: the three files are there, and
\* every payload pairs with an order record.
ValidInput(h) ==
    /\ \E id \in TddId : Holds(h, id)
    /\ \E id \in BatchId \cup QualityId : Holds(h, id)
    /\ \A p \in h.held : Paired(h, p) /\ ListedPaired(h, p)
    /\ QualityPaired(h)

\* Two identities whose orders may not be inverted, with the order compared.
Ascends(h, earlier, later) ==
    \A p \in Of(h, earlier), q \in Of(h, later) : p.order < q.listed

TddInOrder(h) ==
    \A c \in Cycle :
        /\ Ascends(h, <<"tdd:red", c>>, <<"tdd:green", c>>)
        /\ Ascends(h, <<"tdd:green", c>>, <<"tdd:refactor", c>>)
        /\ Ascends(h, <<"tdd:green", c>>, <<"tdd:migrate", c>>)
        /\ Ascends(h, <<"tdd:refactor", c>>, <<"tdd:migrate", c>>)

PhasesInOrder(h) ==
    \A b \in Batches : \A n \in 2..Len(BatchPhases) :
        Ascends(h, <<PhaseOf(n - 1), b>>, <<PhaseOf(n), b>>)

\* Wrong variant: the phases of the whole change only.
QualityLastOfChange(h) ==
    Ordinals(h) # {} =>
        \A id \in BatchId :
            Holds(h, id) /\ id[2] = Req => OrderOf(h, id) < Authoritative(h)

\* validateQualityOrder, and CHANGE_PHASE_ORDER of the last phase.
QualityLast(h) ==
    Ordinals(h) # {} =>
        \A id \in BatchId : Holds(h, id) => OrderOf(h, id) < Authoritative(h)

\* validateCandidateReferences.
ValidCandidate(h) ==
    /\ \A p \in h.held : Paired(h, p)
    /\ QualityPaired(h)
    /\ TddInOrder(h) /\ PhasesInOrder(h) /\ QualityLast(h)

Mergeable(base, inc) ==
    /\ ValidInput(base) /\ ValidInput(inc)
    /\ ~Divergent(base, inc) /\ ~Inverting(base, inc)
    /\ ValidCandidate(Merged(base, inc))

-----------------------------------------------------------------------------
\* The roots whose evidence, as it can be read now, merges into that of r.
Sources(r) ==
    {s \in Root \ {r} : /\ Mergeable(hist[r], hist[s])
                        /\ Len(Merged(hist[r], hist[s]).log) <= MaxRecords}

\* mergeEvidenceHistories.
Merge(r, s) ==
    /\ pending[r] = None
    /\ UNCHANGED pending
    /\ s \in Sources(r)
    /\ hist' = [hist EXCEPT ![r] = Merged(hist[r], hist[s])]

\* The roots that have all that the root s has.
Descendants(s) ==
    {r \in Root \ {s} :
        /\ \A p \in hist[s].held : \E q \in Of(hist[r], p.id) : p.at = q.at
        /\ \A i \in DOMAIN hist[s].log : Logs(hist[r], hist[s].log[i])}

\* The worktree s moves on to the evidence of r.
Adopt(s, r) ==
    /\ pending[r] = None /\ pending[s] = None
    /\ r \in Descendants(s)
    /\ hist' = [hist EXCEPT ![s] = hist[r]]
    /\ UNCHANGED pending

MergeNext ==
    \E r \in Root :
        \/ \E id \in Id : LogRecord(r, id)
        \/ WritePayload(r) \/ LosePayload(r) \/ RefreshQuality(r)
        \/ \E s \in Root : Merge(r, s) \/ Adopt(r, s)

MergeSpec == MergeInit /\ [][MergeNext]_mergeVars

-----------------------------------------------------------------------------
Known(h, id, at) == \E p \in Of(h, id) : p.at = at

\* Every record of the one has a record of the other before it.
Precedes(h, earlier, later) ==
    \A q \in Of(h, later) : \E p \in Of(h, earlier) : p.order < q.order

\* Work recorded behind the authoritative Quality knew of it.
LateWorkKnew(h) ==
    Ordinals(h) # {} =>
        \A p \in h.held :
            p.id \in BatchId /\ p.order > Authoritative(h) =>
                p.at[3] >= Cardinality(Ordinals(h))

\* Payloads are where their orders say, one for each record; identities are
\* logged once, but for waivers.
Filed(h) ==
    /\ h = [log |-> h.log, held |-> h.held]
    /\ h.log \in Seq(Id) /\ h.held \subseteq Payload
    /\ \A p \in h.held :
          Paired(h, p) /\ (p.id[1] # "tdd:migrate" => p.listed = p.order)
    /\ \A p, q \in h.held : p.order = q.order => p = q
    /\ \A p, q \in h.held : p.id = q.id /\ p.at = q.at => p = q
    /\ \A i, j \in DOMAIN h.log : h.log[i] = h.log[j] /\ ~IsWaiver(h.log[i]) => i = j

\* What had to be there first is there first.
Built(h) ==
    /\ \A step \in Prerequisite : Precedes(h, step[1], step[2])
    /\ \A m, n \in 1..MaxRecords : m < n => Precedes(h, <<"quality", m>>, <<"quality", n>>)

\* What recording one thing after another makes of a history.
Sound(h) == Filed(h) /\ Built(h) /\ LateWorkKnew(h)

\* The worktrees start from a history that was recorded, by nobody of them.
ASSUME TrunksAssumption ==
    \A trunk \in Trunks :
        /\ Sound(trunk)
        /\ \A p \in trunk.held : p.at[1] = None
        /\ Len(trunk.log) <= MaxRecords
        /\ Cardinality(trunk.held) + MaxAhead <= MaxRecords

\* Orphan waiver records: what a killed `change waiver' leaves in the log.
Orphan(h, i) == IsWaiver(h.log[i]) /\ Paid(h, i) = {}

MergeTypeOK ==
    /\ \A r \in Root :
          /\ hist[r].log \in Seq(Id)
          /\ Len(hist[r].log) <= MaxRecords
          /\ hist[r].held \subseteq Payload
    /\ pending \in [Root -> Id \cup {None}]

\* A batch phase that a history has behind its authoritative Quality was
\* recorded by a root that had this checkpoint: a merge never appends work to a
\* checkpoint that its author did not know of (EVIDENCE_MERGE_QUALITY_ORDER).
LateWorkKnewQuality == \A r \in Root : LateWorkKnew(hist[r])

\* What tells the records of two logs apart.
Entry(h, i) == <<h.log[i], {p.at : p \in {x \in Paid(h, i) : IsWaiver(x.id)}}>>

\* The base has a record of the incoming root without, before it, one that
\* precedes it there.
Inverts(base, inc) ==
    \E i, k \in DOMAIN inc.log, j \in DOMAIN base.log :
        /\ i < k
        /\ Entry(base, j) = Entry(inc, k)
        /\ \A m \in 1..j : Entry(base, m) # Entry(inc, i)

\* Both recorded the same phase, each in its own way.
Conflicts(base, inc) ==
    \E p \in base.held, q \in inc.held : p.id = q.id /\ p.at # q.at /\ ~IsWaiver(p.id)

\* The base, or what it would append, has batch work behind the last Quality.
Overtakes(base, inc) ==
    \/ \E h \in {base, inc} : Ordinals(h) # {} /\
          \E p \in h.held : p.id \in BatchId /\ p.order > Authoritative(h)
    \/ /\ Ordinals(base) # {} /\ Ordinals(inc) \subseteq Ordinals(base)
       /\ \E p \in inc.held : p.id \in BatchId /\ ~Known(base, p.id, p.at)

\* A relink of a cloned cycle that is to move while its migrateHistory is not.
Displaced(base, inc, p) == IsCloned(base, p) /\ p.listed # OrderMap(base, inc)[p.order]

\* A Refactor is behind the record of a relink of its cycle, or would be
\* appended behind that of the base.
Outruns(base, inc) ==
    \E c \in Cycle :
        LET relink == <<"tdd:migrate", c>>
            refactor == <<"tdd:refactor", c>>
        IN \/ \E h \in {base, inc} : \E p \in Of(h, refactor) : \E i \in DOMAIN h.log :
                  h.log[i] = relink /\ i < p.order
           \/ Logs(base, relink) /\ \E p \in Of(inc, refactor) : ~Known(base, p.id, p.at)

\* Two histories that can be read merge, unless they conflict (REQ-003), would
\* change the chronology of one of them or put work behind a Quality (REQ-002).
\* There are three exceptions.  A Refactor behind a relink can be recorded, and
\* is refused in every candidate (TDD_ORDER_SEQUENCE).  An orphan waiver record
\* of the incoming root: where it lies before a shared record, in a history both
\* worktrees started from, every merge between them is refused as an inversion
\* although nothing is out of order.  And a cycle that the base lacks, with a
\* relink that the merge moves: the order in its migrateHistory is not
\* rewritten, and may come to lie before the Green.
RefusedForReason ==
    \A r, s \in Root :
        r # s /\ ValidInput(hist[r]) /\ ValidInput(hist[s]) /\ ~Mergeable(hist[r], hist[s]) =>
            \/ \E i \in DOMAIN hist[s].log : Orphan(hist[s], i)
            \/ \E p \in Kept(hist[r], hist[s]) : Displaced(hist[r], hist[s], p)
            \/ Inverts(hist[r], hist[s])
            \/ Conflicts(hist[r], hist[s])
            \/ Overtakes(hist[r], hist[s])
            \/ Outruns(hist[r], hist[s])

\* "The assigned merged sequence must be strictly increasing when traversing
\* each input's pre-merge order" (evidence-history-merge requirements.md:31):
\* of two payloads of either history, the earlier is the earlier in what the
\* merge makes of them.
ChronologyKept ==
    [][\A r, s \in Root : Merge(r, s) =>
          \A h \in {hist[r], hist[s]} : \A p, q \in h.held : p.order < q.order =>
              \A x \in Of(hist'[r], p.id), y \in Of(hist'[r], q.id) :
                  x.at = p.at /\ y.at = q.at => x.order < y.order]_mergeVars

\* A merge keeps the base's payloads where they are and takes every payload of
\* the other root, and nothing a root has recorded ever disappears from it.
NothingLost ==
    [][\A r \in Root :
          /\ \A p \in hist[r].held : Known(hist'[r], p.id, p.at)
          /\ \A s \in Root \ {r} : Merge(r, s) =>
                /\ hist[r].held \subseteq hist'[r].held
                /\ \A p \in hist[s].held : Known(hist'[r], p.id, p.at)]_mergeVars

\* A merge that is repeated, say because its report was lost, is accepted and
\* changes nothing, as long as the incoming root has no orphan waiver record,
\* which are appended anew every time, or refused, and the first merge has left
\* no order of a relink that the next one cannot read.
RepeatHarmless ==
    [][\A r, s \in Root :
          /\ Merge(r, s)
          /\ \A i \in DOMAIN hist[s].log : ~Orphan(hist[s], i)
          /\ \A p \in hist'[r].held : ListedPaired(hist'[r], p)
          =>
              Mergeable(hist'[r], hist[s]) /\ Merged(hist'[r], hist[s]) = hist'[r]]_mergeVars

\* "every retained TDD phase, migrate, and void `order` points to its
\* corresponding merged order record" (evidence-history-merge
\* requirements.md:24): the order a relink repeats in migrateHistory, too.
RelinksRepointed == \A r \in Root : \A p \in hist[r].held : ListedPaired(hist[r], p)
=============================================================================
