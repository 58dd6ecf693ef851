--------------------------- MODULE ChangeRecord ---------------------------
(***************************************************************************)
(* The chronology of one staged change: recordChangePhase (change.ts)      *)
(* appends a phase to the shared order log (order.ts) and then writes it,  *)
(* with its sequence number, to changes.json; the validator compares the   *)
(* two files again later.                                                  *)
(*                                                                         *)
(* The two files are two writes under one writer lock (module WriterLock): *)
(* a kill, or an error of the second write, leaves the first.  A Quality   *)
(* refresh replaces both files in one step (module EvidenceTransaction).   *)
(*                                                                         *)
(* Fingerprints are left out: whether the work tree changed since the      *)
(* baseline of a phase is the caller's choice, and a phase rejected as     *)
(* unchanged writes nothing.                                               *)
(***************************************************************************)
EXTENDS Naturals, Sequences

CONSTANTS
    Req,      \* the requirement ids declared on the change
    Other,    \* phases of other changes and TDD cycles in the same log
    MaxLog,   \* bound: length of the order log
    Crashes,  \* TRUE when a command may end between its two writes
    None      \* no write outstanding

BatchPhase == {"red", "implementation", "green"}
Batch == (SUBSET Req) \ {{}}

\* A place in changes.json, and the identity of its order record: a phase of
\* the whole change (phases), or of a requirement batch (tddBatches; the batch
\* of all requirements is the one kept in phases).
Slot == ({"impact", "requirements", "design"} \X {Req}) \cup (BatchPhase \X Batch)

\* qualityIdentity: `quality', then `quality:2', `quality:3', ...
QualityIdentity(ordinal) == <<"quality", ordinal>>
Identity == Slot \cup ({"quality"} \X Nat) \cup ({"other"} \X Other)

ASSUME ReqAssumption == Req # {}
ASSUME ChangeBoundAssumption == MaxLog \in Nat /\ Crashes \in BOOLEAN
ASSUME NoneIsNoIdentity == None \notin Identity

VARIABLES
    log,      \* order.json: identities in append order
    at,       \* changes.json: sequence number of each recorded slot, or 0
    quality,  \* phases.quality: its sequence number, or 0
    history,  \* qualityHistory: sequence numbers of the superseded checkpoints
    pending   \* identity appended to the log and not yet in changes.json

vars == <<log, at, quality, history, pending>>

Init ==
    /\ log = <<>>
    /\ at = [s \in Slot |-> 0]
    /\ quality = 0
    /\ history = <<>>
    /\ pending = None

Logged(identity) == \E i \in DOMAIN log : log[i] = identity
Recorded(phase, reqs) == at[<<phase, reqs>>] # 0
Order(phase, reqs) == at[<<phase, reqs>>]

\* qualityLineage
Lineage == IF quality = 0 THEN history ELSE Append(history, quality)

\* batchFor: of the batches of q, the one with the latest Red.
IsCurrent(q, reqs) ==
    /\ q \in reqs
    /\ Recorded("red", reqs)
    /\ \A other \in Batch : q \in other => Order("red", other) <= Order("red", reqs)

-----------------------------------------------------------------------------
(* What recordChangePhaseUnlocked checks before it writes                  *)

\* The phase that must precede, of the change or of the same batch.
Prerequisite(phase, reqs) ==
    /\ phase = "requirements"   => Recorded("impact", Req)
    /\ phase = "design"         => Recorded("requirements", Req)
    /\ phase = "red"            => Recorded("design", Req)
    /\ phase = "implementation" => Recorded("red", reqs)
    /\ phase = "green"          => Recorded("implementation", reqs)

\* Each phase once for the change and once for each batch.
Acceptable(slot) == at[slot] = 0 /\ Prerequisite(slot[1], slot[2])

\* Wrong variant: the Green of some requirement is enough.
QualityOfSome ==
    /\ quality = 0
    /\ \E q \in Req, reqs \in Batch : q \in reqs /\ Recorded("green", reqs)

\* The first Quality wants a Green of any batch for every requirement.
QualityAcceptable ==
    /\ quality = 0
    /\ \A q \in Req : \E reqs \in Batch : q \in reqs /\ Recorded("green", reqs)

\* validateQualityLineageForRefresh: every checkpoint paired with its ordinal
\* identity, orders ascending, and no other Quality identity in the log.
LineagePaired ==
    /\ \A n \in DOMAIN Lineage :
          /\ Lineage[n] \in DOMAIN log
          /\ log[Lineage[n]] = QualityIdentity(n)
          /\ \A m \in 1..(n - 1) : Lineage[m] < Lineage[n]
    /\ \A i \in DOMAIN log :
          log[i][1] = "quality" => \E n \in DOMAIN Lineage : log[i] = QualityIdentity(n)

\* refreshQuality wants the current batch of every requirement Green, and one
\* of those Greens after the authoritative Quality.
RefreshAcceptable ==
    /\ quality # 0
    /\ LineagePaired
    /\ \A q \in Req : \E reqs \in Batch : IsCurrent(q, reqs) /\ Recorded("green", reqs)
    /\ \E q \in Req, reqs \in Batch : IsCurrent(q, reqs) /\ Order("green", reqs) > quality

-----------------------------------------------------------------------------
(* The two writes                                                          *)

\* Wrong variant: the log takes an identity again.
PushAgain(identity) ==
    /\ pending = None
    /\ Len(log) < MaxLog
    /\ log' = Append(log, identity)

\* appendEvidenceOrder: an identity appears once in the log.
Push(identity) ==
    /\ pending = None
    /\ ~Logged(identity)
    /\ Len(log) < MaxLog
    /\ log' = Append(log, identity)

RecordPhase(slot) ==
    /\ Acceptable(slot)
    /\ Push(slot)
    /\ pending' = slot
    /\ UNCHANGED <<at, quality, history>>

RecordQuality ==
    /\ QualityAcceptable
    /\ Push(QualityIdentity(1))
    /\ pending' = QualityIdentity(1)
    /\ UNCHANGED <<at, quality, history>>

\* writeJson of changes.json, with the sequence number of the order record.
WriteChanges ==
    /\ pending # None
    /\ IF pending = QualityIdentity(1)
       THEN quality' = Len(log) /\ UNCHANGED at
       ELSE at' = [at EXCEPT ![pending] = Len(log)] /\ UNCHANGED quality
    /\ pending' = None
    /\ UNCHANGED <<log, history>>

\* The command is killed, or its second write fails; the lock is recovered.
LoseChanges ==
    /\ Crashes
    /\ pending # None
    /\ pending' = None
    /\ UNCHANGED <<log, at, quality, history>>

\* Wrong variant: the old checkpoint stays authoritative, the new one is history.
RefreshSwapped ==
    /\ RefreshAcceptable
    /\ Push(QualityIdentity(Len(history) + 2))
    /\ history' = Append(history, Len(log) + 1)
    /\ UNCHANGED <<at, quality, pending>>

\* Wrong variant: the superseded checkpoint is overwritten.
RefreshForgetful ==
    /\ RefreshAcceptable
    /\ Push(QualityIdentity(Len(history) + 2))
    /\ quality' = Len(log) + 1
    /\ UNCHANGED <<at, history, pending>>

\* refreshQuality and commitQualityRefresh: both files or neither.
RefreshQuality ==
    /\ RefreshAcceptable
    /\ Push(QualityIdentity(Len(history) + 2))
    /\ quality' = Len(log) + 1
    /\ history' = Append(history, quality)
    /\ UNCHANGED <<at, pending>>

\* Another change or a TDD cycle appends to the same log.
RecordOther(identity) ==
    /\ Push(identity)
    /\ UNCHANGED <<at, quality, history, pending>>

Next ==
    \/ \E slot \in Slot : RecordPhase(slot)
    \/ \E other \in Other : RecordOther(<<"other", other>>)
    \/ RecordQuality \/ WriteChanges \/ LoseChanges \/ RefreshQuality

Spec == Init /\ [][Next]_vars

-----------------------------------------------------------------------------
(* What validateChangeEvidence reports                                     *)

\* CHANGE_ORDER_MISMATCH
Mismatched(slot) ==
    at[slot] # 0 /\ ~(at[slot] \in DOMAIN log /\ log[at[slot]] = slot)

\* CHANGE_PHASE_ORDER, for the phases before Quality.
Precedes(slot, next) ==
    \/ slot = <<"impact", Req>> /\ next = <<"requirements", Req>>
    \/ slot = <<"requirements", Req>> /\ next = <<"design", Req>>
    \/ \E reqs \in Batch :
          \/ slot = <<"design", Req>> /\ next = <<"red", reqs>>
          \/ slot = <<"red", reqs>> /\ next = <<"implementation", reqs>>
          \/ slot = <<"implementation", reqs>> /\ next = <<"green", reqs>>
Inverted(slot, next) == at[slot] # 0 /\ at[next] # 0 /\ at[next] <= at[slot]

\* CHANGE_QUALITY_HISTORY_MALFORMED, which is looked for behind a checkpoint.
LineageMalformed == quality # 0 /\ ~LineagePaired

-----------------------------------------------------------------------------
TypeOK ==
    /\ log \in Seq(Identity)
    /\ Len(log) <= MaxLog
    /\ at \in [Slot -> 0..MaxLog]
    /\ quality \in 0..MaxLog
    /\ history \in Seq(Nat)
    /\ pending \in Slot \cup {QualityIdentity(1), None}

\* Whatever is interrupted, every sequence number in changes.json names the
\* order record of its own phase, and no identity is in the log twice: the
\* recorder never produces CHANGE_ORDER_MISMATCH or EVIDENCE_ORDER_DUPLICATE.
OrdersPaired ==
    /\ \A slot \in Slot : ~Mismatched(slot)
    /\ \A i, j \in DOMAIN log : log[i] = log[j] => i = j

\* Impact, Requirements, Design, and in every batch Red, Implementation and
\* Green, have ascending orders, although batches interleave: the recorder
\* never produces CHANGE_PHASE_ORDER before Quality.
PhasesInOrder ==
    \A slot, next \in Slot : Precedes(slot, next) => ~Inverted(slot, next)

\* "the recovered change's quiescent evidence state contains neither an orphan
\* Quality order identity nor a checkpoint that lacks its order record"
\* (change-quality-refresh requirements.md:26): no refresh meets or leaves a
\* malformed lineage, whatever other writes were interrupted.
LineageSound == pending = None => ~LineageMalformed

\* Every retained Quality checkpoint came after a Green of each requirement.
QualityProven ==
    \A n \in DOMAIN Lineage : \A q \in Req : \E reqs \in Batch :
        q \in reqs /\ Recorded("green", reqs) /\ Order("green", reqs) < Lineage[n]

\* Evidence is append-only: a step never drops or renumbers an order record, a
\* recorded phase or a retained Quality checkpoint.
AppendOnly ==
    [][/\ \A i \in DOMAIN log : i \in DOMAIN log' /\ log'[i] = log[i]
       /\ \A slot \in Slot : at[slot] # 0 => at'[slot] = at[slot]
       /\ \A n \in DOMAIN Lineage : n \in DOMAIN Lineage' /\ Lineage'[n] = Lineage[n]]_vars
=============================================================================
