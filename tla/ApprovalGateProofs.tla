------------------------ MODULE ApprovalGateProofs ------------------------
(***************************************************************************)
(* Theorems about ApprovalGate for any domains, paths, contents and bounds.*)
(* Those about what gates, approvals and status say of the tree assume     *)
(* that an edit during a command does not bring back a content the path    *)
(* had before (~Restore).                                                  *)
(***************************************************************************)
EXTENDS ApprovalGate, TLAPS

-----------------------------------------------------------------------------
(* The inductive invariant                                                 *)

\* All contents anywhere have been in the tree.
Known(inputs) == \A p \in InputPaths : inputs[p] \in seen[p]
SeenInv ==
    /\ \A p \in Path : tree[p] \in seen[p]
    /\ report # None => Known(report.inputs)
    /\ command.inputs # None => Known(command.inputs)
    /\ inquiry.report # None => Known(inquiry.report.inputs)
    /\ \A s \in Slot : prepared[s] # None =>
          \A p \in Scope(s) : prepared[s][p] \in seen[p]

\* What a gate has checked holds of the paths that have not been edited since
\* its first snapshot, and of all if the second snapshot was the same.
SoundWhere(paths, inputs) ==
    \A p \in paths : tree[p] = inputs[p] => tree[p] \in Sound[p]
AgreesWhere(s, inputs) ==
    (\A p \in Scope(s) \cap InputPaths : tree[p] = inputs[p]) => Agrees(s, inputs)
GateInv ==
    /\ command.pc \in {"commands", "approvals"} /\ command.checked =>
          SoundWhere(Doc \cup {Constitution}, command.inputs)
    /\ command.pc = "approvals" /\ command.checked =>
          SoundWhere(Watched, command.inputs)
    /\ command.pc = "approvals" /\ command.approved =>
          \A s \in Slot \ command.todo : AgreesWhere(s, command.inputs)
    /\ command.pc = "report" /\ command.checked =>
          \A p \in InputPaths : command.inputs[p] \in Sound[p]
    /\ command.pc = "report" /\ command.checked /\ command.approved =>
          \A s \in Slot : Agrees(s, command.inputs)

\* Reports that pass are true of their inputs, and a stage that an inquiry has
\* read still agrees with the tree, unless no report describes the tree.
Truthful(r) == r.pass => \A p \in InputPaths : r.inputs[p] \in Sound[p]
ReaderInv ==
    /\ report # None => Truthful(report)
    /\ inquiry.report # None => Truthful(inquiry.report)
    /\ inquiry.pc = "compare" => inquiry.todo = {}
    /\ Reading => \A s \in Slot \ inquiry.todo : Fresh(report) => Agrees(s, Inputs)
    /\ inquiry.pc = "compare" =>
          \A s \in Slot : Fresh(inquiry.report) => Agrees(s, Inputs)

\* While the tree is what the approver was shown, what a recorder has checked
\* of it holds.
Shown == prepared[command.slot] = Manifest(command.slot)
Pending == IF command.pc = "prerequisites" THEN command.todo ELSE {}
RecordName ==
    /\ command.pc \in {"validate", "prerequisites", "manifest"} =>
          command.name = "record"
    /\ command.name = "record" => Locked /\ prepared[command.slot] # None
StageChecked ==
    command.name = "record" /\ command.pc # "validate" /\ Shown =>
       /\ Passes(Scope(command.slot) \ Other)
       /\ \A p \in Prerequisites(command.slot) \ Pending : Approved(p)
ReleaseChecked ==
    command.name = "record" /\ command.slot = Release =>
       /\ command.pc \in {"commands", "approvals", "report"} /\ command.checked
             => evidence
       /\ command.pc \in {"approvals", "report"} /\ command.checked /\ Shown
             => Passes(Released)
       /\ command.pc = "manifest" /\ Shown => evidence /\ Passes(Released)
RecordInv == RecordName /\ StageChecked /\ ReleaseChecked

IInv == SeenInv /\ GateInv /\ ReaderInv /\ RecordInv

-----------------------------------------------------------------------------
(* Paths and scopes                                                        *)

LEMMA ScopeFacts ==
    /\ Release \in Slot /\ Doc \subseteq Slot /\ InputPaths \subseteq Path
    /\ \A s \in Slot : Scope(s) \subseteq Path
    /\ \A s \in Slot : Scope(s) \ Other \subseteq Doc \cup {Constitution}
    /\ \A s \in Slot : Prerequisites(s) \subseteq Doc
    /\ Scope(Release) \ Other = Doc \cup {Constitution}
    /\ Scope(Release) = Doc \cup {Constitution} \cup Released
BY PathAssumption, CoverAssumption
   DEF Slot, InputPaths, Path, Scope, Prerequisites

\* A stage binds all that its prerequisites bind.
LEMMA PrerequisiteScope ==
    ASSUME NEW s \in Slot, NEW p \in Prerequisites(s)
    PROVE  Scope(p) \subseteq Scope(s)
<1>1. p \in Doc /\ p # Release
  BY ScopeFacts, PathAssumption
<1>2. CASE s = Release
  BY <1>1, <1>2 DEF Scope
<1>3. CASE s # Release
  BY <1>1, <1>3 DEF Scope, Prerequisites
<1> QED BY <1>2, <1>3

LEMMA SnapshotType ==
    ASSUME TypeOK
    PROVE  /\ Inputs \in [InputPaths -> Version]
           /\ \A s \in Slot : Manifest(s) \in ManifestsOf(s)
BY ScopeFacts DEF TypeOK, Inputs, Manifest, Contents, ManifestsOf

-----------------------------------------------------------------------------
(* Types                                                                   *)

LEMMA IdleType == Idle \in Commands /\ AtRest \in Inquiries
BY ScopeFacts DEF Idle, AtRest, Commands, Inquiries, OrNone

LEMMA InitType == Init => TypeOK
<1> SUFFICES ASSUME Init PROVE TypeOK
  OBVIOUS
<1>1. /\ tree \in [Path -> Version] /\ seen \in [Path -> SUBSET Version]
      /\ evidence \in BOOLEAN /\ disturbances \in 0..MaxDisturbances
  BY ContentAssumption, FlagAssumption DEF Init
<1>2. /\ prepared = [s \in Slot |-> prepared[s]]
      /\ approval = [s \in Slot |-> approval[s]]
      /\ \A s \in Slot : {prepared[s], approval[s]} \subseteq OrNone(ManifestsOf(s))
  BY DEF Init, OrNone
<1>3. report \in OrNone(Reports) /\ command \in Commands /\ inquiry \in Inquiries
  BY IdleType DEF Init, OrNone
<1>4. command.pc = "idle"
  BY DEF Init, Idle
<1> QED BY <1>1, <1>2, <1>3, <1>4 DEF TypeOK

LEMMA TypeStep ==
    ASSUME TypeOK, [Next]_vars
    PROVE  TypeOK'
<1> USE DEF project, recorded
<1>1. ASSUME NEW s \in Slot, Prepare(s)
      PROVE  TypeOK'
  <2>1. Manifest(s) \in ManifestsOf(s)
    BY SnapshotType
  <2>2. \A t \in Slot : prepared'[t] = IF t = s THEN Manifest(s) ELSE prepared[t]
    BY <1>1 DEF Prepare, TypeOK
  <2>3. prepared' = [t \in Slot |-> prepared'[t]]
    BY <1>1 DEF Prepare, TypeOK
  <2> QED BY <1>1, <2>1, <2>2, <2>3 DEF Prepare, TypeOK, OrNone, ManifestsOf, Reports
<1>2. ASSUME RecordApproval
      PROVE  TypeOK'
  <2> DEFINE s == command.slot
  <2>1. s \in Slot /\ Manifest(s) \in ManifestsOf(s)
    BY SnapshotType DEF TypeOK, Commands
  <2>2. \A t \in Slot : approval'[t] \in {approval[t], Manifest(t)}
    BY <1>2, <2>1 DEF RecordApproval, TypeOK
  <2>3. approval' = [t \in Slot |-> approval'[t]]
    BY <1>2, <2>1 DEF RecordApproval, TypeOK
  <2>4. \A t \in Slot : approval'[t] \in OrNone(ManifestsOf(t))
    BY <2>2, SnapshotType DEF TypeOK, OrNone
  <2>5. command' \in Commands /\ command'.pc = "idle"
    BY <1>2, IdleType DEF RecordApproval, Idle
  <2> QED BY <1>2, <2>3, <2>4, <2>5 DEF RecordApproval, TypeOK, OrNone, ManifestsOf
<1>3. ASSUME WriteReport
      PROVE  TypeOK'
  <2>1. command.inputs \in [InputPaths -> Version]
    BY <1>3 DEF WriteReport, TypeOK, Commands, OrNone
  <2>2. report' \in OrNone(Reports)
    BY <1>3, <2>1 DEF WriteReport, TypeOK, Commands, OrNone, Reports
  <2>3. command' \in Commands /\ command'.pc \in {"idle", "manifest"}
    BY <1>3, IdleType DEF WriteReport, Proceed, TypeOK, Commands, Idle
  <2> QED BY <1>3, <2>2, <2>3 DEF WriteReport, TypeOK, ManifestsOf, OrNone
<1>4. ASSUME /\ UNCHANGED <<project, recorded, inquiry>>
             /\ command' \in Commands
             /\ command'.pc \in {"documents", "commands", "approvals", "report"} =>
                    command'.inputs # None
      PROVE  TypeOK'
  BY <1>4 DEF TypeOK, ManifestsOf, OrNone, Reports
<1>5. command \in Commands /\ command.slot \in Slot /\ command.todo \in SUBSET Slot
  BY DEF TypeOK, Commands
<1>6. Idle \in Commands /\ Idle.pc = "idle" /\ AtRest \in Inquiries
  BY IdleType DEF Idle
<1>7. ASSUME NEW s \in Slot, StartRecord(s) \/ RequireApproval(s) \/ CheckApproval(s)
      PROVE  TypeOK'
  <2>1. CASE StartRecord(s)
    <3>1. command' \in Commands /\ command'.pc = "validate"
      BY <2>1, IdleType DEF StartRecord, Idle, Commands, OrNone
    <3> QED BY <1>4, <2>1, <3>1 DEF StartRecord
  <2>2. CASE RequireApproval(s)
    <3>1. command' \in Commands /\ command'.pc \in {"idle", "prerequisites"}
      <4>1. CASE Approved(s)
        BY <1>5, <2>2, <4>1 DEF RequireApproval, Commands
      <4>2. CASE ~Approved(s)
        BY <2>2, <4>2, <1>6 DEF RequireApproval, Refuse
      <4> QED BY <4>1, <4>2
    <3> QED BY <1>4, <2>2, <3>1 DEF RequireApproval
  <2>3. CASE CheckApproval(s)
    <3>1. Accepted(s) \in BOOLEAN
      BY DEF Accepted, Approved
    <3>2. command' \in Commands /\ command'.pc = "approvals"
      BY <1>5, <2>3, <3>1 DEF CheckApproval, Commands
    <3>3. command'.inputs = command.inputs /\ command.inputs # None
      BY <1>5, <2>3 DEF CheckApproval, Commands, TypeOK
    <3> QED BY <1>4, <2>3, <3>2, <3>3 DEF CheckApproval
  <2> QED BY <1>7, <2>1, <2>2, <2>3
<1>8. ASSUME ValidateArtifacts \/ PrerequisitesMet \/ StartGate
      PROVE  TypeOK'
  <2>1. Prerequisites(command.slot) \in SUBSET Slot
    BY <1>5, ScopeFacts
  <2>2. CASE ValidateArtifacts
    <3>1. command' \in Commands /\ command'.pc \in {"idle", "prerequisites"}
      <4>1. CASE Passes(Scope(command.slot) \ Other)
        BY <1>5, <2>1, <2>2, <4>1 DEF ValidateArtifacts, Commands
      <4>2. CASE ~Passes(Scope(command.slot) \ Other)
        BY <2>2, <4>2, <1>6 DEF ValidateArtifacts, Refuse
      <4> QED BY <4>1, <4>2
    <3> QED BY <1>4, <2>2, <3>1 DEF ValidateArtifacts
  <2>3. CASE PrerequisitesMet
    <3>1. command' \in Commands /\ command'.pc \in {"snapshot", "manifest"}
      BY <1>5, <2>3 DEF PrerequisitesMet, Proceed, Commands
    <3> QED BY <1>4, <2>3, <3>1 DEF PrerequisitesMet
  <2>4. CASE StartGate
    <3>1. command' \in Commands /\ command'.pc = "snapshot"
      BY <2>4, IdleType DEF StartGate, Idle, Commands, OrNone
    <3> QED BY <1>4, <2>4, <3>1 DEF StartGate
  <2> QED BY <1>8, <2>2, <2>3, <2>4
<1>9. ASSUME GateSnapshot \/ CheckDocuments \/ RunCommands \/ SnapshotAgain
      PROVE  TypeOK'
  <2>1. Inputs \in [InputPaths -> Version] /\ Inputs # None
    BY SnapshotType, NoneAssumption
  <2>2. \A paths : Passes(paths) \in BOOLEAN
    BY DEF Passes
  <2>3. command' \in Commands
    BY <1>9, <2>1, <2>2 DEF GateSnapshot, CheckDocuments, RunCommands, SnapshotAgain,
                            Stable, TypeOK, Commands, OrNone
  <2>4. command'.inputs # None
    BY <1>9, <2>1 DEF GateSnapshot, CheckDocuments, RunCommands, SnapshotAgain,
                      TypeOK, Commands
  <2> QED BY <1>4, <1>9, <2>3, <2>4 DEF GateSnapshot, CheckDocuments, RunCommands,
                                        SnapshotAgain
<1>10. ASSUME InquiryStep
      PROVE  TypeOK'
  <2>1. inquiry \in Inquiries /\ report \in OrNone(Reports)
    BY DEF TypeOK
  <2>2. ASSUME NEW s \in Slot, ReadApproval(s)
        PROVE  inquiry' \in Inquiries
    <3>1. CASE Accepted(s)
      BY <2>1, <2>2, <3>1 DEF ReadApproval, Inquiries
    <3>2. CASE ~Accepted(s)
      BY <2>2, <3>2, <1>6 DEF ReadApproval
    <3> QED BY <3>1, <3>2
  <2>3. ASSUME StartInquiry
        PROVE  inquiry' \in Inquiries
    BY <2>3, IdleType DEF StartInquiry, AtRest, Inquiries, OrNone
  <2>4. ASSUME ReadReport
        PROVE  inquiry' \in Inquiries
    BY <2>1, <2>4 DEF ReadReport, Inquiries
  <2>5. ASSUME ReadRefused \/ Answer
        PROVE  inquiry' \in Inquiries
    BY <2>5, <1>6 DEF ReadRefused, Answer
  <2>6. inquiry' \in Inquiries
    BY <1>10, <2>2, <2>3, <2>4, <2>5 DEF InquiryStep
  <2>7. UNCHANGED <<project, recorded, command>>
    BY <1>10 DEF InquiryStep, StartInquiry, ReadRefused, ReadReport, Answer, ReadApproval
  <2> QED BY <2>6, <2>7 DEF TypeOK, ManifestsOf, OrNone, Reports
<1>11. ASSUME Environment
      PROVE  TypeOK'
  <2>1. ASSUME NEW p \in Path, NEW v \in Version, Edit(p, v)
        PROVE  tree' \in [Path -> Version] /\ seen' \in [Path -> SUBSET Version]
    BY <2>1 DEF Edit, TypeOK
  <2>2. tree' \in [Path -> Version] /\ seen' \in [Path -> SUBSET Version]
    BY <1>11, <2>1 DEF Environment, LoseEvidence, RepairEvidence, Interrupt, TypeOK
  <2>3. evidence' \in BOOLEAN /\ UNCHANGED <<recorded, inquiry>>
    BY <1>11 DEF Environment, Edit, LoseEvidence, RepairEvidence, Interrupt, TypeOK
  <2>4. disturbances' = disturbances \/ Disturb
    BY <1>11 DEF Environment, Edit, LoseEvidence, RepairEvidence, Interrupt
  <2>5. disturbances' \in 0..MaxDisturbances
    BY <2>4, FlagAssumption DEF Disturb, TypeOK
  <2>6. command' = command \/ command' = Idle
    BY <1>11 DEF Environment, Edit, LoseEvidence, RepairEvidence, Interrupt
  <2>8. command' \in Commands /\ (command' = command \/ command'.pc = "idle")
    BY <1>5, <2>6, <1>6
  <2> QED BY <2>2, <2>3, <2>5, <2>8 DEF TypeOK, ManifestsOf, OrNone, Reports
<1>12. CASE UNCHANGED vars
  BY <1>12 DEF vars, TypeOK, ManifestsOf, OrNone, Reports
<1> QED BY <1>1, <1>2, <1>3, <1>7, <1>8, <1>9, <1>10, <1>11, <1>12
      DEF Next, CommandStep

\* The type invariant, for edits and interruptions of any kind.
THEOREM TypeCorrect == Spec => []TypeOK
<1>1. Init => TypeOK
  BY InitType
<1>2. TypeOK /\ [Next]_vars => TypeOK'
  BY TypeStep
<1> QED BY <1>1, <1>2, PTL DEF Spec

-----------------------------------------------------------------------------
(* What steps leave alone                                                  *)

CommandTurns ==
    \/ ValidateArtifacts \/ PrerequisitesMet \/ StartGate \/ GateSnapshot
    \/ CheckDocuments \/ RunCommands \/ SnapshotAgain \/ Interrupt
    \/ \E s \in Slot : StartRecord(s) \/ RequireApproval(s) \/ CheckApproval(s)

LEMMA Frame ==
    ASSUME [Next]_vars
    PROVE  /\ \/ tree' = tree /\ seen' = seen
              \/ \E p \in Path, v \in Version : Edit(p, v)
           /\ evidence' = evidence \/ (~Locked /\ command' = command)
           /\ prepared' = prepared \/ \E s \in Slot : Prepare(s)
           /\ approval' = approval \/ RecordApproval
           /\ report' = report \/ WriteReport
           /\ command' = command \/ RecordApproval \/ WriteReport \/ CommandTurns
           /\ inquiry' = inquiry \/ InquiryStep
<1> USE DEF project, recorded
<1>1. CASE \E s \in Slot : Prepare(s) \/ StartRecord(s)
  BY <1>1 DEF Prepare, StartRecord, CommandTurns
<1>2. CASE StartGate
  BY <1>2 DEF StartGate, CommandTurns
<1>3. CASE CommandStep
  <2>1. CASE ValidateArtifacts \/ PrerequisitesMet \/ GateSnapshot
    BY <2>1 DEF ValidateArtifacts, PrerequisitesMet, GateSnapshot, CommandTurns
  <2>2. CASE CheckDocuments \/ RunCommands \/ SnapshotAgain
    BY <2>2 DEF CheckDocuments, RunCommands, SnapshotAgain, CommandTurns
  <2>3. CASE \E s \in Slot : RequireApproval(s) \/ CheckApproval(s)
    BY <2>3 DEF RequireApproval, CheckApproval, CommandTurns
  <2>4. CASE RecordApproval
    BY <2>4 DEF RecordApproval
  <2>5. CASE WriteReport
    BY <2>5 DEF WriteReport
  <2> QED BY <1>3, <2>1, <2>2, <2>3, <2>4, <2>5 DEF CommandStep
<1>4. CASE InquiryStep
  BY <1>4 DEF InquiryStep, StartInquiry, ReadRefused, ReadApproval, ReadReport, Answer
<1>5. CASE Environment
  BY <1>5 DEF Environment, Edit, LoseEvidence, RepairEvidence, Interrupt, CommandTurns
<1>6. CASE UNCHANGED vars
  BY <1>6 DEF vars
<1> QED BY <1>1, <1>2, <1>3, <1>4, <1>5, <1>6 DEF Next

LEMMA EditFrame ==
    ASSUME TypeOK, NEW p \in Path, NEW v \in Version, Edit(p, v)
    PROVE  /\ tree'[p] = v /\ \A q \in Path : q # p => tree'[q] = tree[q]
           /\ \A q \in Path : seen[q] \subseteq seen'[q]
           /\ seen'[p] = seen[p] \cup {v} /\ \A q \in Path : q # p => seen'[q] = seen[q]
           /\ UNCHANGED <<evidence, prepared, approval, report, command, inquiry>>
           /\ (Locked \/ Reading) /\ ~Restore => v \notin seen[p]
BY DEF Edit, TypeOK, recorded

LEMMA TurnFrame ==
    ASSUME CommandTurns
    PROVE  UNCHANGED <<tree, seen, evidence, prepared, approval, report, inquiry>>
BY DEF CommandTurns, ValidateArtifacts, PrerequisitesMet, StartGate, GateSnapshot,
       CheckDocuments, RunCommands, SnapshotAgain, Interrupt, StartRecord,
       RequireApproval, CheckApproval, project, recorded

-----------------------------------------------------------------------------
(* Contents come from the tree                                             *)

LEMMA SeenStep ==
    ASSUME TypeOK, SeenInv, [Next]_vars
    PROVE  SeenInv'
<1>1. \A p \in Path : seen[p] \subseteq seen'[p] /\ tree'[p] \in seen'[p]
  BY Frame, EditFrame DEF SeenInv
<1>2. Known(Inputs) /\ \A s \in Slot : \A p \in Scope(s) : Manifest(s)[p] \in seen[p]
  BY ScopeFacts DEF SeenInv, Known, Inputs, Manifest, Contents
<1>3. report' # None => Known(report.inputs)'
  <2>1. CASE report' = report
    BY <1>1, <2>1, ScopeFacts DEF SeenInv, Known
  <2>2. CASE WriteReport
    <3>1. report'.inputs = command.inputs /\ command.inputs # None
      BY <2>2 DEF WriteReport, TypeOK
    <3> QED BY <1>1, <3>1, ScopeFacts DEF SeenInv, Known
  <2> QED BY <2>1, <2>2, Frame
<1>4. command' # command => command'.inputs \in {None, command.inputs, Inputs}
  <2>1. Idle.inputs = None
    BY DEF Idle
  <2>2. CASE RecordApproval
    BY <2>1, <2>2 DEF RecordApproval
  <2>3. CASE WriteReport
    BY <2>1, <2>3 DEF WriteReport, Proceed, TypeOK, Commands
  <2>4. CASE ValidateArtifacts \/ PrerequisitesMet \/ StartGate \/ Interrupt
    BY <2>1, <2>4 DEF ValidateArtifacts, PrerequisitesMet, StartGate, Interrupt, Refuse,
                      Proceed, TypeOK, Commands, Idle
  <2>5. CASE GateSnapshot \/ CheckDocuments \/ RunCommands \/ SnapshotAgain
    BY <2>5 DEF GateSnapshot, CheckDocuments, RunCommands, SnapshotAgain, TypeOK, Commands
  <2>6. ASSUME NEW s \in Slot, StartRecord(s) \/ RequireApproval(s) \/ CheckApproval(s)
        PROVE  command'.inputs \in {None, command.inputs, Inputs}
    BY <2>1, <2>6 DEF StartRecord, RequireApproval, CheckApproval, Refuse, TypeOK,
                      Commands, Idle
  <2> QED BY <2>2, <2>3, <2>4, <2>5, <2>6, Frame DEF CommandTurns
<1>5. command'.inputs # None => Known(command.inputs)'
  BY <1>1, <1>2, <1>4, ScopeFacts DEF SeenInv, Known
<1>6. inquiry'.report \in {None, inquiry.report, report}
  <2>1. AtRest.report = None
    BY DEF AtRest
  <2>2. ASSUME NEW s \in Slot, ReadApproval(s)
        PROVE  inquiry'.report \in {None, inquiry.report, report}
    BY <2>1, <2>2 DEF ReadApproval, TypeOK, Inquiries
  <2>3. ASSUME StartInquiry \/ ReadRefused \/ ReadReport \/ Answer
        PROVE  inquiry'.report \in {None, inquiry.report, report}
    BY <2>1, <2>3 DEF StartInquiry, ReadRefused, ReadReport, Answer, AtRest, TypeOK,
                      Inquiries
  <2> QED BY <2>2, <2>3, Frame DEF InquiryStep
<1>7. inquiry'.report # None => Known(inquiry.report.inputs)'
  BY <1>1, <1>6, ScopeFacts DEF SeenInv, Known
<1>8. \A s \in Slot : prepared'[s] \in {prepared[s], Manifest(s)}
  BY Frame DEF Prepare, TypeOK
<1>9. \A s \in Slot : prepared'[s] # None =>
         \A p \in Scope(s) : prepared'[s][p] \in seen'[p]
  BY <1>1, <1>2, <1>8, ScopeFacts DEF SeenInv
<1> QED BY <1>1, <1>3, <1>5, <1>7, <1>9 DEF SeenInv, Scope

-----------------------------------------------------------------------------
(* Agreement of approvals with inputs                                      *)

\* An accepted approval binds the current contents, so it agrees with any
\* inputs that are the same in the scope of its stage.
LEMMA AcceptedAgrees ==
    ASSUME TypeOK, NEW s \in Slot, Accepted(s), NEW inputs,
           \A p \in Scope(s) \cap InputPaths : tree[p] = inputs[p]
    PROVE  Agrees(s, inputs)
<1>1. CASE approval[s] = None /\ ~Required
  BY <1>1 DEF Agrees
<1>2. CASE approval[s] = Manifest(s)
  <2>1. approval[s] # None
    BY <1>2, SnapshotType, NoneAssumption
  <2>2. \A p \in Scope(s) : approval[s][p] = tree[p]
    BY <1>2 DEF Manifest, Contents
  <2> QED BY <2>1, <2>2 DEF Agrees
<1> QED BY <1>1, <1>2 DEF Accepted, Approved

LEMMA InputsAreTree ==
    /\ \A p \in InputPaths : Inputs[p] = tree[p]
    /\ \A s \in Slot : \A p \in Scope(s) : Manifest(s)[p] = tree[p]
BY DEF Inputs, Manifest, Contents

-----------------------------------------------------------------------------
(* The gate                                                                *)

LEMMA GateStep ==
    ASSUME TypeOK, SeenInv, GateInv, ~Restore, [Next]_vars
    PROVE  GateInv'
<1>2. ASSUME NEW p \in Path, NEW v \in Version, Edit(p, v)
      PROVE  GateInv'
  <2>1. CASE ~Locked
    BY <1>2, <2>1, EditFrame DEF GateInv, Locked
  <2>2. CASE Locked
    <3>1. command' = command /\ approval' = approval
      BY <1>2, EditFrame
    <3>2. command.pc \in {"commands", "approvals", "report"} /\ p \in InputPaths =>
             tree'[p] # command.inputs[p]
      BY <1>2, <2>2, EditFrame DEF SeenInv, Known, TypeOK
    <3>3. \A paths \in SUBSET InputPaths :
             /\ command.pc \in {"commands", "approvals"}
             /\ SoundWhere(paths, command.inputs)
             => SoundWhere(paths, command.inputs)'
      BY <1>2, <3>1, <3>2, EditFrame, ScopeFacts DEF SoundWhere
    <3>4. \A s \in Slot :
             /\ command.pc = "approvals"
             /\ AgreesWhere(s, command.inputs)
             => AgreesWhere(s, command.inputs)'
      BY <1>2, <3>1, <3>2, EditFrame, ScopeFacts DEF AgreesWhere, Agrees, Scope
    <3>5. Doc \cup {Constitution} \subseteq InputPaths /\ Watched \subseteq InputPaths
      BY DEF InputPaths
    <3>6. /\ command.pc \in {"commands", "approvals"} /\ command.checked =>
                SoundWhere(Doc \cup {Constitution}, command.inputs)'
          /\ command.pc = "approvals" /\ command.checked =>
                SoundWhere(Watched, command.inputs)'
      BY <3>3, <3>5 DEF GateInv
    <3>7. command.pc = "approvals" /\ command.approved =>
             \A s \in Slot \ command.todo : AgreesWhere(s, command.inputs)'
      BY <3>4 DEF GateInv
    <3>8. command.pc = "report" /\ command.checked /\ command.approved =>
             \A s \in Slot : Agrees(s, command.inputs)'
      BY <3>1 DEF GateInv, Agrees, Scope
    <3> QED BY <3>1, <3>6, <3>7, <3>8 DEF GateInv
  <2> QED BY <2>1, <2>2
<1>3. ASSUME UNCHANGED <<tree, command, approval>>
      PROVE  GateInv'
  BY <1>3 DEF GateInv, SoundWhere, AgreesWhere, Agrees, Scope
<1>4. ASSUME command'.pc \notin {"commands", "approvals", "report"}
      PROVE  GateInv'
  BY <1>4 DEF GateInv
<1>5. ASSUME CheckDocuments
      PROVE  GateInv'
  <2>1. /\ command'.pc = "commands" /\ tree' = tree
        /\ command'.checked => Passes(Doc \cup {Constitution})
    BY <1>5 DEF CheckDocuments, TypeOK, Commands, project
  <2> QED BY <2>1 DEF GateInv, SoundWhere, Passes
<1>6. ASSUME RunCommands
      PROVE  GateInv'
  <2>1. /\ command'.pc = "approvals" /\ tree' = tree /\ command'.todo = Slot
        /\ command'.inputs = command.inputs /\ command.pc = "commands"
        /\ command'.checked => command.checked /\ Passes(Other)
    BY <1>6 DEF RunCommands, TypeOK, Commands, project
  <2> QED BY <2>1, CoverAssumption DEF GateInv, SoundWhere, Passes
<1>7. ASSUME NEW s \in Slot, CheckApproval(s)
      PROVE  GateInv'
  <2>1. /\ command.pc = "approvals" /\ command'.pc = "approvals"
        /\ UNCHANGED <<tree, approval>>
        /\ command'.inputs = command.inputs /\ command'.checked = command.checked
        /\ command'.todo = command.todo \ {s}
        /\ command'.approved => command.approved /\ Accepted(s)
    BY <1>7 DEF CheckApproval, TypeOK, Commands, project, recorded
  <2>2. Accepted(s) => AgreesWhere(s, command.inputs)
    BY AcceptedAgrees DEF AgreesWhere
  <2>3. command'.approved => \A t \in Slot \ command'.todo : AgreesWhere(t, command.inputs)
    BY <2>1, <2>2 DEF GateInv
  <2>4. \A t \in Slot : AgreesWhere(t, command.inputs) => AgreesWhere(t, command.inputs)'
    BY <2>1 DEF AgreesWhere, Agrees, Scope
  <2> QED BY <2>1, <2>3, <2>4 DEF GateInv, SoundWhere
<1>8. ASSUME SnapshotAgain
      PROVE  GateInv'
  <2>1. /\ command.pc = "approvals" /\ command.todo = {} /\ command'.pc = "report"
        /\ UNCHANGED <<tree, approval>>
        /\ command'.inputs = Inputs /\ command'.approved = command.approved
        /\ command'.checked => command.checked /\ command.inputs = Inputs
    BY <1>8 DEF SnapshotAgain, Stable, TypeOK, Commands, project, recorded
  <2>2. command'.checked => \A p \in InputPaths : Inputs[p] \in Sound[p]
    BY <2>1, InputsAreTree DEF GateInv, SoundWhere, InputPaths
  <2>3. command'.checked /\ command'.approved => \A s \in Slot : Agrees(s, Inputs)
    BY <2>1, InputsAreTree DEF GateInv, AgreesWhere
  <2>4. \A s \in Slot : Agrees(s, Inputs) => Agrees(s, command.inputs)'
    BY <2>1 DEF Agrees, Scope
  <2> QED BY <2>1, <2>2, <2>3, <2>4 DEF GateInv
<1>9. Idle.pc = "idle"
  BY DEF Idle
<1>10. ASSUME CommandTurns PROVE GateInv'
  <2>1. ASSUME ValidateArtifacts \/ PrerequisitesMet \/ StartGate \/ GateSnapshot \/ Interrupt
        PROVE  GateInv'
    BY <1>4, <1>9, <2>1 DEF ValidateArtifacts, PrerequisitesMet, StartGate, GateSnapshot,
                       Interrupt, Refuse, Proceed, TypeOK, Commands, Idle
  <2>2. ASSUME NEW s \in Slot, StartRecord(s) \/ RequireApproval(s)
        PROVE  GateInv'
    BY <1>4, <1>9, <2>2 DEF StartRecord, RequireApproval, Refuse, TypeOK, Commands, Idle
  <2> QED BY <1>10, <2>1, <2>2, <1>5, <1>6, <1>7, <1>8 DEF CommandTurns
<1>11. ASSUME RecordApproval \/ WriteReport
       PROVE  GateInv'
  BY <1>4, <1>9, <1>11 DEF RecordApproval, WriteReport, Proceed, TypeOK, Commands
<1>12. CASE command' = command
  BY <1>2, <1>3, <1>11, <1>12, Frame
<1> QED BY <1>10, <1>11, <1>12, Frame

-----------------------------------------------------------------------------
(* The status command                                                      *)

LEMMA ReaderStep ==
    ASSUME TypeOK, SeenInv, GateInv, ReaderInv, ~Restore, [Next]_vars
    PROVE  ReaderInv'
<1> USE DEF project, recorded
<1>1. ASSUME NEW p \in Path, NEW v \in Version, Edit(p, v)
      PROVE  ReaderInv'
  <2>1. UNCHANGED <<report, inquiry, approval, Reading>>
    BY <1>1, EditFrame DEF Reading
  <2>2. CASE ~Reading
    <3>1. inquiry.pc # "compare" /\ inquiry.pc = "idle"
      BY <2>2 DEF Reading
    <3> QED BY <2>1, <2>2, <3>1 DEF ReaderInv, Truthful
  <2>3. CASE Reading
    <3>1. CASE p \in InputPaths
      <4>1. Inputs'[p] = v /\ v \notin seen[p]
        BY <1>1, <2>3, <3>1, EditFrame DEF Inputs, Contents
      <4>2. ~Fresh(report)' /\ ~Fresh(inquiry.report)'
        BY <2>1, <3>1, <4>1 DEF Fresh, SeenInv, Known
      <4> QED BY <2>1, <4>2 DEF ReaderInv, Truthful
    <3>2. CASE p \notin InputPaths
      <4>1. Inputs' = Inputs
        BY <1>1, <3>2, EditFrame, ScopeFacts DEF Inputs, Contents
      <4>2. \A s \in Slot : Agrees(s, Inputs) <=> Agrees(s, Inputs)'
        BY <2>1, <4>1 DEF Agrees, Scope
      <4>3. (Fresh(report) <=> Fresh(report)') /\ (Fresh(inquiry.report) <=> Fresh(inquiry.report)')
        BY <2>1, <4>1 DEF Fresh
      <4> QED BY <2>1, <2>3, <4>2, <4>3 DEF ReaderInv, Truthful
    <3> QED BY <3>1, <3>2
  <2> QED BY <2>2, <2>3
<1>2. ASSUME UNCHANGED tree
      PROVE  Inputs' = Inputs /\ \A s \in Slot : Manifest(s)' = Manifest(s)
  BY <1>2 DEF Inputs, Manifest, Contents, Scope
<1>3. ASSUME UNCHANGED <<tree, approval>>
      PROVE  \A s \in Slot : Agrees(s, Inputs) <=> Agrees(s, Inputs)'
  BY <1>2, <1>3 DEF Agrees, Scope
<1>4. ASSUME UNCHANGED <<tree, approval, report, inquiry>>
      PROVE  ReaderInv'
  <2>1. Reading' = Reading /\ (Fresh(report) <=> Fresh(report)')
        /\ (Fresh(inquiry.report) <=> Fresh(inquiry.report)')
    BY <1>2, <1>4 DEF Reading, Fresh
  <2> QED BY <1>3, <1>4, <2>1 DEF ReaderInv, Truthful
<1>5. ASSUME RecordApproval
      PROVE  ReaderInv'
  <2>1. UNCHANGED <<tree, report, inquiry, Reading>>
    BY <1>5 DEF RecordApproval, Reading
  <2>2. \A s \in Slot : approval'[s] = approval[s] \/ approval'[s] = Manifest(s)
    BY <1>5 DEF RecordApproval, TypeOK, Commands
  <2>3. \A s \in Slot : Agrees(s, Inputs) => Agrees(s, Inputs)'
    <3>1. \A s \in Slot : Manifest(s) # None
      BY SnapshotType, NoneAssumption
    <3> QED BY <1>2, <2>1, <2>2, <3>1, InputsAreTree DEF Agrees, Scope
  <2>4. (Fresh(report) <=> Fresh(report)') /\ (Fresh(inquiry.report) <=> Fresh(inquiry.report)')
    BY <1>2, <2>1 DEF Fresh
  <2> QED BY <2>1, <2>3, <2>4 DEF ReaderInv, Truthful
<1>6. ASSUME WriteReport
      PROVE  ReaderInv'
  <2>1. UNCHANGED <<tree, approval, inquiry, Reading>>
    BY <1>6 DEF WriteReport, Reading
  <2>2. report'.inputs = command.inputs /\ (report'.pass <=> command.checked /\ command.approved)
    BY <1>6 DEF WriteReport
  <2>3. Truthful(report)'
    BY <1>6, <2>2 DEF WriteReport, Truthful, GateInv
  <2>4. Fresh(report)' => \A s \in Slot : Agrees(s, Inputs)
    BY <1>2, <1>6, <2>1, <2>2 DEF WriteReport, Fresh, GateInv
  <2>5. Fresh(inquiry.report) <=> Fresh(inquiry.report)'
    BY <1>2, <2>1 DEF Fresh
  <2> QED BY <1>3, <2>1, <2>3, <2>4, <2>5 DEF ReaderInv, Truthful
<1>7. ASSUME NEW s \in Slot, ReadApproval(s)
      PROVE  ReaderInv'
  <2>1. UNCHANGED <<tree, report, approval>> /\ inquiry.pc = "approvals"
    BY <1>7 DEF ReadApproval
  <2>2. CASE Accepted(s)
    <3>1. /\ inquiry'.pc = "approvals" /\ inquiry'.report = inquiry.report
          /\ inquiry'.todo = inquiry.todo \ {s}
      BY <1>7, <2>2 DEF ReadApproval, TypeOK, Inquiries
    <3>2. Agrees(s, Inputs)
      BY <2>2, AcceptedAgrees, InputsAreTree
    <3>3. Reading /\ (Fresh(report) <=> Fresh(report)')
      BY <1>2, <2>1 DEF Reading, Fresh
    <3> QED BY <1>3, <2>1, <3>1, <3>2, <3>3 DEF ReaderInv, Truthful
  <2>3. CASE ~Accepted(s)
    BY <1>7, <2>1, <2>3 DEF ReadApproval, AtRest, ReaderInv, Truthful, Reading
  <2> QED BY <2>2, <2>3
<1>8. ASSUME ReadReport
      PROVE  ReaderInv'
  <2>1. /\ UNCHANGED <<tree, report, approval>> /\ inquiry.pc = "approvals"
        /\ inquiry.todo = {}
        /\ inquiry'.pc = "compare" /\ inquiry'.todo = {} /\ inquiry'.report = report
    BY <1>8 DEF ReadReport, TypeOK, Inquiries
  <2>2. Fresh(report) <=> Fresh(report)'
    BY <1>2, <2>1 DEF Fresh
  <2>3. Fresh(report) => \A s \in Slot : Agrees(s, Inputs)
    BY <2>1 DEF ReaderInv, Reading
  <2>4. Fresh(report)' => \A s \in Slot : Agrees(s, Inputs)'
    BY <1>3, <2>1, <2>2, <2>3
  <2>5. (inquiry.report)' = report' /\ report' = report
    BY <2>1
  <2> QED BY <2>1, <2>4, <2>5 DEF ReaderInv, Truthful, Fresh
<1>9. ASSUME StartInquiry
      PROVE  ReaderInv'
  BY <1>9 DEF StartInquiry, AtRest, ReaderInv, Truthful, Reading
<1>10. ASSUME ReadRefused \/ Answer
       PROVE  ReaderInv'
  BY <1>10 DEF ReadRefused, Answer, AtRest, ReaderInv, Truthful, Reading
<1>11. ASSUME InquiryStep
       PROVE  ReaderInv'
  BY <1>7, <1>8, <1>9, <1>10, <1>11 DEF InquiryStep
<1> QED BY <1>1, <1>4, <1>5, <1>6, <1>11, Frame

-----------------------------------------------------------------------------
(* Recording an approval                                                   *)

LEMMA RecordStep ==
    ASSUME TypeOK, SeenInv, RecordInv, ~Restore, [Next]_vars
    PROVE  RecordInv'
<1> USE DEF project, recorded
<1>1. command.slot \in Slot
  BY DEF TypeOK, Commands
<1>2. ASSUME command'.name # "record",
             command'.pc \notin {"validate", "prerequisites", "manifest"}
      PROVE  RecordInv'
  BY <1>2 DEF RecordInv, RecordName, StageChecked, ReleaseChecked
<1>3. ASSUME command' = command, ~Locked
      PROVE  RecordInv'
  BY <1>2, <1>3 DEF RecordInv, RecordName, Locked
<1>4. ASSUME UNCHANGED <<tree, approval>>
      PROVE  /\ \A s \in Slot : Manifest(s)' = Manifest(s) /\ (Approved(s)' <=> Approved(s))
             /\ \A paths : Passes(paths)' <=> Passes(paths)
  BY <1>4 DEF Manifest, Contents, Scope, Approved, Passes
<1>5. ASSUME UNCHANGED <<tree, approval, prepared, evidence, command>>
      PROVE  RecordInv'
  <2>1. UNCHANGED <<Locked, Pending>> /\ (Shown' <=> Shown)
    BY <1>1, <1>4, <1>5 DEF Locked, Pending, Shown
  <2>2. \A p \in Prerequisites(command.slot) : Approved(p)' <=> Approved(p)
    BY <1>1, <1>4, <1>5, ScopeFacts
  <2>3. UNCHANGED <<Scope(command.slot), Prerequisites(command.slot)>>
    BY <1>5 DEF Scope, Prerequisites
  <2>4. RecordName'
    BY <1>5, <2>1 DEF RecordInv, RecordName
  <2>5. StageChecked'
    BY <1>4, <1>5, <2>1, <2>2, <2>3 DEF RecordInv, StageChecked
  <2>6. ReleaseChecked'
    BY <1>4, <1>5, <2>1 DEF RecordInv, ReleaseChecked
  <2> QED BY <2>4, <2>5, <2>6 DEF RecordInv
<1>6. ASSUME NEW p \in Path, NEW v \in Version, Edit(p, v)
      PROVE  RecordInv'
  <2>1. UNCHANGED <<command, approval, prepared, evidence, Locked>>
    BY <1>6, EditFrame DEF Locked
  <2>2. CASE command.name # "record"
    BY <1>2, <2>1, <2>2 DEF RecordInv, RecordName
  <2>3. CASE command.name = "record" /\ p \in Scope(command.slot)
    <3>1. prepared[command.slot][p] \in seen[p] /\ v \notin seen[p]
      BY <1>1, <1>6, <2>3, EditFrame DEF RecordInv, RecordName, SeenInv
    <3>2. Manifest(command.slot)'[p] = v
      BY <1>6, <2>1, <2>3, EditFrame DEF Manifest, Contents, Scope
    <3>3. ~Shown'
      BY <2>1, <3>1, <3>2 DEF Shown
    <3>4. RecordName'
      BY <2>1 DEF RecordInv, RecordName
    <3>5. StageChecked'
      BY <3>3 DEF StageChecked
    <3>6. ReleaseChecked'
      BY <2>1, <3>3 DEF RecordInv, ReleaseChecked
    <3> QED BY <3>4, <3>5, <3>6 DEF RecordInv
  <2>4. CASE command.name = "record" /\ p \notin Scope(command.slot)
    <3>1. \A q \in Scope(command.slot) : tree'[q] = tree[q]
      BY <1>1, <1>6, <2>4, EditFrame, ScopeFacts
    <3>2. UNCHANGED <<Scope(command.slot), Prerequisites(command.slot), Pending>>
      BY <2>1 DEF Scope, Prerequisites, Pending
    <3>3. Manifest(command.slot)' = Manifest(command.slot)
      BY <3>1, <3>2 DEF Manifest, Contents
    <3>4. Shown' <=> Shown
      BY <2>1, <3>3 DEF Shown
    <3>5. \A q \in Prerequisites(command.slot) : Approved(q)' <=> Approved(q)
      <4> SUFFICES ASSUME NEW q \in Prerequisites(command.slot)
                   PROVE  Approved(q)' <=> Approved(q)
        OBVIOUS
      <4>1. Scope(q) \subseteq Scope(command.slot) /\ Scope(q)' = Scope(q)
        BY <1>1, PrerequisiteScope DEF Scope
      <4>2. Manifest(q)' = Manifest(q)
        BY <3>1, <4>1 DEF Manifest, Contents
      <4> QED BY <2>1, <4>2 DEF Approved
    <3>6. Passes(Scope(command.slot) \ Other)' <=> Passes(Scope(command.slot) \ Other)
      BY <3>1, <3>2 DEF Passes
    <3>7. command.slot = Release => (Passes(Released)' <=> Passes(Released))
      BY <3>1, ScopeFacts DEF Passes
    <3>8. RecordName'
      BY <2>1 DEF RecordInv, RecordName
    <3>9. StageChecked'
      BY <2>1, <3>2, <3>4, <3>5, <3>6 DEF RecordInv, StageChecked
    <3>10. ReleaseChecked'
      BY <2>1, <3>4, <3>7 DEF RecordInv, ReleaseChecked
    <3> QED BY <3>8, <3>9, <3>10 DEF RecordInv
  <2> QED BY <2>2, <2>3, <2>4
<1>7. Idle.name = "none" /\ Idle.pc = "idle"
  BY DEF Idle
<1>8. ASSUME command' = Idle
      PROVE  RecordInv'
  BY <1>2, <1>7, <1>8
<1>9. ASSUME WriteReport
      PROVE  RecordInv'
  <2>1. CASE command.name = "record" /\ command.checked
    <3>1. /\ UNCHANGED <<tree, approval, prepared, evidence>> /\ command.pc = "report"
          /\ command'.name = "record" /\ command'.slot = command.slot
          /\ command'.pc = "manifest" /\ Locked' 
      BY <1>9, <2>1 DEF WriteReport, Unblocked, Proceed, TypeOK, Commands, Locked
    <3>2. Shown' <=> Shown
      BY <1>1, <1>4, <3>1 DEF Shown
    <3>3. UNCHANGED <<Scope(command.slot), Prerequisites(command.slot)>>
      BY <3>1 DEF Scope, Prerequisites
    <3>4. RecordName'
      BY <2>1, <3>1 DEF RecordInv, RecordName
    <3>5. StageChecked'
      BY <1>1, <1>4, <2>1, <3>1, <3>2, <3>3, ScopeFacts DEF RecordInv, StageChecked, Pending
    <3>6. ReleaseChecked'
      BY <1>4, <2>1, <3>1, <3>2 DEF RecordInv, ReleaseChecked
    <3> QED BY <3>4, <3>5, <3>6 DEF RecordInv
  <2>2. CASE ~(command.name = "record" /\ command.checked)
    BY <1>8, <1>9, <2>2 DEF WriteReport, Unblocked
  <2> QED BY <2>1, <2>2

<1>10. ASSUME UNCHANGED <<tree, approval, prepared, evidence>>,
              command'.name = command.name, command'.slot = command.slot
       PROVE  /\ UNCHANGED <<Scope(command.slot), Prerequisites(command.slot)>>
              /\ Shown' <=> Shown
              /\ \A p \in Prerequisites(command.slot) : Approved(p)' <=> Approved(p)
              /\ \A paths : Passes(paths)' <=> Passes(paths)
  BY <1>1, <1>4, <1>10, ScopeFacts DEF Scope, Prerequisites, Shown
<1>11. ASSUME GateSnapshot \/ CheckDocuments \/ RunCommands \/ SnapshotAgain
              \/ \E s \in Slot : CheckApproval(s)
       PROVE  RecordInv'
  <2>1. /\ UNCHANGED <<tree, approval, prepared, evidence>>
        /\ command'.name = command.name /\ command'.slot = command.slot
        /\ command.pc \in {"snapshot", "documents", "commands", "approvals"}
        /\ command'.pc \in {"documents", "commands", "approvals", "report"}
    BY <1>11 DEF GateSnapshot, CheckDocuments, RunCommands, SnapshotAgain, CheckApproval,
                 TypeOK, Commands
  <2>2. RecordName'
    BY <2>1 DEF RecordInv, RecordName, Locked
  <2>3. Pending' = {} /\ Pending = {}
    BY <2>1 DEF Pending
  <2>4. StageChecked'
    BY <1>10, <2>1, <2>3 DEF RecordInv, StageChecked
  <2>5. \/ command'.pc = "documents"
        \/ command'.pc = "commands" /\ (command'.checked => evidence)
        \/ /\ command.pc = "commands" /\ command'.pc = "approvals"
           /\ command'.checked => command.checked /\ Passes(Other)
        \/ /\ command.pc = "approvals" /\ command'.pc \in {"approvals", "report"}
           /\ command'.checked => command.checked
    <3>1. command \in Commands
      BY DEF TypeOK
    <3>2. CASE GateSnapshot
      BY <3>1, <3>2 DEF GateSnapshot, Commands
    <3>3. CASE CheckDocuments
      BY <3>1, <3>3 DEF CheckDocuments, Commands
    <3>4. CASE RunCommands
      BY <3>1, <3>4 DEF RunCommands, Commands
    <3>5. CASE SnapshotAgain
      BY <3>1, <3>5 DEF SnapshotAgain, Commands
    <3>6. CASE \E s \in Slot : CheckApproval(s)
      BY <3>1, <3>6 DEF CheckApproval, Commands
    <3> QED BY <1>11, <3>2, <3>3, <3>4, <3>5, <3>6
  <2>6. Passes(Other) => Passes(Released)
    BY CoverAssumption DEF Passes
  <2>7. ReleaseChecked'
    BY <1>10, <2>1, <2>5, <2>6 DEF RecordInv, ReleaseChecked
  <2> QED BY <2>2, <2>4, <2>7 DEF RecordInv
<1>12. ASSUME NEW s \in Slot, StartRecord(s)
       PROVE  RecordInv'
  <2>1. /\ command'.name = "record" /\ command'.slot = s /\ command'.pc = "validate"
        /\ prepared' = prepared /\ prepared[s] # None
    BY <1>12 DEF StartRecord, Idle
  <2> QED BY <2>1 DEF RecordInv, RecordName, StageChecked, ReleaseChecked, Locked
<1>13. ASSUME ValidateArtifacts
       PROVE  RecordInv'
  <2>1. CASE Passes(Scope(command.slot) \ Other)
    <3>1. /\ UNCHANGED <<tree, approval, prepared, evidence>>
          /\ command'.name = command.name /\ command'.slot = command.slot
          /\ command.pc = "validate" /\ command'.pc = "prerequisites"
          /\ command'.todo = Prerequisites(command.slot)
      BY <1>13, <2>1 DEF ValidateArtifacts, TypeOK, Commands
    <3>2. Pending' = Prerequisites(command.slot)
      BY <3>1 DEF Pending
    <3>3. RecordName' /\ ReleaseChecked'
      BY <3>1 DEF RecordInv, RecordName, ReleaseChecked, Locked
    <3>4. StageChecked'
      BY <1>10, <2>1, <3>1, <3>2 DEF StageChecked
    <3> QED BY <3>3, <3>4 DEF RecordInv
  <2>2. CASE ~Passes(Scope(command.slot) \ Other)
    BY <1>8, <1>13, <2>2 DEF ValidateArtifacts, Refuse
  <2> QED BY <2>1, <2>2
<1>14. ASSUME NEW s \in Slot, RequireApproval(s)
       PROVE  RecordInv'
  <2>1. CASE Approved(s)
    <3>1. /\ UNCHANGED <<tree, approval, prepared, evidence>>
          /\ command'.name = command.name /\ command'.slot = command.slot
          /\ command.pc = "prerequisites" /\ command'.pc = "prerequisites"
          /\ command'.todo = command.todo \ {s}
      BY <1>14, <2>1 DEF RequireApproval, TypeOK, Commands
    <3>2. Pending = command.todo /\ Pending' = command.todo \ {s}
      BY <3>1 DEF Pending
    <3>3. RecordName' /\ ReleaseChecked'
      BY <3>1 DEF RecordInv, RecordName, ReleaseChecked, Locked
    <3>4. StageChecked'
      BY <1>10, <2>1, <3>1, <3>2 DEF RecordInv, StageChecked
    <3> QED BY <3>3, <3>4 DEF RecordInv
  <2>2. CASE ~Approved(s)
    BY <1>8, <1>14, <2>2 DEF RequireApproval, Refuse
  <2> QED BY <2>1, <2>2
<1>15. ASSUME PrerequisitesMet
       PROVE  RecordInv'
  <2>1. /\ UNCHANGED <<tree, approval, prepared, evidence>>
        /\ command'.name = command.name /\ command'.slot = command.slot
        /\ command.pc = "prerequisites" /\ command.todo = {}
        /\ command'.pc = IF command.slot = Release THEN "snapshot" ELSE "manifest"
    BY <1>15 DEF PrerequisitesMet, Proceed, TypeOK, Commands
  <2>2. Pending = {} /\ Pending' = {}
    BY <2>1 DEF Pending
  <2>3. RecordName' /\ ReleaseChecked'
    BY <2>1 DEF RecordInv, RecordName, ReleaseChecked, Locked
  <2>4. StageChecked'
    BY <1>10, <2>1, <2>2 DEF RecordInv, StageChecked
  <2> QED BY <2>3, <2>4 DEF RecordInv
<1>16. ASSUME StartGate \/ Interrupt
       PROVE  RecordInv'
  <2>1. command'.name # "record" /\ command'.pc \in {"idle", "snapshot"}
    BY <1>7, <1>16 DEF StartGate, Interrupt, Idle
  <2> QED BY <1>2, <2>1
<1>17. ASSUME CommandTurns
       PROVE  RecordInv'
  BY <1>11, <1>12, <1>13, <1>14, <1>15, <1>16, <1>17 DEF CommandTurns
<1>18. ASSUME RecordApproval
       PROVE  RecordInv'
  BY <1>8, <1>18 DEF RecordApproval
<1>19. ASSUME NEW s \in Slot, Prepare(s)
       PROVE  RecordInv'
  BY <1>3, <1>19 DEF Prepare
<1> QED BY <1>3, <1>5, <1>6, <1>9, <1>17, <1>18, <1>19, Frame

-----------------------------------------------------------------------------
(* What gates, approvals and status promise                                *)

LEMMA InitInv == Init => IInv
<1> SUFFICES ASSUME Init PROVE IInv
  OBVIOUS
<1>1. /\ Idle.pc = "idle" /\ Idle.name = "none" /\ Idle.inputs = None
      /\ AtRest.pc = "idle" /\ AtRest.report = None
  BY DEF Idle, AtRest
<1>2. /\ command.pc = "idle" /\ command.name = "none" /\ command.inputs = None
      /\ inquiry.pc = "idle" /\ inquiry.report = None /\ report = None
      /\ \A s \in Slot : prepared[s] = None
      /\ \A p \in Path : tree[p] \in seen[p]
  BY <1>1 DEF Init
<1>3. SeenInv
  BY <1>2 DEF SeenInv
<1>4. GateInv
  BY <1>2 DEF GateInv
<1>5. ReaderInv
  BY <1>2 DEF ReaderInv, Reading
<1>6. RecordInv
  BY <1>2 DEF RecordInv, RecordName, StageChecked, ReleaseChecked
<1> QED BY <1>3, <1>4, <1>5, <1>6 DEF IInv

LEMMA InvCorrect == ASSUME ~Restore PROVE Spec => [](TypeOK /\ IInv)
<1>1. Init => TypeOK /\ IInv
  BY InitType, InitInv
<1>2. TypeOK /\ IInv /\ [Next]_vars => (TypeOK /\ IInv)'
  BY TypeStep, SeenStep, GateStep, ReaderStep, RecordStep DEF IInv
<1> QED BY <1>1, <1>2, PTL DEF Spec

\* A report that passes names inputs each of which is sound, for which every
\* stage is approved, however the tree is edited while the gate runs.
THEOREM GateIsTruthful == ASSUME ~Restore PROVE Spec => GateSawOneTree
<1>1. ASSUME TypeOK, IInv, [Next]_vars, report' # report, report'.pass
      PROVE  /\ \A p \in InputPaths : report'.inputs[p] \in Sound[p]
             /\ \A s \in Slot : Agrees(s, report'.inputs)
  <2>1. WriteReport
    BY <1>1, Frame
  <2>2. /\ command.pc = "report" /\ report'.inputs = command.inputs
        /\ command.checked /\ command.approved
    BY <1>1, <2>1 DEF WriteReport
  <2> QED BY <1>1, <2>2 DEF IInv, GateInv
<1>2. TypeOK /\ IInv /\ [Next]_vars =>
         [report' # report /\ report'.pass =>
             /\ \A p \in InputPaths : report'.inputs[p] \in Sound[p]
             /\ \A s \in Slot : Agrees(s, report'.inputs)]_vars
  BY <1>1
<1> QED BY <1>2, InvCorrect, PTL DEF Spec, GateSawOneTree

\* When status answers ready, the current inputs are sound and approved.
THEOREM ReadyIsTrue == ASSUME ~Restore PROVE Spec => []ReadyIsCurrent
<1>1. TypeOK /\ IInv => ReadyIsCurrent
  <2> SUFFICES ASSUME TypeOK, IInv, AnswersReady
               PROVE  Passes(InputPaths) /\ \A s \in Slot : Agrees(s, Inputs)
    BY DEF ReadyIsCurrent
  <2>1. inquiry.pc = "compare" /\ Fresh(inquiry.report)
    BY DEF AnswersReady
  <2>2. \A p \in InputPaths : Inputs[p] \in Sound[p]
    BY <2>1 DEF Fresh, IInv, ReaderInv, Truthful
  <2>3. Passes(InputPaths)
    BY <2>2, InputsAreTree DEF Passes
  <2> QED BY <2>1, <2>3 DEF IInv, ReaderInv
<1> QED BY <1>1, InvCorrect, PTL

\* An approval binds what the approver was shown, checked and with its
\* prerequisites approved.
THEOREM ApprovalsEarned == ASSUME ~Restore PROVE Spec => ApprovalsAreEarned
<1>1. ASSUME TypeOK, IInv, [Next]_vars, NEW s \in Slot, approval'[s] # approval[s]
      PROVE  /\ approval'[s] = prepared[s] /\ prepared[s] = Manifest(s)
             /\ Passes(Scope(s) \ Other)
             /\ \A p \in Prerequisites(s) : Approved(p)
             /\ s = Release => Passes(Scope(s)) /\ evidence
  <2>1. RecordApproval
    BY <1>1, Frame
  <2>2. /\ s = command.slot /\ command.pc = "manifest"
        /\ approval'[s] = Manifest(s) /\ Manifest(s) = prepared[s]
    BY <1>1, <2>1 DEF RecordApproval, TypeOK
  <2>3. command.name = "record" /\ Shown /\ Pending = {}
    BY <1>1, <2>2 DEF IInv, RecordInv, RecordName, Shown, Pending
  <2>4. Passes(Scope(s) \ Other) /\ \A p \in Prerequisites(s) : Approved(p)
    BY <1>1, <2>2, <2>3 DEF IInv, RecordInv, StageChecked
  <2>5. s = Release => evidence /\ Passes(Released)
    BY <1>1, <2>2, <2>3 DEF IInv, RecordInv, ReleaseChecked
  <2>6. s = Release => Passes(Scope(s))
    BY <2>4, <2>5, ScopeFacts DEF Passes
  <2> QED BY <2>2, <2>4, <2>5, <2>6
<1>2. TypeOK /\ IInv /\ [Next]_vars =>
         [\A s \in Slot : approval'[s] # approval[s] =>
             /\ approval'[s] = prepared[s] /\ prepared[s] = Manifest(s)
             /\ Passes(Scope(s) \ Other)
             /\ \A p \in Prerequisites(s) : Approved(p)
             /\ s = Release => Passes(Scope(s)) /\ evidence]_vars
  BY <1>1
<1> QED BY <1>2, InvCorrect, PTL DEF Spec, ApprovalsAreEarned
=============================================================================
