--------------------------- MODULE ApprovalGate ---------------------------
(***************************************************************************)
(* Human approvals, the quality gate and the status command: approval.ts,  *)
(* approval-record.ts, gate.ts and the snapshots of files.ts.              *)
(*                                                                         *)
(* An approval binds the contents of the artifacts in the scope of its     *)
(* stage, a gate report the contents of all watched inputs.  Commands that *)
(* record one or the other hold the evidence-writer lock (WriterLock), so  *)
(* there is one at a time; but the lock does not cover the work tree: the  *)
(* developer, a formatter or a checkout edits it between any two reads,    *)
(* and the status command takes no lock at all.                            *)
(*                                                                         *)
(* What a validator or a test says of a content is the constant Sound; all *)
(* other evidence the gate looks at (TDD cycles, change records, waivers,  *)
(* ...) is one Boolean.                                                    *)
(***************************************************************************)
EXTENDS Naturals

CONSTANTS
    Domain,          \* approval domains; one that stands for the whole
                     \* repository when none is configured
    Scoped,          \* TRUE when approval.domains is configured
    Required,        \* approval.mode = "required" rather than "compatible"
    Constitution,    \* .musubix/constitution.md, in the scope of every stage
    Other,           \* source, tests, configuration, skills, ignored files
    Watched,         \* those of Other that a gate fingerprints
    Released,        \* those of Other that a release approval binds
    Version,         \* contents a path can have
    Initial,         \* the content every path begins with
    Sound,           \* Sound[p]: contents of p that the checks accept
    Release,         \* the release stage
    Restore,         \* TRUE when an edit during a command may bring back
                     \* a content the path had before
    MaxDisturbances, \* bound: edits, evidence losses and interruptions
    None             \* no approval, no report, nothing prepared

Doc == {"requirements", "design"} \X Domain
Path == Doc \cup {Constitution} \cup Other
Slot == Doc \cup {Release}
InputPaths == Doc \cup {Constitution} \cup Watched  \* what a gate fingerprints

ASSUME DomainAssumption ==
    /\ Domain # {}
    /\ Scoped \in BOOLEAN
    /\ Scoped \/ \A d, e \in Domain : d = e
ASSUME PathAssumption ==
    /\ Constitution \notin Doc \cup Other
    /\ Other \cap Doc = {}
    /\ Release \notin Doc
\* Nothing the checks read is outside both the fingerprints of the gate and
\* the manifest of a release approval.
ASSUME CoverAssumption ==
    /\ Watched \subseteq Other
    /\ Released \subseteq Other
    /\ Other \subseteq Watched \cup Released
ASSUME ContentAssumption ==
    /\ Initial \in Version
    /\ Sound \in [Path -> SUBSET Version]
ASSUME FlagAssumption ==
    /\ Required \in BOOLEAN
    /\ Restore \in BOOLEAN
    /\ MaxDisturbances \in Nat

VARIABLES
    tree,         \* the work tree: tree[p] is the content of path p
    seen,         \* history: the contents each path has had
    evidence,     \* TRUE when all other evidence passes its checks
    prepared,     \* prepared[s]: the manifest last shown to the approver of s
    approval,     \* approval[s]: the manifest bound by the approval of s
    report,       \* quality.json: the inputs it describes and its status
    command,      \* the command that holds the writer lock
    inquiry,      \* a status command
    disturbances  \* edits, losses and interruptions so far

vars == <<tree, seen, evidence, prepared, approval, report, command, inquiry,
          disturbances>>

-----------------------------------------------------------------------------
(* Manifests and what is read from them.                                   *)

Scope(s) ==
    IF s = Release
    THEN Doc \cup {Constitution} \cup Released
    ELSE {Constitution} \cup
         {p \in Doc : p[2] = s[2] /\ (p[1] = "requirements" \/ s[1] = "design")}

Contents(paths) == [p \in paths |-> tree[p]]
Manifest(s) == Contents(Scope(s))
Inputs == Contents(InputPaths)
Passes(paths) == \A p \in paths : tree[p] \in Sound[p]

Approved(s) == approval[s] = Manifest(s)
\* A missing approval is accepted in compatible mode, a stale one never.
Accepted(s) == Approved(s) \/ (approval[s] = None /\ ~Required)

Prerequisites(s) ==
    IF s # Release
    THEN {p \in Doc : s[1] = "design" /\ p = <<"requirements", s[2]>>}
    ELSE {p \in Doc : Scoped \/ p[1] = "design"}

\* The approval of s agrees with given inputs: there is none and none is
\* required, or it binds just these contents.
Agrees(s, inputs) ==
    \/ approval[s] = None /\ ~Required
    \/ /\ approval[s] # None
       /\ \A p \in Scope(s) \cap InputPaths : approval[s][p] = inputs[p]

OrNone(set) == set \cup {None}
ManifestsOf(s) == [Scope(s) -> Version]
Reports == [inputs : [InputPaths -> Version], pass : BOOLEAN]
Commands ==
    [name     : {"none", "gate", "record"},
     slot     : Slot,
     pc       : {"idle", "validate", "prerequisites", "snapshot", "documents",
                 "commands", "approvals", "report", "manifest"},
     todo     : SUBSET Slot,
     inputs   : OrNone([InputPaths -> Version]),
     checked  : BOOLEAN,
     approved : BOOLEAN]
Inquiries ==
    [pc     : {"idle", "approvals", "compare"},
     todo   : SUBSET Slot,
     report : OrNone(Reports)]

\* The command holding the lock: what it does, for which stage, where it
\* stands, the stages it still has to look at, the inputs of its gate's last
\* snapshot, and whether the checks and the approvals have passed so far.
Idle == [name |-> "none", slot |-> Release, pc |-> "idle", todo |-> {},
         inputs |-> None, checked |-> TRUE, approved |-> TRUE]
\* A status command: where it stands, the stages whose approval it has still
\* to read, and the report it has read.
AtRest == [pc |-> "idle", todo |-> {}, report |-> None]

Init ==
    /\ tree = [p \in Path |-> Initial]
    /\ seen = [p \in Path |-> {Initial}]
    /\ evidence = TRUE
    /\ prepared = [s \in Slot |-> None]
    /\ approval = [s \in Slot |-> None]
    /\ report = None
    /\ command = Idle
    /\ inquiry = AtRest
    /\ disturbances = 0

Locked == command.pc # "idle"
Reading == inquiry.pc # "idle"
project == <<tree, seen, evidence, disturbances>>
recorded == <<prepared, approval, report>>

ASSUME NoneAssumption ==
    /\ \A s \in Slot : None \notin ManifestsOf(s)
    /\ None \notin [InputPaths -> Version]
    /\ None \notin Reports

-----------------------------------------------------------------------------
(* The environment: edits, loss and repair of evidence, interruptions.     *)

Disturb == disturbances < MaxDisturbances /\ disturbances' = disturbances + 1

Edit(p, v) ==
    /\ Disturb
    /\ v # tree[p]
    /\ (Locked \/ Reading) /\ ~Restore => v \notin seen[p]
    /\ tree' = [tree EXCEPT ![p] = v]
    /\ seen' = [seen EXCEPT ![p] = @ \cup {v}]
    /\ UNCHANGED <<evidence, recorded, command, inquiry>>

\* A void, an unverified workflow, a new uncovered requirement.
LoseEvidence ==
    /\ ~Locked
    /\ Disturb
    /\ evidence
    /\ evidence' = FALSE
    /\ UNCHANGED <<tree, seen, recorded, command, inquiry>>

RepairEvidence ==
    /\ ~Locked
    /\ ~evidence
    /\ evidence' = TRUE
    /\ UNCHANGED <<tree, seen, recorded, command, inquiry, disturbances>>

\* The command is killed and its lock recovered.
Interrupt ==
    /\ Locked
    /\ Disturb
    /\ command' = Idle
    /\ UNCHANGED <<tree, seen, evidence, recorded, inquiry>>

-----------------------------------------------------------------------------
(* approval prepare and approval record.                                   *)

Prepare(s) ==
    /\ ~Locked
    /\ prepared' = [prepared EXCEPT ![s] = Manifest(s)]
    /\ UNCHANGED <<project, approval, report, command, inquiry>>

StartRecord(s) ==
    /\ ~Locked
    /\ prepared[s] # None
    /\ command' = [Idle EXCEPT !.name = "record", !.slot = s, !.pc = "validate"]
    /\ UNCHANGED <<project, recorded, inquiry>>

Refuse == command' = Idle
Proceed(pc) == command' = [command EXCEPT !.pc = pc]

\* validateStageArtifacts: the documents of the stage are well-formed.
ValidateArtifacts ==
    /\ command.pc = "validate"
    /\ IF Passes(Scope(command.slot) \ Other)
       THEN command' = [command EXCEPT !.pc = "prerequisites",
                                       !.todo = Prerequisites(command.slot)]
       ELSE Refuse
    /\ UNCHANGED <<project, recorded, inquiry>>

RequireApproval(s) ==
    /\ command.pc = "prerequisites"
    /\ s \in command.todo
    /\ IF Approved(s)
       THEN command' = [command EXCEPT !.todo = @ \ {s}]
       ELSE Refuse
    /\ UNCHANGED <<project, recorded, inquiry>>

PrerequisitesMet ==
    /\ command.pc = "prerequisites"
    /\ command.todo = {}
    /\ Proceed(IF command.slot = Release THEN "snapshot" ELSE "manifest")
    /\ UNCHANGED <<project, recorded, inquiry>>

\* Wrong variant: the manifest is recorded without comparing its hash.
RecordCurrentManifest ==
    /\ command.pc = "manifest"
    /\ approval' = [approval EXCEPT ![command.slot] = Manifest(command.slot)]
    /\ command' = Idle
    /\ UNCHANGED <<project, prepared, report, inquiry>>

RecordApproval ==
    /\ command.pc = "manifest"
    /\ approval' = IF Manifest(command.slot) = prepared[command.slot]
                   THEN [approval EXCEPT ![command.slot] = Manifest(command.slot)]
                   ELSE approval
    /\ command' = Idle
    /\ UNCHANGED <<project, prepared, report, inquiry>>

-----------------------------------------------------------------------------
(* The gate, on its own or within the recording of a release approval.     *)

StartGate ==
    /\ ~Locked
    /\ command' = [Idle EXCEPT !.name = "gate", !.pc = "snapshot"]
    /\ UNCHANGED <<project, recorded, inquiry>>

GateSnapshot ==
    /\ command.pc = "snapshot"
    /\ command' = [command EXCEPT !.pc = "documents", !.inputs = Inputs,
                                  !.checked = TRUE, !.approved = TRUE]
    /\ UNCHANGED <<project, recorded, inquiry>>

CheckDocuments ==
    /\ command.pc = "documents"
    /\ command' = [command EXCEPT !.pc = "commands",
                       !.checked = evidence /\ Passes(Doc \cup {Constitution})]
    /\ UNCHANGED <<project, recorded, inquiry>>

RunCommands ==
    /\ command.pc = "commands"
    /\ command' = [command EXCEPT !.pc = "approvals", !.todo = Slot,
                                  !.checked = @ /\ Passes(Other)]
    /\ UNCHANGED <<project, recorded, inquiry>>

CheckApproval(s) ==
    /\ command.pc = "approvals"
    /\ s \in command.todo
    /\ command' = [command EXCEPT !.todo = @ \ {s},
                                  !.approved = @ /\ Accepted(s)]
    /\ UNCHANGED <<project, recorded, inquiry>>

\* Inputs that differ from the first snapshot fail input-stability.
Stable == command.inputs = Inputs

\* Wrong variant: the second snapshot is not compared with the first.
SnapshotAgainUnchecked ==
    /\ command.pc = "approvals"
    /\ command.todo = {}
    /\ command' = [command EXCEPT !.pc = "report", !.inputs = Inputs]
    /\ UNCHANGED <<project, recorded, inquiry>>

SnapshotAgain ==
    /\ command.pc = "approvals"
    /\ command.todo = {}
    /\ command' = [command EXCEPT !.pc = "report", !.inputs = Inputs,
                                  !.checked = @ /\ Stable]
    /\ UNCHANGED <<project, recorded, inquiry>>

\* Wrong variant: approvals, too, block the recording of a release approval.
UnblockedByApprovals == command.checked /\ command.approved

\* A release approval goes on when every check but the approvals has passed.
Unblocked == command.checked

WriteReport ==
    /\ command.pc = "report"
    /\ report' = [inputs |-> command.inputs,
                  pass   |-> command.checked /\ command.approved]
    /\ IF command.name = "record" /\ Unblocked
       THEN Proceed("manifest")
       ELSE command' = Idle
    /\ UNCHANGED <<project, prepared, approval, inquiry>>

-----------------------------------------------------------------------------
(* status: approvals first, then the report, then the inputs.  Evidence is *)
(* not read while a writer holds the lock: the command fails, unless there *)
(* is no such file.  The manifest of a stage is taken before its approval  *)
(* is read; that an approval found matching then was so at one moment      *)
(* makes the two one step.  A status that can no longer answer ready is    *)
(* over, whatever else it prints.                                          *)

StartInquiry ==
    /\ ~Reading
    /\ ~Locked
    /\ inquiry' = [AtRest EXCEPT !.pc = "approvals", !.todo = Slot]
    /\ UNCHANGED <<project, recorded, command>>

ReadRefused ==
    /\ inquiry.pc = "approvals"
    /\ Locked
    /\ inquiry' = AtRest
    /\ UNCHANGED <<project, recorded, command>>

ReadApproval(s) ==
    /\ inquiry.pc = "approvals"
    /\ s \in inquiry.todo
    /\ Locked => approval[s] = None
    /\ inquiry' = IF Accepted(s) THEN [inquiry EXCEPT !.todo = @ \ {s}] ELSE AtRest
    /\ UNCHANGED <<project, recorded, command>>

ReadReport ==
    /\ inquiry.pc = "approvals"
    /\ inquiry.todo = {}
    /\ Locked => report = None
    /\ inquiry' = [inquiry EXCEPT !.pc = "compare", !.report = report]
    /\ UNCHANGED <<project, recorded, command>>

\* Wrong variant: the fingerprints are not compared.
FreshOnceWritten(r) == r # None /\ r.pass

\* A report is current while the inputs are those it describes.
Fresh(r) == r # None /\ r.pass /\ r.inputs = Inputs

AnswersReady == inquiry.pc = "compare" /\ Fresh(inquiry.report)

Answer ==
    /\ inquiry.pc = "compare"
    /\ inquiry' = AtRest
    /\ UNCHANGED <<project, recorded, command>>

-----------------------------------------------------------------------------
(* The specification.                                                      *)

CommandStep ==
    \/ ValidateArtifacts \/ PrerequisitesMet \/ RecordApproval
    \/ GateSnapshot \/ CheckDocuments \/ RunCommands \/ SnapshotAgain \/ WriteReport
    \/ \E s \in Slot : RequireApproval(s) \/ CheckApproval(s)

InquiryStep ==
    \/ StartInquiry \/ ReadRefused \/ ReadReport \/ Answer
    \/ \E s \in Slot : ReadApproval(s)

Environment ==
    \/ \E p \in Path, v \in Version : Edit(p, v)
    \/ LoseEvidence \/ RepairEvidence \/ Interrupt

Next ==
    \/ \E s \in Slot : Prepare(s) \/ StartRecord(s)
    \/ StartGate
    \/ CommandStep
    \/ InquiryStep
    \/ Environment

Spec == Init /\ [][Next]_vars

\* What status proposes next: prepare and record the stages that are not
\* accepted, from requirements to release, and once all are, run the gate.
Ready == (\A s \in Slot : Accepted(s)) /\ Fresh(report)
First(s) == ~Accepted(s) /\ \A p \in (IF s = Release THEN Doc ELSE Prerequisites(s)) :
                               Accepted(p)
FollowAdvice ==
    \/ \E s \in Slot : First(s) /\ IF prepared[s] = Manifest(s) THEN StartRecord(s)
                                                              ELSE Prepare(s)
    \/ (\A s \in Slot : Accepted(s)) /\ ~Ready /\ StartGate

\* A running command takes its next step; the developer follows the advice,
\* again when a command was refused or the lock was taken.
Fairness == WF_vars(CommandStep) /\ SF_vars(FollowAdvice)

FairSpec == Spec /\ Fairness

-----------------------------------------------------------------------------
(* Properties.                                                             *)

\* Type invariant: manifests bind just the scope of their stage, reports all
\* inputs, and a gate past its first snapshot knows what it began with.
TypeOK ==
    /\ tree \in [Path -> Version]
    /\ seen \in [Path -> SUBSET Version]
    /\ evidence \in BOOLEAN
    /\ prepared = [s \in Slot |-> prepared[s]]
    /\ approval = [s \in Slot |-> approval[s]]
    /\ \A s \in Slot : {prepared[s], approval[s]} \subseteq OrNone(ManifestsOf(s))
    /\ report \in OrNone(Reports)
    /\ command \in Commands
    /\ command.pc \in {"documents", "commands", "approvals", "report"} => command.inputs # None
    /\ inquiry \in Inquiries
    /\ disturbances \in 0..MaxDisturbances

\* A gate reads every input at a time of its own while the tree is being
\* edited.  A report that passes nevertheless tells the truth about the inputs
\* it names: each is sound, and every stage is approved for just these
\* (runGateUnlocked, gate.ts:592).
GateSawOneTree ==
    [][report' # report /\ report'.pass =>
          /\ \A p \in InputPaths : report'.inputs[p] \in Sound[p]
          /\ \A s \in Slot : Agrees(s, report'.inputs)]_vars

\* When status answers ready, then at that moment every input is sound, and
\* every stage approved for just the current inputs, although approvals, report
\* and inputs were read one after the other without the lock, and recorders and
\* gates may have run in between (projectStatus, gate.ts:713).
ReadyIsCurrent ==
    AnswersReady => Passes(InputPaths) /\ \A s \in Slot : Agrees(s, Inputs)

\* No approval comes to bind contents that the approver was not shown, that
\* are not well-formed, or whose prerequisite stages are not themselves
\* approved for the same contents; a release approval none that the checks
\* do not accept (recordApprovalUnlocked, approval-record.ts:87).
ApprovalsAreEarned ==
    [][\A s \in Slot : approval'[s] # approval[s] =>
          /\ approval'[s] = prepared[s] /\ prepared[s] = Manifest(s)
          /\ Passes(Scope(s) \ Other)
          /\ \A p \in Prerequisites(s) : Approved(p)
          /\ s = Release => Passes(Scope(s)) /\ evidence]_vars

\* Approvals, reports and the advice of status do not wait for each other in
\* a circle: once the artifacts stay sound, following the advice makes the
\* project ready, and it stays so (release approval needs a gate, a passing
\* gate needs the release approval; approval-record.ts:79).
AdviceLeadsToReady ==
    <>[](evidence /\ Passes(Path)) => <>[]Ready
=============================================================================
