---------------------------- MODULE GateEvidence ----------------------------
(***************************************************************************)
(* The evidence a gate generates and a CI attestation signs: the commands  *)
(* of gate.ts with their reports, performance.ts, mutation.ts,             *)
(* model-correspondence.ts and attestation.ts.                             *)
(*                                                                         *)
(* A gate stores the trace and the formal result, runs each configured     *)
(* command, reads the report it left, writes three evidence files bound by *)
(* hashes to what they were made from, validates them again from disk,     *)
(* compares the attestation with the current heads and only then writes    *)
(* its own report, whose head the attestation binds as well.  Meanwhile    *)
(* files are edited, commands fail or leave no report, the gate is killed, *)
(* and the payload of an attestation is collected file by file.            *)
(*                                                                         *)
(* Commands also run without a gate: by hand, and left behind by a gate    *)
(* that was killed, which has spawned them detached.  Such a run writes    *)
(* its report when it ends, if ever, whatever a gate is doing then.        *)
(*                                                                         *)
(* A content is a number that grows with each edit of its path: nothing an *)
(* edit removed comes back.  A hash is what it was computed from.          *)
(***************************************************************************)
EXTENDS Naturals, Functions

CONSTANTS
    Mutating,         \* TRUE when a mutation command is configured, too
    Flawed,           \* versions of the source whose tests do not pass
    MaxDisturbances,  \* bound: edits, faults, kills, runs and gates out of turn
    None              \* no such file, no report, no execution

ASSUME GateEvidenceAssumption ==
    /\ Mutating \in BOOLEAN
    /\ MaxDisturbances \in Nat
    /\ Flawed \subseteq Nat
    /\ None \notin Nat

TraceFile == {"requirements", "tests", "source"}
File == TraceFile \cup {"config"}
TestCommand == "tests"
MutationCommand == "mutation"
Command == {TestCommand} \cup (IF Mutating THEN {MutationCommand} ELSE {})
Mode == {"full", "changed", "feature"}

VARIABLES
    tree,            \* the work tree: tree[f] is the version of file f
    trace,           \* the stored trace: fingerprints of its inputs
    report,          \* report[c]: the report file of command c
    runs,            \* the commands that run without a gate
    formal, performance, mutation, correspondence,  \* evidence files
    quality,         \* quality.json
    attestation,     \* attestation.json
    gate,            \* the gate that holds the writer lock
    signer,          \* a collection of the heads to be signed
    context,         \* the commit and CI run at hand
    disturbances     \* disturbances so far

evidence == <<formal, performance, mutation, correspondence>>
world == <<tree, context, disturbances>>
vars == <<world, trace, report, runs, evidence, quality, attestation, gate, signer>>

\* The gate: where it stands and at which command, the configuration, the
\* first snapshot and the requirement texts it has read, the files its command
\* runs on and the exit of the last one, the executions so far, whether all
\* checks have passed, whether the attestation has, and (history) whether other
\* runs overlapped its command and what the attested tests ran on.
Idle == [pc |-> "idle", mode |-> "full", command |-> TestCommand, config |-> None,
         before |-> None, model |-> None, ran |-> None, exit |-> FALSE,
         overlapped |-> FALSE,
         executed |-> [c \in {TestCommand, MutationCommand} |-> None],
         sound |-> TRUE, verified |-> FALSE, signed |-> None]
HeadName == {"formal", "performance", "mutation", "correspondence", "quality",
             "workspace"}

\* A collection of heads: the next one, the commit and CI run, those read so
\* far, and (history) the execution behind the correspondence evidence.
AtRest == [pc |-> "idle", context |-> 0,
           heads |-> [name \in HeadName |-> <<>>], tested |-> None]

Init ==
    /\ tree = [f \in File |-> 0]
    /\ report = [c \in {TestCommand, MutationCommand} |-> None]
    /\ runs = {}
    /\ context = 0
    /\ disturbances = 0
    /\ trace = None
    /\ formal = None /\ performance = None /\ mutation = None /\ correspondence = None
    /\ quality = None
    /\ attestation = None
    /\ gate = Idle
    /\ signer = AtRest

Locked == gate.pc # "idle"
Disturb == disturbances < MaxDisturbances /\ disturbances' = disturbances + 1
Goto(pc) == gate' = [gate EXCEPT !.pc = pc]
Tested == Restrict(tree, {"tests", "source"})

-----------------------------------------------------------------------------
(* What the evidence files say and what makes them valid, read from disk.  *)

\* The text of a report: a test report says what passed, a mutation report
\* also names the fingerprints of source and tests.
Text(c, r) == IF c = TestCommand THEN <<r.passed>> ELSE <<r.passed, r.ran>>

\* The report file is still the one the execution was made from, and the
\* configured command is still the one that ran.
Traceable(c, execution) ==
    /\ execution.command = tree["config"]
    /\ report[c] # None
    /\ Text(c, report[c]) = execution.text

\* The stored trace describes the files as they are.
TraceFresh == trace # None /\ trace = Restrict(tree, TraceFile)

\* One successful execution has reported the counter, within the budget that
\* the requirements declare now.
ValidPerformance ==
    /\ performance # None
    /\ performance.execution # None
    /\ performance.budget = tree["requirements"]
    /\ Traceable(TestCommand, performance.execution)

\* A killed mutant of the current source, found by the current tests.
MutantsCurrent(execution) == execution.text = <<TRUE, Tested>>

ValidMutation ==
    \/ ~Mutating /\ mutation = None
    \/ /\ mutation # None
       /\ TraceFresh
       /\ mutation.execution # None
       /\ Traceable(MutationCommand, mutation.execution)
       /\ MutantsCurrent(mutation.execution)

\* The linked test is unchanged and passed in the report its entry names.
TestProven(entry) ==
    /\ entry.execution # None
    /\ entry.test = tree["tests"]
    /\ Traceable(TestCommand, entry.execution)

ValidCorrespondence ==
    /\ correspondence # None
    /\ formal # None
    /\ TraceFresh
    /\ correspondence.trace = trace
    /\ correspondence.formal = formal
    /\ formal.fingerprint = tree["requirements"]
    /\ formal.model = tree["requirements"]
    /\ correspondence.model = tree["requirements"]
    /\ TestProven(correspondence)

-----------------------------------------------------------------------------
(* The heads an attestation binds: the run, its time and the hash of the   *)
(* report text are left out of them, so that a gate repeated on the same   *)
(* inputs reproduces them.  (The heads of the histories that a gate does   *)
(* not write are the business of TddCycle, ChangeRecord and                *)
(* WorkflowEvidence.)                                                      *)

ExecutionHead(execution) ==
    IF execution = None THEN None
    ELSE [command |-> execution.command, tests |-> execution.text]

PerformanceHead(doc) ==
    [execution |-> ExecutionHead(doc.execution), budget |-> doc.budget]

MutationHead(doc) == ExecutionHead(doc.execution)

CorrespondenceHead(doc) ==
    [formal |-> doc.formal, trace |-> doc.trace, model |-> doc.model,
     test |-> doc.test,
     command |-> IF doc.execution = None THEN None ELSE doc.execution.command]

\* Wrong variant: the result of the attestation check is part of the head.
QualityHeadOfAllChecks(doc) ==
    [mode |-> doc.mode, checks |-> doc.sound /\ doc.verified]

\* All checks but the attestation itself.
QualityHead(doc) == [mode |-> doc.mode, checks |-> doc.sound]

\* One head, or none where there is no such file.
Head(name) ==
    CASE name = "formal" -> IF formal = None THEN <<>> ELSE <<formal>>
      [] name = "performance" ->
            IF performance = None THEN <<>> ELSE <<PerformanceHead(performance)>>
      [] name = "mutation" ->
            IF mutation = None THEN <<>> ELSE <<MutationHead(mutation)>>
      [] name = "correspondence" ->
            IF correspondence = None THEN <<>> ELSE <<CorrespondenceHead(correspondence)>>
      [] name = "quality" ->
            IF quality = None THEN <<>> ELSE <<QualityHead(quality)>>
      [] name = "workspace" -> <<tree>>

Heads == [name \in HeadName |-> Head(name)]

\* Wrong variant: the signature and the CI context are checked, not the heads.
MatchesContext == attestation # None /\ attestation.context = context

\* The attestation is of this commit and CI run and of the current heads.
Matches ==
    /\ attestation # None
    /\ attestation.context = context
    /\ attestation.heads = Heads

-----------------------------------------------------------------------------
(* The gate.                                                               *)

\* A gate in CI; those out of turn or in another mode are disturbances.
StartGate(mode) ==
    /\ ~Locked
    /\ IF mode = "full" /\ signer.pc = "idle"
       THEN UNCHANGED disturbances
       ELSE Disturb
    /\ gate' = [Idle EXCEPT !.pc = "snapshot", !.mode = mode, !.config = tree["config"]]
    /\ UNCHANGED <<tree, context, trace, report, runs, evidence, quality, attestation,
                   signer>>

Snapshot ==
    /\ gate.pc = "snapshot"
    /\ gate' = [gate EXCEPT !.pc = "trace", !.before = tree]
    /\ UNCHANGED <<world, trace, report, runs, evidence, quality, attestation, signer>>

BuildTrace ==
    /\ gate.pc = "trace"
    /\ trace' = Restrict(tree, TraceFile)
    /\ Goto("model")
    /\ UNCHANGED <<world, report, runs, evidence, quality, attestation, signer>>

\* The formal result is computed from the texts read now ...
CheckModel ==
    /\ gate.pc = "model"
    /\ gate' = [gate EXCEPT !.pc = "formal", !.model = tree["requirements"]]
    /\ UNCHANGED <<world, trace, report, runs, evidence, quality, attestation, signer>>

\* ... and its fingerprints are taken when it is written.
RecordFormal ==
    /\ gate.pc = "formal"
    /\ formal' = [model |-> gate.model, fingerprint |-> tree["requirements"]]
    /\ Goto("clear")
    /\ UNCHANGED <<world, trace, report, runs, performance, mutation, correspondence,
                   quality, attestation, signer>>

\* A run on older files is under way, whose report may come later.
Overlapped(c) == \E run \in runs : run.command = c /\ run.ran # Tested
Launch(c) == gate' = [gate EXCEPT !.pc = "run", !.overlapped = Overlapped(c)]

\* Wrong variant: what an earlier run has left is not removed.
ClearNothing(c) ==
    /\ gate.pc = "clear" /\ gate.command = c
    /\ Launch(c)
    /\ UNCHANGED <<world, trace, report, runs, evidence, quality, attestation, signer>>

\* A report left by an earlier run is removed before its command runs.
Clear(c) ==
    /\ gate.pc = "clear" /\ gate.command = c
    /\ report' = [report EXCEPT ![c] = None]
    /\ Launch(c)
    /\ UNCHANGED <<world, trace, runs, evidence, quality, attestation, signer>>

Passes(files) == files["source"] \notin Flawed
ReportOf(files) == [passed |-> Passes(files), ran |-> files]

\* The command is spawned, in a process group of its own, and reads the files.
StartCommand(c) ==
    /\ gate.pc = "run" /\ gate.command = c
    /\ gate' = [gate EXCEPT !.pc = "running", !.ran = Tested]
    /\ UNCHANGED <<world, trace, report, runs, evidence, quality, attestation, signer>>

\* It writes its report and succeeds when the tests pass; or it goes wrong: it
\* fails, or leaves no report.
EndCommand(c) ==
    /\ gate.pc = "running" /\ gate.command = c
    /\ \/ /\ report' = [report EXCEPT ![c] = ReportOf(gate.ran)]
          /\ gate' = [gate EXCEPT !.pc = "read", !.exit = Passes(gate.ran)]
          /\ UNCHANGED disturbances
       \/ /\ Disturb
          /\ \E ok \in BOOLEAN : gate' = [gate EXCEPT !.pc = "read", !.exit = ok]
          /\ UNCHANGED report
    /\ UNCHANGED <<tree, context, trace, runs, evidence, quality, attestation, signer>>

\* A successful command has left a report; that of a test command is no use
\* when a test in it has not passed.
Usable(c) ==
    /\ gate.exit
    /\ report[c] # None
    /\ c = TestCommand => report[c].passed

\* The report of a successful command becomes an execution record.
ReadReport(c) ==
    /\ gate.pc = "read" /\ gate.command = c
    /\ gate' = [gate EXCEPT
          !.pc = IF c = TestCommand /\ Mutating THEN "clear" ELSE "performance",
          !.command = MutationCommand,
          !.exit = FALSE,
          !.sound = @ /\ Usable(c),
          !.executed[c] =
             IF Usable(c)
             THEN [command |-> gate.config, text |-> Text(c, report[c]),
                   ran |-> report[c].ran, overlapped |-> gate.overlapped]
             ELSE None]
    /\ UNCHANGED <<world, trace, report, runs, evidence, quality, attestation, signer>>

RecordPerformance ==
    /\ gate.pc = "performance"
    /\ performance' = [execution |-> gate.executed[TestCommand],
                       budget |-> tree["requirements"]]
    /\ Goto("checkPerformance")
    /\ UNCHANGED <<world, trace, report, runs, formal, mutation, correspondence, quality,
                   attestation, signer>>

Check(pc, valid, next) ==
    /\ gate.pc = pc
    /\ gate' = [gate EXCEPT !.pc = next, !.sound = @ /\ valid]
    /\ UNCHANGED <<world, trace, report, runs, evidence, quality, attestation, signer>>

CheckPerformance ==
    Check("checkPerformance", ValidPerformance,
          IF Mutating THEN "mutation" ELSE "checkMutation")

RecordMutation ==
    /\ gate.pc = "mutation"
    /\ mutation' = [execution |-> gate.executed[MutationCommand]]
    /\ Goto("checkMutation")
    /\ UNCHANGED <<world, trace, report, runs, formal, performance, correspondence, quality,
                   attestation, signer>>

CheckMutation == Check("checkMutation", ValidMutation, "correspondence")

RecordCorrespondence ==
    /\ gate.pc = "correspondence"
    /\ correspondence' =
          [formal |-> formal, trace |-> trace,
           model |-> tree["requirements"], test |-> tree["tests"],
           execution |-> gate.executed[TestCommand]]
    /\ Goto("checkCorrespondence")
    /\ UNCHANGED <<world, trace, report, runs, formal, performance, mutation, quality,
                   attestation, signer>>

CheckCorrespondence == Check("checkCorrespondence", ValidCorrespondence, "attestation")

VerifyAttestation ==
    /\ gate.pc = "attestation"
    /\ gate' = [gate EXCEPT !.pc = "revalidate", !.verified = Matches,
                            !.signed = IF Matches THEN attestation.tested ELSE None]
    /\ UNCHANGED <<world, trace, report, runs, evidence, quality, attestation, signer>>

\* An attestation is not accepted for evidence that is no longer valid.
Revalidate ==
    /\ gate.pc = "revalidate"
    /\ gate' = [gate EXCEPT !.pc = "report",
                   !.verified = @ /\ ValidPerformance /\ ValidMutation
                                  /\ ValidCorrespondence]
    /\ UNCHANGED <<world, trace, report, runs, evidence, quality, attestation, signer>>

\* The second snapshot decides input-stability.  The gate of one feature
\* returns its report without writing it.
WriteReport ==
    /\ gate.pc = "report"
    /\ quality' = IF gate.mode = "feature" THEN quality
                  ELSE [mode     |-> gate.mode,
                        sound    |-> gate.sound /\ gate.before = tree,
                        verified |-> gate.verified,
                        inputs   |-> tree,
                        signed   |-> gate.signed]
    /\ gate' = Idle
    /\ UNCHANGED <<world, trace, report, runs, evidence, attestation, signer>>

-----------------------------------------------------------------------------
(* attestation payload: the heads are read one after the other, without    *)
(* the lock; evidence cannot be read while a gate holds it.  The payload   *)
(* is signed and stored outside of the program.                            *)

HeadOrder == [idle |-> "formal", formal |-> "performance",
              performance |-> "mutation", mutation |-> "correspondence",
              correspondence |-> "quality", quality |-> "workspace"]

Evidenced == IF correspondence = None THEN None ELSE correspondence.execution

StartSigning ==
    /\ signer.pc = "idle"
    /\ ~Locked
    /\ signer' = [AtRest EXCEPT !.pc = HeadOrder["idle"], !.context = context]
    /\ UNCHANGED <<world, trace, report, runs, evidence, quality, attestation, gate>>

CollectHead ==
    /\ signer.pc \notin {"idle", "workspace"}
    /\ signer' = IF Locked THEN AtRest
                 ELSE [signer EXCEPT
                          !.pc = HeadOrder[@],
                          !.heads[signer.pc] = Head(signer.pc),
                          !.tested = IF signer.pc = "correspondence" THEN Evidenced
                                                                     ELSE @]
    /\ UNCHANGED <<world, trace, report, runs, evidence, quality, attestation, gate>>

Sign ==
    /\ signer.pc = "workspace"
    /\ attestation' = [heads   |-> [signer.heads EXCEPT !["workspace"] = <<tree>>],
                       context |-> signer.context, tested |-> signer.tested]
    /\ signer' = AtRest
    /\ UNCHANGED <<world, trace, report, runs, evidence, quality, gate>>

-----------------------------------------------------------------------------
(* The environment.                                                        *)

Edit(f) ==
    /\ Disturb
    /\ tree' = [tree EXCEPT ![f] = @ + 1]
    /\ UNCHANGED <<context, trace, report, runs, evidence, quality, attestation, gate, signer>>

Outside(c, files) == [command |-> c, ran |-> files, begun |-> disturbances]

\* A command is run by hand.
RunByHand(c) ==
    /\ Disturb
    /\ runs' = runs \cup {Outside(c, Tested)}
    /\ UNCHANGED <<tree, context, trace, report, evidence, quality, attestation, gate, signer>>

\* A run without a gate replaces the report file, be it long after an edit.
EndRun(run) ==
    /\ report' = [report EXCEPT ![run.command] = ReportOf(run.ran)]
    /\ runs' = runs \ {run}
    /\ UNCHANGED <<world, trace, evidence, quality, attestation, gate, signer>>

\* trace build as a command of its own.
RebuildTrace ==
    /\ ~Locked
    /\ ~TraceFresh
    /\ trace' = Restrict(tree, TraceFile)
    /\ UNCHANGED <<world, report, runs, evidence, quality, attestation, gate, signer>>

\* The gate is killed and its lock recovered.  The command it has spawned may
\* go on.
Interrupt ==
    /\ Locked
    /\ Disturb
    /\ gate' = Idle
    /\ \/ UNCHANGED runs
       \/ /\ gate.pc = "running"
          /\ runs' = runs \cup {Outside(gate.command, gate.ran)}
    /\ UNCHANGED <<tree, context, trace, report, evidence, quality, attestation, signer>>

\* Another commit or CI run; what was issued for the last one no longer counts.
NextContext ==
    /\ Disturb
    /\ context' = context + 1
    /\ UNCHANGED <<tree, trace, report, runs, evidence, quality, attestation, gate, signer>>

-----------------------------------------------------------------------------
(* The specification.                                                      *)

GateStep ==
    \/ Snapshot \/ BuildTrace \/ CheckModel \/ RecordFormal
    \/ \E c \in Command : Clear(c) \/ StartCommand(c) \/ EndCommand(c) \/ ReadReport(c)
    \/ RecordPerformance \/ CheckPerformance
    \/ RecordMutation \/ CheckMutation
    \/ RecordCorrespondence \/ CheckCorrespondence
    \/ VerifyAttestation \/ Revalidate \/ WriteReport

SignerStep == CollectHead \/ Sign

Environment ==
    \/ \E f \in File : Edit(f)
    \/ \E c \in Command : RunByHand(c)
    \/ \E run \in runs : EndRun(run)
    \/ RebuildTrace \/ Interrupt \/ NextContext

Next ==
    \/ \E mode \in Mode : StartGate(mode)
    \/ GateStep
    \/ StartSigning \/ SignerStep
    \/ Environment

Spec == Init /\ [][Next]_vars

\* What a pipeline does next: it signs what all other checks accept, and runs
\* the gate again while it is not satisfied.
Ready == /\ quality # None
         /\ quality.sound /\ quality.verified
         /\ quality.inputs = tree
Unsigned == /\ quality # None
            /\ quality.sound /\ quality.inputs = tree /\ ~Matches

\* A running gate and a running collection go on; the pipeline takes its turn
\* although others start gates and collections, too.
Fairness ==
    /\ WF_vars(GateStep)
    /\ WF_vars(SignerStep)
    /\ SF_vars(Unsigned /\ ~Ready /\ StartSigning)
    /\ SF_vars(~Unsigned /\ ~Ready /\ StartGate("full"))

FairSpec == Spec /\ Fairness

-----------------------------------------------------------------------------
(* Properties.                                                             *)

\* An execution says what it should of the files, or a run of the same command
\* on older files was under way when the gate removed the old report, and its
\* report may be the one that was read.
Proves(execution, files) == execution.ran = files \/ execution.overlapped

\* Correspondence evidence that validates is about the files as they are: the
\* tests whose passing it claims ran on just this source and these tests.
\* Neither the report of a run that has ended, nor an edit between building the
\* trace and the end of the tests, nor one before the entry is written, gets
\* through; only a run that outlasts the removal of the old report can.
CorrespondenceTruthful ==
    ValidCorrespondence => Proves(correspondence.execution, Tested)

\* A gate that reports success under an attestation confirms an earlier one:
\* the tests behind the signed evidence, too, ran on the inputs that the
\* report names, with the same exception.
TestedTwice ==
    quality # None /\ quality.sound /\ quality.verified =>
        /\ quality.signed # None
        /\ Proves(quality.signed, Restrict(quality.inputs, {"tests", "source"}))

\* Once nothing disturbs any more, the pipeline becomes and stays ready,
\* however often the gate is repeated: the report that a verified gate writes
\* does not invalidate the attestation it has verified.
Settles == <>[](Ready \/ ~Passes(tree))
=============================================================================
