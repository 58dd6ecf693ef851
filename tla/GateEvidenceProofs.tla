------------------------- MODULE GateEvidenceProofs -------------------------
(***************************************************************************)
(* Theorems about GateEvidence for any bound on disturbances and with or   *)
(* without a mutation command: what valid correspondence evidence says of  *)
(* the files, and what a verified report says of the evidence it confirms, *)
(* whatever runs by hand or is left behind by a killed gate; unless a run  *)
(* of the tests on older files was under way when the gate removed their   *)
(* old report.                                                             *)
(***************************************************************************)
EXTENDS GateEvidence, TLAPS

-----------------------------------------------------------------------------
(* The inductive invariant.  Its parts speak of a version of the tree as a *)
(* parameter, so that an edit is the only step that has to look inside.    *)

\* A trace, if there is one, was made from the tree as it is or was.
Older(t, now) ==
    t # None => t \in [TraceFile -> Nat] /\ \A f \in TraceFile : t[f] <= now[f]

\* It describes the tree.
Describes(t, now) == t # None /\ t = Restrict(now, TraceFile)

\* What the tests run on.
Inputs(now) == Restrict(now, {"tests", "source"})

Commands == {TestCommand, MutationCommand}

\* Shapes of the records that are updated field by field.
Shape ==
    /\ tree \in [File -> Nat]
    /\ report = [c \in Commands |-> report[c]]
    /\ gate = [pc |-> gate.pc, mode |-> gate.mode, command |-> gate.command,
               config |-> gate.config, before |-> gate.before, model |-> gate.model,
               ran |-> gate.ran, exit |-> gate.exit, overlapped |-> gate.overlapped,
               executed |-> gate.executed, sound |-> gate.sound,
               verified |-> gate.verified, signed |-> gate.signed]
    /\ gate.executed = [c \in Commands |-> gate.executed[c]]
    /\ signer = [pc |-> signer.pc, context |-> signer.context,
                 heads |-> signer.heads, tested |-> signer.tested]
    /\ signer.heads = [name \in HeadName |-> signer.heads[name]]

\* While the stored trace describes the tree, and no run on older files was
\* under way when the old report was removed, the report of the tests is about
\* the tree, and so is every run that may yet write it.
AtTests ==
    gate.pc \in {"run", "running", "read"} /\ gate.command = TestCommand
        /\ ~gate.overlapped /\ Describes(trace, tree)
ReportInv ==
    AtTests =>
        /\ report[TestCommand] # None => report[TestCommand].ran = Inputs(tree)
        /\ \A run \in runs : run.command = TestCommand => run.ran = Inputs(tree)
        /\ gate.pc = "running" => gate.ran = Inputs(tree)

\* So is the execution record, which only a gate behind its tests has.
AfterTests ==
    {"clear", "run", "running", "read", "performance", "checkPerformance", "mutation",
     "checkMutation", "correspondence", "checkCorrespondence", "attestation",
     "revalidate", "report"}
ExecutionInv ==
    gate.executed[TestCommand] # None =>
        /\ gate.pc \in AfterTests
        /\ Describes(trace, tree) => Proves(gate.executed[TestCommand], Inputs(tree))

\* So is correspondence evidence, while the trace it names describes the tree.
CorrespondenceInv ==
    correspondence # None =>
        /\ Older(correspondence.trace, tree)
        /\ correspondence.execution # None /\ Describes(correspondence.trace, tree)
              => Proves(correspondence.execution, Inputs(tree))

\* What the attested tests ran on.
Signed(execution, now) == execution # None /\ Proves(execution, Inputs(now))

\* A head of it has kept the trace and the command; `tested' remembers the rest.
HeadTrue(heads, tested, now) ==
    heads["correspondence"] # <<>> =>
        LET head == heads["correspondence"][1] IN
        /\ Older(head.trace, now)
        /\ head.command # None /\ Describes(head.trace, now) => Signed(tested, now)
SignerInv == HeadTrue(signer.heads, signer.tested, tree)
AttestationInv ==
    attestation # None => HeadTrue(attestation.heads, attestation.tested, tree)

\* A gate that has accepted an attestation: the attested evidence is about the
\* tree if the present one is ...
AcceptedInv ==
    gate.pc = "revalidate" /\ gate.verified
        /\ correspondence # None /\ correspondence.execution # None
        /\ correspondence.execution.command # None
        /\ Describes(correspondence.trace, tree)
            => Signed(gate.signed, tree)

\* ... and once the present one has been validated, if the tree is still the
\* one of the first snapshot.
SnapshotInv ==
    gate.pc \notin {"idle", "snapshot"} =>
        gate.before \in [File -> Nat] /\ \A f \in File : gate.before[f] <= tree[f]
ConfirmedInv ==
    gate.pc = "report" /\ gate.verified /\ gate.before = tree
        => Signed(gate.signed, tree)

IInv ==
    /\ Shape /\ Older(trace, tree)
    /\ ReportInv /\ ExecutionInv /\ CorrespondenceInv
    /\ SignerInv /\ AttestationInv
    /\ AcceptedInv /\ SnapshotInv /\ ConfirmedInv
    /\ TestedTwice

-----------------------------------------------------------------------------
(* Trees                                                                   *)

\* What a trace built now says.
LEMMA TraceOfTree ==
    ASSUME NEW now \in [File -> Nat]
    PROVE  Older(Restrict(now, TraceFile), now)
BY DEF Older, Restrict, File, TraceFile

\* An edit makes every trace of the edited file outdated, and changes nothing
\* else that a trace or the tests depend on.
LEMMA EditFacts ==
    ASSUME NEW now \in [File -> Nat], NEW f \in File, NEW t, Older(t, now),
           NEW later \in [File -> Nat], later[f] = now[f] + 1,
           \A g \in File \ {f} : later[g] = now[g]
    PROVE  /\ Older(t, later)
           /\ Describes(t, later) => Describes(t, now) /\ Inputs(later) = Inputs(now)
<1>1. \A g \in File : now[g] \in Nat /\ now[g] <= later[g]
  OBVIOUS
<1>2. Older(t, later)
  BY <1>1 DEF Older, File
<1>3. CASE f \in TraceFile
  <2>1. ~Describes(t, later)
    <3> SUFFICES ASSUME Describes(t, later) PROVE FALSE
      OBVIOUS
    <3>1. t[f] = later[f] /\ t[f] <= now[f]
      BY <1>3 DEF Describes, Restrict, Older
    <3> QED BY <1>1, <3>1
  <2> QED BY <1>1, <1>2, <2>1
<1>4. CASE f \notin TraceFile
  <2>1. \A g \in TraceFile : later[g] = now[g]
    BY <1>1, <1>4 DEF File
  <2>2. /\ Restrict(later, TraceFile) = Restrict(now, TraceFile)
        /\ Inputs(later) = Inputs(now)
    BY <2>1 DEF Restrict, Inputs, TraceFile
  <2> QED BY <1>1, <1>2, <2>2 DEF Describes
<1> QED BY <1>3, <1>4

-----------------------------------------------------------------------------
(* The initial state and the steps                                         *)

LEMMA InitInv == Init => IInv
<1> SUFFICES ASSUME Init PROVE IInv
  OBVIOUS
<1>1. Shape
  BY DEF Init, Shape, Idle, AtRest, Commands, TestCommand, MutationCommand
<1>2. ReportInv /\ ExecutionInv /\ AcceptedInv /\ SnapshotInv /\ ConfirmedInv
  BY DEF Init, ReportInv, ExecutionInv, AcceptedInv, SnapshotInv, ConfirmedInv, Idle,
         TestCommand, MutationCommand
<1>3. Older(trace, tree) /\ CorrespondenceInv /\ AttestationInv /\ TestedTwice
  BY DEF Init, Older, CorrespondenceInv, AttestationInv, TestedTwice
<1>4. SignerInv
  BY DEF Init, SignerInv, HeadTrue, AtRest, HeadName
<1> QED BY <1>1, <1>2, <1>3, <1>4 DEF IInv

\* An edit outdates every trace of the edited file.
LEMMA EditInv == ASSUME IInv, NEW f \in File, Edit(f) PROVE IInv'
<1>1. /\ tree \in [File -> Nat] /\ tree' \in [File -> Nat]
      /\ tree'[f] = tree[f] + 1 /\ \A g \in File \ {f} : tree'[g] = tree[g]
      /\ UNCHANGED <<trace, report, runs, evidence, quality, attestation, gate, signer>>
  BY DEF Edit, IInv, Shape
<1>2. ASSUME NEW t, Older(t, tree)
      PROVE  /\ Older(t, tree')
             /\ Describes(t, tree') => Describes(t, tree) /\ Inputs(tree') = Inputs(tree)
  BY <1>1, <1>2, EditFacts
<1>3. Shape' /\ Older(trace, tree)'
  BY <1>1, <1>2, EditFacts DEF IInv, Shape
<1>4. ReportInv' /\ ExecutionInv'
  BY <1>1, <1>2 DEF IInv, ReportInv, AtTests, ExecutionInv
<1>5. CorrespondenceInv' /\ AcceptedInv'
  BY <1>1, <1>2 DEF IInv, CorrespondenceInv, AcceptedInv, Signed, evidence
<1>6. SignerInv' /\ AttestationInv'
  BY <1>1, <1>2 DEF IInv, SignerInv, AttestationInv, HeadTrue, Signed
<1>7. SnapshotInv' /\ ConfirmedInv'
  <2>1. ASSUME gate.pc \notin {"idle", "snapshot"} PROVE gate.before # tree'
    <3>1. gate.before[f] <= tree[f] /\ gate.before[f] \in Nat
      BY <2>1 DEF IInv, SnapshotInv
    <3>2. tree[f] \in Nat /\ tree'[f] = tree[f] + 1
      BY <1>1
    <3> QED BY <3>1, <3>2
  <2>2. ConfirmedInv'
    BY <1>1, <2>1 DEF ConfirmedInv
  <2>3. SnapshotInv'
    <3> SUFFICES ASSUME gate.pc \notin {"idle", "snapshot"}, NEW g \in File
                 PROVE  gate.before[g] <= tree'[g] /\ gate.before \in [File -> Nat]
      BY <1>1 DEF SnapshotInv
    <3>1. gate.before \in [File -> Nat] /\ gate.before[g] <= tree[g]
      BY DEF IInv, SnapshotInv
    <3>2. tree[g] \in Nat /\ tree[g] <= tree'[g] /\ gate.before[g] \in Nat
      BY <1>1, <3>1
    <3> QED BY <1>1, <3>1, <3>2
  <2> QED BY <2>2, <2>3
<1>8. TestedTwice'
  BY <1>1 DEF IInv, TestedTwice
<1> QED BY <1>3, <1>4, <1>5, <1>6, <1>7, <1>8 DEF IInv

\* The steps beside the gate that do not touch the tree.
LEMMA RunByHandInv == ASSUME IInv, NEW c \in Command, RunByHand(c) PROVE IInv'
<1>1. /\ UNCHANGED <<tree, trace, report, evidence, quality, attestation, gate, signer>>
      /\ \A run \in runs' : run \in runs \/ run.ran = Inputs(tree)
  BY DEF RunByHand, Outside, Tested, Inputs
<1>2. Shape' /\ ReportInv'
  BY <1>1 DEF IInv, Shape, ReportInv, AtTests
<1>3. (Older(trace, tree) /\ ExecutionInv /\ CorrespondenceInv /\ SignerInv /\ AttestationInv
       /\ AcceptedInv /\ SnapshotInv /\ ConfirmedInv /\ TestedTwice)'
  BY <1>1 DEF IInv, ExecutionInv, CorrespondenceInv, SignerInv, AttestationInv,
              AcceptedInv, SnapshotInv, ConfirmedInv, TestedTwice, evidence
<1> QED BY <1>2, <1>3 DEF IInv

LEMMA EndRunInv == ASSUME IInv, NEW run \in runs, EndRun(run) PROVE IInv'
<1>1. /\ UNCHANGED <<tree, trace, evidence, quality, attestation, gate, signer>>
      /\ report' = [report EXCEPT ![run.command] = [passed |-> Passes(run.ran), ran |-> run.ran]]
      /\ \A other \in runs' : other \in runs
  BY DEF EndRun, ReportOf, world
<1>2. report' = [c \in Commands |-> report'[c]]
      /\ report'[TestCommand] \in {report[TestCommand], [passed |-> Passes(run.ran), ran |-> run.ran]}
      /\ run.command # TestCommand => report'[TestCommand] = report[TestCommand]
  BY <1>1 DEF IInv, Shape, Commands, TestCommand
<1>3. Shape'
  BY <1>1, <1>2 DEF IInv, Shape
<1>4. ReportInv'
  <2> SUFFICES ASSUME AtTests
               PROVE  /\ report'[TestCommand] # None => report'[TestCommand].ran = Inputs(tree)
                      /\ \A other \in runs' : other.command = TestCommand => other.ran = Inputs(tree)
                      /\ gate.pc = "running" => gate.ran = Inputs(tree)
    BY <1>1 DEF ReportInv, AtTests
  <2> QED BY <1>1, <1>2 DEF IInv, ReportInv
<1>5. (Older(trace, tree) /\ ExecutionInv /\ CorrespondenceInv /\ SignerInv /\ AttestationInv
       /\ AcceptedInv /\ SnapshotInv /\ ConfirmedInv /\ TestedTwice)'
  BY <1>1 DEF IInv, ExecutionInv, CorrespondenceInv, SignerInv, AttestationInv,
              AcceptedInv, SnapshotInv, ConfirmedInv, TestedTwice, evidence
<1> QED BY <1>3, <1>4, <1>5 DEF IInv

LEMMA RebuildTraceInv == ASSUME IInv, RebuildTrace PROVE IInv'
<1>1. /\ UNCHANGED <<tree, report, evidence, quality, attestation, gate, signer>>
      /\ gate.pc = "idle" /\ trace' = Restrict(tree, TraceFile)
  BY DEF RebuildTrace, Locked, world
<1>2. Older(trace, tree)'
  BY <1>1, TraceOfTree DEF IInv, Shape
<1>3. ReportInv' /\ ExecutionInv'
  BY <1>1 DEF IInv, ReportInv, AtTests, ExecutionInv, AfterTests
<1>4. (Shape /\ CorrespondenceInv /\ SignerInv /\ AttestationInv
       /\ AcceptedInv /\ SnapshotInv /\ ConfirmedInv /\ TestedTwice)'
  BY <1>1 DEF IInv, Shape, CorrespondenceInv, SignerInv, AttestationInv,
              AcceptedInv, SnapshotInv, ConfirmedInv, TestedTwice, evidence
<1> QED BY <1>2, <1>3, <1>4 DEF IInv

LEMMA NextContextInv == ASSUME IInv, NextContext PROVE IInv'
<1>1. UNCHANGED <<tree, trace, report, runs, evidence, quality, attestation, gate, signer>>
  BY DEF NextContext
<1> QED
  BY <1>1 DEF IInv, Shape, ReportInv, AtTests, ExecutionInv, CorrespondenceInv, SignerInv,
              AttestationInv, AcceptedInv, SnapshotInv, ConfirmedInv, TestedTwice, evidence

\* A gate that has just been started, or has ended, has nothing yet to keep.
LEMMA FreshGateInv ==
    ASSUME IInv, UNCHANGED <<tree, trace, report, evidence, attestation, signer>>,
           TestedTwice', NEW mode, NEW config,
           \/ gate' = Idle
           \/ gate' = [Idle EXCEPT !.pc = "snapshot", !.mode = mode, !.config = config]
    PROVE  IInv'
<1>1. /\ gate'.pc \in {"idle", "snapshot"} /\ gate'.executed[TestCommand] = None
      /\ Shape'
  <2>1. CASE gate' = Idle
    BY <2>1 DEF IInv, Shape, Idle, Commands, TestCommand, MutationCommand
  <2>2. CASE gate' = [Idle EXCEPT !.pc = "snapshot", !.mode = mode, !.config = config]
    BY <2>2 DEF IInv, Shape, Idle, Commands, TestCommand, MutationCommand
  <2> QED BY <2>1, <2>2
<1>2. (ReportInv /\ ExecutionInv /\ AcceptedInv /\ SnapshotInv /\ ConfirmedInv)'
  BY <1>1 DEF ReportInv, AtTests, ExecutionInv, AcceptedInv, SnapshotInv, ConfirmedInv
<1>3. (Older(trace, tree) /\ CorrespondenceInv /\ SignerInv /\ AttestationInv)'
  BY DEF IInv, CorrespondenceInv, SignerInv, AttestationInv, evidence
<1> QED BY <1>1, <1>2, <1>3 DEF IInv

LEMMA StartGateInv == ASSUME IInv, NEW mode \in Mode, StartGate(mode) PROVE IInv'
<1>1. /\ UNCHANGED <<tree, trace, report, evidence, quality, attestation, signer>>
      /\ gate' = [Idle EXCEPT !.pc = "snapshot", !.mode = mode, !.config = tree["config"]]
  BY DEF StartGate
<1>2. TestedTwice'
  BY <1>1 DEF IInv, TestedTwice
<1> QED BY <1>1, <1>2, FreshGateInv

LEMMA InterruptInv == ASSUME IInv, Interrupt PROVE IInv'
<1>1. /\ UNCHANGED <<tree, trace, report, evidence, quality, attestation, signer>>
      /\ gate' = Idle
  BY DEF Interrupt
<1>2. TestedTwice'
  BY <1>1 DEF IInv, TestedTwice
<1> QED BY <1>1, <1>2, FreshGateInv

LEMMA WriteReportInv == ASSUME IInv, WriteReport PROVE IInv'
<1>1. /\ UNCHANGED <<tree, trace, report, evidence, attestation, signer>>
      /\ gate' = Idle /\ gate.pc = "report"
      /\ quality' = IF gate.mode = "feature" THEN quality
                    ELSE [mode     |-> gate.mode,
                          sound    |-> gate.sound /\ gate.before = tree,
                          verified |-> gate.verified,
                          inputs   |-> tree,
                          signed   |-> gate.signed]
  BY DEF WriteReport, world
<1>2. TestedTwice'
  <2>1. CASE gate.mode = "feature"
    BY <1>1, <2>1 DEF IInv, TestedTwice
  <2>2. CASE gate.mode # "feature"
    <3> SUFFICES ASSUME gate.before = tree, gate.verified
                 PROVE  Signed(gate.signed, tree)
      BY <1>1, <2>2 DEF TestedTwice, Signed, Inputs
    <3> QED BY <1>1 DEF IInv, ConfirmedInv
  <2> QED BY <2>1, <2>2
<1> QED BY <1>1, <1>2, FreshGateInv

\* Most steps of a gate go on to the next one with what the gate knows.
LEMMA GoOnInv ==
    ASSUME IInv, UNCHANGED <<tree, trace, correspondence, attestation, signer, quality>>,
           Shape', gate.pc \notin {"idle", "snapshot"}, gate'.before = gate.before,
           gate'.pc \notin {"idle", "snapshot", "run", "running", "read", "revalidate",
                            "report"},
           gate.pc \in AfterTests => gate'.pc \in AfterTests,
           gate'.executed[TestCommand] = gate.executed[TestCommand]
    PROVE  IInv'
<1>1. (ReportInv /\ ExecutionInv /\ AcceptedInv /\ SnapshotInv /\ ConfirmedInv)'
  BY DEF IInv, ReportInv, AtTests, ExecutionInv, AcceptedInv, SnapshotInv, ConfirmedInv
<1>2. (Older(trace, tree) /\ CorrespondenceInv /\ SignerInv /\ AttestationInv
       /\ TestedTwice)'
  BY DEF IInv, CorrespondenceInv, SignerInv, AttestationInv, TestedTwice
<1> QED BY <1>1, <1>2 DEF IInv

LEMMA SnapshotStepInv == ASSUME IInv, Snapshot PROVE IInv'
<1>1. /\ UNCHANGED <<tree, trace, report, evidence, quality, attestation, signer>>
      /\ gate.pc = "snapshot" /\ gate' = [gate EXCEPT !.pc = "trace", !.before = tree]
  BY DEF Snapshot, world
<1>2. /\ gate'.pc = "trace" /\ gate'.before = tree /\ gate'.executed = gate.executed
      /\ Shape'
  BY <1>1 DEF IInv, Shape
<1>3. SnapshotInv'
  BY <1>1, <1>2 DEF IInv, Shape, SnapshotInv
<1>4. (ReportInv /\ ExecutionInv /\ AcceptedInv /\ ConfirmedInv)'
  BY <1>1, <1>2 DEF IInv, ReportInv, AtTests, ExecutionInv, AcceptedInv, ConfirmedInv,
                    AfterTests
<1>5. (Older(trace, tree) /\ CorrespondenceInv /\ SignerInv /\ AttestationInv
       /\ TestedTwice)'
  BY <1>1 DEF IInv, CorrespondenceInv, SignerInv, AttestationInv, TestedTwice, evidence
<1> QED BY <1>2, <1>3, <1>4, <1>5 DEF IInv

LEMMA BuildTraceInv == ASSUME IInv, BuildTrace PROVE IInv'
<1>1. /\ UNCHANGED <<tree, report, evidence, quality, attestation, signer>>
      /\ gate.pc = "trace" /\ gate' = [gate EXCEPT !.pc = "model"]
      /\ trace' = Restrict(tree, TraceFile)
  BY DEF BuildTrace, Goto, world
<1>2. /\ gate'.pc = "model" /\ gate'.before = gate.before /\ gate'.executed = gate.executed
      /\ Shape'
  BY <1>1 DEF IInv, Shape
<1>3. Older(trace, tree)'
  BY <1>1, TraceOfTree DEF IInv, Shape
<1>4. (ReportInv /\ ExecutionInv /\ AcceptedInv /\ SnapshotInv /\ ConfirmedInv)'
  BY <1>1, <1>2 DEF IInv, ReportInv, AtTests, ExecutionInv, AcceptedInv, SnapshotInv,
                    ConfirmedInv, AfterTests
<1>5. (CorrespondenceInv /\ SignerInv /\ AttestationInv /\ TestedTwice)'
  BY <1>1 DEF IInv, CorrespondenceInv, SignerInv, AttestationInv, TestedTwice, evidence
<1> QED BY <1>2, <1>3, <1>4, <1>5 DEF IInv

\* The steps that only compute, write or check something the invariant does
\* not mention.
LEMMA QuietInv ==
    ASSUME IInv,
           \/ CheckModel \/ RecordFormal \/ RecordPerformance \/ CheckPerformance
           \/ RecordMutation \/ CheckMutation \/ CheckCorrespondence
    PROVE  IInv'
<1>1. /\ UNCHANGED <<tree, trace, report, correspondence, quality, attestation, signer>>
      /\ gate.pc \in {"model", "formal", "performance", "checkPerformance", "mutation",
                      "checkMutation", "checkCorrespondence"}
  BY DEF CheckModel, RecordFormal, RecordPerformance, CheckPerformance, RecordMutation,
         CheckMutation, CheckCorrespondence, Check, world, evidence
<1>2. /\ Shape'
      /\ gate'.before = gate.before /\ gate'.executed = gate.executed
      /\ gate'.pc \in (AfterTests \cup {"formal"}) \ {"run", "running", "read", "revalidate",
                                                     "report"}
      /\ gate.pc # "model" => gate'.pc \in AfterTests
  <2>1. CASE CheckModel
    BY <1>1, <2>1 DEF CheckModel, IInv, Shape, AfterTests
  <2>2. CASE RecordFormal
    BY <1>1, <2>2 DEF RecordFormal, Goto, IInv, Shape, AfterTests
  <2>3. CASE RecordPerformance
    BY <1>1, <2>3 DEF RecordPerformance, Goto, IInv, Shape, AfterTests
  <2>4. CASE CheckPerformance
    BY <1>1, <2>4 DEF CheckPerformance, Check, IInv, Shape, AfterTests
  <2>5. CASE RecordMutation
    BY <1>1, <2>5 DEF RecordMutation, Goto, IInv, Shape, AfterTests
  <2>6. CASE CheckMutation
    BY <1>1, <2>6 DEF CheckMutation, Check, IInv, Shape, AfterTests
  <2>7. CASE CheckCorrespondence
    BY <1>1, <2>7 DEF CheckCorrespondence, Check, IInv, Shape, AfterTests
  <2> QED BY <2>1, <2>2, <2>3, <2>4, <2>5, <2>6, <2>7
<1> QED BY <1>1, <1>2, GoOnInv DEF AfterTests

\* A report left by an earlier run is gone before the tests run, and so are the
\* runs on older files, unless the gate is marked.
LEMMA ClearInv == ASSUME IInv, NEW c \in Command, Clear(c) PROVE IInv'
<1>1. /\ UNCHANGED <<tree, trace, runs, evidence, quality, attestation, signer>>
      /\ gate.pc = "clear" /\ gate.command = c
      /\ gate' = [gate EXCEPT !.pc = "run", !.overlapped = Overlapped(c)]
      /\ report' = [report EXCEPT ![c] = None]
  BY DEF Clear, Launch, world
<1>2. /\ gate'.pc = "run" /\ gate'.before = gate.before /\ gate'.executed = gate.executed
      /\ gate'.command = c /\ gate'.overlapped = Overlapped(c) /\ Shape'
  BY <1>1 DEF IInv, Shape
<1>3. ReportInv'
  <2> SUFFICES ASSUME c = TestCommand, ~Overlapped(c)
               PROVE  /\ report'[TestCommand] = None
                      /\ \A run \in runs : run.command = TestCommand => run.ran = Inputs(tree)
    BY <1>1, <1>2 DEF ReportInv, AtTests
  <2>1. report'[TestCommand] = None
    BY <1>1 DEF IInv, Shape, Commands, TestCommand
  <2> QED BY <2>1 DEF Overlapped, Tested, Inputs
<1>4. (ExecutionInv /\ AcceptedInv /\ SnapshotInv /\ ConfirmedInv)'
  BY <1>1, <1>2 DEF IInv, ExecutionInv, AcceptedInv, SnapshotInv, ConfirmedInv, AfterTests
<1>5. (Older(trace, tree) /\ CorrespondenceInv /\ SignerInv /\ AttestationInv
       /\ TestedTwice)'
  BY <1>1 DEF IInv, CorrespondenceInv, SignerInv, AttestationInv, TestedTwice, evidence
<1> QED BY <1>2, <1>3, <1>4, <1>5 DEF IInv

\* The command runs on the tree as it is.
LEMMA StartCommandInv == ASSUME IInv, NEW c \in Command, StartCommand(c) PROVE IInv'
<1>1. /\ UNCHANGED <<tree, trace, report, runs, evidence, quality, attestation, signer>>
      /\ gate.pc = "run" /\ gate' = [gate EXCEPT !.pc = "running", !.ran = Inputs(tree)]
  BY DEF StartCommand, world, Tested, Inputs
<1>2. /\ gate'.pc = "running" /\ gate'.before = gate.before /\ gate'.executed = gate.executed
      /\ gate'.command = gate.command /\ gate'.overlapped = gate.overlapped
      /\ gate'.ran = Inputs(tree) /\ Shape'
  BY <1>1 DEF IInv, Shape
<1>3. ReportInv'
  BY <1>1, <1>2 DEF IInv, ReportInv, AtTests
<1>4. (ExecutionInv /\ AcceptedInv /\ SnapshotInv /\ ConfirmedInv)'
  BY <1>1, <1>2 DEF IInv, ExecutionInv, AcceptedInv, SnapshotInv, ConfirmedInv, AfterTests
<1>5. (Older(trace, tree) /\ CorrespondenceInv /\ SignerInv /\ AttestationInv
       /\ TestedTwice)'
  BY <1>1 DEF IInv, CorrespondenceInv, SignerInv, AttestationInv, TestedTwice, evidence
<1> QED BY <1>2, <1>3, <1>4, <1>5 DEF IInv

\* It reports what it ran on, or leaves the report as it is.
LEMMA EndCommandInv == ASSUME IInv, NEW c \in Command, EndCommand(c) PROVE IInv'
<1>1. /\ UNCHANGED <<tree, trace, runs, evidence, quality, attestation, signer>>
      /\ gate.pc = "running" /\ gate.command = c
      /\ \E ok : gate' = [gate EXCEPT !.pc = "read", !.exit = ok]
      /\ \/ report' = report
         \/ report' = [report EXCEPT ![c] = [passed |-> Passes(gate.ran), ran |-> gate.ran]]
  BY DEF EndCommand, ReportOf
<1>2. /\ gate'.pc = "read" /\ gate'.before = gate.before /\ gate'.executed = gate.executed
      /\ gate'.command = c /\ gate'.overlapped = gate.overlapped /\ Shape'
  BY <1>1 DEF IInv, Shape
<1>3. ReportInv'
  <2>1. /\ report'[TestCommand] = report[TestCommand]
           \/ report'[TestCommand] = [passed |-> Passes(gate.ran), ran |-> gate.ran]
    BY <1>1 DEF IInv, Shape, Commands, TestCommand
  <2> SUFFICES ASSUME AtTests
               PROVE  /\ report'[TestCommand] # None => report'[TestCommand].ran = Inputs(tree)
                      /\ \A run \in runs : run.command = TestCommand => run.ran = Inputs(tree)
    BY <1>1, <1>2 DEF ReportInv, AtTests
  <2> QED BY <1>1, <2>1 DEF IInv, ReportInv
<1>4. (ExecutionInv /\ AcceptedInv /\ SnapshotInv /\ ConfirmedInv)'
  BY <1>1, <1>2 DEF IInv, ExecutionInv, AcceptedInv, SnapshotInv, ConfirmedInv, AfterTests
<1>5. (Older(trace, tree) /\ CorrespondenceInv /\ SignerInv /\ AttestationInv
       /\ TestedTwice)'
  BY <1>1 DEF IInv, CorrespondenceInv, SignerInv, AttestationInv, TestedTwice, evidence
<1> QED BY <1>2, <1>3, <1>4, <1>5 DEF IInv

\* The execution record of the tests says what their report said.
LEMMA ReadReportInv == ASSUME IInv, NEW c \in Command, ReadReport(c) PROVE IInv'
<1> DEFINE next == IF c = TestCommand /\ Mutating THEN "clear" ELSE "performance"
           record == [command |-> gate.config, text |-> Text(c, report[c]),
                      ran |-> report[c].ran, overlapped |-> gate.overlapped]
<1>1. /\ UNCHANGED <<tree, trace, report, correspondence, quality, attestation, signer>>
      /\ gate.pc = "read" /\ gate.command = c
      /\ gate' = [gate EXCEPT !.pc = next, !.command = MutationCommand, !.exit = FALSE,
                              !.sound = @ /\ Usable(c),
                              !.executed[c] = IF Usable(c) THEN record ELSE None]
  BY DEF ReadReport, world, evidence
<1>2. /\ gate'.pc = next /\ gate'.before = gate.before
      /\ gate'.executed[c] = IF Usable(c) THEN record ELSE None
      /\ c # TestCommand => gate'.executed[TestCommand] = gate.executed[TestCommand]
      /\ Shape'
  BY <1>1 DEF IInv, Shape, Command, Commands, TestCommand, MutationCommand
<1>3. CASE c = TestCommand
  <2>1. ExecutionInv'
    <3> SUFFICES ASSUME Usable(c), Describes(trace, tree)
                 PROVE  report[c].ran = Inputs(tree) \/ gate.overlapped
      BY <1>1, <1>2, <1>3 DEF ExecutionInv, AfterTests, Proves
    <3> QED BY <1>1, <1>3 DEF Usable, IInv, ReportInv, AtTests
  <2>2. (ReportInv /\ AcceptedInv /\ SnapshotInv /\ ConfirmedInv)'
    BY <1>1, <1>2 DEF IInv, ReportInv, AtTests, AcceptedInv, SnapshotInv, ConfirmedInv
  <2>3. (Older(trace, tree) /\ CorrespondenceInv /\ SignerInv /\ AttestationInv
         /\ TestedTwice)'
    BY <1>1 DEF IInv, CorrespondenceInv, SignerInv, AttestationInv, TestedTwice
  <2> QED BY <1>2, <2>1, <2>2, <2>3 DEF IInv
<1>4. CASE c # TestCommand
  BY <1>1, <1>2, <1>4, GoOnInv DEF AfterTests
<1> QED BY <1>3, <1>4

\* The entry is bound to the trace and the execution of the same gate.
LEMMA RecordCorrespondenceInv == ASSUME IInv, RecordCorrespondence PROVE IInv'
<1>1. /\ UNCHANGED <<tree, trace, report, quality, attestation, signer>>
      /\ gate.pc = "correspondence"
      /\ gate' = [gate EXCEPT !.pc = "checkCorrespondence"]
      /\ correspondence'.trace = trace
      /\ correspondence'.execution = gate.executed[TestCommand]
  BY DEF RecordCorrespondence, Goto, world
<1>2. /\ gate'.pc = "checkCorrespondence" /\ gate'.before = gate.before
      /\ gate'.executed = gate.executed /\ Shape'
  BY <1>1 DEF IInv, Shape
<1>3. CorrespondenceInv'
  BY <1>1 DEF IInv, ExecutionInv, CorrespondenceInv
<1>4. (ReportInv /\ ExecutionInv /\ AcceptedInv /\ SnapshotInv /\ ConfirmedInv)'
  BY <1>1, <1>2 DEF IInv, ReportInv, AtTests, ExecutionInv, AcceptedInv, SnapshotInv,
                    ConfirmedInv, AfterTests
<1>5. (Older(trace, tree) /\ SignerInv /\ AttestationInv /\ TestedTwice)'
  BY <1>1 DEF IInv, SignerInv, AttestationInv, TestedTwice
<1> QED BY <1>2, <1>3, <1>4, <1>5 DEF IInv

\* What the attested head says of the evidence is what the present one says.
LEMMA VerifyAttestationInv == ASSUME IInv, VerifyAttestation PROVE IInv'
<1>1. /\ UNCHANGED <<tree, trace, report, correspondence, quality, attestation, signer>>
      /\ gate.pc = "attestation"
      /\ gate' = [gate EXCEPT !.pc = "revalidate", !.verified = Matches,
                              !.signed = IF Matches THEN attestation.tested ELSE None]
  BY DEF VerifyAttestation, world, evidence
<1>2. /\ gate'.pc = "revalidate" /\ gate'.before = gate.before
      /\ gate'.executed = gate.executed /\ Shape'
      /\ gate'.verified = Matches /\ Matches => gate'.signed = attestation.tested
  BY <1>1 DEF IInv, Shape
<1>3. AcceptedInv'
  <2> SUFFICES ASSUME Matches, correspondence # None, correspondence.execution # None,
                      correspondence.execution.command # None,
                      Describes(correspondence.trace, tree)
               PROVE  Signed(attestation.tested, tree)
    BY <1>1, <1>2 DEF AcceptedInv
  <2>1. attestation # None /\ attestation.heads = Heads
    BY DEF Matches
  <2>2. attestation.heads["correspondence"] = <<CorrespondenceHead(correspondence)>>
    BY <2>1 DEF Heads, Head, HeadName
  <2>3. HeadTrue(attestation.heads, attestation.tested, tree)
    BY <2>1 DEF IInv, AttestationInv
  <2> DEFINE head == attestation.heads["correspondence"][1]
  <2>4. /\ attestation.heads["correspondence"] # <<>>
        /\ head = CorrespondenceHead(correspondence)
    BY <2>2
  <2>5. /\ head.trace = correspondence.trace
        /\ head.command = correspondence.execution.command
    BY <2>4 DEF CorrespondenceHead
  <2> QED BY <2>3, <2>4, <2>5 DEF HeadTrue
<1>4. (ReportInv /\ ExecutionInv /\ SnapshotInv /\ ConfirmedInv)'
  BY <1>1, <1>2 DEF IInv, ReportInv, AtTests, ExecutionInv, SnapshotInv, ConfirmedInv,
                    AfterTests
<1>5. (Older(trace, tree) /\ CorrespondenceInv /\ SignerInv /\ AttestationInv
       /\ TestedTwice)'
  BY <1>1 DEF IInv, CorrespondenceInv, SignerInv, AttestationInv, TestedTwice
<1> QED BY <1>2, <1>3, <1>4, <1>5 DEF IInv

\* Valid evidence is about the tree, and so is what the attestation confirmed.
LEMMA RevalidateInv == ASSUME IInv, Revalidate PROVE IInv'
<1>1. /\ UNCHANGED <<tree, trace, report, correspondence, quality, attestation, signer>>
      /\ gate.pc = "revalidate"
      /\ gate' = [gate EXCEPT !.pc = "report",
                     !.verified = @ /\ ValidPerformance /\ ValidMutation /\ ValidCorrespondence]
  BY DEF Revalidate, world, evidence
<1>2. /\ gate'.pc = "report" /\ gate'.before = gate.before
      /\ gate'.executed = gate.executed /\ gate'.signed = gate.signed /\ Shape'
      /\ gate'.verified =>  gate.verified /\ ValidCorrespondence
  BY <1>1 DEF IInv, Shape
<1>3. ConfirmedInv'
  <2> SUFFICES ASSUME gate.verified, ValidCorrespondence
               PROVE  Signed(gate.signed, tree)
    BY <1>1, <1>2 DEF ConfirmedInv
  <2>1. /\ correspondence # None /\ correspondence.execution # None
        /\ Describes(correspondence.trace, tree)
        /\ correspondence.execution.command = tree["config"]
    BY DEF ValidCorrespondence, TestProven, Traceable, TraceFresh, Describes
  <2>2. tree["config"] \in Nat
    BY DEF IInv, Shape, File
  <2>3. correspondence.execution.command # None
    BY <2>1, <2>2, GateEvidenceAssumption
  <2> QED BY <1>1, <2>1, <2>3 DEF IInv, AcceptedInv
<1>4. (ReportInv /\ ExecutionInv /\ AcceptedInv /\ SnapshotInv)'
  BY <1>1, <1>2 DEF IInv, ReportInv, AtTests, ExecutionInv, AcceptedInv, SnapshotInv,
                    AfterTests
<1>5. (Older(trace, tree) /\ CorrespondenceInv /\ SignerInv /\ AttestationInv
       /\ TestedTwice)'
  BY <1>1 DEF IInv, CorrespondenceInv, SignerInv, AttestationInv, TestedTwice
<1> QED BY <1>2, <1>3, <1>4, <1>5 DEF IInv

\* A collection forgets what it had, or adds a head.
LEMMA SignerInvKept ==
    ASSUME IInv, Shape', SignerInv', AttestationInv',
           UNCHANGED <<tree, trace, report, runs, correspondence, quality, gate>>
    PROVE  IInv'
<1>1. (Older(trace, tree) /\ ReportInv /\ ExecutionInv /\ CorrespondenceInv /\ AcceptedInv
       /\ SnapshotInv /\ ConfirmedInv /\ TestedTwice)'
  BY DEF IInv, ReportInv, AtTests, ExecutionInv, CorrespondenceInv, AcceptedInv, SnapshotInv,
         ConfirmedInv, TestedTwice
<1> QED BY <1>1 DEF IInv

LEMMA SignerStepInv == ASSUME IInv, StartSigning \/ CollectHead \/ Sign PROVE IInv'
<1>1. UNCHANGED <<tree, trace, report, runs, correspondence, quality, gate>>
  BY DEF StartSigning, CollectHead, Sign, world, evidence
<1>2. CASE StartSigning
  <2>1. /\ signer' = [AtRest EXCEPT !.pc = HeadOrder["idle"], !.context = context]
        /\ UNCHANGED attestation
    BY <1>2 DEF StartSigning
  <2>2. Shape' /\ SignerInv'
    BY <1>1, <2>1 DEF IInv, Shape, SignerInv, HeadTrue, AtRest, HeadName
  <2>3. AttestationInv'
    BY <1>1, <2>1 DEF IInv, AttestationInv
  <2> QED BY <1>1, <2>2, <2>3, SignerInvKept
<1>3. CASE Sign
  <2>1. /\ attestation'.heads = [signer.heads EXCEPT !["workspace"] = <<tree>>]
        /\ attestation'.tested = signer.tested /\ signer' = AtRest
    BY <1>3 DEF Sign
  <2>2. Shape' /\ SignerInv'
    BY <1>1, <2>1 DEF IInv, Shape, SignerInv, HeadTrue, AtRest, HeadName
  <2>3. attestation'.heads["correspondence"] = signer.heads["correspondence"]
    BY <2>1 DEF IInv, Shape, HeadName
  <2>4. AttestationInv'
    BY <1>1, <2>1, <2>3 DEF IInv, SignerInv, AttestationInv, HeadTrue
  <2> QED BY <1>1, <2>2, <2>4, SignerInvKept
<1>4. CASE CollectHead
  <2>0. UNCHANGED attestation
    BY <1>4 DEF CollectHead
  <2>1. AttestationInv'
    BY <1>1, <2>0 DEF IInv, AttestationInv
  <2>2. CASE Locked
    <3>1. signer' = AtRest
      BY <1>4, <2>2 DEF CollectHead
    <3>2. Shape' /\ SignerInv'
      BY <1>1, <3>1 DEF IInv, Shape, SignerInv, HeadTrue, AtRest, HeadName
    <3> QED BY <1>1, <2>1, <3>2, SignerInvKept
  <2>3. CASE ~Locked
    <3>1. signer' = [signer EXCEPT
                        !.pc = HeadOrder[@],
                        !.heads[signer.pc] = Head(signer.pc),
                        !.tested = IF signer.pc = "correspondence" THEN Evidenced ELSE @]
      BY <1>4, <2>3 DEF CollectHead
    <3>2. Shape'
      BY <1>1, <3>1 DEF IInv, Shape
    <3>3. CASE signer.pc = "correspondence"
      <4>1. /\ signer'.heads["correspondence"] = Head("correspondence")
            /\ signer'.tested = Evidenced
        BY <3>1, <3>3 DEF IInv, Shape, HeadName
      <4>2. CASE correspondence = None
        <5>1. signer'.heads["correspondence"] = <<>>
          BY <4>1, <4>2 DEF Head
        <5>2. HeadTrue(signer'.heads, signer'.tested, tree')
          BY <5>1 DEF HeadTrue
        <5>3. SignerInv'
          BY <5>2 DEF SignerInv
        <5> QED BY <1>1, <2>1, <3>2, <5>3, SignerInvKept
      <4>3. CASE correspondence # None
        <5>1. signer'.heads["correspondence"] = <<CorrespondenceHead(correspondence)>>
          BY <4>1, <4>3 DEF Head
        <5> DEFINE head == signer'.heads["correspondence"][1]
        <5>2. /\ head.trace = correspondence.trace
              /\ correspondence.execution = None => head.command = None
          BY <5>1 DEF CorrespondenceHead
        <5>3. Older(head.trace, tree)
          BY <4>3, <5>2 DEF IInv, CorrespondenceInv
        <5>4. ASSUME head.command # None, Describes(head.trace, tree)
              PROVE  Signed(signer'.tested, tree)
          BY <4>1, <4>3, <5>2, <5>4 DEF Evidenced, IInv, CorrespondenceInv, Signed
        <5>5. HeadTrue(signer'.heads, signer'.tested, tree')
          BY <1>1, <5>3, <5>4 DEF HeadTrue
        <5>6. SignerInv'
          BY <5>5 DEF SignerInv
        <5> QED BY <1>1, <2>1, <3>2, <5>6, SignerInvKept
      <4> QED BY <4>2, <4>3
    <3>4. CASE signer.pc # "correspondence"
      <4>1. /\ signer'.heads["correspondence"] = signer.heads["correspondence"]
            /\ signer'.tested = signer.tested
        BY <3>1, <3>4 DEF IInv, Shape, HeadName
      <4>2. SignerInv'
        BY <1>1, <4>1 DEF IInv, SignerInv, HeadTrue
      <4> QED BY <1>1, <2>1, <3>2, <4>2, SignerInvKept
    <3> QED BY <3>3, <3>4
  <2> QED BY <2>2, <2>3
<1> QED BY <1>2, <1>3, <1>4

LEMMA StutterInv == ASSUME IInv, UNCHANGED vars PROVE IInv'
BY DEF IInv, Shape, ReportInv, AtTests, ExecutionInv, CorrespondenceInv, SignerInv, AttestationInv,
       AcceptedInv, SnapshotInv, ConfirmedInv, TestedTwice, vars, world, evidence

LEMMA NextInv == ASSUME IInv, [Next]_vars PROVE IInv'
<1>1. ASSUME GateStep PROVE IInv'
  BY <1>1, SnapshotStepInv, BuildTraceInv, QuietInv, ClearInv, StartCommandInv,
     EndCommandInv, ReadReportInv, RecordCorrespondenceInv, VerifyAttestationInv, RevalidateInv, WriteReportInv DEF GateStep
<1>2. ASSUME Environment PROVE IInv'
  BY <1>2, EditInv, RunByHandInv, EndRunInv, RebuildTraceInv, InterruptInv, NextContextInv DEF Environment
<1>3. ASSUME NEW mode \in Mode, StartGate(mode) PROVE IInv'
  BY <1>3, StartGateInv
<1>4. ASSUME StartSigning \/ SignerStep PROVE IInv'
  BY <1>4, SignerStepInv DEF SignerStep
<1>5. ASSUME UNCHANGED vars PROVE IInv'
  BY <1>5, StutterInv
<1> QED BY <1>1, <1>2, <1>3, <1>4, <1>5 DEF Next

THEOREM Inductive == Spec => []IInv
<1>1. IInv /\ [Next]_vars => IInv'
  BY NextInv
<1> QED BY <1>1, InitInv, PTL DEF Spec

-----------------------------------------------------------------------------
(* The theorems                                                            *)

\* Correspondence evidence that validates is about the files as they are
\* (validateModelCorrespondence), whatever is edited, run by hand or killed,
\* unless its gate removed the old report while a run of the tests on older
\* files was under way.
THEOREM CorrespondenceIsTruthful == Spec => []CorrespondenceTruthful
<1>1. IInv => CorrespondenceTruthful
  <2> SUFFICES ASSUME IInv, ValidCorrespondence
               PROVE  Proves(correspondence.execution, Tested)
    BY DEF CorrespondenceTruthful
  <2>1. /\ correspondence # None /\ correspondence.execution # None
        /\ Describes(correspondence.trace, tree)
    BY DEF ValidCorrespondence, TestProven, TraceFresh, Describes
  <2> QED BY <2>1 DEF IInv, CorrespondenceInv, Inputs, Tested
<1> QED BY <1>1, Inductive, PTL

\* A gate that succeeds under an attestation (verifyEvidenceAttestation)
\* confirms evidence whose tests, too, ran on the inputs of its report, with the
\* same exception for the gate that made that evidence.
THEOREM VerifiedTwice == Spec => []TestedTwice
<1>1. IInv => TestedTwice
  BY DEF IInv
<1> QED BY <1>1, Inductive, PTL
=============================================================================
