# A verification project for musubix3

musubix3 is a command-line tool that keeps evidence about the development of a
project: which staged changes were made in which order, which tests were red before
they were green, who approved what, and whether the quality gate still describes the
work tree. Everything it knows is a set of JSON files in `.musubix/`; each command
is a process that reads some of them, checks the history they tell, and replaces
some of them. What can go wrong is therefore less in any one function than in the
order in which processes, system calls, crashes and legal commands follow each
other. That is what these modules are about.

Paths below are relative to the repository; `analysis/` abbreviates
`packages/analysis/src/`.

## 1. The system

| component | code | state | operations |
|---|---|---|---|
| evidence-writer lock | `analysis/evidence-writer-lock.ts` | one lock file and staging files in `.musubix/evidence`, shared by all processes | acquire, release, inspect, recover |
| lease context | same file | a map from project root to lease in one async context | reuse, reference counting, last release |
| evidence merge | `analysis/evidence-merge.ts`, `evidence-merge-guard.ts` | journal, staging, temporaries, the evidence files | plan, apply, recover |
| quality refresh transaction | `analysis/quality-refresh.ts` | a journal of its own, order log and changes | commit, recover |
| file helpers | `analysis/files.ts` | files | protected read and write, snapshots |
| order log | `analysis/order.ts` | `order.json`: hash-chained, append-only records | append, validate |
| staged changes | `analysis/change.ts`, `change-evidence.ts` | `changes.json`: phases, requirement batches, Quality and its history | record, dry run, refresh, validate, completeness |
| change waivers | `analysis/change-waiver.ts` | `change-waivers.json` | waive, supersede, match |
| TDD cycles | `analysis/tdd.ts` | `tdd.json`: cycles, voids, archives, migrations | red, green, refactor, migrate, void, archive, validate |
| approvals | `analysis/approval*.ts` | approval records per stage and domain | prepare, record, rebase, validate |
| gate and status | `analysis/gate.ts` | `quality.json`: a report with fingerprints | gate, status |
| workflow sessions and waivers | `analysis/workflow*.ts` | declarations, observed events, waivers | declare, import, reconcile |
| trace, graph, formal, mutation, performance, correspondence | the files of those names | caches and reports | build, import, validate |
| process runner | `analysis/process.ts` | a child process and its timers | run with timeout |
| parsers | `packages/domain`, `analysis/adapters.ts`, `config.ts` | none | parse |
| CLI, installer | `packages/cli/src` | none | dispatch; plan and write scaffold files |
| release scripts | `scripts/` | versions, assets | prepare, verify, publish |

How they interact. Commands are processes. They share nothing but the files, and a
writer command holds the evidence-writer lock around its whole operation. Inside one
process the lease is shared by nested and sibling calls through an async context.
Readers and writers of evidence first look for a journal: while one of the two kinds
exists, every command but the recoveries refuses. A recorded phase, TDD step or
waiver first appends to the order log and then writes its own document; the document
carries the sequence number of its order record, and the validators later compare
the two. A quality refresh or a merge replaces several documents in one journalled
transaction.

The hard parts, in the order in which the project takes them up:

1. system calls of concurrent lock acquisitions, releases and recoveries, each of
   which looks first and acts by path afterwards;
2. kills, I/O errors and power losses inside a multi-file transaction, and inside
   the recovery of one;
3. documents and order log that are written one after the other, by commands that
   may be interrupted in between, over a long sequence of legal commands;
4. evidence that is fresh when it is read and stale when it is used (gate,
   approvals);
5. siblings in one process that share a lease, and a child process whose timeout
   races its end;
6. histories of several worktrees that are merged into each other while they go on,
   and approvals of missing evidence that must not cover what came later.

`PROJECT.json` lists each hazard at its line with the properties that catch it, and
for each definition of the modules the lines it models.

## 2. The modules

### WriterLock, ExclusiveLock

`WriterLock` has one action per system call of `acquireEvidenceWriterLock`,
`release` and `recoverEvidenceWriterLock`, for any set of `Command` processes and
any set of `Recoverer` processes. `lock` is the transaction the canonical file
names; because `linkSync` publishes the staging file itself, transaction id and
inode are one name. `identity[c]` is what a command took for its own file after
publishing (line 713), `seen[r]` what a recovery observed first (1033–1049). Three
nested directories are one (`dir`); the probes of host, boot and process are
conclusive or not. A killed process is `~alive[c]`, at any `pc`.

`Faults` lets file-system calls, probes and recoverers fail. `SerialRecovery` states
the operational assumption under which the lock is exclusive: one `evidence unlock
--recover` at a time.

`ExclusiveLock` is the promise: a holder, work only while holding, and a holder
replaced only by its own step or after its death. It is stated once and implemented
twice, by the files of `WriterLock` and by the tasks of `LeasedCommand`.

### LeaseContext, ProcessRunner, LeasedCommand

`LeaseContext` is what happens inside a process: a `Task` is one call of
`withEvidenceWriterLock`, and the calls made from its operation are its children, to
any depth: the command line locks for a release approval (`cli/src/main.ts:712`),
from there `recordApproval` (`approval-record.ts:28`), `runGate` (`gate.ts:105`) and
`buildTrace` (`trace.ts:265`) lock again, each called by the one before. All of them
run in the context of the command, `Context[t]`. `entry[c]` is the context's map
entry, `acq[s]` and `refs[s]` the promise and the count of a lease state, `waiting`
and `jobs` the continuations in the order in which the event loop runs them. The gap
that matters is between the `await` of an acquisition and the count that follows it
(`EnterShared`, `Join`): there a sibling may release (`Leave`) what the task has
awaited. A write is the ownership check and the rename (`CheckWrite`, `Write`).
`Resolve` follows `Promise.all`: an operation fails with its first child, while
others still run. The lock file is taken and given up in one step, which is what
`WriterLock` refines. Calls that an operation starts and does not await are left
out, since the code has none.

`ProcessRunner` is `runProcess`: a child, a descendant outside its process group
that keeps the pipes open (`Escape`), the timer, the second timer that gives up on
the pipes, and the callbacks in any order; `Finish` settles the promise once.
Output, durations and the Windows branch are left out.

`LeasedCommand` composes the two: one task's operation awaits the child while its
context holds the lock, so how long a project stays locked depends on the runner.

### EvidenceTransaction, EvidenceStore

The journalled replacement of `applyCandidates` (merge) and `commitQualityRefresh`
(refresh), their two recoveries, ordinary writers, and the failures. `mem` is the
directory as processes see it, `disk` what a power loss leaves for certain; a
directory fsync copies the one to the other, and `LosePower` keeps, entry by entry,
the old or the new. That is enough for journals, candidates and restored originals,
which are fsynced themselves before they get their name (`SetTarget`). An ordinary
writer renames a content that nobody ever fsyncs (`Rename`, after
`files.ts:133-134`); the fsync of the directory makes its name durable and not its
bytes. Such a file is `loose` until a transaction or a recovery replaces it, and a
power loss may leave it `Torn`. A transaction does not start from a torn file, since
the document cannot be parsed. The two transactions differ in details that the model
keeps: what they do with leftover staging, with unreadable originals (`ReadFaults`),
and with bytes neither original nor candidate when they roll forward. `before` and
`after` are history variables: the evidence before and after the last transaction.

The automatic restore that `applyCandidates` performs for an injected fault
(1153–1159) exists for the tests and is left out; so is the content of the
documents, which is a number here (the operation that wrote it).

`EvidenceStore` is the promise, under kills and power losses: a transaction is one
step, the rename of the commit marker, a recovery is none, and a power loss leaves a
file or takes it back to what was durable of it, but tears a file only if an
ordinary writer wrote it last.

### ChangeRecord

One staged change, in two files. `log` is the order log; `at[slot]` is the sequence
number changes.json holds for a phase of the change or of a requirement batch;
`quality` and `history` are the authoritative and the superseded checkpoints;
`pending` is the order record whose document is not yet written. `RecordPhase` and
`RecordQuality` end where the process may be interrupted, `WriteChanges` is the
second write, `LoseChanges` the interruption. `RefreshQuality` is one step because
`EvidenceTransaction` shows that it is. What the validator reports is given as
operators (`Mismatched`, `Inverted`, `LineageMalformed`) and compared with what the
recorder can produce. Hashes, times, fingerprints and the acceptance heuristics are
left out.

### ChangeWaiver

Waivers of a change's diagnostics, on top of `ChangeRecord`: the module extends it
and shares its order log. `cycles` holds the TDD cycles of the change's requirements
as far as the windows of a batch look at them, `document` the change document with
the approval notes a `CHANGE_RECORD_MISSING` waiver asks for. `Snapshot` is what the
waiver approves and what staleness compares it with; `Reported` is the condition of
the diagnostic. `DraftWaiver` and `WriteWaiver` are the two writes of `change
waiver`, and `LoseWaiver` the interruption between them. Left out are the codes
about fingerprints, order migration and phase order, whose snapshots are just the
values that their conditions compare, and the two writes of a TDD command, which
`TddCycle` has.

### TddCycle

The cycles of `tdd.json` and the order log under them, for tests that the developer
edits and renames meanwhile (`EditTest`, `EditSource`, `Rename`). A text is a test's
identifier with a version of its body: that is what a fingerprint tells apart, and a
relink asks whether the new declaration is the old one but for the identifier. `log`
is the order log, `cycles` the cycles in the order of their Red, `chain` the hash
chain of `tdd.json`; a cycle carries the sequence number of the order record of each
of its phases and marks.

Every command (`RecordRed`, `RecordGreen`, `RecordRefactor`, `MigrateFingerprint`,
`Relink`, `Void`, `Archive`) has the guards of its source and ends in `Record`:
append to the log unless the log is invalid or has the key, then write the document,
or be interrupted before that. `Indexed` and `Linked` are what the validator
computes from log and chain; the difference between the key for appending (with the
two ids of a relink) and the key for validating (without) is kept, see section 5.
The last part of the module gives the diagnostics of `validateTddEvidence` as
operators, so that properties can relate what is reported to what happened.

Left out: running the test and parsing its report (an outcome is an input),
durations, hashes, the preconditions a staged change adds, the selection of the
runner. All tests are top-level statements of one file, for which the superseded and
the current fingerprint algorithm agree.

### EvidenceMerge

What a merge makes of two histories. Each `Root` is a worktree that records, loses
second writes, refreshes Quality, merges another root into itself (`Merge`) and
moves on to a history that contains its own (`Adopt`), in any order and any number
of times. It records all the phases of a TDD cycle (`TddKind`: Red, Green, Refactor,
relink, void, archive), of a batch, Quality and waivers. A history is the order log
as a sequence of identities and the payloads (`held`) with the sequence number each
one carries. The content of a payload is the root that recorded it and what that
root then knew, which is what equality of documents comes down to. `Same`,
`OrderMap`, `Divergent` and `Inverting` are the plan, `Kept`, `Rewritten` and
`Merged` the candidate, `ValidInput` and `ValidCandidate` what is checked before and
after. A merge is one step here: `EvidenceTransaction` shows that its four files
change as one. The incoming root may be read between two writes of a recorder there,
since its lock is looked at and not held. Left out are document formats, identifiers
of tests, the conditions of waivers, and runs that are recorded as not valid, whose
orders are compared with less.

### WorkflowTranscript, WorkflowEvidence

`WorkflowTranscript` has transcripts as sequences of events and the pure part of
`workflow.ts` about them: what strict verification accepts, the invocations it
finds, and the copy that the sanitizer publishes. In `WorkflowEvidence` sessions
write such transcripts (`Invoke`, `Complete`, `ShutDownRoutinely`, `Resume`,
`Finish`) while skills are declared (`Declare`), transcripts verified (`Verify`),
and what cannot be reconciled is waived (`RecordWaiver`, `RecordAll`). `Bindings` is
the reconciliation as the code does it, a single pass that gives each declaration
the first invocation that fits. `now` is the time of the last event; two
declarations without an event in between carry the same millisecond, which is what
the index in `Scope` is for. Left out are phases of declarations, malformed lines,
ages, and the listing of sessions.

### ApprovalGate

Approvals, the gate and the status command over a work tree that is edited all the
while. `tree[p]` is the content of a path; an approval is the contents of the paths
in `Scope(slot)` (a stage of a domain, or the release), a report the contents of
`InputPaths`. Of the other files, those in `Watched` are fingerprinted by a gate and
those in `Released` bound by a release approval: skills are in the second set only,
ignored files in the first only. `Sound` says which contents the validators and the
configured commands accept; all evidence of the other modules is one Boolean that
changes while no command runs.

`command` is the process that holds the writer lock: `approval record` goes through
`ValidateArtifacts`, the prerequisite approvals one at a time, for the release a
nested gate, and then reads the manifest again (`RecordApproval`); the gate goes
from snapshot to snapshot. Each step reads the tree at its own time. `inquiry` is a
status command, which reads approvals, report and inputs without the lock. A status
that meets the lock fails; one that cannot answer ready any more is over.
`Interrupt` is a kill with the recovery of the lock, `prepared` what the approver
was last shown.

A snapshot is one step although the code reads file by file: as long as no edit
during a command brings back a content the path had before, two equal snapshots
taken file by file mean that the tree was theirs in between. `Restore = TRUE` lifts
that restriction on edits; section 5 says what fails then.

Left out: fast re-approval, approvals that are malformed, the resolution of domains,
gates of one feature or of changed files (the former write no report), validation
against a release tag, and the approval checks of `tdd red` and `design validate`.

### GateEvidence

The inside of one gate: the trace, the formal result, each configured command with
the report it leaves, the three evidence files that are written, read again and
validated, the attestation, and the gate's report. The state is the files (`trace`,
`report[c]`, `formal`, `performance`, `mutation`, `correspondence`, `quality`,
`attestation`), the gate at its step (`gate.pc`), the commands that run without a
gate (`runs`), and a collection of the heads to be signed (`signer`), which reads
file by file without the lock. A command reads its files when it starts
(`StartCommand`) and leaves its report when it ends (`EndCommand`). `process.ts:16`
spawns it in a process group of its own, so it survives a gate that is killed or
stopped from the keyboard: `Interrupt` may leave it in `runs`, where also a run by
hand is (`RunByHand`), and `EndRun` writes the report of such a run at any later
time, if ever, whatever another gate is doing then. A content is a number that grows
with each edit, a hash is what it was computed from. Two histories say what the text
of a test report does not: `ran` which files the tests really saw, and `overlapped`
whether a run of the same command on older files was under way when the gate removed
the old report. That is why evidence can be bound to a report and still not be about
the current files. Edits, commands that fail or leave no report, runs by hand, kills
and a change of commit or CI run are `MaxDisturbances` in number.

Left out: signatures and their keys, OIDC claims and ages, the parsing of reports,
the identities of mutants, several budgets, and the heads of the histories that a
gate does not write.

`ApprovalGate` and `GateEvidence` divide the gate between them: the first has the
gate as a reader of a moving tree, with approvals and status around it; the second
has it as a writer of evidence, with the attestation around it.

### Wrong variants

Next to a definition there is sometimes a "wrong variant": the same operation with a
plausible mistake (a dropped guard, a missing sync, an inverted comparison). They
are not part of any specification; replacing the definition by its variant must
violate the property named for it under "mutants" in `PROJECT.json`, which shows
that the property can fail.

## 3. The runs

| run | instance | shows |
|---|---|---|
| `lock_commands` | 3 commands, one of them killed before, 1 recoverer, serial recoveries, faults, fairness | a live owner keeps its file; the lock implements `ExclusiveLock`; commands end; abandoned locks are cleared |
| `lock_unlock_race` | 3 commands, 2 recoverers that overlap | violated: recovery removes a live lock |
| `lease_tasks` | a command, two nested calls side by side, one of them with a child process and a nested call of its own, and a rival command | work only under the lock; nested calls are not refused; results are true; `ExclusiveLock` is implemented; the lock comes back |
| `transaction_faults` | 3 files, 3 operations, kills, I/O errors, power losses that tear ordinary writes, fairness | all or nothing; `EvidenceStore` is implemented; recovery spares later evidence; journals are resolved |
| `change_crash` | 2 requirements, 3 batches, complete state space | pairing of orders, lineage, proven Quality, append-only |
| `change_waivers` | 1 requirement, 1 cycle, 2 waivers of 3 scopes, 2 texts | nothing unseen is waived; stale waivers stay stale |
| `tdd_cycles` | a test with one rename, 2 requirements, 3 cycles, 5 order records | order but for migrations, a clean report means the text passed, append-only, silence only by a cycle's own marker |
| `approval_edits` | one domain, source and a skill, two contents per path, 2 disturbances, fairness | a passing report, an approval and a ready status are true; the advice of status leads to readiness |
| `merge_histories` | 2 worktrees from 5 common histories, 2 requirements, 2 batches, 1 cycle, 1 waiver scope | each merge keeps the chronology of both histories, nothing is lost, late work knew the Quality, refusals have a reason, repeating is harmless |
| `merge_relinks` | 2 worktrees, 2 cycles | violated: the order in migrateHistory is not rewritten |
| `workflow_sessions` | 2 sessions, 2 skills, 2 declarations, 2 waivers, both modes | binding is complete, sanitized copies verify, waivers cover what was seen, links are lost by collision only, record-all covers all |
| `gate_attest` | a test and a mutation command, runs that end late, an edit that breaks the tests, 2 disturbances, fairness | valid correspondence evidence is about the current files, unless an older run outlasted the removal of its report; a verified gate repeats what was signed; the pipeline settles |

Bounds and why they suffice. Three commands and one recoverer are the smallest
instance in which a dead owner, its recovery and a live newcomer meet with a
competitor to spare; that one of the commands is dead from the start (`Former`)
gives recovery something to do at once and saves the states in which it dies. With
two overlapping recoverers the race needs no faults. A context with two nested calls
is the smallest in which one call leaves while another joins, and a rival shows what
the file means to others; which task runs the child does not matter to the lease, so
it is one of the nested ones. That one also makes a call of its own, which gives a
chain of three. A behaviour of the instance has the second call or the third level,
not both, and only nested calls write (`MCNext`); with any tree of calls the
properties are proved.

Three files, one of them optional, give a transaction a file done, a file under way
and a file to do, and a refresh that covers fewer files than the merge; three
operations (`MaxOps`) give a write, a transaction and a later write that a
reappearing journal could destroy. The instance records single files in `order` and
`waivers` only (`MCNext`): `changes` plays the same part as `order` in everything
else. Two requirements give three batches of which two overlap the third; a change
with them records at most 3 + 9 phases, the first Quality and the refreshes that
late Greens allow, all of which fit in `MaxLog = 16`, so that run is exhaustive. For
waivers one requirement suffices, as conditions look at one requirement or batch at
a time; ten order records hold a complete batch, a cycle with its void and two
waivers. Of the waived scopes one is a missing record, one a missing phase and one
an unproven Red (`FewScopes`): one of each kind of snapshot.

In `TddCycle` three cycles are a voided one, the one that stands in for it and a
later one that supersedes both; five order records (`MaxLog`) suffice for a complete
cycle, a second Red, its void and one more record, and for a complete cycle with
both migrations; one torn write (`MaxTorn`) leaves each command interrupted
somewhere. Versions of bodies and sources only grow, so an edit that is undone is
not distinguished from one that is not made. Here the bound on the log does cut off
longer histories: that the properties hold for them too rests on the proofs, which
cover all of them.

Two worktrees merge in both directions and again, as two people do who pull from one
another. A third worktree adds criss-cross merges, of which section 5 has a note:
what is claimed here of one merge does not depend on how many worktrees there are,
and nothing is claimed of worktrees that have not merged with each other. A worktree
is at most two records (`MaxAhead`) ahead of the history both began with, which is a
payload against a payload of the same identity, or two records whose order the other
may invert. The five trunks are a begun change, one with the orphan record of a
killed waiver, one with a Quality checkpoint, one with a second batch begun behind
it, of which Green and a refresh are the two records to come, and one whose cycle is
Green, of which a Refactor and a relink are, in either order and in one worktree or
both. Only there is a cycle refactored or relinked, and nothing else is recorded
then; no cycle is archived, since nothing is compared with the order of an archive;
and none is voided, which takes a second cycle (`MCNext`). The one cycle is in every
trunk, so in this run none is taken over as a whole; the proofs cover that, too. The
relink takes a Red, a Green and the relink itself behind an unrelated record, hence
`MaxAhead = 4` in the other run.

Two sessions have begun at time two; five more events (`MaxTime = 7`) let one of
them call a skill, shut down, resume and shut down again while the other runs, with
declarations around them four, which are two calls with their completions, and with
waivers two. Two declarations compete for two invocations, and two waivers are an
old one and its successor. In `ApprovalGate` a requirements and a design document,
the constitution, a source and a skill give a path of each kind of coverage, and
three stages of which each later one binds more. Two contents per path are one that
is sound and one that is not, or two sound ones that an approval tells apart. Two
disturbances (`MaxDisturbances`) are an edit between two steps of a command or
status and a second edit, loss or interruption; since an approval, a report and an
answer each compare two readings, two edits are what it takes to spoil both. The
same goes for a gate and its attestation, where a disturbance may also be a run by
hand, a kill that leaves the command running, a failing command or another gate: two
are what it takes for a late report of older files, a run and then an edit.

Symmetry is used for commands, recoverers, requirements, worktrees and skills, and
only in runs without liveness properties. `CHECK_DEADLOCK FALSE` is said where every
process may have ended (lock), where a change or the bounds on logs, cycles, waivers
and events are exhausted, and where disturbances are used up.

### Fairness

Lock: weak fairness of each command's next system call and of each recovery. Nothing
in acquire or release waits, so a process that is not killed executes its next call.
Strong fairness of the recovery's conclusive probe, of its second look and of its
removal: probes and calls fail now and then, and an operator who repeats the
recovery, as documented, does not meet a failure each time. No command is obliged to
be killed or to start.

Leases: weak fairness of what the event loop and the file system do, and of the
runner's own two timers; strong fairness of an operation's end, because its writes
disable it in between and there are finitely many of them. Of the child nothing is
assumed: it may run for ever, ignore the kill, or leave a descendant on its pipes.
That the lock is returned all the same is what the second timer is for.

Transactions: weak fairness of the steps of the running command, strong fairness of
starting each kind of recovery (the operator repeats it, and other commands only
briefly hold the lock), and eventually no more failures; without the last, recovery
could be killed for ever.

Approvals: weak fairness of the next step of a running command, which waits for
nothing, and strong fairness of following the advice that `status` prints, which is
what a developer who wants to get ready does; strong, because another command may
hold the lock now and then. Gate evidence: weak fairness of the steps of a running
gate and of a running collection, strong fairness of the pipeline's turn, which
signs what all other checks accept and runs the gate again while it is not
satisfied. Status commands and edits are under no obligation, nor are runs without a
gate: they may end late or never, and there are no more of them than disturbances,
so that at some time the last report out of turn has been written.

## 4. The proofs

`WriterLockProofs` proves for any numbers of commands and recoverers:

- `TypeCorrect`;
- `OverlapIsDetected` without any assumption on recoveries: of two commands that ran
  together at most one releases without an error. The invariant is that a command
  which was robbed of its lock (or took another file for its own) stays that way:
  `lock` never returns to a command after its publication, so its release must fail;
- `LiveOwnerIsSafe`, `ExclusionHolds`, `RemovalIsConclusive` and
  `RefinesExclusiveLock` under `SerialRecovery`. `LiveOwnerKeepsLock` is not
  inductive: the strengthening says at most one recovery is under way, that one past
  its probes has seen a dead process, and that past its second look the file is
  still that process's.

`ChangeWaiverProofs` proves the properties of `ChangeRecord` for any requirements,
any interleaving of batches and any interruptions, and carries them through waivers.
The inductive invariant of the record, `IInv`, adds to the type and the stated
properties what a pending order record implies (it is the last of the log, and its
prerequisites are recorded), that a recorded phase has its prerequisite recorded
with a smaller order, and that every logged ordinal of Quality is at its place in
the lineage or is the one pending. Beside waivers, which log orders of their own,
all of this holds again (`RecordSoundBesideWaivers`, `EvidenceKeptBesideWaivers`).
`WInv` adds that a waiver held by the record has `Seen` what it covers, and that
what was `Followed` since shows in its snapshot. Why a stale waiver stays stale
(`StaleStaysStale`), and why a valid one has seen all it hides (`WaiversSawAll`),
comes down to an order on snapshots of proofs, `Behind`: a step never takes a proof
back, so a snapshot that differs once is behind for ever.

`TddCycleProofs` proves all the properties of `TddCycle` for any tests,
requirements, renames and bounds. The invariant has eight parts: types, no cycle
both voided and archived (`MarkersExclude`), a recorded Red, Green or Refactor names
its own order record (`RunsArePaired`), only a relink repeats a key of the log, ids
are given once, a cycle is named after an order of the log, the chain consists of
the entries of the cycles, once each and each with its log record, and the phases of
a cycle come one after the other with the text that was Red, where a voided cycle
has an earlier Green one standing in for it. From it follow that no command changes
what was recorded (`RecordsAreKept`), that only a migration lets orders appear out
of sequence (`DisorderHasOneCause`), that a report without a diagnostic means that
the text as it is has passed (`CleanReportIsTrue`), and that a diagnostic vanishes
without new evidence only by the marker of its own cycle
(`ReportsAreSilencedHonestly`). That records are kept is not a consequence of the
guards of a command: `tdd green` would overwrite a recorded Green, and only the
order log's refusal of a second record with the same key prevents it. The pairing is
therefore the strengthening: a recorded phase has a record in the log with just the
key its repetition would use. That the cycle a command picks exists needs the
maximum of a bounded set (`HasMaximum`), which is derived from the well-foundedness
of the naturals.

`WorkflowEvidenceProofs` proves all the properties of `WorkflowEvidence` for any
sessions, skills, declarations and bounds on time. The invariant `WInv`
(`Inductive`) has three parts: `PastInv`, that no declaration is of the future,
`VerifiedInv`, that what was verified is of the declarations as they are recorded,
and `WaiversInv`, that the scope of a waiver is found among the declarations, and
that it was made of a verification which reported its code, of declarations recorded
by then. Then the waivers cover what the reviewer saw (`WaiversCoverWhatWasSeen`), a
link is lost only to a declaration of the same instant (`LinksAreLostByCollision`),
and record-all leaves nothing unwaived (`NothingIsLeftUnwaived`). The other two are
about algorithms. `GreedyBindingIsComplete`: if declarations can be bound to
invocations at all, the greedy choice of the code, the first free one in order,
binds them; the argument is the usual exchange, over the ranks of events in time, of
which `RanksAscend` and `InOrderLists` say that they list every event once.
`PublishedCopiesVerify`: the sanitized copy of a transcript is the order-preserving
image of the events it keeps (`IsCopy`), and what the verifier asks of pairs,
terminals and invocations carries over each such image. `Stream`, which merges the
sessions with the library's `SortSeq`, cannot be expanded by the prover; no theorem
depends on what it returns beyond what the ranks say of it.

`ApprovalGateProofs` proves types (`TypeCorrect`) for any edits, and, when edits
during a command bring nothing back, that passing reports are true
(`GateIsTruthful`), that ready answers are (`ReadyIsTrue`), and that approvals bind
what was shown, checked and built on approved prerequisites (`ApprovalsEarned`), for
any domains, paths and contents and any number of disturbances. The invariant has
four parts. `SeenInv`: every content recorded anywhere has been in the tree, so an
edit to a new content makes that path differ from every record for ever. `GateInv`:
what a gate has checked holds of each path that still is what its first snapshot
saw, so of all if the second snapshot equals the first. `ReaderInv`: a stage that an
inquiry has read agrees with the tree or else no report, old or read, describes the
tree. `RecordInv`: what a recorder has checked holds as long as the tree is what was
shown.

`EvidenceMergeProofs` has two halves, which share nothing but the file: how a merge
replaces its files, and what by. The first, about `EvidenceTransaction`, proves for
any files, operations, kills, power losses and repeated recoveries, provided that
existing targets can be read (`~ReadFaults`): types (`TypeCorrect`), that readers
are never let in to a mixture (`NeverAMixture`), that a recovery rewrites nothing
recorded since (`RecoveryIsSparing`), and that the transactions are single steps of
`EvidenceStore` (`TransactionsAreSteps`). What these promise of a power loss is what
the code has fsynced: a file that an ordinary writer wrote last may be torn, and is
then torn before and after; a file that a transaction covers keeps what its journal
says. The invariant relates both the directory and its durable image to the evidence
before and after the last transaction. `OneKind`: at most one kind has a journal,
counting both images. `Journaled`: a journal holds exactly the old and the new
evidence, and files it does not cover never differed. `Recoverable`: while a
prepared journal may be found each file is old or new, or torn where its original
was never fsynced, and old wherever the journal may be missed; while a committed one
may be found all files are new, and those it covers are not loose. Because these
speak of both images at once, they survive a power loss that takes each entry from
either; that is what each fsync is there for. `Process` adds what a live command has
established. It follows that rolling forward changes nothing (`ForwardIsNoop`): the
code rewrites targets there that are new already.

The second half, about `EvidenceMerge`, proves all five properties of the run, for
any worktrees, batches, scopes and lengths of logs, provided that the worktrees
start from one recorded history: a merge loses nothing (`MergesLoseNothing`), keeps
the chronology of both histories (`MergesKeepChronology`), can be repeated
(`RepeatedMergeIsHarmless`), leaves behind a Quality only work whose author knew of
it (`LateWorkIsInformed`), and is refused for six reasons only (`RefusalHasReason`).
The invariant `MInv` has three parts. `HistoriesInv`: every history is `Sound`, that
is, its payloads are where their orders say and are told apart by them (`Filed`),
what had to be there first is there first (`Built`), and late work knew of the
checkpoint (`LateWorkKnew`); and all share what they hold of the trunk. `HomeInv`:
what anybody has of a root's payloads that root has too, and numbers by how many it
knew. This is why no two different payloads are taken for the same one: the number
that a root gives to its next payload has never left it. `PendingInv`: a record
without its payload is the last of its log. The plan of a merge is treated by lemmas
of its own. Matching pairs records one to one (`MatchesOnce`, `MatchedOnce`). The
fresh records are numbered by their ranks (`RanksNumber`), so a plan without
inversion ascends (`MapAscends`), and every incoming payload lands where the map
sends its order (`Landing`). That prerequisites stay in front then follows for the
merged history (`MergedPrecedes`), and a repeated merge finds every record where the
first has put it (`MergedAgain`). For `RefusalHasReason` each check of the plan and
of the candidate is derived from the absence of the reasons, one lemma for each
(`NoConflictNoDivergence`, `NoInversion`, `MergedAscends`, `MergedRefactors`,
`MergedQualityLast`). A Refactor may be recorded before a relink or behind it, so
the order of the two is no part of the invariant: it is compared in the candidate,
and to have the Refactor behind is a reason by itself (`Outruns`). Two attempts
failed at first, and were right to: `RepeatHarmless` and `RefusedForReason` had held
on the instance only because its cycle is in every trunk and so never taken over as
a whole (section 5).

`LeasedCommandProofs` proves for any finite set of tasks, nested to any depth
(`ParentAssumption`): work is done under the lock only (`WorksUnderLease`), nested
calls are never refused (`NestedJoin`), `ExclusiveLock` is implemented
(`ContextsImplementLock`), and the runner tells what happened to the child
(`ResultIsTruthful`). The invariant says that a reference count is the number of
tasks inside the context, that a nested call which waits for its turn is queued
before its parent can go on, and that only a command's own acquisition can be
unsettled, with its queue empty. The order of the queue is essential: it is why no
sibling can release between the `await` of an acquisition and the count that
follows. The runner has an invariant of its own.

`GateEvidenceProofs` proves, with or without a mutation command and for any number
of disturbances, that correspondence evidence which validates is about the files as
they are (`CorrespondenceIsTruthful`) and that a report verified by an attestation
repeats what was signed on the same inputs (`VerifiedTwice`), each unless a run of
the tests on older files was under way when the gate removed their report. No trace
is newer than the tree (`Older`), so an edit outdates every trace of the edited file
and none of what is claimed of matching traces has to be shown again. As long as a
trace describes the tree, the report, the execution, the correspondence entry and
the attested head that were made under it are about the tree, or say that they were
overlapped; a report that appears while a gate waits for its command is that
command's, that of a run on the same files, or that of a run which was under way
when the old report was removed; and a second snapshot that equals the first means
that nothing was edited between them.

Constants are assumed to be what they stand for (`None` is no command, no identity
and no diagnostic code, the requirement set is not empty, a process has finitely
many tasks, the sessions are a sequence, flags are Boolean; the batch phases are
distinct, and the trunks of `EvidenceMerge` are `Sound` histories with room for
`MaxAhead` records, recorded by none of the worktrees). TLC evaluates these
assumptions on the instances.

Theorems without a run of their own: type correctness, `OverlapIsDetected`,
`ExclusionHolds`, `RemovalIsConclusive`, `PhasesStayInOrder`, `MarkersExclude`,
`RunsArePaired`, `Inductive` and `TranscriptTyped` are stated for all instances and
follow from, or are parts of, the invariants the runs check;
`RecordSoundBesideWaivers` and `EvidenceKeptBesideWaivers` repeat properties of
`change_crash` for the composed module.

Left to TLC: liveness (fairness and ENABLED are out of the prover's reach). Every
other property of a passing run is stated by a theorem, some under the assumptions
named above.

## 5. What the runs found

Two disagreements between code and documents, each with a run that shows it:

- `evidence unlock --recover` unlinks by path after its last look
  (`evidence-writer-lock.ts:1101`), and may remove the lock of a live command
  (`lock_unlock_race`);
- a merge that takes over a whole TDD cycle leaves the orders in its
  `migrateHistory` as they were in the other worktree (`evidence-merge.ts:643`),
  where they name other records or none (`merge_relinks`). Later merges suffer from
  it: the order may come to lie before the Green, so that the merge itself is
  refused as TDD_ORDER_SEQUENCE (`evidence-merge.ts:896`), or the merged history can
  no longer be read by the next merge (`evidence-merge.ts:348`). `RefusedForReason`
  and `RepeatHarmless` except these cases by name (`Displaced`, `ListedPaired`).

Others were met on the way. The models reproduce them, and the properties are worded
so as to say what holds beside them; they have no run:

- the merge takes an unreadable original for an absent one
  (`evidence-merge.ts:1063`), and a rolled-back merge deletes it; the refresh tells
  the two apart (`quality-refresh.ts:76`). With `ReadFaults = TRUE` `AllOrNothing`
  fails;
- ordinary evidence writes are not fsynced (`files.ts:133`), nor is their content by
  the next command that takes the lock: a power loss may leave a torn `order.json`
  or `changes.json` that no journal covers and no recovery repairs, and every
  command that reads it refuses until somebody restores it by hand;
- a test command outlives its gate (`process.ts:16` spawns it detached, and nothing
  stops it when the gate is killed), as does a run by hand. If it began before an
  edit and writes its report between the moment when the next gate removes the old
  one (`gate.ts:287` and `:298`) and the moment when it reads it (`gate.ts:317`),
  behind the gate's own command, the gate takes it for its own: correspondence
  evidence of these tests is recorded, validates and may be signed, although they
  ran on older files; nothing compares times, or fingerprints of a test report's
  own. `CorrespondenceTruthful` and `TestedTwice` except this case by name
  (`overlapped`), and it is the only one;
- a Refactor recorded behind a relink, which `tdd.ts:1061-1069` allows, is refused
  by every merge as TDD_ORDER_SEQUENCE (`evidence-merge.ts:897-904`), from either
  side; the worktree's own validation reports the same (`tdd.ts:1402`), so nothing
  takes it back. `RefusedForReason` excepts it by name (`Outruns`);
- a phase interrupted between its two writes is accepted by the dry run and refused
  by the log for ever (`change.ts:236`, against
  `.musubix/features/change-record-fail-fast/requirements.md:139`);
- the validator of the order log does not use the two ids of a relink
  (`order.ts:158`): a relink of a cycle that was migrated before duplicates the key
  of that migration, the log is invalid from then on, and nothing can be recorded
  any more. Without an earlier migration the log stays valid, but the relink is not
  found in the index and is reported as TDD_ORDER_MISMATCH;
- `tdd green` continues a voided cycle (`tdd.ts:1061`, against
  `.musubix/features/tdd-cycle-void/requirements.md:157`), after which that cycle
  and the one standing in for it are both compared with the declaration
  (`tdd.ts:1429`);
- a merge reports a `CHANGE_RECORD_MISSING` waiver that the document names as stale
  although it is active: `change-waiver.ts:1082` compares with the document as it
  is, without taking the approval note away first
  (`.musubix/features/evidence-history-merge/requirements.md:45`);
- two declarations of a skill in one millisecond are told apart by their index
  (`workflow.ts:905`), so the second takes the link from a waiver recorded for the
  first, and every further waiver is refused; `LinkLostByCollision` says that this
  is the only way;
- an interrupted `change waiver` leaves an order record that no merge can match: it
  is appended again with every merge, or makes the merge an inversion
  (`evidence-merge.ts:252`), which `RefusedForReason` and `RepeatHarmless` except;
- a merge keeps the chronology of both histories (`ChronologyKept`), but two
  worktrees that merged with a third one in opposite directions may end up with the
  same two records in opposite orders. Each then refuses the other as an inversion
  (`evidence-merge.ts:252`), for ever; with three worktrees TLC finds such a pair,
  so that chronology is not shared by all is not a property of the design;
- a phase whose order record lost its document can never be recorded for that cycle
  again;
- an orphan order record of a first Quality is not reported as malformed
  (`change.ts:546`, against
  `.musubix/features/change-quality-refresh/requirements.md:104`);
- a Green recorded late in a batch that a later one superseded is reported as
  CHANGE_PHASE_ORDER (`change.ts:639` looks at every batch) and cannot be resolved
  by a refresh (`change.ts:377` looks at the current ones);
- if an edit during `approval record release` brings back an earlier content after
  the nested gate and before the manifest is read, the manifest is the one shown,
  and a release is approved for contents no gate has accepted
  (`approval-record.ts:70` and `:90`, against
  `.musubix/features/human-approval-gates/requirements.md:47`); with `Restore =
  TRUE` TLC finds that and a ready status of a tree whose approvals are stale;
- the fingerprints of a report do not cover evidence: of what the gate checked in
  TDD cycles, changes and waivers, status looks at nothing again (`gate.ts:701`
  repeats the checks of performance, mutation and correspondence only), so that a
  project stays ready after its evidence was voided;
- the design of the quality refresh
  (`.musubix/features/change-quality-refresh/design.md:18`) and `change.ts:175`
  disagree on where the refresh branches off, and `requirements.md:199` calls
  CHANGE_PHASE_ORDER non-waivable while `change.ts:641` lets it be waived.

## 6. What is not modelled

- Parsers and analyses without state: requirement, design and constitution documents
  (`packages/domain`), the code graph, the extraction of a trace, the output of test
  runners, formal text for Lean and SMT, configuration. They map text to values, and
  their tests do that better than a model checker.
- Scaffolds, knowledge and the installer: single-file writes under the lock. An
  installer that fails halfway is repeated, and writes what is left.
- The dispatch of the command line, beyond what approval, status and the payload of
  an attestation do themselves; a command is a process in `WriterLock`.
- The release scripts, which maintainers run one after the other.
- Cryptography and trust in a CI: signatures, key bindings, OIDC claims, ages.
- What each section above lists as left out of its component.

## 7. What could come next

1. The merge and its transaction in one module: `EvidenceMerge` replaces the four
   files in one step, which `TransactionsAreSteps` justifies for readers who wait
   for the lock; the incoming root is read without it.
2. The heads of TDD, changes and workflow in the attestation, which compose
   `GateEvidence` with the modules that write these histories.
3. The waiver codes about fingerprints, order migration and phase order, and the
   completeness report of a change.
4. Gates of one feature and fast re-approval in `ApprovalGate`.
