------------------------ MODULE EvidenceTransaction ------------------------
(***************************************************************************)
(* The journalled replacement of several evidence files by one command:    *)
(* `evidence merge' (evidence-merge.ts) and the Quality refresh            *)
(* (quality-refresh.ts), their two recovery commands, and the ordinary     *)
(* evidence writers (files.ts) that run before, between and after them.    *)
(*                                                                         *)
(* All of them run under the evidence-writer lock, so one process at a     *)
(* time has a state here.  The process can be killed at any step, and the  *)
(* machine can lose power: mem is the evidence directory as processes see  *)
(* it, disk is what the last directory fsync made durable, and a power     *)
(* loss keeps, entry by entry, one or the other.  Journals, candidates and *)
(* restored originals are fsynced before they get their name.  The content *)
(* an ordinary writer renames into place is not, and no later fsync is of  *)
(* that file: it stays loose, and a power loss may leave it torn.          *)
(*                                                                         *)
(* The value of a file is the number of the operation that wrote it.       *)
(***************************************************************************)
EXTENDS Naturals, FiniteSets

CONSTANTS
    Target,      \* the evidence files
    Replaces,    \* Replaces[k]: files a transaction of kind k replaces
    Optional,    \* files that may be absent (change-waivers.json)
    MaxOps,      \* bound: operations that write (transactions and writes)
    PowerLoss,   \* TRUE when the machine may lose power
    ReadFaults,  \* TRUE when reading an existing target may fail
    Absent,      \* the value of a file that does not exist
    Torn         \* the value of a file whose content was lost: no JSON

Kind == {"merge", "quality"}
Val == 0..MaxOps

ASSUME TargetAssumption ==
    /\ Replaces \in [Kind -> SUBSET Target]
    /\ Optional \subseteq Replaces["merge"] \ Replaces["quality"]
ASSUME BoundAssumption ==
    MaxOps \in Nat /\ Absent \notin Nat /\ Torn \notin Nat /\ Torn # Absent
ASSUME FaultAssumption == PowerLoss \in BOOLEAN /\ ReadFaults \in BOOLEAN

VARIABLES
    mem,     \* the evidence directory: target, loose, temp, journal, staging
    disk,    \* the same, as of the last directory fsync
    owner,   \* writer lock: "none", "live" owner, or "dead" owner
    op,      \* the owner's command
    kind,    \* the transaction kind it works on
    pc,      \* where it stands
    tx,      \* its transaction in memory: state, before, after
    todo,    \* targets left in the loop it is in
    ops,     \* operations numbered so far
    before,  \* history: the evidence before the last transaction
    after    \* history: the evidence after it

dirs == <<mem, disk>>
process == <<op, kind, tx, todo>>
history == <<before, after>>
vars == <<mem, disk, owner, op, kind, pc, tx, todo, ops, before, after>>

Content == Val \cup {Absent, Torn}

\* A journal holds the original and candidate bytes of the files it covers.
NoJournal == [state |-> "none", files |-> {}, before |-> <<>>, after |-> <<>>]
JournalOf(files) == [state  : {"prepared", "committed"}, files : {files},
                     before : [files -> Content], after : [files -> Val]]
Journal == {NoJournal} \cup UNION {JournalOf(files) : files \in SUBSET Target}
\* loose: the files whose present content was never fsynced.
Directory == [target  : [Target -> Content], loose   : SUBSET Target,
              temp    : SUBSET Target,
              journal : [Kind -> Journal],   staging : SUBSET Kind]

Commands == {"write", "replace", "recover"}

Init ==
    /\ \E present \in SUBSET Optional :
          mem = [target  |-> [t \in Target |->
                                 IF t \in Optional \ present THEN Absent ELSE 0],
                 loose   |-> {},
                 temp    |-> {},
                 journal |-> [k \in Kind |-> NoJournal],
                 staging |-> {}]
    /\ disk = mem
    /\ owner = "none"
    /\ op = "write"
    /\ kind = "merge"
    /\ pc = "start"
    /\ tx = NoJournal
    /\ todo = {}
    /\ ops = 0
    /\ before = mem.target
    /\ after = mem.target

Pending(k) == mem.journal[k].state # "none"
NothingPending == \A k \in Kind : ~Pending(k)
At(command, phase) == owner = "live" /\ op = command /\ pc = phase
Goto(phase) == pc' = phase

\* A file gets a content that was fsynced before it got its name.
SetTarget(dir, t, v) == [dir EXCEPT !.target[t] = v, !.loose = @ \ {t}]

\* A file gets a content that was not.
Rename(dir, t, v) == [dir EXCEPT !.target[t] = v, !.loose = @ \cup {t}]
SetJournal(dir, k, j) == [dir EXCEPT !.journal[k] = j]

-----------------------------------------------------------------------------
(* Taking and leaving the writer lock (module WriterLock)                  *)

\* Wrong variant: publication without the directory fsync.
AcquireUnsynced(command, k) ==
    /\ owner = "none"
    /\ owner' = "live"
    /\ op' = command
    /\ kind' = k
    /\ Goto("start")
    /\ tx' = NoJournal
    /\ todo' = {}
    /\ UNCHANGED <<mem, disk, ops, history>>

\* Publishing the lock file fsyncs the directory before the command starts:
\* the names, and not the contents, of what was written before are durable.
Acquire(command, k) ==
    /\ owner = "none"
    /\ owner' = "live"
    /\ disk' = mem
    /\ op' = command
    /\ kind' = k
    /\ Goto("start")
    /\ tx' = NoJournal
    /\ todo' = {}
    /\ UNCHANGED <<mem, ops, history>>

\* The lock file is unlinked, then the directory fsynced: the process may be
\* killed, or the fsync fail, in between.
Release ==
    /\ owner = "live"
    /\ pc = "done"
    /\ owner' = "none"
    /\ disk' \in {disk, mem}
    /\ UNCHANGED <<mem, process, pc, ops, history>>

\* The process is killed.
Crash ==
    /\ owner = "live"
    /\ owner' = "dead"
    /\ UNCHANGED <<dirs, process, pc, ops, history>>

\* `evidence unlock --recover', or an operator removing the file by hand after
\* a reboot; neither looks at the journals.
Unlock ==
    /\ owner = "dead"
    /\ owner' = "none"
    /\ disk' \in {disk, mem}
    /\ UNCHANGED <<mem, process, pc, ops, history>>

Covered(dir) == UNION {dir.journal[k].files : k \in Kind}

\* What is left of a history of the evidence, when a power loss makes a
\* directory of another: files no journal covers are what they are now, and so
\* is a torn file whose journal was lost; of all others nothing was lost.
Left(evidence, now) ==
    [t \in Target |->
        IF \/ t \in Covered(now)
           \/ t \in Covered(mem) \cup Covered(disk) /\ now.target[t] # Torn
        THEN evidence[t] ELSE now.target[t]]

\* Entries changed since the last fsync survive one by one, and of a loose
\* content anything may survive.
LosePower ==
    /\ PowerLoss
    /\ mem # disk \/ mem.loose # {}
    /\ mem' \in [target  : {f \in [Target -> Content] :
                              \A t \in Target :
                                 \/ f[t] \in {mem.target[t], disk.target[t]}
                                 \/ f[t] = Torn /\ t \in mem.loose \cup disk.loose},
                 loose   : {{}},
                 temp    : {s \in SUBSET Target :
                              /\ mem.temp \cap disk.temp \subseteq s
                              /\ s \subseteq mem.temp \cup disk.temp},
                 journal : {f \in [Kind -> {mem.journal[k] : k \in Kind}
                                           \cup {disk.journal[k] : k \in Kind}] :
                              \A k \in Kind : f[k] \in {mem.journal[k], disk.journal[k]}},
                 staging : {s \in SUBSET Kind :
                              /\ mem.staging \cap disk.staging \subseteq s
                              /\ s \subseteq mem.staging \cup disk.staging}]
    /\ disk' = mem'
    /\ owner' = IF owner = "none" THEN "none" ELSE "dead"
    /\ before' = Left(before, mem')
    /\ after' = Left(after, mem')
    /\ UNCHANGED <<process, pc, ops>>

-----------------------------------------------------------------------------
(* Ordinary writers: writeText under the lock                              *)

\* assertProtectedPathReady refuses while a journal is pending, and a recorder
\* that cannot parse what is there writes nothing.  The file is replaced by one
\* rename, of a content that is not fsynced.
Write(t) ==
    /\ At("write", "start")
    /\ NothingPending
    /\ mem.target[t] # Torn
    /\ ops < MaxOps
    /\ ops' = ops + 1
    /\ mem' = Rename(mem, t, ops + 1)
    /\ before' = [before EXCEPT ![t] = ops + 1]
    /\ after' = [after EXCEPT ![t] = ops + 1]
    /\ UNCHANGED <<disk, owner, process, pc>>

\* The command ends, after its writes or refused by the pending journal.
EndWrites ==
    /\ At("write", "start")
    /\ Goto("done")
    /\ UNCHANGED <<dirs, owner, process, ops, history>>

-----------------------------------------------------------------------------
(* applyCandidates and commitQualityRefresh                                *)

\* Merge also refuses leftover staging; a refresh looks at journals only.
Startable(k) == NothingPending /\ (k = "merge" => "merge" \notin mem.staging)

\* The originals are read and the journal is built in memory.  Files absent
\* from base and candidate stay out of it.  A torn file of theirs is refused
\* when it is parsed.  originalBytes of the merge takes
\* any read error for an absent file; the refresh only ENOENT.
Plan(files, unread) ==
    /\ At("replace", "start")
    /\ Startable(kind)
    /\ ops < MaxOps
    /\ {t \in Replaces[kind] : t \notin Optional \/ mem.target[t] # Absent} \subseteq files
    /\ files \subseteq Replaces[kind]
    /\ \A t \in files : mem.target[t] # Torn
    /\ unread # {} => ReadFaults /\ kind = "merge"
    /\ ops' = ops + 1
    /\ tx' = [state  |-> "prepared",
              files  |-> files,
              before |-> [t \in files |-> IF t \in unread THEN Absent ELSE mem.target[t]],
              after  |-> [t \in files |-> ops + 1]]
    /\ before' = mem.target
    /\ after' = [t \in Target |-> IF t \in files THEN ops + 1 ELSE mem.target[t]]
    /\ Goto("planned")
    /\ UNCHANGED <<dirs, owner, op, kind, todo>>

\* Refused by a pending journal, leftover staging or the candidates' validation.
RefuseReplace ==
    /\ At("replace", "start")
    /\ Goto("done")
    /\ UNCHANGED <<dirs, owner, process, ops, history>>

\* writeFile(stagingJournal, flag wx) and fsyncFile.
StageJournal ==
    /\ At("replace", "planned")
    /\ mem' = [mem EXCEPT !.staging = @ \cup {kind}]
    /\ Goto("staged")
    /\ UNCHANGED <<disk, owner, process, ops, history>>

\* link: from here the journal makes every evidence command refuse.
PublishJournal ==
    /\ At("replace", "staged")
    /\ ~Pending(kind)
    /\ mem' = SetJournal(mem, kind, tx)
    /\ Goto("linked")
    /\ UNCHANGED <<disk, owner, process, ops, history>>

UnstageJournal ==
    /\ At("replace", "linked")
    /\ mem' = [mem EXCEPT !.staging = @ \ {kind}]
    /\ Goto("published")
    /\ UNCHANGED <<disk, owner, process, ops, history>>

\* Wrong variant: targets are replaced before the journal is durable.
PublicationUnsynced ==
    /\ At("replace", "published")
    /\ todo' = tx.files
    /\ Goto("writing")
    /\ UNCHANGED <<mem, disk, owner, op, kind, tx, ops, history>>

SyncPublication ==
    /\ At("replace", "published")
    /\ disk' = mem
    /\ todo' = tx.files
    /\ Goto("writing")
    /\ UNCHANGED <<mem, owner, op, kind, tx, ops, history>>

\* Candidate written and fsynced under a transaction-qualified name.
WriteTemporary(t) ==
    /\ At("replace", "writing")
    /\ t \in todo
    /\ mem' = [mem EXCEPT !.temp = @ \cup {t}]
    /\ todo' = todo \ {t}
    /\ UNCHANGED <<disk, owner, op, kind, pc, tx, ops, history>>

TemporariesWritten ==
    /\ At("replace", "writing")
    /\ todo = {}
    /\ todo' = tx.files
    /\ Goto("replacing")
    /\ UNCHANGED <<dirs, owner, op, kind, tx, ops, history>>

\* rename(temporary, target).
Replace(t) ==
    /\ At("replace", "replacing")
    /\ t \in todo
    /\ mem' = [SetTarget(mem, t, tx.after[t]) EXCEPT !.temp = @ \ {t}]
    /\ todo' = todo \ {t}
    /\ UNCHANGED <<disk, owner, op, kind, pc, tx, ops, history>>

SyncTargets ==
    /\ At("replace", "replacing")
    /\ todo = {}
    /\ disk' = mem
    /\ tx' = [tx EXCEPT !.state = "committed"]
    /\ Goto("committing")
    /\ UNCHANGED <<mem, owner, op, kind, todo, ops, history>>

StageCommit ==
    /\ At("replace", "committing")
    /\ mem' = [mem EXCEPT !.staging = @ \cup {kind}]
    /\ Goto("commitStaged")
    /\ UNCHANGED <<disk, owner, process, ops, history>>

\* rename of the commit staging over the journal: the transaction happens.
Commit ==
    /\ At("replace", "commitStaged")
    /\ mem' = [SetJournal(mem, kind, tx) EXCEPT !.staging = @ \ {kind}]
    /\ Goto("committed")
    /\ UNCHANGED <<disk, owner, process, ops, history>>

SyncCommit ==
    /\ At("replace", "committed")
    /\ disk' = mem
    /\ Goto("cleanup")
    /\ UNCHANGED <<mem, owner, process, ops, history>>

\* The journal is removed; no fsync follows.
RemoveJournal ==
    /\ At("replace", "cleanup")
    /\ mem' = SetJournal(mem, kind, NoJournal)
    /\ Goto("done")
    /\ UNCHANGED <<disk, owner, process, ops, history>>

\* Any I/O error: RECOVERY_REQUIRED, with whatever is there left for recovery.
\* A failing link or unlink of the staged journal removes the staging file.
FailReplace ==
    /\ owner = "live" /\ op = "replace"
    /\ pc \notin {"start", "done"}
    /\ Goto("done")
    /\ mem' \in {mem} \cup (IF pc \in {"staged", "linked"}
                           THEN {[mem EXCEPT !.staging = @ \ {kind}]} ELSE {})
    /\ UNCHANGED <<disk, owner, process, ops, history>>

-----------------------------------------------------------------------------
(* recoverEvidenceMergeUnlocked and recoverQualityRefresh                  *)

\* The other kind's journal, alone or beside ours: refused, nothing changed.
RefuseRecovery ==
    /\ At("recover", "start")
    /\ \E k \in Kind : k # kind /\ Pending(k)
    /\ Goto("done")
    /\ UNCHANGED <<dirs, owner, process, ops, history>>

\* No journal at all: unpublished staging files are discarded.
NothingToRecover ==
    /\ At("recover", "start")
    /\ NothingPending
    /\ mem' = [mem EXCEPT !.staging = @ \ {kind}]
    /\ Goto("done")
    /\ UNCHANGED <<disk, owner, process, ops, history>>

\* Wrong variant: every journal is rolled back.
ReadAsPrepared ==
    /\ At("recover", "start")
    /\ Pending(kind)
    /\ \A k \in Kind : k # kind => ~Pending(k)
    /\ tx' = mem.journal[kind]
    /\ todo' = mem.journal[kind].files
    /\ Goto("restoring")
    /\ UNCHANGED <<dirs, owner, op, kind, ops, history>>

\* Wrong variant: only a prepared journal is recovered.
ReadPreparedOnly ==
    /\ At("recover", "start")
    /\ mem.journal[kind].state = "prepared"
    /\ \A k \in Kind : k # kind => ~Pending(k)
    /\ tx' = mem.journal[kind]
    /\ todo' = mem.journal[kind].files
    /\ Goto("restoring")
    /\ UNCHANGED <<dirs, owner, op, kind, ops, history>>

\* A prepared journal is rolled back, a committed one rolled forward.
ReadJournal ==
    /\ At("recover", "start")
    /\ Pending(kind)
    /\ \A k \in Kind : k # kind => ~Pending(k)
    /\ tx' = mem.journal[kind]
    /\ todo' = mem.journal[kind].files
    /\ Goto(IF mem.journal[kind].state = "prepared" THEN "restoring" ELSE "forwarding")
    /\ UNCHANGED <<dirs, owner, op, kind, ops, history>>

\* restoreJournal, one target: original bytes or absence, and its temporary.
RestoreTarget(t) ==
    /\ At("recover", "restoring")
    /\ t \in todo
    /\ mem' = [SetTarget(mem, t, tx.before[t]) EXCEPT !.temp = @ \ {t}]
    /\ todo' = todo \ {t}
    /\ UNCHANGED <<disk, owner, op, kind, pc, tx, ops, history>>

\* Roll forward, one target: rewritten unless it already has the candidate's
\* digest.  Merge rewrites whatever it finds and fsyncs the directory; the
\* refresh stops (UNSAFE) at bytes that are neither original nor candidate.
ForwardTarget(t) ==
    /\ At("recover", "forwarding")
    /\ t \in todo
    /\ LET unsafe == /\ kind = "quality"
                     /\ mem.target[t] \notin {tx.before[t], tx.after[t]}
       IN  /\ mem' = IF unsafe THEN mem ELSE SetTarget(mem, t, tx.after[t])
           /\ disk' = IF kind = "merge" /\ mem' # mem THEN mem' ELSE disk
           /\ todo' = IF unsafe THEN {} ELSE todo \ {t}
           /\ Goto(IF unsafe THEN "done" ELSE pc)
    /\ UNCHANGED <<owner, op, kind, tx, ops, history>>

SyncRecovered ==
    /\ owner = "live" /\ op = "recover"
    /\ pc \in {"restoring", "forwarding"}
    /\ todo = {}
    /\ disk' = mem
    /\ Goto("dropping")
    /\ UNCHANGED <<mem, owner, process, ops, history>>

DropJournal ==
    /\ At("recover", "dropping")
    /\ mem' = SetJournal(mem, kind, NoJournal)
    /\ Goto("sweeping")
    /\ UNCHANGED <<disk, owner, process, ops, history>>

\* Roll back fsyncs and then removes staging; roll forward the other way round.
Sweep ==
    /\ At("recover", "sweeping")
    /\ mem' = [mem EXCEPT !.staging = @ \ {kind}]
    /\ disk' = IF tx.state = "prepared" THEN mem ELSE mem'
    /\ Goto("done")
    /\ UNCHANGED <<owner, process, ops, history>>

\* Any I/O error: the journal stays for the next attempt.
FailRecovery ==
    /\ owner = "live" /\ op = "recover"
    /\ pc \notin {"start", "done"}
    /\ Goto("done")
    /\ UNCHANGED <<dirs, owner, process, ops, history>>

-----------------------------------------------------------------------------
Transact ==
    \/ \E files, unread \in SUBSET Target : Plan(files, unread)
    \/ RefuseReplace \/ StageJournal \/ PublishJournal \/ UnstageJournal
    \/ SyncPublication \/ TemporariesWritten \/ SyncTargets \/ StageCommit
    \/ Commit \/ SyncCommit \/ RemoveJournal
    \/ \E t \in Target : WriteTemporary(t) \/ Replace(t)

Recovery ==
    \/ RefuseRecovery \/ NothingToRecover \/ ReadJournal \/ SyncRecovered
    \/ DropJournal \/ Sweep
    \/ \E t \in Target : RestoreTarget(t) \/ ForwardTarget(t)

Failure == Crash \/ LosePower \/ FailReplace \/ FailRecovery

Next ==
    \/ \E command \in Commands, k \in Kind : Acquire(command, k)
    \/ \E t \in Target : Write(t)
    \/ EndWrites \/ Release \/ Unlock \/ Transact \/ Recovery \/ Failure

Spec == Init /\ [][Next]_vars

\* A command runs until it is killed, an operator keeps unlocking and running
\* both recoveries, and at some point kills, power losses and I/O errors stop.
Fairness ==
    /\ WF_vars(Transact) /\ WF_vars(Recovery) /\ WF_vars(EndWrites)
    /\ WF_vars(Release) /\ WF_vars(Unlock)
    /\ \A k \in Kind : SF_vars(Acquire("recover", k))
    /\ <>[][~Failure]_vars

FairSpec == Spec /\ Fairness

-----------------------------------------------------------------------------
Phases == {"start", "planned", "staged", "linked", "published", "writing",
           "replacing", "committing", "commitStaged", "committed", "cleanup",
           "restoring", "forwarding", "dropping", "sweeping", "done"}
TypeOK ==
    /\ mem \in Directory /\ disk \in Directory
    /\ owner \in {"none", "live", "dead"}
    /\ op \in Commands
    /\ kind \in Kind
    /\ pc \in Phases
    /\ tx \in Journal
    /\ todo \subseteq Target
    /\ ops \in 0..MaxOps
    /\ before \in [Target -> Content]
    /\ after \in [Target -> Content]

\* Whenever no journal is pending, which is when readers and writers are let
\* in, the evidence is the whole set before the last transaction or the whole
\* set after it (REQ-EVIDENCE-HISTORY-MERGE-004), after any kills and power
\* losses: never a mixture.  A file torn by a power loss when no journal kept
\* its content is counted as torn before and after; every file of the
\* transaction that a journal covered is there.
AllOrNothing == NothingPending => mem.target \in {before, after}

\* The evidence a pending journal stands for: its originals while prepared,
\* its candidates once committed.
View(d) == [t \in Target |->
    IF \E k \in Kind : t \in d.journal[k].files
    THEN LET j == d.journal[CHOOSE k \in Kind : t \in d.journal[k].files]
         IN  IF j.state = "prepared" THEN j.before[t] ELSE j.after[t]
    ELSE d.target[t]]

\* A whole transaction is one step of the abstract store, the rename of the
\* commit marker, whatever is killed; recoveries are no step of it at all.
LooseOf(d) == d.loose \ Covered(d)
Store == INSTANCE EvidenceStore WITH view <- View(mem), durable <- View(disk),
                                     loose <- LooseOf(mem) \cup LooseOf(disk)
ImplementsStore == Store!Spec

\* A step of a recovery rewrites only a file that still has the journal's
\* original or candidate, or was torn while the journal covered it: a committed
\* journal that comes back after a power loss never overwrites evidence
\* recorded since.
RecoverySparesLaterEvidence ==
    [][\A t \in Target :
         op = "recover" /\ owner = "live" /\ owner' = "live"
                        /\ mem'.target[t] # mem.target[t]
         => \/ mem.target[t] \in {tx.before[t], tx.after[t]}
            \/ mem.target[t] = Torn /\ tx.state = "prepared"]_vars

\* Recovery is idempotent and restartable: a pending journal is resolved
\* although recoveries are killed and fail, if the operator repeats them.
JournalResolved == \A k \in Kind : Pending(k) ~> ~Pending(k)
=============================================================================
