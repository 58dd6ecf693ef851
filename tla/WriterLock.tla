---------------------------- MODULE WriterLock ----------------------------
(***************************************************************************)
(* The project-wide evidence-writer lock of                                *)
(* packages/analysis/src/evidence-writer-lock.ts: one file,                *)
(* .musubix/evidence/.writer-lock.json, shared by every musubix3 process.  *)
(*                                                                         *)
(* A Command is one writer command in a process of its own: its            *)
(* transaction id, its staging file and the inode of that file are one     *)
(* name, because linkSync publishes the staging file itself.  A Recoverer  *)
(* is a process that runs `evidence unlock --recover', any number of       *)
(* times.  One action is one system call on the shared directory (with     *)
(* the local computation up to the next one), so that every interleaving   *)
(* of the processes' system calls is a behaviour.                          *)
(*                                                                         *)
(* The three nested directories the lock may create (root, .musubix,       *)
(* evidence) are one directory here.  Host, boot and namespace             *)
(* fingerprints are abstracted to whether recovery's probes are            *)
(* conclusive.                                                             *)
(***************************************************************************)
EXTENDS Naturals, FiniteSets

CONSTANTS
    Command,         \* writer commands, each with its own transaction id
    Former,          \* those killed before: they may have left files behind
    Recoverer,       \* processes that run `evidence unlock --recover'
    None,            \* "no lock file" / "no observation"
    SerialRecovery,  \* TRUE when the operators run one recovery at a time
    Faults           \* TRUE when file-system calls, probes and recoverers may fail

ASSUME NoneAssumption == None \notin Command
ASSUME FormerAssumption == Former \subseteq Command
ASSUME FlagAssumption == SerialRecovery \in BOOLEAN /\ Faults \in BOOLEAN

VARIABLES
    lock,       \* transaction named by the canonical lock file, None if absent
    staging,    \* transactions whose staging file is in the directory
    dir,        \* whether the evidence directory exists
    content,    \* whether the directory holds evidence files
    alive,      \* alive[c]: the process of c exists
    pc,         \* pc[c]: where c stands in acquire, operation and release
    created,    \* created[c]: c saw no directory, so c may remove it again
    identity,   \* identity[c]: file c took for its own lock after publishing
    rpc,        \* rpc[r]: where r stands in recoverEvidenceWriterLock
    seen,       \* seen[r]: transaction r observed first
    overlapped  \* history: pairs of commands that ran at the same time

commandVars == <<pc, created, identity, overlapped>>
files == <<lock, staging, dir, content>>
recoveryVars == <<rpc, seen>>
vars == <<lock, staging, dir, content, alive, pc, created, identity, rpc, seen,
          overlapped>>

Finished == {"refused", "released", "releaseFailed"}
Phase == {"idle", "probed", "made", "staged", "published", "synced",
          "withdraw", "withdrawing", "withdrawn", "identified", "rejected",
          "emptied", "running", "releasing", "verified", "unlinked",
          "tidying"} \cup Finished
RecoveryPhase == {"idle", "observed", "dead", "verified", "unlinked"}

Init ==
    /\ lock \in Former \cup {None}
    /\ staging \in SUBSET Former
    /\ dir \in BOOLEAN
    /\ content \in BOOLEAN
    /\ content \/ lock # None \/ staging # {} => dir
    /\ alive = [c \in Command |-> c \notin Former]
    /\ pc = [c \in Command |-> IF c \in Former THEN "published" ELSE "idle"]
    /\ created = [c \in Command |-> FALSE]
    /\ identity = [c \in Command |-> None]
    /\ rpc = [r \in Recoverer |-> "idle"]
    /\ seen = [r \in Recoverer |-> None]
    /\ overlapped = {}

At(c, phase) == alive[c] /\ pc[c] = phase
Goto(c, phase) == pc' = [pc EXCEPT ![c] = phase]

-----------------------------------------------------------------------------
(* acquireEvidenceWriterLock                                               *)

\* existsSync of the directories, and the fresh transaction id.
Probe(c) ==
    /\ At(c, "idle")
    /\ created' = [created EXCEPT ![c] = ~dir]
    /\ Goto(c, "probed")
    /\ UNCHANGED <<files, alive, identity, overlapped, recoveryVars>>

\* mkdirSync(directory, { recursive: true }).
MakeDirectory(c) ==
    /\ At(c, "probed")
    /\ dir' = TRUE
    /\ Goto(c, "made")
    /\ UNCHANGED <<lock, staging, content, alive, created, identity, overlapped,
                   recoveryVars>>

\* Wrong variant: the vanished directory is not reported, and nothing follows.
StageIntoDirectory(c) ==
    /\ At(c, "made")
    /\ dir
    /\ staging' = staging \cup {c}
    /\ Goto(c, "staged")
    /\ UNCHANGED <<lock, dir, content, alive, created, identity, overlapped,
                   recoveryVars>>

\* openSync(stagingPath, 'wx'), write and fsync.  The directory may be gone
\* again: a command that created it removes it when it looks empty.
Stage(c) ==
    /\ At(c, "made")
    /\ \/ /\ dir
          /\ staging' = staging \cup {c}
          /\ \/ Goto(c, "staged")
             \/ Faults /\ Goto(c, "rejected")
       \/ /\ ~dir
          /\ Goto(c, "rejected")
          /\ UNCHANGED staging
    /\ UNCHANGED <<lock, dir, content, alive, created, identity, overlapped,
                   recoveryVars>>

\* linkSync(stagingPath, lockPath) refuses to replace: EEXIST is contention.
Publish(c) ==
    /\ At(c, "staged")
    /\ \/ /\ lock = None
          /\ lock' = c
          /\ Goto(c, "published")
       \/ /\ lock # None
          /\ Goto(c, "rejected")
          /\ UNCHANGED lock
    /\ UNCHANGED <<staging, dir, content, alive, created, identity, overlapped,
                   recoveryVars>>

\* syncDirectorySync after publication.
SyncPublished(c) ==
    /\ At(c, "published")
    /\ \/ Goto(c, "synced")
       \/ Faults /\ Goto(c, "withdraw")
    /\ UNCHANGED <<files, alive, created, identity, overlapped, recoveryVars>>

\* lstat of the lock path: whatever file is there now becomes the identity.
Identify(c) ==
    /\ At(c, "synced")
    /\ \/ /\ lock # None
          /\ identity' = [identity EXCEPT ![c] = lock]
          /\ Goto(c, "identified")
       \/ /\ lock = None \/ Faults
          /\ Goto(c, "withdraw")
          /\ UNCHANGED identity
    /\ UNCHANGED <<files, alive, created, overlapped, recoveryVars>>

\* removeOwnPublishedLock reads the owner first ...
WithdrawRead(c) ==
    /\ At(c, "withdraw")
    /\ Goto(c, IF lock = c THEN "withdrawing" ELSE "withdrawn")
    /\ UNCHANGED <<files, alive, created, identity, overlapped, recoveryVars>>

\* ... and unlinks the path in a second call (ENOENT is ignored).
WithdrawUnlink(c) ==
    /\ At(c, "withdrawing")
    /\ lock' = None
    /\ Goto(c, "withdrawn")
    /\ UNCHANGED <<staging, dir, content, alive, created, identity, overlapped,
                   recoveryVars>>

\* The finally block unlinks the staging file.  A command that published
\* and identified its lock starts its operation; one that withdrew is done;
\* one that never published (EVIDENCE_WRITER_LOCKED, or a failure before the
\* link) still has the directory to remove.
Unstage(c) ==
    /\ staging' = staging \ {c}
    /\ \/ /\ At(c, "identified")
          /\ Goto(c, "running")
          /\ LET others == {d \in Command : At(d, "running")}
             IN  overlapped' = overlapped \cup ({c} \X others) \cup (others \X {c})
       \/ At(c, "withdrawn") /\ Goto(c, "refused") /\ UNCHANGED overlapped
       \/ At(c, "rejected") /\ Goto(c, "emptied") /\ UNCHANGED overlapped
    /\ UNCHANGED <<lock, dir, content, alive, created, identity, recoveryVars>>

\* removeCreatedDirectoryIfEmpty: rmdir refuses a directory with any file in
\* it, and that refusal is ignored.
RemoveDirectory(c) ==
    /\ \/ At(c, "emptied") /\ Goto(c, "refused")
       \/ At(c, "tidying") /\ Goto(c, "released")
    /\ dir' = (dir /\ ~(created[c] /\ lock = None /\ staging = {} /\ ~content))
    /\ UNCHANGED <<lock, staging, content, alive, created, identity, overlapped,
                   recoveryVars>>

-----------------------------------------------------------------------------
(* The operation, and EvidenceWriterLease.release                          *)

\* The operation ends, having written evidence files or not, and having
\* succeeded or thrown: useContextLease releases in either case.
Finish(c) ==
    /\ At(c, "running")
    /\ Goto(c, "releasing")
    /\ content' \in {content, TRUE}
    /\ dir' = (dir \/ content')
    /\ UNCHANGED <<lock, staging, alive, created, identity, overlapped,
                   recoveryVars>>

\* observeLock: one open file yields owner and inode; transaction id and
\* recorded identity must both match.
ObserveOwn(c) ==
    /\ At(c, "releasing")
    /\ Goto(c, IF lock = c /\ identity[c] = lock THEN "verified" ELSE "releaseFailed")
    /\ UNCHANGED <<files, alive, created, identity, overlapped, recoveryVars>>

\* unlink goes by path: it removes whatever is there, or fails with ENOENT.
UnlinkOwn(c) ==
    /\ At(c, "verified")
    /\ \/ lock # None /\ lock' = None /\ Goto(c, "unlinked")
       \/ (lock = None \/ Faults) /\ UNCHANGED lock /\ Goto(c, "releaseFailed")
    /\ UNCHANGED <<staging, dir, content, alive, created, identity, overlapped,
                   recoveryVars>>

\* syncDirectory after the unlink; its failure is EVIDENCE_WRITER_LOCK_RELEASE_FAILED.
SyncReleased(c) ==
    /\ At(c, "unlinked")
    /\ \/ Goto(c, "tidying")
       \/ Faults /\ Goto(c, "releaseFailed")
    /\ UNCHANGED <<files, alive, created, identity, overlapped, recoveryVars>>

\* The process ends: after its command, or by an abrupt kill at any point.
Stop(c) ==
    /\ alive[c]
    /\ alive' = [alive EXCEPT ![c] = FALSE]
    /\ UNCHANGED <<files, pc, created, identity, overlapped, recoveryVars>>

-----------------------------------------------------------------------------
(* recoverEvidenceWriterLock                                               *)

RGoto(r, phase) == rpc' = [rpc EXCEPT ![r] = phase] /\ UNCHANGED seen

\* Every outcome, a report or a refusal, forgets what was observed.
Return(r) ==
    /\ rpc' = [rpc EXCEPT ![r] = "idle"]
    /\ seen' = [seen EXCEPT ![r] = None]

\* First observation; without a lock file there is nothing to recover.
Observe(r) ==
    /\ rpc[r] = "idle"
    /\ SerialRecovery => \A other \in Recoverer : rpc[other] = "idle"
    /\ lock # None
    /\ seen' = [seen EXCEPT ![r] = lock]
    /\ rpc' = [rpc EXCEPT ![r] = "observed"]
    /\ UNCHANGED <<files, alive, commandVars>>

\* Wrong variant: an owner whose liveness was not settled counts as dead.
PresumeDead(r) ==
    /\ rpc[r] = "observed"
    /\ RGoto(r, "dead")
    /\ UNCHANGED <<files, alive, commandVars>>

\* Host, root, fingerprint and liveness probes of the observed owner.
CheckOwner(r) ==
    /\ rpc[r] = "observed"
    /\ \/ ~alive[seen[r]] /\ RGoto(r, "dead")
       \/ (alive[seen[r]] \/ Faults) /\ Return(r)
    /\ UNCHANGED <<files, alive, commandVars>>

\* Wrong variant: the comparison is inverted.
RevalidateInverted(r) ==
    /\ rpc[r] = "dead"
    /\ IF lock # seen[r] THEN RGoto(r, "verified") ELSE Return(r)
    /\ UNCHANGED <<files, alive, commandVars>>

\* Second observation: the same transaction and inode, or refuse.
Revalidate(r) ==
    /\ rpc[r] = "dead"
    /\ IF lock = seen[r] THEN RGoto(r, "verified") ELSE Return(r)
    /\ UNCHANGED <<files, alive, commandVars>>

\* unlink goes by path here too; ENOENT is EVIDENCE_WRITER_LOCK_RECOVERY_UNSAFE.
RemoveDead(r) ==
    /\ rpc[r] = "verified"
    /\ lock' = None
    /\ IF lock # None THEN RGoto(r, "unlinked") ELSE Return(r)
    /\ UNCHANGED <<staging, dir, content, alive, commandVars>>

\* The strict directory sync, and the report.
ReportRecovered(r) ==
    /\ rpc[r] = "unlinked"
    /\ Return(r)
    /\ UNCHANGED <<files, alive, commandVars>>

\* A recoverer that fails or is killed; the next invocation starts afresh.
AbandonRecovery(r) ==
    /\ Faults
    /\ rpc[r] # "idle"
    /\ Return(r)
    /\ UNCHANGED <<files, alive, commandVars>>

-----------------------------------------------------------------------------
Acquire(c) ==
    \/ Probe(c) \/ MakeDirectory(c) \/ Stage(c) \/ Publish(c)
    \/ SyncPublished(c) \/ Identify(c) \/ WithdrawRead(c) \/ WithdrawUnlink(c)
    \/ Unstage(c) \/ RemoveDirectory(c)

Release(c) == Finish(c) \/ ObserveOwn(c) \/ UnlinkOwn(c) \/ SyncReleased(c)

Recover(r) ==
    \/ Observe(r) \/ CheckOwner(r) \/ Revalidate(r) \/ RemoveDead(r)
    \/ ReportRecovered(r)

Next ==
    \/ \E c \in Command : Acquire(c) \/ Release(c) \/ Stop(c)
    \/ \E r \in Recoverer : Recover(r) \/ AbandonRecovery(r)

Spec == Init /\ [][Next]_vars

\* A process that is not killed keeps executing its command (nothing in
\* acquire or release waits), and an operator keeps running the recovery.
\* Probes may be inconclusive and recoveries fail, but not every time: what
\* is tried again and again succeeds once.
FairSpec ==
    /\ Spec
    /\ \A c \in Command : WF_vars(Acquire(c) \/ Release(c))
    /\ \A r \in Recoverer :
          /\ WF_vars(Recover(r))
          /\ SF_vars(CheckOwner(r) /\ rpc'[r] = "dead")
          /\ SF_vars(Revalidate(r))
          /\ SF_vars(RemoveDead(r))

-----------------------------------------------------------------------------
TypeOK ==
    /\ lock \in Command \cup {None}
    /\ staging \subseteq Command
    /\ dir \in BOOLEAN
    /\ content \in BOOLEAN
    /\ alive \in [Command -> BOOLEAN]
    /\ pc \in [Command -> Phase]
    /\ created \in [Command -> BOOLEAN]
    /\ identity \in [Command -> Command \cup {None}]
    /\ rpc \in [Recoverer -> RecoveryPhase]
    /\ seen \in [Recoverer -> Command \cup {None}]
    /\ overlapped \subseteq Command \X Command

Running(c) == At(c, "running")

\* Two live commands are never inside their operations together.  It rests on
\* linkSync's refusal to replace, on release checking the owner, and on
\* recovery removing only a dead command's file.
MutualExclusion ==
    \A c, d \in Command : Running(c) /\ Running(d) => c = d

\* From its publication to its release a live command's lock file stays in
\* place: "Live ... owners are refused without mutation" (README.md:410).
Holding == {"published", "synced", "identified", "withdraw", "withdrawing",
            "running", "releasing", "verified"}
LiveOwnerKeepsLock ==
    \A c \in Command : alive[c] /\ pc[c] \in Holding => lock = c

\* "The system shall remove only a conclusively identified evidence-writer
\* lock" (REQ-EVIDENCE-WRITER-LOCK-004): whatever step removes the lock file,
\* the file belongs to a process that is gone or to the command that removes it.
RemovesOnly(c) ==
    ~alive[c] \/ (pc[c] \in {"withdrawing", "verified"} /\ pc'[c] # pc[c])
ConclusiveRemoval ==
    [][lock # None /\ lock' # lock => RemovesOnly(lock)]_vars

\* With serial recovery the lock file is an exclusive lock: the processes'
\* system calls implement the abstract holder, entries and departures.
Abstract == INSTANCE ExclusiveLock WITH
    holder <- lock, working <- {c \in Command : Running(c)}
ImplementsExclusiveLock == Abstract!Spec

\* Exclusion can be lost to two concurrent recoveries, but never silently:
\* of two commands whose operations overlapped, at most one reports success.
\* The other finds its lock file gone or replaced when it releases.
OverlapDetected ==
    \A c, d \in Command :
        <<c, d>> \in overlapped => ~(pc[c] = "released" /\ pc[d] = "released")

\* Every command that is not killed ends: nothing waits for the lock.
CommandsTerminate ==
    \A c \in Command : <>(pc[c] \in Finished \/ ~alive[c])

\* A lock file left by a dead process does not stay for ever when recovery
\* is run and its probes are conclusive.
AbandonedLockCleared ==
    \A c \in Command : [](lock = c /\ ~alive[c] => <>(lock # c))
=============================================================================
