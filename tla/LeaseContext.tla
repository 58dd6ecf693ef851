--------------------------- MODULE LeaseContext ---------------------------
(***************************************************************************)
(* How the asynchronous tasks of a process share one evidence-writer lock: *)
(* withEvidenceWriterLock, useContextLease and the ownership guards of     *)
(* packages/analysis/src/evidence-writer-lock.ts.                          *)
(*                                                                         *)
(* A Task is one call of withEvidenceWriterLock with its operation.  A     *)
(* task without a parent creates an owner context (a command); the others  *)
(* are called from the operation of their parent, nested to any depth, and *)
(* find its context: a release approval of the command line locks, and so  *)
(* do recordApproval, runGate and buildTrace, each called by the one       *)
(* before.                                                                 *)
(* Tasks of different contexts are unrelated contenders, in one process or *)
(* in several: only the order of continuations within one process matters, *)
(* and each context keeps its own.                                         *)
(*                                                                         *)
(* The lock file is the one of WriterLock, taken and given up in one step. *)
(* Publication (linkSync) happens inside the call, before its first await. *)
(* A context has one lease state per call that found its map entry empty,  *)
(* named here by that task.  Continuations after an await run in the order *)
(* they were queued, as the event loop runs them.                          *)
(***************************************************************************)
EXTENDS Naturals, Sequences, FiniteSets

CONSTANTS
    Task,     \* calls of withEvidenceWriterLock, each made at most once
    Parent,   \* Parent[t]: the task whose operation calls t, None for a command
    Context,  \* Context[t]: the command in whose owner context t runs
    None

ASSUME NoneAssumption == None \notin Task
ASSUME TaskAssumption == IsFiniteSet(Task)
Commands == {t \in Task : Parent[t] = None}

ASSUME ParentAssumption ==
    /\ Parent \in [Task -> Task \cup {None}]
    /\ Context \in [Task -> Commands]
    /\ \A t \in Task :
         Context[t] = IF Parent[t] = None THEN t ELSE Context[Parent[t]]

VARIABLES
    lock,     \* lease state that published the lock file, None if absent
    entry,    \* entry[c]: the context's map entry for the root
    acq,      \* acq[s]: state of the acquisition promise and of the release
    refs,     \* refs[s]: the lease state's reference count
    lease,    \* lease[t]: the lease state task t uses
    pc,       \* where a task stands
    outcome,  \* how its operation or its acquisition ended
    waiting,  \* waiting[s]: tasks awaiting the acquisition, in order
    jobs,     \* jobs[c]: continuations queued, in order
    writing   \* tasks between the ownership check of a write and the write

leaseVars == <<lock, entry, acq, refs, lease, pc, outcome, waiting, jobs,
               writing>>

LeaseTypeOK ==
    /\ lock \in Task \cup {None}
    /\ entry \in [Commands -> Task \cup {None}]
    /\ acq \in [Task -> {"none", "published", "contended", "held", "failed",
                         "releasing", "unlinked", "released", "stuck"}]
    /\ refs \in [Task -> 0 .. Cardinality(Task)]
    /\ lease \in [Task -> Task \cup {None}]
    /\ pc \in [Task -> {"idle", "awaiting", "working", "resolved",
                        "releasing", "done"}]
    /\ outcome \in [Task -> {"none", "ok", "failed", "refused"}]
    /\ waiting \in [Task -> Seq(Task)]
    /\ jobs \in [Commands -> Seq(Task)]
    /\ writing \subseteq Task

LeaseInit ==
    /\ lock = None
    /\ entry = [c \in Commands |-> None]
    /\ acq = [t \in Task |-> "none"]
    /\ refs = [t \in Task |-> 0]
    /\ lease = [t \in Task |-> None]
    /\ pc = [t \in Task |-> "idle"]
    /\ outcome = [t \in Task |-> "none"]
    /\ waiting = [t \in Task |-> <<>>]
    /\ jobs = [c \in Commands |-> <<>>]
    /\ writing = {}

Settled(s) == acq[s] \notin {"none", "published", "contended"}

\* activeLease: the context's entry, when somebody counts on it.
ActiveLease(c) == entry[c] # None /\ refs[entry[c]] > 0

-----------------------------------------------------------------------------
(* useContextLease                                                         *)

\* Wrong variant: a nested call acquires a lock of its own.
EnterNewAlways(t) ==
    /\ entry' = [entry EXCEPT ![Context[t]] = t]
    /\ IF lock = None
       THEN lock' = t /\ acq' = [acq EXCEPT ![t] = "published"]
       ELSE UNCHANGED lock /\ acq' = [acq EXCEPT ![t] = "contended"]
    /\ lease' = [lease EXCEPT ![t] = t]
    /\ waiting' = [waiting EXCEPT ![t] = <<t>>]
    /\ UNCHANGED jobs

\* The context has no entry: a new state, whose acquisition publishes the
\* lock file or finds it there, and waits for what it still has to read.
EnterNew(t) ==
    /\ entry[Context[t]] = None
    /\ entry' = [entry EXCEPT ![Context[t]] = t]
    /\ IF lock = None
       THEN lock' = t /\ acq' = [acq EXCEPT ![t] = "published"]
       ELSE UNCHANGED lock /\ acq' = [acq EXCEPT ![t] = "contended"]
    /\ lease' = [lease EXCEPT ![t] = t]
    /\ waiting' = [waiting EXCEPT ![t] = <<t>>]
    /\ UNCHANGED jobs

\* The context has one: await its acquisition, settled or not.
EnterShared(t) ==
    LET s == entry[Context[t]] IN
    /\ s # None
    /\ lease' = [lease EXCEPT ![t] = s]
    /\ IF Settled(s)
       THEN /\ jobs' = [jobs EXCEPT ![Context[t]] = Append(@, t)]
            /\ UNCHANGED waiting
       ELSE /\ waiting' = [waiting EXCEPT ![s] = Append(@, t)]
            /\ UNCHANGED jobs
    /\ UNCHANGED <<lock, entry, acq>>

\* withEvidenceWriterLock: a command at any time, a nested call while the
\* operation of its parent runs.
Enter(t) ==
    /\ pc[t] = "idle"
    /\ Parent[t] # None => pc[Parent[t]] = "working"
    /\ EnterNew(t) \/ EnterShared(t)
    /\ pc' = [pc EXCEPT ![t] = "awaiting"]
    /\ UNCHANGED <<refs, outcome, writing>>

\* Wrong variant: EEXIST counts as success.
SettleOverExisting(s) ==
    /\ acq[s] \in {"published", "contended"}
    /\ acq' = [acq EXCEPT ![s] = "held"]
    /\ jobs' = [jobs EXCEPT ![Context[s]] = @ \o waiting[s]]
    /\ waiting' = [waiting EXCEPT ![s] = <<>>]
    /\ UNCHANGED <<lock, entry, refs, lease, pc, outcome, writing>>

\* The acquisition promise of s settles, and queues those who await it.
\* After a publication it may still fail, and withdraws the lock file unless
\* that fails too.
Settle(s) ==
    /\ acq[s] \in {"published", "contended"}
    /\ \/ /\ acq[s] = "published"
          /\ acq' = [acq EXCEPT ![s] = "held"]
          /\ UNCHANGED lock
       \/ /\ acq' = [acq EXCEPT ![s] = "failed"]
          /\ lock' \in IF lock = s THEN {None, s} ELSE {lock}
    /\ jobs' = [jobs EXCEPT ![Context[s]] = @ \o waiting[s]]
    /\ waiting' = [waiting EXCEPT ![s] = <<>>]
    /\ UNCHANGED <<entry, refs, lease, pc, outcome, writing>>

\* After the await: count the reference and run the operation.
Join(t) ==
    LET s == lease[t] IN
    /\ acq[s] # "failed"
    /\ refs' = [refs EXCEPT ![s] = @ + 1]
    /\ pc' = [pc EXCEPT ![t] = "working"]
    /\ UNCHANGED <<entry, acq, outcome>>

\* After the await of a rejected acquisition: forget the state, and throw.
Refuse(t) ==
    LET s == lease[t] IN
    /\ acq[s] = "failed"
    /\ entry' = [entry EXCEPT ![Context[t]] = IF @ = s THEN None ELSE @]
    /\ pc' = [pc EXCEPT ![t] = "done"]
    /\ outcome' = [outcome EXCEPT ![t] = "refused"]
    /\ UNCHANGED <<refs, acq>>

\* Wrong variant: whoever leaves releases, whoever else still works.
LeaveReleasingAlways(t) ==
    LET s == lease[t]
        remaining == refs[s] - 1
        last == entry[Context[t]] = s
    IN
    /\ refs' = [refs EXCEPT ![s] = remaining]
    /\ entry' = [entry EXCEPT ![Context[t]] = IF last THEN None ELSE @]
    /\ acq' = [acq EXCEPT ![s] = IF last THEN "releasing" ELSE @]
    /\ pc' = [pc EXCEPT ![t] = IF last THEN "releasing" ELSE "done"]
    /\ UNCHANGED outcome

\* The finally block: the last reference forgets the state and releases it.
Leave(t) ==
    LET s == lease[t]
        remaining == refs[s] - 1
        last == remaining = 0 /\ entry[Context[t]] = s
    IN
    /\ refs' = [refs EXCEPT ![s] = remaining]
    /\ entry' = [entry EXCEPT ![Context[t]] = IF last THEN None ELSE @]
    /\ acq' = [acq EXCEPT ![s] = IF last THEN "releasing" ELSE @]
    /\ pc' = [pc EXCEPT ![t] = IF last THEN "releasing" ELSE "done"]
    /\ UNCHANGED outcome

\* The event loop runs the continuation queued first.
Continue(c) ==
    /\ jobs[c] # <<>>
    /\ LET t == Head(jobs[c]) IN
       \/ pc[t] = "awaiting" /\ (Join(t) \/ Refuse(t))
       \/ pc[t] = "resolved" /\ Leave(t)
    /\ jobs' = [jobs EXCEPT ![c] = Tail(@)]
    /\ UNCHANGED <<lock, lease, waiting, writing>>

\* release: the lock file is read again and unlinked, or the release fails
\* before or after that.
Unlink(s) ==
    /\ acq[s] = "releasing"
    /\ \/ /\ lock = s
          /\ lock' = None
          /\ acq' = [acq EXCEPT ![s] = "unlinked"]
       \/ /\ acq' = [acq EXCEPT ![s] = "stuck"]
          /\ lock' \in {lock, None}
    /\ UNCHANGED <<entry, refs, lease, pc, outcome, waiting, jobs, writing>>

\* The release returns to the task that called it.  A release error fails the
\* task; the error of a failed operation stays the primary one.
Return(t) ==
    LET s == lease[t] IN
    /\ pc[t] = "releasing"
    /\ acq[s] \in {"unlinked", "stuck"}
    /\ pc' = [pc EXCEPT ![t] = "done"]
    /\ outcome' = [outcome EXCEPT ![t] =
                     IF acq[s] = "stuck" THEN "failed" ELSE @]
    /\ acq' = [acq EXCEPT ![s] = IF @ = "unlinked" THEN "released" ELSE @]
    /\ UNCHANGED <<lock, entry, refs, lease, waiting, jobs, writing>>

-----------------------------------------------------------------------------
(* The operation of a task                                                 *)

\* assertProtectedPathReady for a write: without an active lease the task
\* would get EVIDENCE_WRITER_CONTEXT_LOST.
CheckWrite(t) ==
    /\ pc[t] = "working"
    /\ t \notin writing
    /\ ActiveLease(Context[t])
    /\ writing' = writing \cup {t}
    /\ UNCHANGED <<lock, entry, acq, refs, lease, pc, outcome, waiting, jobs>>

\* The rename of writeTextOwned.
Write(t) ==
    /\ t \in writing
    /\ writing' = writing \ {t}
    /\ UNCHANGED <<lock, entry, acq, refs, lease, pc, outcome, waiting, jobs>>

\* The operation's promise settles.  It resolves when the nested calls it
\* made are over, and rejects as soon as one of them or its own work fails,
\* as Promise.all does: other nested calls may still be running.  Writes are
\* awaited one by one.
Resolve(t) ==
    /\ pc[t] = "working"
    /\ t \notin writing
    /\ \/ /\ \A n \in Task : Parent[n] = t => pc[n] \in {"idle", "done"}
          /\ \A n \in Task : Parent[n] = t => outcome[n] \in {"none", "ok"}
          /\ outcome' = [outcome EXCEPT ![t] = "ok"]
       \/ outcome' = [outcome EXCEPT ![t] = "failed"]
    /\ pc' = [pc EXCEPT ![t] = "resolved"]
    /\ jobs' = [jobs EXCEPT ![Context[t]] = Append(@, t)]
    /\ UNCHANGED <<lock, entry, acq, refs, lease, waiting, writing>>

-----------------------------------------------------------------------------
(* Properties                                                              *)

\* A task inside its operation works under the lock: the file is the one its
\* lease state published, the context still finds that state, and nobody is
\* releasing it, whatever siblings end, fail or arrive in between.
WorkUnderLease ==
    \A t \in Task : pc[t] \in {"working", "resolved"} =>
        /\ lock = lease[t]
        /\ acq[lease[t]] = "held"
        /\ entry[Context[t]] = lease[t]
        /\ refs[lease[t]] > 0

\* A nested call is never refused, however deep: its parent holds the lock it
\* joins, even when the parent, or a task above it, fails and ends while the
\* call still waits for its turn.
NestedNeverRefused ==
    \A t \in Task : Parent[t] # None => outcome[t] # "refused"

\* What the lock promises to commands (see ExclusiveLock): the holder is the
\* context whose lease published the file, and a context works while one of
\* its tasks does.
Lock == INSTANCE ExclusiveLock WITH
    Command <- Commands,
    holder <- IF lock = None THEN None ELSE Context[lock],
    working <- {Context[t] : t \in {u \in Task :
                                      pc[u] \in {"working", "resolved"}}},
    alive <- [c \in Commands |-> TRUE]
=============================================================================
