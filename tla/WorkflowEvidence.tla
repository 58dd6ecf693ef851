------------------------- MODULE WorkflowEvidence -------------------------
(***************************************************************************)
(* Workflow declarations and their reconciliation with the transcripts of  *)
(* agent sessions (workflow.ts), and the waivers of what cannot be         *)
(* reconciled (workflow-waiver.ts).                                        *)
(*                                                                         *)
(* Sessions write their transcripts while commands run, so a transcript    *)
(* may be cut off anywhere when it is read.  Commands hold the writer lock *)
(* and write one file each.                                                *)
(* Phases of declarations are left out: a skill stands for both.           *)
(***************************************************************************)
EXTENDS WorkflowTranscript, FiniteSets, FiniteSetsExt, SequencesExt

CONSTANTS
    Sessions,     \* agent sessions in the order they began, each with its transcript
    FileSets,     \* the sets of sessions whose transcripts are verified together
    Modes,        \* verification modes the project is configured with
    MaxTime,      \* bound: events of all sessions, where nothing is declared,
    MaxTimeDeclared, \* where declarations are recorded and verified,
    MaxTimeWaived,   \* and where waivers are recorded
    MaxDeclared,  \* bound: declarations
    MaxWaivers,   \* bound: waiver records
    None          \* absent

ASSUME WorkflowBoundAssumption ==
    {MaxTime, MaxTimeDeclared, MaxTimeWaived, MaxDeclared, MaxWaivers} \subseteq Nat
ASSUME NoneIsNoCode ==
    None \notin {"incomplete", "failed", "reused", "order", "not invoked"}

Session == {Sessions[n] : n \in DOMAIN Sessions}

ASSUME SessionsAssumption == Sessions \in Seq(Session)

VARIABLES
    now,          \* time: of the last event
    transcript,   \* [Session -> sequence of events]
    events,       \* workflow.json: declarations [skill, recordedAt]
    verification, \* workflow.json: what was verified, or None
    waivers       \* workflow-waivers.json

vars == <<now, transcript, events, verification, waivers>>

Init ==
    /\ now = Len(Sessions)
    /\ transcript = [s \in Session |-> <<Begun(s, CHOOSE n \in DOMAIN Sessions : Sessions[n] = s)>>]
    /\ events = <<>>
    /\ verification = None
    /\ waivers = <<>>

-----------------------------------------------------------------------------
(* The sessions                                                            *)

LastType(s) == transcript[s][Len(transcript[s])].type
Running(s) == LastType(s) \notin {"session.shutdown", "result"}

\* Bound: beside declarations only sessions without these are explored.
Plain(event) ==
    /\ event.type # "session.resume"
    /\ event.type = "start" => event.skill # OtherTool
    /\ event.type = "result" => event.exitCode = 0

Write(s, event) ==
    /\ now < MaxTime
    /\ events # <<>> => now < MaxTimeDeclared /\ Plain(event)
    /\ waivers # <<>> => now < MaxTimeWaived
    /\ now' = now + 1
    /\ transcript' = [transcript EXCEPT ![s] = Append(@, event)]
    /\ UNCHANGED <<events, verification, waivers>>

Invoke(s, tool) ==
    Running(s) /\ Write(s, Started(<<s, Len(transcript[s]) + 1>>, tool, now + 1))
Complete(s, i, ok) ==
    /\ Running(s)
    /\ i \in Of(transcript[s], "start")
    /\ CompletionsOf(transcript[s], <<s, i>>) = {}
    /\ Write(s, Completed(<<s, i>>, ok, now + 1))
ShutDownRoutinely(s) == Running(s) /\ Write(s, ShutDown(s, now + 1))
Finish(s, exitCode) == Running(s) /\ Write(s, Result(s, exitCode, now + 1))
Resume(s) == LastType(s) = "session.shutdown" /\ Write(s, Resumed(s, now + 1))

-----------------------------------------------------------------------------
(* Declarations and their verification                                     *)

\* recordWorkflow: the declarations count as reconciled no more.  Two between
\* which no session writes an event carry the same millisecond.
Declare(skill) ==
    /\ Len(events) < MaxDeclared
    /\ now <= MaxTimeDeclared
    /\ \A s \in Session : \A i \in DOMAIN transcript[s] : Plain(transcript[s][i])
    /\ events' = Append(events, [skill |-> skill, recordedAt |-> now])
    /\ verification' = None
    /\ UNCHANGED <<now, transcript, waivers>>

\* verifyWorkflowLogFile: files in the order of their first event; a call
\* that starts in two of them is refused.
Disjoint(files) ==
    \A f, g \in files : f # g =>
        {f[i].call : i \in Of(f, "start")} \cap {g[i].call : i \in Of(g, "start")} = {}
Stream(files) == FlattenSeq(SetToSortSeq(files, LAMBDA f, g : f[1].at < g[1].at))

Verify(mode, files) ==
    /\ events # <<>>
    /\ files # {}
    /\ Disjoint(files)
    /\ mode = "strict" => Cardinality(files) = 1 /\ StrictlyVerifiable(Stream(files))
    /\ Invocations(Stream(files)) # <<>>
    /\ verification' = [mode |-> mode, source |-> Stream(files), events |-> events]
    /\ UNCHANGED <<now, transcript, events, waivers>>

-----------------------------------------------------------------------------
(* What validateLoadedWorkflow reports of a declaration                    *)

Declared == DOMAIN events
Verified == Invocations(verification.source)

\* Invocations of the declared skill that began before it was declared.
Eligible(k, invocations) ==
    {i \in DOMAIN invocations : /\ invocations[i].skill = events[k].skill
                                /\ invocations[i].invokedAt <= events[k].recordedAt}
Fitting(k, invocations) ==
    {i \in Eligible(k, invocations) : /\ invocations[i].status = "completed"
                                      /\ invocations[i].completedAt <= events[k].recordedAt}

\* Wrong variant: the latest invocation that fits is taken.
BindLatest(k, previous, invocations) ==
    LET free == {i \in Fitting(k, invocations) : i > previous}
    IN  IF free = {} THEN previous ELSE Max(free)

\* The first invocation that fits behind the ones already bound.
Bind(k, previous, invocations) ==
    LET free == {i \in Fitting(k, invocations) : i > previous}
    IN  IF free = {} THEN previous ELSE Min(free)

\* previousIndex after each declaration.
Bindings(invocations) ==
    LET last[k \in 0..Len(events)] ==
            IF k = 0 THEN 0 ELSE Bind(k, last[k - 1], invocations)
    IN  last

\* The waivable code reported of each declaration, or None when it is bound.
Codes ==
    IF verification = None THEN [k \in DOMAIN events |-> None] ELSE
    LET invocations == Verified
        last == Bindings(invocations)
        Statuses(k) == {invocations[i].status : i \in Eligible(k, invocations)}
        Used(k) == {last[j] : j \in 1..(k - 1)}
    IN [k \in DOMAIN events |->
          IF last[k] # last[k - 1] THEN None
          ELSE IF "incomplete" \in Statuses(k) THEN "incomplete"
          ELSE IF "failed" \in Statuses(k) THEN "failed"
          ELSE IF Used(k) \cap Eligible(k, invocations) # {} THEN "reused"
          ELSE IF \E i \in Eligible(k, invocations) : i <= last[k] THEN "order"
          ELSE "not invoked"]

-----------------------------------------------------------------------------
(* Waivers                                                                 *)

\* declarationMatchIndices
Matches(skill, recordedAt) ==
    {k \in Declared : events[k].skill = skill /\ events[k].recordedAt = recordedAt}

\* Wrong variant: every declaration is told apart by its index.
ScopeIndexed(k) ==
    [skill |-> events[k].skill, recordedAt |-> events[k].recordedAt, index |-> k]

\* declarationScope: the index tells declarations of one millisecond apart.
Scope(k) ==
    LET likes == Matches(events[k].skill, events[k].recordedAt)
    IN  [skill |-> events[k].skill, recordedAt |-> events[k].recordedAt,
         index |-> IF Cardinality(likes) < 2 THEN 0 ELSE k]

\* resolveEvent
Resolves(scope) ==
    LET likes == Matches(scope.skill, scope.recordedAt)
    IN  IF scope.index = 0 THEN Cardinality(likes) = 1
        ELSE Cardinality(likes) > 1 /\ scope.index \in likes

CodeOf(scope) == LET codes == Codes IN codes[CHOOSE k \in Declared : Scope(k) = scope]

\* Wrong variant: the evidence is the transcript alone.
SnapshotOfSource(scope) ==
    [head |-> IF verification = None THEN None ELSE verification.source, code |-> CodeOf(scope)]

\* snapshotPayload: the declaration, the head of the evidence and the code.
Snapshot(scope) == [head |-> verification, code |-> CodeOf(scope)]

\* waiverLinkage; the chain of sequence numbers and hashes is kept by appending.
Linked(i) == Resolves(waivers[i].scope)
Stale(i) == waivers[i].snapshot # Snapshot(waivers[i].scope)

\* authoritativeIndex is the last linked record of a scope, and active when it
\* is not stale: then waivedWorkflowDiagnostic makes its errors warnings.
Active(i) ==
    /\ Linked(i)
    /\ \A j \in DOMAIN waivers : j > i /\ waivers[j].scope = waivers[i].scope => ~Linked(j)
    /\ ~Stale(i)
Waived(k) == \E i \in DOMAIN waivers : waivers[i].scope = Scope(k) /\ Active(i)

Record(k) == [scope |-> Scope(k), code |-> CodeOf(Scope(k)), recordedAt |-> now,
              snapshot |-> Snapshot(Scope(k))]

\* Any existing record that is not linked makes both recorders refuse.
Recordable == verification # None /\ \A i \in DOMAIN waivers : Linked(i)

AppendRecords(records) ==
    /\ Len(waivers) + Len(records) <= MaxWaivers
    /\ now <= MaxTimeWaived
    /\ waivers' = waivers \o records
    /\ UNCHANGED <<now, transcript, events, verification>>

\* recordWorkflowWaiver
RecordWaiver(k) ==
    /\ Recordable
    /\ Codes[k] # None
    /\ Resolves(Scope(k))
    /\ ~Waived(k)
    /\ AppendRecords(<<Record(k)>>)

\* Wrong variant: a declaration counts as waived when one was ever recorded.
RecordAllUnrecorded ==
    /\ Recordable
    /\ LET todo == InOrder({k \in Declared : /\ Codes[k] # None
                                             /\ \A i \in DOMAIN waivers : waivers[i].scope # Scope(k)})
       IN  /\ todo # <<>>
           /\ AppendRecords([n \in DOMAIN todo |-> Record(todo[n])])

\* recordAllWorkflowWaivers
RecordAll ==
    /\ Recordable
    /\ LET todo == InOrder({k \in Declared : Codes[k] # None /\ ~Waived(k)})
       IN  /\ todo # <<>>
           /\ AppendRecords([n \in DOMAIN todo |-> Record(todo[n])])

Next ==
    \/ \E s \in Session :
          \/ ShutDownRoutinely(s) \/ Resume(s)
          \/ \E exitCode \in {0, 1} : Finish(s, exitCode)
          \/ \E tool \in Skill \cup {OtherTool} : Invoke(s, tool)
          \/ \E i \in DOMAIN transcript[s], ok \in BOOLEAN : Complete(s, i, ok)
    \/ \E skill \in Skill : Declare(skill)
    \/ \E mode \in Modes, sessions \in FileSets :
          Verify(mode, {transcript[s] : s \in sessions})
    \/ RecordAll
    \/ \E k \in Declared : RecordWaiver(k)

Spec == Init /\ [][Next]_vars

-----------------------------------------------------------------------------
\* The declarations are free of findings exactly when each can be given a
\* completed invocation of its own that ended before it was declared, in the
\* order of the declarations: taking the first fitting one never misses a way.
BindingComplete ==
    verification # None =>
        LET invocations == Verified
        IN  (\A k \in Declared : Codes[k] = None) <=>
            \E bound \in [Declared -> DOMAIN invocations] :
                /\ \A k \in Declared : bound[k] \in Fitting(k, invocations)
                /\ \A j, k \in Declared : j < k => bound[j] < bound[k]

\* Whatever the sanitizer publishes of a session that may go on while it is
\* read, first for validation and then for the copy, is accepted by the strict
\* verification and yields the invocations of what was validated; no call of
\* another tool is in it.
SanitizedVerifies ==
    \A s \in Session : \A n \in DOMAIN transcript[s] :
        LET before == SubSeq(transcript[s], 1, n)
            copy == Sanitized(transcript[s])
        IN  Publishable(before, transcript[s]) =>
                /\ StrictlyVerifiable(copy)
                /\ SessionOf(copy) = Replacement
                /\ Invocations(copy) = Invocations(before)
                /\ \A i \in Of(copy, "start") : IsInvocation(copy, i)

\* A waiver covers what its approver saw: once another declaration is recorded
\* it is never active again, whatever is verified afterwards, and its code is
\* the one that is reported.
WaiverCoversReviewed ==
    \A i \in DOMAIN waivers : Active(i) =>
        /\ \A k \in DOMAIN events : events[k].recordedAt <= waivers[i].recordedAt
        /\ CodeOf(waivers[i].scope) = waivers[i].code

\* A record loses its link, and then blocks every further one, only when a
\* later declaration of the skill carries the same millisecond.
LinkLostByCollision ==
    \A i \in DOMAIN waivers : ~Linked(i) =>
        /\ waivers[i].scope.index = 0
        /\ Cardinality(Matches(waivers[i].scope.skill, waivers[i].scope.recordedAt)) > 1

\* After `workflow waiver record-all' no declaration has an error left.
AllWaived ==
    [][RecordAll => \A k \in Declared : Codes[k] # None => Waived(k)']_vars
=============================================================================
