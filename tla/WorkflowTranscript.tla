------------------------ MODULE WorkflowTranscript ------------------------
(***************************************************************************)
(* Transcripts of agent sessions as workflow.ts reads them: which ones the *)
(* strict mode of verifyWorkflowChunks accepts, the Skill invocations it   *)
(* takes from them, and the copy sanitizeWorkflowLogFile publishes.        *)
(*                                                                         *)
(* A transcript is a sequence of events.  Malformed lines, sizes and the   *)
(* skew of clocks are left out: the events of a session carry ascending    *)
(* times of one clock.                                                     *)
(***************************************************************************)
EXTENDS Naturals, Sequences, FiniteSets

CONSTANTS
    Skill,      \* skills that can be invoked and declared
    OtherTool,  \* what a tool call that invokes no skill is called with
    Replacement \* the session id a sanitized copy may be given

ASSUME OtherToolIsNoSkill == OtherTool \notin Skill

\* The kinds of events.  A call is the pair of its session and its place there.
Begun(session, at)   == [type |-> "session.start", session |-> session, at |-> at]
Resumed(session, at) == [type |-> "session.resume", session |-> session, at |-> at]
ShutDown(session, at) == [type |-> "session.shutdown", session |-> session, at |-> at]
Result(session, exitCode, at) ==
    [type |-> "result", session |-> session, exitCode |-> exitCode, at |-> at]
Started(call, skill, at) == [type |-> "start", call |-> call, skill |-> skill, at |-> at]
Completed(call, ok, at)  == [type |-> "complete", call |-> call, ok |-> ok, at |-> at]

Of(t, type) == {i \in DOMAIN t : t[i].type = type}
Ends(t) == Of(t, "result") \cup Of(t, "session.shutdown")
Lifecycle(t) == Of(t, "session.start") \cup Of(t, "session.resume") \cup Ends(t)
StartsOf(t, call) == {i \in Of(t, "start") : t[i].call = call}
CompletionsOf(t, call) == {i \in Of(t, "complete") : t[i].call = call}

-----------------------------------------------------------------------------
(* What strict verification requires                                       *)

\* Every call starts once, and completes once, later.
ToolsPaired(t) ==
    /\ \A i \in Of(t, "start") : StartsOf(t, t[i].call) = {i}
    /\ \A i \in Of(t, "start") : \E j \in CompletionsOf(t, t[i].call) : j > i
    /\ \A j \in Of(t, "complete") :
          /\ CompletionsOf(t, t[j].call) = {j}
          /\ \E i \in StartsOf(t, t[j].call) : i < j

\* lifecycleState: one start before every shutdown, and a resume directly
\* after every shutdown but the last, and nowhere else.
RoutineLifecycle(t) ==
    /\ Of(t, "result") = {} /\ Of(t, "session.shutdown") # {}
    /\ \E i \in Of(t, "session.start") :
          /\ Of(t, "session.start") = {i}
          /\ \A k \in Of(t, "session.shutdown") : i < k
    /\ Of(t, "session.resume") = {k + 1 : k \in Of(t, "session.shutdown") \ {Len(t)}}
    /\ \A i, j \in Lifecycle(t) : t[i].session = t[j].session

\* One terminal result with exit code zero and no shutdown, whose lifecycle is
\* not looked at.
TerminalResult(t) ==
    /\ Of(t, "session.shutdown") = {}
    /\ \E i \in Of(t, "result") : Of(t, "result") = {i} /\ t[i].exitCode = 0

\* What verifyWorkflowChunks accepts in strict mode.
StrictlyVerifiable(t) ==
    /\ Len(t) \in Ends(t)
    /\ RoutineLifecycle(t) \/ TerminalResult(t)
    /\ ToolsPaired(t)

\* The session a strictly verified transcript is of.
SessionOf(t) == t[Len(t)].session

-----------------------------------------------------------------------------
(* Invocations                                                             *)

IsInvocation(t, i) == t[i].type = "start" /\ t[i].skill \in Skill

\* The last completion of the call counts, none is incomplete.
InvocationAt(t, i) ==
    LET ends == CompletionsOf(t, t[i].call)
        last == CHOOSE j \in ends : \A k \in ends : k <= j
    IN  [skill |-> t[i].skill, call |-> t[i].call, invokedAt |-> t[i].at,
         status |-> IF ends = {} THEN "incomplete"
                    ELSE IF t[last].ok THEN "completed" ELSE "failed",
         completedAt |-> IF ends = {} THEN 0 ELSE t[last].at]

\* The given indices in ascending order.
InOrder(indices) ==
    [n \in 1..Cardinality(indices) |->
        CHOOSE i \in indices : Cardinality({j \in indices : j <= i}) = n]

\* verification.invocations, in the order of their starts.
Invocations(t) ==
    LET first == {i \in DOMAIN t : /\ IsInvocation(t, i)
                                   /\ \A j \in StartsOf(t, t[i].call) : i <= j}
        order == InOrder(first)
    IN  [k \in DOMAIN order |-> InvocationAt(t, order[k])]

-----------------------------------------------------------------------------
(* Sanitization                                                            *)

\* Wrong variant: resumes are dropped with the rest of the session.
KeptWithoutResume(t, i) ==
    \/ i \in Lifecycle(t) \ Of(t, "session.resume")
    \/ IsInvocation(t, i)
    \/ t[i].type = "complete" /\ \E j \in StartsOf(t, t[i].call) : j < i /\ IsInvocation(t, j)

\* The lifecycle, and the starts and completions of Skill calls.
Kept(t, i) ==
    \/ i \in Lifecycle(t)
    \/ IsInvocation(t, i)
    \/ t[i].type = "complete" /\ \E j \in StartsOf(t, t[i].call) : j < i /\ IsInvocation(t, j)

Replaced(event) ==
    IF "session" \in DOMAIN event THEN [event EXCEPT !.session = Replacement] ELSE event

\* processSanitizedLine for every line.
Sanitized(t) ==
    LET order == InOrder({i \in DOMAIN t : Kept(t, i)})
    IN  [k \in DOMAIN order |-> Replaced(t[order[k]])]

\* sanitizeWorkflowLogFile validates its input strictly, reads it again to copy
\* it, and publishes the copy when the digests agree and a Skill call is in it.
Publishable(before, after) ==
    /\ StrictlyVerifiable(before)
    /\ after = before
    /\ Invocations(after) # <<>>
=============================================================================
