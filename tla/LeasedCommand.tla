--------------------------- MODULE LeasedCommand ---------------------------
(***************************************************************************)
(* Commands that run a configured test under the evidence-writer lock, as  *)
(* runTdd and runGate do: LeaseContext and ProcessRunner composed.  The    *)
(* operation of one task, Tester, starts the child process and awaits its  *)
(* result, so how long the project stays locked depends on runProcess.     *)
(***************************************************************************)
EXTENDS LeaseContext, ProcessRunner

CONSTANT Tester   \* the task whose operation runs the child

ASSUME TesterAssumption == Tester \in Task

vars == <<lock, entry, acq, refs, lease, pc, outcome, waiting, jobs, writing,
          child, code, escaped, status, timer, fallback, result>>

TypeOK == LeaseTypeOK /\ RunnerTypeOK

Init == LeaseInit /\ RunnerInit

\* The runner is called from the operation; its callbacks come whenever the
\* operating system and the timers produce them.
Call ==
    /\ pc[Tester] = "working"
    /\ Start \/ SpawnFails
    /\ UNCHANGED leaseVars

Callback ==
    /\ child # "idle"
    /\ \/ Escape \/ DescendantEnds \/ StdinFails \/ Timeout \/ GiveUp \/ Close
       \/ \E exit \in Exit : Ends(exit)
    /\ UNCHANGED leaseVars

\* The steps of the tasks.  The operation awaits the child: it writes its
\* record and settles only when there is none or its result is known.
Idle(t) == t = Tester => ~Running

LeaseStep ==
    /\ \/ \E t \in Task :
            \/ Enter(t) \/ Settle(t) \/ Unlink(t) \/ Return(t)
            \/ Idle(t) /\ (CheckWrite(t) \/ Write(t) \/ Resolve(t))
       \/ \E c \in Commands : Continue(c)
    /\ UNCHANGED runnerVars

Finished == \A t \in Task : pc[t] \in {"idle", "done"}

\* Nothing is left to do for the commands: the model stutters.
Done == Finished /\ UNCHANGED vars

Next == Call \/ Callback \/ LeaseStep \/ Done

\* Calls on the file system return, the event loop runs what is queued, and an
\* operation makes finitely many writes and ends.  Of the child only the runner's
\* own timers are assumed: it may run for ever and leave descendants behind.
Fairness ==
    /\ \A t \in Task :
         /\ WF_vars(Settle(t) /\ UNCHANGED runnerVars)
         /\ WF_vars(Unlink(t) /\ UNCHANGED runnerVars)
         /\ WF_vars(Return(t) /\ UNCHANGED runnerVars)
         /\ WF_vars(Write(t) /\ UNCHANGED runnerVars)
         /\ SF_vars(Idle(t) /\ Resolve(t) /\ UNCHANGED runnerVars)
    /\ \A c \in Commands : WF_vars(Continue(c) /\ UNCHANGED runnerVars)
    /\ WF_vars(Timeout /\ UNCHANGED leaseVars)
    /\ WF_vars(GiveUp /\ UNCHANGED leaseVars)
    /\ WF_vars(Close /\ UNCHANGED leaseVars)

Spec == Init /\ [][Next]_vars /\ Fairness

-----------------------------------------------------------------------------
(* Properties                                                              *)

\* One holder, work only while holding, and release only when nobody works,
\* for the contexts of the tasks.
ImplementsExclusiveLock == Lock!Spec

\* The project does not stay locked behind a test: once a context has the
\* lock, all its tasks end, at whatever depth, and it gives the lock back or
\* reports that it could not, even if the child never ends, cannot be killed,
\* or leaves a descendant on its pipes.
LockReturned ==
    \A c \in Commands : acq[c] = "held" ~>
        /\ \A t \in Task : Context[t] = c => pc[t] \in {"idle", "done"}
        /\ lock # c \/ acq[c] = "stuck"
=============================================================================
