--------------------------- MODULE ProcessRunner ---------------------------
(***************************************************************************)
(* runProcess of packages/analysis/src/process.ts: one child process, the  *)
(* timer that kills its process group, the second timer that gives up on   *)
(* its pipes, and the one result the promise is resolved with.             *)
(*                                                                         *)
(* The callbacks run on one event loop, in any order the operating system  *)
(* and the timers produce.  A descendant that left the process group       *)
(* (`escaped') survives the kill and keeps the output pipes open.  Output  *)
(* and durations are left out, and so is the Windows branch.               *)
(***************************************************************************)
CONSTANTS Null, Zero, Nonzero   \* no result or no exit code; two exit codes

VARIABLES
    child,     \* the process: not started, running, ended or not there
    code,      \* exit code of an ended child, Null when a signal ended it
    escaped,   \* a descendant outside the process group holds the pipes
    status,    \* the local variable `status'
    timer,     \* the timeout: "off", "armed" or "fired"
    fallback,  \* killFallback is armed
    result     \* what the promise was resolved with, or Null

runnerVars == <<child, code, escaped, status, timer, fallback, result>>

Exit == {Zero, Nonzero, Null}
Status == {"completed", "missing", "timeout", "error"}

RunnerTypeOK ==
    /\ child \in {"idle", "running", "ended", "absent"}
    /\ code \in Exit
    /\ escaped \in BOOLEAN
    /\ status \in Status
    /\ timer \in {"off", "armed", "fired"}
    /\ fallback \in BOOLEAN
    /\ result \in [status : Status, exitCode : Exit] \cup {Null}

RunnerInit ==
    /\ child = "idle"
    /\ code = Null
    /\ escaped = FALSE
    /\ status = "completed"
    /\ timer = "off"
    /\ fallback = FALSE
    /\ result = Null

Running == child # "idle" /\ result = Null

\* Wrong variant: finish forgets the status the callbacks have set.
FinishIgnoringStatus(finalStatus, exitCode) ==
    /\ result = Null
    /\ result' = [status |-> "completed", exitCode |-> exitCode]
    /\ timer' = IF timer = "armed" THEN "off" ELSE timer
    /\ fallback' = FALSE

\* The inner function finish: the first call settles the promise.
Finish(finalStatus, exitCode) ==
    /\ result = Null
    /\ result' = [status |-> finalStatus, exitCode |-> exitCode]
    /\ timer' = IF timer = "armed" THEN "off" ELSE timer
    /\ fallback' = FALSE

\* spawn, and setTimeout for the timeout.
Start ==
    /\ child = "idle"
    /\ child' = "running"
    /\ timer' = "armed"
    /\ UNCHANGED <<code, escaped, status, fallback, result>>

\* There is no such command, or it cannot be run: spawn reports it with the
\* child's 'error' event, before any timer can fire.
SpawnFails ==
    /\ child = "idle"
    /\ child' = "absent"
    /\ status' \in {"missing", "error"}
    /\ Finish(status', Null)
    /\ UNCHANGED <<code, escaped>>

\* The child starts a descendant in a session of its own.
Escape ==
    /\ child = "running"
    /\ ~escaped
    /\ escaped' = TRUE
    /\ UNCHANGED <<child, code, status, timer, fallback, result>>

\* The child ends, by itself or by a signal that is not the runner's.
Ends(exit) ==
    /\ child = "running"
    /\ child' = "ended"
    /\ code' = exit
    /\ UNCHANGED <<escaped, status, timer, fallback, result>>

\* The descendant that held the pipes ends.
DescendantEnds ==
    /\ escaped
    /\ escaped' = FALSE
    /\ UNCHANGED <<child, code, status, timer, fallback, result>>

\* stdin fails with something other than EPIPE.
StdinFails ==
    /\ child = "running"
    /\ result = Null
    /\ status' = "error"
    /\ UNCHANGED <<child, code, escaped, timer, fallback, result>>

\* Wrong variant: the group is killed and nothing waits for the pipes.
TimeoutTrustsClose ==
    /\ timer = "armed"
    /\ timer' = "fired"
    /\ status' = "timeout"
    /\ \/ /\ child = "running"
          /\ child' = "ended"
          /\ code' = Null
       \/ UNCHANGED <<child, code>>
    /\ UNCHANGED <<escaped, fallback, result>>

\* The timeout: SIGKILL to the process group.  A group that is gone is fine,
\* and one that may not be signalled stays as it is.
Timeout ==
    /\ timer = "armed"
    /\ timer' = "fired"
    /\ status' = "timeout"
    /\ \/ /\ child = "running"
          /\ child' = "ended"
          /\ code' = Null
       \/ UNCHANGED <<child, code>>
    /\ fallback' = TRUE
    /\ UNCHANGED <<escaped, result>>

\* killFallback: the pipes did not close within a second of the kill.
GiveUp ==
    /\ fallback
    /\ Finish(status, Null)
    /\ UNCHANGED <<child, code, escaped, status>>

\* The child's 'close' event: it has ended and every pipe is closed.
Close ==
    /\ child = "ended"
    /\ ~escaped
    /\ Finish(status, code)
    /\ UNCHANGED <<child, code, escaped, status>>

\* What a caller may conclude from a result: `completed' only for a child
\* that ended by itself, with the code it ended with and its output complete,
\* before the timeout; `timeout' only after the timer; `missing' only for a
\* command that never ran.  runTdd and the gate take completed with code 0
\* as a passing test.
ResultTruthful ==
    result # Null =>
        /\ result.status = "completed" =>
             /\ child = "ended"
             /\ ~escaped
             /\ timer # "fired"
             /\ result.exitCode = code
        /\ result.status = "timeout" => timer = "fired"
        /\ result.status = "missing" => child = "absent"
        /\ child = "absent" => result.exitCode = Null
=============================================================================
