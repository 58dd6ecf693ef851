------------------------ MODULE LeasedCommandProofs ------------------------
(***************************************************************************)
(* Theorems about LeasedCommand for any finite set of commands with calls  *)
(* nested to any depth: work happens under the lock, nested calls are not refused, the   *)
(* tasks implement ExclusiveLock, and the result of the child is true.     *)
(***************************************************************************)
EXTENDS LeasedCommand, FiniteSetTheorems, TLAPS

-----------------------------------------------------------------------------
(* Sequences as the event loop uses them                                   *)

LEMMA AppendFacts ==
    ASSUME NEW S, NEW q \in Seq(S), NEW x \in S
    PROVE  /\ Append(q, x) \in Seq(S) /\ Len(Append(q, x)) = Len(q) + 1
           /\ DOMAIN q = 1..Len(q) /\ Len(q) \in Nat
           /\ DOMAIN Append(q, x) = 1..(Len(q) + 1)
           /\ \A i \in 1..Len(q) : Append(q, x)[i] = q[i]
           /\ Append(q, x)[Len(q) + 1] = x
OBVIOUS

LEMMA TailFacts ==
    ASSUME NEW S, NEW q \in Seq(S), q # <<>>
    PROVE  /\ Tail(q) \in Seq(S) /\ Len(q) \in Nat /\ Len(q) > 0
           /\ DOMAIN q = 1..Len(q) /\ DOMAIN Tail(q) = 1..(Len(q) - 1)
           /\ \A i \in 1..(Len(q) - 1) : Tail(q)[i] = q[i + 1]
           /\ Head(q) = q[1] /\ Head(q) \in S
OBVIOUS

-----------------------------------------------------------------------------
(* The inductive invariant                                                 *)

Inside(t) == pc[t] \in {"working", "resolved"}
Active(c) == {t \in Task : Context[t] = c /\ Inside(t)}

Types ==
    /\ lock \in Commands \cup {None}
    /\ entry \in [Commands -> Task \cup {None}]
    /\ acq \in [Task -> {"none", "published", "contended", "held", "failed",
                         "releasing", "unlinked", "released", "stuck"}]
    /\ refs \in [Task -> Nat]
    /\ lease \in [Task -> Task \cup {None}]
    /\ pc \in [Task -> {"idle", "awaiting", "working", "resolved",
                        "releasing", "done"}]
    /\ outcome \in [Task -> {"none", "ok", "failed", "refused"}]
    /\ waiting \in [Task -> Seq(Task)]
    /\ jobs \in [Commands -> Seq(Task)]
    /\ writing \subseteq Task

\* A context has no lease state but the one its command makes.
OwnState ==
    /\ \A t \in Task : Parent[t] # None => acq[t] = "none"
    /\ \A t \in Task : lease[t] \in {None, Context[t]}
    /\ \A c \in Commands : entry[c] \in {None, c}
    /\ \A c \in Commands : pc[c] = "idle" => acq[c] = "none" /\ entry[c] = None

\* The lock file is there from publication to the unlink.
LockKept ==
    \A c \in Commands : acq[c] \in {"published", "held", "releasing"} => lock = c

\* Until the acquisition settles nobody but the command waits for it.
Unsettled ==
    \A c \in Commands : acq[c] \in {"published", "contended"} =>
        pc[c] = "awaiting" /\ waiting[c] = <<c>> /\ jobs[c] = <<>>

\* Who is inside has the lock, and is counted.
HeldInside ==
    \A t \in Task : Inside(t) =>
        acq[Context[t]] = "held" /\ entry[Context[t]] = Context[t] /\ lease[t] = Context[t]
Counted ==
    \A c \in Commands : refs[c] = Cardinality(Active(c))

\* What is queued is a call whose acquisition has settled, or a call that ends,
\* each once.
Queued ==
    \A c \in Commands : \A i \in DOMAIN jobs[c] :
        /\ Context[jobs[c][i]] = c
        /\ pc[jobs[c][i]] \in {"awaiting", "resolved"}
        /\ \A j \in DOMAIN jobs[c] : jobs[c][j] = jobs[c][i] => j = i

\* A command that waits has made the entry; a nested call that waits is queued
\* before its parent can leave.
Waiting ==
    \A t \in Task : pc[t] = "awaiting" =>
        /\ lease[t] = Context[t]
        /\ Parent[t] = None =>
              entry[t] = t /\ acq[t] \in {"published", "contended", "held", "failed"}
        /\ Parent[t] # None =>
              LET c == Context[t]
                  p == Parent[t]
              IN
              \E i \in DOMAIN jobs[c] :
                  /\ jobs[c][i] = t
                  /\ \/ pc[p] = "working"
                     \/ pc[p] = "resolved" /\ \E j \in DOMAIN jobs[c] : i < j /\ jobs[c][j] = p

\* Nested calls are made from the operation of their command, however deep.
Called ==
    \A t \in Task : Parent[t] # None /\ pc[t] # "idle" =>
        pc[Context[t]] \notin {"idle", "awaiting"}

LeaseInv ==
    /\ Types /\ OwnState /\ LockKept /\ Unsettled /\ HeldInside /\ Counted
    /\ Queued /\ Waiting /\ Called
    /\ NestedNeverRefused

\* What the runner's variables say of each other.
RunnerInv ==
    /\ RunnerTypeOK
    /\ child = "idle" => status = "completed" /\ timer = "off" /\ result = Null
    /\ child = "absent" => timer # "armed"
    /\ status = "missing" => child = "absent"
    /\ status = "timeout" => timer = "fired"
    /\ status = "completed" => timer # "fired"
    /\ fallback => timer = "fired" /\ child # "absent"
    /\ result # Null => timer # "armed"
    /\ ResultTruthful

-----------------------------------------------------------------------------
(* Contexts                                                                *)

LEMMA Contexts ==
    /\ \A t \in Task : Context[t] \in Commands
    /\ \A c \in Commands : c \in Task /\ Context[c] = c /\ Parent[c] = None /\ c # None
    /\ \A t \in Task : Parent[t] # None =>
         Parent[t] \in Task /\ Context[t] = Context[Parent[t]] /\ t # Context[t]
    /\ \A t \in Task : Parent[t] = None => Context[t] = t /\ t \in Commands
BY ParentAssumption, NoneAssumption DEF Commands

\* The parent of a nested call that waits is inside, and its context has the
\* lock.
LEMMA ParentInside ==
    ASSUME LeaseInv, NEW t \in Task, Parent[t] # None, pc[t] = "awaiting"
    PROVE  /\ Parent[t] \in Task /\ Context[Parent[t]] = Context[t]
           /\ pc[Parent[t]] \in {"working", "resolved"} /\ Inside(Parent[t])
           /\ acq[Context[t]] = "held" /\ entry[Context[t]] = Context[t]
<1>1. Parent[t] \in Task /\ Context[Parent[t]] = Context[t]
  BY Contexts
<1>2. pc[Parent[t]] \in {"working", "resolved"}
  BY DEF LeaseInv, Waiting
<1>3. Inside(Parent[t])
  BY <1>2 DEF Inside
<1> QED BY <1>1, <1>2, <1>3 DEF LeaseInv, HeldInside

\* The tasks inside a context are finitely many.
LEMMA Counting ==
    ASSUME NEW c
    PROVE  /\ IsFiniteSet(Active(c)) /\ Cardinality(Active(c)) \in Nat
           /\ Cardinality(Active(c)) <= Cardinality(Task)
           /\ Cardinality(Active(c)) = 0 <=> Active(c) = {}
<1>1. Active(c) \in SUBSET Task
  BY DEF Active
<1> QED BY <1>1, TaskAssumption, FS_Subset, FS_CardinalityType, FS_EmptySet

\* ResultTruthful: the runner alone.
LEMMA RunnerInitInv == RunnerInit => RunnerInv
BY DEF RunnerInit, RunnerInv, RunnerTypeOK, ResultTruthful, Exit, Status

LEMMA RunnerStepInv ==
    ASSUME RunnerInv,
           \/ Start \/ SpawnFails \/ Escape \/ DescendantEnds \/ StdinFails \/ Timeout
           \/ GiveUp \/ Close \/ \E exit \in Exit : Ends(exit)
           \/ UNCHANGED runnerVars
    PROVE  RunnerInv'
<1> USE DEF RunnerInv, RunnerTypeOK, ResultTruthful, Exit, Status
<1>1. CASE Start BY <1>1 DEF Start
<1>2. CASE SpawnFails BY <1>2 DEF SpawnFails, Finish
<1>3. CASE Escape BY <1>3 DEF Escape
<1>4. CASE DescendantEnds BY <1>4 DEF DescendantEnds
<1>5. CASE StdinFails BY <1>5 DEF StdinFails
<1>6. CASE Timeout BY <1>6 DEF Timeout
<1>7. CASE GiveUp BY <1>7 DEF GiveUp, Finish
<1>8. CASE Close BY <1>8 DEF Close, Finish
<1>9. CASE \E exit \in Exit : Ends(exit) BY <1>9 DEF Ends
<1>10. CASE UNCHANGED runnerVars BY <1>10 DEF runnerVars
<1> QED BY <1>1, <1>2, <1>3, <1>4, <1>5, <1>6, <1>7, <1>8, <1>9, <1>10

-----------------------------------------------------------------------------
(* The initial state and the steps of the tasks                            *)

LEMMA LeaseInitInv == LeaseInit => LeaseInv
<1> SUFFICES ASSUME LeaseInit PROVE LeaseInv
  OBVIOUS
<1>1. Types
  BY DEF LeaseInit, Types
<1>2. \A t \in Task : pc[t] = "idle" /\ acq[t] = "none" /\ lease[t] = None
                     /\ outcome[t] = "none" /\ refs[t] = 0
  BY DEF LeaseInit
<1>3. OwnState /\ LockKept /\ Unsettled /\ HeldInside /\ Waiting /\ Called /\ NestedNeverRefused
  BY <1>2, Contexts DEF LeaseInit, OwnState, LockKept, Unsettled, HeldInside, Waiting, Called,
                        Inside, NestedNeverRefused
<1>4. Counted
  <2> SUFFICES ASSUME NEW c \in Commands PROVE refs[c] = Cardinality(Active(c))
    BY DEF Counted
  <2>1. Active(c) = {}
    BY <1>2 DEF Active, Inside
  <2> QED BY <1>2, <2>1, Contexts, FS_EmptySet
<1>5. Queued
  BY DEF LeaseInit, Queued
<1> QED BY <1>1, <1>3, <1>4, <1>5 DEF LeaseInv

\* A step by which nobody gets inside or leaves does not change who counts.
LEMMA SameInside ==
    ASSUME Counted, refs' = refs, \A t \in Task : Inside(t)' <=> Inside(t)
    PROVE  Counted'
<1>1. \A c \in Commands : Active(c)' = Active(c)
  BY DEF Active
<1> QED BY <1>1 DEF Counted

\* A command makes the entry, publishes or meets a lock, and waits.
LEMMA EnterCommandInv ==
    ASSUME LeaseInv, NEW t \in Task, Parent[t] = None, Enter(t)
    PROVE  LeaseInv'
<1>1. /\ t \in Commands /\ Context[t] = t /\ pc[t] = "idle" /\ acq[t] = "none" /\ t # None
      /\ entry[t] = None
  BY Contexts DEF Enter, LeaseInv, OwnState
<1>2. /\ entry' = [entry EXCEPT ![t] = t] /\ lease' = [lease EXCEPT ![t] = t]
      /\ waiting' = [waiting EXCEPT ![t] = <<t>>]
      /\ \/ lock = None /\ lock' = t /\ acq' = [acq EXCEPT ![t] = "published"]
         \/ lock # None /\ lock' = lock /\ acq' = [acq EXCEPT ![t] = "contended"]
      /\ pc' = [pc EXCEPT ![t] = "awaiting"]
      /\ UNCHANGED <<refs, outcome, writing, jobs>>
  BY <1>1 DEF Enter, EnterNew, EnterShared
<1>3. Types'
  <2>1. <<t>> \in Seq(Task)
    OBVIOUS
  <2>2. /\ entry' \in [Commands -> Task \cup {None}] /\ lease' \in [Task -> Task \cup {None}]
        /\ waiting' \in [Task -> Seq(Task)]
    BY <1>2, <2>1 DEF LeaseInv, Types
  <2>3. pc' \in [Task -> {"idle", "awaiting", "working", "resolved", "releasing", "done"}]
    BY <1>2 DEF LeaseInv, Types
  <2>4. /\ lock' \in Commands \cup {None}
        /\ acq' \in [Task -> {"none", "published", "contended", "held", "failed",
                              "releasing", "unlinked", "released", "stuck"}]
    BY <1>1, <1>2 DEF LeaseInv, Types
  <2> QED BY <1>2, <2>2, <2>3, <2>4 DEF LeaseInv, Types
<1>4. /\ \A u \in Task \ {t} : pc'[u] = pc[u] /\ acq'[u] = acq[u] /\ lease'[u] = lease[u]
                                /\ waiting'[u] = waiting[u]
      /\ \A c \in Commands \ {t} : entry'[c] = entry[c]
      /\ pc'[t] = "awaiting" /\ acq'[t] \in {"published", "contended"} /\ lease'[t] = t
      /\ waiting'[t] = <<t>> /\ entry'[t] = t
      /\ acq'[t] = "published" => lock' = t
  BY <1>1, <1>2 DEF LeaseInv, Types
<1>5. jobs[t] = <<>>
  <2>1. \A u \in Task : Context[u] = t => ~Inside(u) /\ (Parent[u] # None => pc[u] # "awaiting")
    BY <1>1, ParentInside DEF LeaseInv, HeldInside
  <2>2. \A i \in DOMAIN jobs[t] : FALSE
    <3> SUFFICES ASSUME NEW i \in DOMAIN jobs[t] PROVE FALSE
      OBVIOUS
    <3>1. jobs[t] \in Seq(Task)
      BY <1>1 DEF LeaseInv, Types
    <3>2. jobs[t][i] \in Task
      BY <3>1
    <3>3. Context[jobs[t][i]] = t /\ pc[jobs[t][i]] \in {"awaiting", "resolved"}
      BY <1>1 DEF LeaseInv, Queued
    <3> QED BY <1>1, <2>1, <3>2, <3>3, Contexts DEF Inside
  <2>3. jobs[t] \in Seq(Task)
    BY <1>1 DEF LeaseInv, Types
  <2> QED BY <2>2, <2>3, TailFacts
<1>6. OwnState' /\ HeldInside' /\ Called' /\ NestedNeverRefused'
  BY <1>1, <1>2, <1>4, Contexts
     DEF LeaseInv, OwnState, HeldInside, Called, NestedNeverRefused, Inside
<1>7. LockKept' /\ Unsettled'
  BY <1>1, <1>2, <1>4, <1>5, Contexts DEF LeaseInv, LockKept, Unsettled
<1>8. Counted'
  <2>1. \A u \in Task : Inside(u)' <=> Inside(u)
    BY <1>1, <1>4 DEF Inside
  <2> QED BY <1>2, <2>1, SameInside DEF LeaseInv
<1>9. Queued'
  <2> SUFFICES ASSUME NEW c \in Commands, NEW i \in DOMAIN jobs[c]
               PROVE  /\ Context[jobs[c][i]] = c
                      /\ pc'[jobs[c][i]] \in {"awaiting", "resolved"}
                      /\ \A j \in DOMAIN jobs[c] : jobs[c][j] = jobs[c][i] => j = i
    BY <1>2 DEF Queued
  <2>1. jobs[c] \in Seq(Task) /\ jobs[c][i] \in Task
    BY DEF LeaseInv, Types
  <2> QED BY <1>4, <2>1 DEF LeaseInv, Queued
<1>10. Waiting'
  <2> SUFFICES ASSUME NEW u \in Task, pc'[u] = "awaiting", u # t
               PROVE  /\ lease'[u] = Context[u]
                      /\ Parent[u] = None =>
                            entry'[u] = u /\ acq'[u] \in {"published", "contended", "held", "failed"}
                      /\ Parent[u] # None =>
                            LET c == Context[u]
                                p == Parent[u]
                            IN
                            \E i \in DOMAIN jobs[c] :
                                /\ jobs[c][i] = u
                                /\ \/ pc'[p] = "working"
                                   \/ pc'[p] = "resolved"
                                      /\ \E j \in DOMAIN jobs[c] : i < j /\ jobs[c][j] = p
    BY <1>1, <1>2, <1>4 DEF Waiting
  <2>1. pc[u] = "awaiting"
    BY <1>4
  <2>2. CASE Parent[u] = None
    BY <1>4, <2>1, <2>2, Contexts DEF LeaseInv, Waiting
  <2>3. CASE Parent[u] # None
    <3>1. /\ Parent[u] \in Task /\ pc[Parent[u]] \in {"working", "resolved"} /\ Context[u] # t
      BY <1>1, <2>1, <2>3, ParentInside
    <3>2. Parent[u] # t /\ pc'[Parent[u]] = pc[Parent[u]]
      BY <1>1, <1>4, <3>1
    <3> QED BY <1>4, <2>1, <2>3, <3>1, <3>2 DEF LeaseInv, Waiting
  <2> QED BY <2>2, <2>3
<1> QED BY <1>3, <1>6, <1>7, <1>8, <1>9, <1>10 DEF LeaseInv

\* A nested call finds the lease of its parent, held, and queues at once.
LEMMA EnterNestedInv ==
    ASSUME LeaseInv, NEW t \in Task, Parent[t] # None, Enter(t)
    PROVE  LeaseInv'
<1> DEFINE c == Context[t]
           n == Len(jobs[c]) + 1
<1>1. /\ c \in Commands /\ c \in Task /\ c # None /\ c # t /\ Context[c] = c
      /\ Parent[c] = None /\ Parent[t] \in Task /\ Context[Parent[t]] = c
  BY Contexts
<1>2. /\ pc[t] = "idle" /\ pc[Parent[t]] = "working" /\ Parent[t] # t
      /\ acq[c] = "held" /\ entry[c] = c
  BY <1>1 DEF Enter, LeaseInv, HeldInside, Inside
<1>3. /\ lease' = [lease EXCEPT ![t] = c]
      /\ jobs' = [jobs EXCEPT ![c] = Append(@, t)]
      /\ pc' = [pc EXCEPT ![t] = "awaiting"]
      /\ UNCHANGED <<lock, entry, acq, refs, outcome, waiting, writing>>
  BY <1>1, <1>2 DEF Enter, EnterNew, EnterShared, Settled
<1>4. /\ jobs[c] \in Seq(Task)
      /\ jobs' \in [Commands -> Seq(Task)]
      /\ jobs'[c] = Append(jobs[c], t) /\ \A d \in Commands \ {c} : jobs'[d] = jobs[d]
  BY <1>1, <1>3, AppendFacts DEF LeaseInv, Types
<1>5. /\ n \in Nat /\ DOMAIN jobs[c] = 1..(n - 1) /\ DOMAIN jobs'[c] = 1..n
      /\ jobs'[c][n] = t /\ \A i \in 1..(n - 1) : jobs'[c][i] = jobs[c][i]
  BY <1>4, AppendFacts
<1>6. /\ \A u \in Task \ {t} : pc'[u] = pc[u] /\ lease'[u] = lease[u]
      /\ pc'[t] = "awaiting" /\ lease'[t] = c
  BY <1>3 DEF LeaseInv, Types
<1>7. Types'
  BY <1>1, <1>3, <1>4 DEF LeaseInv, Types
<1>8. OwnState' /\ LockKept' /\ HeldInside' /\ Called' /\ NestedNeverRefused'
  <2>1. pc[c] \notin {"idle", "awaiting"}
    BY <1>1, <1>2, Contexts DEF LeaseInv, Called
  <2> QED BY <1>1, <1>2, <1>3, <1>6, <2>1, Contexts
          DEF LeaseInv, OwnState, LockKept, HeldInside, Called, NestedNeverRefused, Inside
<1>9. Unsettled'
  BY <1>1, <1>2, <1>3, <1>4, <1>6, Contexts DEF LeaseInv, Unsettled
<1>10. Counted'
  <2>1. \A u \in Task : Inside(u)' <=> Inside(u)
    BY <1>2, <1>6 DEF Inside
  <2> QED BY <1>3, <2>1, SameInside DEF LeaseInv
<1>11. Queued'
  <2>1. \A d \in Commands : \A i \in DOMAIN jobs[d] : jobs[d][i] \in Task \ {t}
    <3> SUFFICES ASSUME NEW d \in Commands, NEW i \in DOMAIN jobs[d]
                 PROVE  jobs[d][i] \in Task /\ jobs[d][i] # t
      OBVIOUS
    <3>1. jobs[d] \in Seq(Task) /\ jobs[d][i] \in Task
      BY DEF LeaseInv, Types
    <3> QED BY <1>2, <3>1 DEF LeaseInv, Queued
  <2> SUFFICES ASSUME NEW d \in Commands, NEW i \in DOMAIN jobs'[d]
               PROVE  /\ Context[jobs'[d][i]] = d
                      /\ pc'[jobs'[d][i]] \in {"awaiting", "resolved"}
                      /\ \A j \in DOMAIN jobs'[d] : jobs'[d][j] = jobs'[d][i] => j = i
    BY DEF Queued
  <2>2. CASE d # c
    BY <1>4, <1>6, <2>1, <2>2 DEF LeaseInv, Queued
  <2>3. CASE d = c
    <3>1. \A j \in 1..(n - 1) :
             /\ jobs'[c][j] = jobs[c][j] /\ jobs[c][j] # t /\ jobs[c][j] \in Task
             /\ Context[jobs[c][j]] = c /\ pc[jobs[c][j]] \in {"awaiting", "resolved"}
      BY <1>1, <1>5, <2>1 DEF LeaseInv, Queued
    <3>2. \A j, k \in 1..(n - 1) : jobs[c][j] = jobs[c][k] => j = k
      BY <1>1, <1>5 DEF LeaseInv, Queued
    <3>3. CASE i = n
      BY <1>5, <1>6, <2>3, <3>1, <3>3
    <3>4. CASE i \in 1..(n - 1)
      <4>1. Context[jobs'[c][i]] = c /\ pc'[jobs'[c][i]] \in {"awaiting", "resolved"}
        BY <1>6, <3>1, <3>4
      <4>2. \A j \in 1..n : jobs'[c][j] = jobs'[c][i] => j = i
        BY <1>5, <3>1, <3>2, <3>4
      <4> QED BY <1>5, <2>3, <4>1, <4>2
    <3> QED BY <1>5, <2>3, <3>3, <3>4
  <2> QED BY <2>2, <2>3
<1>12. Waiting'
  <2> SUFFICES ASSUME NEW u \in Task, pc'[u] = "awaiting"
               PROVE  /\ lease'[u] = Context[u]
                      /\ Parent[u] = None =>
                            entry'[u] = u /\ acq'[u] \in {"published", "contended", "held", "failed"}
                      /\ Parent[u] # None =>
                            LET d == Context[u]
                                p == Parent[u]
                            IN
                            \E i \in DOMAIN jobs'[d] :
                                /\ jobs'[d][i] = u
                                /\ \/ pc'[p] = "working"
                                   \/ pc'[p] = "resolved"
                                      /\ \E j \in DOMAIN jobs'[d] : i < j /\ jobs'[d][j] = p
    BY DEF Waiting
  <2>1. CASE u = t
    BY <1>1, <1>2, <1>5, <1>6, <2>1
  <2>2. CASE u # t /\ Parent[u] = None
    BY <1>3, <1>6, <2>2 DEF LeaseInv, Waiting
  <2>3. CASE u # t /\ Parent[u] # None
    <3>1. /\ pc[u] = "awaiting" /\ Parent[u] \in Task /\ pc'[Parent[u]] = pc[Parent[u]]
          /\ lease'[u] = Context[u] /\ Context[u] \in Commands
      BY <1>2, <1>6, <2>3, ParentInside, Contexts DEF LeaseInv, Waiting
    <3>2. CASE Context[u] # c
      BY <1>4, <2>3, <3>1, <3>2 DEF LeaseInv, Waiting
    <3>3. CASE Context[u] = c
      <4>1. PICK i \in DOMAIN jobs[c] :
              /\ jobs[c][i] = u
              /\ \/ pc[Parent[u]] = "working"
                 \/ pc[Parent[u]] = "resolved"
                    /\ \E j \in DOMAIN jobs[c] : i < j /\ jobs[c][j] = Parent[u]
        BY <2>3, <3>1, <3>3 DEF LeaseInv, Waiting
      <4>2. i \in DOMAIN jobs'[c] /\ jobs'[c][i] = u
        BY <1>5, <4>1
      <4>3. \A j \in DOMAIN jobs[c] : j \in DOMAIN jobs'[c] /\ jobs'[c][j] = jobs[c][j]
        BY <1>5
      <4> QED BY <2>3, <3>1, <3>3, <4>1, <4>2, <4>3
    <3> QED BY <3>2, <3>3
  <2> QED BY <2>1, <2>2, <2>3
<1> QED BY <1>7, <1>8, <1>9, <1>10, <1>11, <1>12 DEF LeaseInv

\* The acquisition settles for the command alone, whose queue was empty.
LEMMA SettleInv ==
    ASSUME LeaseInv, NEW c \in Task, Settle(c)
    PROVE  LeaseInv'
<1>1. /\ acq[c] \in {"published", "contended"} /\ c \in Commands
      /\ pc[c] = "awaiting" /\ waiting[c] = <<c>> /\ jobs[c] = <<>>
      /\ acq[c] = "published" => lock = c
  <2>1. acq[c] \in {"published", "contended"}
    BY DEF Settle
  <2>2. c \in Commands
    BY <2>1, Contexts DEF LeaseInv, OwnState
  <2> QED BY <2>1, <2>2 DEF LeaseInv, Unsettled, LockKept
<1>2. /\ jobs' = [jobs EXCEPT ![c] = <<c>>]
      /\ waiting' = [waiting EXCEPT ![c] = <<>>]
      /\ \/ acq[c] = "published" /\ acq' = [acq EXCEPT ![c] = "held"] /\ lock' = lock
         \/ /\ acq' = [acq EXCEPT ![c] = "failed"]
            /\ lock' \in IF lock = c THEN {None, c} ELSE {lock}
      /\ UNCHANGED <<entry, refs, lease, pc, outcome, writing>>
  <2>1. Context[c] = c
    BY <1>1, Contexts
  <2>2. <<>> \o <<c>> = <<c>>
    OBVIOUS
  <2>3. jobs[c] \o waiting[c] = <<c>>
    BY <1>1, <2>2
  <2> QED BY <2>1, <2>3 DEF Settle
<1>3. /\ acq'[c] \in {"held", "failed"}
      /\ acq'[c] = "held" => lock' = c
      /\ \A u \in Task \ {c} : acq'[u] = acq[u] /\ waiting'[u] = waiting[u]
      /\ jobs'[c] = <<c>> /\ \A d \in Commands \ {c} : jobs'[d] = jobs[d]
  BY <1>1, <1>2 DEF LeaseInv, Types
<1>4. Types'
  <2>1. <<c>> \in Seq(Task) /\ <<>> \in Seq(Task)
    OBVIOUS
  <2>2. jobs' \in [Commands -> Seq(Task)] /\ waiting' \in [Task -> Seq(Task)]
    BY <1>1, <1>2, <2>1 DEF LeaseInv, Types
  <2>3. lock' \in Commands \cup {None}
    BY <1>1, <1>2 DEF LeaseInv, Types
  <2>4. acq' \in [Task -> {"none", "published", "contended", "held", "failed",
                           "releasing", "unlinked", "released", "stuck"}]
    BY <1>2 DEF LeaseInv, Types
  <2> QED BY <1>2, <2>2, <2>3, <2>4 DEF LeaseInv, Types
<1>5. \A u \in Task : Context[u] = c => ~Inside(u) /\ (Parent[u] # None => pc[u] # "awaiting")
  BY <1>1, ParentInside DEF LeaseInv, HeldInside
<1>6. OwnState' /\ Called' /\ NestedNeverRefused'
  BY <1>1, <1>2, <1>3, Contexts DEF LeaseInv, OwnState, Called, NestedNeverRefused
<1>7. HeldInside'
  BY <1>1, <1>2, <1>3, <1>5, Contexts DEF LeaseInv, HeldInside, Inside
<1>8. LockKept' /\ Unsettled'
  <2>1. ASSUME NEW d \in Commands, acq'[d] \in {"published", "held", "releasing"}
        PROVE  lock' = d
    <3>1. CASE d = c
      BY <1>3, <2>1, <3>1
    <3>2. CASE d # c
      <4>1. lock = d /\ acq[d] = acq'[d] /\ d \in Task
        BY <1>3, <2>1, <3>2, Contexts DEF LeaseInv, LockKept
      <4>2. acq[c] # "published"
        BY <1>1, <3>2, <4>1
      <4> QED BY <1>2, <3>2, <4>1, <4>2
    <3> QED BY <3>1, <3>2
  <2>2. ASSUME NEW d \in Commands, acq'[d] \in {"published", "contended"}
        PROVE  pc'[d] = "awaiting" /\ waiting'[d] = <<d>> /\ jobs'[d] = <<>>
    <3>1. d # c /\ d \in Task
      BY <1>3, <2>2, Contexts
    <3> QED BY <1>2, <1>3, <2>2, <3>1 DEF LeaseInv, Unsettled
  <2> QED BY <2>1, <2>2 DEF LockKept, Unsettled
<1>9. Counted'
  <2>1. \A u \in Task : Inside(u)' <=> Inside(u)
    BY <1>2 DEF Inside
  <2> QED BY <1>2, <2>1, SameInside DEF LeaseInv
<1>10. Queued'
  <2> SUFFICES ASSUME NEW d \in Commands, NEW i \in DOMAIN jobs'[d]
               PROVE  /\ Context[jobs'[d][i]] = d
                      /\ pc[jobs'[d][i]] \in {"awaiting", "resolved"}
                      /\ \A j \in DOMAIN jobs'[d] : jobs'[d][j] = jobs'[d][i] => j = i
    BY <1>2 DEF Queued
  <2>1. CASE d # c
    BY <1>3, <2>1 DEF LeaseInv, Queued
  <2>2. CASE d = c
    BY <1>1, <1>3, <2>2, Contexts
  <2> QED BY <2>1, <2>2
<1>11. Waiting'
  <2> SUFFICES ASSUME NEW u \in Task, pc[u] = "awaiting"
               PROVE  /\ lease[u] = Context[u]
                      /\ Parent[u] = None =>
                            entry[u] = u /\ acq'[u] \in {"published", "contended", "held", "failed"}
                      /\ Parent[u] # None =>
                            LET d == Context[u]
                                p == Parent[u]
                            IN
                            \E i \in DOMAIN jobs'[d] :
                                /\ jobs'[d][i] = u
                                /\ \/ pc[p] = "working"
                                   \/ pc[p] = "resolved"
                                      /\ \E j \in DOMAIN jobs'[d] : i < j /\ jobs'[d][j] = p
    BY <1>2 DEF Waiting
  <2>1. CASE Parent[u] # None
    <3>1. Context[u] # c /\ Context[u] \in Commands
      BY <1>5, <2>1, Contexts
    <3> QED BY <1>3, <2>1, <3>1 DEF LeaseInv, Waiting
  <2>2. CASE Parent[u] = None
    BY <1>3, <2>2 DEF LeaseInv, Waiting
  <2> QED BY <2>1, <2>2
<1> QED BY <1>4, <1>6, <1>7, <1>8, <1>9, <1>10, <1>11 DEF LeaseInv

\* The task queued first is not queued again.
LEMMA FirstInQueue ==
    ASSUME LeaseInv, NEW c \in Commands, jobs[c] # <<>>
    PROVE  LET t == Head(jobs[c])
               q == Tail(jobs[c])
           IN  /\ t \in Task /\ Context[t] = c /\ pc[t] \in {"awaiting", "resolved"}
               /\ q \in Seq(Task)
               /\ \A i \in DOMAIN q : q[i] # t /\ i + 1 \in DOMAIN jobs[c] /\ q[i] = jobs[c][i + 1]
               /\ acq[c] \notin {"published", "contended"}
<1>1. jobs[c] \in Seq(Task)
  BY DEF LeaseInv, Types
<1> DEFINE n == Len(jobs[c])
           q == Tail(jobs[c])
<1>2. /\ q \in Seq(Task) /\ n \in Nat /\ n > 0
      /\ DOMAIN jobs[c] = 1..n /\ DOMAIN q = 1..(n - 1)
      /\ \A i \in 1..(n - 1) : q[i] = jobs[c][i + 1]
      /\ Head(jobs[c]) = jobs[c][1] /\ jobs[c][1] \in Task
  BY <1>1, TailFacts
<1>3. /\ Context[jobs[c][1]] = c /\ pc[jobs[c][1]] \in {"awaiting", "resolved"}
      /\ \A j \in 1..n : jobs[c][j] = jobs[c][1] => j = 1
  BY <1>2 DEF LeaseInv, Queued
<1>4. \A i \in 1..(n - 1) : i + 1 \in 1..n /\ i + 1 # 1
  BY <1>2
<1>5. acq[c] \notin {"published", "contended"}
  BY DEF LeaseInv, Unsettled
<1> QED BY <1>2, <1>3, <1>4, <1>5

\* What is queued behind it stays queued, and a nested call waits only behind
\* other tasks than its parent.
LEMMA QueuedBehind ==
    ASSUME LeaseInv, NEW c \in Commands, jobs[c] # <<>>,
           NEW u \in Task, Parent[u] # None, Context[u] = c, pc[u] = "awaiting",
           u # Head(jobs[c])
    PROVE  LET q == Tail(jobs[c])
               p == Parent[u]
           IN
           /\ Head(jobs[c]) # p
           /\ pc[p] \in {"working", "resolved"}
           /\ \E i \in DOMAIN q :
                 /\ q[i] = u
                 /\ \/ pc[p] = "working"
                    \/ pc[p] = "resolved" /\ \E j \in DOMAIN q : i < j /\ q[j] = p
<1>1. jobs[c] \in Seq(Task)
  BY DEF LeaseInv, Types
<1> DEFINE n == Len(jobs[c])
           q == Tail(jobs[c])
           p == Parent[u]
<1>2. /\ n \in Nat /\ n > 0
      /\ DOMAIN jobs[c] = 1..n /\ DOMAIN q = 1..(n - 1)
      /\ \A i \in 1..(n - 1) : q[i] = jobs[c][i + 1]
      /\ Head(jobs[c]) = jobs[c][1]
  BY <1>1, TailFacts
<1>3. PICK i \in 1..n :
        /\ jobs[c][i] = u
        /\ \/ pc[p] = "working"
           \/ pc[p] = "resolved" /\ \E j \in 1..n : i < j /\ jobs[c][j] = p
  BY <1>2 DEF LeaseInv, Waiting
<1>4. i # 1 /\ i - 1 \in 1..(n - 1) /\ q[i - 1] = u
  BY <1>2, <1>3
<1>5. pc[jobs[c][1]] \in {"awaiting", "resolved"} /\ \A j \in 1..n : jobs[c][j] = jobs[c][1] => j = 1
  BY <1>2 DEF LeaseInv, Queued
<1>6. CASE pc[p] = "working"
  BY <1>2, <1>4, <1>5, <1>6
<1>7. CASE pc[p] = "resolved"
  <2>1. PICK j \in 1..n : i < j /\ jobs[c][j] = p
    BY <1>3, <1>7
  <2>2. j # 1 /\ j - 1 \in 1..(n - 1) /\ q[j - 1] = p /\ i - 1 < j - 1
    BY <1>2, <1>4, <2>1
  <2>3. jobs[c][1] # p
    BY <1>5, <2>1, <2>2
  <2> QED BY <1>2, <1>4, <1>7, <2>2, <2>3
<1> QED BY <1>3, <1>6, <1>7

\* The queue after the first task has run, when only that task has moved.
LEMMA QueueMovesOn ==
    ASSUME LeaseInv, NEW c \in Commands, jobs[c] # <<>>,
           jobs' = [jobs EXCEPT ![c] = Tail(@)],
           \A u \in Task \ {Head(jobs[c])} : pc'[u] = pc[u]
    PROVE  /\ jobs' \in [Commands -> Seq(Task)]
           /\ Queued'
           /\ \A d \in Commands : jobs[d] = <<>> => jobs'[d] = <<>>
<1> DEFINE t == Head(jobs[c])
           q == Tail(jobs[c])
<1>1. /\ t \in Task /\ Context[t] = c /\ pc[t] \in {"awaiting", "resolved"}
      /\ q \in Seq(Task)
      /\ \A i \in DOMAIN q : q[i] # t /\ i + 1 \in DOMAIN jobs[c] /\ q[i] = jobs[c][i + 1]
  BY FirstInQueue
<1>2. /\ jobs' \in [Commands -> Seq(Task)]
      /\ jobs'[c] = q /\ \A d \in Commands \ {c} : jobs'[d] = jobs[d]
  BY <1>1 DEF LeaseInv, Types
<1>3. Queued'
  <2> SUFFICES ASSUME NEW d \in Commands, NEW i \in DOMAIN jobs'[d]
               PROVE  /\ Context[jobs'[d][i]] = d
                      /\ pc'[jobs'[d][i]] \in {"awaiting", "resolved"}
                      /\ \A j \in DOMAIN jobs'[d] : jobs'[d][j] = jobs'[d][i] => j = i
    BY DEF Queued
  <2>1. CASE d # c
    <3>1. /\ jobs'[d] = jobs[d] /\ jobs[d] \in Seq(Task) /\ jobs[d][i] \in Task
          /\ Context[jobs[d][i]] = d /\ pc[jobs[d][i]] \in {"awaiting", "resolved"}
          /\ \A j \in DOMAIN jobs[d] : jobs[d][j] = jobs[d][i] => j = i
      BY <1>2, <2>1 DEF LeaseInv, Types, Queued
    <3>2. jobs[d][i] # t
      BY <1>1, <2>1, <3>1
    <3> QED BY <3>1, <3>2
  <2>2. CASE d = c
    <3>1. /\ jobs'[d] = q /\ i \in DOMAIN q /\ q[i] \in Task /\ q[i] # t
          /\ q[i] = jobs[c][i + 1] /\ i + 1 \in DOMAIN jobs[c]
      BY <1>1, <1>2, <2>2
    <3>2. /\ Context[q[i]] = c /\ pc[q[i]] \in {"awaiting", "resolved"}
          /\ \A j \in DOMAIN jobs[c] : jobs[c][j] = jobs[c][i + 1] => j = i + 1
      BY <3>1 DEF LeaseInv, Queued
    <3>3. \A j \in DOMAIN q : q[j] = q[i] => j = i
      <4> SUFFICES ASSUME NEW j \in DOMAIN q, q[j] = q[i] PROVE j = i
        OBVIOUS
      <4>1. j + 1 = i + 1
        BY <1>1, <3>1, <3>2
      <4>2. i \in Nat /\ j \in Nat
        BY <1>1, <3>1
      <4> QED BY <4>1, <4>2
    <3> QED BY <2>2, <3>1, <3>2, <3>3
  <2> QED BY <2>1, <2>2
<1>4. ASSUME NEW d \in Commands, jobs[d] = <<>> PROVE jobs'[d] = <<>>
  BY <1>2, <1>4
<1> QED BY <1>2, <1>3, <1>4

\* Nobody else waits for less than before.
LEMMA WaitingMovesOn ==
    ASSUME LeaseInv, NEW c \in Commands, jobs[c] # <<>>,
           jobs' = [jobs EXCEPT ![c] = Tail(@)],
           pc'[Head(jobs[c])] # "awaiting",
           \A u \in Task \ {Head(jobs[c])} : pc'[u] = pc[u],
           lease' = lease,
           \A d \in Commands \ {c} : entry'[d] = entry[d] /\ acq'[d] = acq[d],
           pc'[c] = "awaiting" => entry'[c] = entry[c] /\ acq'[c] = acq[c]
    PROVE  Waiting'
<1> SUFFICES ASSUME NEW u \in Task, pc'[u] = "awaiting"
             PROVE  /\ lease'[u] = Context[u]
                    /\ Parent[u] = None =>
                          entry'[u] = u /\ acq'[u] \in {"published", "contended", "held", "failed"}
                    /\ Parent[u] # None =>
                          LET d == Context[u]
                              p == Parent[u]
                          IN
                          \E i \in DOMAIN jobs'[d] :
                              /\ jobs'[d][i] = u
                              /\ \/ pc'[p] = "working"
                                 \/ pc'[p] = "resolved"
                                    /\ \E j \in DOMAIN jobs'[d] : i < j /\ jobs'[d][j] = p
  BY DEF Waiting
<1>1. u # Head(jobs[c]) /\ pc[u] = "awaiting"
  OBVIOUS
<1>2. jobs'[c] = Tail(jobs[c]) /\ \A d \in Commands \ {c} : jobs'[d] = jobs[d]
  BY DEF LeaseInv, Types
<1>3. CASE Parent[u] = None
  BY <1>1, <1>3, Contexts DEF LeaseInv, Waiting
<1>4. CASE Parent[u] # None /\ Context[u] = c
  <2> DEFINE p == Parent[u]
  <2>1. lease[u] = Context[u] /\ p \in Task
    BY <1>1, <1>4, Contexts DEF LeaseInv, Waiting
  <2>2. /\ Head(jobs[c]) # p
        /\ \E i \in DOMAIN Tail(jobs[c]) :
             /\ Tail(jobs[c])[i] = u
             /\ \/ pc[p] = "working"
                \/ pc[p] = "resolved"
                   /\ \E j \in DOMAIN Tail(jobs[c]) : i < j /\ Tail(jobs[c])[j] = p
    BY <1>1, <1>4, QueuedBehind
  <2>3. pc'[p] = pc[p]
    BY <2>1, <2>2
  <2> QED BY <1>2, <1>4, <2>1, <2>2, <2>3
<1>5. CASE Parent[u] # None /\ Context[u] # c
  <2>1. /\ Context[u] \in Commands /\ Context[Head(jobs[c])] = c
        /\ Parent[u] \in Task /\ Context[Parent[u]] = Context[u]
    BY <1>5, Contexts, FirstInQueue
  <2>2. Parent[u] # Head(jobs[c])
    BY <1>5, <2>1
  <2>3. pc'[Parent[u]] = pc[Parent[u]] /\ jobs'[Context[u]] = jobs[Context[u]]
    BY <1>2, <1>5, <2>1, <2>2
  <2> QED BY <1>1, <1>5, <2>3 DEF LeaseInv, Waiting
<1> QED BY <1>3, <1>4, <1>5

\* A task joins its context: the acquisition is held, by its command.
LEMMA JoinFacts ==
    ASSUME LeaseInv, NEW t \in Task, pc[t] = "awaiting", acq[lease[t]] \notin {"published", "contended", "failed"}
    PROVE  /\ lease[t] = Context[t] /\ acq[Context[t]] = "held" /\ entry[Context[t]] = Context[t]
           /\ lock = Context[t]
<1>1. lease[t] = Context[t]
  BY DEF LeaseInv, Waiting
<1>2. CASE Parent[t] = None
  BY <1>1, <1>2, Contexts DEF LeaseInv, Waiting, LockKept
<1>3. CASE Parent[t] # None
  BY <1>1, <1>3, ParentInside, Contexts DEF LeaseInv, LockKept
<1> QED BY <1>2, <1>3

LEMMA JoinInv ==
    ASSUME LeaseInv, NEW c \in Commands, jobs[c] # <<>>,
           pc[Head(jobs[c])] = "awaiting", Join(Head(jobs[c])),
           jobs' = [jobs EXCEPT ![c] = Tail(@)],
           UNCHANGED <<lock, lease, waiting, writing>>
    PROVE  LeaseInv'
<1> DEFINE t == Head(jobs[c])
<1>1. t \in Task /\ Context[t] = c /\ c \in Task /\ c # None /\ Context[c] = c
  BY FirstInQueue, Contexts
<1>2. /\ lease[t] = c /\ acq[c] = "held" /\ entry[c] = c /\ lock = c
      /\ pc[c] # "idle"
  <2>1. lease[t] = Context[t]
    BY <1>1 DEF LeaseInv, Waiting
  <2>2. acq[c] \notin {"published", "contended", "failed"}
    BY <1>1, <2>1, FirstInQueue DEF Join
  <2>3. lease[t] = c /\ acq[c] = "held" /\ entry[c] = c /\ lock = c
    BY <1>1, <2>1, <2>2, JoinFacts
  <2> QED BY <2>3 DEF LeaseInv, OwnState
<1>3. /\ refs' = [refs EXCEPT ![c] = @ + 1]
      /\ pc' = [pc EXCEPT ![t] = "working"]
      /\ UNCHANGED <<entry, acq, outcome>>
  BY <1>2 DEF Join
<1>4. /\ pc'[t] = "working" /\ \A u \in Task \ {t} : pc'[u] = pc[u]
      /\ refs'[c] = refs[c] + 1 /\ \A d \in Commands \ {c} : refs'[d] = refs[d]
  BY <1>1, <1>3 DEF LeaseInv, Types
<1>5. jobs' \in [Commands -> Seq(Task)] /\ Queued' /\ \A d \in Commands : jobs[d] = <<>> => jobs'[d] = <<>>
  BY <1>4, QueueMovesOn
<1>6. Types'
  <2>1. refs' \in [Task -> Nat]
    BY <1>1, <1>3 DEF LeaseInv, Types
  <2>2. pc' \in [Task -> {"idle", "awaiting", "working", "resolved", "releasing", "done"}]
    BY <1>1, <1>3 DEF LeaseInv, Types
  <2> QED BY <1>3, <1>5, <2>1, <2>2 DEF LeaseInv, Types
<1>7. OwnState' /\ LockKept' /\ NestedNeverRefused'
  BY <1>1, <1>3, <1>4, Contexts DEF LeaseInv, OwnState, LockKept, NestedNeverRefused
<1>8. Unsettled'
  BY <1>1, <1>2, <1>3, <1>4, <1>5, Contexts DEF LeaseInv, Unsettled
<1>9. HeldInside'
  BY <1>1, <1>2, <1>3, <1>4 DEF LeaseInv, HeldInside, Inside
<1>10. Called'
  BY <1>1, <1>2, <1>4, Contexts DEF LeaseInv, Called
<1>11. Counted'
  <2> SUFFICES ASSUME NEW d \in Commands PROVE refs'[d] = Cardinality(Active(d)')
    BY DEF Counted
  <2>1. CASE d = c
    <3>1. Active(c)' = Active(c) \cup {t} /\ t \notin Active(c)
      BY <1>1, <1>4 DEF Active, Inside
    <3> QED BY <1>4, <2>1, <3>1, Counting, FS_AddElement DEF LeaseInv, Counted
  <2>2. CASE d # c
    <3>1. Active(d)' = Active(d)
      BY <1>1, <1>4, <2>2 DEF Active, Inside
    <3> QED BY <1>4, <2>2, <3>1 DEF LeaseInv, Counted
  <2> QED BY <2>1, <2>2
<1>12. Waiting'
  BY <1>3, <1>4, WaitingMovesOn
<1> QED BY <1>5, <1>6, <1>7, <1>8, <1>9, <1>10, <1>11, <1>12 DEF LeaseInv

\* Only a command is refused, and nobody is inside then.
LEMMA RefuseInv ==
    ASSUME LeaseInv, NEW c \in Commands, jobs[c] # <<>>,
           pc[Head(jobs[c])] = "awaiting", Refuse(Head(jobs[c])),
           jobs' = [jobs EXCEPT ![c] = Tail(@)],
           UNCHANGED <<lock, lease, waiting, writing>>
    PROVE  LeaseInv'
<1> DEFINE t == Head(jobs[c])
<1>1. t \in Task /\ Context[t] = c /\ c \in Task /\ c # None /\ Context[c] = c /\ Parent[c] = None
  BY FirstInQueue, Contexts
<1>2. lease[t] = c /\ acq[c] = "failed" /\ \A u \in Task : Context[u] = c => ~Inside(u)
  BY <1>1 DEF Refuse, LeaseInv, Waiting, HeldInside
<1>3. t = c
  <2> SUFFICES ASSUME Parent[t] # None PROVE FALSE
    BY <1>1, Contexts
  <2> QED BY <1>1, <1>2, ParentInside
<1>4. /\ entry' = [entry EXCEPT ![c] = IF @ = c THEN None ELSE @]
      /\ pc' = [pc EXCEPT ![c] = "done"]
      /\ outcome' = [outcome EXCEPT ![c] = "refused"]
      /\ UNCHANGED <<refs, acq>>
  BY <1>1, <1>2, <1>3 DEF Refuse
<1>5. /\ pc'[c] = "done" /\ \A u \in Task \ {c} : pc'[u] = pc[u] /\ outcome'[u] = outcome[u]
      /\ entry'[c] = None /\ \A d \in Commands \ {c} : entry'[d] = entry[d]
  BY <1>1, <1>4 DEF LeaseInv, Types, OwnState
<1>6. jobs' \in [Commands -> Seq(Task)] /\ Queued' /\ \A d \in Commands : jobs[d] = <<>> => jobs'[d] = <<>>
  BY <1>3, <1>5, QueueMovesOn
<1>7. Types'
  <2>1. entry' \in [Commands -> Task \cup {None}]
    BY <1>4 DEF LeaseInv, Types
  <2>2. /\ pc' \in [Task -> {"idle", "awaiting", "working", "resolved", "releasing", "done"}]
        /\ outcome' \in [Task -> {"none", "ok", "failed", "refused"}]
    BY <1>1, <1>4 DEF LeaseInv, Types
  <2> QED BY <1>4, <1>6, <2>1, <2>2 DEF LeaseInv, Types
<1>8. \A u \in Task : Inside(u)' <=> Inside(u)
  BY <1>1, <1>2, <1>3, <1>5 DEF Inside
<1>9. OwnState' /\ LockKept' /\ Called' /\ NestedNeverRefused'
  BY <1>1, <1>4, <1>5, Contexts DEF LeaseInv, OwnState, LockKept, Called, NestedNeverRefused
<1>10. Unsettled'
  BY <1>1, <1>2, <1>4, <1>5, <1>6, Contexts DEF LeaseInv, Unsettled
<1>11. HeldInside'
  BY <1>1, <1>2, <1>4, <1>5, <1>8, Contexts DEF LeaseInv, HeldInside
<1>12. Counted'
  BY <1>4, <1>8, SameInside DEF LeaseInv
<1>13. Waiting'
  BY <1>3, <1>4, <1>5, WaitingMovesOn
<1> QED BY <1>6, <1>7, <1>9, <1>10, <1>11, <1>12, <1>13 DEF LeaseInv

\* A task leaves; the last one begins the release, and nobody waits then.
LEMMA LeaveInv ==
    ASSUME LeaseInv, NEW c \in Commands, jobs[c] # <<>>,
           pc[Head(jobs[c])] = "resolved", Leave(Head(jobs[c])),
           jobs' = [jobs EXCEPT ![c] = Tail(@)],
           UNCHANGED <<lock, lease, waiting, writing>>
    PROVE  LeaseInv'
<1> DEFINE t == Head(jobs[c])
<1>1. t \in Task /\ Context[t] = c /\ c \in Task /\ c # None /\ Context[c] = c /\ Parent[c] = None
  BY FirstInQueue, Contexts
<1>2. /\ lease[t] = c /\ acq[c] = "held" /\ entry[c] = c /\ lock = c /\ t \in Active(c)
      /\ refs[c] = Cardinality(Active(c))
  BY <1>1 DEF LeaseInv, HeldInside, Inside, LockKept, Active, Counted
<1> DEFINE last == refs[c] - 1 = 0
<1>3. /\ refs' = [refs EXCEPT ![c] = refs[c] - 1]
      /\ entry' = [entry EXCEPT ![c] = IF last THEN None ELSE @]
      /\ acq' = [acq EXCEPT ![c] = IF last THEN "releasing" ELSE @]
      /\ pc' = [pc EXCEPT ![t] = IF last THEN "releasing" ELSE "done"]
      /\ UNCHANGED outcome
  BY <1>1, <1>2 DEF Leave
<1>4. /\ pc'[t] \in {"releasing", "done"} /\ \A u \in Task \ {t} : pc'[u] = pc[u]
      /\ acq'[c] \in {"held", "releasing"}
      /\ \A u \in Task \ {c} : acq'[u] = acq[u]
      /\ refs'[c] = refs[c] - 1 /\ \A d \in Commands \ {c} : refs'[d] = refs[d]
      /\ \A d \in Commands \ {c} : entry'[d] = entry[d]
      /\ entry'[c] \in {None, c}
      /\ ~last => entry'[c] = c /\ acq'[c] = "held"
  BY <1>1, <1>2, <1>3 DEF LeaseInv, Types
<1>5. jobs' \in [Commands -> Seq(Task)] /\ Queued' /\ \A d \in Commands : jobs[d] = <<>> => jobs'[d] = <<>>
  BY <1>4, QueueMovesOn
<1>6. /\ Active(c)' = Active(c) \ {t}
      /\ Cardinality(Active(c)') = refs[c] - 1 /\ refs[c] - 1 \in Nat
      /\ last => Active(c)' = {}
  <2>1. Active(c)' = Active(c) \ {t}
    BY <1>4 DEF Active, Inside
  <2>2. Cardinality(Active(c) \ {t}) = refs[c] - 1 /\ IsFiniteSet(Active(c) \ {t})
    BY <1>2, Counting, FS_RemoveElement
  <2> QED BY <2>1, <2>2, FS_CardinalityType, FS_EmptySet
<1>7. Types'
  <2>1. refs' \in [Task -> Nat]
    BY <1>1, <1>3, <1>6 DEF LeaseInv, Types
  <2>2. entry' \in [Commands -> Task \cup {None}]
    BY <1>3 DEF LeaseInv, Types
  <2>3. acq' \in [Task -> {"none", "published", "contended", "held", "failed",
                           "releasing", "unlinked", "released", "stuck"}]
    BY <1>3 DEF LeaseInv, Types
  <2>4. pc' \in [Task -> {"idle", "awaiting", "working", "resolved", "releasing", "done"}]
    BY <1>1, <1>3 DEF LeaseInv, Types
  <2> QED BY <1>3, <1>5, <2>1, <2>2, <2>3, <2>4 DEF LeaseInv, Types
<1>8. OwnState' /\ NestedNeverRefused'
  <2>1. pc'[c] # "idle"
    BY <1>1, <1>4, Contexts DEF LeaseInv, Called
  <2>2. \A u \in Task : Parent[u] # None => u # c
    BY <1>1
  <2> QED BY <1>1, <1>3, <1>4, <2>1, <2>2, Contexts DEF LeaseInv, OwnState, NestedNeverRefused
<1>9. LockKept'
  BY <1>2, <1>4, Contexts DEF LeaseInv, LockKept
<1>10. Unsettled'
  BY <1>1, <1>4, <1>5, Contexts DEF LeaseInv, Unsettled
<1>11. HeldInside'
  <2> SUFFICES ASSUME NEW u \in Task, pc'[u] \in {"working", "resolved"}
               PROVE  /\ acq'[Context[u]] = "held" /\ entry'[Context[u]] = Context[u]
                      /\ lease'[u] = Context[u]
    BY DEF HeldInside, Inside
  <2>1. u # t /\ Inside(u)
    BY <1>4 DEF Inside
  <2>2. CASE Context[u] = c
    <3>1. u \in Active(c)'
      BY <2>1, <2>2, <1>6 DEF Active
    <3> QED BY <1>4, <1>6, <2>1, <2>2, <3>1 DEF LeaseInv, HeldInside
  <2>3. CASE Context[u] # c
    BY <1>4, <2>1, <2>3, Contexts DEF LeaseInv, HeldInside
  <2> QED BY <2>2, <2>3
<1>12. Called'
  BY <1>1, <1>4, Contexts DEF LeaseInv, Called
<1>13. Counted'
  <2> SUFFICES ASSUME NEW d \in Commands PROVE refs'[d] = Cardinality(Active(d)')
    BY DEF Counted
  <2>1. CASE d = c
    BY <1>4, <1>6, <2>1
  <2>2. CASE d # c
    <3>1. Active(d)' = Active(d)
      BY <1>1, <1>4, <2>2 DEF Active, Inside
    <3> QED BY <1>4, <2>2, <3>1 DEF LeaseInv, Counted
  <2> QED BY <2>1, <2>2
<1>14. Waiting'
  <2>1. pc'[c] # "awaiting"
    BY <1>1, <1>4, Contexts DEF LeaseInv, Called
  <2> QED BY <1>3, <1>4, <2>1, Contexts, WaitingMovesOn
<1> QED BY <1>5, <1>7, <1>8, <1>9, <1>10, <1>11, <1>12, <1>13, <1>14 DEF LeaseInv

\* The lock file goes, when nobody is inside or waits.
LEMMA UnlinkInv ==
    ASSUME LeaseInv, NEW c \in Task, Unlink(c)
    PROVE  LeaseInv'
<1>1. c \in Commands /\ acq[c] = "releasing" /\ lock = c /\ c # None
  BY Contexts DEF Unlink, LeaseInv, OwnState, LockKept
<1>2. /\ acq' = [acq EXCEPT ![c] = "unlinked"] \/ acq' = [acq EXCEPT ![c] = "stuck"]
      /\ lock' \in {lock, None}
      /\ UNCHANGED <<entry, refs, lease, pc, outcome, waiting, jobs, writing>>
  BY DEF Unlink
<1>3. acq'[c] \in {"unlinked", "stuck"} /\ \A u \in Task \ {c} : acq'[u] = acq[u]
  BY <1>2 DEF LeaseInv, Types
<1>4. Types'
  <2>1. acq' \in [Task -> {"none", "published", "contended", "held", "failed",
                           "releasing", "unlinked", "released", "stuck"}]
    BY <1>2 DEF LeaseInv, Types
  <2> QED BY <1>1, <1>2, <2>1 DEF LeaseInv, Types
<1>5. OwnState' /\ Called' /\ NestedNeverRefused'
  <2>1. pc[c] # "idle"
    BY <1>1 DEF LeaseInv, OwnState
  <2> QED BY <1>1, <1>2, <1>3, <2>1, Contexts
          DEF LeaseInv, OwnState, Called, NestedNeverRefused
<1>6. LockKept' /\ Unsettled' /\ HeldInside'
  BY <1>1, <1>2, <1>3, Contexts DEF LeaseInv, LockKept, Unsettled, HeldInside, Inside
<1>7. Counted'
  <2>1. \A u \in Task : Inside(u)' <=> Inside(u)
    BY <1>2 DEF Inside
  <2> QED BY <1>2, <2>1, SameInside DEF LeaseInv
<1>8. Queued'
  BY <1>2 DEF LeaseInv, Queued
<1>9. Waiting'
  <2>1. pc[c] # "awaiting"
    BY <1>1, Contexts DEF LeaseInv, Waiting
  <2> QED BY <1>1, <1>2, <1>3, <2>1 DEF LeaseInv, Waiting
<1> QED BY <1>4, <1>5, <1>6, <1>7, <1>8, <1>9 DEF LeaseInv

\* A task that was not queued and did not count is over.
LEMMA ReturnInv ==
    ASSUME LeaseInv, NEW t \in Task, Return(t)
    PROVE  LeaseInv'
<1>1. /\ pc[t] = "releasing" /\ pc' = [pc EXCEPT ![t] = "done"]
      /\ UNCHANGED <<lock, entry, refs, lease, waiting, jobs, writing>>
  BY DEF Return
<1>2. \A u \in Task : acq'[u] = acq[u] \/ (acq[u] = "unlinked" /\ acq'[u] = "released")
  BY DEF Return, LeaseInv, Types
<1>3. \A u \in Task : outcome'[u] \in {outcome[u], "failed"}
  BY DEF Return, LeaseInv, Types
<1>4. pc'[t] = "done" /\ \A u \in Task \ {t} : pc'[u] = pc[u]
  BY <1>1 DEF LeaseInv, Types
<1>5. Types'
  <2>1. acq' \in [Task -> {"none", "published", "contended", "held", "failed",
                           "releasing", "unlinked", "released", "stuck"}]
    <3>1. acq' = [u \in Task |-> acq'[u]]
      BY DEF Return, LeaseInv, Types
    <3>2. \A u \in Task : acq'[u] \in {"none", "published", "contended", "held", "failed",
                                      "releasing", "unlinked", "released", "stuck"}
      BY <1>2 DEF LeaseInv, Types
    <3> QED BY <3>1, <3>2
  <2>2. pc' \in [Task -> {"idle", "awaiting", "working", "resolved", "releasing", "done"}]
    BY <1>1 DEF LeaseInv, Types
  <2>3. outcome' \in [Task -> {"none", "ok", "failed", "refused"}]
    BY DEF Return, LeaseInv, Types
  <2> QED BY <1>1, <2>1, <2>2, <2>3 DEF LeaseInv, Types
<1>6. \A u \in Task : Inside(u)' <=> Inside(u)
  BY <1>1, <1>4 DEF Inside
<1>7. OwnState' /\ LockKept' /\ Called' /\ NestedNeverRefused'
  BY <1>1, <1>2, <1>3, <1>4, Contexts
     DEF LeaseInv, OwnState, LockKept, Called, NestedNeverRefused
<1>8. Unsettled'
  BY <1>1, <1>2, <1>4, Contexts DEF LeaseInv, Unsettled
<1>9. HeldInside'
  BY <1>1, <1>2, <1>4, <1>6, Contexts DEF LeaseInv, HeldInside
<1>10. Counted'
  BY <1>1, <1>6, SameInside DEF LeaseInv
<1>11. Queued'
  <2> SUFFICES ASSUME NEW c \in Commands, NEW i \in DOMAIN jobs[c]
               PROVE  /\ Context[jobs[c][i]] = c
                      /\ pc'[jobs[c][i]] \in {"awaiting", "resolved"}
                      /\ \A j \in DOMAIN jobs[c] : jobs[c][j] = jobs[c][i] => j = i
    BY <1>1 DEF Queued
  <2>1. jobs[c] \in Seq(Task) /\ jobs[c][i] \in Task
    BY DEF LeaseInv, Types
  <2>2. jobs[c][i] # t
    BY <1>1 DEF LeaseInv, Queued
  <2> QED BY <1>4, <2>1, <2>2 DEF LeaseInv, Queued
<1>12. Waiting'
  <2> SUFFICES ASSUME NEW u \in Task, pc'[u] = "awaiting"
               PROVE  /\ lease[u] = Context[u]
                      /\ Parent[u] = None =>
                            entry[u] = u /\ acq'[u] \in {"published", "contended", "held", "failed"}
                      /\ Parent[u] # None =>
                            LET c == Context[u]
                                p == Parent[u]
                            IN
                            \E i \in DOMAIN jobs[c] :
                                /\ jobs[c][i] = u
                                /\ \/ pc'[p] = "working"
                                   \/ pc'[p] = "resolved"
                                      /\ \E j \in DOMAIN jobs[c] : i < j /\ jobs[c][j] = p
    BY <1>1 DEF Waiting
  <2>1. u # t /\ pc[u] = "awaiting"
    BY <1>4
  <2>2. CASE Parent[u] = None
    BY <1>2, <2>1, <2>2 DEF LeaseInv, Waiting
  <2>3. CASE Parent[u] # None
    <3>1. pc[Parent[u]] \in {"working", "resolved"} /\ Parent[u] \in Task
      BY <2>1, <2>3, ParentInside
    <3>2. pc'[Parent[u]] = pc[Parent[u]]
      BY <1>1, <1>4, <3>1
    <3> QED BY <2>1, <2>3, <3>2 DEF LeaseInv, Waiting
  <2> QED BY <2>2, <2>3
<1> QED BY <1>5, <1>7, <1>8, <1>9, <1>10, <1>11, <1>12 DEF LeaseInv

\* The writes of an operation change nothing the invariant relates.
LEMMA WritesInv ==
    ASSUME LeaseInv, writing' \subseteq Task,
           UNCHANGED <<lock, entry, acq, refs, lease, pc, outcome, waiting, jobs>>
    PROVE  LeaseInv'
<1>1. Types'
  BY DEF LeaseInv, Types
<1>2. OwnState' /\ LockKept' /\ Unsettled' /\ Called' /\ NestedNeverRefused'
  BY DEF LeaseInv, OwnState, LockKept, Unsettled, Called, NestedNeverRefused
<1>3. \A u \in Task : Inside(u)' <=> Inside(u)
  BY DEF Inside
<1>4. HeldInside' /\ Counted'
  BY <1>3, SameInside DEF LeaseInv, HeldInside
<1>5. Queued' /\ Waiting'
  BY DEF LeaseInv, Queued, Waiting
<1> QED BY <1>1, <1>2, <1>4, <1>5 DEF LeaseInv

\* An operation that ends queues its task behind the calls it made.
LEMMA ResolveInv ==
    ASSUME LeaseInv, NEW t \in Task, Resolve(t)
    PROVE  LeaseInv'
<1> DEFINE c == Context[t]
           n == Len(jobs[c]) + 1
<1>1. /\ c \in Commands /\ c \in Task /\ c # None /\ Context[c] = c /\ Parent[c] = None
      /\ pc[t] = "working" /\ acq[c] = "held"
  BY Contexts DEF Resolve, LeaseInv, HeldInside, Inside
<1>2. /\ pc' = [pc EXCEPT ![t] = "resolved"]
      /\ jobs' = [jobs EXCEPT ![c] = Append(@, t)]
      /\ outcome' = [outcome EXCEPT ![t] = "ok"] \/ outcome' = [outcome EXCEPT ![t] = "failed"]
      /\ UNCHANGED <<lock, entry, acq, refs, lease, waiting, writing>>
  BY DEF Resolve
<1>3. /\ jobs[c] \in Seq(Task)
      /\ jobs' \in [Commands -> Seq(Task)]
      /\ jobs'[c] = Append(jobs[c], t) /\ \A d \in Commands \ {c} : jobs'[d] = jobs[d]
  BY <1>1, <1>2, AppendFacts DEF LeaseInv, Types
<1>4. /\ n \in Nat /\ DOMAIN jobs[c] = 1..(n - 1) /\ DOMAIN jobs'[c] = 1..n
      /\ jobs'[c][n] = t /\ \A i \in 1..(n - 1) : jobs'[c][i] = jobs[c][i]
  BY <1>3, AppendFacts
<1>5. /\ pc'[t] = "resolved" /\ \A u \in Task \ {t} : pc'[u] = pc[u]
      /\ \A u \in Task : outcome'[u] = "refused" => outcome[u] = "refused"
  BY <1>2 DEF LeaseInv, Types
<1>6. Types'
  <2>1. /\ pc' \in [Task -> {"idle", "awaiting", "working", "resolved", "releasing", "done"}]
        /\ outcome' \in [Task -> {"none", "ok", "failed", "refused"}]
    BY <1>2 DEF LeaseInv, Types
  <2> QED BY <1>2, <1>3, <2>1 DEF LeaseInv, Types
<1>7. \A u \in Task : Inside(u)' <=> Inside(u)
  BY <1>1, <1>5 DEF Inside
<1>8. OwnState' /\ LockKept' /\ Called' /\ NestedNeverRefused'
  BY <1>1, <1>2, <1>5, Contexts
     DEF LeaseInv, OwnState, LockKept, Called, NestedNeverRefused
<1>9. Unsettled'
  BY <1>1, <1>2, <1>3, <1>5, Contexts DEF LeaseInv, Unsettled
<1>10. HeldInside'
  BY <1>2, <1>7 DEF LeaseInv, HeldInside
<1>11. Counted'
  BY <1>2, <1>7, SameInside DEF LeaseInv
<1>12. Queued'
  <2>1. \A d \in Commands : \A i \in DOMAIN jobs[d] : jobs[d][i] \in Task \ {t}
    <3> SUFFICES ASSUME NEW d \in Commands, NEW i \in DOMAIN jobs[d]
                 PROVE  jobs[d][i] \in Task /\ jobs[d][i] # t
      OBVIOUS
    <3>1. jobs[d] \in Seq(Task) /\ jobs[d][i] \in Task
      BY DEF LeaseInv, Types
    <3> QED BY <1>1, <3>1 DEF LeaseInv, Queued
  <2> SUFFICES ASSUME NEW d \in Commands, NEW i \in DOMAIN jobs'[d]
               PROVE  /\ Context[jobs'[d][i]] = d
                      /\ pc'[jobs'[d][i]] \in {"awaiting", "resolved"}
                      /\ \A j \in DOMAIN jobs'[d] : jobs'[d][j] = jobs'[d][i] => j = i
    BY DEF Queued
  <2>2. CASE d # c
    BY <1>3, <1>5, <2>1, <2>2 DEF LeaseInv, Queued
  <2>3. CASE d = c
    <3>1. \A j \in 1..(n - 1) :
             /\ jobs'[c][j] = jobs[c][j] /\ jobs[c][j] # t /\ jobs[c][j] \in Task
             /\ Context[jobs[c][j]] = c /\ pc[jobs[c][j]] \in {"awaiting", "resolved"}
      BY <1>1, <1>4, <2>1 DEF LeaseInv, Queued
    <3>2. \A j, k \in 1..(n - 1) : jobs[c][j] = jobs[c][k] => j = k
      BY <1>1, <1>4 DEF LeaseInv, Queued
    <3>3. CASE i = n
      BY <1>4, <1>5, <2>3, <3>1, <3>3
    <3>4. CASE i \in 1..(n - 1)
      <4>1. Context[jobs'[c][i]] = c /\ pc'[jobs'[c][i]] \in {"awaiting", "resolved"}
        BY <1>5, <3>1, <3>4
      <4>2. \A j \in 1..n : jobs'[c][j] = jobs'[c][i] => j = i
        BY <1>4, <3>1, <3>2, <3>4
      <4> QED BY <1>4, <2>3, <4>1, <4>2
    <3> QED BY <1>4, <2>3, <3>3, <3>4
  <2> QED BY <2>2, <2>3
<1>13. Waiting'
  <2> SUFFICES ASSUME NEW u \in Task, pc'[u] = "awaiting"
               PROVE  /\ lease[u] = Context[u]
                      /\ Parent[u] = None =>
                            entry[u] = u /\ acq[u] \in {"published", "contended", "held", "failed"}
                      /\ Parent[u] # None =>
                            LET d == Context[u]
                                p == Parent[u]
                            IN
                            \E i \in DOMAIN jobs'[d] :
                                /\ jobs'[d][i] = u
                                /\ \/ pc'[p] = "working"
                                   \/ pc'[p] = "resolved"
                                      /\ \E j \in DOMAIN jobs'[d] : i < j /\ jobs'[d][j] = p
    BY <1>2 DEF Waiting
  <2>1. u # t /\ pc[u] = "awaiting"
    BY <1>5
  <2>2. CASE Parent[u] = None
    BY <2>1, <2>2 DEF LeaseInv, Waiting
  <2>3. CASE Parent[u] # None /\ Context[u] # c
    <3>1. Parent[u] # t /\ Parent[u] \in Task /\ Context[u] \in Commands \ {c}
      BY <2>3, Contexts
    <3>2. jobs'[Context[u]] = jobs[Context[u]] /\ pc'[Parent[u]] = pc[Parent[u]]
      BY <1>3, <1>5, <3>1
    <3> QED BY <2>1, <2>3, <3>2 DEF LeaseInv, Waiting
  <2>4. CASE Parent[u] # None /\ Context[u] = c
    <3> DEFINE p == Parent[u]
    <3>1. lease[u] = c /\ p \in Task
      BY <2>1, <2>4, Contexts DEF LeaseInv, Waiting
    <3>2. PICK i \in 1..(n - 1) :
            /\ jobs[c][i] = u
            /\ \/ pc[p] = "working"
               \/ pc[p] = "resolved" /\ \E j \in 1..(n - 1) : i < j /\ jobs[c][j] = p
      BY <1>4, <2>1, <2>4 DEF LeaseInv, Waiting
    <3>3. i \in 1..n /\ i < n /\ n \in 1..n /\ jobs'[c][i] = u
      BY <1>4, <3>2
    <3>4. CASE t = p
      <4>1. pc'[p] = "resolved" /\ jobs'[c][n] = p
        BY <1>4, <1>5, <3>4
      <4> QED BY <1>4, <2>4, <3>1, <3>3, <4>1
    <3>5. CASE t # p /\ pc[p] = "working"
      BY <1>1, <1>4, <1>5, <2>4, <3>1, <3>3, <3>5
    <3>6. CASE t # p /\ pc[p] = "resolved"
      <4>1. PICK j \in 1..(n - 1) : i < j /\ jobs[c][j] = p
        BY <3>2, <3>6
      <4>2. j \in 1..n /\ jobs'[c][j] = p /\ i < j /\ pc'[p] = "resolved"
        BY <1>1, <1>4, <1>5, <3>1, <3>6, <4>1
      <4> QED BY <1>4, <2>4, <3>1, <3>3, <4>2
    <3> QED BY <3>2, <3>4, <3>5, <3>6
  <2> QED BY <2>2, <2>3, <2>4
<1> QED BY <1>6, <1>8, <1>9, <1>10, <1>11, <1>12, <1>13 DEF LeaseInv

-----------------------------------------------------------------------------
(* Every step                                                              *)

LEMMA ContinueInv ==
    ASSUME LeaseInv, NEW c \in Commands, Continue(c)
    PROVE  LeaseInv'
<1>1. /\ jobs[c] # <<>>
      /\ \/ pc[Head(jobs[c])] = "awaiting" /\ Join(Head(jobs[c]))
         \/ pc[Head(jobs[c])] = "awaiting" /\ Refuse(Head(jobs[c]))
         \/ pc[Head(jobs[c])] = "resolved" /\ Leave(Head(jobs[c]))
      /\ jobs' = [jobs EXCEPT ![c] = Tail(@)]
      /\ UNCHANGED <<lock, lease, waiting, writing>>
  BY DEF Continue
<1> QED BY <1>1, JoinInv, RefuseInv, LeaveInv

LEMMA StepInv ==
    ASSUME LeaseInv, RunnerInv, [Next]_vars
    PROVE  LeaseInv' /\ RunnerInv'
<1>1. ASSUME UNCHANGED leaseVars PROVE LeaseInv'
  BY <1>1, WritesInv DEF leaseVars, LeaseInv, Types
<1>2. ASSUME UNCHANGED runnerVars PROVE RunnerInv'
  BY <1>2, RunnerStepInv
<1>3. CASE Call
  BY <1>1, <1>3, RunnerStepInv DEF Call
<1>4. CASE Callback
  BY <1>1, <1>4, RunnerStepInv DEF Callback
<1>5. CASE LeaseStep
  <2>1. ASSUME NEW t \in Task, Enter(t) PROVE LeaseInv'
    BY <2>1, EnterCommandInv, EnterNestedInv
  <2>2. ASSUME NEW t \in Task, Settle(t) PROVE LeaseInv'
    BY <2>2, SettleInv
  <2>3. ASSUME NEW t \in Task, Unlink(t) PROVE LeaseInv'
    BY <2>3, UnlinkInv
  <2>4. ASSUME NEW t \in Task, Return(t) PROVE LeaseInv'
    BY <2>4, ReturnInv
  <2>5. ASSUME NEW t \in Task, CheckWrite(t) \/ Write(t) PROVE LeaseInv'
    BY <2>5, WritesInv DEF CheckWrite, Write, LeaseInv, Types
  <2>6. ASSUME NEW t \in Task, Resolve(t) PROVE LeaseInv'
    BY <2>6, ResolveInv
  <2>7. ASSUME NEW c \in Commands, Continue(c) PROVE LeaseInv'
    BY <2>7, ContinueInv
  <2> QED BY <1>2, <1>5, <2>1, <2>2, <2>3, <2>4, <2>5, <2>6, <2>7 DEF LeaseStep
<1>6. CASE UNCHANGED vars
  <2>1. UNCHANGED leaseVars /\ UNCHANGED runnerVars
    BY <1>6 DEF vars, leaseVars, runnerVars
  <2> QED BY <1>1, <1>2, <2>1
<1> QED BY <1>3, <1>4, <1>5, <1>6 DEF Next, Done

\* The invariant holds of every behaviour.
THEOREM Inductive == Spec => [](LeaseInv /\ RunnerInv)
<1>1. Init => LeaseInv /\ RunnerInv
  BY LeaseInitInv, RunnerInitInv DEF Init
<1>2. LeaseInv /\ RunnerInv /\ [Next]_vars => (LeaseInv /\ RunnerInv)'
  BY StepInv
<1> QED BY <1>1, <1>2, PTL DEF Spec

\* A task inside its operation works under the lock its context holds,
\* whatever its siblings do (useContextLease).
THEOREM WorksUnderLease == Spec => []WorkUnderLease
<1>1. LeaseInv => WorkUnderLease
  <2> SUFFICES ASSUME LeaseInv, NEW t \in Task, Inside(t)
               PROVE  /\ lock = lease[t]
                      /\ acq[lease[t]] = "held"
                      /\ entry[Context[t]] = lease[t]
                      /\ refs[lease[t]] > 0
    BY DEF WorkUnderLease, Inside
  <2> DEFINE c == Context[t]
  <2>1. acq[c] = "held" /\ entry[c] = c /\ lease[t] = c /\ lock = c /\ c \in Commands
    BY Contexts DEF LeaseInv, HeldInside, LockKept
  <2>2. t \in Active(c)
    BY DEF Active
  <2>3. Cardinality(Active(c)) \in Nat /\ Cardinality(Active(c)) # 0
    BY <2>2, Counting
  <2>4. refs[c] = Cardinality(Active(c))
    BY <2>1 DEF LeaseInv, Counted
  <2> QED BY <2>1, <2>3, <2>4
<1> QED BY <1>1, Inductive, PTL

\* A nested call joins the lock of its parent, also when the parent fails while
\* it waits for its turn.
THEOREM NestedJoin == Spec => []NestedNeverRefused
<1>1. LeaseInv => NestedNeverRefused
  BY DEF LeaseInv
<1> QED BY <1>1, Inductive, PTL

\* What runProcess resolves with is what happened to the child.
THEOREM ResultIsTruthful == Spec => []ResultTruthful
<1>1. RunnerInv => ResultTruthful
  BY DEF RunnerInv
<1> QED BY <1>1, Inductive, PTL

-----------------------------------------------------------------------------
(* The tasks implement ExclusiveLock                                       *)

Holder == IF lock = None THEN None ELSE Context[lock]
WorkingCommands == {Context[t] : t \in {u \in Task : pc[u] \in {"working", "resolved"}}}

LEMMA AbstractState ==
    /\ WorkingCommands \subseteq Commands
    /\ \A c : c \in WorkingCommands <=> Active(c) # {}
    /\ LeaseInv => Holder = lock
BY Contexts DEF WorkingCommands, Active, Inside, Holder, LeaseInv, Types

\* Nobody gets inside or leaves: the lock is taken, given up or kept.
LockOnly ==
    /\ \A u \in Task : Inside(u)' <=> Inside(u)
    /\ \/ lock' = lock
       \/ \E c \in Commands : lock = None /\ lock' = c
       \/ \E c \in Commands : lock = c /\ lock' = None /\ Active(c) = {}

\* Somebody gets inside a context or leaves it: it has the lock.
OneContext ==
    /\ lock' = lock
    /\ \E c \in Commands : lock = c /\ \A d \in Commands \ {c} : Active(d)' = Active(d)

LEMMA StepOfTasks ==
    ASSUME LeaseInv, LeaseInv', LeaseStep
    PROVE  LockOnly \/ OneContext
<1>1. ASSUME NEW t \in Task, Enter(t) PROVE LockOnly
  <2>1. /\ pc[t] = "idle" /\ pc' = [pc EXCEPT ![t] = "awaiting"]
        /\ Parent[t] # None => pc[Parent[t]] = "working"
        /\ EnterNew(t) \/ EnterShared(t)
    BY <1>1 DEF Enter
  <2>2. \A u \in Task : Inside(u)' <=> Inside(u)
    BY <2>1 DEF LeaseInv, Types, Inside
  <2>3. CASE EnterShared(t)
    BY <2>2, <2>3 DEF EnterShared, LockOnly
  <2>4. CASE EnterNew(t)
    <3>1. Parent[t] = None
      <4> SUFFICES ASSUME Parent[t] # None PROVE FALSE
        OBVIOUS
      <4>1. /\ Context[t] # None /\ Parent[t] \in Task /\ Context[Parent[t]] = Context[t]
            /\ Inside(Parent[t])
        BY <2>1, Contexts DEF Inside
      <4> QED BY <2>4, <4>1 DEF EnterNew, LeaseInv, HeldInside
    <3>2. t \in Commands
      BY <3>1, Contexts
    <3> QED BY <2>2, <2>4, <3>2 DEF EnterNew, LockOnly
  <2> QED BY <2>1, <2>3, <2>4
<1>2. ASSUME NEW c \in Task, Settle(c) PROVE LockOnly
  <2>1. \A u \in Task : Inside(u)' <=> Inside(u)
    BY <1>2 DEF Settle, Inside
  <2>2. c \in Commands /\ Active(c) = {}
    BY <1>2, Contexts DEF Settle, LeaseInv, OwnState, HeldInside, Active
  <2>3. lock' = lock \/ (lock = c /\ lock' = None)
    BY <1>2 DEF Settle
  <2> QED BY <2>1, <2>2, <2>3 DEF LockOnly
<1>3. ASSUME NEW c \in Task, Unlink(c) PROVE LockOnly
  <2>1. \A u \in Task : Inside(u)' <=> Inside(u)
    BY <1>3 DEF Unlink, Inside
  <2>2. c \in Commands /\ Active(c) = {} /\ lock = c
    BY <1>3, Contexts DEF Unlink, LeaseInv, OwnState, HeldInside, LockKept, Active
  <2>3. lock' = lock \/ lock' = None
    BY <1>3 DEF Unlink
  <2> QED BY <2>1, <2>2, <2>3 DEF LockOnly
<1>4. ASSUME NEW t \in Task, Return(t) PROVE LockOnly
  BY <1>4 DEF Return, LeaseInv, Types, Inside, LockOnly
<1>5. ASSUME NEW t \in Task, CheckWrite(t) \/ Write(t) PROVE LockOnly
  BY <1>5 DEF CheckWrite, Write, Inside, LockOnly
<1>6. ASSUME NEW t \in Task, Resolve(t) PROVE LockOnly
  BY <1>6 DEF Resolve, LeaseInv, Types, Inside, LockOnly
<1>7. ASSUME NEW c \in Commands, Continue(c) PROVE LockOnly \/ OneContext
  <2> DEFINE t == Head(jobs[c])
  <2>1. /\ jobs[c] # <<>> /\ lock' = lock
        /\ \/ pc[t] = "awaiting" /\ Join(t)
           \/ pc[t] = "awaiting" /\ Refuse(t)
           \/ pc[t] = "resolved" /\ Leave(t)
    BY <1>7 DEF Continue
  <2>2. t \in Task /\ Context[t] = c /\ acq[c] \notin {"published", "contended"}
    BY <2>1, FirstInQueue
  <2>3. \A u \in Task \ {t} : pc'[u] = pc[u]
    BY <2>1 DEF Join, Refuse, Leave, LeaseInv, Types
  <2>4. \A d \in Commands \ {c} : Active(d)' = Active(d)
    BY <2>2, <2>3 DEF Active, Inside
  <2>5. CASE pc[t] = "awaiting" /\ Refuse(t)
    <3>1. pc'[t] = "done"
      BY <2>2, <2>5 DEF Refuse, LeaseInv, Types
    <3> QED BY <2>1, <2>3, <2>5, <3>1 DEF Inside, LockOnly
  <2>6. CASE pc[t] = "awaiting" /\ Join(t)
    <3>1. lease[t] = c
      BY <2>2, <2>6 DEF LeaseInv, Waiting
    <3>2. lock = c
      BY <2>2, <2>6, <3>1, JoinFacts DEF Join
    <3> QED BY <2>1, <2>4, <3>2 DEF OneContext
  <2>7. CASE pc[t] = "resolved" /\ Leave(t)
    <3>1. lock = c
      BY <2>2, <2>7 DEF LeaseInv, HeldInside, Inside, LockKept
    <3> QED BY <2>1, <2>4, <3>1 DEF OneContext
  <2> QED BY <2>1, <2>5, <2>6, <2>7
<1> QED BY <1>1, <1>2, <1>3, <1>4, <1>5, <1>6, <1>7 DEF LeaseStep

LEMMA MapsToLock ==
    ASSUME LeaseInv, LeaseInv', [Next]_vars
    PROVE  [Lock!Next]_(Lock!vars)
<1> USE DEF Holder, WorkingCommands
<1>1. Holder = lock /\ Holder' = lock'
  BY AbstractState, Contexts DEF LeaseInv, Types, Holder
<1>2. ASSUME lock' = lock, WorkingCommands' = WorkingCommands
      PROVE  UNCHANGED Lock!vars
  BY <1>1, <1>2 DEF Lock!vars, Commands
<1>3. CASE LockOnly
  <2>1. WorkingCommands' = WorkingCommands
    BY <1>3 DEF LockOnly, Inside
  <2>2. ASSUME NEW c \in Commands, lock = None, lock' = c PROVE Lock!Take(c)
    BY <1>1, <2>1, <2>2 DEF Lock!Take, Commands
  <2>3. ASSUME NEW c \in Commands, lock = c, lock' = None, Active(c) = {} PROVE Lock!Give(c)
    BY <1>1, <2>1, <2>3, AbstractState DEF Lock!Give, Commands
  <2> QED BY <1>2, <1>3, <2>1, <2>2, <2>3 DEF LockOnly, Lock!Next
<1>4. CASE OneContext
  <2>1. PICK c \in Commands : lock = c /\ \A d \in Commands \ {c} : Active(d)' = Active(d)
    BY <1>4 DEF OneContext
  <2>2. /\ WorkingCommands' \subseteq Commands /\ WorkingCommands \subseteq Commands
        /\ \A d : d \in WorkingCommands <=> Active(d) # {}
        /\ \A d : d \in WorkingCommands' <=> Active(d)' # {}
    BY Contexts DEF Active, Inside, Commands
  <2>3. WorkingCommands' \ {c} = WorkingCommands \ {c}
    BY <2>1, <2>2
  <2>4. CASE c \in WorkingCommands'
    <3>1. WorkingCommands' = WorkingCommands \cup {c}
      BY <2>3, <2>4
    <3>2. Lock!Enter(c)
      BY <1>1, <1>4, <2>1, <3>1 DEF OneContext, Lock!Enter, Commands
    <3> QED BY <3>2 DEF Lock!Next
  <2>5. CASE c \notin WorkingCommands' /\ c \in WorkingCommands
    <3>1. WorkingCommands' = WorkingCommands \ {c}
      BY <2>3, <2>5
    <3>2. Lock!Leave(c)
      BY <1>1, <1>4, <2>1, <2>5, <3>1 DEF OneContext, Lock!Leave, Commands
    <3> QED BY <3>2 DEF Lock!Next
  <2>6. CASE c \notin WorkingCommands' /\ c \notin WorkingCommands
    BY <1>2, <1>4, <2>3, <2>6 DEF OneContext
  <2> QED BY <2>4, <2>5, <2>6
<1>5. CASE UNCHANGED leaseVars
  BY <1>2, <1>5 DEF leaseVars
<1>6. LeaseStep \/ UNCHANGED leaseVars
  BY DEF Next, Call, Callback, Done, vars, leaseVars
<1> QED BY <1>3, <1>4, <1>5, <1>6, StepOfTasks

\* The contexts of the tasks use the lock as ExclusiveLock allows.
THEOREM ContextsImplementLock == Spec => ImplementsExclusiveLock
<1>1. Init => Lock!Init
  <2> SUFFICES ASSUME Init PROVE Lock!Init
    OBVIOUS
  <2>1. lock = None /\ {u \in Task : pc[u] \in {"working", "resolved"}} = {}
    BY DEF Init, LeaseInit
  <2> QED BY <2>1 DEF Lock!Init
<1>2. LeaseInv /\ LeaseInv' /\ [Next]_vars => [Lock!Next]_(Lock!vars)
  BY MapsToLock
<1> QED BY <1>1, <1>2, Inductive, PTL DEF Spec, ImplementsExclusiveLock, Lock!Spec

=============================================================================
