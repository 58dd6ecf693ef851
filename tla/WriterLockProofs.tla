------------------------- MODULE WriterLockProofs -------------------------
(***************************************************************************)
(* Theorems about WriterLock for every set of commands and recoverers.     *)
(*                                                                         *)
(* Two results need no assumption on how recoveries are run: the types,    *)
(* and that overlapping commands never both report success.  Exclusion     *)
(* itself is proved for serial recovery; the run MCWriterLock_unlock_race  *)
(* shows that it is lost without it.                                       *)
(***************************************************************************)
EXTENDS WriterLock, TLAPS

USE NoneAssumption, FormerAssumption, FlagAssumption

\* The variables keep their types: every phase a step moves to is a phase,
\* and the lock file always names a command or nobody.
THEOREM TypeCorrect == Spec => []TypeOK
<1> USE DEF TypeOK, Phase, RecoveryPhase, Finished, At, Goto, files,
            recoveryVars, commandVars
<1>1. Init => TypeOK
  BY DEF Init
<1>2. TypeOK /\ [Next]_vars => TypeOK'
  <2> SUFFICES ASSUME TypeOK, [Next]_vars PROVE TypeOK'
    OBVIOUS
  <2>1. ASSUME NEW c \in Command, Acquire(c) PROVE TypeOK'
    <3>1. CASE Probe(c) BY <3>1 DEF Probe
    <3>2. CASE MakeDirectory(c) BY <3>2 DEF MakeDirectory
    <3>3. CASE Stage(c) BY <3>3 DEF Stage
    <3>4. CASE Publish(c) BY <3>4 DEF Publish
    <3>5. CASE SyncPublished(c) BY <3>5 DEF SyncPublished
    <3>6. CASE Identify(c) BY <3>6 DEF Identify
    <3>7. CASE WithdrawRead(c) BY <3>7 DEF WithdrawRead
    <3>8. CASE WithdrawUnlink(c) BY <3>8 DEF WithdrawUnlink
    <3>9. CASE Unstage(c)
      <4>1. overlapped' \subseteq Command \X Command
        BY <3>9 DEF Unstage
      <4> QED BY <3>9, <4>1 DEF Unstage
    <3>10. CASE RemoveDirectory(c) BY <3>10 DEF RemoveDirectory
    <3> QED BY <2>1, <3>1, <3>2, <3>3, <3>4, <3>5, <3>6, <3>7, <3>8, <3>9,
               <3>10 DEF Acquire
  <2>2. ASSUME NEW c \in Command, Release(c) PROVE TypeOK'
    <3>1. CASE Finish(c) BY <3>1 DEF Finish
    <3>2. CASE ObserveOwn(c) BY <3>2 DEF ObserveOwn
    <3>3. CASE UnlinkOwn(c) BY <3>3 DEF UnlinkOwn
    <3>4. CASE SyncReleased(c) BY <3>4 DEF SyncReleased
    <3> QED BY <2>2, <3>1, <3>2, <3>3, <3>4 DEF Release
  <2>3. ASSUME NEW c \in Command, Stop(c) PROVE TypeOK'
    BY <2>3 DEF Stop
  <2>4. ASSUME NEW r \in Recoverer, Recover(r) \/ AbandonRecovery(r)
        PROVE TypeOK'
    <3> USE DEF RGoto, Return
    <3>1. CASE Observe(r) BY <3>1 DEF Observe
    <3>2. CASE CheckOwner(r) BY <3>2 DEF CheckOwner
    <3>3. CASE Revalidate(r) BY <3>3 DEF Revalidate
    <3>4. CASE RemoveDead(r) BY <3>4 DEF RemoveDead
    <3>5. CASE ReportRecovered(r) BY <3>5 DEF ReportRecovered
    <3>6. CASE AbandonRecovery(r) BY <3>6 DEF AbandonRecovery
    <3> QED BY <2>4, <3>1, <3>2, <3>3, <3>4, <3>5, <3>6 DEF Recover
  <2>5. CASE UNCHANGED vars
    BY <2>5 DEF vars
  <2> QED BY <2>1, <2>2, <2>3, <2>4, <2>5 DEF Next
<1> QED BY <1>1, <1>2, PTL DEF Spec

-----------------------------------------------------------------------------
(* Overlapping operations are detected, however recoveries interleave.     *)

\* Of two commands that overlapped, one has lost its lock file for good and
\* has not yet found out, or has failed because of it.
Lost(c) == lock # c /\ pc[c] \in {"running", "releasing", "releaseFailed"}
OverlapInv ==
    \A c, d \in Command : <<c, d>> \in overlapped => Lost(c) \/ Lost(d)

\* A lost file stays lost: only a command that has not published publishes,
\* and a command whose file is lost ends in releaseFailed.
LEMMA LostIsStable ==
    ASSUME TypeOK, [Next]_vars, NEW c \in Command, Lost(c)
    PROVE  Lost(c)'
<1> USE DEF TypeOK, Phase, RecoveryPhase, Finished, At, Goto, files,
            recoveryVars, commandVars, Lost
<1>1. ASSUME NEW d \in Command, Acquire(d) PROVE Lost(c)'
  BY <1>1 DEF Acquire, Probe, MakeDirectory, Stage, Publish, SyncPublished,
     Identify, WithdrawRead, WithdrawUnlink, Unstage, RemoveDirectory
<1>2. ASSUME NEW d \in Command, Release(d) PROVE Lost(c)'
  <2>1. CASE Finish(d) BY <2>1 DEF Finish
  <2>2. CASE ObserveOwn(d) BY <2>2 DEF ObserveOwn
  <2>3. CASE UnlinkOwn(d) BY <2>3 DEF UnlinkOwn
  <2>4. CASE SyncReleased(d) BY <2>4 DEF SyncReleased
  <2> QED BY <1>2, <2>1, <2>2, <2>3, <2>4 DEF Release
<1>3. ASSUME NEW d \in Command, Stop(d) PROVE Lost(c)'
  BY <1>3 DEF Stop
<1>4. ASSUME NEW r \in Recoverer, Recover(r) \/ AbandonRecovery(r)
      PROVE Lost(c)'
  BY <1>4 DEF Recover, Observe, CheckOwner, Revalidate, RemoveDead,
     ReportRecovered, AbandonRecovery, RGoto, Return
<1>5. CASE UNCHANGED vars
  BY <1>5 DEF vars
<1> QED BY <1>1, <1>2, <1>3, <1>4, <1>5 DEF Next

\* A pair is recorded only when a command enters its operation while another
\* is inside; the one lock file cannot name both.
LEMMA NewOverlap ==
    ASSUME TypeOK, [Next]_vars, NEW c \in Command, NEW d \in Command,
           <<c, d>> \in overlapped', <<c, d>> \notin overlapped
    PROVE  Lost(c)' \/ Lost(d)'
<1> USE DEF TypeOK, At, Goto, files, recoveryVars, commandVars
<1>1. PICK e \in Command : Unstage(e) /\ At(e, "identified")
  <2>1. ASSUME NEW e \in Command, Acquire(e)
        PROVE  Unstage(e) /\ At(e, "identified")
    BY <2>1 DEF Acquire, Probe, MakeDirectory, Stage, Publish, SyncPublished,
       Identify, WithdrawRead, WithdrawUnlink, Unstage, RemoveDirectory
  <2>2. ASSUME NEW e \in Command, Release(e) PROVE FALSE
    BY <2>2 DEF Release, Finish, ObserveOwn, UnlinkOwn, SyncReleased
  <2>3. ASSUME NEW e \in Command, Stop(e) PROVE FALSE
    BY <2>3 DEF Stop
  <2>4. ASSUME NEW r \in Recoverer, Recover(r) \/ AbandonRecovery(r)
        PROVE  FALSE
    BY <2>4 DEF Recover, Observe, CheckOwner, Revalidate, RemoveDead,
       ReportRecovered, AbandonRecovery
  <2>5. CASE UNCHANGED vars
    BY <2>5 DEF vars
  <2> QED BY <2>1, <2>2, <2>3, <2>4, <2>5 DEF Next
<1>2. /\ pc' = [pc EXCEPT ![e] = "running"]
      /\ lock' = lock
      /\ LET others == {x \in Command : At(x, "running")}
         IN  overlapped' = overlapped \cup ({e} \X others) \cup (others \X {e})
  BY <1>1 DEF Unstage
<1>3. c # d /\ pc'[c] = "running" /\ pc'[d] = "running"
  BY <1>1, <1>2
<1> QED BY <1>2, <1>3 DEF Lost

\* Two commands whose operations overlapped never both report success, with
\* any number of commands and of concurrent recoveries.
THEOREM OverlapIsDetected == Spec => []OverlapDetected
<1>1. Init => OverlapInv
  BY DEF Init, OverlapInv
<1>2. TypeOK /\ OverlapInv /\ [Next]_vars => OverlapInv'
  <2> SUFFICES ASSUME TypeOK, OverlapInv, [Next]_vars,
                      NEW c \in Command, NEW d \in Command,
                      <<c, d>> \in overlapped'
               PROVE  Lost(c)' \/ Lost(d)'
    BY DEF OverlapInv
  <2>1. CASE <<c, d>> \in overlapped
    BY <2>1, LostIsStable DEF OverlapInv
  <2>2. CASE <<c, d>> \notin overlapped
    BY <2>2, NewOverlap
  <2> QED BY <2>1, <2>2
<1>3. OverlapInv => OverlapDetected
  BY DEF OverlapInv, OverlapDetected, Lost
<1> QED BY <1>1, <1>2, <1>3, TypeCorrect, PTL DEF Spec

-----------------------------------------------------------------------------
(* Serial recovery keeps exclusion.                                        *)

\* What a recoverer knows: the observed owner is a command, it is dead once
\* the probes said so, and the file still names it once revalidated.
RecovererInv ==
    \A r \in Recoverer :
        /\ rpc[r] # "idle" => seen[r] \in Command
        /\ rpc[r] \in {"dead", "verified"} => ~alive[seen[r]]
        /\ rpc[r] = "verified" => lock = seen[r]
OneRecovery ==
    \A r, s \in Recoverer : rpc[r] # "idle" /\ rpc[s] # "idle" => r = s
SerialInv == LiveOwnerKeepsLock /\ RecovererInv /\ OneRecovery

LEMMA SerialInvInductive ==
    ASSUME SerialRecovery, TypeOK, SerialInv, [Next]_vars
    PROVE  SerialInv'
<1> USE DEF TypeOK, Phase, RecoveryPhase, Finished, At, Goto, files,
            recoveryVars, commandVars, SerialInv, Holding
<1>1. ASSUME NEW d \in Command, Acquire(d) PROVE SerialInv'
  <2>1. LiveOwnerKeepsLock'
    BY <1>1 DEF LiveOwnerKeepsLock, Acquire, Probe, MakeDirectory, Stage,
       Publish, SyncPublished, Identify, WithdrawRead, WithdrawUnlink,
       Unstage, RemoveDirectory
  <2>2. UNCHANGED <<alive, rpc, seen>> /\ (lock' # lock => lock = None \/ alive[lock])
    BY <1>1 DEF LiveOwnerKeepsLock, Acquire, Probe, MakeDirectory, Stage,
       Publish, SyncPublished, Identify, WithdrawRead, WithdrawUnlink,
       Unstage, RemoveDirectory
  <2>3. RecovererInv' /\ OneRecovery'
    BY <2>2 DEF RecovererInv, OneRecovery
  <2> QED BY <2>1, <2>3
<1>2. ASSUME NEW d \in Command, Release(d) PROVE SerialInv'
  <2>1. LiveOwnerKeepsLock'
    <3> USE DEF LiveOwnerKeepsLock
    <3>1. CASE Finish(d) BY <3>1 DEF Finish
    <3>2. CASE ObserveOwn(d) BY <3>2 DEF ObserveOwn
    <3>3. CASE UnlinkOwn(d) BY <3>3 DEF UnlinkOwn
    <3>4. CASE SyncReleased(d) BY <3>4 DEF SyncReleased
    <3> QED BY <1>2, <3>1, <3>2, <3>3, <3>4 DEF Release
  <2>2. UNCHANGED <<alive, rpc, seen>> /\ (lock' # lock => alive[lock])
    BY <1>2 DEF LiveOwnerKeepsLock, Release, Finish, ObserveOwn, UnlinkOwn,
       SyncReleased
  <2>3. RecovererInv' /\ OneRecovery'
    BY <2>2 DEF RecovererInv, OneRecovery
  <2> QED BY <2>1, <2>3
<1>3. ASSUME NEW d \in Command, Stop(d) PROVE SerialInv'
  BY <1>3 DEF Stop, LiveOwnerKeepsLock, RecovererInv, OneRecovery
<1>4. ASSUME NEW r \in Recoverer, Recover(r) \/ AbandonRecovery(r)
      PROVE  SerialInv'
  <2>1. CASE Observe(r)
    BY <2>1 DEF Observe, LiveOwnerKeepsLock, RecovererInv, OneRecovery
  <2>2. CASE CheckOwner(r)
    BY <2>2 DEF CheckOwner, RGoto, Return, LiveOwnerKeepsLock, RecovererInv,
       OneRecovery
  <2>3. CASE Revalidate(r)
    BY <2>3 DEF Revalidate, RGoto, Return, LiveOwnerKeepsLock, RecovererInv,
       OneRecovery
  <2>4. CASE RemoveDead(r)
    BY <2>4 DEF RemoveDead, RGoto, Return, LiveOwnerKeepsLock, RecovererInv,
       OneRecovery
  <2>5. CASE ReportRecovered(r)
    BY <2>5 DEF ReportRecovered, Return, LiveOwnerKeepsLock, RecovererInv,
       OneRecovery
  <2>6. CASE AbandonRecovery(r)
    BY <2>6 DEF AbandonRecovery, Return, LiveOwnerKeepsLock, RecovererInv,
       OneRecovery
  <2> QED BY <1>4, <2>1, <2>2, <2>3, <2>4, <2>5, <2>6 DEF Recover
<1>5. CASE UNCHANGED vars
  BY <1>5 DEF vars, LiveOwnerKeepsLock, RecovererInv, OneRecovery
<1> QED BY <1>1, <1>2, <1>3, <1>4, <1>5 DEF Next

\* The invariant behind the four theorems below.
LEMMA SerialInvariant ==
    ASSUME SerialRecovery PROVE Spec => [](TypeOK /\ SerialInv)
<1>1. Init => SerialInv
  <2>1. ASSUME Init, NEW c \in Command, alive[c] PROVE pc[c] = "idle"
    <3>1. c \notin Former
      BY <2>1, Zenon DEF Init
    <3> QED BY <2>1, <3>1 DEF Init
  <2>2. Init => LiveOwnerKeepsLock
    BY <2>1 DEF LiveOwnerKeepsLock, Holding
  <2>3. Init => RecovererInv /\ OneRecovery
    BY DEF Init, RecovererInv, OneRecovery
  <2> QED BY <2>2, <2>3 DEF SerialInv
<1>2. TypeOK /\ SerialInv /\ [Next]_vars => SerialInv'
  BY SerialInvInductive
<1> QED BY <1>1, <1>2, TypeCorrect, PTL DEF Spec

\* With one recovery at a time a live command's lock file stays in place from
\* publication to release.
THEOREM LiveOwnerIsSafe ==
    ASSUME SerialRecovery PROVE Spec => []LiveOwnerKeepsLock
<1>1. SerialInv => LiveOwnerKeepsLock
  BY DEF SerialInv
<1> QED BY <1>1, SerialInvariant, PTL

\* With one recovery at a time two live commands are never inside their
\* operations together.
THEOREM ExclusionHolds ==
    ASSUME SerialRecovery PROVE Spec => []MutualExclusion
<1>1. LiveOwnerKeepsLock => MutualExclusion
  BY DEF LiveOwnerKeepsLock, MutualExclusion, Running, At, Holding
<1> QED BY <1>1, LiveOwnerIsSafe, PTL

\* With one recovery at a time the step that removes the lock file is taken by
\* its live owner, or the owner is dead.
THEOREM RemovalIsConclusive ==
    ASSUME SerialRecovery PROVE Spec => ConclusiveRemoval
<1> USE DEF TypeOK, At, Goto, files, recoveryVars, commandVars, SerialInv, Phase,
            Finished
<1>1. ASSUME TypeOK, SerialInv, [Next]_vars, lock # None, lock' # lock
      PROVE  RemovesOnly(lock)
  <2> USE <1>1
  <2>1. ASSUME NEW d \in Command, Acquire(d) PROVE RemovesOnly(lock)
    <3>1. WithdrawUnlink(d)
      BY <2>1 DEF Acquire, Probe, MakeDirectory, Stage, Publish, SyncPublished,
         Identify, WithdrawRead, WithdrawUnlink, Unstage, RemoveDirectory
    <3>2. lock = d
      BY <3>1 DEF WithdrawUnlink, LiveOwnerKeepsLock, Holding
    <3> QED BY <3>1, <3>2 DEF WithdrawUnlink, RemovesOnly
  <2>2. ASSUME NEW d \in Command, Release(d) PROVE RemovesOnly(lock)
    <3>1. UnlinkOwn(d)
      BY <2>2 DEF Release, Finish, ObserveOwn, UnlinkOwn, SyncReleased
    <3>2. lock = d
      BY <3>1 DEF UnlinkOwn, LiveOwnerKeepsLock, Holding
    <3> QED BY <3>1, <3>2 DEF UnlinkOwn, RemovesOnly
  <2>3. ASSUME NEW d \in Command, Stop(d) PROVE FALSE
    BY <2>3 DEF Stop
  <2>4. ASSUME NEW r \in Recoverer, Recover(r) \/ AbandonRecovery(r)
        PROVE  RemovesOnly(lock)
    BY <2>4 DEF Recover, Observe, CheckOwner, Revalidate, RemoveDead,
       ReportRecovered, AbandonRecovery, RGoto, Return, RecovererInv, RemovesOnly
  <2>5. CASE UNCHANGED vars
    BY <2>5 DEF vars
  <2> QED BY <2>1, <2>2, <2>3, <2>4, <2>5 DEF Next
<1> QED BY <1>1, SerialInvariant, PTL DEF Spec, ConclusiveRemoval

\* With one recovery at a time the protocol implements the abstract exclusive
\* lock: every step is a step of its holder or a stutter.
THEOREM RefinesExclusiveLock ==
    ASSUME SerialRecovery PROVE Spec => ImplementsExclusiveLock
<1> DEFINE working == {c \in Command : Running(c)}
<1> USE DEF TypeOK, At, Goto, files, recoveryVars, commandVars, Phase, Finished
<1>1. Init => Abstract!Init
  <2> SUFFICES ASSUME Init PROVE Abstract!Init
    OBVIOUS
  <2>1. alive \in [Command -> BOOLEAN] /\ \A c \in Former : ~alive[c]
    <3>1. alive = [c \in Command |-> c \notin Former]
      BY DEF Init
    <3> QED BY <3>1
  <2>2. working = {}
    BY DEF Init, Running
  <2>3. lock \in {c \in Command : ~alive[c]} \cup {None}
    BY <2>1 DEF Init
  <2> QED BY <2>1, <2>2, <2>3 DEF Abstract!Init
<1>2. ASSUME TypeOK, SerialInv, [Next]_vars
      PROVE  [Abstract!Next]_(Abstract!vars)
  <2> USE <1>2
  <2>1. ASSUME NEW d \in Command, Acquire(d)
        PROVE  [Abstract!Next]_(Abstract!vars)
    <3>1. CASE Publish(d) /\ lock' = d /\ lock = None
      <4>1. working' = working BY <3>1 DEF Publish, Running
      <4> QED BY <3>1, <4>1 DEF Publish, Abstract!Next, Abstract!Take
    <3>2. CASE WithdrawUnlink(d)
      <4>1. working' = working /\ d \notin working
        BY <3>2 DEF WithdrawUnlink, Running
      <4>2. lock = d
        BY <3>2 DEF WithdrawUnlink, SerialInv, LiveOwnerKeepsLock, Holding
      <4> QED BY <3>2, <4>1, <4>2 DEF WithdrawUnlink, Abstract!Next, Abstract!Give
    <3>3. CASE Unstage(d) /\ At(d, "identified")
      <4>1. working' = working \cup {d} BY <3>3 DEF Unstage, Running
      <4>2. lock = d
        BY <3>3 DEF SerialInv, LiveOwnerKeepsLock, Holding
      <4> QED BY <3>3, <4>1, <4>2 DEF Unstage, Abstract!Next, Abstract!Enter
    <3>4. CASE ~(Publish(d) /\ lock' = d /\ lock = None) /\ ~WithdrawUnlink(d)
               /\ ~(Unstage(d) /\ At(d, "identified"))
      <4>1. lock' = lock /\ alive' = alive
        BY <2>1, <3>4 DEF Acquire, Probe, MakeDirectory, Stage, Publish,
           SyncPublished, Identify, WithdrawRead, Unstage, RemoveDirectory
      <4>2. working' = working
        BY <2>1, <3>4 DEF Acquire, Probe, MakeDirectory, Stage, Publish,
           SyncPublished, Identify, WithdrawRead, Unstage, RemoveDirectory,
           Running
      <4> QED BY <4>1, <4>2 DEF Abstract!vars
    <3> QED BY <3>1, <3>2, <3>3, <3>4
  <2>2. ASSUME NEW d \in Command, Release(d)
        PROVE  [Abstract!Next]_(Abstract!vars)
    <3>1. CASE Finish(d)
      <4>1. d \in working /\ working' = working \ {d}
        BY <3>1 DEF Finish, Running
      <4> QED BY <3>1, <4>1 DEF Finish, Abstract!Next, Abstract!Leave
    <3>2. CASE UnlinkOwn(d) /\ lock' = None /\ lock # None
      <4>1. working' = working /\ d \notin working
        BY <3>2 DEF UnlinkOwn, Running
      <4>2. lock = d
        BY <3>2 DEF UnlinkOwn, SerialInv, LiveOwnerKeepsLock, Holding
      <4> QED BY <3>2, <4>1, <4>2 DEF UnlinkOwn, Abstract!Next, Abstract!Give
    <3>3. CASE ObserveOwn(d) \/ SyncReleased(d)
               \/ (UnlinkOwn(d) /\ ~(lock' = None /\ lock # None))
      <4>1. lock' = lock /\ alive' = alive
        BY <3>3 DEF ObserveOwn, SyncReleased, UnlinkOwn
      <4>2. working' = working
        BY <3>3 DEF ObserveOwn, SyncReleased, UnlinkOwn, Running
      <4> QED BY <4>1, <4>2 DEF Abstract!vars
    <3> QED BY <2>2, <3>1, <3>2, <3>3 DEF Release
  <2>3. ASSUME NEW d \in Command, Stop(d)
        PROVE  [Abstract!Next]_(Abstract!vars)
    <3>1. working' = working \ {d} BY <2>3 DEF Stop, Running
    <3> QED BY <2>3, <3>1 DEF Stop, Abstract!Next, Abstract!Die
  <2>4. ASSUME NEW r \in Recoverer, Recover(r) \/ AbandonRecovery(r)
        PROVE  [Abstract!Next]_(Abstract!vars)
    <3>1. alive' = alive /\ working' = working
      BY <2>4 DEF Recover, Observe, CheckOwner, Revalidate, RemoveDead,
         ReportRecovered, AbandonRecovery, Running
    <3>2. lock' = lock \/ (lock # None /\ ~alive[lock] /\ lock' = None)
      BY <2>4 DEF Recover, Observe, CheckOwner, Revalidate, RemoveDead,
         ReportRecovered, AbandonRecovery, RGoto, Return, SerialInv, RecovererInv
    <3> QED BY <3>1, <3>2 DEF Abstract!Next, Abstract!Reclaim, Abstract!vars
  <2>5. CASE UNCHANGED vars
    BY <2>5 DEF vars, Abstract!vars, Running
  <2> QED BY <2>1, <2>2, <2>3, <2>4, <2>5 DEF Next
<1> QED BY <1>1, <1>2, SerialInvariant, PTL
        DEF Spec, ImplementsExclusiveLock, Abstract!Spec
=============================================================================
