------------------------ MODULE ChangeWaiverProofs ------------------------
(***************************************************************************)
(* Theorems about ChangeRecord and ChangeWaiver for every set of           *)
(* requirements, every bound, and with interrupted commands.               *)
(*                                                                         *)
(* First the record of the change, alone and beside waivers and TDD        *)
(* cycles: its sequence numbers stay paired with the order log, phases     *)
(* stay in order, and no refresh meets a malformed Quality lineage.  Then  *)
(* the waivers: an active one saw all that its diagnostic is about, and a  *)
(* stale one stays stale.                                                  *)
(***************************************************************************)
EXTENDS ChangeWaiver, TLAPS

USE ReqAssumption, ChangeBoundAssumption, NoneIsNoIdentity

-----------------------------------------------------------------------------
(* Identities                                                              *)

\* What else is appended to the log of a change: the phases of other changes,
\* and of the change's own waivers and TDD cycles.
WaiverKey == {"waiver"} \X WaiverScope \X Nat
CycleKey == {"tdd"} \X Nat \X {"red", "green", "void"}
Others == Other \cup WaiverKey \cup CycleKey
AnyIdentity == Identity \cup ({"other"} \X Others)

\* A step of the record of a change, whatever shares its log.
RecordStep == Next \/ \E o \in Others : RecordOther(<<"other", o>>)

RecordType ==
    /\ log \in Seq(AnyIdentity)
    /\ Len(log) <= MaxLog
    /\ at \in [Slot -> 0..MaxLog]
    /\ quality \in 0..MaxLog
    /\ history \in Seq(Nat)
    /\ pending \in Slot \cup {QualityIdentity(1), None}

\* Identities of phases, Quality checkpoints and others do not meet.
LEMMA IdentitiesDiffer ==
    /\ Slot \subseteq Identity /\ Identity \subseteq AnyIdentity
    /\ \A n \in Nat : QualityIdentity(n) \in Identity
    /\ \A o \in Other : <<"other", o>> \in Identity /\ o \in Others
    /\ \A o \in Others : <<"other", o>> \in AnyIdentity
    /\ \A slot \in Slot : slot[1] # "quality"
    /\ \A n \in Nat : QualityIdentity(n)[1] = "quality"
    /\ \A o \in Others : <<"other", o>>[1] = "other" /\ "other" # "quality"
    /\ \A slot \in Slot, n \in Nat : slot # QualityIdentity(n)
    /\ \A m, n \in Nat : QualityIdentity(m) = QualityIdentity(n) => m = n
    /\ \A id \in AnyIdentity : id[1] = "quality" => \E n \in Nat : id = QualityIdentity(n)
    /\ None \notin Slot
    /\ \A n \in Nat : None # QualityIdentity(n)
    /\ Req \in Batch
BY DEF Slot, Identity, AnyIdentity, Others, QualityIdentity, BatchPhase, Batch

\* What precedes a slot is its prerequisite, and another slot.
LEMMA PrecedesIsPrerequisite ==
    ASSUME NEW slot \in Slot, NEW next \in Slot, Precedes(slot, next),
           Prerequisite(next[1], next[2])
    PROVE  at[slot] # 0 /\ slot # next
<1>1. CASE slot = <<"impact", Req>> /\ next = <<"requirements", Req>>
  BY <1>1 DEF Prerequisite, Recorded
<1>2. CASE slot = <<"requirements", Req>> /\ next = <<"design", Req>>
  BY <1>2 DEF Prerequisite, Recorded
<1>3. ASSUME NEW reqs \in Batch,
             slot = <<"design", Req>> /\ next = <<"red", reqs>>
      PROVE  at[slot] # 0 /\ slot # next
  BY <1>3 DEF Prerequisite, Recorded
<1>4. ASSUME NEW reqs \in Batch,
             slot = <<"red", reqs>> /\ next = <<"implementation", reqs>>
      PROVE  at[slot] # 0 /\ slot # next
  BY <1>4 DEF Prerequisite, Recorded
<1>5. ASSUME NEW reqs \in Batch,
             slot = <<"implementation", reqs>> /\ next = <<"green", reqs>>
      PROVE  at[slot] # 0 /\ slot # next
  BY <1>5 DEF Prerequisite, Recorded
<1> QED BY <1>1, <1>2, <1>3, <1>4, <1>5 DEF Precedes

-----------------------------------------------------------------------------
(* Types                                                                   *)

LEMMA TypePreserved == ASSUME TypeOK, [Next]_vars PROVE TypeOK'
<1> USE DEF TypeOK
<1>1. ASSUME NEW slot \in Slot, RecordPhase(slot) PROVE TypeOK'
  BY <1>1, IdentitiesDiffer DEF RecordPhase, Push
<1>2. ASSUME NEW other \in Other, RecordOther(<<"other", other>>) PROVE TypeOK'
  BY <1>2, IdentitiesDiffer DEF RecordOther, Push
<1>3. CASE RecordQuality
  BY <1>3, IdentitiesDiffer DEF RecordQuality, Push
<1>4. CASE WriteChanges
  BY <1>4, IdentitiesDiffer DEF WriteChanges
<1>5. CASE LoseChanges
  BY <1>5 DEF LoseChanges
<1>6. CASE RefreshQuality
  <2>1. QualityIdentity(Len(history) + 2) \in Identity
    BY IdentitiesDiffer
  <2> QED BY <1>6, <2>1 DEF RefreshQuality, Push
<1>7. CASE UNCHANGED vars
  BY <1>7 DEF vars
<1> QED BY <1>1, <1>2, <1>3, <1>4, <1>5, <1>6, <1>7 DEF Next

\* The variables keep their types: in particular sequence numbers stay within
\* the log, and the Quality history is a sequence of them.
THEOREM TypeCorrect == Spec => []TypeOK
<1>1. Init => TypeOK
  BY DEF Init, TypeOK
<1> QED BY <1>1, TypePreserved, PTL DEF Spec

-----------------------------------------------------------------------------
(* The inductive invariant                                                 *)

\* The outstanding write is that of the last order record, whose checks it
\* passed and still passes.
PendingInv ==
    pending # None =>
        /\ Len(log) > 0
        /\ log[Len(log)] = pending
        /\ pending \in Slot => Acceptable(pending)
        /\ pending = QualityIdentity(1) => QualityAcceptable

\* What is recorded had its prerequisite recorded.
PrerequisiteInv ==
    \A slot \in Slot : at[slot] # 0 => Prerequisite(slot[1], slot[2])

\* A lineage that exists is paired; before it, only a first Quality can have
\* been appended (and lost).
LineageInv ==
    /\ quality # 0 => LineagePaired
    /\ quality = 0 =>
          /\ history = <<>>
          /\ \A i \in DOMAIN log : log[i][1] = "quality" => log[i] = QualityIdentity(1)

IInv ==
    /\ RecordType
    /\ OrdersPaired
    /\ PendingInv
    /\ PrerequisiteInv
    /\ PhasesInOrder
    /\ LineageInv
    /\ QualityProven

-----------------------------------------------------------------------------
(* How a step changes what the conjuncts speak of                          *)

\* An order record appended is new and last; the others stay.
LEMMA PushAppends ==
    ASSUME RecordType, NEW id \in AnyIdentity, Push(id)
    PROVE  /\ pending = None
           /\ Len(log') = Len(log) + 1
           /\ DOMAIN log' = (DOMAIN log) \cup {Len(log) + 1}
           /\ log'[Len(log) + 1] = id
           /\ \A i \in DOMAIN log : log'[i] = log[i] /\ log[i] # id
BY DEF Push, Logged, RecordType

\* The write of an outstanding phase: its slot was free.
LEMMA WritesPhase ==
    ASSUME IInv, WriteChanges, pending # QualityIdentity(1)
    PROVE  /\ pending \in Slot
           /\ at' = [at EXCEPT ![pending] = Len(log)]
           /\ UNCHANGED <<log, quality, history>>
           /\ at[pending] = 0
           /\ Prerequisite(pending[1], pending[2])
           /\ Len(log) \in DOMAIN log
           /\ log[Len(log)] = pending
BY DEF IInv, RecordType, PendingInv, WriteChanges, Acceptable

\* The write of the first Quality.
LEMMA WritesQuality ==
    ASSUME IInv, WriteChanges, pending = QualityIdentity(1)
    PROVE  /\ UNCHANGED <<log, at, history>>
           /\ quality = 0 /\ history = <<>>
           /\ quality' = Len(log)
           /\ Len(log) \in DOMAIN log
           /\ log[Len(log)] = QualityIdentity(1)
           /\ QualityAcceptable
BY DEF IInv, RecordType, PendingInv, WriteChanges, QualityAcceptable, LineageInv

\* A refresh is one order record and one checkpoint more.
LEMMA Refreshes ==
    ASSUME IInv, RefreshQuality
    PROVE  /\ UNCHANGED at
           /\ pending = None /\ pending' = None
           /\ quality # 0 /\ LineagePaired
           /\ Lineage = Append(history, quality)
           /\ Lineage' = Append(Lineage, Len(log) + 1)
           /\ Len(Lineage) = Len(history) + 1
           /\ Lineage \in Seq(Nat)
           /\ QualityIdentity(Len(Lineage) + 1) \in AnyIdentity
           /\ Push(QualityIdentity(Len(Lineage) + 1))
           /\ quality' = Len(log) + 1
<1> USE DEF IInv, RecordType
<1>1. pending = None /\ quality # 0 /\ LineagePaired /\ quality' = Len(log) + 1
  BY DEF RefreshQuality, RefreshAcceptable, Push
<1>2. Lineage = Append(history, quality) /\ Lineage' = Append(history', quality')
  BY <1>1 DEF Lineage
<1>3. Lineage \in Seq(Nat) /\ Len(Lineage) = Len(history) + 1
  BY <1>2
<1>4. Len(Lineage) + 1 = Len(history) + 2
  BY <1>3
<1>5. Push(QualityIdentity(Len(Lineage) + 1))
  BY <1>4 DEF RefreshQuality
<1>6. QualityIdentity(Len(Lineage) + 1) \in AnyIdentity
  BY <1>3, IdentitiesDiffer
<1>7. /\ UNCHANGED <<at, pending>>
      /\ history' = Append(history, quality)
  BY DEF RefreshQuality
<1> QED BY <1>1, <1>2, <1>3, <1>5, <1>6, <1>7

-----------------------------------------------------------------------------
(* One lemma per conjunct of the invariant                                 *)

LEMMA RecordTypePreserved == ASSUME RecordType, [RecordStep]_vars PROVE RecordType'
<1> USE DEF RecordType
<1>1. ASSUME NEW slot \in Slot, RecordPhase(slot) PROVE RecordType'
  BY <1>1, IdentitiesDiffer DEF RecordPhase, Push
<1>2. ASSUME NEW other \in Others, RecordOther(<<"other", other>>) PROVE RecordType'
  BY <1>2, IdentitiesDiffer DEF RecordOther, Push
<1>3. CASE RecordQuality
  BY <1>3, IdentitiesDiffer DEF RecordQuality, Push
<1>4. CASE WriteChanges
  BY <1>4, IdentitiesDiffer DEF WriteChanges
<1>5. CASE LoseChanges
  BY <1>5 DEF LoseChanges
<1>6. CASE RefreshQuality
  <2>1. QualityIdentity(Len(history) + 2) \in AnyIdentity
    BY IdentitiesDiffer
  <2> QED BY <1>6, <2>1 DEF RefreshQuality, Push
<1>7. CASE UNCHANGED vars
  BY <1>7 DEF vars
<1> QED BY <1>1, <1>2, <1>3, <1>4, <1>5, <1>6, <1>7 DEF RecordStep, Next, Others

LEMMA PairedPreserved == ASSUME IInv, [RecordStep]_vars PROVE OrdersPaired'
<1> USE DEF IInv, OrdersPaired, Mismatched
<1>1. ASSUME NEW id \in AnyIdentity, Push(id), UNCHANGED at PROVE OrdersPaired'
  <2>1. \A slot \in Slot : ~Mismatched(slot)'
    BY <1>1, PushAppends
  <2>2. \A i, j \in DOMAIN log' : log'[i] = log'[j] => i = j
    BY <1>1, PushAppends
  <2> QED BY <2>1, <2>2
<1>2. ASSUME NEW slot \in Slot, RecordPhase(slot) PROVE OrdersPaired'
  BY <1>1, <1>2, IdentitiesDiffer DEF RecordPhase
<1>3. ASSUME NEW other \in Others, RecordOther(<<"other", other>>) PROVE OrdersPaired'
  BY <1>1, <1>3, IdentitiesDiffer DEF RecordOther
<1>4. CASE RecordQuality
  BY <1>1, <1>4, IdentitiesDiffer DEF RecordQuality
<1>5. CASE WriteChanges
  <2>1. CASE pending = QualityIdentity(1)
    BY <1>5, <2>1, WritesQuality
  <2>2. CASE pending # QualityIdentity(1)
    BY <1>5, <2>2, WritesPhase DEF RecordType
  <2> QED BY <2>1, <2>2
<1>6. CASE LoseChanges
  BY <1>6 DEF LoseChanges
<1>7. CASE RefreshQuality
  BY <1>1, <1>7, Refreshes
<1>8. CASE UNCHANGED vars
  BY <1>8 DEF vars
<1> QED BY <1>2, <1>3, <1>4, <1>5, <1>6, <1>7, <1>8 DEF RecordStep, Next, Others

LEMMA PendingPreserved == ASSUME IInv, [RecordStep]_vars PROVE PendingInv'
<1> USE DEF IInv, PendingInv
<1>1. ASSUME NEW slot \in Slot, RecordPhase(slot) PROVE PendingInv'
  <2>1. Acceptable(slot) /\ UNCHANGED at /\ pending' = slot /\ Push(slot)
    BY <1>1 DEF RecordPhase
  <2>2. Acceptable(slot)'
    BY <2>1 DEF Acceptable, Prerequisite, Recorded
  <2>3. pending' # QualityIdentity(1)
    BY <2>1, IdentitiesDiffer
  <2>4. Len(log') > 0 /\ log'[Len(log')] = slot
    BY <2>1, PushAppends, IdentitiesDiffer DEF RecordType
  <2> QED BY <2>1, <2>2, <2>3, <2>4 DEF QualityIdentity
<1>2. ASSUME NEW other \in Others, RecordOther(<<"other", other>>) PROVE PendingInv'
  BY <1>2 DEF RecordOther, Push
<1>3. CASE RecordQuality
  <2>1. /\ QualityAcceptable /\ UNCHANGED <<at, quality>>
        /\ pending' = QualityIdentity(1) /\ Push(QualityIdentity(1))
    BY <1>3 DEF RecordQuality
  <2>2. QualityAcceptable'
    BY <2>1 DEF QualityAcceptable, Recorded
  <2>3. pending' \notin Slot
    BY <2>1, IdentitiesDiffer
  <2>4. QualityIdentity(1) \in AnyIdentity
    BY IdentitiesDiffer
  <2>5. Len(log') > 0 /\ log'[Len(log')] = QualityIdentity(1)
    BY <2>1, <2>4, PushAppends DEF RecordType
  <2> QED BY <2>1, <2>2, <2>3, <2>5
<1>4. CASE WriteChanges \/ LoseChanges
  BY <1>4 DEF WriteChanges, LoseChanges
<1>5. CASE RefreshQuality
  BY <1>5, Refreshes
<1>6. CASE UNCHANGED vars
  <2>1. (\A slot \in Slot : Acceptable(slot)' <=> Acceptable(slot))
        /\ (QualityAcceptable' <=> QualityAcceptable)
    BY <1>6 DEF vars, Acceptable, QualityAcceptable, Prerequisite, Recorded
  <2> QED BY <1>6, <2>1 DEF vars
<1> QED BY <1>1, <1>2, <1>3, <1>4, <1>5, <1>6 DEF RecordStep, Next, Others

LEMMA PrerequisitePreserved == ASSUME IInv, [RecordStep]_vars PROVE PrerequisiteInv'
<1> USE DEF IInv, PrerequisiteInv
<1>1. ASSUME UNCHANGED at PROVE PrerequisiteInv'
  BY <1>1 DEF Prerequisite, Recorded
<1>2. CASE WriteChanges
  <2>1. CASE pending = QualityIdentity(1)
    BY <1>1, <1>2, <2>1, WritesQuality
  <2>2. CASE pending # QualityIdentity(1)
    <3> SUFFICES ASSUME NEW slot \in Slot, at'[slot] # 0
                 PROVE  Prerequisite(slot[1], slot[2])'
      OBVIOUS
    <3>1. Prerequisite(slot[1], slot[2])
      BY <1>2, <2>2, WritesPhase DEF RecordType
    <3>2. \A s \in Slot : at[s] # 0 => at'[s] # 0
      BY <1>2, <2>2, WritesPhase DEF RecordType
    <3>3. <<"impact", Req>> \in Slot /\ <<"requirements", Req>> \in Slot
          /\ <<"design", Req>> \in Slot
      BY DEF Slot
    <3>4. /\ slot[1] = "implementation" => <<"red", slot[2]>> \in Slot
          /\ slot[1] = "green" => <<"implementation", slot[2]>> \in Slot
      BY DEF Slot, BatchPhase
    <3> QED BY <3>1, <3>2, <3>3, <3>4 DEF Prerequisite, Recorded
  <2> QED BY <2>1, <2>2
<1>3. CASE RecordStep /\ ~WriteChanges
  BY <1>1, <1>3 DEF RecordStep, Next, Others, RecordPhase, RecordQuality, LoseChanges,
                    RefreshQuality, RecordOther
<1> QED BY <1>1, <1>2, <1>3 DEF vars

LEMMA PhasesPreserved == ASSUME IInv, [RecordStep]_vars PROVE PhasesInOrder'
<1> USE DEF IInv, PhasesInOrder, Inverted
<1>1. ASSUME UNCHANGED at PROVE PhasesInOrder'
  BY <1>1 DEF Precedes
<1>2. CASE WriteChanges
  <2>1. CASE pending = QualityIdentity(1)
    BY <1>1, <1>2, <2>1, WritesQuality
  <2>2. CASE pending # QualityIdentity(1)
    <3> SUFFICES ASSUME NEW slot \in Slot, NEW next \in Slot, Precedes(slot, next)
                 PROVE  ~Inverted(slot, next)'
      BY DEF Precedes
    <3>1. CASE next = pending
      <4>1. at[slot] # 0 /\ slot # next
        BY <1>2, <2>2, <3>1, WritesPhase, PrecedesIsPrerequisite
      <4>2. at[slot] \in DOMAIN log /\ log[at[slot]] = slot
        BY <4>1 DEF OrdersPaired, Mismatched
      <4>3. at[slot] < Len(log)
        BY <1>2, <2>2, <3>1, <4>1, <4>2, WritesPhase DEF RecordType
      <4> QED BY <1>2, <2>2, <3>1, <4>1, <4>3, WritesPhase DEF RecordType
    <3>2. CASE next # pending /\ slot = pending
      <4>1. at[next] = 0
        BY <1>2, <2>2, <3>2, WritesPhase, PrecedesIsPrerequisite
           DEF PrerequisiteInv
      <4> QED BY <1>2, <2>2, <3>2, <4>1, WritesPhase DEF RecordType
    <3>3. CASE next # pending /\ slot # pending
      BY <1>2, <2>2, <3>3, WritesPhase DEF RecordType
    <3> QED BY <3>1, <3>2, <3>3
  <2> QED BY <2>1, <2>2
<1>3. CASE RecordStep /\ ~WriteChanges
  BY <1>1, <1>3 DEF RecordStep, Next, Others, RecordPhase, RecordQuality, LoseChanges,
                    RefreshQuality, RecordOther
<1> QED BY <1>1, <1>2, <1>3 DEF vars

\* An order record that is no Quality, or is the first, leaves the lineage be.
LEMMA PushKeepsLineage ==
    ASSUME IInv, NEW id \in AnyIdentity, Push(id), UNCHANGED <<quality, history>>,
           id[1] # "quality" \/ (quality = 0 /\ id = QualityIdentity(1))
    PROVE  LineageInv'
<1>1. Lineage' = Lineage
  BY DEF Lineage
<1>2. CASE quality # 0
  <2>1. LineagePaired /\ id[1] # "quality"
    BY <1>2 DEF IInv, LineageInv
  <2>2. LineagePaired'
    BY <1>1, <2>1, PushAppends DEF IInv, LineagePaired
  <2> QED BY <1>2, <2>2 DEF LineageInv
<1>3. CASE quality = 0
  BY <1>3, PushAppends DEF IInv, LineageInv
<1> QED BY <1>2, <1>3

LEMMA LineagePreserved == ASSUME IInv, [RecordStep]_vars PROVE LineageInv'
<1>1. ASSUME NEW slot \in Slot, RecordPhase(slot) PROVE LineageInv'
  BY <1>1, PushKeepsLineage, IdentitiesDiffer DEF RecordPhase
<1>2. ASSUME NEW other \in Others, RecordOther(<<"other", other>>) PROVE LineageInv'
  BY <1>2, PushKeepsLineage, IdentitiesDiffer DEF RecordOther
<1>3. CASE RecordQuality
  BY <1>3, PushKeepsLineage, IdentitiesDiffer DEF RecordQuality, QualityAcceptable
<1>4. CASE WriteChanges /\ pending = QualityIdentity(1)
  <2>1. Lineage' = <<Len(log)>> /\ log' = log /\ quality' # 0
    BY <1>4, WritesQuality DEF Lineage
  <2>2. \A i \in DOMAIN log : log[i][1] = "quality" => log[i] = QualityIdentity(1)
    BY <1>4, WritesQuality DEF IInv, LineageInv
  <2>3. DOMAIN Lineage' = {1} /\ Lineage'[1] = Len(log)
    BY <2>1
  <2>4. LineagePaired'
    BY <1>4, <2>1, <2>2, <2>3, WritesQuality DEF LineagePaired
  <2> QED BY <2>1, <2>4 DEF LineageInv
<1>5. ASSUME UNCHANGED <<log, quality, history>> PROVE LineageInv'
  BY <1>5 DEF IInv, LineageInv, LineagePaired, Lineage
<1>6. CASE RefreshQuality
  <2> DEFINE last == Len(Lineage) + 1
  <2>1. /\ DOMAIN Lineage' = (DOMAIN Lineage) \cup {last}
        /\ \A n \in DOMAIN Lineage : Lineage'[n] = Lineage[n]
        /\ Lineage'[last] = Len(log) + 1
        /\ last \in Nat /\ last \notin DOMAIN Lineage
        /\ \A n \in DOMAIN Lineage : n < last
    BY <1>6, Refreshes
  <2>2. /\ DOMAIN log' = (DOMAIN log) \cup {Len(log) + 1}
        /\ log'[Len(log) + 1] = QualityIdentity(last)
        /\ \A i \in DOMAIN log : log'[i] = log[i]
    BY <1>6, Refreshes, PushAppends DEF IInv
  <2>3. quality' # 0 /\ LineagePaired
    BY <1>6, Refreshes DEF IInv, RecordType
  <2>4. ASSUME NEW n \in DOMAIN Lineage'
        PROVE  /\ Lineage'[n] \in DOMAIN log'
               /\ log'[Lineage'[n]] = QualityIdentity(n)
               /\ \A m \in 1..(n - 1) : Lineage'[m] < Lineage'[n]
    <3>1. CASE n \in DOMAIN Lineage
      <4>1. \A m \in 1..(n - 1) : m \in DOMAIN Lineage
        BY <1>6, <3>1, Refreshes
      <4> QED BY <2>1, <2>2, <2>3, <3>1, <4>1 DEF LineagePaired
    <3>2. CASE n = last
      <4>1. \A m \in 1..(n - 1) : m \in DOMAIN Lineage
        BY <1>6, <3>2, Refreshes
      <4>2. \A m \in DOMAIN Lineage : Lineage[m] < Len(log) + 1
        BY <2>3 DEF LineagePaired, IInv, RecordType
      <4> QED BY <2>1, <2>2, <3>2, <4>1, <4>2
    <3> QED BY <2>1, <3>1, <3>2
  <2>5. \A i \in DOMAIN log' : log'[i][1] = "quality" =>
            \E n \in DOMAIN Lineage' : log'[i] = QualityIdentity(n)
    BY <2>1, <2>2, <2>3 DEF LineagePaired
  <2>6. LineagePaired'
    BY <2>4, <2>5 DEF LineagePaired
  <2> QED BY <2>3, <2>6 DEF LineageInv
<1>7. CASE WriteChanges /\ pending # QualityIdentity(1)
  BY <1>5, <1>7, WritesPhase
<1>8. CASE LoseChanges \/ UNCHANGED vars
  BY <1>5, <1>8 DEF LoseChanges, vars
<1> QED BY <1>1, <1>2, <1>3, <1>4, <1>6, <1>7, <1>8 DEF RecordStep, Next, Others

\* A Green of every requirement, all before sequence number n.
GreenBefore(n) ==
    \A q \in Req : \E reqs \in Batch :
        q \in reqs /\ Recorded("green", reqs) /\ Order("green", reqs) < n

LEMMA ProvenPreserved == ASSUME IInv, [RecordStep]_vars PROVE QualityProven'
<1> USE DEF IInv
<1>1. ASSUME UNCHANGED <<at, quality, history>> PROVE QualityProven'
  BY <1>1 DEF QualityProven, Lineage, Recorded, Order
<1>2. \A reqs \in Batch : <<"green", reqs>> \in Slot
  BY DEF Slot, BatchPhase
<1>3. \A n \in DOMAIN Lineage : GreenBefore(Lineage[n])
  BY DEF QualityProven, GreenBefore
<1>4. CASE WriteChanges /\ pending = QualityIdentity(1)
  <2>1. \A slot \in Slot : at[slot] # 0 => at[slot] < Len(log)
    <3> SUFFICES ASSUME NEW slot \in Slot, at[slot] # 0 PROVE at[slot] < Len(log)
      OBVIOUS
    <3>1. at[slot] \in DOMAIN log /\ log[at[slot]] = slot
      BY DEF OrdersPaired, Mismatched
    <3>2. slot # QualityIdentity(1)
      BY IdentitiesDiffer
    <3>3. log[Len(log)] = QualityIdentity(1)
      BY <1>4, WritesQuality
    <3> QED BY <3>1, <3>2, <3>3 DEF RecordType
  <2>2. GreenBefore(Len(log))
    BY <1>2, <1>4, <2>1, WritesQuality
       DEF GreenBefore, QualityAcceptable, Recorded, Order
  <2>3. DOMAIN Lineage' = {1} /\ Lineage'[1] = Len(log) /\ at' = at
    BY <1>4, WritesQuality DEF Lineage, RecordType
  <2> QED BY <2>2, <2>3 DEF QualityProven, GreenBefore, Recorded, Order
<1>5. CASE WriteChanges /\ pending # QualityIdentity(1)
  <2>1. Lineage' = Lineage
    BY <1>5, WritesPhase DEF Lineage
  <2>2. \A slot \in Slot : at[slot] # 0 => at'[slot] = at[slot]
    BY <1>5, WritesPhase DEF RecordType
  <2>3. \A n : GreenBefore(n) => GreenBefore(n)'
    BY <1>2, <2>2 DEF GreenBefore, Recorded, Order
  <2> QED BY <1>3, <2>1, <2>3 DEF QualityProven, GreenBefore
<1>6. CASE RefreshQuality
  <2>1. /\ DOMAIN Lineage' = (DOMAIN Lineage) \cup {Len(Lineage) + 1}
        /\ \A n \in DOMAIN Lineage : Lineage'[n] = Lineage[n]
        /\ Lineage'[Len(Lineage) + 1] = Len(log) + 1
        /\ at' = at
    BY <1>6, Refreshes
  <2>2. Len(Lineage) \in DOMAIN Lineage /\ Lineage[Len(Lineage)] \in DOMAIN log
    BY <1>6, Refreshes DEF LineagePaired, RecordType
  <2>3. GreenBefore(Len(log) + 1)
    <3>1. GreenBefore(Lineage[Len(Lineage)])
      BY <1>3, <2>2
    <3>2. \A slot \in Slot : at[slot] \in Nat
      BY DEF RecordType
    <3>3. \A slot \in Slot :
             at[slot] < Lineage[Len(Lineage)] => at[slot] < Len(log) + 1
      BY <2>2, <3>2 DEF RecordType
    <3> QED BY <1>2, <3>1, <3>3 DEF GreenBefore, Order
  <2> QED BY <1>3, <2>1, <2>3 DEF QualityProven, GreenBefore, Recorded, Order
<1>7. CASE UNCHANGED vars
  BY <1>1, <1>7 DEF vars
<1>8. CASE RecordStep /\ ~WriteChanges /\ ~RefreshQuality
  BY <1>1, <1>8 DEF RecordStep, Next, Others, RecordPhase, RecordQuality, LoseChanges, RecordOther
<1> QED BY <1>4, <1>5, <1>6, <1>7, <1>8

-----------------------------------------------------------------------------
(* The record of a change by itself                                        *)

LEMMA RecordInit == Init => IInv
<1> SUFFICES ASSUME Init PROVE IInv
  OBVIOUS
<1> USE DEF Init
<1>1. RecordType
  BY DEF RecordType
<1>2. OrdersPaired
  BY DEF OrdersPaired, Mismatched
<1>3. PendingInv /\ PrerequisiteInv
  BY DEF PendingInv, PrerequisiteInv
<1>4. PhasesInOrder
  BY DEF PhasesInOrder, Inverted
<1>5. LineageInv /\ QualityProven
  BY DEF LineageInv, QualityProven, Lineage
<1> QED BY <1>1, <1>2, <1>3, <1>4, <1>5 DEF IInv

LEMMA RecordPreserved == IInv /\ [RecordStep]_vars => IInv'
BY RecordTypePreserved, PairedPreserved, PendingPreserved, PrerequisitePreserved,
   PhasesPreserved, LineagePreserved, ProvenPreserved DEF IInv

LEMMA InvariantHolds == Spec => []IInv
<1>1. [Next]_vars => [RecordStep]_vars
  BY DEF RecordStep
<1> QED BY <1>1, RecordInit, RecordPreserved, PTL DEF Spec

\* Every recorded sequence number names the order record of its own phase, and
\* the log repeats no identity, however the writes are interrupted.
THEOREM RecordsStayPaired == Spec => []OrdersPaired
<1>1. IInv => OrdersPaired
  BY DEF IInv
<1> QED BY <1>1, InvariantHolds, PTL

\* The recorder's prerequisite checks keep every pair of consecutive phases of
\* the change and of each batch in ascending order.
THEOREM PhasesStayInOrder == Spec => []PhasesInOrder
<1>1. IInv => PhasesInOrder
  BY DEF IInv
<1> QED BY <1>1, InvariantHolds, PTL

\* A change at rest never has a malformed Quality lineage.
THEOREM LineageIsSound == Spec => []LineageSound
<1>1. IInv => LineageSound
  BY DEF IInv, LineageInv, LineageSound, LineageMalformed
<1> QED BY <1>1, InvariantHolds, PTL

\* Every retained checkpoint, superseded or not, follows a Green of every
\* requirement.
THEOREM QualityIsProven == Spec => []QualityProven
<1>1. IInv => QualityProven
  BY DEF IInv
<1> QED BY <1>1, InvariantHolds, PTL

\* No evidence is dropped, overwritten or renumbered.
Kept ==
    /\ \A i \in DOMAIN log : i \in DOMAIN log' /\ log'[i] = log[i]
    /\ \A slot \in Slot : at[slot] # 0 => at'[slot] = at[slot]
    /\ \A n \in DOMAIN Lineage : n \in DOMAIN Lineage' /\ Lineage'[n] = Lineage[n]

LEMMA RecordKept == ASSUME IInv, RecordStep PROVE Kept
<1> USE DEF Kept
<1>1. ASSUME NEW id \in AnyIdentity, Push(id), UNCHANGED <<at, quality, history>>
      PROVE  Kept
  <2>1. Lineage' = Lineage
    BY <1>1 DEF Lineage
  <2>2. \A i \in DOMAIN log : i \in DOMAIN log' /\ log'[i] = log[i]
    BY <1>1, PushAppends DEF IInv
  <2> QED BY <1>1, <2>1, <2>2
<1>2. ASSUME NEW slot \in Slot, RecordPhase(slot) PROVE Kept
  BY <1>1, <1>2, IdentitiesDiffer DEF RecordPhase
<1>3. ASSUME NEW other \in Others, RecordOther(<<"other", other>>) PROVE Kept
  BY <1>1, <1>3, IdentitiesDiffer DEF RecordOther
<1>4. CASE RecordQuality
  BY <1>1, <1>4, IdentitiesDiffer DEF RecordQuality
<1>5. CASE WriteChanges /\ pending = QualityIdentity(1)
  <2>1. Lineage = <<>> /\ log' = log /\ at' = at
    BY <1>5, WritesQuality DEF Lineage
  <2> QED BY <2>1
<1>6. CASE WriteChanges /\ pending # QualityIdentity(1)
  <2>1. Lineage' = Lineage /\ log' = log
    BY <1>6, WritesPhase DEF Lineage
  <2>2. \A slot \in Slot : at[slot] # 0 => at'[slot] = at[slot]
    BY <1>6, WritesPhase DEF IInv, RecordType
  <2> QED BY <2>1, <2>2
<1>7. CASE LoseChanges
  BY <1>7 DEF LoseChanges, Lineage
<1>8. CASE RefreshQuality
  <2>1. \A i \in DOMAIN log : i \in DOMAIN log' /\ log'[i] = log[i]
    BY <1>8, Refreshes, PushAppends DEF IInv
  <2>2. \A n \in DOMAIN Lineage : n \in DOMAIN Lineage' /\ Lineage'[n] = Lineage[n]
    BY <1>8, Refreshes
  <2>3. at' = at
    BY <1>8, Refreshes
  <2> QED BY <2>1, <2>2, <2>3
<1> QED BY <1>2, <1>3, <1>4, <1>5, <1>6, <1>7, <1>8 DEF RecordStep, Next, Others

\* No step drops, overwrites or renumbers evidence.
THEOREM EvidenceIsAppendOnly == Spec => AppendOnly
<1>1. IInv /\ [Next]_vars => [Kept]_vars
  BY RecordKept DEF RecordStep
<1>2. Spec => [][Kept]_vars
  BY <1>1, InvariantHolds, PTL DEF Spec
<1> QED BY <1>2 DEF AppendOnly, Kept

-----------------------------------------------------------------------------
(* The inductive invariant of the waivers                                  *)

\* What there can be in a snapshot of each kind.
RecordSnapshot ==
    [text : Text, notes : Seq(Nat)] \X BOOLEAN
        \X ([Slot -> 0..MaxLog] \X (0..MaxLog) \X Seq(Nat))
PhaseSnapshot == {<<s>> : s \in SUBSET Req} \cup {<<n>> : n \in 0..MaxLog}
ProofSnapshot ==
    Nat \X Nat \X Nat \X Nat \X (SUBSET (Nat \X Nat)) \X (SUBSET Nat)

CycleRecord == [req : Req, red : Nat, green : Nat, void : Nat]
Waiver ==
    [scope : Waived, snapshot : RecordSnapshot \cup PhaseSnapshot \cup ProofSnapshot,
     order : Nat]

\* The waivers, written or about to be.
Held == {waivers[n] : n \in DOMAIN waivers} \cup {draft[n] : n \in DOMAIN draft}

HumanType ==
    /\ document \in [text : Text, notes : Seq(Nat)]
    /\ cycles \in Seq(CycleRecord)
    /\ waivers \in Seq(Waiver)
    /\ draft \in Seq(Waiver)
    /\ Len(draft) <= 1

\* The cycles' sequence numbers are those of the log, and Reds differ.
CyclesInv ==
    /\ \A n \in DOMAIN cycles :
          /\ cycles[n].red > 0
          /\ cycles[n].red <= Len(log)
          /\ cycles[n].green <= Len(log)
          /\ cycles[n].void <= Len(log)
    /\ \A m, n \in DOMAIN cycles : cycles[m].red = cycles[n].red => m = n

\* Before anything is written of the change only its impact can be logged.
UnwrittenInv ==
    ~ChangeExists =>
        \A i \in DOMAIN log : log[i][1] # "other" => log[i] = <<"impact", Req>>

IsPhase(id) == id \in Slot \/ id[1] = "quality"

\* All that the snapshot of a waiver speaks of is before it in the log.
Seen(w) ==
    /\ w.order \in DOMAIN log
    /\ w.scope[1] = "RECORD_MISSING" =>
          (w.snapshot[2] <=> \E i \in DOMAIN log : i < w.order /\ IsPhase(log[i]))
    /\ w.scope[1] \in Unproven =>
          /\ w.snapshot \in ProofSnapshot
          /\ w.snapshot[2] < w.order /\ w.snapshot[3] < w.order /\ w.snapshot[4] < w.order
          /\ \A r \in w.snapshot[5] : r[1] < w.order /\ r[2] < w.order
          /\ \A v \in w.snapshot[6] : v < w.order

\* What a proof of q rests on.
Proof(q) ==
    <<Order("requirements", Req), Order0("red", q),
      Order0("implementation", q), Order0("green", q),
      {<<cycles[m].red, cycles[m].green>> : m \in OfReq(q)},
      VoidedInWindow(q)>>

\* How this changes: orders and cycles are added, and a new Red of the batch of
\* q starts everything behind it anew.
Behind(old, new) ==
    /\ old[1] \in {0, new[1]}
    /\ old[2] <= new[2]
    /\ old[2] = new[2] =>
          /\ old[3] \in {0, new[3]}
          /\ old[4] \in {0, new[4]}
          /\ old[1] = new[1] => old[6] \subseteq new[6]
    /\ \A r \in old[5] : \E s \in new[5] : s[1] = r[1] /\ r[2] \in {0, s[2]}

\* A waiver about recorded evidence was reported, and the evidence moved on.
Followed(w) ==
    /\ w.scope[1] # "RECORD_MISSING" => ChangeExists
    /\ w.scope[1] = "PHASE_MISSING" =>
          IF w.scope[2] \in BatchPhase THEN Uncovered(w.scope[2]) \subseteq w.snapshot[1]
          ELSE w.snapshot[1] = 0
    /\ w.scope[1] \in Unproven => Behind(w.snapshot, Proof(w.scope[2]))

WInv ==
    /\ IInv
    /\ HumanType
    /\ CyclesInv
    /\ UnwrittenInv
    /\ \A w \in Held : Seen(w) /\ Followed(w)

-----------------------------------------------------------------------------
(* The waivers' operators                                                  *)

LEMMA ScopeKinds ==
    ASSUME NEW scope \in Waived
    PROVE  /\ scope \in WaiverScope
           /\ scope[1] \in {"RECORD_MISSING", "PHASE_MISSING"} \cup Unproven
           /\ scope[1] = "RECORD_MISSING" => scope[1] # "PHASE_MISSING" /\ scope[1] \notin Unproven
           /\ scope[1] = "PHASE_MISSING" => scope[1] \notin Unproven /\ scope # <<"RECORD_MISSING">>
           /\ scope[1] = "PHASE_MISSING" => scope[2] \in SinglePhase \cup BatchPhase
           /\ scope[1] \in Unproven => scope[2] \in Req /\ scope # <<"RECORD_MISSING">>
           /\ scope[1] = "RECORD_MISSING" <=> scope = <<"RECORD_MISSING">>
BY WaivedAssumption DEF WaiverScope, Unproven

LEMMA SnapshotKinds ==
    ASSUME NEW scope \in Waived, NEW n
    PROVE  /\ scope[1] = "RECORD_MISSING" =>
                 Snapshot(scope, n) = <<Normalized(n), EverRecorded, <<at, quality, history>>>>
           /\ scope[1] = "PHASE_MISSING" /\ scope[2] \in BatchPhase =>
                 Snapshot(scope, n) = <<Uncovered(scope[2])>>
           /\ scope[1] = "PHASE_MISSING" /\ scope[2] \notin BatchPhase =>
                 Snapshot(scope, n) = <<OrderOfPhase(scope[2])>>
           /\ scope[1] \in Unproven => Snapshot(scope, n) = Proof(scope[2])
<1>1. CASE scope[1] = "RECORD_MISSING"
  BY <1>1, ScopeKinds DEF Snapshot
<1>2. CASE scope[1] = "PHASE_MISSING"
  BY <1>2, ScopeKinds DEF Snapshot
<1>3. CASE scope[1] \in Unproven
  BY <1>3, ScopeKinds DEF Snapshot, Proof
<1> QED BY <1>1, <1>2, <1>3, ScopeKinds

\* What is appended for a waiver or a TDD cycle is no phase of the change.
LEMMA WaiverStepRecords ==
    ASSUME HumanType, RecordType, [WaiverNext]_allVars
    PROVE  [RecordStep]_vars
<1>1. ASSUME NEW scope \in Waived, DraftWaiver(scope) PROVE RecordStep
  <2>1. <<"waiver", scope, Len(log) + 1>> \in Others
    BY <1>1, WaivedAssumption DEF Others, WaiverKey, RecordType
  <2>2. RecordOther(WaiverEntry(scope))
    BY <1>1 DEF DraftWaiver, RecordOther
  <2> QED BY <2>1, <2>2 DEF WaiverEntry, RecordStep
<1>2. ASSUME NEW q \in Req, RecordRed(q) PROVE RecordStep
  <2>1. <<"tdd", Len(cycles) + 1, "red">> \in Others
    BY <1>2 DEF Others, CycleKey, HumanType
  <2>2. RecordOther(CycleEntry(Len(cycles) + 1, "red"))
    BY <1>2 DEF RecordRed, RecordOther
  <2> QED BY <2>1, <2>2 DEF CycleEntry, RecordStep
<1>3. ASSUME NEW n \in DOMAIN cycles, RecordGreen(n) PROVE RecordStep
  <2>1. <<"tdd", n, "green">> \in Others
    BY <1>3 DEF Others, CycleKey, HumanType
  <2>2. RecordOther(CycleEntry(n, "green"))
    BY <1>3 DEF RecordGreen, RecordOther
  <2> QED BY <2>1, <2>2 DEF CycleEntry, RecordStep
<1>4. ASSUME NEW n \in DOMAIN cycles, VoidCycle(n) PROVE RecordStep
  <2>1. <<"tdd", n, "void">> \in Others
    BY <1>4 DEF Others, CycleKey, HumanType
  <2>2. RecordOther(CycleEntry(n, "void"))
    BY <1>4 DEF VoidCycle, RecordOther
  <2> QED BY <2>1, <2>2 DEF CycleEntry, RecordStep
<1>5. CASE ChangeStep
  BY <1>5 DEF ChangeStep, RecordStep
<1>6. CASE WriteWaiver \/ LoseWaiver \/ EditDocument
  BY <1>6 DEF WriteWaiver, LoseWaiver, EditDocument
<1>7. CASE UNCHANGED allVars
  BY <1>7 DEF allVars
<1> QED BY <1>1, <1>2, <1>3, <1>4, <1>5, <1>6, <1>7 DEF WaiverNext

-----------------------------------------------------------------------------
(* How the orders of the change move                                       *)

LEMMA SlotOrders ==
    ASSUME IInv
    PROVE  /\ \A s \in Slot : at[s] \in Nat /\ at[s] <= Len(log)
           /\ \A s, t \in Slot : at[s] = at[t] /\ at[s] # 0 => s = t
           /\ Len(log) \in Nat
<1>1. \A s \in Slot : at[s] # 0 => at[s] \in DOMAIN log /\ log[at[s]] = s
  BY DEF IInv, OrdersPaired, Mismatched
<1> QED BY <1>1 DEF IInv, RecordType

LEMMA BatchSlots ==
    /\ \A phase \in BatchPhase, reqs \in Batch : <<phase, reqs>> \in Slot
    /\ <<"impact", Req>> \in Slot /\ <<"requirements", Req>> \in Slot
    /\ <<"design", Req>> \in Slot
    /\ \A s, t \in {"impact", "requirements", "design"} \cup BatchPhase :
          \A a, b : <<s, a>> = <<t, b>> => s = t /\ a = b
    /\ \A reqs \in Batch : reqs \subseteq Req
BY DEF Slot, BatchPhase, Batch

\* A step writes at most one sequence number, which is the last and the largest.
LEMMA OrdersMove ==
    ASSUME IInv, [RecordStep]_vars
    PROVE  \/ at' = at
           \/ \E s \in Slot :
                 /\ at[s] = 0
                 /\ at' = [at EXCEPT ![s] = Len(log)]
                 /\ \A t \in Slot : at[t] < Len(log)
<1>1. CASE WriteChanges /\ pending # QualityIdentity(1)
  <2>1. /\ pending \in Slot /\ at[pending] = 0
        /\ at' = [at EXCEPT ![pending] = Len(log)]
        /\ Len(log) \in DOMAIN log /\ log[Len(log)] = pending
    BY <1>1, WritesPhase
  <2>2. ASSUME NEW t \in Slot PROVE at[t] < Len(log)
    <3>1. at[t] # 0 => at[t] \in DOMAIN log /\ log[at[t]] = t
      BY DEF IInv, OrdersPaired, Mismatched
    <3>2. at[t] # Len(log)
      BY <2>1, <3>1
    <3> QED BY <2>1, <3>2, SlotOrders
  <2> QED BY <2>1, <2>2
<1>2. CASE WriteChanges /\ pending = QualityIdentity(1)
  BY <1>2, WritesQuality
<1>3. CASE RecordStep /\ ~WriteChanges
  BY <1>3 DEF RecordStep, Next, RecordPhase, RecordQuality, LoseChanges, RefreshQuality, RecordOther
<1> QED BY <1>1, <1>2, <1>3 DEF vars

\* At most one batch of a requirement is current.
LEMMA CurrentUnique ==
    ASSUME IInv, NEW q \in Req, NEW reqs \in Current(q)
    PROVE  /\ reqs \in Batch /\ q \in reqs
           /\ Current(q) = {reqs}
           /\ \A phase : Order0(phase, q) = at[<<phase, reqs>>]
           /\ at[<<"red", reqs>>] # 0
           /\ \A b \in Batch : q \in b => at[<<"red", b>>] <= at[<<"red", reqs>>]
<1>1. ASSUME NEW b \in Current(q) PROVE b = reqs
  <2>1. /\ b \in Batch /\ reqs \in Batch /\ q \in b /\ q \in reqs
        /\ at[<<"red", b>>] <= at[<<"red", reqs>>]
        /\ at[<<"red", reqs>>] <= at[<<"red", b>>]
        /\ at[<<"red", b>>] # 0
    BY DEF Current, IsCurrent, Order, Recorded
  <2>2. <<"red", b>> \in Slot /\ <<"red", reqs>> \in Slot
    BY <2>1, BatchSlots DEF BatchPhase
  <2>3. at[<<"red", b>>] = at[<<"red", reqs>>]
    BY <2>1, <2>2, SlotOrders
  <2> QED BY <2>1, <2>2, <2>3, SlotOrders
<1>2. Current(q) = {reqs}
  BY <1>1
<1>3. (CHOOSE b \in Current(q) : TRUE) = reqs
  BY <1>2
<1>4. \A phase : Order0(phase, q) = at[<<phase, reqs>>]
  BY <1>2, <1>3 DEF Order0, Order
<1> QED BY <1>2, <1>4 DEF Current, IsCurrent, Recorded, Order

LEMMA Order0Type ==
    ASSUME IInv, NEW q \in Req, NEW phase \in BatchPhase
    PROVE  Order0(phase, q) \in Nat /\ Order0(phase, q) <= Len(log)
<1>1. CASE Current(q) = {}
  BY <1>1, SlotOrders DEF Order0
<1>2. ASSUME NEW reqs \in Current(q) PROVE Order0(phase, q) \in Nat /\ Order0(phase, q) <= Len(log)
  <2>1. Order0(phase, q) = at[<<phase, reqs>>] /\ reqs \in Batch
    BY <1>2, CurrentUnique
  <2>2. <<phase, reqs>> \in Slot
    BY <2>1, BatchSlots
  <2> QED BY <2>1, <2>2, SlotOrders
<1> QED BY <1>1, <1>2

\* What is current depends on the Reds of the requirement's batches.
LEMMA CurrentKept ==
    ASSUME NEW q \in Req,
           \A b \in Batch : q \in b => at'[<<"red", b>>] = at[<<"red", b>>]
    PROVE  Current(q)' = Current(q)
BY DEF Current, IsCurrent, Recorded, Order

\* The orders of the current batch: a new Red, or a phase that was missing.
LEMMA Order0Moves ==
    ASSUME IInv, IInv', [RecordStep]_vars, NEW q \in Req
    PROVE  /\ Order0("red", q) <= Order0("red", q)'
           /\ Order0("red", q)' = Order0("red", q) =>
                 /\ \A b \in Batch : q \in b => at'[<<"red", b>>] = at[<<"red", b>>]
                 /\ \A phase \in BatchPhase :
                       Order0(phase, q) \in {0, Order0(phase, q)'}
<1>1. CASE \A b \in Batch : q \in b => at'[<<"red", b>>] = at[<<"red", b>>]
  <2>1. Current(q)' = Current(q)
    BY <1>1, CurrentKept
  <2>2. CASE Current(q) = {}
    BY <1>1, <2>1, <2>2 DEF Order0
  <2>3. ASSUME NEW reqs \in Current(q)
        PROVE  /\ Order0("red", q) <= Order0("red", q)'
               /\ \A phase \in BatchPhase : Order0(phase, q) \in {0, Order0(phase, q)'}
    <3>1. \A phase : Order0(phase, q) = at[<<phase, reqs>>]
      BY CurrentUnique
    <3>2. reqs \in Batch /\ q \in reqs
      BY CurrentUnique
    <3>3. \A phase : Order0(phase, q)' = at'[<<phase, reqs>>]
      <4>1. Current(q) = {reqs}
        BY CurrentUnique
      <4>2. Current(q)' = {reqs} /\ (CHOOSE c \in {reqs} : TRUE) = reqs
        BY <2>1, <4>1
      <4> QED BY <4>2 DEF Order0, Order
    <3>4. \A s \in Slot : at[s] \in {0, at'[s]}
      BY OrdersMove, SlotOrders DEF IInv, RecordType
    <3>5. at'[<<"red", reqs>>] = at[<<"red", reqs>>]
      BY <1>1, <3>2
    <3>6. \A phase \in BatchPhase : <<phase, reqs>> \in Slot
      BY <3>2, BatchSlots
    <3>7. at[<<"red", reqs>>] \in Nat
      BY <3>6, SlotOrders DEF BatchPhase
    <3>8. Order0("red", q) = Order0("red", q)' /\ Order0("red", q) \in Nat
      BY <3>1, <3>3, <3>5, <3>7
    <3>9. \A phase \in BatchPhase : Order0(phase, q) \in {0, Order0(phase, q)'}
      BY <3>1, <3>3, <3>4, <3>6
    <3> QED BY <3>8, <3>9
  <2> QED BY <1>1, <2>2, <2>3
<1>2. CASE ~\A b \in Batch : q \in b => at'[<<"red", b>>] = at[<<"red", b>>]
  <2>1. PICK b \in Batch : q \in b /\ at'[<<"red", b>>] # at[<<"red", b>>]
    BY <1>2
  <2>2. <<"red", b>> \in Slot
    BY BatchSlots DEF BatchPhase
  <2>3. /\ at[<<"red", b>>] = 0
        /\ at' = [at EXCEPT ![<<"red", b>>] = Len(log)]
        /\ \A t \in Slot : at[t] < Len(log)
    BY <2>1, <2>2, OrdersMove DEF IInv, RecordType
  <2>4. at'[<<"red", b>>] = Len(log) /\ Len(log) > 0
    BY <2>2, <2>3, SlotOrders DEF IInv, RecordType
  <2>5. \A c \in Batch : at'[<<"red", c>>] <= Len(log)
    <3> SUFFICES ASSUME NEW c \in Batch PROVE at'[<<"red", c>>] <= Len(log)
      OBVIOUS
    <3>1. <<"red", c>> \in Slot
      BY BatchSlots DEF BatchPhase
    <3>2. at'[<<"red", c>>] \in {Len(log), at[<<"red", c>>]}
      BY <2>3, <3>1 DEF IInv, RecordType
    <3> QED BY <3>1, <3>2, SlotOrders
  <2>6. IsCurrent(q, b)'
    BY <2>1, <2>4, <2>5 DEF IsCurrent, Recorded, Order
  <2>7. b \in Current(q)'
    BY <2>6 DEF Current
  <2>8. Order0("red", q)' = Len(log)
    <3>1. \A c \in Current(q)' : c = b
      <4> SUFFICES ASSUME NEW c \in Current(q)' PROVE c = b
        OBVIOUS
      <4>1. c \in Batch /\ q \in c /\ at'[<<"red", c>>] >= at'[<<"red", b>>]
        BY <2>1 DEF Current, IsCurrent, Order
      <4>2. at'[<<"red", c>>] = Len(log)
        BY <2>4, <2>5, <4>1, SlotOrders, BatchSlots DEF BatchPhase, IInv, RecordType
      <4>3. <<"red", c>> \in Slot
        BY <4>1, BatchSlots DEF BatchPhase
      <4>4. <<"red", c>> # <<"red", b>> => at'[<<"red", c>>] = at[<<"red", c>>]
        BY <2>3, <4>3 DEF IInv, RecordType
      <4>5. at[<<"red", c>>] < Len(log)
        BY <2>3, <4>3
      <4> QED BY <4>2, <4>4, <4>5, SlotOrders, <4>3
    <3>2. Current(q)' = {b}
      BY <2>7, <3>1
    <3> QED BY <2>4, <3>2 DEF Order0, Order
  <2>9. Order0("red", q) < Len(log)
    <3>1. CASE Current(q) = {}
      BY <2>4, <3>1 DEF Order0
    <3>2. ASSUME NEW reqs \in Current(q) PROVE Order0("red", q) < Len(log)
      <4>1. Order0("red", q) = at[<<"red", reqs>>] /\ reqs \in Batch
        BY <3>2, CurrentUnique
      <4>2. <<"red", reqs>> \in Slot
        BY <4>1, BatchSlots DEF BatchPhase
      <4> QED BY <2>3, <4>1, <4>2
    <3> QED BY <3>1, <3>2
  <2> QED BY <2>8, <2>9, Order0Type, SlotOrders DEF BatchPhase
<1> QED BY <1>1, <1>2

-----------------------------------------------------------------------------
(* How the proof of a requirement moves                                    *)

\* A step leaves the cycles, adds one, or adds a Green or a void to one.
LEMMA CyclesMove ==
    ASSUME HumanType, RecordType, [WaiverNext]_allVars
    PROVE  \/ cycles' = cycles
           \/ /\ DOMAIN log' = DOMAIN log \cup {Len(log) + 1} /\ Len(log') = Len(log) + 1
              /\ at' = at
              /\ \/ \E q \in Req :
                       cycles' = Append(cycles, [req |-> q, red |-> Len(log) + 1, green |-> 0, void |-> 0])
                 \/ \E n \in DOMAIN cycles :
                       cycles[n].green = 0 /\ cycles' = [cycles EXCEPT ![n].green = Len(log) + 1]
                 \/ \E n \in DOMAIN cycles :
                       cycles[n].void = 0 /\ cycles' = [cycles EXCEPT ![n].void = Len(log) + 1]
<1>1. \A id : Push(id) => DOMAIN log' = DOMAIN log \cup {Len(log) + 1} /\ Len(log') = Len(log) + 1
  BY DEF Push, RecordType
<1>2. ASSUME NEW q \in Req, RecordRed(q)
      PROVE  /\ DOMAIN log' = DOMAIN log \cup {Len(log) + 1} /\ Len(log') = Len(log) + 1
             /\ at' = at
             /\ cycles' = Append(cycles, [req |-> q, red |-> Len(log) + 1, green |-> 0, void |-> 0])
  BY <1>1, <1>2 DEF RecordRed
<1>3. ASSUME NEW n \in DOMAIN cycles, RecordGreen(n)
      PROVE  /\ DOMAIN log' = DOMAIN log \cup {Len(log) + 1} /\ Len(log') = Len(log) + 1
             /\ at' = at
             /\ cycles[n].green = 0 /\ cycles' = [cycles EXCEPT ![n].green = Len(log) + 1]
  BY <1>1, <1>3 DEF RecordGreen
<1>4. ASSUME NEW n \in DOMAIN cycles, VoidCycle(n)
      PROVE  /\ DOMAIN log' = DOMAIN log \cup {Len(log) + 1} /\ Len(log') = Len(log) + 1
             /\ at' = at
             /\ cycles[n].void = 0 /\ cycles' = [cycles EXCEPT ![n].void = Len(log) + 1]
  BY <1>1, <1>4 DEF VoidCycle
<1>5. CASE ChangeStep \/ WriteWaiver \/ LoseWaiver \/ EditDocument \/ UNCHANGED allVars
  BY <1>5 DEF ChangeStep, human, WriteWaiver, LoseWaiver, EditDocument, allVars
<1>6. ASSUME NEW scope \in Waived, DraftWaiver(scope) PROVE cycles' = cycles
  BY <1>6 DEF DraftWaiver
<1> QED BY <1>2, <1>3, <1>4, <1>5, <1>6 DEF WaiverNext

\* Of a recorded cycle, what is known stays; what is added is new in the log.
LEMMA CycleKept ==
    ASSUME WInv, [WaiverNext]_allVars, NEW n \in DOMAIN cycles
    PROVE  /\ n \in DOMAIN cycles'
           /\ cycles'[n].req = cycles[n].req
           /\ cycles'[n].red = cycles[n].red
           /\ cycles[n].green \in {0, cycles'[n].green}
           /\ cycles[n].void \in {0, cycles'[n].void}
           /\ cycles'[n].void \in {cycles[n].void, Len(log) + 1}
<1>1. CASE cycles' = cycles
  BY <1>1
<1>2. ASSUME NEW q \in Req,
             cycles' = Append(cycles, [req |-> q, red |-> Len(log) + 1, green |-> 0, void |-> 0])
      PROVE  n \in DOMAIN cycles' /\ cycles'[n] = cycles[n]
  BY <1>2 DEF WInv, HumanType, CycleRecord
<1>3. ASSUME NEW m \in DOMAIN cycles, cycles[m].green = 0,
             cycles' = [cycles EXCEPT ![m].green = Len(log) + 1]
      PROVE  /\ n \in DOMAIN cycles'
             /\ cycles'[n].req = cycles[n].req /\ cycles'[n].red = cycles[n].red
             /\ cycles[n].green \in {0, cycles'[n].green}
             /\ cycles'[n].void = cycles[n].void
  BY <1>3 DEF WInv, HumanType, CycleRecord
<1>4. ASSUME NEW m \in DOMAIN cycles, cycles[m].void = 0,
             cycles' = [cycles EXCEPT ![m].void = Len(log) + 1]
      PROVE  /\ n \in DOMAIN cycles'
             /\ cycles'[n].req = cycles[n].req /\ cycles'[n].red = cycles[n].red
             /\ cycles'[n].green = cycles[n].green
             /\ cycles[n].void \in {0, cycles'[n].void}
             /\ cycles'[n].void \in {cycles[n].void, Len(log) + 1}
  BY <1>4 DEF WInv, HumanType, CycleRecord
<1>5. HumanType /\ RecordType
  BY DEF WInv, IInv
<1> QED BY <1>1, <1>2, <1>3, <1>4, <1>5, CyclesMove

LEMMA CyclesPreserved ==
    ASSUME WInv, [WaiverNext]_allVars
    PROVE  CyclesInv' /\ cycles' \in Seq(CycleRecord)
<1>1. Len(log) \in Nat /\ Len(log') \in Nat /\ Len(log') >= Len(log)
  <2>1. [RecordStep]_vars
    BY WaiverStepRecords DEF WInv, IInv
  <2>2. CASE UNCHANGED vars
    BY <2>2 DEF vars, WInv, IInv, RecordType
  <2>3. CASE RecordStep
    <3>1. Len(log) \in Nat /\ DOMAIN log = 1..Len(log)
      BY DEF WInv, IInv, RecordType
    <3>2. Len(log') \in Nat /\ DOMAIN log' = 1..Len(log')
      BY <2>3, RecordTypePreserved DEF WInv, IInv, RecordType
    <3>3. \A i \in DOMAIN log : i \in DOMAIN log'
      BY <2>3, RecordKept DEF Kept, WInv
    <3> QED BY <3>1, <3>2, <3>3
  <2> QED BY <2>1, <2>2, <2>3
<1>2. CyclesInv /\ cycles \in Seq(CycleRecord)
  BY DEF WInv, HumanType
<1>3. \A n \in DOMAIN cycles : cycles[n] \in CycleRecord
  BY <1>2
<1>4. CASE cycles' = cycles
  BY <1>1, <1>2, <1>3, <1>4 DEF CyclesInv, CycleRecord
<1>5. ASSUME NEW q \in Req, Len(log') = Len(log) + 1,
             cycles' = Append(cycles, [req |-> q, red |-> Len(log) + 1, green |-> 0, void |-> 0])
      PROVE  CyclesInv' /\ cycles' \in Seq(CycleRecord)
  <2>1. [req |-> q, red |-> Len(log) + 1, green |-> 0, void |-> 0] \in CycleRecord
    BY <1>1 DEF CycleRecord
  <2>2. cycles' \in Seq(CycleRecord)
    BY <1>2, <1>5, <2>1
  <2>3. /\ DOMAIN cycles' = DOMAIN cycles \cup {Len(cycles) + 1}
        /\ \A n \in DOMAIN cycles : cycles'[n] = cycles[n]
        /\ cycles'[Len(cycles) + 1].red = Len(log) + 1
        /\ cycles'[Len(cycles) + 1].green = 0
        /\ cycles'[Len(cycles) + 1].void = 0
    BY <1>2, <1>5, <2>1
  <2>4. \A n \in DOMAIN cycles' :
          /\ cycles'[n].red > 0 /\ cycles'[n].red <= Len(log')
          /\ cycles'[n].green <= Len(log') /\ cycles'[n].void <= Len(log')
    BY <1>1, <1>2, <1>3, <1>5, <2>3 DEF CyclesInv, CycleRecord
  <2>5. \A i, j \in DOMAIN cycles' : cycles'[i].red = cycles'[j].red => i = j
    BY <1>1, <1>2, <1>3, <2>3 DEF CyclesInv, CycleRecord
  <2>6. CyclesInv'
    BY <2>4, <2>5 DEF CyclesInv
  <2> QED BY <2>2, <2>6
<1>6. ASSUME NEW m \in DOMAIN cycles, Len(log') = Len(log) + 1,
             cycles' = [cycles EXCEPT ![m].green = Len(log) + 1]
      PROVE  CyclesInv' /\ cycles' \in Seq(CycleRecord)
  <2>1. [cycles[m] EXCEPT !.green = Len(log) + 1] \in CycleRecord
    BY <1>1, <1>3, <1>6 DEF CycleRecord
  <2>2. cycles' \in Seq(CycleRecord)
    BY <1>2, <1>6, <2>1
  <2>3. /\ DOMAIN cycles' = DOMAIN cycles
        /\ \A n \in DOMAIN cycles : /\ cycles'[n].red = cycles[n].red
                                    /\ cycles'[n].void = cycles[n].void
                                    /\ cycles'[n].green \in {cycles[n].green, Len(log) + 1}
    BY <1>2, <1>3, <1>6 DEF CycleRecord
  <2>4. \A n \in DOMAIN cycles' :
          /\ cycles'[n].red > 0 /\ cycles'[n].red <= Len(log')
          /\ cycles'[n].green <= Len(log') /\ cycles'[n].void <= Len(log')
    BY <1>1, <1>2, <1>3, <1>6, <2>3 DEF CyclesInv, CycleRecord
  <2>5. \A i, j \in DOMAIN cycles' : cycles'[i].red = cycles'[j].red => i = j
    BY <1>1, <1>2, <1>3, <2>3 DEF CyclesInv, CycleRecord
  <2>6. CyclesInv'
    BY <2>4, <2>5 DEF CyclesInv
  <2> QED BY <2>2, <2>6
<1>7. ASSUME NEW m \in DOMAIN cycles, Len(log') = Len(log) + 1,
             cycles' = [cycles EXCEPT ![m].void = Len(log) + 1]
      PROVE  CyclesInv' /\ cycles' \in Seq(CycleRecord)
  <2>1. [cycles[m] EXCEPT !.void = Len(log) + 1] \in CycleRecord
    BY <1>1, <1>3, <1>7 DEF CycleRecord
  <2>2. cycles' \in Seq(CycleRecord)
    BY <1>2, <1>7, <2>1
  <2>3. /\ DOMAIN cycles' = DOMAIN cycles
        /\ \A n \in DOMAIN cycles : /\ cycles'[n].red = cycles[n].red
                                    /\ cycles'[n].green = cycles[n].green
                                    /\ cycles'[n].void \in {cycles[n].void, Len(log) + 1}
    BY <1>2, <1>3, <1>7 DEF CycleRecord
  <2>4. CyclesInv'
    BY <1>1, <1>2, <1>3, <1>7, <2>3 DEF CyclesInv, CycleRecord
  <2> QED BY <2>2, <2>4
<1>8. HumanType /\ RecordType
  BY DEF WInv, IInv
<1> QED BY <1>4, <1>5, <1>6, <1>7, <1>8, CyclesMove

LEMMA ProofType ==
    ASSUME IInv, HumanType, NEW q \in Req
    PROVE  Proof(q) \in ProofSnapshot
<1>1. Order("requirements", Req) \in Nat
  BY SlotOrders, BatchSlots DEF Order
<1>2. /\ Order0("red", q) \in Nat
      /\ Order0("implementation", q) \in Nat
      /\ Order0("green", q) \in Nat
  BY Order0Type DEF BatchPhase
<1>3. {<<cycles[m].red, cycles[m].green>> : m \in OfReq(q)} \in SUBSET (Nat \X Nat)
  <2>1. \A m \in OfReq(q) : cycles[m] \in CycleRecord
    BY DEF OfReq, HumanType
  <2> QED BY <2>1 DEF CycleRecord
<1>4. VoidedInWindow(q) \in SUBSET Nat
  <2>1. \A m \in OfReq(q) : cycles[m] \in CycleRecord
    BY DEF OfReq, HumanType
  <2> QED BY <2>1 DEF VoidedInWindow, CycleRecord
<1> QED BY <1>1, <1>2, <1>3, <1>4 DEF Proof, ProofSnapshot

\* While the current Red and the requirements' order stay, so does the window.
LEMMA WindowKept ==
    ASSUME IInv, IInv', [RecordStep]_vars, NEW q \in Req,
           Order0("red", q)' = Order0("red", q),
           Order("requirements", Req)' = Order("requirements", Req)
    PROVE  \A order : InWindow(q, order)' <=> InWindow(q, order)
<1>1. \A b \in Batch : q \in b => at'[<<"red", b>>] = at[<<"red", b>>]
  BY Order0Moves
<1>2. at'[<<"requirements", Req>>] = at[<<"requirements", Req>>]
  BY DEF Order
<1> QED BY <1>1, <1>2 DEF InWindow, Recorded, Order

LEMMA ProofMoves ==
    ASSUME WInv, IInv', [WaiverNext]_allVars, NEW q \in Req
    PROVE  Behind(Proof(q), Proof(q)')
<1>1. [RecordStep]_vars
  BY WaiverStepRecords DEF WInv, IInv
<1>2. Order("requirements", Req) \in {0, Order("requirements", Req)'}
  BY <1>1, OrdersMove, BatchSlots DEF WInv, IInv, RecordType, Order
<1>3. /\ Order0("red", q) <= Order0("red", q)'
      /\ Order0("red", q)' = Order0("red", q) =>
            /\ Order0("implementation", q) \in {0, Order0("implementation", q)'}
            /\ Order0("green", q) \in {0, Order0("green", q)'}
  BY <1>1, Order0Moves DEF WInv, BatchPhase
<1>4. ASSUME Order0("red", q)' = Order0("red", q),
             Order("requirements", Req)' = Order("requirements", Req)
      PROVE  VoidedInWindow(q) \subseteq VoidedInWindow(q)'
  <2> SUFFICES ASSUME NEW n \in DOMAIN cycles, cycles[n].req = q, cycles[n].void # 0,
                      InWindow(q, cycles[n].red)
               PROVE  cycles[n].void \in VoidedInWindow(q)'
    BY DEF VoidedInWindow, OfReq
  <2>1. /\ n \in DOMAIN cycles' /\ cycles'[n].req = q
        /\ cycles'[n].red = cycles[n].red /\ cycles'[n].void = cycles[n].void
    BY CycleKept
  <2>2. InWindow(q, cycles[n].red)'
    <3>1. \A order : InWindow(q, order)' <=> InWindow(q, order)
      BY <1>1, <1>4, WindowKept DEF WInv
    <3> QED BY <2>1, <3>1 DEF InWindow
  <2> QED BY <2>1, <2>2 DEF VoidedInWindow, OfReq
<1>5. ASSUME NEW r \in {<<cycles[m].red, cycles[m].green>> : m \in OfReq(q)}
      PROVE  \E s \in {<<cycles[m].red, cycles[m].green>> : m \in OfReq(q)}' :
                 s[1] = r[1] /\ r[2] \in {0, s[2]}
  <2>1. PICK m \in DOMAIN cycles : cycles[m].req = q /\ r = <<cycles[m].red, cycles[m].green>>
    BY <1>5 DEF OfReq
  <2>2. /\ m \in DOMAIN cycles' /\ cycles'[m].req = q
        /\ cycles'[m].red = cycles[m].red /\ cycles[m].green \in {0, cycles'[m].green}
    BY <2>1, CycleKept
  <2>3. <<cycles'[m].red, cycles'[m].green>>
            \in {<<cycles[i].red, cycles[i].green>> : i \in OfReq(q)}'
    BY <2>2 DEF OfReq
  <2> QED BY <2>1, <2>2, <2>3
<1> HIDE DEF Order0, VoidedInWindow
<1> QED BY <1>2, <1>3, <1>4, <1>5 DEF Behind, Proof

LEMMA ProofsType == IInv /\ HumanType => \A q \in Req : Proof(q) \in ProofSnapshot
BY ProofType

LEMMA BehindTransitive ==
    ASSUME NEW a \in ProofSnapshot, NEW b \in ProofSnapshot, NEW c \in ProofSnapshot,
           Behind(a, b), Behind(b, c)
    PROVE  Behind(a, c)
<1>1. a[1] \in {0, c[1]} /\ a[2] <= c[2]
  BY DEF Behind, ProofSnapshot
<1>2. ASSUME a[2] = c[2]
      PROVE  a[3] \in {0, c[3]} /\ a[4] \in {0, c[4]} /\ (a[1] = c[1] => a[6] \subseteq c[6])
  <2>1. a[2] = b[2] /\ b[2] = c[2]
    BY <1>2 DEF Behind, ProofSnapshot
  <2> QED BY <2>1 DEF Behind
<1>3. \A r \in a[5] : \E s \in c[5] : s[1] = r[1] /\ r[2] \in {0, s[2]}
  <2> SUFFICES ASSUME NEW r \in a[5] PROVE \E s \in c[5] : s[1] = r[1] /\ r[2] \in {0, s[2]}
    OBVIOUS
  <2>1. PICK s \in b[5] : s[1] = r[1] /\ r[2] \in {0, s[2]}
    BY DEF Behind
  <2>2. PICK t \in c[5] : t[1] = s[1] /\ s[2] \in {0, t[2]}
    BY DEF Behind
  <2> QED BY <2>1, <2>2
<1> QED BY <1>1, <1>2, <1>3 DEF Behind

\* A proof that returns to what a snapshot says was that all along.
LEMMA BehindReturns ==
    ASSUME NEW a \in ProofSnapshot, NEW b \in ProofSnapshot,
           Behind(a, b), Behind(b, a),
           \A r, s \in a[5] : r[1] = s[1] => r = s,
           \A r, s \in b[5] : r[1] = s[1] => r = s
    PROVE  a = b
<1>1. a[2] = b[2]
  BY DEF Behind, ProofSnapshot
<1>2. a[1] = b[1] /\ a[3] = b[3] /\ a[4] = b[4] /\ a[6] = b[6]
  BY <1>1 DEF Behind
<1>3. \A r \in a[5] : r \in b[5]
  <2> SUFFICES ASSUME NEW r \in a[5] PROVE r \in b[5]
    OBVIOUS
  <2>1. PICK s \in b[5] : s[1] = r[1] /\ r[2] \in {0, s[2]}
    BY DEF Behind
  <2>2. PICK t \in a[5] : t[1] = s[1] /\ s[2] \in {0, t[2]}
    BY DEF Behind
  <2>3. t = r
    BY <2>1, <2>2
  <2>4. r \in Nat \X Nat /\ s \in Nat \X Nat
    BY DEF ProofSnapshot
  <2> QED BY <2>1, <2>2, <2>3, <2>4
<1>4. \A r \in b[5] : r \in a[5]
  <2> SUFFICES ASSUME NEW r \in b[5] PROVE r \in a[5]
    OBVIOUS
  <2>1. PICK s \in a[5] : s[1] = r[1] /\ r[2] \in {0, s[2]}
    BY DEF Behind
  <2>2. PICK t \in b[5] : t[1] = s[1] /\ s[2] \in {0, t[2]}
    BY DEF Behind
  <2>3. t = r
    BY <2>1, <2>2
  <2>4. r \in Nat \X Nat /\ s \in Nat \X Nat
    BY DEF ProofSnapshot
  <2> QED BY <2>1, <2>2, <2>3, <2>4
<1>5. a[5] = b[5]
  BY <1>3, <1>4
<1> QED BY <1>1, <1>2, <1>5 DEF ProofSnapshot

-----------------------------------------------------------------------------
(* The invariant is kept                                                   *)

\* What is recorded of the change stays recorded.
LEMMA RecordedStays ==
    ASSUME IInv, [RecordStep]_vars
    PROVE  /\ \A s \in Slot : at[s] # 0 => at'[s] = at[s]
           /\ quality # 0 => quality' # 0
           /\ history' = <<>> => history = <<>>
           /\ ChangeExists => ChangeExists'
           /\ \A phase \in BatchPhase : Uncovered(phase)' \subseteq Uncovered(phase)
<1>1. \A s \in Slot : at[s] # 0 => at'[s] = at[s]
  BY OrdersMove DEF IInv, RecordType
<1>2. (quality # 0 => quality' # 0) /\ (history' = <<>> => history = <<>>)
  <2>1. CASE WriteChanges
    BY <2>1, WritesPhase, WritesQuality
  <2>2. CASE RefreshQuality
    <3>1. quality' = Len(log) + 1 /\ history' = Append(history, quality)
      BY <2>2 DEF RefreshQuality
    <3>2. history' # <<>>
      BY <3>1 DEF IInv, RecordType
    <3> QED BY <3>1, <3>2, SlotOrders
  <2>3. CASE UNCHANGED <<quality, history>>
    BY <2>3
  <2> QED BY <2>1, <2>2, <2>3
          DEF RecordStep, Next, RecordPhase, RecordQuality, LoseChanges, RecordOther, vars
<1>3. ChangeExists => ChangeExists'
  BY <1>1, <1>2 DEF ChangeExists
<1>4. \A phase \in BatchPhase : Uncovered(phase)' \subseteq Uncovered(phase)
  BY <1>1, BatchSlots DEF Uncovered, Recorded
<1> QED BY <1>1, <1>2, <1>3, <1>4

LEMMA LogKept ==
    ASSUME IInv, [RecordStep]_vars
    PROVE  /\ \A i \in DOMAIN log : i \in DOMAIN log' /\ log'[i] = log[i]
           /\ DOMAIN log = 1..Len(log) /\ Len(log) \in Nat
BY RecordKept DEF Kept, IInv, RecordType, vars

LEMMA UnwrittenPreserved ==
    ASSUME IInv, UnwrittenInv, [RecordStep]_vars
    PROVE  UnwrittenInv'
<1> SUFFICES ASSUME ~ChangeExists', NEW i \in DOMAIN log', log'[i][1] # "other"
             PROVE  log'[i] = <<"impact", Req>>
  BY DEF UnwrittenInv
<1>1. /\ ~ChangeExists /\ quality = 0
      /\ \A s \in Slot : at[s] = 0
  BY RecordedStays DEF ChangeExists
<1>2. \A j \in DOMAIN log : log[j][1] # "other" => log[j] = <<"impact", Req>>
  BY <1>1 DEF UnwrittenInv
<1>3. ASSUME NEW id \in AnyIdentity, Push(id), id[1] = "other" \/ id = <<"impact", Req>>
      PROVE  log'[i] = <<"impact", Req>>
  BY <1>2, <1>3, PushAppends DEF IInv
<1>4. ASSUME NEW slot \in Slot, RecordPhase(slot) PROVE log'[i] = <<"impact", Req>>
  <2>1. Prerequisite(slot[1], slot[2])
    BY <1>4 DEF RecordPhase, Acceptable
  <2>2. slot[1] = "impact"
    BY <1>1, <2>1, BatchSlots DEF Slot, BatchPhase, Prerequisite, Recorded
  <2>3. slot = <<"impact", Req>>
    BY <2>2 DEF Slot, BatchPhase
  <2> QED BY <1>3, <1>4, <2>3, IdentitiesDiffer DEF RecordPhase
<1>5. ASSUME NEW o \in Others, RecordOther(<<"other", o>>) PROVE log'[i] = <<"impact", Req>>
  BY <1>3, <1>5, IdentitiesDiffer DEF RecordOther
<1>6. ~RecordQuality
  BY <1>1, BatchSlots DEF RecordQuality, QualityAcceptable, Recorded, BatchPhase
<1>7. ~RefreshQuality
  BY <1>1 DEF RefreshQuality, RefreshAcceptable
<1>8. CASE UNCHANGED log
  BY <1>2, <1>8
<1> QED BY <1>4, <1>5, <1>6, <1>7, <1>8
        DEF RecordStep, Next, Others, WriteChanges, LoseChanges, vars

\* The waiver a command is about to write.
Drafted(scope) ==
    [scope |-> scope, snapshot |-> Snapshot(scope, 0), order |-> Len(log) + 1]

LEMMA DraftedType ==
    ASSUME IInv, HumanType, NEW scope \in Waived
    PROVE  Drafted(scope) \in Waiver
<1>1. CASE scope[1] = "RECORD_MISSING"
  <2>1. Normalized(0) \in [text : Text, notes : Seq(Nat)]
    <3>1. document \in [text : Text, notes : Seq(Nat)]
      BY DEF HumanType
    <3>2. ASSUME document.notes # <<>>
          PROVE  SubSeq(document.notes, 1, Len(document.notes) - 1) \in Seq(Nat)
      BY <3>1, <3>2
    <3> QED BY <3>1, <3>2 DEF Normalized
  <2>2. <<at, quality, history>> \in [Slot -> 0..MaxLog] \X (0..MaxLog) \X Seq(Nat)
    BY DEF IInv, RecordType
  <2>3. Snapshot(scope, 0) = <<Normalized(0), EverRecorded, <<at, quality, history>>>>
    BY <1>1, SnapshotKinds
  <2>4. Snapshot(scope, 0) \in RecordSnapshot
    <3>1. EverRecorded \in BOOLEAN
      BY DEF EverRecorded
    <3>2. ASSUME NEW A, NEW B, NEW C, NEW a \in A, NEW b \in B, NEW c \in C
          PROVE  <<a, b, c>> \in A \X B \X C
      OBVIOUS
    <3> QED BY <2>1, <2>2, <2>3, <3>1, <3>2 DEF RecordSnapshot
  <2> QED BY <2>4, SlotOrders DEF Drafted, Waiver
<1>2. CASE scope[1] = "PHASE_MISSING"
  <2>1. CASE scope[2] \in BatchPhase
    <3>1. Snapshot(scope, 0) = <<Uncovered(scope[2])>> /\ Uncovered(scope[2]) \in SUBSET Req
      BY <1>2, <2>1, SnapshotKinds DEF Uncovered
    <3> QED BY <3>1, SlotOrders DEF Drafted, Waiver, PhaseSnapshot
  <2>2. CASE scope[2] \notin BatchPhase
    <3>1. Snapshot(scope, 0) = <<OrderOfPhase(scope[2])>>
      BY <1>2, <2>2, SnapshotKinds
    <3>2. OrderOfPhase(scope[2]) \in 0..MaxLog
      BY <1>2, <2>2, ScopeKinds, BatchSlots
         DEF OrderOfPhase, Order, SinglePhase, IInv, RecordType
    <3>3. <<OrderOfPhase(scope[2])>> \in PhaseSnapshot
      BY <3>2 DEF PhaseSnapshot
    <3> QED BY <3>1, <3>3, SlotOrders DEF Drafted, Waiver
  <2> QED BY <2>1, <2>2
<1>3. CASE scope[1] \in Unproven
  <2>1. scope[2] \in Req
    BY <1>3, ScopeKinds
  <2>2. Snapshot(scope, 0) \in ProofSnapshot
    BY <1>3, <2>1, SnapshotKinds, ProofType
  <2> QED BY <2>2, SlotOrders DEF Drafted, Waiver
<1> QED BY <1>1, <1>2, <1>3, ScopeKinds

LEMMA HeldMoves ==
    ASSUME HumanType, [WaiverNext]_allVars
    PROVE  \/ Held' \subseteq Held
           \/ \E scope \in Waived :
                 /\ DraftWaiver(scope)
                 /\ Held' \subseteq Held \cup {Drafted(scope)}
<1>1. ASSUME NEW scope \in Waived, DraftWaiver(scope)
      PROVE  Held' \subseteq Held \cup {Drafted(scope)}
  <2>1. waivers' = waivers /\ draft' = <<Drafted(scope)>>
    BY <1>1 DEF DraftWaiver, Drafted
  <2>2. \A n \in DOMAIN <<Drafted(scope)>> : <<Drafted(scope)>>[n] = Drafted(scope)
    OBVIOUS
  <2> QED BY <2>1, <2>2 DEF Held
<1>2. CASE WriteWaiver
  <2>1. waivers' = waivers \o draft /\ draft' = <<>>
    BY <1>2 DEF WriteWaiver
  <2>2. DOMAIN draft' = {}
    BY <2>1
  <2>3. ASSUME NEW n \in DOMAIN waivers' PROVE waivers'[n] \in Held
    <3>1. CASE n <= Len(waivers)
      <4>1. n \in DOMAIN waivers /\ waivers'[n] = waivers[n]
        BY <2>1, <2>3, <3>1 DEF HumanType
      <4> QED BY <4>1 DEF Held
    <3>2. CASE ~(n <= Len(waivers))
      <4>1. n - Len(waivers) \in DOMAIN draft /\ waivers'[n] = draft[n - Len(waivers)]
        BY <2>1, <2>3, <3>2 DEF HumanType
      <4> QED BY <4>1 DEF Held
    <3> QED BY <3>1, <3>2
  <2> QED BY <2>2, <2>3 DEF Held
<1>3. CASE LoseWaiver
  <2>1. waivers' = waivers /\ DOMAIN draft' = {}
    BY <1>3 DEF LoseWaiver
  <2> QED BY <2>1 DEF Held
<1>4. CASE UNCHANGED <<waivers, draft>>
  BY <1>4 DEF Held
<1> QED BY <1>1, <1>2, <1>3, <1>4
        DEF WaiverNext, ChangeStep, human, RecordRed, RecordGreen, VoidCycle, EditDocument, allVars

LEMMA HumanTypePreserved ==
    ASSUME WInv, [WaiverNext]_allVars
    PROVE  HumanType'
<1>1. cycles' \in Seq(CycleRecord)
  BY CyclesPreserved
<1>2. document' \in [text : Text, notes : Seq(Nat)]
  <2>1. document \in [text : Text, notes : Seq(Nat)] /\ DOMAIN waivers \subseteq Nat
    BY DEF WInv, HumanType
  <2>2. ASSUME NEW n \in Nat PROVE Append(document.notes, n) \in Seq(Nat)
    BY <2>1, <2>2
  <2>3. CASE EditDocument
    BY <2>1, <2>2, <2>3 DEF EditDocument
  <2>4. CASE UNCHANGED document
    BY <2>1, <2>4
  <2> QED BY <2>3, <2>4
          DEF WaiverNext, ChangeStep, human, RecordRed, RecordGreen, VoidCycle,
              DraftWaiver, WriteWaiver, LoseWaiver, allVars
<1>3. waivers' \in Seq(Waiver) /\ draft' \in Seq(Waiver) /\ Len(draft') <= 1
  <2>1. waivers \in Seq(Waiver) /\ draft \in Seq(Waiver) /\ Len(draft) <= 1
    BY DEF WInv, HumanType
  <2>2. ASSUME NEW scope \in Waived, DraftWaiver(scope)
        PROVE  waivers' \in Seq(Waiver) /\ draft' \in Seq(Waiver) /\ Len(draft') <= 1
    <3>1. Drafted(scope) \in Waiver
      BY DraftedType DEF WInv
    <3>2. waivers' = waivers /\ draft' = <<Drafted(scope)>>
      BY <2>2 DEF DraftWaiver, Drafted
    <3> QED BY <2>1, <3>1, <3>2
  <2>3. CASE WriteWaiver
    BY <2>1, <2>3 DEF WriteWaiver
  <2>4. CASE LoseWaiver
    BY <2>1, <2>4 DEF LoseWaiver
  <2>5. CASE UNCHANGED <<waivers, draft>>
    BY <2>1, <2>5
  <2> QED BY <2>2, <2>3, <2>4, <2>5
          DEF WaiverNext, ChangeStep, human, RecordRed, RecordGreen, VoidCycle, EditDocument, allVars
<1> QED BY <1>1, <1>2, <1>3 DEF HumanType

LEMMA BehindItself ==
    ASSUME NEW a \in ProofSnapshot PROVE Behind(a, a)
BY DEF Behind, ProofSnapshot

LEMMA SeenPreserved ==
    ASSUME WInv, [RecordStep]_vars, NEW w \in Held
    PROVE  Seen(w)'
<1>1. Seen(w)
  BY DEF WInv
<1>2. /\ \A i \in DOMAIN log : i \in DOMAIN log' /\ log'[i] = log[i]
      /\ DOMAIN log = 1..Len(log) /\ Len(log) \in Nat
  BY LogKept DEF WInv
<1>3. DOMAIN log' = 1..Len(log') /\ Len(log') \in Nat
  BY RecordPreserved DEF WInv, IInv, RecordType
<1>4. w.order \in DOMAIN log /\ w.order \in DOMAIN log'
  BY <1>1, <1>2 DEF Seen
<1>5. \A i \in DOMAIN log' : i < w.order => i \in DOMAIN log /\ log'[i] = log[i]
  BY <1>2, <1>3, <1>4
<1>6. (\E i \in DOMAIN log' : i < w.order /\ IsPhase(log'[i]))
          <=> (\E i \in DOMAIN log : i < w.order /\ IsPhase(log[i]))
  BY <1>2, <1>5
<1> QED BY <1>1, <1>4, <1>6 DEF Seen, IsPhase

LEMMA FollowedPreserved ==
    ASSUME WInv, [WaiverNext]_allVars, NEW w \in Held
    PROVE  Followed(w)'
<1>1. Followed(w) /\ Seen(w)
  BY DEF WInv
<1>2. [RecordStep]_vars /\ IInv'
  BY WaiverStepRecords, RecordPreserved DEF WInv, IInv
<1>3. w.scope \in Waived
  <2>1. w \in Waiver
    BY DEF WInv, HumanType, Held
  <2> QED BY <2>1 DEF Waiver
<1>4. (w.scope[1] # "RECORD_MISSING" => ChangeExists)'
  BY <1>1, <1>2, RecordedStays DEF WInv, Followed
<1>5. CASE w.scope[1] = "RECORD_MISSING"
  BY <1>3, <1>5, ScopeKinds DEF Followed
<1>6. CASE w.scope[1] = "PHASE_MISSING"
  <2>1. w.scope[1] \notin Unproven
    BY <1>3, <1>6, ScopeKinds
  <2>2. w.scope[2] \in BatchPhase => Uncovered(w.scope[2])' \subseteq w.snapshot[1]
    BY <1>1, <1>2, <1>6, RecordedStays DEF WInv, Followed
  <2>3. w.scope[2] \notin BatchPhase => w.snapshot[1] = 0
    BY <1>1, <1>6 DEF Followed
  <2> QED BY <1>4, <2>1, <2>2, <2>3 DEF Followed
<1>7. CASE w.scope[1] \in Unproven
  <2>1. w.scope[2] \in Req
    BY <1>3, <1>7, ScopeKinds
  <2>2. Behind(w.snapshot, Proof(w.scope[2])) /\ w.snapshot \in ProofSnapshot
    BY <1>1, <1>7 DEF Followed, Seen
  <2>3. Behind(Proof(w.scope[2]), Proof(w.scope[2])')
    BY <1>2, <2>1, ProofMoves
  <2>4. Proof(w.scope[2]) \in ProofSnapshot
    BY <2>1, ProofType DEF WInv
  <2>5. Proof(w.scope[2])' \in ProofSnapshot
    <3>1. IInv' /\ HumanType'
      BY <1>2, HumanTypePreserved
    <3>2. IInv' /\ HumanType' => (\A q \in Req : Proof(q) \in ProofSnapshot)'
      BY ProofsType, PTL
    <3> QED BY <2>1, <3>1, <3>2
  <2>6. Behind(w.snapshot, Proof(w.scope[2])')
    BY <2>2, <2>3, <2>4, <2>5, BehindTransitive
  <2>7. w.scope[1] # "PHASE_MISSING"
    BY <1>3, <1>7, ScopeKinds
  <2> QED BY <1>4, <2>6, <2>7 DEF Followed
<1> QED BY <1>3, <1>5, <1>6, <1>7, ScopeKinds

LEMMA DraftedSeen ==
    ASSUME WInv, NEW scope \in Waived, DraftWaiver(scope), NEW w, w = Drafted(scope)
    PROVE  Seen(w)'
<1>1. w.scope = scope /\ w.order = Len(log) + 1 /\ w.snapshot = Snapshot(scope, 0)
  BY DEF Drafted
<1>2. /\ DOMAIN log = 1..Len(log) /\ Len(log) \in Nat
      /\ DOMAIN log' = DOMAIN log \cup {Len(log) + 1}
      /\ \A i \in DOMAIN log : log'[i] = log[i]
  BY DEF DraftWaiver, Push, WInv, IInv, RecordType
<1>3. w.order \in DOMAIN log'
  BY <1>1, <1>2
<1>4. ASSUME scope[1] = "RECORD_MISSING"
      PROVE  w.snapshot[2] <=> \E i \in DOMAIN log' : i < w.order /\ IsPhase(log'[i])
  <2>1. Snapshot(scope, 0) = <<Normalized(0), EverRecorded, <<at, quality, history>>>>
    BY <1>4, SnapshotKinds
  <2>2. w.snapshot[2] = EverRecorded
    BY <1>1, <2>1
  <2>3. EverRecorded <=> \E i \in DOMAIN log' : i < w.order /\ IsPhase(log'[i])
    BY <1>1, <1>2 DEF EverRecorded, IsPhase
  <2> QED BY <2>2, <2>3
<1>5. ASSUME scope[1] \in Unproven
      PROVE  /\ w.snapshot \in ProofSnapshot
             /\ w.snapshot[2] < w.order /\ w.snapshot[3] < w.order /\ w.snapshot[4] < w.order
             /\ \A r \in w.snapshot[5] : r[1] < w.order /\ r[2] < w.order
             /\ \A v \in w.snapshot[6] : v < w.order
  <2> DEFINE q == scope[2]
  <2>1. q \in Req /\ w.snapshot = Proof(q)
    BY <1>1, <1>5, ScopeKinds, SnapshotKinds
  <2>2. w.snapshot \in ProofSnapshot
    BY <2>1, ProofType DEF WInv
  <2>3. \A phase \in BatchPhase : Order0(phase, q) < w.order
    BY <1>1, <2>1, Order0Type, SlotOrders DEF WInv
  <2>4. \A n \in DOMAIN cycles : /\ cycles[n].red < w.order /\ cycles[n].green < w.order
                                 /\ cycles[n].void < w.order
    <3>1. \A n \in DOMAIN cycles : cycles[n] \in CycleRecord
      BY DEF WInv, HumanType
    <3> QED BY <1>1, <1>2, <3>1 DEF WInv, CyclesInv, CycleRecord
  <2>5. /\ w.snapshot[2] = Order0("red", q)
        /\ w.snapshot[3] = Order0("implementation", q)
        /\ w.snapshot[4] = Order0("green", q)
        /\ w.snapshot[5] = {<<cycles[m].red, cycles[m].green>> : m \in OfReq(q)}
        /\ w.snapshot[6] = VoidedInWindow(q)
    BY <2>1 DEF Proof
  <2>6. w.snapshot[2] < w.order /\ w.snapshot[3] < w.order /\ w.snapshot[4] < w.order
    BY <2>3, <2>5 DEF BatchPhase
  <2>7. \A r \in w.snapshot[5] : r[1] < w.order /\ r[2] < w.order
    BY <2>4, <2>5 DEF OfReq
  <2>8. \A v \in w.snapshot[6] : v < w.order
    BY <2>4, <2>5 DEF VoidedInWindow, OfReq
  <2> QED BY <2>2, <2>6, <2>7, <2>8
<1> QED BY <1>1, <1>3, <1>4, <1>5 DEF Seen, IsPhase

LEMMA DraftedFollowed ==
    ASSUME WInv, NEW scope \in Waived, DraftWaiver(scope), NEW w, w = Drafted(scope)
    PROVE  Followed(w)'
<1>0. w.scope = scope /\ w.snapshot = Snapshot(scope, 0)
  BY DEF Drafted
<1>1. Reported(scope) /\ UNCHANGED <<at, quality, history, cycles>>
  BY DEF DraftWaiver, Waivable
<1>2. /\ (ChangeExists' <=> ChangeExists)
      /\ \A phase : Uncovered(phase)' = Uncovered(phase)
      /\ \A q : Proof(q)' = Proof(q)
  <2>1. (ChangeExists' <=> ChangeExists) /\ \A phase : Uncovered(phase)' = Uncovered(phase)
    BY <1>1 DEF ChangeExists, Uncovered, Recorded
  <2>2. \A q : Current(q)' = Current(q)
    BY <1>1 DEF Current, IsCurrent, Recorded, Order
  <2>3. \A phase, q : Order0(phase, q)' = Order0(phase, q)
    <3> SUFFICES ASSUME NEW phase, NEW q PROVE Order0(phase, q)' = Order0(phase, q)
      OBVIOUS
    <3>1. at' = at /\ Current(q)' = Current(q)
      BY <1>1, <2>2
    <3> QED BY <3>1 DEF Order0, Order
  <2>4. \A q, order : InWindow(q, order)' <=> InWindow(q, order)
    BY <1>1, <2>3 DEF InWindow, Recorded, Order
  <2>5. \A q : VoidedInWindow(q)' = VoidedInWindow(q) /\ OfReq(q)' = OfReq(q)
    BY <1>1, <2>4 DEF VoidedInWindow, OfReq
  <2>6. \A q : Proof(q)' = Proof(q)
    BY <1>1, <2>3, <2>5 DEF Proof, Order
  <2> QED BY <2>1, <2>6
<1>3. CASE scope[1] = "RECORD_MISSING"
  BY <1>0, <1>3, ScopeKinds DEF Followed
<1>4. CASE scope[1] = "PHASE_MISSING"
  <2>1. ChangeExists /\ scope[1] \notin Unproven
    BY <1>1, <1>4, ScopeKinds DEF Reported
  <2>2. CASE scope[2] \in BatchPhase
    BY <1>0, <1>2, <1>4, <2>1, <2>2, SnapshotKinds DEF Followed
  <2>3. CASE scope[2] \notin BatchPhase
    <3>1. Snapshot(scope, 0) = <<OrderOfPhase(scope[2])>> /\ OrderOfPhase(scope[2]) = 0
      BY <1>1, <1>4, <2>3, SnapshotKinds DEF Reported
    <3> QED BY <1>0, <1>2, <1>4, <2>1, <2>3, <3>1 DEF Followed
  <2> QED BY <2>2, <2>3
<1>5. CASE scope[1] \in Unproven
  <2>1. ChangeExists /\ scope[1] # "PHASE_MISSING" /\ scope[2] \in Req
    BY <1>1, <1>5, ScopeKinds DEF Reported
  <2>2. Snapshot(scope, 0) = Proof(scope[2]) /\ Proof(scope[2]) \in ProofSnapshot
    BY <1>5, <2>1, SnapshotKinds, ProofType DEF WInv
  <2>3. Behind(Proof(scope[2]), Proof(scope[2]))
    BY <2>2, BehindItself
  <2> QED BY <1>0, <1>2, <1>5, <2>1, <2>2, <2>3 DEF Followed
<1> QED BY <1>3, <1>4, <1>5, ScopeKinds

LEMMA WaiversPreserved == WInv /\ [WaiverNext]_allVars => WInv'
<1> SUFFICES ASSUME WInv, [WaiverNext]_allVars PROVE WInv'
  OBVIOUS
<1>1. [RecordStep]_vars
  BY WaiverStepRecords DEF WInv, IInv
<1>2. IInv' /\ HumanType' /\ CyclesInv' /\ UnwrittenInv'
  BY <1>1, RecordPreserved, HumanTypePreserved, CyclesPreserved, UnwrittenPreserved DEF WInv
<1>3. ASSUME NEW w \in Held PROVE Seen(w)' /\ Followed(w)'
  BY <1>1, <1>3, SeenPreserved, FollowedPreserved
<1>4. ASSUME NEW scope \in Waived, DraftWaiver(scope), NEW w, w = Drafted(scope)
      PROVE  Seen(w)' /\ Followed(w)'
  BY <1>4, DraftedSeen, DraftedFollowed
<1>5. ASSUME NEW w \in Held' PROVE Seen(w)' /\ Followed(w)'
  BY <1>3, <1>4, <1>5, HeldMoves DEF WInv
<1> QED BY <1>2, <1>5 DEF WInv

LEMMA WaiverInitHolds == WaiverInit => WInv
<1> SUFFICES ASSUME WaiverInit PROVE WInv
  OBVIOUS
<1>1. /\ IInv /\ cycles = <<>> /\ waivers = <<>> /\ draft = <<>> /\ log = <<>>
      /\ document \in [text : Text, notes : {<<>>}]
  BY RecordInit DEF WaiverInit, Init
<1>2. HumanType
  <2>1. document \in [text : Text, notes : Seq(Nat)]
    <3>1. {<<>>} \subseteq Seq(Nat)
      OBVIOUS
    <3> QED BY <1>1, <3>1
  <2> QED BY <1>1, <2>1 DEF HumanType
<1>3. CyclesInv /\ UnwrittenInv
  BY <1>1 DEF CyclesInv, UnwrittenInv
<1>4. Held = {}
  BY <1>1 DEF Held
<1> QED BY <1>1, <1>2, <1>3, <1>4 DEF WInv

LEMMA WaiverInvariantHolds == WaiverSpec => []WInv
BY WaiverInitHolds, WaiversPreserved, PTL DEF WaiverSpec

-----------------------------------------------------------------------------
(* What follows for waivers                                                *)

\* An active waiver has nothing behind it in the log of what it is about.
LEMMA ActiveSawAll == WInv => NothingUnseen
<1> SUFFICES ASSUME WInv, NEW n \in DOMAIN waivers, ~Stale(n)
             PROVE  /\ waivers[n].scope[1] \in Unproven =>
                          \A order \in CycleOrders(waivers[n].scope[2])
                                           \cup BatchOrders(waivers[n].scope[2]) :
                              order < waivers[n].order
                    /\ waivers[n].scope[1] = "RECORD_MISSING" =>
                          \A i \in DOMAIN log : i > waivers[n].order => log[i][1] = "other"
  BY DEF NothingUnseen
<1> DEFINE w == waivers[n]
           q == w.scope[2]
<1>1. w \in Held /\ w \in Waiver
  BY DEF Held, WInv, HumanType
<1>2. Seen(w) /\ w.scope \in Waived
  BY <1>1 DEF WInv, Waiver
<1>3. w.snapshot = Snapshot(w.scope, n) /\ Reported(w.scope)
  BY DEF Stale
<1>4. ASSUME w.scope[1] \in Unproven, NEW order \in CycleOrders(q) \cup BatchOrders(q)
      PROVE  order < w.order
  <2>1. w.snapshot = Proof(q)
    BY <1>2, <1>3, <1>4, SnapshotKinds
  <2>2. /\ w.snapshot[2] = Order0("red", q)
        /\ w.snapshot[3] = Order0("implementation", q)
        /\ w.snapshot[4] = Order0("green", q)
        /\ w.snapshot[5] = {<<cycles[m].red, cycles[m].green>> : m \in OfReq(q)}
        /\ w.snapshot[6] = VoidedInWindow(q)
    BY <2>1 DEF Proof
  <2>3. CASE order \in BatchOrders(q)
    BY <1>2, <1>4, <2>2, <2>3 DEF Seen, BatchOrders, BatchPhase
  <2>4. CASE order \in VoidedInWindow(q)
    BY <1>2, <1>4, <2>2, <2>4 DEF Seen
  <2>5. ASSUME NEW m \in OfReq(q), order \in {cycles[m].red, cycles[m].green}
        PROVE  order < w.order
    <3>1. <<cycles[m].red, cycles[m].green>> \in w.snapshot[5]
      BY <2>2
    <3>2. cycles[m].red < w.order /\ cycles[m].green < w.order
      BY <1>2, <1>4, <3>1 DEF Seen
    <3> QED BY <2>5, <3>2
  <2>6. \/ order \in BatchOrders(q) \/ order \in VoidedInWindow(q)
        \/ \E m \in OfReq(q) : order \in {cycles[m].red, cycles[m].green}
    BY <1>4 DEF CycleOrders
  <2> QED BY <2>3, <2>4, <2>5, <2>6
<1>5. ASSUME w.scope[1] = "RECORD_MISSING", NEW i \in DOMAIN log, i > w.order, log[i][1] # "other"
      PROVE  FALSE
  <2>1. Snapshot(w.scope, n) = <<Normalized(n), EverRecorded, <<at, quality, history>>>>
    BY <1>2, <1>5, SnapshotKinds
  <2>2. w.snapshot[2] = EverRecorded
    BY <1>3, <2>1
  <2>3. ~ChangeExists
    BY <1>3, <1>5 DEF Reported
  <2>4. log[i] = <<"impact", Req>>
    BY <1>5, <2>3 DEF WInv, UnwrittenInv
  <2>5. EverRecorded
    BY <2>4, BatchSlots DEF EverRecorded
  <2>6. PICK j \in DOMAIN log : j < w.order /\ IsPhase(log[j])
    BY <1>2, <1>5, <2>2, <2>5 DEF Seen
  <2>7. log[j][1] # "other"
    BY <2>6 DEF IsPhase, Slot, BatchPhase
  <2>8. log[j] = <<"impact", Req>>
    BY <2>3, <2>7 DEF WInv, UnwrittenInv
  <2>9. i = j
    BY <2>4, <2>8 DEF WInv, IInv, OrdersPaired
  <2> QED BY <1>2, <1>5, <2>6, <2>9 DEF Seen, WInv, IInv, RecordType
<1> QED BY <1>4, <1>5

\* While the snapshot stays, what proves q goes on proving it.
LEMMA ProvenStays ==
    ASSUME WInv, IInv', [WaiverNext]_allVars, NEW q \in Req,
           Proof(q)' = Proof(q), Proven(q)
    PROVE  Proven(q)'
<1>1. [RecordStep]_vars
  BY WaiverStepRecords DEF WInv, IInv
<1>2. /\ Order("requirements", Req)' = Order("requirements", Req)
      /\ Order0("red", q)' = Order0("red", q)
      /\ Order0("implementation", q)' = Order0("implementation", q)
      /\ Order0("green", q)' = Order0("green", q)
      /\ VoidedInWindow(q)' = VoidedInWindow(q)
  BY DEF Proof
<1>3. \A order : InWindow(q, order)' <=> InWindow(q, order)
  BY <1>1, <1>2, WindowKept DEF WInv
<1>4. PICK n \in DOMAIN cycles :
          /\ cycles[n].req = q
          /\ cycles[n].void = 0 /\ InWindow(q, cycles[n].red)
          /\ Order0("implementation", q) # 0
          /\ Order0("implementation", q) < cycles[n].green
          /\ cycles[n].green <= Order0("green", q)
  BY DEF Proven, OfReq
<1>5. /\ n \in DOMAIN cycles' /\ cycles'[n].req = q
      /\ cycles'[n].red = cycles[n].red
      /\ cycles[n].green \in {0, cycles'[n].green}
      /\ cycles'[n].void \in {0, Len(log) + 1}
  BY <1>4, CycleKept
<1>6. cycles'[n].green = cycles[n].green
  BY <1>4, <1>5, Order0Type DEF WInv, BatchPhase
<1>7. InWindow(q, cycles[n].red)'
  <2>1. InWindow(q, cycles[n].red)
    BY <1>4
  <2> QED BY <1>3, <1>5, <2>1 DEF InWindow
<1>8. cycles'[n].void = 0
  <2> SUFFICES ASSUME cycles'[n].void = Len(log) + 1 PROVE FALSE
    BY <1>5
  <2>1. cycles'[n].void # 0
    BY SlotOrders DEF WInv
  <2>2. cycles'[n].void \in VoidedInWindow(q)'
    BY <1>5, <1>7, <2>1 DEF VoidedInWindow, OfReq
  <2>3. PICK m \in DOMAIN cycles : Len(log) + 1 = cycles[m].void
    BY <1>2, <2>2 DEF VoidedInWindow, OfReq
  <2> QED BY <2>3, SlotOrders DEF WInv, CyclesInv
<1> QED BY <1>2, <1>4, <1>5, <1>6, <1>7, <1>8 DEF Proven, OfReq

\* A waiver keeps what it was recorded with.
LEMMA WaiverKept ==
    ASSUME HumanType, [WaiverNext]_allVars, NEW n \in DOMAIN waivers
    PROVE  n \in DOMAIN waivers' /\ waivers'[n] = waivers[n]
<1>1. CASE WriteWaiver
  BY <1>1 DEF WriteWaiver, HumanType
<1>2. CASE UNCHANGED waivers
  BY <1>2
<1> QED BY <1>1, <1>2
        DEF WaiverNext, ChangeStep, human, RecordRed, RecordGreen, VoidCycle, EditDocument,
            DraftWaiver, LoseWaiver, allVars

\* What makes a waiver stale, of a scope and a snapshot.
StaleAs(w, n) == w.snapshot # Snapshot(w.scope, n) \/ ~Reported(w.scope)

LEMMA StaleIsStaleAs ==
    ASSUME NEW n, NEW w
    PROVE  /\ waivers[n] = w => (Stale(n) <=> StaleAs(w, n))
           /\ waivers'[n] = w => (Stale(n)' <=> StaleAs(w, n)')
BY DEF Stale, StaleAs

\* A waiver that is in force was in force before, unless the change was not
\* recorded at all.
LEMMA NeverRevived ==
    ASSUME WInv, WInv', [WaiverNext]_allVars, NEW n \in DOMAIN waivers, NEW w, w = waivers[n],
           w.scope # <<"RECORD_MISSING">>, ~StaleAs(w, n)'
    PROVE  ~StaleAs(w, n)
<1>1. [RecordStep]_vars /\ IInv /\ IInv'
  BY WaiverStepRecords DEF WInv, IInv
<1>2. w \in Held /\ w \in Waiver
  BY DEF Held, WInv, HumanType
<1>3. Seen(w) /\ Followed(w) /\ w.scope \in Waived
  BY <1>2 DEF WInv, Waiver
<1>4. w.snapshot = Snapshot(w.scope, n)' /\ Reported(w.scope)'
  BY DEF StaleAs
<1>5. ChangeExists
  BY <1>3, ScopeKinds DEF Followed
<1>6. CASE w.scope[1] = "PHASE_MISSING"
  <2>1. w.scope[1] \notin Unproven /\ w.scope[2] \in SinglePhase \cup BatchPhase
    BY <1>3, <1>6, ScopeKinds
  <2>2. CASE w.scope[2] \in BatchPhase
    <3>1. w.snapshot = <<Uncovered(w.scope[2])'>> /\ Uncovered(w.scope[2])' # {}
      BY <1>4, <1>6, <2>2 DEF Snapshot, Reported
    <3>2. Uncovered(w.scope[2])' \subseteq Uncovered(w.scope[2])
      BY <1>1, <2>2, RecordedStays
    <3>3. Uncovered(w.scope[2]) \subseteq w.snapshot[1]
      BY <1>3, <1>6, <2>2 DEF Followed
    <3>4. w.snapshot = <<Uncovered(w.scope[2])>> /\ Uncovered(w.scope[2]) # {}
      BY <3>1, <3>2, <3>3
    <3>5. Snapshot(w.scope, n) = <<Uncovered(w.scope[2])>>
      BY <1>3, <1>6, <2>2, SnapshotKinds
    <3>6. Reported(w.scope)
      BY <1>5, <1>6, <2>1, <2>2, <3>4 DEF Reported, Unproven
    <3> QED BY <3>4, <3>5, <3>6 DEF StaleAs
  <2>3. CASE w.scope[2] \notin BatchPhase
    <3>1. w.snapshot = <<OrderOfPhase(w.scope[2])'>> /\ OrderOfPhase(w.scope[2])' = 0
      BY <1>4, <1>6, <2>3 DEF Snapshot, Reported
    <3>2. OrderOfPhase(w.scope[2]) = 0
      BY <1>1, <2>1, <2>3, <3>1, RecordedStays, BatchSlots
         DEF OrderOfPhase, Order, SinglePhase
    <3>3. Snapshot(w.scope, n) = <<OrderOfPhase(w.scope[2])>>
      BY <1>3, <1>6, <2>3, SnapshotKinds
    <3>4. Reported(w.scope)
      BY <1>5, <1>6, <2>1, <2>3, <3>2 DEF Reported, Unproven
    <3> QED BY <3>1, <3>2, <3>3, <3>4 DEF StaleAs
  <2> QED BY <2>2, <2>3
<1>7. CASE w.scope[1] \in Unproven
  <2> DEFINE q == w.scope[2]
  <2>1. /\ q \in Req /\ w.scope[1] \notin {"PHASE_MISSING", "RECORD_MISSING"}
    BY <1>3, <1>7, ScopeKinds
  <2>2. w.snapshot = Proof(q)'
    BY <1>4, <1>7, <2>1 DEF Snapshot, Proof
  <2>3. Behind(Proof(q)', Proof(q))
    BY <1>3, <1>7, <2>2 DEF Followed
  <2>4. Behind(Proof(q), Proof(q)')
    BY <1>1, <2>1, ProofMoves
  <2>5. Proof(q) \in ProofSnapshot /\ Proof(q)' \in ProofSnapshot
    BY <1>3, <1>7, <2>1, <2>2, ProofType DEF Seen, WInv
  <2>6. \A r, s \in Proof(q)[5] : r[1] = s[1] => r = s
    BY DEF Proof, OfReq, WInv, CyclesInv
  <2>7. \A r, s \in Proof(q)'[5] : r[1] = s[1] => r = s
    BY DEF Proof, OfReq, WInv, CyclesInv
  <2>8. Proof(q)' = Proof(q)
    BY <2>3, <2>4, <2>5, <2>6, <2>7, BehindReturns
  <2>9. ~Proven(q)
    <3>1. ~Proven(q)'
      BY <1>4, <1>7, <2>1 DEF Reported
    <3> QED BY <1>1, <2>1, <2>8, <3>1, ProvenStays
  <2>10. /\ Order0("red", q)' = Order0("red", q)
         /\ Order0("green", q)' = Order0("green", q)
    BY <2>8 DEF Proof
  <2>11. history' = <<>> => history = <<>>
    BY <1>1, RecordedStays
  <2>12. Reported(w.scope)
    BY <1>4, <1>5, <1>7, <2>1, <2>9, <2>10, <2>11 DEF Reported
  <2>13. Snapshot(w.scope, n) = Proof(q)
    BY <1>3, <1>7, SnapshotKinds
  <2> QED BY <2>2, <2>8, <2>12, <2>13 DEF StaleAs
<1> QED BY <1>3, <1>6, <1>7, ScopeKinds

\* What an active waiver is about was before its approver in the log.
THEOREM WaiversSawAll == WaiverSpec => []NothingUnseen
BY WaiverInvariantHolds, ActiveSawAll, PTL

\* No step brings a stale waiver about recorded evidence into force again.
THEOREM StaleStaysStale == WaiverSpec => StaleForGood
<1> DEFINE Revives ==
      \A n \in 1..MaxWaivers :
          n \in DOMAIN waivers /\ waivers[n].scope # <<"RECORD_MISSING">> /\ Stale(n)
              => Stale(n)'
<1>1. WInv /\ WInv' /\ [WaiverNext]_allVars => Revives
  <2> SUFFICES ASSUME WInv, WInv', [WaiverNext]_allVars, NEW n \in DOMAIN waivers,
                      waivers[n].scope # <<"RECORD_MISSING">>, Stale(n)
               PROVE  Stale(n)'
    OBVIOUS
  <2>1. PICK w : w = waivers[n]
    OBVIOUS
  <2>2. waivers'[n] = w
    BY <2>1, WaiverKept DEF WInv
  <2> QED BY <2>1, <2>2, StaleIsStaleAs, NeverRevived
<1>2. WaiverSpec => [][Revives]_allVars
  BY <1>1, WaiverInvariantHolds, PTL DEF WaiverSpec
<1> QED BY <1>2 DEF StaleForGood

\* Beside waivers, TDD cycles and edits of the document, the record of the
\* change keeps all that it keeps by itself.
THEOREM RecordSoundBesideWaivers ==
    WaiverSpec => [](OrdersPaired /\ PhasesInOrder /\ LineageSound /\ QualityProven)
<1>1. WInv => OrdersPaired /\ PhasesInOrder /\ LineageSound /\ QualityProven
  BY DEF WInv, IInv, LineageInv, LineageSound, LineageMalformed
<1> QED BY <1>1, WaiverInvariantHolds, PTL

\* Nor does one of those steps drop or renumber its evidence.
THEOREM EvidenceKeptBesideWaivers == WaiverSpec => AppendOnly
<1>1. WInv /\ [WaiverNext]_allVars => [Kept]_vars
  BY RecordKept, WaiverStepRecords DEF WInv, IInv
<1>2. WaiverSpec => [][Kept]_vars
  BY <1>1, WaiverInvariantHolds, PTL DEF WaiverSpec
<1> QED BY <1>2 DEF AppendOnly, Kept

=============================================================================
