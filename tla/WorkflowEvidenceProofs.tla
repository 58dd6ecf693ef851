---------------------- MODULE WorkflowEvidenceProofs ----------------------
(***************************************************************************)
(* Theorems about WorkflowEvidence for any sessions, skills and bounds:    *)
(* what the greedy binding of declarations finds, what a waiver covers,    *)
(* when a record loses its link, what record-all leaves behind, and that   *)
(* the sanitized copy of a transcript verifies as the transcript does.     *)
(***************************************************************************)
EXTENDS WorkflowEvidence, SequenceTheorems, FiniteSetTheorems, WellFoundedInduction, TLAPS

-----------------------------------------------------------------------------
(* Minima and ranks of naturals                                            *)

\* A non-empty set of naturals has a minimum.
LEMMA HasMinimum ==
    ASSUME NEW S \in SUBSET Nat, S # {}
    PROVE  \E m \in S : \A n \in S : m <= n
<1> DEFINE less == OpToRel(<, Nat)
<1>1. \A x, y \in Nat : x < y => <<x, y>> \in less
  BY DEF OpToRel
<1>2. PICK m \in S : \A n \in S : ~(<<n, m>> \in less)
  <2>1. IsWellFoundedOn(less, Nat)
    BY NatLessThanWellFounded
  <2> QED BY <2>1, WFMin
<1> HIDE DEF less
<1>3. \A n \in S : m <= n
  <2> SUFFICES ASSUME NEW n \in S, n < m PROVE FALSE
    OBVIOUS
  <2>1. <<n, m>> \in less
    BY <1>1
  <2> QED BY <2>1, <1>2
<1> QED BY <1>3

\* Min is the minimum.
LEMMA MinIsLeast ==
    ASSUME NEW S \in SUBSET Nat, S # {}
    PROVE  Min(S) \in S /\ \A n \in S : Min(S) <= n
BY HasMinimum DEF Min

\* How many indices of S are at most i.
Rank(S, i) == Cardinality({j \in S : j <= i})

\* Ranks lie between one and the number of indices, and ascend with them.
LEMMA RanksAscend ==
    ASSUME NEW S \in SUBSET Nat, IsFiniteSet(S)
    PROVE  /\ \A i \in S : Rank(S, i) \in 1..Cardinality(S)
           /\ \A i, j \in S : i < j => Rank(S, i) < Rank(S, j)
<1> DEFINE Upto(i) == {j \in S : j <= i}
<1>1. \A i : IsFiniteSet(Upto(i)) /\ Cardinality(Upto(i)) \in Nat
             /\ Cardinality(Upto(i)) <= Cardinality(S)
  BY FS_Subset, FS_CardinalityType
<1>2. \A i \in S : Upto(i) # {}
  OBVIOUS
<1>3. \A i \in S : Cardinality(Upto(i)) # 0
  BY <1>1, <1>2, FS_EmptySet
<1>4. Cardinality(S) \in Nat
  BY FS_CardinalityType
<1>5. ASSUME NEW i \in S, NEW j \in S, i < j
      PROVE  Cardinality(Upto(i)) < Cardinality(Upto(j))
  <2> i \in Nat /\ j \in Nat
    OBVIOUS
  <2>1. Upto(i) \subseteq Upto(j)
    <3>1. \A k \in S : k <= i => k <= j
      BY <1>5
    <3> QED BY <3>1
  <2>2. j \in Upto(j) /\ j \notin Upto(i)
    BY <1>5
  <2>3. Cardinality(Upto(i)) <= Cardinality(Upto(j))
        /\ Cardinality(Upto(i)) # Cardinality(Upto(j))
    BY <2>1, <2>2, <1>1, FS_Subset
  <2> QED BY <2>3, <1>1
<1> QED BY <1>1, <1>3, <1>4, <1>5 DEF Rank

\* InOrder lists a finite set of naturals: every member once, ascending.
LEMMA InOrderLists ==
    ASSUME NEW S \in SUBSET Nat, IsFiniteSet(S)
    PROVE  /\ Cardinality(S) \in Nat
           /\ InOrder(S) \in [1..Cardinality(S) -> S]
           /\ \A n \in 1..Cardinality(S) : Rank(S, InOrder(S)[n]) = n
           /\ \A i \in S : InOrder(S)[Rank(S, i)] = i
           /\ \A m, n \in 1..Cardinality(S) : m < n => InOrder(S)[m] < InOrder(S)[n]
<1> DEFINE size == Cardinality(S)
           rank == [i \in S |-> Rank(S, i)]
<1>1. size \in Nat
  BY FS_CardinalityType
<1>2. \A i \in S : Rank(S, i) \in 1..size
  BY RanksAscend
<1>3. \A i, j \in S : i < j => Rank(S, i) < Rank(S, j)
  BY RanksAscend
<1>4. \A i, j \in S : Rank(S, i) = Rank(S, j) => i = j
  <2> SUFFICES ASSUME NEW i \in S, NEW j \in S, Rank(S, i) = Rank(S, j), i # j
               PROVE  FALSE
    OBVIOUS
  <2>1. i < j \/ j < i
    OBVIOUS
  <2> QED BY <2>1, <1>2, <1>3
<1>5. rank \in Injection(S, 1..size)
  BY <1>2, <1>4 DEF Injection, IsInjective
<1>6. IsFiniteSet(1..size) /\ Cardinality(1..size) = size
  BY <1>1, FS_Interval
<1>7. rank \in Surjection(S, 1..size)
  BY <1>5, <1>6, FS_Injection
<1>8. \A n \in 1..size : \E i \in S : Rank(S, i) = n
  BY <1>7 DEF Surjection
<1> DEFINE at(n) == CHOOSE i \in S : Cardinality({j \in S : j <= i}) = n
<1>9. InOrder(S) = [n \in 1..size |-> at(n)]
  BY DEF InOrder
<1>14. \A n \in 1..size : at(n) \in S /\ Rank(S, at(n)) = n
  BY <1>8 DEF Rank
<1> HIDE DEF at
<1>10. \A n \in 1..size : InOrder(S)[n] \in S /\ Rank(S, InOrder(S)[n]) = n
  BY <1>9, <1>14
<1>11. InOrder(S) \in [1..size -> S]
  BY <1>9, <1>14
<1>12. \A i \in S : InOrder(S)[Rank(S, i)] = i
  BY <1>2, <1>4, <1>10
<1>13. \A m, n \in 1..size : m < n => InOrder(S)[m] < InOrder(S)[n]
  <2> SUFFICES ASSUME NEW m \in 1..size, NEW n \in 1..size, m < n,
                      ~(InOrder(S)[m] < InOrder(S)[n])
               PROVE  FALSE
    OBVIOUS
  <2> DEFINE i == InOrder(S)[m]
             j == InOrder(S)[n]
  <2>1. i \in S /\ j \in S /\ Rank(S, i) = m /\ Rank(S, j) = n
    BY <1>10
  <2> HIDE DEF i, j
  <2>2. i \in Nat /\ j \in Nat /\ m < n
    BY <2>1
  <2>3. j < i \/ j = i
    BY <2>2 DEF i, j
  <2> QED BY <2>1, <2>2, <2>3, <1>1, <1>3
<1> QED BY <1>1, <1>10, <1>11, <1>12, <1>13

-----------------------------------------------------------------------------
(* The inductive invariant                                                 *)

\* Declarations are what their type says, and none is of the future.
PastInv ==
    /\ now \in Nat
    /\ events \in Seq([skill : Skill, recordedAt : Nat])
    /\ \A k \in DOMAIN events : events[k].recordedAt <= now

\* What was verified is of the declarations that are recorded.
VerifiedInv == verification # None => verification.events = events

\* A record is of a declared skill's scope; it was made of verified evidence
\* whose declarations were recorded by then, and of the code reported of it.
ScopeKnown(scope) ==
    IF scope.index = 0 THEN Matches(scope.skill, scope.recordedAt) # {}
    ELSE Resolves(scope)
Reviewed(record) ==
    /\ record.snapshot.head # None
    /\ \A k \in DOMAIN record.snapshot.head.events :
          record.snapshot.head.events[k].recordedAt <= record.recordedAt
    /\ record.snapshot.code = record.code

WaiversInv ==
    /\ waivers \in Seq({waivers[i] : i \in DOMAIN waivers})
    /\ \A i \in DOMAIN waivers : ScopeKnown(waivers[i].scope) /\ Reviewed(waivers[i])

WInv == PastInv /\ VerifiedInv /\ WaiversInv

-----------------------------------------------------------------------------
(* Scopes                                                                  *)

LEMMA DeclaredType ==
    ASSUME PastInv
    PROVE  /\ Len(events) \in Nat
           /\ Declared = 1..Len(events)
           /\ Declared \in SUBSET Nat
           /\ IsFiniteSet(Declared)
           /\ \A k \in Declared : events[k].recordedAt \in Nat
<1> DEFINE Declaration == [skill : Skill, recordedAt : Nat]
<1>1. events \in Seq(Declaration)
  BY DEF PastInv
<1>2. \A declaration \in Declaration : declaration.recordedAt \in Nat
  OBVIOUS
<1> HIDE DEF Declaration
<1>3. Len(events) \in Nat /\ DOMAIN events = 1..Len(events)
  BY <1>1, LenProperties
<1>4. \A k \in DOMAIN events : events[k] \in Declaration
  BY <1>1, <1>3, ElementOfSeq
<1>5. IsFiniteSet(1..Len(events))
  BY <1>3, FS_Interval
<1> QED BY <1>2, <1>3, <1>4, <1>5 DEF Declared

LEMMA MatchesFinite ==
    ASSUME PastInv, NEW skill, NEW at
    PROVE  /\ Matches(skill, at) \subseteq Declared
           /\ IsFiniteSet(Matches(skill, at))
           /\ Cardinality(Matches(skill, at)) \in Nat
           /\ Cardinality(Matches(skill, at)) = 0 <=> Matches(skill, at) = {}
<1>1. Matches(skill, at) \subseteq Declared
  BY DEF Matches
<1>2. IsFiniteSet(Matches(skill, at))
  BY <1>1, DeclaredType, FS_Subset
<1> QED BY <1>1, <1>2, FS_CardinalityType, FS_EmptySet

LEMMA AllMatchesFinite ==
    PastInv => \A at, kind : /\ IsFiniteSet(Matches(kind, at))
                             /\ Cardinality(Matches(kind, at)) \in Nat
BY MatchesFinite

\* The scope of a declaration resolves to it.
LEMMA ScopeResolves ==
    ASSUME PastInv, NEW k \in Declared
    PROVE  Resolves(Scope(k)) /\ ScopeKnown(Scope(k))
<1> DEFINE likes == Matches(events[k].skill, events[k].recordedAt)
<1>1. k \in likes
  BY DEF Matches
<1>2. Cardinality(likes) \in Nat /\ Cardinality(likes) # 0
  BY <1>1, MatchesFinite
<1>3. k # 0
  BY DeclaredType
<1>4. Scope(k) = [skill |-> events[k].skill, recordedAt |-> events[k].recordedAt,
                  index |-> IF Cardinality(likes) < 2 THEN 0 ELSE k]
  BY DEF Scope
<1>5. Matches(Scope(k).skill, Scope(k).recordedAt) = likes
  BY <1>4
<1> HIDE DEF likes
<1>6. CASE Cardinality(likes) < 2
  <2>1. Scope(k).index = 0
    BY <1>4, <1>6
  <2>2. Cardinality(likes) = 1
    BY <1>2, <1>6
  <2> QED BY <2>1, <2>2, <1>1, <1>5 DEF Resolves, ScopeKnown
<1>7. CASE ~(Cardinality(likes) < 2)
  <2>1. Scope(k).index = k
    BY <1>4, <1>7
  <2>2. Cardinality(likes) > 1
    BY <1>2, <1>7
  <2>3. Resolves(Scope(k))
    BY <2>1, <2>2, <1>1, <1>3, <1>5 DEF Resolves
  <2> QED BY <2>1, <2>3, <1>3 DEF ScopeKnown
<1> QED BY <1>6, <1>7

\* Two declarations have two scopes.
LEMMA ScopeTells ==
    ASSUME PastInv, NEW k \in Declared, NEW l \in Declared, Scope(k) = Scope(l)
    PROVE  k = l
<1> DEFINE likes(i) == Matches(events[i].skill, events[i].recordedAt)
<1>1. \A i \in Declared :
        Scope(i) = [skill |-> events[i].skill, recordedAt |-> events[i].recordedAt,
                    index |-> IF Cardinality(likes(i)) < 2 THEN 0 ELSE i]
  BY DEF Scope
<1>2. /\ events[k].skill = events[l].skill
      /\ events[k].recordedAt = events[l].recordedAt
  BY <1>1
<1>3. likes(k) = likes(l)
  BY <1>2
<1>4. k \in likes(k) /\ l \in likes(k)
  BY <1>2 DEF Matches
<1>5. IsFiniteSet(likes(k)) /\ Cardinality(likes(k)) \in Nat
  BY MatchesFinite
<1>6. Scope(k).index = IF Cardinality(likes(k)) < 2 THEN 0 ELSE k
  BY <1>1
<1>7. Scope(l).index = IF Cardinality(likes(k)) < 2 THEN 0 ELSE l
  BY <1>1, <1>3
<1> HIDE DEF likes
<1>8. CASE Cardinality(likes(k)) < 2
  <2>1. Cardinality(likes(k)) # 0
    BY <1>4, <1>5, FS_EmptySet
  <2>2. Cardinality(likes(k)) = 1
    BY <2>1, <1>5, <1>8
  <2>3. \E x : likes(k) = {x}
    BY <2>2, <1>5, FS_Singleton
  <2> QED BY <2>3, <1>4
<1>9. CASE ~(Cardinality(likes(k)) < 2)
  BY <1>6, <1>7, <1>9
<1> QED BY <1>8, <1>9

\* A scope that is known stays so when another declaration is recorded.
LEMMA ScopeStaysKnown ==
    ASSUME PastInv, PastInv', NEW skill \in Skill, Declare(skill), NEW scope, ScopeKnown(scope)
    PROVE  ScopeKnown(scope)'
<1> DEFINE new == [skill |-> skill, recordedAt |-> now]
           likes == Matches(scope.skill, scope.recordedAt)
<1>1. events \in Seq([skill : Skill, recordedAt : Nat]) /\ now \in Nat
  BY DEF PastInv
<1>2. events' = Append(events, new)
  BY DEF Declare
<1>3. DOMAIN events = 1..Len(events) /\ Len(events) \in Nat
  BY DeclaredType DEF Declared
<1>4. \A k \in DOMAIN events : k \in DOMAIN events' /\ events'[k] = events[k]
  BY <1>1, <1>2, <1>3
<1>5. likes \subseteq likes'
  BY <1>4 DEF Matches, Declared
<1>6. IsFiniteSet(likes') /\ Cardinality(likes') \in Nat
  <2>1. PastInv'
    OBVIOUS
  <2>2. (\A at, kind : /\ IsFiniteSet(Matches(kind, at))
                       /\ Cardinality(Matches(kind, at)) \in Nat)'
    BY <2>1, AllMatchesFinite, PTL
  <2> QED BY <2>2
<1>7. Cardinality(likes) \in Nat /\ Cardinality(likes) <= Cardinality(likes')
  BY <1>5, <1>6, FS_Subset, MatchesFinite
<1>8. CASE scope.index = 0
  BY <1>8, <1>5 DEF ScopeKnown
<1>9. CASE scope.index # 0
  <2>1. Cardinality(likes) > 1 /\ scope.index \in likes
    BY <1>9 DEF ScopeKnown, Resolves
  <2>2. Cardinality(likes') > 1 /\ scope.index \in likes'
    BY <2>1, <1>5, <1>6, <1>7
  <2> QED BY <2>2, <1>9 DEF ScopeKnown, Resolves
<1> QED BY <1>8, <1>9

-----------------------------------------------------------------------------
(* Recording                                                               *)

\* A record of a declaration is of a known scope and of reviewed evidence.
LEMMA RecordIsReviewed ==
    ASSUME WInv, verification # None, NEW k \in Declared
    PROVE  ScopeKnown(Record(k).scope) /\ Reviewed(Record(k))
<1> DEFINE code == CodeOf(Scope(k))
<1>1. PastInv /\ verification.events = events
  BY DEF WInv, VerifiedInv
<1>2. Snapshot(Scope(k)) = [head |-> verification, code |-> code]
  BY DEF Snapshot
<1> HIDE DEF code
<1>3. Record(k) = [scope |-> Scope(k), code |-> code, recordedAt |-> now,
                   snapshot |-> [head |-> verification, code |-> code]]
  BY <1>2 DEF Record, code
<1>4. ScopeKnown(Record(k).scope)
  BY <1>1, <1>3, ScopeResolves
<1>5. \A j \in DOMAIN events : events[j].recordedAt <= now
  BY <1>1 DEF PastInv
<1>6. Reviewed(Record(k))
  BY <1>1, <1>3, <1>5 DEF Reviewed
<1> QED BY <1>4, <1>6

\* Where appended records are, and that nothing else changes.
LEMMA Appending ==
    ASSUME WaiversInv, NEW n \in Nat, NEW T, NEW records \in [1..n -> T]
    PROVE  /\ Len(waivers) \in Nat
           /\ DOMAIN waivers = 1..Len(waivers)
           /\ DOMAIN (waivers \o records) = 1..(Len(waivers) + n)
           /\ \A i \in 1..Len(waivers) : (waivers \o records)[i] = waivers[i]
           /\ \A i \in 1..n : (waivers \o records)[Len(waivers) + i] = records[i]
           /\ \E S : waivers \o records \in Seq(S)
<1> DEFINE held == {waivers[i] : i \in DOMAIN waivers}
           S == held \cup T
<1>1. waivers \in Seq(held)
  BY DEF WaiversInv
<1>2. records \in Seq(T)
  OBVIOUS
<1> HIDE DEF held
<1>3. waivers \in Seq(S) /\ records \in Seq(S)
  BY <1>1, <1>2, SeqMonotonic
<1>4. Len(records) = n
  OBVIOUS
<1> HIDE DEF S
<1>5. /\ waivers \o records \in Seq(S)
      /\ Len(waivers \o records) = Len(waivers) + n
      /\ \A i \in 1..(Len(waivers) + n) : (waivers \o records)[i] =
            IF i <= Len(waivers) THEN waivers[i] ELSE records[i - Len(waivers)]
  BY <1>3, <1>4, ConcatProperties
<1>6. Len(waivers) \in Nat /\ DOMAIN waivers = 1..Len(waivers)
  BY <1>3, LenProperties
<1>7. DOMAIN (waivers \o records) = 1..(Len(waivers) + n)
  BY <1>5, LenProperties
<1>8. \A i \in 1..Len(waivers) : (waivers \o records)[i] = waivers[i]
  BY <1>5, <1>6
<1>9. \A i \in 1..n : (waivers \o records)[Len(waivers) + i] = records[i]
  <2> SUFFICES ASSUME NEW i \in 1..n
               PROVE  (waivers \o records)[Len(waivers) + i] = records[i]
    OBVIOUS
  <2>1. /\ Len(waivers) + i \in 1..(Len(waivers) + n)
        /\ ~(Len(waivers) + i <= Len(waivers))
        /\ (Len(waivers) + i) - Len(waivers) = i
    BY <1>6
  <2> QED BY <2>1, <1>5
<1> QED BY <1>5, <1>6, <1>7, <1>8, <1>9

\* A sequence is one of its own members.
LEMMA SeqOfItself ==
    ASSUME NEW S, NEW s \in Seq(S)
    PROVE  s \in Seq({s[i] : i \in DOMAIN s})
<1>1. Len(s) \in Nat /\ s \in [1..Len(s) -> S] /\ DOMAIN s = 1..Len(s)
  BY LenProperties
<1>2. s \in [1..Len(s) -> {s[i] : i \in DOMAIN s}]
  BY <1>1
<1> QED BY <1>1, <1>2

\* The declarations RecordAll records a waiver of.
Todo == {k \in Declared : Codes[k] # None /\ ~Waived(k)}

LEMMA TodoListed ==
    ASSUME PastInv
    PROVE  /\ Todo \subseteq Declared
           /\ Cardinality(Todo) \in Nat
           /\ InOrder(Todo) \in [1..Cardinality(Todo) -> Todo]
           /\ \A k \in Todo : \E n \in 1..Cardinality(Todo) : InOrder(Todo)[n] = k
           /\ \A m, n \in 1..Cardinality(Todo) :
                 m # n => InOrder(Todo)[m] # InOrder(Todo)[n]
<1>1. Todo \in SUBSET Declared
  BY DEF Todo
<1>2. Declared \in SUBSET Nat /\ IsFiniteSet(Declared)
  BY DeclaredType
<1>3. Todo \in SUBSET Nat /\ IsFiniteSet(Todo)
  BY <1>1, <1>2, FS_Subset
<1>4. /\ Cardinality(Todo) \in Nat
      /\ InOrder(Todo) \in [1..Cardinality(Todo) -> Todo]
      /\ \A n \in 1..Cardinality(Todo) : Rank(Todo, InOrder(Todo)[n]) = n
      /\ \A i \in Todo : InOrder(Todo)[Rank(Todo, i)] = i
  BY <1>3, InOrderLists
<1>5. \A i \in Todo : Rank(Todo, i) \in 1..Cardinality(Todo)
  BY <1>3, RanksAscend
<1> QED BY <1>1, <1>4, <1>5

-----------------------------------------------------------------------------
(* The invariant is kept                                                   *)

LEMMA WInvInit == Init => WInv
<1> SUFFICES ASSUME Init PROVE WInv
  OBVIOUS
<1>1. now \in Nat /\ events = <<>> /\ verification = None /\ waivers = <<>>
  BY SessionsAssumption, LenProperties DEF Init
<1>2. PastInv
  BY <1>1 DEF PastInv
<1>3. WaiversInv
  BY <1>1 DEF WaiversInv
<1> QED BY <1>1, <1>2, <1>3 DEF WInv, VerifiedInv

\* What the invariant says depends on time, declarations, verification and
\* waivers alone.
LEMMA WInvUnread ==
    ASSUME WInv, now' \in Nat, now <= now', UNCHANGED <<events, verification, waivers>>
    PROVE  WInv'
<1>1. /\ now \in Nat
      /\ events \in Seq([skill : Skill, recordedAt : Nat])
      /\ \A k \in DOMAIN events : events[k].recordedAt <= now
  BY DEF WInv, PastInv
<1>2. \A k \in DOMAIN events : events[k].recordedAt \in Nat
  BY DeclaredType DEF WInv, Declared
<1>3. PastInv'
  BY <1>1, <1>2 DEF PastInv
<1>4. VerifiedInv'
  BY DEF WInv, VerifiedInv
<1>5. \A i \in DOMAIN waivers : ScopeKnown(waivers[i].scope)'
  BY DEF WInv, WaiversInv, ScopeKnown, Resolves, Matches, Declared
<1>6. WaiversInv'
  BY <1>5 DEF WInv, WaiversInv, Reviewed
<1> QED BY <1>3, <1>4, <1>6 DEF WInv

LEMMA WInvDeclare ==
    ASSUME WInv, NEW skill \in Skill, Declare(skill)
    PROVE  WInv'
<1> DEFINE Declaration == [skill : Skill, recordedAt : Nat]
           new == [skill |-> skill, recordedAt |-> now]
<1>1. /\ now \in Nat /\ now' = now
      /\ events \in Seq(Declaration)
      /\ \A k \in DOMAIN events : events[k].recordedAt <= now
  BY DEF WInv, PastInv, Declare
<1>2. /\ events' = Append(events, new)
      /\ verification' = None
      /\ waivers' = waivers
  BY DEF Declare
<1>3. new \in Declaration /\ new.recordedAt = now
  BY <1>1
<1> HIDE DEF Declaration, new
<1>4. /\ events' \in Seq(Declaration)
      /\ DOMAIN events' = 1..(Len(events) + 1)
      /\ \A k \in DOMAIN events' : k \in DOMAIN events \/ k = Len(events) + 1
      /\ \A k \in DOMAIN events : events'[k] = events[k]
      /\ events'[Len(events) + 1] = new
  BY <1>1, <1>2, <1>3
<1>5. \A k \in DOMAIN events' : events'[k].recordedAt <= now'
  BY <1>1, <1>3, <1>4
<1>6. PastInv'
  BY <1>1, <1>4, <1>5 DEF PastInv, Declaration
<1>7. VerifiedInv'
  BY <1>2 DEF VerifiedInv
<1>8. ASSUME NEW i \in DOMAIN waivers
      PROVE  ScopeKnown(waivers[i].scope)' /\ Reviewed(waivers[i])
  <2> DEFINE scope == waivers[i].scope
  <2>1. ScopeKnown(scope)
    BY DEF WInv, WaiversInv
  <2>2. PastInv
    BY DEF WInv
  <2>3. \A known : ScopeKnown(known) => ScopeKnown(known)'
    BY <2>2, <1>6, ScopeStaysKnown
  <2>4. ScopeKnown(waivers[i].scope)'
    BY <2>1, <2>3, <1>2
  <2> QED BY <2>4 DEF WInv, WaiversInv
<1>9. WaiversInv'
  BY <1>2, <1>8 DEF WInv, WaiversInv, Reviewed
<1> QED BY <1>6, <1>7, <1>9 DEF WInv

LEMMA WInvVerify ==
    ASSUME WInv, NEW mode, NEW files, Verify(mode, files)
    PROVE  WInv'
<1>1. /\ verification'.events = events
      /\ UNCHANGED <<now, events, waivers>>
  BY Zenon DEF Verify
<1>2. PastInv'
  BY <1>1 DEF WInv, PastInv
<1>3. VerifiedInv'
  BY <1>1 DEF VerifiedInv
<1>4. \A i \in DOMAIN waivers : ScopeKnown(waivers[i].scope)'
  BY <1>1 DEF WInv, WaiversInv, ScopeKnown, Resolves, Matches, Declared
<1>5. WaiversInv'
  BY <1>1, <1>4 DEF WInv, WaiversInv, Reviewed
<1> QED BY <1>2, <1>3, <1>5 DEF WInv

LEMMA WInvAppend ==
    ASSUME WInv, verification # None, NEW n \in Nat,
           NEW records \in [1..n -> {Record(k) : k \in Declared}],
           AppendRecords(records)
    PROVE  WInv'
<1>1. waivers' = waivers \o records /\ UNCHANGED <<now, events, verification>>
  BY DEF AppendRecords
<1>2. PastInv' /\ VerifiedInv'
  BY <1>1 DEF WInv, PastInv, VerifiedInv
<1>3. \A k \in Declared : ScopeKnown(Record(k).scope) /\ Reviewed(Record(k))
  BY RecordIsReviewed
<1>4. \A i \in 1..n : ScopeKnown(records[i].scope) /\ Reviewed(records[i])
  BY <1>3
<1>5. /\ Len(waivers) \in Nat
      /\ DOMAIN waivers = 1..Len(waivers)
      /\ DOMAIN waivers' = 1..(Len(waivers) + n)
      /\ \A i \in 1..Len(waivers) : waivers'[i] = waivers[i]
      /\ \A i \in 1..n : waivers'[Len(waivers) + i] = records[i]
      /\ \E S : waivers' \in Seq(S)
  <2>1. WaiversInv
    BY DEF WInv
  <2>2. /\ Len(waivers) \in Nat
        /\ DOMAIN waivers = 1..Len(waivers)
        /\ DOMAIN (waivers \o records) = 1..(Len(waivers) + n)
        /\ \A i \in 1..Len(waivers) : (waivers \o records)[i] = waivers[i]
        /\ \A i \in 1..n : (waivers \o records)[Len(waivers) + i] = records[i]
        /\ \E S : waivers \o records \in Seq(S)
    BY <2>1, Appending
  <2> QED BY <2>2, <1>1
<1>6. ASSUME NEW i \in DOMAIN waivers'
      PROVE  ScopeKnown(waivers'[i].scope) /\ Reviewed(waivers'[i])
  <2>1. CASE i \in 1..Len(waivers)
    BY <2>1, <1>5 DEF WInv, WaiversInv
  <2>2. CASE i \notin 1..Len(waivers)
    <3>1. i - Len(waivers) \in 1..n /\ Len(waivers) + (i - Len(waivers)) = i
      BY <2>2, <1>5
    <3>2. waivers'[i] = records[i - Len(waivers)]
      BY <3>1, <1>5
    <3> QED BY <3>1, <3>2, <1>4
  <2> QED BY <2>1, <2>2
<1>7. \A scope : ScopeKnown(scope) <=> ScopeKnown(scope)'
  BY <1>1 DEF ScopeKnown, Resolves, Matches, Declared
<1>8. waivers' \in Seq({waivers'[i] : i \in DOMAIN waivers'})
  BY <1>5, SeqOfItself
<1>9. WaiversInv'
  BY <1>6, <1>7, <1>8 DEF WaiversInv, Reviewed
<1> QED BY <1>2, <1>9 DEF WInv

LEMMA WInvRecordWaiver ==
    ASSUME WInv, NEW k \in Declared, RecordWaiver(k)
    PROVE  WInv'
<1>1. verification # None /\ AppendRecords(<<Record(k)>>)
  BY DEF RecordWaiver, Recordable
<1>2. <<Record(k)>> \in [1..1 -> {Record(l) : l \in Declared}]
  OBVIOUS
<1> QED BY <1>1, <1>2, WInvAppend

\* What RecordAll appends.
AllRecords == [n \in DOMAIN InOrder(Todo) |-> Record(InOrder(Todo)[n])]

LEMMA AllRecordsType ==
    ASSUME PastInv
    PROVE  /\ AllRecords \in [1..Cardinality(Todo) -> {Record(k) : k \in Declared}]
           /\ \A n \in 1..Cardinality(Todo) : AllRecords[n] = Record(InOrder(Todo)[n])
<1> DEFINE todo == InOrder(Todo)
<1>1. todo \in [1..Cardinality(Todo) -> Todo] /\ Todo \subseteq Declared
  BY TodoListed
<1>2. AllRecords = [n \in DOMAIN todo |-> Record(todo[n])]
  BY DEF AllRecords
<1> HIDE DEF todo
<1>3. /\ AllRecords \in [1..Cardinality(Todo) -> {Record(k) : k \in Declared}]
      /\ \A n \in 1..Cardinality(Todo) : AllRecords[n] = Record(todo[n])
  BY <1>1, <1>2
<1> QED BY <1>3 DEF todo

LEMMA RecordAllAppends ==
    ASSUME RecordAll
    PROVE  verification # None /\ AppendRecords(AllRecords)
BY DEF RecordAll, Recordable, AllRecords, Todo

LEMMA WInvRecordAll ==
    ASSUME WInv, RecordAll
    PROVE  WInv'
<1>1. verification # None /\ AppendRecords(AllRecords)
  BY RecordAllAppends
<1>2. PastInv
  BY DEF WInv
<1>3. Cardinality(Todo) \in Nat
      /\ AllRecords \in [1..Cardinality(Todo) -> {Record(k) : k \in Declared}]
  BY <1>2, TodoListed, AllRecordsType
<1> QED BY <1>1, <1>3, WInvAppend

LEMMA WInvWrite ==
    ASSUME WInv, NEW s, NEW event, Write(s, event)
    PROVE  WInv'
<1>1. now \in Nat
  BY DEF WInv, PastInv
<1>2. now' = now + 1 /\ UNCHANGED <<events, verification, waivers>>
  BY DEF Write
<1>3. now' \in Nat /\ now <= now'
  BY <1>1, <1>2
<1> QED BY <1>2, <1>3, WInvUnread

LEMMA WInvNext == WInv /\ [Next]_vars => WInv'
<1> SUFFICES ASSUME WInv, [Next]_vars PROVE WInv'
  OBVIOUS
<1>1. ASSUME NEW s \in Session, ShutDownRoutinely(s) PROVE WInv'
  BY <1>1, WInvWrite DEF ShutDownRoutinely
<1>2. ASSUME NEW s \in Session, Resume(s) PROVE WInv'
  BY <1>2, WInvWrite DEF Resume
<1>3. ASSUME NEW s \in Session, NEW exitCode \in {0, 1}, Finish(s, exitCode) PROVE WInv'
  BY <1>3, WInvWrite DEF Finish
<1>4. ASSUME NEW s \in Session, NEW tool \in Skill \cup {OtherTool}, Invoke(s, tool)
      PROVE  WInv'
  BY <1>4, WInvWrite DEF Invoke
<1>5. ASSUME NEW s \in Session, NEW i \in DOMAIN transcript[s], NEW ok \in BOOLEAN,
             Complete(s, i, ok)
      PROVE  WInv'
  BY <1>5, WInvWrite DEF Complete
<1>6. ASSUME NEW skill \in Skill, Declare(skill) PROVE WInv'
  BY <1>6, WInvDeclare
<1>7. ASSUME NEW mode \in Modes, NEW sessions \in FileSets,
             Verify(mode, {transcript[s] : s \in sessions})
      PROVE  WInv'
  BY <1>7, WInvVerify
<1>8. ASSUME RecordAll PROVE WInv'
  BY <1>8, WInvRecordAll
<1>9. ASSUME NEW k \in Declared, RecordWaiver(k) PROVE WInv'
  BY <1>9, WInvRecordWaiver
<1>10. ASSUME UNCHANGED vars PROVE WInv'
  <2>1. now \in Nat
    BY DEF WInv, PastInv
  <2>2. now' = now /\ UNCHANGED <<events, verification, waivers>>
    BY <1>10 DEF vars
  <2>3. now' \in Nat /\ now <= now'
    BY <2>1, <2>2
  <2> QED BY <2>2, <2>3, WInvUnread
<1> QED BY <1>1, <1>2, <1>3, <1>4, <1>5, <1>6, <1>7, <1>8, <1>9, <1>10 DEF Next

\* Evidence and waivers fit each other in every state.
THEOREM Inductive == Spec => []WInv
BY WInvInit, WInvNext, PTL DEF Spec

-----------------------------------------------------------------------------
(* What waivers cover, and how they lose their link                        *)

\* An active waiver was made of the verification that holds, and so of every
\* declaration recorded.
THEOREM WaiversCoverWhatWasSeen == Spec => []WaiverCoversReviewed
<1>1. WInv => WaiverCoversReviewed
  <2> SUFFICES ASSUME WInv, NEW i \in DOMAIN waivers, Active(i)
               PROVE  /\ \A k \in DOMAIN events :
                            events[k].recordedAt <= waivers[i].recordedAt
                      /\ CodeOf(waivers[i].scope) = waivers[i].code
    BY DEF WaiverCoversReviewed
  <2> DEFINE record == waivers[i]
  <2>1. Reviewed(record)
    BY DEF WInv, WaiversInv
  <2>2. record.snapshot = Snapshot(record.scope)
    BY DEF Active, Stale
  <2>3. record.snapshot.head = verification
        /\ record.snapshot.code = CodeOf(record.scope)
    BY <2>2 DEF Snapshot
  <2> HIDE DEF record
  <2>4. verification # None
    BY <2>1, <2>3 DEF Reviewed
  <2>5. record.snapshot.head.events = events
    BY <2>3, <2>4 DEF WInv, VerifiedInv
  <2>6. /\ \A k \in DOMAIN events : events[k].recordedAt <= record.recordedAt
        /\ CodeOf(record.scope) = record.code
    BY <2>1, <2>3, <2>5 DEF Reviewed
  <2> QED BY <2>6 DEF record
<1> QED BY <1>1, Inductive, PTL

\* A record whose scope was known by its index stays linked; one whose scope
\* needed no index has lost its link to a declaration like its own.
THEOREM LinksAreLostByCollision == Spec => []LinkLostByCollision
<1>1. WInv => LinkLostByCollision
  <2> SUFFICES ASSUME WInv, NEW i \in DOMAIN waivers, ~Linked(i)
               PROVE  /\ waivers[i].scope.index = 0
                      /\ Cardinality(Matches(waivers[i].scope.skill,
                                             waivers[i].scope.recordedAt)) > 1
    BY DEF LinkLostByCollision
  <2> DEFINE scope == waivers[i].scope
             likes == Matches(scope.skill, scope.recordedAt)
  <2>1. ScopeKnown(scope) /\ PastInv
    BY DEF WInv, WaiversInv
  <2>2. ~Resolves(scope)
    BY DEF Linked
  <2>3. scope.index = 0 /\ likes # {} /\ Cardinality(likes) # 1
    BY <2>1, <2>2 DEF ScopeKnown, Resolves
  <2>4. Cardinality(likes) \in Nat /\ Cardinality(likes) # 0
    BY <2>1, <2>3, MatchesFinite
  <2>5. Cardinality(likes) > 1
    BY <2>3, <2>4
  <2> QED BY <2>3, <2>5
<1> QED BY <1>1, Inductive, PTL

-----------------------------------------------------------------------------
(* What record-all leaves behind                                           *)

\* What is reported depends on the declarations and their verification alone.
LEMMA ReportUnchanged ==
    ASSUME UNCHANGED <<events, verification>>
    PROVE  /\ Declared' = Declared
           /\ Codes' = Codes
           /\ \A k : Scope(k)' = Scope(k)
           /\ \A scope : Resolves(scope)' = Resolves(scope)
           /\ \A scope : Snapshot(scope)' = Snapshot(scope)
<1>1. Declared' = Declared
  BY DEF Declared
<1>2. \A skill, at : Matches(skill, at)' = Matches(skill, at)
  BY DEF Matches, Declared
<1>3. \A k : Scope(k)' = Scope(k)
  BY DEF Scope, Matches, Declared
<1>4. \A scope : Resolves(scope)' = Resolves(scope)
  BY DEF Resolves, Matches, Declared
<1>5. Codes' = Codes
  BY DEF Codes, Verified, Bindings, Bind, Fitting, Eligible
<1>6. \A scope : CodeOf(scope)' = CodeOf(scope)
  BY <1>1, <1>3, <1>5 DEF CodeOf
<1>7. \A scope : Snapshot(scope)' = Snapshot(scope)
  BY <1>6 DEF Snapshot
<1> QED BY <1>1, <1>3, <1>4, <1>5, <1>7

\* Where the waivers and the new records are after RecordAll.
LEMMA AllRecorded ==
    ASSUME WInv, RecordAll
    PROVE  /\ UNCHANGED <<events, verification>>
           /\ Len(waivers) \in Nat
           /\ Cardinality(Todo) \in Nat
           /\ DOMAIN waivers = 1..Len(waivers)
           /\ DOMAIN waivers' = 1..(Len(waivers) + Cardinality(Todo))
           /\ \A i \in 1..Len(waivers) : waivers'[i] = waivers[i]
           /\ \A n \in 1..Cardinality(Todo) :
                 waivers'[Len(waivers) + n] = Record(InOrder(Todo)[n])
<1> DEFINE size == Cardinality(Todo)
<1>1. PastInv /\ WaiversInv
  BY DEF WInv
<1>2. waivers' = waivers \o AllRecords /\ UNCHANGED <<events, verification>>
  BY RecordAllAppends DEF AppendRecords
<1>3. size \in Nat /\ AllRecords \in [1..size -> {Record(k) : k \in Declared}]
  BY <1>1, TodoListed, AllRecordsType
<1>4. \A n \in 1..size : AllRecords[n] = Record(InOrder(Todo)[n])
  BY <1>1, AllRecordsType
<1> HIDE DEF size
<1>5. /\ Len(waivers) \in Nat
      /\ DOMAIN waivers = 1..Len(waivers)
      /\ DOMAIN (waivers \o AllRecords) = 1..(Len(waivers) + size)
      /\ \A i \in 1..Len(waivers) : (waivers \o AllRecords)[i] = waivers[i]
      /\ \A i \in 1..size : (waivers \o AllRecords)[Len(waivers) + i] = AllRecords[i]
  BY <1>1, <1>3, Appending
<1> QED BY <1>2, <1>3, <1>4, <1>5 DEF size

\* Whether a record is linked and stale, after the step, by its scope.
LEMMA NextLinkedAndStale ==
    ASSUME UNCHANGED <<events, verification>>, NEW i, NEW record, waivers'[i] = record
    PROVE  /\ Linked(i)' <=> Resolves(record.scope)
           /\ Stale(i)' <=> record.snapshot # Snapshot(record.scope)
<1>1. Declared' = Declared /\ Codes' = Codes
  BY ReportUnchanged
<1>2. \A k : Scope(k)' = Scope(k)
  BY ReportUnchanged
<1>3. Linked(i)' <=> Resolves(record.scope)
  BY DEF Linked, Resolves, Matches, Declared
<1>4. CodeOf(waivers[i].scope)' = CodeOf(record.scope)
  BY <1>1, <1>2 DEF CodeOf
<1>5. Stale(i)' <=> record.snapshot # Snapshot(record.scope)
  BY <1>4 DEF Stale, Snapshot
<1> QED BY <1>3, <1>5

\* A record of RecordAll is active when it has been appended.
LEMMA NewRecordIsActive ==
    ASSUME WInv, RecordAll, NEW n \in 1..Cardinality(Todo),
           NEW i, i = Len(waivers) + n
    PROVE  Active(i)'
<1> DEFINE k == InOrder(Todo)[n]
<1>1. PastInv
  BY DEF WInv
<1>2. k \in Declared
  BY <1>1, TodoListed
<1>3. Record(k).scope = Scope(k) /\ Record(k).snapshot = Snapshot(Scope(k))
  BY DEF Record
<1>4. waivers'[i] = Record(k) /\ i \in Nat /\ i \in DOMAIN waivers'
  BY AllRecorded
<1>5. Linked(i)' /\ ~Stale(i)'
  <2>1. Resolves(Scope(k))
    BY <1>1, <1>2, ScopeResolves
  <2>2. /\ Linked(i)' <=> Resolves(Record(k).scope)
        /\ Stale(i)' <=> Record(k).snapshot # Snapshot(Record(k).scope)
    BY <1>4, AllRecorded, NextLinkedAndStale
  <2> QED BY <2>1, <2>2, <1>3
<1>7. ASSUME NEW j \in DOMAIN waivers', j > i, waivers'[j].scope = waivers'[i].scope
      PROVE  FALSE
  <2> DEFINE m == j - Len(waivers)
             l == InOrder(Todo)[m]
  <2>1. m \in 1..Cardinality(Todo) /\ m > n /\ Len(waivers) + m = j
    BY <1>7, AllRecorded
  <2>2. waivers'[j] = Record(l)
    BY <2>1, AllRecorded
  <2>3. l \in Declared /\ l # k
    BY <2>1, <1>1, TodoListed
  <2>4. Record(l).scope = Scope(l)
    BY DEF Record
  <2>5. Scope(l) = Scope(k)
    BY <2>2, <2>4, <1>3, <1>4, <1>7
  <2> QED BY <2>3, <2>5, <1>1, <1>2, ScopeTells
<1> QED BY <1>5, <1>7 DEF Active

\* An active waiver of a declaration stays so: RecordAll records none of it.
LEMMA ActiveStays ==
    ASSUME WInv, RecordAll, NEW k \in Declared,
           NEW i \in DOMAIN waivers, waivers[i].scope = Scope(k), Active(i)
    PROVE  waivers'[i] = waivers[i] /\ i \in DOMAIN waivers' /\ Active(i)'
<1>1. PastInv /\ Waived(k)
  BY DEF WInv, Waived
<1>2. waivers'[i] = waivers[i] /\ i \in DOMAIN waivers' /\ i \in 1..Len(waivers)
  BY AllRecorded
<1>5. Linked(i)' /\ ~Stale(i)'
  <2>1. /\ Linked(i)' <=> Resolves(waivers[i].scope)
        /\ Stale(i)' <=> waivers[i].snapshot # Snapshot(waivers[i].scope)
    BY <1>2, AllRecorded, NextLinkedAndStale
  <2> QED BY <2>1 DEF Active, Linked, Stale
<1>6. ASSUME NEW j \in DOMAIN waivers', j > i, waivers'[j].scope = waivers'[i].scope
      PROVE  ~Linked(j)'
  <2>1. CASE j \in 1..Len(waivers)
    <3>1. j \in DOMAIN waivers /\ waivers'[j] = waivers[j]
      BY <2>1, AllRecorded
    <3>2. ~Linked(j)
      BY <3>1, <1>2, <1>6 DEF Active
    <3>3. Linked(j)' <=> Resolves(waivers[j].scope)
      BY <3>1, AllRecorded, NextLinkedAndStale
    <3> QED BY <3>2, <3>3 DEF Linked
  <2>2. CASE j \notin 1..Len(waivers)
    <3> DEFINE m == j - Len(waivers)
               l == InOrder(Todo)[m]
    <3>1. m \in 1..Cardinality(Todo) /\ Len(waivers) + m = j
      BY <2>2, AllRecorded
    <3>2. waivers'[j] = Record(l)
      BY <3>1, AllRecorded
    <3>3. l \in Todo /\ l \in Declared
      BY <3>1, <1>1, TodoListed
    <3>4. Record(l).scope = Scope(l)
      BY DEF Record
    <3>5. Scope(l) = Scope(k)
      BY <3>2, <3>4, <1>2, <1>6
    <3>6. l = k
      BY <3>3, <3>5, <1>1, ScopeTells
    <3> QED BY <3>3, <3>6, <1>1 DEF Todo
  <2> QED BY <2>1, <2>2
<1>7. Active(i)'
  BY <1>5, <1>6 DEF Active
<1> QED BY <1>2, <1>7

\* Every declaration with an error has a waiver in force after record-all.
THEOREM NothingIsLeftUnwaived == Spec => AllWaived
<1>1. ASSUME WInv, RecordAll, NEW k \in Declared, Codes[k] # None
      PROVE  Waived(k)'
  <2>1. Scope(k)' = Scope(k)
    BY <1>1, AllRecorded, ReportUnchanged
  <2>2. CASE Waived(k)
    <3>1. PICK i \in DOMAIN waivers : waivers[i].scope = Scope(k) /\ Active(i)
      BY <2>2 DEF Waived
    <3>2. waivers'[i] = waivers[i] /\ i \in DOMAIN waivers' /\ Active(i)'
      BY <3>1, <1>1, ActiveStays
    <3> QED BY <3>1, <3>2, <2>1 DEF Waived
  <2>3. CASE ~Waived(k)
    <3>1. PastInv /\ k \in Todo
      BY <2>3, <1>1 DEF Todo, WInv
    <3>2. PICK n \in 1..Cardinality(Todo) : InOrder(Todo)[n] = k
      BY <3>1, TodoListed
    <3> PICK i : i = Len(waivers) + n
      OBVIOUS
    <3>3. i \in DOMAIN waivers' /\ waivers'[i] = Record(k)
      BY <3>2, <1>1, AllRecorded
    <3>4. Active(i)'
      BY <1>1, NewRecordIsActive
    <3>5. Record(k).scope = Scope(k)
      BY DEF Record
    <3> QED BY <3>3, <3>4, <3>5, <2>1 DEF Waived
  <2> QED BY <2>2, <2>3
<1>2. WInv /\ [Next]_vars => [RecordAll => \A k \in Declared : Codes[k] # None => Waived(k)']_vars
  BY <1>1
<1> QED BY <1>2, Inductive, PTL DEF Spec, AllWaived

-----------------------------------------------------------------------------
(* The bindings of the declarations                                        *)

\* The bindings up to any declaration exist.
LEMMA BindingsExist ==
    ASSUME NEW invocations, NEW n \in Nat
    PROVE  \E f : f = [k \in 0..n |-> IF k = 0 THEN 0 ELSE Bind(k, f[k - 1], invocations)]
<1> DEFINE Next1(k, b) == Bind(k, b, invocations)
           Prefix(m) == \E f : f = [k \in 0..m |-> IF k = 0 THEN 0 ELSE Next1(k, f[k - 1])]
           missing == {m \in Nat : ~Prefix(m)}
<1> HIDE DEF Next1
<1>1. SUFFICES ASSUME missing # {} PROVE FALSE
  BY DEF Next1
<1>2. PICK m \in missing : \A l \in missing : m <= l
  BY <1>1, HasMinimum
<1>3. m # 0
  <2>1. Prefix(0)
    <3> DEFINE f == [k \in 0..0 |-> 0]
    <3>1. f = [k \in 0..0 |-> IF k = 0 THEN 0 ELSE Next1(k, f[k - 1])]
      OBVIOUS
    <3> QED BY <3>1
  <2> QED BY <2>1
<1>4. Prefix(m - 1)
  <2>1. m - 1 \in Nat /\ ~(m <= m - 1)
    BY <1>3
  <2> QED BY <2>1, <1>2
<1>5. PICK f : f = [k \in 0..(m - 1) |-> IF k = 0 THEN 0 ELSE Next1(k, f[k - 1])]
  BY <1>4
<1> DEFINE g == [k \in 0..m |-> IF k = m THEN Next1(m, f[m - 1]) ELSE f[k]]
<1>6. \A k \in 0..m : g[k] = IF k = 0 THEN 0 ELSE Next1(k, g[k - 1])
  <2> SUFFICES ASSUME NEW k \in 0..m
               PROVE  g[k] = IF k = 0 THEN 0 ELSE Next1(k, g[k - 1])
    OBVIOUS
  <2>1. CASE k = 0
    BY <2>1, <1>3, <1>5
  <2>2. CASE k = m
    <3>1. g[k] = Next1(k, f[k - 1]) /\ g[k - 1] = f[k - 1]
      BY <2>2, <1>3
    <3> QED BY <3>1, <2>2, <1>3
  <2>3. CASE k # 0 /\ k # m
    <3>1. k \in 0..(m - 1) /\ k - 1 \in 0..m /\ k - 1 # m
      BY <2>3
    <3>2. g[k] = f[k] /\ g[k - 1] = f[k - 1]
      BY <3>1, <2>3
    <3>3. f[k] = Next1(k, f[k - 1])
      BY <3>1, <2>3, <1>5
    <3> QED BY <3>2, <3>3, <2>3
  <2> QED BY <2>1, <2>2, <2>3
<1>7. g = [k \in 0..m |-> IF k = 0 THEN 0 ELSE Next1(k, g[k - 1])]
  <2>1. g = [k \in 0..m |-> g[k]]
    OBVIOUS
  <2> HIDE DEF g
  <2> QED BY <2>1, <1>6
<1>8. Prefix(m)
  BY <1>7
<1> QED BY <1>8

\* Bindings are the function their recursion describes.
LEMMA BindingsDefined ==
    ASSUME PastInv, NEW invocations, NEW last, last = Bindings(invocations)
    PROVE  /\ last[0] = 0
           /\ \A k \in Declared : last[k] = Bind(k, last[k - 1], invocations)
<1> DEFINE Next1(k, b) == Bind(k, b, invocations)
<1>1. Len(events) \in Nat /\ Declared = 1..Len(events)
  BY DeclaredType
<1>2. Bindings(invocations) = CHOOSE f :
        f = [k \in 0..Len(events) |-> IF k = 0 THEN 0 ELSE Next1(k, f[k - 1])]
  BY DEF Bindings
<1>3. \E f : f = [k \in 0..Len(events) |-> IF k = 0 THEN 0 ELSE Next1(k, f[k - 1])]
  BY <1>1, BindingsExist
<1> HIDE DEF Next1
<1>4. last = [k \in 0..Len(events) |-> IF k = 0 THEN 0 ELSE Next1(k, last[k - 1])]
  BY <1>2, <1>3
<1>5. \A k \in Declared : last[k] = Next1(k, last[k - 1])
  BY <1>1, <1>4
<1>6. last[0] = 0
  BY <1>1, <1>4
<1> QED BY <1>5, <1>6 DEF Next1

\* Indices of invocations are positive.
LEMMA InvocationIndices ==
    ASSUME NEW t
    PROVE  \A i \in DOMAIN Invocations(t) : i \in Nat /\ i > 0
<1> SUFFICES ASSUME NEW i \in DOMAIN Invocations(t) PROVE i \in Nat /\ i > 0
  OBVIOUS
<1> DEFINE first == {j \in DOMAIN t : /\ IsInvocation(t, j)
                                      /\ \A k \in StartsOf(t, t[j].call) : j <= k}
<1>1. DOMAIN Invocations(t) = DOMAIN InOrder(first)
  BY DEF Invocations
<1> HIDE DEF first
<1>2. DOMAIN InOrder(first) = 1..Cardinality(first)
  BY DEF InOrder
<1>3. i \in 1..Cardinality(first)
  BY <1>1, <1>2
<1> QED BY <1>3

\* Bind moves on exactly when something that fits is behind, and to the first.
LEMMA BindOutcome ==
    ASSUME NEW k, NEW previous \in Nat, NEW invocations,
           \A i \in DOMAIN invocations : i \in Nat
    PROVE  /\ Bind(k, previous, invocations) \in Nat
           /\ previous <= Bind(k, previous, invocations)
           /\ Bind(k, previous, invocations) # previous =>
                 Bind(k, previous, invocations) \in Fitting(k, invocations)
           /\ \A i \in Fitting(k, invocations) : i > previous =>
                 /\ Bind(k, previous, invocations) # previous
                 /\ Bind(k, previous, invocations) <= i
<1> DEFINE free == {i \in Fitting(k, invocations) : i > previous}
           bind == Bind(k, previous, invocations)
<1>1. bind = IF free = {} THEN previous ELSE Min(free)
  BY DEF Bind
<1>2. free \in SUBSET Nat
  BY DEF Fitting, Eligible
<1>3. \A i \in free : i \in Fitting(k, invocations) /\ i > previous
  OBVIOUS
<1>4. \A i \in Fitting(k, invocations) : i > previous => i \in free
  OBVIOUS
<1> HIDE DEF free, bind
<1>5. CASE free = {}
  BY <1>1, <1>4, <1>5 DEF bind
<1>6. CASE free # {}
  <2>1. bind = Min(free)
    BY <1>1, <1>6
  <2>2. bind \in free /\ \A i \in free : bind <= i
    BY <2>1, <1>2, <1>6, MinIsLeast
  <2>3. bind \in Nat /\ bind > previous /\ bind \in Fitting(k, invocations)
    BY <2>2, <1>2, <1>3
  <2> QED BY <2>2, <2>3, <1>4 DEF bind
<1> QED BY <1>5, <1>6

\* Bindings are indices, or zero before the first.
LEMMA BindingsAreIndices ==
    ASSUME PastInv, NEW invocations, NEW last, last = Bindings(invocations),
           \A i \in DOMAIN invocations : i \in Nat
    PROVE  \A k \in 0..Len(events) : last[k] \in Nat
<1> DEFINE wrong == {k \in 0..Len(events) : last[k] \notin Nat}
<1>1. Len(events) \in Nat /\ Declared = 1..Len(events)
  BY DeclaredType
<1>2. SUFFICES ASSUME wrong # {} PROVE FALSE
  OBVIOUS
<1>3. wrong \in SUBSET Nat
  BY <1>1
<1>4. PICK k \in wrong : \A l \in wrong : k <= l
  BY <1>2, <1>3, HasMinimum
<1>5. last[0] = 0 /\ \A l \in Declared : last[l] = Bind(l, last[l - 1], invocations)
  BY BindingsDefined
<1>6. k \in 1..Len(events) /\ k - 1 \in 0..Len(events) /\ ~(k <= k - 1)
  BY <1>1, <1>5
<1>7. last[k - 1] \in Nat
  BY <1>4, <1>6
<1>8. last[k] \in Nat
  <2> DEFINE previous == last[k - 1]
  <2>1. last[k] = Bind(k, previous, invocations)
    BY <1>1, <1>5, <1>6
  <2>2. previous \in Nat
    BY <1>7
  <2> HIDE DEF previous
  <2> QED BY <2>1, <2>2, BindOutcome
<1> QED BY <1>8

\* A declaration is reported free of findings when its binding moved on.
LEMMA FreeWhenBound ==
    ASSUME verification # None, NEW k \in Declared, NEW last, last = Bindings(Verified)
    PROVE  Codes[k] = None <=> last[k] # last[k - 1]
<1> DEFINE invocations == Verified
           eligible == Eligible(k, invocations)
           Has(status) == status \in {invocations[i].status : i \in eligible}
           used == {last[j] : j \in 1..(k - 1)} \cap eligible # {}
           late == \E i \in eligible : i <= last[k]
<1>1. Codes[k] = IF last[k] # last[k - 1] THEN None
                 ELSE IF Has("incomplete") THEN "incomplete"
                 ELSE IF Has("failed") THEN "failed"
                 ELSE IF used THEN "reused"
                 ELSE IF late THEN "order"
                 ELSE "not invoked"
  BY DEF Codes, Declared
<1> HIDE DEF invocations, Has, used, late
<1>2. CASE last[k] # last[k - 1]
  BY <1>1, <1>2, NoneIsNoCode
<1>3. CASE last[k] = last[k - 1]
  <2>1. Codes[k] \in {"incomplete", "failed", "reused", "order", "not invoked"}
    BY <1>1, <1>3
  <2> QED BY <2>1, <1>3, NoneIsNoCode
<1> QED BY <1>2, <1>3

\* What the bindings of any invocations are, one declaration after another.
LEMMA BindingsStep ==
    ASSUME PastInv, NEW invocations, NEW last, last = Bindings(invocations),
           \A i \in DOMAIN invocations : i \in Nat,
           NEW k \in Declared
    PROVE  /\ last[k] \in Nat /\ last[k - 1] \in Nat
           /\ last[k - 1] <= last[k]
           /\ last[k] # last[k - 1] => last[k] \in Fitting(k, invocations)
           /\ \A i \in Fitting(k, invocations) : i > last[k - 1] =>
                 last[k] # last[k - 1] /\ last[k] <= i
<1> DEFINE previous == last[k - 1]
<1>1. k \in 0..Len(events) /\ k - 1 \in 0..Len(events)
  BY DeclaredType
<1>2. last[k] \in Nat /\ previous \in Nat
  BY <1>1, BindingsAreIndices
<1>3. last[k] = Bind(k, previous, invocations)
  BY BindingsDefined
<1> HIDE DEF previous
<1>4. /\ previous <= last[k]
      /\ last[k] # previous => last[k] \in Fitting(k, invocations)
      /\ \A i \in Fitting(k, invocations) : i > previous =>
            last[k] # previous /\ last[k] <= i
  BY <1>2, <1>3, BindOutcome
<1> QED BY <1>2, <1>4 DEF previous

\* Bindings never go back.
LEMMA BindingsAscend ==
    ASSUME PastInv, NEW invocations, NEW last, last = Bindings(invocations),
           \A i \in DOMAIN invocations : i \in Nat
    PROVE  \A k \in Declared : \A j \in 0..(k - 1) : last[j] <= last[k - 1]
<1> DEFINE wrong == {k \in Declared : \E j \in 0..(k - 1) : ~(last[j] <= last[k - 1])}
<1>1. Declared = 1..Len(events) /\ Declared \in SUBSET Nat /\ Len(events) \in Nat
  BY DeclaredType
<1>2. SUFFICES ASSUME wrong # {} PROVE FALSE
  OBVIOUS
<1>3. PICK k \in wrong : \A l \in wrong : k <= l
  BY <1>1, <1>2, HasMinimum
<1>4. PICK j \in 0..(k - 1) : ~(last[j] <= last[k - 1])
  OBVIOUS
<1>5. \A l \in 0..Len(events) : last[l] \in Nat
  BY BindingsAreIndices
<1>6. k \in 1..Len(events) /\ k \in Nat
  BY <1>1
<1>7. j # k - 1
  <2>1. last[k - 1] \in Nat
    BY <1>1, <1>5, <1>6
  <2> QED BY <2>1, <1>4
<1>8. k - 1 \in Declared /\ j \in 0..((k - 1) - 1)
  BY <1>1, <1>4, <1>6, <1>7
<1>9. k - 1 \notin wrong
  BY <1>3, <1>6
<1>10. last[j] <= last[(k - 1) - 1]
  BY <1>8, <1>9
<1>11. last[(k - 1) - 1] <= last[k - 1]
  BY <1>8, BindingsStep
<1>12. last[j] \in Nat /\ last[k - 1] \in Nat /\ last[(k - 1) - 1] \in Nat
  BY <1>1, <1>5, <1>6, <1>8
<1> QED BY <1>4, <1>10, <1>11, <1>12

\* When every declaration is bound, the bindings are a way to give each one an
\* invocation of its own.
LEMMA BoundIsAWay ==
    ASSUME PastInv, NEW invocations, NEW last, last = Bindings(invocations),
           \A i \in DOMAIN invocations : i \in Nat,
           \A k \in Declared : last[k] # last[k - 1]
    PROVE  \E bound \in [Declared -> DOMAIN invocations] :
              /\ \A k \in Declared : bound[k] \in Fitting(k, invocations)
              /\ \A j, k \in Declared : j < k => bound[j] < bound[k]
<1> DEFINE bound == [k \in Declared |-> last[k]]
<1>1. \A k \in Declared : last[k] \in Fitting(k, invocations)
  BY BindingsStep
<1>2. \A k : Fitting(k, invocations) \subseteq DOMAIN invocations
  BY DEF Fitting, Eligible
<1>3. bound \in [Declared -> DOMAIN invocations]
  BY <1>1, <1>2
<1>4. ASSUME NEW j \in Declared, NEW k \in Declared, j < k
      PROVE  last[j] < last[k]
  <2>1. j \in 0..(k - 1) /\ j \in 0..Len(events)
    BY <1>4, DeclaredType
  <2>2. last[j] <= last[k - 1]
    BY <2>1, BindingsAscend
  <2>3. last[k - 1] <= last[k] /\ last[k] # last[k - 1]
        /\ last[k] \in Nat /\ last[k - 1] \in Nat /\ last[j] \in Nat
    BY BindingsStep
  <2> QED BY <2>2, <2>3
<1>5. \A j, k \in Declared : j < k => bound[j] < bound[k]
  BY <1>4
<1> QED BY <1>1, <1>3, <1>5

\* When there is a way, the bindings stay behind it and so never miss one.
LEMMA AWayIsFound ==
    ASSUME PastInv, NEW invocations, NEW last, last = Bindings(invocations),
           \A i \in DOMAIN invocations : i \in Nat /\ i > 0,
           NEW bound \in [Declared -> DOMAIN invocations],
           \A k \in Declared : bound[k] \in Fitting(k, invocations),
           \A j, k \in Declared : j < k => bound[j] < bound[k]
    PROVE  \A k \in Declared : last[k] # last[k - 1]
<1>1. Declared = 1..Len(events) /\ Declared \in SUBSET Nat /\ Len(events) \in Nat
  BY DeclaredType
<1>2. \A k \in Declared : bound[k] > last[k - 1] =>
        last[k] # last[k - 1] /\ last[k] <= bound[k]
  BY BindingsStep
<1>3. \A k \in 0..Len(events) : last[k] \in Nat
  BY BindingsAreIndices
<1>4. last[0] = 0
  BY BindingsDefined
<1> DEFINE ahead == {k \in Declared : ~(bound[k] > last[k - 1])}
<1>5. ahead = {}
  <2> SUFFICES ASSUME ahead # {} PROVE FALSE
    OBVIOUS
  <2>1. ahead \in SUBSET Nat
    BY <1>1
  <2>2. PICK k \in ahead : \A l \in ahead : k <= l
    BY <2>1, HasMinimum
  <2>3. k \in Nat /\ k \in 1..Len(events) /\ bound[k] \in Nat /\ bound[k] > 0
    BY <1>1
  <2>4. k # 1
    BY <1>4, <2>3
  <2>5. k - 1 \in Declared /\ k - 1 < k /\ ~(k <= k - 1)
    BY <2>3, <2>4, <1>1
  <2>6. bound[k - 1] > last[(k - 1) - 1]
    BY <2>2, <2>5
  <2>7. last[k - 1] <= bound[k - 1]
    BY <1>2, <2>5, <2>6
  <2>8. bound[k - 1] < bound[k]
    BY <2>5
  <2>9. bound[k - 1] \in Nat /\ last[k - 1] \in Nat
    BY <2>3, <2>5, <1>3
  <2> QED BY <2>3, <2>7, <2>8, <2>9
<1> QED BY <1>2, <1>5

\* The declarations are free of findings exactly when each can be given an
\* invocation of its own: taking the first that fits never misses a way.
THEOREM GreedyBindingIsComplete == Spec => []BindingComplete
<1>1. ASSUME WInv, verification # None
      PROVE  (\A k \in Declared : Codes[k] = None) <=>
             \E bound \in [Declared -> DOMAIN Verified] :
                /\ \A k \in Declared : bound[k] \in Fitting(k, Verified)
                /\ \A j, k \in Declared : j < k => bound[j] < bound[k]
  <2>1. PICK invocations : invocations = Verified
    OBVIOUS
  <2>2. PICK last : last = Bindings(invocations)
    OBVIOUS
  <2>3. PastInv
    BY <1>1 DEF WInv
  <2>4. \A i \in DOMAIN invocations : i \in Nat /\ i > 0
    BY <2>1, InvocationIndices DEF Verified
  <2>5. \A k \in Declared : Codes[k] = None <=> last[k] # last[k - 1]
    BY <1>1, <2>1, <2>2, FreeWhenBound
  <2> DEFINE Way == \E bound \in [Declared -> DOMAIN invocations] :
                      /\ \A k \in Declared : bound[k] \in Fitting(k, invocations)
                      /\ \A j, k \in Declared : j < k => bound[j] < bound[k]
  <2>6. (\A k \in Declared : last[k] # last[k - 1]) => Way
    BY <2>2, <2>3, <2>4, BoundIsAWay
  <2>7. Way => \A k \in Declared : last[k] # last[k - 1]
    BY <2>2, <2>3, <2>4, AWayIsFound
  <2> HIDE DEF Way
  <2>8. (\A k \in Declared : Codes[k] = None) <=> Way
    BY <2>5, <2>6, <2>7
  <2> QED BY <2>1, <2>8 DEF Way
<1>2. WInv => BindingComplete
  BY <1>1 DEF BindingComplete
<1> QED BY <1>2, Inductive, PTL

-----------------------------------------------------------------------------
(* The events of transcripts                                               *)

LifecycleTypes == {"session.start", "session.resume", "session.shutdown", "result"}

\* What sessions write.
LifecycleEvent == [type : {"session.start", "session.resume", "session.shutdown"},
                   session : Session, at : Nat]
ResultEvent    == [type : {"result"}, session : Session, exitCode : {0, 1}, at : Nat]
StartEvent     == [type : {"start"}, call : Session \X Nat,
                   skill : Skill \cup {OtherTool}, at : Nat]
CompleteEvent  == [type : {"complete"}, call : Session \X Nat, ok : BOOLEAN, at : Nat]
Event == LifecycleEvent \cup ResultEvent \cup StartEvent \cup CompleteEvent

TranscriptInv == now \in Nat /\ transcript \in [Session -> Seq(Event)]

\* A replaced event keeps everything but its session, and only events of the
\* lifecycle have one.
LEMMA ReplacedEvent ==
    ASSUME NEW e \in Event
    PROVE  /\ Replaced(e).type = e.type
           /\ e.type \in LifecycleTypes => Replaced(e).session = Replacement
           /\ e.type \notin LifecycleTypes => Replaced(e) = e
           /\ e.type = "result" => Replaced(e).exitCode = e.exitCode
<1>1. CASE e \in LifecycleEvent
  <2>1. /\ e.type \in {"session.start", "session.resume", "session.shutdown"}
        /\ DOMAIN e = {"type", "session", "at"}
    BY <1>1 DEF LifecycleEvent
  <2>2. Replaced(e) = [e EXCEPT !.session = Replacement]
    BY <2>1 DEF Replaced
  <2> QED BY <2>1, <2>2 DEF LifecycleTypes
<1>2. CASE e \in ResultEvent
  <2>1. e.type = "result" /\ DOMAIN e = {"type", "session", "exitCode", "at"}
    BY <1>2 DEF ResultEvent
  <2>2. Replaced(e) = [e EXCEPT !.session = Replacement]
    BY <2>1 DEF Replaced
  <2> QED BY <2>1, <2>2 DEF LifecycleTypes
<1>3. CASE e \in StartEvent
  <2>1. e.type = "start" /\ DOMAIN e = {"type", "call", "skill", "at"}
    BY <1>3 DEF StartEvent
  <2>2. Replaced(e) = e
    BY <2>1 DEF Replaced
  <2> QED BY <2>1, <2>2 DEF LifecycleTypes
<1>4. CASE e \in CompleteEvent
  <2>1. e.type = "complete" /\ DOMAIN e = {"type", "call", "ok", "at"}
    BY <1>4 DEF CompleteEvent
  <2>2. Replaced(e) = e
    BY <2>1 DEF Replaced
  <2> QED BY <2>1, <2>2 DEF LifecycleTypes
<1> QED BY <1>1, <1>2, <1>3, <1>4 DEF Event

LEMMA TranscriptInit == Init => TranscriptInv
<1> SUFFICES ASSUME Init PROVE TranscriptInv
  OBVIOUS
<1> DEFINE begin(s) == CHOOSE n \in DOMAIN Sessions : Sessions[n] = s
<1>1. Len(Sessions) \in Nat /\ DOMAIN Sessions = 1..Len(Sessions)
  BY SessionsAssumption, LenProperties
<1>2. \A s \in Session : begin(s) \in DOMAIN Sessions
  BY DEF Session
<1>3. now \in Nat /\ transcript = [s \in Session |-> <<Begun(s, begin(s))>>]
  BY <1>1 DEF Init
<1> HIDE DEF begin
<1>4. \A s \in Session : begin(s) \in Nat
  BY <1>1, <1>2
<1>5. \A s \in Session : Begun(s, begin(s)) \in Event
  BY <1>4 DEF Begun, Event, LifecycleEvent
<1> HIDE DEF Event
<1>6. \A s \in Session : <<Begun(s, begin(s))>> \in Seq(Event)
  BY <1>5
<1> QED BY <1>3, <1>6 DEF TranscriptInv

LEMMA TranscriptWrite ==
    ASSUME TranscriptInv, NEW s \in Session, NEW event \in Event, Write(s, event)
    PROVE  TranscriptInv'
<1>1. /\ now \in Nat /\ transcript \in [Session -> Seq(Event)]
      /\ now' = now + 1
      /\ transcript' = [transcript EXCEPT ![s] = Append(@, event)]
  BY DEF TranscriptInv, Write
<1>2. Append(transcript[s], event) \in Seq(Event)
  BY <1>1
<1>3. transcript' \in [Session -> Seq(Event)]
  BY <1>1, <1>2
<1> QED BY <1>1, <1>3 DEF TranscriptInv

LEMMA TranscriptNext == TranscriptInv /\ [Next]_vars => TranscriptInv'
<1> SUFFICES ASSUME TranscriptInv, [Next]_vars PROVE TranscriptInv'
  OBVIOUS
<1>1. now + 1 \in Nat /\ transcript \in [Session -> Seq(Event)]
  BY DEF TranscriptInv
<1>2. \A s \in Session : /\ ShutDown(s, now + 1) \in Event
                         /\ Resumed(s, now + 1) \in Event
                         /\ \A exitCode \in {0, 1} : Result(s, exitCode, now + 1) \in Event
  BY <1>1 DEF ShutDown, Resumed, Result, Event, LifecycleEvent, ResultEvent
<1>3. \A s \in Session : \A n \in Nat :
         /\ \A tool \in Skill \cup {OtherTool} : Started(<<s, n>>, tool, now + 1) \in Event
         /\ \A ok \in BOOLEAN : Completed(<<s, n>>, ok, now + 1) \in Event
  BY <1>1 DEF Started, Completed, Event, StartEvent, CompleteEvent
<1> HIDE DEF Event
<1>4. \A s \in Session : /\ Len(transcript[s]) + 1 \in Nat
                         /\ DOMAIN transcript[s] \subseteq Nat
  <2> SUFFICES ASSUME NEW s \in Session
               PROVE  Len(transcript[s]) + 1 \in Nat /\ DOMAIN transcript[s] \subseteq Nat
    OBVIOUS
  <2>1. transcript[s] \in Seq(Event)
    BY <1>1
  <2>2. Len(transcript[s]) \in Nat /\ DOMAIN transcript[s] = 1..Len(transcript[s])
    BY <2>1, LenProperties
  <2> QED BY <2>2
<1>5. ASSUME NEW s \in Session, ShutDownRoutinely(s) PROVE TranscriptInv'
  BY <1>5, <1>2, TranscriptWrite DEF ShutDownRoutinely
<1>6. ASSUME NEW s \in Session, Resume(s) PROVE TranscriptInv'
  BY <1>6, <1>2, TranscriptWrite DEF Resume
<1>7. ASSUME NEW s \in Session, NEW exitCode \in {0, 1}, Finish(s, exitCode)
      PROVE  TranscriptInv'
  BY <1>7, <1>2, TranscriptWrite DEF Finish
<1>8. ASSUME NEW s \in Session, NEW tool \in Skill \cup {OtherTool}, Invoke(s, tool)
      PROVE  TranscriptInv'
  <2>1. Started(<<s, Len(transcript[s]) + 1>>, tool, now + 1) \in Event
    BY <1>3, <1>4
  <2> QED BY <2>1, <1>8, TranscriptWrite DEF Invoke
<1>9. ASSUME NEW s \in Session, NEW i \in DOMAIN transcript[s], NEW ok \in BOOLEAN,
             Complete(s, i, ok)
      PROVE  TranscriptInv'
  <2>1. Completed(<<s, i>>, ok, now + 1) \in Event
    BY <1>3, <1>4
  <2> QED BY <2>1, <1>9, TranscriptWrite DEF Complete
<1>10. ASSUME UNCHANGED <<now, transcript>> PROVE TranscriptInv'
  BY <1>10 DEF TranscriptInv
<1>11. ASSUME NEW skill \in Skill, Declare(skill) PROVE TranscriptInv'
  BY <1>10, <1>11 DEF Declare
<1>12. ASSUME NEW mode \in Modes, NEW sessions \in FileSets,
              Verify(mode, {transcript[s] : s \in sessions})
       PROVE  TranscriptInv'
  <2>1. UNCHANGED <<now, transcript>>
    BY <1>12, Zenon DEF Verify
  <2> QED BY <2>1, <1>10
<1>13. ASSUME RecordAll PROVE TranscriptInv'
  BY <1>10, <1>13 DEF RecordAll, AppendRecords
<1>14. ASSUME NEW k \in Declared, RecordWaiver(k) PROVE TranscriptInv'
  BY <1>10, <1>14 DEF RecordWaiver, AppendRecords
<1>15. ASSUME UNCHANGED vars PROVE TranscriptInv'
  BY <1>10, <1>15 DEF vars
<1> QED
  BY <1>5, <1>6, <1>7, <1>8, <1>9, <1>11, <1>12, <1>13, <1>14, <1>15 DEF Next

\* Transcripts are sequences of the events that sessions write.
THEOREM TranscriptTyped == Spec => []TranscriptInv
BY TranscriptInit, TranscriptNext, PTL DEF Spec

-----------------------------------------------------------------------------
(* Selecting from a sequence in order                                      *)

\* An ascending bijection between finite sets of naturals maps the first
\* listing to the second.
LEMMA OrderCarriesOver ==
    ASSUME NEW S \in SUBSET Nat, IsFiniteSet(S), NEW T \in SUBSET Nat,
           NEW f \in [S -> T],
           \A i, j \in S : i < j => f[i] < f[j],
           \A j \in T : \E i \in S : f[i] = j
    PROVE  /\ IsFiniteSet(T)
           /\ Cardinality(T) = Cardinality(S)
           /\ \A n \in 1..Cardinality(S) : InOrder(T)[n] = f[InOrder(S)[n]]
<1>1. \A i, j \in S : f[i] <= f[j] <=> i <= j
  <2> SUFFICES ASSUME NEW i \in S, NEW j \in S
               PROVE  f[i] <= f[j] <=> i <= j
    OBVIOUS
  <2>1. i \in Nat /\ j \in Nat /\ f[i] \in Nat /\ f[j] \in Nat
    OBVIOUS
  <2>2. CASE i < j
    BY <2>1, <2>2
  <2>3. CASE j < i
    BY <2>1, <2>3
  <2>4. CASE i = j
    BY <2>1, <2>4
  <2> QED BY <2>1, <2>2, <2>3, <2>4
<1>2. \A i, j \in S : f[i] = f[j] => i = j
  <2> SUFFICES ASSUME NEW i \in S, NEW j \in S, f[i] = f[j], i # j
               PROVE  FALSE
    OBVIOUS
  <2>1. i \in Nat /\ j \in Nat /\ f[i] \in Nat
    OBVIOUS
  <2>2. i < j \/ j < i
    BY <2>1
  <2>3. f[i] < f[j] \/ f[j] < f[i]
    BY <2>2
  <2> QED BY <2>1, <2>3
<1>3. ASSUME NEW A \in SUBSET S, NEW B \in SUBSET T,
             \A i \in A : f[i] \in B,
             \A j \in B : \E i \in A : f[i] = j
      PROVE  IsFiniteSet(B) /\ Cardinality(B) = Cardinality(A)
  <2> DEFINE g == [i \in A |-> f[i]]
  <2>1. IsFiniteSet(A)
    BY FS_Subset
  <2>2. g \in Injection(A, B)
    BY <1>2, <1>3 DEF Injection, IsInjective
  <2>3. g \in Surjection(A, B)
    BY <1>3 DEF Surjection
  <2> QED BY <2>1, <2>2, <2>3, FS_Surjection
<1>4. IsFiniteSet(T) /\ Cardinality(T) = Cardinality(S)
  BY <1>3
<1>5. ASSUME NEW k \in S PROVE Rank(T, f[k]) = Rank(S, k)
  <2> DEFINE A == {i \in S : i <= k}
             B == {j \in T : j <= f[k]}
  <2>1. \A i \in A : f[i] \in B
    BY <1>1
  <2>2. \A j \in B : \E i \in A : f[i] = j
    <3> SUFFICES ASSUME NEW j \in B PROVE \E i \in A : f[i] = j
      OBVIOUS
    <3>1. PICK i \in S : f[i] = j
      OBVIOUS
    <3>2. i <= k
      BY <3>1, <1>1
    <3> QED BY <3>1, <3>2
  <2>3. A \in SUBSET S /\ B \in SUBSET T
    OBVIOUS
  <2> HIDE DEF A, B
  <2>4. Cardinality(B) = Cardinality(A)
    BY <2>1, <2>2, <2>3, <1>3
  <2> QED BY <2>4 DEF A, B, Rank
<1>6. ASSUME NEW n \in 1..Cardinality(S)
      PROVE  InOrder(T)[n] = f[InOrder(S)[n]]
  <2>1. PICK k : k = InOrder(S)[n]
    OBVIOUS
  <2>2. k \in S /\ Rank(S, k) = n
    BY <2>1, InOrderLists
  <2>3. f[k] \in T /\ Rank(T, f[k]) = n
    BY <2>2, <1>5
  <2>4. InOrder(T)[Rank(T, f[k])] = f[k]
    BY <2>3, <1>4, InOrderLists
  <2> QED BY <2>1, <2>3, <2>4
<1> QED BY <1>4, <1>6

\* Neighbours in a set of naturals are neighbours in its listing.
LEMMA NeighboursStay ==
    ASSUME NEW S \in SUBSET Nat, IsFiniteSet(S), NEW i \in S, i + 1 \in S
    PROVE  Rank(S, i + 1) = Rank(S, i) + 1
<1> DEFINE size == Cardinality(S)
           m == Rank(S, i)
           n == Rank(S, i + 1)
<1>1. /\ m \in 1..size /\ n \in 1..size /\ m < n
  BY RanksAscend
<1>2. /\ size \in Nat
      /\ InOrder(S)[m] = i /\ InOrder(S)[n] = i + 1
      /\ \A k \in 1..size : InOrder(S)[k] \in S
      /\ \A k, l \in 1..size : k < l => InOrder(S)[k] < InOrder(S)[l]
  BY InOrderLists
<1> HIDE DEF m, n, size
<1>3. SUFFICES ASSUME m + 1 # n PROVE FALSE
  BY <1>1, <1>2 DEF m, n
<1>4. m + 1 \in 1..size /\ m < m + 1 /\ m + 1 < n
  BY <1>1, <1>2, <1>3
<1>5. PICK j : j = InOrder(S)[m + 1]
  OBVIOUS
<1>6. j \in S /\ i < j /\ j < i + 1
  BY <1>1, <1>2, <1>4, <1>5
<1>7. i \in Nat /\ j \in Nat
  BY <1>6
<1> QED BY <1>6, <1>7

-----------------------------------------------------------------------------
(* The copy the sanitizer makes                                            *)

KeptIndices(t) == {i \in DOMAIN t : Kept(t, i)}

\* Every kept event of t is in u once, and in order: at says where an event of
\* the copy is from, and pos where a kept event is in the copy.
IsCopy(t, u, at, pos) ==
    /\ Len(t) \in Nat /\ DOMAIN t = 1..Len(t)
    /\ \A i \in DOMAIN t : t[i] \in Event
    /\ Len(u) \in Nat /\ DOMAIN u = 1..Len(u)
    /\ at \in [1..Len(u) -> KeptIndices(t)]
    /\ pos \in [KeptIndices(t) -> 1..Len(u)]
    /\ \A k \in 1..Len(u) : pos[at[k]] = k
    /\ \A i \in KeptIndices(t) : at[pos[i]] = i
    /\ \A k, l \in 1..Len(u) : k < l => at[k] < at[l]
    /\ \A i, j \in KeptIndices(t) : i < j => pos[i] < pos[j]
    /\ \A i \in KeptIndices(t) : i + 1 \in KeptIndices(t) => pos[i + 1] = pos[i] + 1
    /\ \A k \in 1..Len(u) : u[k] = Replaced(t[at[k]])

LEMMA SanitizedIsCopy ==
    ASSUME NEW t \in Seq(Event)
    PROVE  \E at, pos : IsCopy(t, Sanitized(t), at, pos)
<1> DEFINE K == KeptIndices(t)
           N == Cardinality(K)
           u == Sanitized(t)
           at == InOrder(K)
           pos == [i \in K |-> Rank(K, i)]
<1> HIDE DEF Event
<1>1. /\ Len(t) \in Nat /\ DOMAIN t = 1..Len(t)
      /\ \A i \in DOMAIN t : t[i] \in Event
  BY LenProperties, ElementOfSeq
<1>2. K \in SUBSET (1..Len(t)) /\ IsFiniteSet(1..Len(t))
  BY <1>1, FS_Interval DEF KeptIndices
<1>3. K \in SUBSET Nat /\ IsFiniteSet(K)
  BY <1>1, <1>2, FS_Subset
<1>4. u = [k \in DOMAIN at |-> Replaced(t[at[k]])]
  BY DEF Sanitized, KeptIndices
<1> HIDE DEF K, u
<1>5. /\ N \in Nat
      /\ at \in [1..N -> K]
      /\ \A k \in 1..N : Rank(K, at[k]) = k
      /\ \A i \in K : at[Rank(K, i)] = i
      /\ \A k, l \in 1..N : k < l => at[k] < at[l]
  BY <1>3, InOrderLists
<1>6. /\ \A i \in K : Rank(K, i) \in 1..N
      /\ \A i, j \in K : i < j => Rank(K, i) < Rank(K, j)
  BY <1>3, RanksAscend
<1>7. \A i \in K : i + 1 \in K => Rank(K, i + 1) = Rank(K, i) + 1
  BY <1>3, NeighboursStay
<1> HIDE DEF at, N
<1>8. /\ u \in Seq({Replaced(t[i]) : i \in K}) /\ Len(u) = N
      /\ \A k \in 1..N : u[k] = Replaced(t[at[k]])
  BY <1>4, <1>5
<1>9. DOMAIN u = 1..N
  BY <1>4, <1>5
<1>10. /\ pos \in [K -> 1..N]
       /\ \A k \in 1..N : pos[at[k]] = k
       /\ \A i \in K : at[pos[i]] = i
       /\ \A i, j \in K : i < j => pos[i] < pos[j]
       /\ \A i \in K : i + 1 \in K => pos[i + 1] = pos[i] + 1
  BY <1>5, <1>6, <1>7
<1> HIDE DEF pos
<1>11. IsCopy(t, u, at, pos)
  BY <1>1, <1>5, <1>8, <1>9, <1>10 DEF IsCopy, K
<1> QED BY <1>11 DEF u

\* Events of the copy are of the type of their originals, and are their
\* originals unless they belong to the lifecycle.
LEMMA CopiedEvents ==
    ASSUME NEW t, NEW u, NEW at, NEW pos, IsCopy(t, u, at, pos)
    PROVE  /\ \A type : \A k : k \in Of(u, type) <=> k \in 1..Len(u) /\ at[k] \in Of(t, type)
           /\ \A type : \A i \in KeptIndices(t) : i \in Of(t, type) => pos[i] \in Of(u, type)
           /\ \A k \in 1..Len(u) :
                 t[at[k]].type \in LifecycleTypes => u[k].session = Replacement
           /\ \A k \in 1..Len(u) : t[at[k]].type \notin LifecycleTypes => u[k] = t[at[k]]
           /\ \A k \in 1..Len(u) : t[at[k]].type = "result" => u[k].exitCode = t[at[k]].exitCode
<1> HIDE DEF Event
<1>1. ASSUME NEW k \in 1..Len(u)
      PROVE  /\ at[k] \in DOMAIN t
             /\ u[k].type = t[at[k]].type
             /\ t[at[k]].type \in LifecycleTypes => u[k].session = Replacement
             /\ t[at[k]].type \notin LifecycleTypes => u[k] = t[at[k]]
             /\ t[at[k]].type = "result" => u[k].exitCode = t[at[k]].exitCode
  <2>1. PICK e : e = t[at[k]]
    OBVIOUS
  <2>2. at[k] \in DOMAIN t /\ e \in Event /\ u[k] = Replaced(e)
    BY <2>1 DEF IsCopy, KeptIndices
  <2> QED BY <2>1, <2>2, ReplacedEvent
<1>2. DOMAIN u = 1..Len(u)
  BY DEF IsCopy
<1>3. \A type : \A k : k \in Of(u, type) <=> k \in 1..Len(u) /\ at[k] \in Of(t, type)
  BY <1>1, <1>2 DEF Of
<1>4. \A i \in KeptIndices(t) : pos[i] \in 1..Len(u) /\ at[pos[i]] = i
  BY DEF IsCopy
<1> QED BY <1>1, <1>3, <1>4

\* What is kept.
LEMMA LifecycleIsKept ==
    ASSUME NEW t, NEW u, NEW at, NEW pos, IsCopy(t, u, at, pos)
    PROVE  /\ \A type \in LifecycleTypes : Of(t, type) \subseteq KeptIndices(t)
           /\ \A i \in KeptIndices(t) : i \in Of(t, "start") => IsInvocation(t, i)
           /\ \A i \in KeptIndices(t) : i \in Of(t, "complete") =>
                 \E j \in StartsOf(t, t[i].call) : j < i /\ IsInvocation(t, j)
           /\ \A i \in DOMAIN t : IsInvocation(t, i) => i \in KeptIndices(t)
           /\ \A i \in Of(t, "complete") : \A j \in StartsOf(t, t[i].call) :
                 j < i /\ IsInvocation(t, j) => i \in KeptIndices(t)
BY DEF LifecycleTypes, KeptIndices, Kept, Lifecycle, Ends, Of, IsInvocation

\* The copy ends as the transcript does.
LEMMA CopyEnds ==
    ASSUME NEW t, NEW u, NEW at, NEW pos, IsCopy(t, u, at, pos), Len(t) \in Ends(t)
    PROVE  /\ Len(t) \in KeptIndices(t)
           /\ pos[Len(t)] = Len(u)
           /\ Len(u) \in 1..Len(u)
           /\ at[Len(u)] = Len(t)
           /\ Len(u) \in Ends(u)
           /\ SessionOf(u) = Replacement
<1>1. PICK n : n = Len(t)
  OBVIOUS
<1>2. PICK type \in {"result", "session.shutdown"} : n \in Of(t, type)
  BY <1>1 DEF Ends
<1>3. n \in KeptIndices(t)
  BY <1>2, LifecycleIsKept DEF LifecycleTypes
<1>4. PICK m : m = pos[n]
  OBVIOUS
<1>5. m \in 1..Len(u) /\ at[m] = n /\ Len(u) \in Nat /\ n \in Nat
  BY <1>1, <1>3, <1>4 DEF IsCopy
<1>6. m = Len(u)
  <2> SUFFICES ASSUME m # Len(u) PROVE FALSE
    OBVIOUS
  <2>1. Len(u) \in 1..Len(u) /\ m < Len(u)
    BY <1>5
  <2>2. at[m] < at[Len(u)] /\ at[Len(u)] \in KeptIndices(t)
    BY <2>1, <1>5 DEF IsCopy
  <2>3. at[Len(u)] \in 1..Len(t)
    BY <2>2 DEF KeptIndices, IsCopy
  <2> QED BY <2>2, <2>3, <1>1, <1>5
<1>7. m \in Of(u, type)
  BY <1>2, <1>5, CopiedEvents
<1>8. Len(u) \in Ends(u)
  BY <1>6, <1>7 DEF Ends
<1>9. t[at[m]].type \in LifecycleTypes
  BY <1>2, <1>5 DEF Of, LifecycleTypes
<1>10. u[m].session = Replacement
  BY <1>5, <1>9, CopiedEvents
<1> QED BY <1>1, <1>3, <1>4, <1>5, <1>6, <1>8, <1>10 DEF SessionOf

\* Events of one call in the copy are the kept ones of that call.
LEMMA CopyOfCall ==
    ASSUME NEW t, NEW u, NEW at, NEW pos, IsCopy(t, u, at, pos), NEW call
    PROVE  /\ \A k : k \in StartsOf(u, call) <=> k \in 1..Len(u) /\ at[k] \in StartsOf(t, call)
           /\ \A k : k \in CompletionsOf(u, call) <=>
                        k \in 1..Len(u) /\ at[k] \in CompletionsOf(t, call)
<1>1. ASSUME NEW k \in 1..Len(u), at[k] \in Of(t, "start") \cup Of(t, "complete")
      PROVE  u[k] = t[at[k]]
  <2>1. t[at[k]].type \notin LifecycleTypes
    BY <1>1 DEF Of, LifecycleTypes
  <2> QED BY <2>1, CopiedEvents
<1>2. \A k : /\ k \in Of(u, "start") <=> k \in 1..Len(u) /\ at[k] \in Of(t, "start")
             /\ k \in Of(u, "complete") <=> k \in 1..Len(u) /\ at[k] \in Of(t, "complete")
  BY CopiedEvents
<1> QED BY <1>1, <1>2 DEF StartsOf, CompletionsOf

\* Calls that are paired are so in the copy, which has only Skill calls.
LEMMA CopyIsPaired ==
    ASSUME NEW t, NEW u, NEW at, NEW pos, IsCopy(t, u, at, pos), ToolsPaired(t)
    PROVE  /\ ToolsPaired(u)
           /\ \A k \in Of(u, "start") : IsInvocation(u, k)
<1>1. ASSUME NEW k \in Of(u, "start")
      PROVE  /\ IsInvocation(u, k)
             /\ StartsOf(u, u[k].call) = {k}
             /\ \E l \in CompletionsOf(u, u[k].call) : l > k
  <2>1. PICK i : i = at[k]
    OBVIOUS
  <2>2. PICK call : call = u[k].call
    OBVIOUS
  <2>3. k \in 1..Len(u) /\ i \in Of(t, "start") /\ i \in KeptIndices(t) /\ pos[i] = k
    <3>1. k \in 1..Len(u) /\ i \in Of(t, "start")
      BY <1>1, <2>1, CopiedEvents
    <3> QED BY <2>1, <3>1 DEF IsCopy
  <2>4. u[k] = t[i]
    <3>1. t[i].type \notin LifecycleTypes
      BY <2>3 DEF Of, LifecycleTypes
    <3> QED BY <2>1, <2>3, <3>1, CopiedEvents
  <2>5. IsInvocation(t, i)
    BY <2>3, LifecycleIsKept
  <2>6. StartsOf(t, call) = {i}
    BY <2>2, <2>3, <2>4 DEF ToolsPaired
  <2>7. PICK j \in CompletionsOf(t, call) : j > i
    BY <2>2, <2>3, <2>4 DEF ToolsPaired
  <2>8. j \in Of(t, "complete") /\ t[j].call = call
    BY DEF CompletionsOf
  <2>9. j \in KeptIndices(t)
    BY <2>5, <2>6, <2>7, <2>8, LifecycleIsKept
  <2>10. pos[j] \in 1..Len(u) /\ at[pos[j]] = j /\ pos[j] > k
    BY <2>3, <2>7, <2>9 DEF IsCopy
  <2>11. pos[j] \in CompletionsOf(u, call)
    BY <2>7, <2>10, CopyOfCall
  <2>12. \A l : l \in StartsOf(u, call) <=> l = k
    <3>1. \A l : l \in StartsOf(u, call) <=> l \in 1..Len(u) /\ at[l] = i
      BY <2>6, CopyOfCall
    <3>2. \A l \in 1..Len(u) : at[l] = i => l = k
      BY <2>3 DEF IsCopy
    <3> QED BY <3>1, <3>2, <2>1, <2>3
  <2>13. IsInvocation(u, k)
    BY <2>4, <2>5 DEF IsInvocation
  <2> QED BY <2>2, <2>10, <2>11, <2>12, <2>13
<1>2. ASSUME NEW k \in Of(u, "complete")
      PROVE  /\ CompletionsOf(u, u[k].call) = {k}
             /\ \E l \in StartsOf(u, u[k].call) : l < k
  <2>1. PICK j : j = at[k]
    OBVIOUS
  <2>2. PICK call : call = u[k].call
    OBVIOUS
  <2>3. k \in 1..Len(u) /\ j \in Of(t, "complete") /\ j \in KeptIndices(t) /\ pos[j] = k
    <3>1. k \in 1..Len(u) /\ j \in Of(t, "complete")
      BY <1>2, <2>1, CopiedEvents
    <3> QED BY <2>1, <3>1 DEF IsCopy
  <2>4. u[k] = t[j]
    <3>1. t[j].type \notin LifecycleTypes
      BY <2>3 DEF Of, LifecycleTypes
    <3> QED BY <2>1, <2>3, <3>1, CopiedEvents
  <2>5. CompletionsOf(t, call) = {j}
    BY <2>2, <2>3, <2>4 DEF ToolsPaired
  <2>6. PICK i \in StartsOf(t, call) : i < j /\ IsInvocation(t, i)
    BY <2>2, <2>3, <2>4, LifecycleIsKept
  <2>7. i \in KeptIndices(t)
    BY <2>6, LifecycleIsKept DEF StartsOf, Of
  <2>8. pos[i] \in 1..Len(u) /\ at[pos[i]] = i /\ pos[i] < k
    BY <2>3, <2>6, <2>7 DEF IsCopy
  <2>9. pos[i] \in StartsOf(u, call)
    BY <2>6, <2>8, CopyOfCall
  <2>10. \A l : l \in CompletionsOf(u, call) <=> l = k
    <3>1. \A l : l \in CompletionsOf(u, call) <=> l \in 1..Len(u) /\ at[l] = j
      BY <2>5, CopyOfCall
    <3>2. \A l \in 1..Len(u) : at[l] = j => l = k
      BY <2>3 DEF IsCopy
    <3> QED BY <3>1, <3>2, <2>1, <2>3
  <2> QED BY <2>2, <2>8, <2>9, <2>10
<1>3. ToolsPaired(u)
  BY <1>1, <1>2 DEF ToolsPaired
<1> QED BY <1>1, <1>3

\* An accepted lifecycle stays accepted: a resume is still directly after the
\* shutdown it follows.
LEMMA CopyIsRoutine ==
    ASSUME NEW t, NEW u, NEW at, NEW pos, IsCopy(t, u, at, pos), Len(t) \in Ends(t),
           RoutineLifecycle(t)
    PROVE  RoutineLifecycle(u)
<1>1. \A type : \A k : k \in Of(u, type) <=> k \in 1..Len(u) /\ at[k] \in Of(t, type)
  BY CopiedEvents
<1>2. ASSUME NEW type \in LifecycleTypes, NEW i \in Of(t, type)
      PROVE  i \in KeptIndices(t) /\ pos[i] \in 1..Len(u) /\ at[pos[i]] = i
             /\ pos[i] \in Of(u, type)
  <2>1. i \in KeptIndices(t)
    BY LifecycleIsKept
  <2>2. pos[i] \in 1..Len(u) /\ at[pos[i]] = i
    BY <2>1 DEF IsCopy
  <2> QED BY <1>1, <2>1, <2>2
<1>3. ASSUME NEW k \in 1..Len(u)
      PROVE  at[k] \in KeptIndices(t) /\ pos[at[k]] = k /\ k \in Nat
  BY DEF IsCopy
<1>4. \A i, j \in KeptIndices(t) : i < j => pos[i] < pos[j]
  BY DEF IsCopy
<1>5. at[Len(u)] = Len(t) /\ pos[Len(t)] = Len(u) /\ Len(u) \in 1..Len(u)
  BY CopyEnds
<1>6. {"session.start", "session.resume", "session.shutdown", "result"} \subseteq LifecycleTypes
  BY DEF LifecycleTypes
<1>7. Of(u, "result") = {}
  <2>1. Of(t, "result") = {}
    BY DEF RoutineLifecycle
  <2> QED BY <1>1, <2>1
<1>8. Of(u, "session.shutdown") # {}
  <2>1. PICK i : i \in Of(t, "session.shutdown")
    BY DEF RoutineLifecycle
  <2> QED BY <2>1, <1>2, <1>6
<1>9. \E k \in Of(u, "session.start") :
         /\ Of(u, "session.start") = {k}
         /\ \A l \in Of(u, "session.shutdown") : k < l
  <2>1. PICK i \in Of(t, "session.start") :
           /\ Of(t, "session.start") = {i}
           /\ \A j \in Of(t, "session.shutdown") : i < j
    BY DEF RoutineLifecycle
  <2>2. PICK k : k = pos[i]
    OBVIOUS
  <2>3. k \in Of(u, "session.start") /\ i \in KeptIndices(t)
    BY <2>2, <1>2, <1>6
  <2>4. \A l \in Of(u, "session.start") : l = k
    BY <2>1, <2>2, <1>1, <1>3
  <2>5. ASSUME NEW l \in Of(u, "session.shutdown") PROVE k < l
    <3>1. l \in 1..Len(u) /\ at[l] \in Of(t, "session.shutdown")
      BY <1>1
    <3>2. at[l] \in KeptIndices(t) /\ pos[at[l]] = l /\ i < at[l]
      BY <3>1, <2>1, <1>3
    <3> QED BY <3>2, <2>2, <2>3, <1>4
  <2> QED BY <2>3, <2>4, <2>5
<1>10. \A i : i \in Of(t, "session.resume") <=>
          \E j \in Of(t, "session.shutdown") \ {Len(t)} : i = j + 1
  BY DEF RoutineLifecycle
<1>11. ASSUME NEW j \in Of(t, "session.shutdown"), j # Len(t)
       PROVE  /\ j + 1 \in Of(t, "session.resume")
              /\ pos[j + 1] = pos[j] + 1
  <2>1. j + 1 \in Of(t, "session.resume")
    BY <1>10, <1>11
  <2>2. j \in KeptIndices(t) /\ j + 1 \in KeptIndices(t)
    BY <2>1, <1>2, <1>6
  <2> QED BY <2>1, <2>2 DEF IsCopy
<1>12. ASSUME NEW k \in Of(u, "session.resume")
       PROVE  \E l \in Of(u, "session.shutdown") \ {Len(u)} : k = l + 1
  <2>1. k \in 1..Len(u) /\ at[k] \in Of(t, "session.resume")
    BY <1>1
  <2>2. PICK j \in Of(t, "session.shutdown") \ {Len(t)} : at[k] = j + 1
    BY <2>1, <1>10
  <2>3. pos[j] \in Of(u, "session.shutdown") /\ at[pos[j]] = j
    BY <1>2, <1>6
  <2>4. pos[j] # Len(u)
    BY <2>2, <2>3, <1>5
  <2>5. k = pos[j] + 1
    BY <2>1, <2>2, <1>3, <1>11
  <2> QED BY <2>3, <2>4, <2>5
<1>13. ASSUME NEW l \in Of(u, "session.shutdown"), l # Len(u)
       PROVE  l + 1 \in Of(u, "session.resume")
  <2>1. l \in 1..Len(u) /\ at[l] \in Of(t, "session.shutdown") /\ pos[at[l]] = l
    BY <1>1, <1>3
  <2>2. at[l] # Len(t)
    BY <2>1, <1>5, <1>13
  <2>3. at[l] + 1 \in Of(t, "session.resume") /\ pos[at[l] + 1] = l + 1
    BY <2>1, <2>2, <1>11
  <2> QED BY <2>3, <1>2, <1>6
<1>14. Of(u, "session.resume") = {k + 1 : k \in Of(u, "session.shutdown") \ {Len(u)}}
  BY <1>12, <1>13
<1>15. \A k \in Lifecycle(u) : u[k].session = Replacement
  <2> SUFFICES ASSUME NEW k \in Lifecycle(u) PROVE u[k].session = Replacement
    OBVIOUS
  <2>1. PICK type \in LifecycleTypes : k \in Of(u, type)
    BY DEF Lifecycle, Ends, LifecycleTypes
  <2>2. k \in 1..Len(u) /\ t[at[k]].type = type
    BY <2>1, <1>1 DEF Of
  <2> QED BY <2>1, <2>2, CopiedEvents
<1> QED BY <1>7, <1>8, <1>9, <1>14, <1>15 DEF RoutineLifecycle

LEMMA CopyIsTerminal ==
    ASSUME NEW t, NEW u, NEW at, NEW pos, IsCopy(t, u, at, pos), TerminalResult(t)
    PROVE  TerminalResult(u)
<1>1. \A type : \A k : k \in Of(u, type) <=> k \in 1..Len(u) /\ at[k] \in Of(t, type)
  BY CopiedEvents
<1>2. Of(u, "session.shutdown") = {}
  BY <1>1 DEF TerminalResult
<1>3. PICK i \in Of(t, "result") : Of(t, "result") = {i} /\ t[i].exitCode = 0
  BY DEF TerminalResult
<1>4. i \in KeptIndices(t)
  BY LifecycleIsKept DEF LifecycleTypes
<1>5. PICK k : k = pos[i]
  OBVIOUS
<1>6. k \in 1..Len(u) /\ at[k] = i
  BY <1>4, <1>5 DEF IsCopy
<1>7. \A l \in 1..Len(u) : at[l] = i => l = k
  BY <1>5 DEF IsCopy
<1>8. \A l : l \in Of(u, "result") <=> l = k
  BY <1>1, <1>3, <1>6, <1>7
<1>9. u[k].exitCode = 0
  <2>1. t[at[k]].type = "result"
    BY <1>6 DEF Of
  <2> QED BY <2>1, <1>3, <1>6, CopiedEvents
<1> QED BY <1>2, <1>8, <1>9 DEF TerminalResult

\* The starts that invocations are taken from.
FirstStarts(t) == {i \in DOMAIN t : /\ IsInvocation(t, i)
                                    /\ \A j \in StartsOf(t, t[i].call) : i <= j}

LEMMA CopyOfFirstStarts ==
    ASSUME NEW t, NEW u, NEW at, NEW pos, IsCopy(t, u, at, pos),
           ToolsPaired(t), ToolsPaired(u)
    PROVE  /\ \A k \in FirstStarts(u) : k \in 1..Len(u) /\ at[k] \in FirstStarts(t)
           /\ \A i \in FirstStarts(t) : /\ i \in KeptIndices(t)
                                        /\ pos[i] \in FirstStarts(u)
<1> DEFINE Alone(v) == /\ DOMAIN v \subseteq Nat
                       /\ \A i \in Of(v, "start") : StartsOf(v, v[i].call) = {i}
<1>1. ASSUME NEW v, Alone(v)
      PROVE  \A i : i \in FirstStarts(v) <=> i \in DOMAIN v /\ IsInvocation(v, i)
  <2> SUFFICES ASSUME NEW i \in DOMAIN v, IsInvocation(v, i)
               PROVE  \A j \in StartsOf(v, v[i].call) : i <= j
    BY DEF FirstStarts
  <2>1. i \in Of(v, "start") /\ i \in Nat
    BY <1>1 DEF IsInvocation, Of
  <2>2. StartsOf(v, v[i].call) = {i}
    BY <1>1, <2>1
  <2> QED BY <2>1, <2>2
<1>2. Alone(t) /\ Alone(u)
  <2>1. DOMAIN t \subseteq Nat /\ DOMAIN u \subseteq Nat
    BY DEF IsCopy
  <2> QED BY <2>1 DEF ToolsPaired
<1> HIDE DEF Alone
<1>3. /\ \A i : i \in FirstStarts(t) <=> i \in DOMAIN t /\ IsInvocation(t, i)
      /\ \A k : k \in FirstStarts(u) <=> k \in DOMAIN u /\ IsInvocation(u, k)
  BY <1>1, <1>2
<1>4. ASSUME NEW k \in FirstStarts(u)
      PROVE  k \in 1..Len(u) /\ at[k] \in FirstStarts(t)
  <2>1. k \in Of(u, "start") /\ IsInvocation(u, k)
    BY <1>3 DEF IsInvocation, Of
  <2>2. k \in 1..Len(u) /\ at[k] \in Of(t, "start")
    BY <2>1, CopiedEvents
  <2>3. at[k] \in KeptIndices(t)
    BY <2>2 DEF IsCopy
  <2>4. IsInvocation(t, at[k]) /\ at[k] \in DOMAIN t
    BY <2>2, <2>3, LifecycleIsKept DEF Of
  <2> QED BY <2>2, <2>4, <1>3
<1>5. ASSUME NEW i \in FirstStarts(t)
      PROVE  i \in KeptIndices(t) /\ pos[i] \in FirstStarts(u)
  <2>1. i \in DOMAIN t /\ IsInvocation(t, i)
    BY <1>3
  <2>2. i \in KeptIndices(t) /\ i \in Of(t, "start")
    BY <2>1, LifecycleIsKept DEF IsInvocation, Of
  <2>3. pos[i] \in Of(u, "start")
    BY <2>2, CopiedEvents
  <2>4. IsInvocation(u, pos[i]) /\ pos[i] \in DOMAIN u
    BY <2>3, CopyIsPaired DEF Of
  <2> QED BY <2>2, <2>4, <1>3
<1> QED BY <1>4, <1>5

\* An invocation and its outcome are the same in the copy.
LEMMA CopyOfInvocation ==
    ASSUME NEW t, NEW u, NEW at, NEW pos, IsCopy(t, u, at, pos), ToolsPaired(t),
           NEW k \in FirstStarts(u), at[k] \in FirstStarts(t)
    PROVE  InvocationAt(u, k) = InvocationAt(t, at[k])
<1>1. PICK i : i = at[k]
  OBVIOUS
<1>2. PICK call : call = t[i].call
  OBVIOUS
<1>3. i \in Of(t, "start") /\ IsInvocation(t, i) /\ k \in 1..Len(u)
  BY <1>1 DEF FirstStarts, IsInvocation, Of, IsCopy
<1>4. u[k] = t[i]
  <2>1. t[i].type \notin LifecycleTypes
    BY <1>3 DEF Of, LifecycleTypes
  <2> QED BY <1>1, <1>3, <2>1, CopiedEvents
<1>5. PICK j \in CompletionsOf(t, call) : j > i
  BY <1>2, <1>3 DEF ToolsPaired
<1>6. j \in Of(t, "complete") /\ t[j].call = call
  BY DEF CompletionsOf
<1>7. CompletionsOf(t, call) = {j} /\ StartsOf(t, call) = {i}
  BY <1>2, <1>3, <1>6 DEF ToolsPaired
<1>8. j \in KeptIndices(t)
  BY <1>3, <1>5, <1>6, <1>7, LifecycleIsKept
<1>9. PICK l : l = pos[j]
  OBVIOUS
<1>10. l \in 1..Len(u) /\ at[l] = j
  BY <1>8, <1>9 DEF IsCopy
<1>11. \A m \in 1..Len(u) : at[m] = j => m = l
  BY <1>9 DEF IsCopy
<1>12. \A m : m \in CompletionsOf(u, call) <=> m = l
  BY <1>7, <1>10, <1>11, CopyOfCall
<1>13. CompletionsOf(u, call) = {l}
  BY <1>12
<1>14. u[l] = t[j]
  <2>1. t[j].type \notin LifecycleTypes
    BY <1>6 DEF Of, LifecycleTypes
  <2> QED BY <1>10, <2>1, CopiedEvents
<1>15. l \in Nat /\ j \in Nat
  BY <1>6, <1>10 DEF IsCopy, Of
<1>16. (CHOOSE m \in {j} : \A n \in {j} : n <= m) = j
       /\ (CHOOSE m \in {l} : \A n \in {l} : n <= m) = l
  BY <1>15
<1>17. InvocationAt(t, i) = [skill |-> t[i].skill, call |-> t[i].call, invokedAt |-> t[i].at,
                            status |-> IF t[j].ok THEN "completed" ELSE "failed",
                            completedAt |-> t[j].at]
  BY <1>2, <1>7, <1>16 DEF InvocationAt
<1>18. InvocationAt(u, k) = [skill |-> u[k].skill, call |-> u[k].call, invokedAt |-> u[k].at,
                            status |-> IF u[l].ok THEN "completed" ELSE "failed",
                            completedAt |-> u[l].at]
  BY <1>2, <1>4, <1>13, <1>16 DEF InvocationAt
<1> QED BY <1>1, <1>4, <1>14, <1>17, <1>18

\* The copy yields the invocations of the transcript.
LEMMA CopyKeepsInvocations ==
    ASSUME NEW t, NEW u, NEW at, NEW pos, IsCopy(t, u, at, pos), ToolsPaired(t)
    PROVE  Invocations(u) = Invocations(t)
<1> DEFINE S == FirstStarts(u)
           T == FirstStarts(t)
           f == [k \in S |-> at[k]]
<1>1. ToolsPaired(u)
  BY CopyIsPaired
<1>2. /\ \A k \in S : k \in 1..Len(u) /\ at[k] \in T
      /\ \A i \in T : i \in KeptIndices(t) /\ pos[i] \in S
  BY <1>1, CopyOfFirstStarts
<1>3. /\ Len(u) \in Nat
      /\ T \subseteq Nat
      /\ \A i \in KeptIndices(t) : at[pos[i]] = i
      /\ \A k, l \in 1..Len(u) : k < l => at[k] < at[l]
  BY DEF IsCopy, FirstStarts
<1>4. \A k \in S : InvocationAt(u, k) = InvocationAt(t, at[k])
  BY <1>2, CopyOfInvocation
<1>5. Invocations(u) = [n \in DOMAIN InOrder(S) |-> InvocationAt(u, InOrder(S)[n])]
  BY DEF Invocations, FirstStarts
<1>6. Invocations(t) = [n \in DOMAIN InOrder(T) |-> InvocationAt(t, InOrder(T)[n])]
  BY DEF Invocations, FirstStarts
<1> HIDE DEF S, T
<1>7. S \in SUBSET Nat /\ IsFiniteSet(S) /\ T \in SUBSET Nat
  <2>1. IsFiniteSet(1..Len(u)) /\ S \in SUBSET (1..Len(u))
    BY <1>2, <1>3, FS_Interval
  <2>2. IsFiniteSet(S)
    BY <2>1, FS_Subset
  <2> QED BY <2>1, <2>2, <1>3
<1>8. /\ f \in [S -> T]
      /\ \A k, l \in S : k < l => f[k] < f[l]
      /\ \A i \in T : \E k \in S : f[k] = i
      /\ \A k \in S : f[k] = at[k]
  BY <1>2, <1>3
<1> HIDE DEF f
<1>9. /\ IsFiniteSet(T)
      /\ Cardinality(T) = Cardinality(S)
      /\ \A n \in 1..Cardinality(S) : InOrder(T)[n] = f[InOrder(S)[n]]
  BY <1>7, <1>8, OrderCarriesOver
<1>10. DOMAIN InOrder(S) = 1..Cardinality(S) /\ DOMAIN InOrder(T) = 1..Cardinality(S)
  BY <1>9 DEF InOrder
<1>11. \A n \in 1..Cardinality(S) : InOrder(S)[n] \in S
  BY <1>7, InOrderLists
<1>12. \A n \in 1..Cardinality(S) :
          InvocationAt(u, InOrder(S)[n]) = InvocationAt(t, InOrder(T)[n])
  BY <1>4, <1>8, <1>9, <1>11
<1> QED BY <1>5, <1>6, <1>10, <1>12

\* What is published is accepted by strict verification, under the replaced
\* session id, with the same invocations and no call of another tool.
THEOREM PublishedCopiesVerify == Spec => []SanitizedVerifies
<1>1. ASSUME NEW t \in Seq(Event), StrictlyVerifiable(t)
      PROVE  /\ StrictlyVerifiable(Sanitized(t))
             /\ SessionOf(Sanitized(t)) = Replacement
             /\ Invocations(Sanitized(t)) = Invocations(t)
             /\ \A i \in Of(Sanitized(t), "start") : IsInvocation(Sanitized(t), i)
  <2>1. PICK u : u = Sanitized(t)
    OBVIOUS
  <2>2. PICK at, pos : IsCopy(t, u, at, pos)
    BY <2>1, SanitizedIsCopy
  <2>3. /\ Len(t) \in Ends(t) /\ ToolsPaired(t)
        /\ RoutineLifecycle(t) \/ TerminalResult(t)
    BY <1>1 DEF StrictlyVerifiable
  <2>4. Len(u) \in Ends(u) /\ SessionOf(u) = Replacement
    BY <2>2, <2>3, CopyEnds
  <2>5. ToolsPaired(u) /\ \A i \in Of(u, "start") : IsInvocation(u, i)
    BY <2>2, <2>3, CopyIsPaired
  <2>6. RoutineLifecycle(u) \/ TerminalResult(u)
    <3>1. CASE RoutineLifecycle(t)
      BY <3>1, <2>2, <2>3, CopyIsRoutine
    <3>2. CASE TerminalResult(t)
      BY <3>2, <2>2, CopyIsTerminal
    <3> QED BY <3>1, <3>2, <2>3
  <2>7. Invocations(u) = Invocations(t)
    BY <2>2, <2>3, CopyKeepsInvocations
  <2> QED BY <2>1, <2>4, <2>5, <2>6, <2>7 DEF StrictlyVerifiable
<1>2. TranscriptInv => SanitizedVerifies
  <2> SUFFICES ASSUME TranscriptInv, NEW s \in Session, NEW n \in DOMAIN transcript[s],
                      Publishable(SubSeq(transcript[s], 1, n), transcript[s])
               PROVE  LET before == SubSeq(transcript[s], 1, n)
                          copy == Sanitized(transcript[s])
                      IN  /\ StrictlyVerifiable(copy)
                          /\ SessionOf(copy) = Replacement
                          /\ Invocations(copy) = Invocations(before)
                          /\ \A i \in Of(copy, "start") : IsInvocation(copy, i)
    BY DEF SanitizedVerifies
  <2> DEFINE t == transcript[s]
  <2>1. t \in Seq(Event)
    BY DEF TranscriptInv
  <2>2. SubSeq(t, 1, n) = t /\ StrictlyVerifiable(t)
    BY Zenon DEF Publishable
  <2> HIDE DEF t
  <2>3. /\ StrictlyVerifiable(Sanitized(t))
        /\ SessionOf(Sanitized(t)) = Replacement
        /\ Invocations(Sanitized(t)) = Invocations(SubSeq(t, 1, n))
        /\ \A i \in Of(Sanitized(t), "start") : IsInvocation(Sanitized(t), i)
    BY <1>1, <2>1, <2>2
  <2> QED BY <2>3 DEF t
<1> QED BY <1>2, TranscriptTyped, PTL

=============================================================================
