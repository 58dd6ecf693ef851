-------------------------- MODULE TddCycleProofs --------------------------
(***************************************************************************)
(* Theorems about TddCycle for any tests, requirements, renames and        *)
(* bounds, and any number of interrupted commands: types, that markers     *)
(* exclude each other, that no command changes what was recorded, what the *)
(* integrity checks may find, what a clean report means, and which reports *)
(* may go away.                                                            *)
(***************************************************************************)
EXTENDS TddCycle, SequenceTheorems, FiniteSetTheorems, WellFoundedInduction, TLAPS

-----------------------------------------------------------------------------
(* The cycles that commands pick                                           *)

\* A non-empty set of naturals with a bound has a maximum.
LEMMA HasMaximum ==
    ASSUME NEW n \in Nat, NEW S \in SUBSET (0..n), S # {}
    PROVE  \E i \in S : \A j \in S : j <= i
<1> DEFINE less == OpToRel(<, Nat)
           bounds == {b \in Nat : \A j \in S : j <= b}
<1>1. \A x, y \in Nat : x < y => <<x, y>> \in less
  BY DEF OpToRel
<1>2. n \in bounds
  OBVIOUS
<1>3. PICK b \in bounds : \A c \in bounds : ~(<<c, b>> \in less)
  <2>1. IsWellFoundedOn(less, Nat)
    BY NatLessThanWellFounded
  <2> QED BY <2>1, <1>2, WFMin
<1> HIDE DEF less
<1>4. \A c \in bounds : b <= c
  <2> SUFFICES ASSUME NEW c \in bounds, c < b
               PROVE  FALSE
    OBVIOUS
  <2>1. <<c, b>> \in less
    BY <1>1
  <2> QED BY <2>1, <1>3
<1>5. b \in S
  <2>1. SUFFICES ASSUME b \notin S PROVE FALSE
    OBVIOUS
  <2>2. b # 0
    <3>1. PICK j \in S : TRUE
      OBVIOUS
    <3> QED BY <3>1, <2>1
  <2>3. b - 1 \in bounds
    BY <2>1, <2>2
  <2> QED BY <2>3, <1>4
<1> QED BY <1>5

\* What the assumption on the bounds says of each.
LEMMA BoundsType ==
    /\ MaxBody \in Nat /\ MaxSource \in Nat /\ MaxLog \in Nat
    /\ 1 \in Body /\ 1 \in Source
BY TddBoundAssumption DEF Body, Source

\* The cycles themselves, as a sequence.
LEMMA CyclesType ==
    ASSUME TypeOK
    PROVE  /\ cycles \in Seq(Cycles)
           /\ Len(cycles) \in Nat
           /\ DOMAIN cycles = 1..Len(cycles)
           /\ \A i \in DOMAIN cycles : cycles[i] \in Cycles
BY DEF TypeOK

\* Every set of recorded cycles has a last one.
LEMMA HasLatest ==
    ASSUME TypeOK, NEW S \in SUBSET DOMAIN cycles, S # {}
    PROVE  \E i \in S : \A j \in S : j <= i
<1>1. S \in SUBSET (0..Len(cycles)) /\ Len(cycles) \in Nat
  BY CyclesType
<1> QED BY <1>1, HasMaximum

\* The latest cycle of a test is recorded, and so is that of a test and a
\* requirement.
LEMMA LatestIsRecorded ==
    ASSUME TypeOK, NEW t, Latest(t) # 0
    PROVE  Latest(t) \in DOMAIN cycles
<1> DEFINE own == {i \in DOMAIN cycles : cycles[i].test = t}
<1>1. own # {}
  BY DEF Latest
<1>2. \E i \in own : \A j \in own : j <= i
  BY <1>1, HasLatest
<1> QED BY <1>1, <1>2 DEF Latest

\* The latest cycle of a test is one of its cycles, and none of them is later.
LEMMA LatestIsLast ==
    ASSUME TypeOK, NEW t, Latest(t) # 0
    PROVE  /\ Latest(t) \in DOMAIN cycles
           /\ cycles[Latest(t)].test = t
           /\ \A k \in DOMAIN cycles : k > Latest(t) => cycles[k].test # t
<1> DEFINE own == {i \in DOMAIN cycles : cycles[i].test = t}
<1>1. own # {}
  BY DEF Latest
<1>2. \E i \in own : \A j \in own : j <= i
  BY <1>1, HasLatest
<1>3. Latest(t) \in own /\ \A j \in own : j <= Latest(t)
  BY <1>1, <1>2 DEF Latest
<1>4. \A k \in DOMAIN cycles : k \in Nat
  BY CyclesType
<1> QED BY <1>3, <1>4

LEMMA PreviousIsRecorded ==
    ASSUME TypeOK, NEW t, NEW q, Previous(t, q) # 0
    PROVE  Previous(t, q) \in DOMAIN cycles
<1> DEFINE own == {i \in DOMAIN cycles : cycles[i].test = t /\ cycles[i].req = q}
<1>1. own # {}
  BY DEF Previous
<1>2. \E i \in own : \A j \in own : j <= i
  BY <1>1, HasLatest
<1> QED BY <1>1, <1>2 DEF Previous

\* What stands in for a voided cycle is recorded, and so is what a
\* migration works on.
LEMMA EffectiveLatestIsRecorded ==
    ASSUME TypeOK, NEW t, NEW v, EffectiveLatest(t, v) # 0
    PROVE  EffectiveLatest(t, v) \in DOMAIN cycles
<1> DEFINE fall == Fallbacks(t, v)
           orders == {cycles[i].green.order : i \in fall}
<1>1. fall # {} /\ fall \subseteq DOMAIN cycles
  BY DEF EffectiveLatest, Fallbacks
<1>2. \A i \in DOMAIN cycles : cycles[i].green.order \in 0..MaxLog
  <2> TAKE i \in DOMAIN cycles
  <2>1. cycles[i].green \in Items \cup {Unrecorded}
    BY CyclesType DEF Cycles
  <2> QED BY <2>1, BoundsType DEF Items, Unrecorded
<1>3. PICK m \in orders : \A o \in orders : o <= m
  <2>1. orders \in SUBSET (0..MaxLog) /\ orders # {}
    BY <1>1, <1>2
  <2> QED BY <2>1, HasMaximum, BoundsType
<1>4. \E i \in fall : \A j \in fall : cycles[j].green.order <= cycles[i].green.order
  BY <1>3
<1> QED BY <1>1, <1>4 DEF EffectiveLatest

LEMMA TargetIsRecorded ==
    ASSUME TypeOK, NEW t, Target(t) # 0
    PROVE  Target(t) \in DOMAIN cycles
BY LatestIsRecorded, EffectiveLatestIsRecorded DEF Target

-----------------------------------------------------------------------------
(* Keys and counts                                                         *)

\* A sequence names n things by its n places exactly when no two agree.
LEMMA CountsNames ==
    ASSUME NEW n \in Nat, NEW f, f = [i \in 1..n |-> f[i]]
    PROVE  Cardinality({f[i] : i \in 1..n}) = n
               <=> \A i, j \in 1..n : f[i] = f[j] => i = j
<1> DEFINE T == {f[i] : i \in 1..n}
<1>1. f \in Surjection(1..n, T)
  BY DEF Surjection
<1>2. IsFiniteSet(1..n) /\ Cardinality(1..n) = n
  BY FS_Interval
<1>3. Cardinality(T) = Cardinality(1..n) <=> f \in Injection(1..n, T)
  BY <1>1, <1>2, FS_Surjection
<1>4. f \in Injection(1..n, T) <=> \A i, j \in 1..n : f[i] = f[j] => i = j
  BY DEF Injection, IsInjective
<1> QED BY <1>2, <1>3, <1>4

\* The key a log record is indexed under tells its cycle and its phase.
LEMMA KeyFields ==
    ASSUME NEW id, NEW phase
    PROVE  Key(id, phase, <<>>) = <<id, phase>>
BY DEF Key

\* No index key is that of a relink, which is longer.
LEMMA RelinkKey ==
    ASSUME NEW id, NEW phase, NEW scope \in Scope, scope # <<>>, NEW r
    PROVE  Key(id, phase, scope) # IndexKey(r)
<1>1. PICK a \in Test, b \in Test : scope = <<a, b>>
  BY DEF Scope
<1> DEFINE S == {id, phase, a, b}
<1>2. Len(Key(id, phase, scope)) = 4
  <2>1. <<id, phase>> \in Seq(S) /\ <<a, b>> \in Seq(S)
    OBVIOUS
  <2> QED BY <1>1, <2>1, ConcatProperties DEF Key
<1>3. Len(IndexKey(r)) = 2
  BY KeyFields DEF IndexKey
<1> QED BY <1>2, <1>3

\* In a valid log no two records have the same key.
LEMMA ValidLog ==
    ASSUME TypeOK
    PROVE  LogValid <=> \A i, j \in DOMAIN log : IndexKey(log[i]) = IndexKey(log[j]) => i = j
<1> DEFINE n == Len(log)
           f == [i \in 1..n |-> IndexKey(log[i])]
<1>1. n \in Nat /\ DOMAIN log = 1..n
  BY DEF TypeOK
<1>2. f = [i \in 1..n |-> f[i]] /\ {f[i] : i \in 1..n} = {IndexKey(log[i]) : i \in DOMAIN log}
  BY <1>1
<1>3. \A i \in 1..n : f[i] = IndexKey(log[i])
  OBVIOUS
<1> HIDE DEF f, n
<1>4. Cardinality({f[i] : i \in 1..n}) = n
               <=> \A i, j \in 1..n : f[i] = f[j] => i = j
  BY <1>1, <1>2, CountsNames
<1> QED BY <1>1, <1>2, <1>3, <1>4 DEF LogValid, n

-----------------------------------------------------------------------------
(* The pairing of the run phases with the log                              *)

\* A recorded phase of a cycle is the record of the log it names.
PairedIn(l, c, p) ==
    /\ c[p].order \in DOMAIN l
    /\ l[c[p].order] = [cycle |-> c.id, phase |-> p, scope |-> <<>>]
RunsPaired ==
    \A i \in DOMAIN cycles, p \in Run :
        Recorded(cycles[i][p]) => PairedIn(log, cycles[i], p)

BaseInv == TypeOK /\ OneMarker /\ RunsPaired

\* What a command may do to a cycle: add to it.
Kept(c, d) ==
    /\ d.id = c.id
    /\ Entries(c) \subseteq Entries(d)
    /\ \A p \in Run : Recorded(c[p]) => d[p] = c[p]

\* The cycle d may be written with the next record of the log.
Writable(d) ==
    /\ d \in Cycles
    /\ d.void = 0 \/ d.archive = 0
    /\ \A p \in Run : Recorded(d[p]) => PairedIn(log', d, p)

\* The cycles a command writes, if it gets so far.
Extending(recorded) ==
    /\ recorded \in Seq(Cycles)
    /\ \A i \in DOMAIN cycles : i \in DOMAIN recorded /\ Kept(cycles[i], recorded[i])
    /\ \A i \in DOMAIN recorded : Writable(recorded[i])

\* The action of AppendOnly.
Appending ==
    /\ \A i \in DOMAIN log : i \in DOMAIN log' /\ log'[i] = log[i]
    /\ \A i \in DOMAIN chain : i \in DOMAIN chain' /\ chain'[i] = chain[i]
    /\ \A i \in DOMAIN cycles :
          /\ i \in DOMAIN cycles'
          /\ Entries(cycles[i]) \subseteq Entries(cycles'[i])
          /\ \A p \in Run : Recorded(cycles[i][p]) => cycles'[i][p] = cycles[i][p]

\* What an append to the log leaves in place.
LEMMA LogGrows ==
    ASSUME TypeOK, NEW id \in 1..MaxLog, NEW phase \in Phase, NEW scope \in Scope,
           NEW recorded, Record(id, phase, scope, recorded)
    PROVE  /\ log' \in Seq([cycle : 1..MaxLog, phase : Phase, scope : Scope])
           /\ Len(log) + 1 \in 1..MaxLog
           /\ Len(log) + 1 \in DOMAIN log'
           /\ log'[Len(log) + 1] = [cycle |-> id, phase |-> phase, scope |-> scope]
           /\ \A i \in DOMAIN log : i \in DOMAIN log' /\ log'[i] = log[i]
           /\ \A c \in Cycles, p \in Run : PairedIn(log, c, p) => PairedIn(log', c, p)
<1> DEFINE Rec == [cycle : 1..MaxLog, phase : Phase, scope : Scope]
           new == [cycle |-> id, phase |-> phase, scope |-> scope]
<1>1. log \in Seq(Rec) /\ new \in Rec /\ log' = Append(log, new) /\ Len(log) < MaxLog
  BY DEF TypeOK, Record
<1> HIDE DEF Rec, new
<1>2. /\ log' \in Seq(Rec) /\ Len(log') = Len(log) + 1 /\ log'[Len(log) + 1] = new
      /\ \A i \in 1..Len(log) : log'[i] = log[i]
  BY <1>1, AppendProperties
<1>3. /\ Len(log) \in Nat /\ DOMAIN log = 1..Len(log) /\ DOMAIN log' = 1..(Len(log) + 1)
  BY <1>1, <1>2
<1>4. \A i \in DOMAIN log : i \in DOMAIN log' /\ log'[i] = log[i]
  BY <1>2, <1>3
<1>5. Len(log) + 1 \in 1..MaxLog
  BY <1>1, <1>3, BoundsType
<1>6. \A c \in Cycles, p \in Run : PairedIn(log, c, p) => PairedIn(log', c, p)
  BY <1>4 DEF PairedIn
<1> QED BY <1>2, <1>3, <1>4, <1>5, <1>6 DEF Rec, new

\* Whether or not the second write happens, the invariant survives and
\* nothing is dropped, if the command adds to the cycles.
LEMMA RecordKeeps ==
    ASSUME BaseInv, NEW id \in 1..MaxLog, NEW phase \in Phase, NEW scope \in Scope,
           NEW recorded, Record(id, phase, scope, recorded), Extending(recorded)
    PROVE  BaseInv' /\ Appending
<1> USE DEF BaseInv
<1>1. \A i \in DOMAIN log : i \in DOMAIN log' /\ log'[i] = log[i]
  BY LogGrows
<1>2. CASE cycles' = recorded
           /\ chain' = Append(chain, [cycle |-> id, phase |-> phase,
                                      scope |-> scope, order |-> Len(log) + 1])
  <2> DEFINE Rec == [cycle : 1..MaxLog, phase : Phase, scope : Scope, order : 1..MaxLog]
             new == [cycle |-> id, phase |-> phase, scope |-> scope, order |-> Len(log) + 1]
  <2>1. chain \in Seq(Rec) /\ new \in Rec
    BY LogGrows DEF TypeOK
  <2> HIDE DEF Rec, new
  <2>2. chain' = Append(chain, new)
    BY <1>2 DEF new
  <2>3. /\ chain' \in Seq(Rec) /\ Len(chain') = Len(chain) + 1
        /\ \A i \in 1..Len(chain) : chain'[i] = chain[i]
    BY <2>1, <2>2, AppendProperties
  <2>4. \A i \in DOMAIN chain : i \in DOMAIN chain' /\ chain'[i] = chain[i]
    BY <2>1, <2>3
  <2>5. TypeOK'
    BY <1>2, <2>3, LogGrows DEF Record, tree, TypeOK, Extending, Rec
  <2>6. OneMarker' /\ RunsPaired'
    BY <1>2 DEF Extending, Writable, OneMarker, RunsPaired
  <2> QED BY <1>1, <1>2, <2>4, <2>5, <2>6 DEF Appending, Extending, Kept
<1>3. CASE UNCHANGED evidence
  <2>1. TypeOK'
    BY <1>3, LogGrows DEF Record, tree, evidence, TypeOK
  <2>2. OneMarker'
    BY <1>3 DEF evidence, OneMarker
  <2>3. RunsPaired'
    BY <1>3, LogGrows, CyclesType DEF evidence, RunsPaired
  <2> QED BY <1>1, <1>3, <2>1, <2>2, <2>3 DEF Appending, evidence
<1> QED BY <1>2, <1>3 DEF Record

\* Writing one recorded cycle again, with more in it.
LEMMA OneCycleExtended ==
    ASSUME BaseInv, NEW id \in 1..MaxLog, NEW phase \in Phase, NEW scope \in Scope,
           NEW recorded, Record(id, phase, scope, recorded),
           NEW i \in DOMAIN cycles, NEW d, recorded = [cycles EXCEPT ![i] = d],
           Kept(cycles[i], d), Writable(d)
    PROVE  Extending(recorded)
<1>1. recorded \in Seq(Cycles)
  BY CyclesType, ExceptSeq DEF Writable, BaseInv
<1>2. DOMAIN recorded = DOMAIN cycles
  OBVIOUS
<1>3. recorded[i] = d /\ \A j \in DOMAIN cycles \ {i} : recorded[j] = cycles[j]
  OBVIOUS
<1>4. \A j \in DOMAIN cycles : Kept(cycles[j], cycles[j])
  BY DEF Kept
<1>5. \A j \in DOMAIN cycles : Writable(cycles[j])
  BY LogGrows, CyclesType DEF BaseInv, Writable, OneMarker, RunsPaired
<1> QED BY <1>1, <1>2, <1>3, <1>4, <1>5 DEF Extending

-----------------------------------------------------------------------------
(* The invariant about log, cycles and chain together                      *)

RecordOf(r) == [cycle |-> r.cycle, phase |-> r.phase, scope |-> r.scope]

\* Only relinks are appended under a key that the log has.
LogOrdered ==
    /\ \A i \in DOMAIN log : log[i].scope # <<>> => log[i].phase = "migrate"
    /\ \A i, j \in DOMAIN log :
          i < j /\ IndexKey(log[i]) = IndexKey(log[j]) => log[j].scope # <<>>

\* A cycle is named after the order of its Red.
IdsUnique(cs) ==
    /\ \A i \in DOMAIN cs : cs[i].id \in Nat
    /\ \A i, j \in DOMAIN cs : cs[i].id = cs[j].id => i = j
NamedByOrder == \A i \in DOMAIN cycles : cycles[i].id \in DOMAIN log

AllEntries(cs) == UNION {Entries(cs[i]) : i \in DOMAIN cs}

\* The chain is the entries of the cycles, once each, and of the log.
ChainPaired ==
    /\ \A i \in DOMAIN chain :
          chain[i].order \in DOMAIN log /\ log[chain[i].order] = RecordOf(chain[i])
    /\ \A i, j \in DOMAIN chain : RecordOf(chain[i]) = RecordOf(chain[j]) => i = j
    /\ {chain[i] : i \in DOMAIN chain} = AllEntries(cycles)

\* The phases of a cycle come one after the other, all but relinks of the
\* text that was Red.
SoundCycle(c) ==
    /\ Recorded(c.green) => c.red.order < c.green.order /\ c.green.text = c.red.text
    /\ Recorded(c.refactor) =>
          /\ c.green.valid
          /\ c.green.order < c.refactor.order
          /\ c.refactor.text = c.red.text
    /\ \A n \in DOMAIN c.migrations :
          /\ c.green.valid
          /\ c.green.order < c.migrations[n].order
    /\ Relinks(c) = {} => \A n \in DOMAIN c.migrations : c.migrations[n].text = c.red.text

\* An earlier cycle stands in for a voided one, and nobody marks it.
StandsIn(cs, i, order) ==
    \E j \in 1..(i - 1) :
        /\ cs[j].test = cs[i].test
        /\ Green(cs[j]) /\ ~Marked(cs[j])
        /\ cs[j].green.order < order
SoundCycles(cs) ==
    \A i \in DOMAIN cs :
        SoundCycle(cs[i]) /\ (cs[i].void # 0 => StandsIn(cs, i, cs[i].void))

IInv ==
    /\ BaseInv
    /\ LogOrdered
    /\ IdsUnique(cycles)
    /\ NamedByOrder
    /\ ChainPaired
    /\ SoundCycles(cycles)

\* What a command with this entry may make of the cycles.
Fitting(recorded, entry) ==
    /\ Extending(recorded)
    /\ AllEntries(recorded) = AllEntries(cycles) \cup {entry}
    /\ \A i \in DOMAIN recorded : recorded[i].id \in 1..(Len(log) + 1)
    /\ IdsUnique(recorded)
    /\ SoundCycles(recorded)

\* The log stays ordered, whatever else becomes of the command.
LEMMA LogStaysOrdered ==
    ASSUME TypeOK, LogOrdered, NEW id \in 1..MaxLog, NEW phase \in Phase, NEW scope \in Scope,
           NEW recorded, Record(id, phase, scope, recorded), scope # <<>> => phase = "migrate"
    PROVE  LogOrdered'
<1> DEFINE new == [cycle |-> id, phase |-> phase, scope |-> scope]
           n == Len(log) + 1
<1>1. /\ \A i \in DOMAIN log : i \in DOMAIN log' /\ log'[i] = log[i]
      /\ log'[n] = new
  BY LogGrows
<1>2. n \in Nat /\ DOMAIN log = 1..(n - 1) /\ DOMAIN log' = 1..n
  BY LogGrows DEF Record, TypeOK
<1>3. \A i \in DOMAIN log' : i = n \/ i \in DOMAIN log
  BY <1>2
<1>4. \A i \in DOMAIN log' : log'[i].scope # <<>> => log'[i].phase = "migrate"
  BY <1>1, <1>3 DEF LogOrdered
<1>5. ASSUME NEW i \in DOMAIN log', NEW j \in DOMAIN log', i < j,
             IndexKey(log'[i]) = IndexKey(log'[j])
      PROVE  log'[j].scope # <<>>
  <2>1. i \in DOMAIN log
    BY <1>2, <1>5
  <2>2. CASE j \in DOMAIN log
    BY <1>1, <1>5, <2>1, <2>2 DEF LogOrdered
  <2>3. CASE j = n
    <3>1. SUFFICES ASSUME scope = <<>> PROVE FALSE
      BY <1>1, <2>3
    <3>2. IndexKey(log[i]) = Key(id, phase, <<>>)
      BY <1>1, <1>5, <2>1, <2>3 DEF IndexKey
    <3> QED BY <2>1, <3>1, <3>2 DEF Record, Appendable
  <2> QED BY <1>3, <2>2, <2>3
<1> QED BY <1>4, <1>5 DEF LogOrdered

\* Both writes of a fitting command keep the invariant, and so does the first
\* without the second.
LEMMA RecordFits ==
    ASSUME IInv, NEW id \in 1..MaxLog, NEW phase \in Phase, NEW scope \in Scope,
           NEW recorded, Record(id, phase, scope, recorded), scope # <<>> => phase = "migrate",
           NEW entry, entry = [cycle |-> id, phase |-> phase, scope |-> scope,
                               order |-> Len(log) + 1],
           \A i \in DOMAIN chain : RecordOf(chain[i]) # RecordOf(entry),
           Fitting(recorded, entry)
    PROVE  IInv' /\ Appending
<1>1. BaseInv' /\ TypeOK /\ Appending
  BY RecordKeeps DEF IInv, Fitting, BaseInv
<1>2. LogOrdered'
  BY <1>1, LogStaysOrdered DEF IInv
<1>3. /\ \A i \in DOMAIN log : i \in DOMAIN log' /\ log'[i] = log[i]
      /\ log'[Len(log) + 1] = RecordOf(entry)
      /\ Len(log) + 1 \in DOMAIN log'
      /\ 1..(Len(log) + 1) \subseteq DOMAIN log'
  <2>1. Len(log) \in Nat /\ Len(log') = Len(log) + 1 /\ DOMAIN log' = 1..Len(log')
    BY <1>1, LogGrows DEF Record, TypeOK
  <2> QED BY <1>1, <2>1, LogGrows DEF RecordOf
<1>4. CASE cycles' = recorded /\ chain' = Append(chain, entry)
  <2>1. /\ Len(chain) \in Nat /\ DOMAIN chain = 1..Len(chain)
        /\ DOMAIN chain' = 1..(Len(chain) + 1)
        /\ chain'[Len(chain) + 1] = entry
        /\ \A i \in DOMAIN chain : chain'[i] = chain[i]
    <3> DEFINE Rec == [cycle : 1..MaxLog, phase : Phase, scope : Scope, order : 1..MaxLog]
    <3>1. chain \in Seq(Rec) /\ entry \in Rec
      BY <1>1, LogGrows DEF TypeOK
    <3> HIDE DEF Rec
    <3> QED BY <1>4, <3>1, AppendProperties
  <2>2. \A i \in DOMAIN chain' : i = Len(chain) + 1 \/ i \in DOMAIN chain
    BY <2>1
  <2>3. \A i \in DOMAIN chain' :
          chain'[i].order \in DOMAIN log' /\ log'[chain'[i].order] = RecordOf(chain'[i])
    BY <1>3, <2>1, <2>2 DEF IInv, ChainPaired
  <2>4. \A i, j \in DOMAIN chain' : RecordOf(chain'[i]) = RecordOf(chain'[j]) => i = j
    BY <2>1, <2>2 DEF IInv, ChainPaired
  <2>5. {chain'[i] : i \in DOMAIN chain'} = AllEntries(recorded)
    <3>1. {chain'[i] : i \in DOMAIN chain'} = {chain[i] : i \in DOMAIN chain} \cup {entry}
      BY <2>1, <2>2
    <3> QED BY <3>1 DEF Fitting, IInv, ChainPaired
  <2>6. ChainPaired'
    BY <1>4, <2>3, <2>4, <2>5 DEF ChainPaired
  <2>7. NamedByOrder'
    BY <1>3, <1>4 DEF Fitting, NamedByOrder
  <2> QED BY <1>1, <1>2, <1>4, <2>6, <2>7 DEF IInv, Fitting
<1>5. CASE UNCHANGED evidence
  <2>1. ChainPaired' /\ NamedByOrder'
    BY <1>3, <1>5 DEF IInv, ChainPaired, NamedByOrder, evidence
  <2> QED BY <1>1, <1>2, <1>5, <2>1 DEF IInv, evidence
<1> QED BY <1>1, <1>4, <1>5 DEF Record

\* Nothing in the chain has the key of a command that is no relink.
LEMMA FreshInChain ==
    ASSUME IInv, NEW id \in 1..MaxLog, NEW phase \in Phase,
           NEW recorded, Record(id, phase, <<>>, recorded), NEW i \in DOMAIN chain
    PROVE  RecordOf(chain[i]) # [cycle |-> id, phase |-> phase, scope |-> <<>>]
<1> SUFFICES ASSUME RecordOf(chain[i]) = [cycle |-> id, phase |-> phase, scope |-> <<>>]
             PROVE  FALSE
  OBVIOUS
<1> DEFINE k == chain[i].order
<1>1. k \in DOMAIN log /\ log[k] = [cycle |-> id, phase |-> phase, scope |-> <<>>]
  BY DEF IInv, ChainPaired
<1>2. IndexKey(log[k]) = Key(id, phase, <<>>)
  BY <1>1 DEF IndexKey
<1> QED BY <1>1, <1>2 DEF Record, Appendable

\* A phase that passed is recorded.
LEMMA PassedIsRecorded ==
    ASSUME NEW c \in Cycles
    PROVE  /\ c.green.valid => Recorded(c.green) /\ c.green \in Items
           /\ c.refactor.valid => Recorded(c.refactor) /\ c.refactor \in Items
           /\ Recorded(c.red)
           /\ Green(c) \in BOOLEAN
<1>1. /\ c.green \in Items \cup {Unrecorded}
      /\ c.refactor \in Items \cup {Unrecorded}
      /\ c.red \in Items
  BY DEF Cycles
<1>2. \A item \in Items : item.order # 0 /\ item.valid \in BOOLEAN
  BY BoundsType DEF Items
<1>3. Unrecorded.valid = FALSE
  BY DEF Unrecorded
<1> QED BY <1>1, <1>2, <1>3 DEF Recorded, Green

\* A cycle that is kept stays Green.
LEMMA GreenStays ==
    ASSUME NEW c \in Cycles, NEW d, Kept(c, d), Green(c)
    PROVE  Green(d) /\ d.green = c.green /\ d.red = c.red
BY PassedIsRecorded DEF Kept, Green, Run

\* What has to be said of the cycle that a command extends.
Grown(i, d, entry) ==
    /\ Kept(cycles[i], d)
    /\ d.test = cycles[i].test
    /\ Entries(d) = Entries(cycles[i]) \cup {entry}
    /\ SoundCycle(d)
    /\ Marked(d) => \/ Marked(cycles[i])
                    \/ \A k \in DOMAIN cycles : k > i => cycles[k].test # cycles[i].test
    /\ d.void # 0 => StandsIn(cycles, i, d.void)

\* The cycles with one of them grown are what the command may write.
LEMMA OneCycleFits ==
    ASSUME IInv, NEW phase \in Phase, NEW scope \in Scope, NEW recorded, NEW i \in DOMAIN cycles,
           Record(cycles[i].id, phase, scope, recorded),
           NEW d \in Cycles, recorded = [cycles EXCEPT ![i] = d], Writable(d),
           NEW entry, Grown(i, d, entry)
    PROVE  Fitting(recorded, entry)
<1>0. /\ TypeOK /\ BaseInv
      /\ DOMAIN cycles = 1..Len(cycles) /\ Len(cycles) \in Nat
      /\ \A k \in DOMAIN cycles : cycles[k] \in Cycles
  BY CyclesType DEF IInv, BaseInv
<1>1. Extending(recorded)
  <2>1. cycles[i].id \in 1..MaxLog
    BY <1>0 DEF Cycles
  <2> QED BY <1>0, <2>1, OneCycleExtended DEF Grown
<1>2. /\ DOMAIN recorded = DOMAIN cycles
      /\ recorded[i] = d
      /\ \A k \in DOMAIN cycles : k # i => recorded[k] = cycles[k]
  OBVIOUS
<1>3. AllEntries(recorded) = AllEntries(cycles) \cup {entry}
  <2>1. Entries(recorded[i]) = Entries(cycles[i]) \cup {entry}
    BY <1>2 DEF Grown
  <2>2. \A k \in DOMAIN cycles : k # i => Entries(recorded[k]) = Entries(cycles[k])
    BY <1>2
  <2>3. ASSUME NEW e \in AllEntries(recorded)
        PROVE  e \in AllEntries(cycles) \cup {entry}
    BY <1>2, <2>1, <2>2 DEF AllEntries
  <2>4. ASSUME NEW e \in AllEntries(cycles) \cup {entry}
        PROVE  e \in AllEntries(recorded)
    BY <1>2, <2>1, <2>2 DEF AllEntries
  <2> QED BY <2>3, <2>4
<1>4. \A k \in DOMAIN recorded : recorded[k].id = cycles[k].id
  BY <1>2 DEF Grown, Kept
<1>5. /\ \A k \in DOMAIN recorded : recorded[k].id \in 1..(Len(log) + 1)
      /\ IdsUnique(recorded)
  <2>1. Len(log) \in Nat /\ DOMAIN log = 1..Len(log)
    BY <1>0 DEF TypeOK
  <2> QED BY <1>2, <1>4, <2>1 DEF IInv, NamedByOrder, IdsUnique
<1>6. \A k \in DOMAIN recorded : SoundCycle(recorded[k])
  BY <1>2 DEF IInv, SoundCycles, Grown
<1>7. ASSUME NEW k \in DOMAIN recorded, recorded[k].void # 0
      PROVE  StandsIn(recorded, k, recorded[k].void)
  <2>1. StandsIn(cycles, k, recorded[k].void)
    BY <1>2, <1>7 DEF IInv, SoundCycles, Grown
  <2>2. PICK j \in 1..(k - 1) :
          /\ cycles[j].test = cycles[k].test
          /\ Green(cycles[j]) /\ ~Marked(cycles[j])
          /\ cycles[j].green.order < recorded[k].void
    BY <2>1 DEF StandsIn
  <2>3. j \in DOMAIN cycles /\ k > j /\ k \in DOMAIN cycles
    BY <1>0, <1>2
  <2>4. recorded[k].test = cycles[k].test
    BY <1>2, <2>3 DEF Grown
  <2>5. /\ recorded[j].test = cycles[j].test
        /\ Green(recorded[j]) /\ ~Marked(recorded[j])
        /\ recorded[j].green.order = cycles[j].green.order
    <3>1. CASE j = i
      BY <1>0, <1>2, <2>2, <2>3, <3>1, GreenStays DEF Grown
    <3>2. CASE j # i
      BY <1>2, <2>2, <2>3, <3>2
    <3> QED BY <3>1, <3>2
  <2> QED BY <2>2, <2>4, <2>5 DEF StandsIn
<1>8. SoundCycles(recorded)
  BY <1>6, <1>7 DEF SoundCycles
<1> QED BY <1>1, <1>3, <1>5, <1>8 DEF Fitting

\* A command that extends one cycle keeps the whole invariant.
LEMMA GrowthKeeps ==
    ASSUME IInv, NEW phase \in Phase, NEW scope \in Scope, NEW i \in DOMAIN cycles,
           NEW d \in Cycles, Writable(d),
           Record(cycles[i].id, phase, scope, [cycles EXCEPT ![i] = d]),
           scope # <<>> =>
              /\ phase = "migrate"
              /\ \A k \in DOMAIN chain :
                    RecordOf(chain[k]) # [cycle |-> cycles[i].id, phase |-> phase, scope |-> scope],
           Grown(i, d, Entry(cycles[i], phase, scope, Len(log) + 1))
    PROVE  IInv' /\ Appending
<1> DEFINE id == cycles[i].id
           entry == [cycle |-> id, phase |-> phase, scope |-> scope, order |-> Len(log) + 1]
           recorded == [cycles EXCEPT ![i] = d]
<1>1. id \in 1..MaxLog
  BY CyclesType DEF IInv, BaseInv, Cycles
<1>2. Grown(i, d, entry)
  BY DEF Entry
<1>3. Fitting(recorded, entry)
  BY <1>2, OneCycleFits
<1>4. \A k \in DOMAIN chain : RecordOf(chain[k]) # RecordOf(entry)
  <2>1. RecordOf(entry) = [cycle |-> id, phase |-> phase, scope |-> scope]
    BY DEF RecordOf
  <2>2. CASE scope = <<>>
    BY <1>1, <2>1, <2>2, FreshInChain
  <2> QED BY <2>1, <2>2
<1> HIDE DEF recorded, id
<1> DEFINE rec == recorded
<1>5. Record(id, phase, scope, recorded)
  BY DEF recorded, id
<1> HIDE DEF entry
<1>6. entry = [cycle |-> id, phase |-> phase, scope |-> scope, order |-> Len(log) + 1]
  BY DEF entry
<1> QED BY <1>1, <1>3, <1>4, <1>5, <1>6, RecordFits

-----------------------------------------------------------------------------
(* Adding to a cycle                                                       *)

\* The order log refuses a run phase that its cycle already records.
LEMMA RefusedTwice ==
    ASSUME BaseInv, NEW i \in DOMAIN cycles, NEW p \in Run,
           Appendable(cycles[i].id, p, <<>>)
    PROVE  ~Recorded(cycles[i][p])
<1> SUFFICES ASSUME Recorded(cycles[i][p])
             PROVE  FALSE
  OBVIOUS
<1> DEFINE k == cycles[i][p].order
<1>0. PairedIn(log, cycles[i], p)
  BY DEF BaseInv, RunsPaired
<1>1. k \in DOMAIN log /\ log[k].cycle = cycles[i].id /\ log[k].phase = p
  BY <1>0 DEF PairedIn
<1>2. IndexKey(log[k]) = Key(cycles[i].id, p, <<>>)
  BY <1>1 DEF IndexKey
<1> QED BY <1>1, <1>2 DEF Appendable

\* A Green or a Refactor fills an empty place of the cycle.
LEMMA PhaseAdded ==
    ASSUME NEW c \in Cycles, NEW item \in Items
    PROVE  /\ ~Recorded(c.green) =>
                 /\ [c EXCEPT !.green = item] \in Cycles
                 /\ Kept(c, [c EXCEPT !.green = item])
           /\ ~Recorded(c.refactor) =>
                 /\ [c EXCEPT !.refactor = item] \in Cycles
                 /\ Kept(c, [c EXCEPT !.refactor = item])
<1>1. ASSUME ~Recorded(c.green)
      PROVE  LET d == [c EXCEPT !.green = item] IN d \in Cycles /\ Kept(c, d)
  <2> DEFINE d == [c EXCEPT !.green = item]
  <2>1. d \in Cycles
    BY DEF Cycles
  <2>2. /\ d.id = c.id /\ d.red = c.red /\ d.refactor = c.refactor
        /\ d.void = c.void /\ d.archive = c.archive /\ d.migrations = c.migrations
    BY DEF Cycles
  <2>3. \A p \in Run : Recorded(c[p]) => d[p] = c[p]
    BY <1>1, <2>2 DEF Run, Cycles
  <2>4. Entries(c) \subseteq Entries(d)
    BY <2>2, <2>3 DEF Entries, Entry
  <2> QED BY <2>1, <2>2, <2>3, <2>4 DEF Kept
<1>2. ASSUME ~Recorded(c.refactor)
      PROVE  LET d == [c EXCEPT !.refactor = item] IN d \in Cycles /\ Kept(c, d)
  <2> DEFINE d == [c EXCEPT !.refactor = item]
  <2>1. d \in Cycles
    BY DEF Cycles
  <2>2. /\ d.id = c.id /\ d.red = c.red /\ d.green = c.green
        /\ d.void = c.void /\ d.archive = c.archive /\ d.migrations = c.migrations
    BY DEF Cycles
  <2>3. \A p \in Run : Recorded(c[p]) => d[p] = c[p]
    BY <1>2, <2>2 DEF Run, Cycles
  <2>4. Entries(c) \subseteq Entries(d)
    BY <2>2, <2>3 DEF Entries, Entry
  <2> QED BY <2>1, <2>2, <2>3, <2>4 DEF Kept
<1> QED BY <1>1, <1>2

\* A marker goes where there is none.
LEMMA MarkerAdded ==
    ASSUME NEW c \in Cycles, NEW n \in 0..MaxLog
    PROVE  /\ c.void = 0 =>
                 /\ [c EXCEPT !.void = n] \in Cycles
                 /\ Kept(c, [c EXCEPT !.void = n])
           /\ c.archive = 0 =>
                 /\ [c EXCEPT !.archive = n] \in Cycles
                 /\ Kept(c, [c EXCEPT !.archive = n])
<1>1. ASSUME c.void = 0
      PROVE  LET d == [c EXCEPT !.void = n] IN d \in Cycles /\ Kept(c, d)
  <2> DEFINE d == [c EXCEPT !.void = n]
  <2>1. d \in Cycles
    BY DEF Cycles
  <2>2. /\ d.id = c.id /\ d.red = c.red /\ d.green = c.green /\ d.refactor = c.refactor
        /\ d.archive = c.archive /\ d.migrations = c.migrations
    BY DEF Cycles
  <2>3. \A p \in Run : d[p] = c[p]
    BY <2>2 DEF Run, Cycles
  <2>4. \A p \in {"void", "archive"} : c[p] # 0 => d[p] = c[p]
    BY <1>1, <2>2
  <2>5. Entries(c) \subseteq Entries(d)
    BY <2>2, <2>3, <2>4 DEF Entries, Entry
  <2> QED BY <2>1, <2>2, <2>3, <2>5 DEF Kept
<1>2. ASSUME c.archive = 0
      PROVE  LET d == [c EXCEPT !.archive = n] IN d \in Cycles /\ Kept(c, d)
  <2> DEFINE d == [c EXCEPT !.archive = n]
  <2>1. d \in Cycles
    BY DEF Cycles
  <2>2. /\ d.id = c.id /\ d.red = c.red /\ d.green = c.green /\ d.refactor = c.refactor
        /\ d.void = c.void /\ d.migrations = c.migrations
    BY DEF Cycles
  <2>3. \A p \in Run : d[p] = c[p]
    BY <2>2 DEF Run, Cycles
  <2>4. \A p \in {"void", "archive"} : c[p] # 0 => d[p] = c[p]
    BY <1>2, <2>2
  <2>5. Entries(c) \subseteq Entries(d)
    BY <2>2, <2>3, <2>4 DEF Entries, Entry
  <2> QED BY <2>1, <2>2, <2>3, <2>5 DEF Kept
<1> QED BY <1>1, <1>2

\* A migration goes behind the earlier ones.
LEMMA MigrationAdded ==
    ASSUME NEW c \in Cycles, NEW m \in Migrations
    PROVE  LET d == [c EXCEPT !.migrations = Append(@, m)]
           IN d \in Cycles /\ Kept(c, d)
<1> DEFINE d == [c EXCEPT !.migrations = Append(@, m)]
<1>0. c.migrations \in Seq(Migrations)
  BY DEF Cycles
<1>1. /\ d.migrations \in Seq(Migrations)
      /\ \A n \in DOMAIN c.migrations : n \in DOMAIN d.migrations
      /\ \A n \in DOMAIN c.migrations : d.migrations[n] = c.migrations[n]
  <2>1. d.migrations = Append(c.migrations, m)
    BY DEF Cycles
  <2> HIDE DEF d
  <2>2. /\ d.migrations \in Seq(Migrations)
        /\ Len(d.migrations) = Len(c.migrations) + 1
        /\ \A n \in 1..Len(c.migrations) : d.migrations[n] = c.migrations[n]
    BY <1>0, <2>1, AppendProperties
  <2> QED BY <1>0, <2>2
<1>2. d \in Cycles
  BY <1>1 DEF Cycles
<1>3. /\ d.id = c.id /\ d.red = c.red /\ d.green = c.green /\ d.refactor = c.refactor
      /\ d.void = c.void /\ d.archive = c.archive
  BY DEF Cycles
<1>4. \A p \in Run : d[p] = c[p]
  BY <1>3 DEF Run, Cycles
<1>5. \A p \in {"void", "archive"} : d[p] = c[p]
  BY <1>3
<1> HIDE DEF d
<1>6. Entries(c) \subseteq Entries(d)
  BY <1>1, <1>3, <1>4, <1>5 DEF Entries, Entry
<1> QED BY <1>2, <1>3, <1>4, <1>6 DEF Kept, d

-----------------------------------------------------------------------------
(* What each kind of addition adds to the entries                          *)

RunEntries(c) == {Entry(c, p, <<>>, c[p].order) : p \in {q \in Run : Recorded(c[q])}}
MarkEntries(c) == {Entry(c, p, <<>>, c[p]) : p \in {q \in {"void", "archive"} : c[q] # 0}}
MigrationEntries(c) ==
    {Entry(c, "migrate", c.migrations[n].scope, c.migrations[n].order) : n \in DOMAIN c.migrations}

\* The entries of a cycle, by what they record.
LEMMA EntriesParts ==
    ASSUME NEW c
    PROVE  Entries(c) = RunEntries(c) \cup MarkEntries(c) \cup MigrationEntries(c)
BY DEF Entries, RunEntries, MarkEntries, MigrationEntries

\* A run phase where there was none adds its entry and no other.
LEMMA RunEntryAdded ==
    ASSUME NEW c, NEW d, NEW p \in Run, ~Recorded(c[p]), Recorded(d[p]),
           d.id = c.id, d.void = c.void, d.archive = c.archive, d.migrations = c.migrations,
           \A o \in Run \ {p} : d[o] = c[o]
    PROVE  Entries(d) = Entries(c) \cup {Entry(c, p, <<>>, d[p].order)}
<1>1. RunEntries(d) = RunEntries(c) \cup {Entry(c, p, <<>>, d[p].order)}
  <2>1. {q \in Run : Recorded(d[q])} = {q \in Run : Recorded(c[q])} \cup {p}
    OBVIOUS
  <2>2. \A q \in {r \in Run : Recorded(c[r])} : d[q] = c[q]
    OBVIOUS
  <2> QED BY <2>1, <2>2 DEF RunEntries, Entry
<1>2. MarkEntries(d) = MarkEntries(c)
  BY DEF MarkEntries, Entry
<1>3. MigrationEntries(d) = MigrationEntries(c)
  BY DEF MigrationEntries, Entry
<1> QED BY <1>1, <1>2, <1>3, EntriesParts

LEMMA RunEntryOf ==
    ASSUME NEW c \in Cycles, NEW p \in {"green", "refactor"}, NEW item \in Items, ~Recorded(c[p])
    PROVE  Entries([c EXCEPT ![p] = item]) = Entries(c) \cup {Entry(c, p, <<>>, item.order)}
<1> DEFINE d == [c EXCEPT ![p] = item]
<1>1. /\ d.id = c.id /\ d.void = c.void /\ d.archive = c.archive /\ d.migrations = c.migrations
      /\ d[p] = item /\ p \in Run
      /\ \A o \in Run \ {p} : d[o] = c[o]
  BY DEF Cycles, Run
<1>2. Recorded(item)
  BY BoundsType DEF Items, Recorded
<1> HIDE DEF d
<1>3. Entries(d) = Entries(c) \cup {Entry(c, p, <<>>, d[p].order)}
  BY <1>1, <1>2, RunEntryAdded
<1> QED BY <1>1, <1>3 DEF d

\* So does a marker, and so does a migration.
LEMMA MarkEntryOf ==
    ASSUME NEW c \in Cycles, NEW p \in {"void", "archive"}, NEW n \in Nat \ {0}, c[p] = 0
    PROVE  Entries([c EXCEPT ![p] = n]) = Entries(c) \cup {Entry(c, p, <<>>, n)}
<1> DEFINE d == [c EXCEPT ![p] = n]
<1>1. /\ d.id = c.id /\ d.migrations = c.migrations /\ d[p] = n
      /\ \A o \in Run : d[o] = c[o]
      /\ \A o \in {"void", "archive"} \ {p} : d[o] = c[o]
  BY DEF Cycles, Run
<1> HIDE DEF d
<1>2. RunEntries(d) = RunEntries(c)
  BY <1>1 DEF RunEntries, Entry
<1>3. MarkEntries(d) = MarkEntries(c) \cup {Entry(c, p, <<>>, n)}
  <2>1. {q \in {"void", "archive"} : d[q] # 0} = {q \in {"void", "archive"} : c[q] # 0} \cup {p}
    BY <1>1
  <2>2. \A q \in {r \in {"void", "archive"} : c[r] # 0} : d[q] = c[q]
    BY <1>1
  <2> QED BY <1>1, <2>1, <2>2 DEF MarkEntries, Entry
<1>4. MigrationEntries(d) = MigrationEntries(c)
  BY <1>1 DEF MigrationEntries, Entry
<1>5. Entries(d) = Entries(c) \cup {Entry(c, p, <<>>, n)}
  BY <1>2, <1>3, <1>4, EntriesParts
<1> QED BY <1>5 DEF d

\* A migration is appended to those of the cycle, which go on as they are.
LEMMA MigrationsGrow ==
    ASSUME NEW c \in Cycles, NEW m \in Migrations
    PROVE  LET d == [c EXCEPT !.migrations = Append(@, m)]
               n == Len(c.migrations) + 1
           IN /\ DOMAIN d.migrations = DOMAIN c.migrations \cup {n}
              /\ d.migrations[n] = m
              /\ \A k \in DOMAIN c.migrations : d.migrations[k] = c.migrations[k]
<1> DEFINE d == [c EXCEPT !.migrations = Append(@, m)]
<1>1. c.migrations \in Seq(Migrations) /\ d.migrations = Append(c.migrations, m)
  BY DEF Cycles
<1> HIDE DEF d
<1>2. /\ DOMAIN c.migrations = 1..Len(c.migrations)
      /\ Len(c.migrations) \in Nat
      /\ DOMAIN d.migrations = 1..(Len(c.migrations) + 1)
      /\ d.migrations[Len(c.migrations) + 1] = m
      /\ \A k \in 1..Len(c.migrations) : d.migrations[k] = c.migrations[k]
  BY <1>1, AppendProperties
<1>3. 1..(Len(c.migrations) + 1) = (1..Len(c.migrations)) \cup {Len(c.migrations) + 1}
  BY <1>2
<1> QED BY <1>2, <1>3 DEF d

LEMMA MigrationEntryOf ==
    ASSUME NEW c \in Cycles, NEW m \in Migrations
    PROVE  Entries([c EXCEPT !.migrations = Append(@, m)])
               = Entries(c) \cup {Entry(c, "migrate", m.scope, m.order)}
<1> DEFINE d == [c EXCEPT !.migrations = Append(@, m)]
           n == Len(c.migrations) + 1
<1>1. /\ d.id = c.id /\ d.void = c.void /\ d.archive = c.archive
      /\ \A o \in Run : d[o] = c[o]
  BY DEF Cycles, Run
<1>2. /\ DOMAIN d.migrations = DOMAIN c.migrations \cup {n}
      /\ d.migrations[n] = m
      /\ \A k \in DOMAIN c.migrations : d.migrations[k] = c.migrations[k]
  BY MigrationsGrow
<1> HIDE DEF d, n
<1>3. RunEntries(d) = RunEntries(c)
  BY <1>1 DEF RunEntries, Entry
<1>4. MarkEntries(d) = MarkEntries(c)
  BY <1>1 DEF MarkEntries, Entry
<1>5. MigrationEntries(d) = MigrationEntries(c) \cup {Entry(c, "migrate", m.scope, m.order)}
  BY <1>1, <1>2 DEF MigrationEntries, Entry
<1>6. Entries(d) = Entries(c) \cup {Entry(c, "migrate", m.scope, m.order)}
  BY <1>3, <1>4, <1>5, EntriesParts
<1> QED BY <1>6 DEF d

-----------------------------------------------------------------------------
(* The commands                                                            *)

\* What a run leaves is an item.
LEMMA ItemType ==
    ASSUME TypeOK, NEW t \in DOMAIN body, NEW valid \in BOOLEAN,
           Len(log) + 1 \in 1..MaxLog
    PROVE  Item(t, valid) \in Items
BY DEF TypeOK, Item, Items, Text, TextOf

\* A cycle with one more run phase, which the log pairs.
LEMMA RunWritable ==
    ASSUME BaseInv, NEW i \in DOMAIN cycles, NEW p \in {"green", "refactor"}, NEW item \in Items,
           item.order = Len(log) + 1,
           NEW d, d = [cycles[i] EXCEPT ![p] = item],
           Record(cycles[i].id, p, <<>>, [cycles EXCEPT ![i] = d])
    PROVE  /\ cycles[i] \in Cycles /\ ~Recorded(cycles[i][p])
           /\ d \in Cycles /\ Kept(cycles[i], d) /\ Writable(d)
<1>1. cycles[i] \in Cycles /\ cycles[i].id \in 1..MaxLog
  BY CyclesType DEF BaseInv, Cycles
<1>2. p \in Run /\ p \in Phase /\ <<>> \in Scope
  BY DEF Run, Phase, Scope
<1>3. ~Recorded(cycles[i][p])
  BY <1>2, RefusedTwice DEF Record
<1>4. d \in Cycles /\ Kept(cycles[i], d)
  <2>1. CASE p = "green"
    BY <1>1, <1>3, <2>1, PhaseAdded
  <2>2. CASE p = "refactor"
    BY <1>1, <1>3, <2>2, PhaseAdded
  <2> QED BY <2>1, <2>2
<1>5. /\ d.id = cycles[i].id /\ d.void = cycles[i].void /\ d.archive = cycles[i].archive
      /\ d[p] = item
      /\ \A o \in Run \ {p} : d[o] = cycles[i][o]
  BY <1>1 DEF Cycles, Run
<1>6. \A o \in Run : Recorded(d[o]) => PairedIn(log', d, o)
  <2> SUFFICES ASSUME NEW o \in Run, Recorded(d[o])
               PROVE  PairedIn(log', d, o)
    OBVIOUS
  <2>1. CASE o = p
    BY <1>1, <1>2, <1>5, <2>1, LogGrows DEF PairedIn, BaseInv
  <2>2. CASE o # p
    <3>1. PairedIn(log, cycles[i], o)
      BY <1>5, <2>2 DEF BaseInv, RunsPaired
    <3>2. PairedIn(log', cycles[i], o)
      BY <1>1, <1>2, <3>1, LogGrows DEF BaseInv
    <3> QED BY <1>5, <2>2, <3>2 DEF PairedIn
  <2> QED BY <2>1, <2>2
<1> QED BY <1>1, <1>3, <1>4, <1>5, <1>6 DEF Writable, BaseInv, OneMarker

\* A recorded run phase has an order of the log.
LEMMA RunOrders ==
    ASSUME BaseInv, NEW i \in DOMAIN cycles, NEW p \in Run, Recorded(cycles[i][p])
    PROVE  cycles[i][p].order \in 1..Len(log) /\ Len(log) \in Nat
<1>1. Len(log) \in Nat /\ DOMAIN log = 1..Len(log)
  BY DEF BaseInv, TypeOK
<1>2. cycles[i][p].order \in DOMAIN log
  BY DEF BaseInv, RunsPaired, PairedIn
<1> QED BY <1>1, <1>2

\* A Green or a Refactor keeps the invariant.
LEMMA RunKept ==
    ASSUME IInv, NEW i \in DOMAIN cycles, NEW p \in {"green", "refactor"}, NEW item \in Items,
           item.order = Len(log) + 1, item.text = cycles[i].red.text,
           p = "refactor" => cycles[i].green.valid,
           NEW d, d = [cycles[i] EXCEPT ![p] = item],
           Record(cycles[i].id, p, <<>>, [cycles EXCEPT ![i] = d])
    PROVE  IInv' /\ Appending
<1> DEFINE c == cycles[i]
<1>0. BaseInv
  BY DEF IInv
<1>1. /\ c \in Cycles /\ ~Recorded(c[p])
      /\ d \in Cycles /\ Kept(c, d) /\ Writable(d)
  BY <1>0, RunWritable
<1>2. /\ d.red = c.red /\ d[p] = item /\ d.test = c.test
      /\ d.void = c.void /\ d.archive = c.archive /\ d.migrations = c.migrations
      /\ p = "green" => d.refactor = c.refactor
      /\ p = "refactor" => d.green = c.green
  BY <1>1 DEF Cycles
<1>3. Entries(d) = Entries(c) \cup {Entry(c, p, <<>>, Len(log) + 1)}
  <2>1. Entries([c EXCEPT ![p] = item]) = Entries(c) \cup {Entry(c, p, <<>>, item.order)}
    BY <1>1, RunEntryOf
  <2> QED BY <2>1
<1>4. SoundCycle(c) /\ (c.void # 0 => StandsIn(cycles, i, c.void))
  BY DEF IInv, SoundCycles
<1>5. SoundCycle(d)
  <2>1. Relinks(d) = Relinks(c)
    BY <1>2 DEF Relinks
  <2>2. CASE p = "green"
    <3>1. c.red.order < item.order
      BY <1>0, <1>1, PassedIsRecorded, RunOrders DEF Run
    <3>2. ~c.green.valid
      BY <1>1, <2>2, PassedIsRecorded
    <3>3. ~Recorded(d.refactor) /\ DOMAIN d.migrations = {}
      BY <1>2, <1>4, <2>2, <3>2 DEF SoundCycle
    <3> QED BY <1>2, <2>2, <3>1, <3>3 DEF SoundCycle
  <2>3. CASE p = "refactor"
    <3>1. Recorded(c.green) /\ c.green.order < item.order
      BY <1>0, <1>1, <2>3, PassedIsRecorded, RunOrders DEF Run
    <3> QED BY <1>2, <1>4, <2>1, <2>3, <3>1 DEF SoundCycle
  <2> QED BY <2>2, <2>3
<1>6. Grown(i, d, Entry(c, p, <<>>, Len(log) + 1))
  BY <1>1, <1>2, <1>3, <1>4, <1>5 DEF Grown, Marked
<1>7. p \in Phase /\ <<>> \in Scope
  BY DEF Phase, Run, Scope
<1> QED BY <1>1, <1>6, <1>7, GrowthKeeps

\* A cycle whose run phases stay may be written with the record of a marker
\* or a migration.
LEMMA MarkWritable ==
    ASSUME BaseInv, NEW i \in DOMAIN cycles, NEW p \in {"void", "archive", "migrate"},
           NEW scope \in Scope, NEW d \in Cycles,
           Kept(cycles[i], d), d.void = 0 \/ d.archive = 0,
           \A o \in Run : d[o] = cycles[i][o],
           NEW recorded, Record(cycles[i].id, p, scope, recorded)
    PROVE  Writable(d)
<1>1. cycles[i] \in Cycles /\ cycles[i].id \in 1..MaxLog /\ p \in Phase
  BY CyclesType DEF BaseInv, Cycles, Phase
<1>2. \A o \in Run : Recorded(d[o]) => PairedIn(log', d, o)
  <2> SUFFICES ASSUME NEW o \in Run, Recorded(d[o])
               PROVE  PairedIn(log', d, o)
    OBVIOUS
  <2>1. PairedIn(log, cycles[i], o)
    BY DEF BaseInv, RunsPaired
  <2>2. PairedIn(log', cycles[i], o)
    BY <1>1, <2>1, LogGrows DEF BaseInv
  <2> QED BY <2>2 DEF PairedIn, Kept
<1> QED BY <1>2 DEF Writable

\* A marker of the latest cycle of a test.
LEMMA MarkKept ==
    ASSUME IInv, NEW i \in DOMAIN cycles, NEW p \in {"void", "archive"},
           ~Marked(cycles[i]),
           \A k \in DOMAIN cycles : k > i => cycles[k].test # cycles[i].test,
           p = "void" => StandsIn(cycles, i, Len(log) + 1),
           NEW d, d = [cycles[i] EXCEPT ![p] = Len(log) + 1],
           Record(cycles[i].id, p, <<>>, [cycles EXCEPT ![i] = d])
    PROVE  IInv' /\ Appending
<1> DEFINE c == cycles[i]
           n == Len(log) + 1
<1>0. BaseInv /\ c.void = 0 /\ c.archive = 0
  BY DEF IInv, Marked
<1>1. c \in Cycles /\ n \in 1..MaxLog /\ n \in 0..MaxLog /\ n \in Nat \ {0}
  BY <1>0, BoundsType, CyclesType DEF Record, BaseInv, TypeOK
<1>2. /\ d.red = c.red /\ d.green = c.green /\ d.refactor = c.refactor
      /\ d.test = c.test /\ d.migrations = c.migrations
      /\ d[p] = n
      /\ p = "void" => d.archive = c.archive
      /\ p = "archive" => d.void = c.void
  BY <1>1 DEF Cycles
<1>3. d \in Cycles /\ Kept(c, d)
  <2>1. CASE p = "void"
    BY <1>0, <1>1, <2>1, MarkerAdded
  <2>2. CASE p = "archive"
    BY <1>0, <1>1, <2>2, MarkerAdded
  <2> QED BY <2>1, <2>2
<1>4. Entries(d) = Entries(c) \cup {Entry(c, p, <<>>, n)}
  <2>1. Entries([c EXCEPT ![p] = n]) = Entries(c) \cup {Entry(c, p, <<>>, n)}
    BY <1>0, <1>1, MarkEntryOf
  <2> QED BY <2>1
<1>5. SoundCycle(d)
  <2>1. SoundCycle(c)
    BY DEF IInv, SoundCycles
  <2>2. Relinks(d) = Relinks(c)
    BY <1>2 DEF Relinks
  <2> QED BY <1>2, <2>1, <2>2 DEF SoundCycle
<1>6. d.void # 0 => StandsIn(cycles, i, d.void)
  BY <1>0, <1>2
<1>7. Grown(i, d, Entry(c, p, <<>>, n))
  BY <1>2, <1>3, <1>4, <1>5, <1>6 DEF Grown
<1>8. p \in Phase /\ <<>> \in Scope /\ (d.void = 0 \/ d.archive = 0)
  BY <1>0, <1>2 DEF Phase, Scope
<1>9. Writable(d)
  <2>1. \A o \in Run : d[o] = c[o]
    BY <1>2 DEF Run
  <2> QED BY <1>0, <1>3, <1>8, <2>1, MarkWritable
<1> QED BY <1>3, <1>7, <1>8, <1>9, GrowthKeeps

\* The records of the chain belong to the cycle they name.
LEMMA ChainOfCycle ==
    ASSUME IInv, NEW i \in DOMAIN cycles, NEW k \in DOMAIN chain, chain[k].cycle = cycles[i].id
    PROVE  chain[k] \in Entries(cycles[i])
<1>1. PICK j \in DOMAIN cycles : chain[k] \in Entries(cycles[j])
  BY DEF IInv, ChainPaired, AllEntries
<1>2. chain[k].cycle = cycles[j].id
  BY <1>1, EntriesParts DEF RunEntries, MarkEntries, MigrationEntries, Entry
<1> QED BY <1>1, <1>2 DEF IInv, IdsUnique

\* A cycle is relinked once, also where a relink lost its second write.
LEMMA RelinkIsFresh ==
    ASSUME IInv, NEW i \in DOMAIN cycles, Relinks(cycles[i]) = {},
           NEW scope, scope # <<>>, NEW k \in DOMAIN chain
    PROVE  RecordOf(chain[k]) # [cycle |-> cycles[i].id, phase |-> "migrate", scope |-> scope]
<1> DEFINE c == cycles[i]
<1> SUFFICES ASSUME RecordOf(chain[k]) = [cycle |-> c.id, phase |-> "migrate", scope |-> scope]
             PROVE  FALSE
  OBVIOUS
<1>1. chain[k].cycle = c.id /\ chain[k].phase = "migrate" /\ chain[k].scope = scope
  BY DEF RecordOf
<1>2. chain[k] \in Entries(c)
  BY <1>1, ChainOfCycle
<1>3. chain[k] \in MigrationEntries(c)
  BY <1>1, <1>2, EntriesParts DEF RunEntries, MarkEntries, Entry, Run
<1> QED BY <1>1, <1>3 DEF MigrationEntries, Entry, Relinks

\* A migration keeps the invariant.
LEMMA MigrationKept ==
    ASSUME IInv, NEW i \in DOMAIN cycles, NEW m \in Migrations, cycles[i].green.valid,
           m.order = Len(log) + 1,
           m.scope = <<>> => m.text = cycles[i].red.text,
           m.scope # <<>> => Relinks(cycles[i]) = {},
           NEW d, d = [cycles[i] EXCEPT !.migrations = Append(@, m)],
           Record(cycles[i].id, "migrate", m.scope, [cycles EXCEPT ![i] = d])
    PROVE  IInv' /\ Appending
<1> DEFINE c == cycles[i]
           n == Len(c.migrations) + 1
<1>0. BaseInv /\ c \in Cycles /\ m.scope \in Scope /\ "migrate" \in Phase
  BY CyclesType DEF IInv, BaseInv, Migrations, Phase
<1>1. d \in Cycles /\ Kept(c, d)
  BY <1>0, MigrationAdded
<1>2. /\ d.red = c.red /\ d.green = c.green /\ d.refactor = c.refactor
      /\ d.test = c.test /\ d.void = c.void /\ d.archive = c.archive
  BY <1>0 DEF Cycles
<1>3. /\ DOMAIN d.migrations = DOMAIN c.migrations \cup {n}
      /\ d.migrations[n] = m
      /\ \A k \in DOMAIN c.migrations : d.migrations[k] = c.migrations[k]
  BY <1>0, MigrationsGrow
<1>4. Entries(d) = Entries(c) \cup {Entry(c, "migrate", m.scope, Len(log) + 1)}
  <2>1. Entries([c EXCEPT !.migrations = Append(@, m)])
            = Entries(c) \cup {Entry(c, "migrate", m.scope, m.order)}
    BY <1>0, MigrationEntryOf
  <2> QED BY <2>1
<1>5. SoundCycle(c) /\ (c.void # 0 => StandsIn(cycles, i, c.void))
  BY DEF IInv, SoundCycles
<1> HIDE DEF n
<1>6. SoundCycle(d)
  <2>1. c.green.order < m.order
    BY <1>0, PassedIsRecorded, RunOrders DEF Run
  <2>2. \A k \in DOMAIN d.migrations : /\ d.green.valid
                                       /\ d.green.order < d.migrations[k].order
    BY <1>2, <1>3, <1>5, <2>1 DEF SoundCycle
  <2>3. ASSUME Relinks(d) = {}
        PROVE  \A k \in DOMAIN d.migrations : d.migrations[k].text = d.red.text
    <3>1. Relinks(c) = {} /\ m.scope = <<>>
      BY <1>3, <2>3 DEF Relinks
    <3> QED BY <1>2, <1>3, <1>5, <3>1 DEF SoundCycle
  <2> QED BY <1>2, <1>5, <2>2, <2>3 DEF SoundCycle
<1>7. Grown(i, d, Entry(c, "migrate", m.scope, Len(log) + 1))
  BY <1>1, <1>2, <1>4, <1>5, <1>6 DEF Grown, Marked
<1>8. Writable(d)
  <2>1. /\ d.void = 0 \/ d.archive = 0
        /\ \A o \in Run : d[o] = c[o]
    BY <1>0, <1>2 DEF Run, BaseInv, OneMarker
  <2> QED BY <1>0, <1>1, <2>1, MarkWritable
<1>9. m.scope # <<>> =>
          \A k \in DOMAIN chain :
             RecordOf(chain[k]) # [cycle |-> c.id, phase |-> "migrate", scope |-> m.scope]
  BY RelinkIsFresh
<1> QED BY <1>0, <1>1, <1>7, <1>8, <1>9, GrowthKeeps

\* A new Red makes a new cycle behind the others.
LEMMA RedKept ==
    ASSUME IInv, NEW t \in Test, NEW q \in Req, NEW failed \in BOOLEAN,
           RecordRed(t, q, failed)
    PROVE  IInv' /\ Appending
<1> DEFINE n == Len(log) + 1
           c == [id |-> n, test |-> t, req |-> q, red |-> Item(t, failed),
                 green |-> Unrecorded, refactor |-> Unrecorded,
                 migrations |-> <<>>, void |-> 0, archive |-> 0]
           recorded == Append(cycles, c)
           entry == [cycle |-> n, phase |-> "red", scope |-> <<>>, order |-> n]
<1>0. BaseInv
  BY DEF IInv
<1>1. Record(n, "red", <<>>, recorded) /\ t \in DOMAIN body
  BY DEF RecordRed
<1>2. /\ n \in 1..MaxLog /\ "red" \in Phase /\ <<>> \in Scope
      /\ Len(log) \in Nat /\ DOMAIN log = 1..Len(log)
  <2>1. Len(log) \in Nat /\ Len(log) < MaxLog /\ DOMAIN log = 1..Len(log)
    BY <1>0, <1>1 DEF Record, BaseInv, TypeOK
  <2> QED BY <2>1, BoundsType DEF Phase, Run, Scope
<1>3. c \in Cycles
  <2>1. Item(t, failed) \in Items
    BY <1>0, <1>1, <1>2, ItemType DEF BaseInv
  <2>2. <<>> \in Seq(Migrations) /\ 0 \in 0..MaxLog
    BY BoundsType
  <2> QED BY <1>2, <2>1, <2>2 DEF Cycles
<1>4. /\ c.id = n /\ c.void = 0 /\ c.archive = 0 /\ c.migrations = <<>>
      /\ c.red.order = n /\ ~Recorded(c.green) /\ ~Recorded(c.refactor)
  BY DEF Item, Recorded, Unrecorded
<1>5. Writable(c)
  <2>1. PairedIn(log', c, "red")
    BY <1>0, <1>1, <1>2, LogGrows DEF BaseInv, PairedIn, Item
  <2>2. \A p \in Run \ {"red"} : ~Recorded(c[p])
    BY <1>4 DEF Run
  <2> QED BY <1>3, <1>4, <2>1, <2>2 DEF Writable
<1>6. \A i \in DOMAIN cycles : Writable(cycles[i])
  BY <1>0, <1>1, <1>2, LogGrows, CyclesType DEF BaseInv, Writable, OneMarker, RunsPaired
<1> HIDE DEF c
<1>7. /\ recorded \in Seq(Cycles)
      /\ DOMAIN recorded = 1..(Len(cycles) + 1)
      /\ recorded[Len(cycles) + 1] = c
      /\ \A i \in DOMAIN cycles : recorded[i] = cycles[i]
      /\ DOMAIN cycles = 1..Len(cycles) /\ Len(cycles) \in Nat
  BY <1>0, <1>3, CyclesType, AppendProperties DEF BaseInv
<1>8. /\ \A i \in DOMAIN recorded : i = Len(cycles) + 1 \/ i \in DOMAIN cycles
      /\ \A i \in DOMAIN cycles : i \in DOMAIN recorded
  BY <1>7
<1> HIDE DEF recorded
<1>9. Extending(recorded)
  <2>1. \A i \in DOMAIN cycles : Kept(cycles[i], recorded[i])
    BY <1>7 DEF Kept
  <2>2. \A i \in DOMAIN recorded : Writable(recorded[i])
    BY <1>5, <1>6, <1>7, <1>8
  <2> QED BY <1>7, <1>8, <2>1, <2>2 DEF Extending
<1>10. AllEntries(recorded) = AllEntries(cycles) \cup {entry}
  <2>1. Entries(c) = {entry}
    <3>1. {p \in Run : Recorded(c[p])} = {"red"}
      BY <1>2, <1>4 DEF Run, Recorded
    <3>2. RunEntries(c) = {entry}
      BY <1>4, <3>1 DEF RunEntries, Entry
    <3>3. MarkEntries(c) = {}
      BY <1>4 DEF MarkEntries
    <3>4. MigrationEntries(c) = {}
      BY <1>4 DEF MigrationEntries
    <3> QED BY <3>2, <3>3, <3>4, EntriesParts
  <2> HIDE DEF entry
  <2>2. ASSUME NEW e \in AllEntries(recorded)
        PROVE  e \in AllEntries(cycles) \cup {entry}
    BY <1>7, <1>8, <2>1 DEF AllEntries
  <2>3. ASSUME NEW e \in AllEntries(cycles)
        PROVE  e \in AllEntries(recorded)
    BY <1>7, <1>8 DEF AllEntries
  <2>4. entry \in AllEntries(recorded)
    BY <1>7, <2>1 DEF AllEntries
  <2> QED BY <2>2, <2>3, <2>4
<1>11. /\ \A i \in DOMAIN recorded : recorded[i].id \in 1..n
       /\ IdsUnique(recorded)
  <2>1. \A i \in DOMAIN cycles : cycles[i].id \in 1..Len(log)
    BY <1>2 DEF IInv, NamedByOrder
  <2> QED BY <1>2, <1>4, <1>7, <1>8, <2>1 DEF IInv, IdsUnique
<1>12. SoundCycles(recorded)
  <2>1. SoundCycle(c)
    BY <1>4 DEF SoundCycle
  <2>2. ASSUME NEW i \in DOMAIN cycles, cycles[i].void # 0
        PROVE  StandsIn(recorded, i, cycles[i].void)
    <3>1. StandsIn(cycles, i, cycles[i].void)
      BY <2>2 DEF IInv, SoundCycles
    <3>2. \A j \in 1..(i - 1) : recorded[j] = cycles[j]
      BY <1>7
    <3> QED BY <1>7, <3>1, <3>2 DEF StandsIn
  <2> QED BY <1>4, <1>7, <1>8, <2>1, <2>2 DEF IInv, SoundCycles
<1>13. Fitting(recorded, entry)
  BY <1>9, <1>10, <1>11, <1>12 DEF Fitting
<1>14. \A i \in DOMAIN chain : RecordOf(chain[i]) # RecordOf(entry)
  BY <1>1, <1>2, FreshInChain DEF RecordOf
<1> QED BY <1>1, <1>2, <1>13, <1>14, RecordFits

\* The commands one by one.
LEMMA GreenKept ==
    ASSUME IInv, NEW t \in Test, NEW q \in Req, NEW passed \in BOOLEAN,
           RecordGreen(t, q, passed)
    PROVE  IInv' /\ Appending
<1> DEFINE i == Previous(t, q)
           valid == passed /\ cycles[i].red.source # source
           d == [cycles[i] EXCEPT !.green = Item(t, valid)]
<1>1. i \in DOMAIN cycles /\ t \in DOMAIN body /\ cycles[i].red.text = TextOf(t)
  BY PreviousIsRecorded DEF RecordGreen, Continues, IInv, BaseInv
<1>2. Record(cycles[i].id, "green", <<>>, [cycles EXCEPT ![i] = d])
  BY DEF RecordGreen
<1>3. /\ Item(t, valid) \in Items
      /\ Item(t, valid).order = Len(log) + 1
      /\ Item(t, valid).text = cycles[i].red.text
  <2>1. Len(log) + 1 \in 1..MaxLog
    BY <1>2, BoundsType DEF Record, IInv, BaseInv, TypeOK
  <2> QED BY <1>1, <2>1, ItemType DEF IInv, BaseInv, Item
<1> HIDE DEF i, valid
<1> QED BY <1>1, <1>2, <1>3, RunKept

LEMMA RefactorKept ==
    ASSUME IInv, NEW t \in Test, NEW q \in Req, NEW passed \in BOOLEAN,
           RecordRefactor(t, q, passed)
    PROVE  IInv' /\ Appending
<1> DEFINE i == Previous(t, q)
           d == [cycles[i] EXCEPT !.refactor = Item(t, passed)]
<1>1. /\ i \in DOMAIN cycles /\ t \in DOMAIN body
      /\ cycles[i].red.text = TextOf(t) /\ cycles[i].green.valid
  BY PreviousIsRecorded DEF RecordRefactor, Continues, IInv, BaseInv
<1>2. Record(cycles[i].id, "refactor", <<>>, [cycles EXCEPT ![i] = d])
  BY DEF RecordRefactor
<1>3. /\ Item(t, passed) \in Items
      /\ Item(t, passed).order = Len(log) + 1
      /\ Item(t, passed).text = cycles[i].red.text
  <2>1. Len(log) + 1 \in 1..MaxLog
    BY <1>2, BoundsType DEF Record, IInv, BaseInv, TypeOK
  <2> QED BY <1>1, <2>1, ItemType DEF IInv, BaseInv, Item
<1> HIDE DEF i
<1> QED BY <1>1, <1>2, <1>3, RunKept

LEMMA VoidKept ==
    ASSUME IInv, NEW t \in Test, Void(t)
    PROVE  IInv' /\ Appending
<1> DEFINE i == Latest(t)
           d == [cycles[i] EXCEPT !.void = Len(log) + 1]
<1>1. /\ i \in DOMAIN cycles /\ ~Marked(cycles[i])
      /\ cycles[i].test = t
      /\ \A k \in DOMAIN cycles : k > i => cycles[k].test # cycles[i].test
  BY LatestIsLast DEF Void, IInv, BaseInv
<1>2. Record(cycles[i].id, "void", <<>>, [cycles EXCEPT ![i] = d])
  BY DEF Void
<1>3. StandsIn(cycles, i, Len(log) + 1)
  <2>1. PICK j \in 1..(i - 1) : cycles[j].test = t /\ Green(cycles[j]) /\ ~Marked(cycles[j])
    BY DEF Void
  <2>2. j \in DOMAIN cycles /\ cycles[j] \in Cycles
    BY <1>1, CyclesType DEF IInv, BaseInv
  <2>3. cycles[j].green.order < Len(log) + 1
    BY <2>1, <2>2, PassedIsRecorded, RunOrders DEF IInv, Green, Run
  <2> QED BY <1>1, <2>1, <2>3 DEF StandsIn
<1> HIDE DEF i
<1> QED BY <1>1, <1>2, <1>3, MarkKept

LEMMA ArchiveKept ==
    ASSUME IInv, NEW t \in Test, Archive(t)
    PROVE  IInv' /\ Appending
<1> DEFINE i == Latest(t)
           d == [cycles[i] EXCEPT !.archive = Len(log) + 1]
<1>1. /\ i \in DOMAIN cycles /\ ~Marked(cycles[i])
      /\ \A k \in DOMAIN cycles : k > i => cycles[k].test # cycles[i].test
  BY LatestIsLast DEF Archive, IInv, BaseInv
<1>2. Record(cycles[i].id, "archive", <<>>, [cycles EXCEPT ![i] = d])
  BY DEF Archive
<1> HIDE DEF i
<1> QED BY <1>1, <1>2, MarkKept

LEMMA FingerprintMigrationKept ==
    ASSUME IInv, NEW t \in Test, MigrateFingerprint(t)
    PROVE  IInv' /\ Appending
<1> DEFINE i == Target(t)
           m == Migration(<<>>, TextOf(t))
           d == [cycles[i] EXCEPT !.migrations = <<m>>]
<1>1. /\ i \in DOMAIN cycles /\ cycles[i].migrations = <<>> /\ t \in DOMAIN body
      /\ cycles[i].green.valid /\ EffectiveText(cycles[i]) = TextOf(t)
  BY TargetIsRecorded DEF MigrateFingerprint, Migratable, IInv, BaseInv
<1>2. Record(cycles[i].id, "migrate", <<>>, [cycles EXCEPT ![i] = d])
  BY DEF MigrateFingerprint
<1>3. cycles[i] \in Cycles /\ <<>> \in Scope
  BY <1>1, CyclesType DEF IInv, BaseInv, Scope
<1>4. m \in Migrations /\ m.scope = <<>> /\ m.order = Len(log) + 1 /\ m.text = TextOf(t)
  BY <1>1, <1>2, <1>3, BoundsType
     DEF Migration, Migrations, Record, IInv, BaseInv, TypeOK, TextOf, Text
<1>5. TextOf(t) = cycles[i].red.text
  <2>1. SoundCycle(cycles[i])
    BY <1>1 DEF IInv, SoundCycles
  <2> QED BY <1>1, <1>3, <2>1, PassedIsRecorded DEF EffectiveText, SoundCycle
<1> HIDE DEF i, m
<1>6. d = [cycles[i] EXCEPT !.migrations = Append(@, m)]
  BY <1>1
<1>7. Record(cycles[i].id, "migrate", m.scope, [cycles EXCEPT ![i] = d])
  BY <1>2, <1>4
<1> HIDE DEF d
<1> QED BY <1>1, <1>4, <1>5, <1>6, <1>7, MigrationKept

LEMMA RelinkKept ==
    ASSUME IInv, NEW old \in Test, NEW new \in Test, Relink(old, new)
    PROVE  IInv' /\ Appending
<1> DEFINE i == Target(old)
           m == Migration(<<old, new>>, TextOf(new))
           d == [cycles[i] EXCEPT !.migrations = Append(@, m)]
<1>1. /\ i \in DOMAIN cycles /\ new \in DOMAIN body
      /\ cycles[i].green.valid /\ Relinks(cycles[i]) = {}
  BY TargetIsRecorded DEF Relink, Migratable, IInv, BaseInv
<1>2. Record(cycles[i].id, "migrate", <<old, new>>, [cycles EXCEPT ![i] = d])
  BY DEF Relink
<1>3. <<old, new>> \in Scope /\ <<old, new>> # <<>>
  BY DEF Scope
<1>4. m \in Migrations /\ m.scope = <<old, new>> /\ m.order = Len(log) + 1
  BY <1>1, <1>2, <1>3, BoundsType
     DEF Migration, Migrations, Record, IInv, BaseInv, TypeOK, TextOf, Text
<1>5. Record(cycles[i].id, "migrate", m.scope, [cycles EXCEPT ![i] = d])
  BY <1>2, <1>4
<1> HIDE DEF i, m
<1> QED BY <1>1, <1>3, <1>4, <1>5, MigrationKept

\* The developer touches no evidence.
LEMMA DeveloperKeeps ==
    ASSUME BaseInv,
           \/ EditSource
           \/ \E t \in Test : EditTest(t)
           \/ \E old, new \in Test : Rename(old, new)
    PROVE  BaseInv' /\ UNCHANGED <<log, evidence>>
<1> DEFINE WorkTreeOK == /\ DOMAIN body \subseteq Test /\ body \in [DOMAIN body -> Body]
                         /\ source \in Source
<1>1. UNCHANGED <<log, evidence>>
  BY DEF EditSource, EditTest, Rename
<1>2. WorkTreeOK'
  <2>0. WorkTreeOK
    BY DEF BaseInv, TypeOK
  <2>1. CASE EditSource
    BY <2>0, <2>1, BoundsType DEF EditSource, Source
  <2>2. ASSUME NEW t \in Test, EditTest(t)
        PROVE  WorkTreeOK'
    BY <2>0, <2>2, BoundsType DEF EditTest, Body
  <2>3. ASSUME NEW old \in Test, NEW new \in Test, Rename(old, new)
        PROVE  WorkTreeOK'
    BY <2>0, <2>3 DEF Rename
  <2> QED BY <2>1, <2>2, <2>3
<1>3. TypeOK'
  BY <1>1, <1>2 DEF BaseInv, TypeOK, evidence
<1> QED BY <1>1, <1>3 DEF BaseInv, OneMarker, RunsPaired, evidence

-----------------------------------------------------------------------------
(* The invariant holds                                                     *)

\* The initial state.
LEMMA BaseInitHolds == Init => BaseInv
<1> SUFFICES ASSUME Init PROVE BaseInv
  OBVIOUS
<1>1. TypeOK
  BY FirstTestAssumption, BoundsType DEF Init, TypeOK
<1>2. OneMarker /\ RunsPaired
  BY DEF Init, OneMarker, RunsPaired
<1> QED BY <1>1, <1>2 DEF BaseInv

LEMMA InitHolds == Init => IInv
<1> SUFFICES ASSUME Init PROVE IInv
  OBVIOUS
<1>1. BaseInv
  BY BaseInitHolds
<1>2. log = <<>> /\ cycles = <<>> /\ chain = <<>>
  BY DEF Init
<1>3. LogOrdered /\ IdsUnique(cycles) /\ NamedByOrder /\ SoundCycles(cycles)
  BY <1>2 DEF LogOrdered, IdsUnique, NamedByOrder, SoundCycles
<1>4. ChainPaired
  BY <1>2 DEF ChainPaired, AllEntries
<1> QED BY <1>1, <1>3, <1>4 DEF IInv

\* The invariant is about the evidence alone.
LEMMA EvidenceUnchanged ==
    ASSUME IInv, BaseInv', UNCHANGED <<log, evidence>>
    PROVE  IInv'
BY DEF IInv, LogOrdered, NamedByOrder, ChainPaired, evidence

\* Every step keeps the invariant and what was recorded.
LEMMA StepKeeps ==
    ASSUME IInv, [Next]_vars
    PROVE  IInv' /\ (Appending \/ UNCHANGED <<log, evidence>>)
<1>0. BaseInv
  BY DEF IInv
<1>1. CASE UNCHANGED vars
  <2>1. UNCHANGED <<log, evidence>>
    BY <1>1 DEF vars
  <2>2. BaseInv'
    BY <1>0, <1>1 DEF vars, tree, evidence, BaseInv, TypeOK, OneMarker, RunsPaired
  <2> QED BY <2>1, <2>2, EvidenceUnchanged
<1>2. ASSUME NEW t \in Test, NEW q \in Req, NEW observed \in BOOLEAN,
             \/ RecordRed(t, q, observed)
             \/ RecordGreen(t, q, observed)
             \/ RecordRefactor(t, q, observed)
      PROVE  IInv' /\ Appending
  BY <1>2, RedKept, GreenKept, RefactorKept
<1>3. ASSUME NEW t \in Test, MigrateFingerprint(t) \/ Void(t) \/ Archive(t)
      PROVE  IInv' /\ Appending
  BY <1>3, FingerprintMigrationKept, VoidKept, ArchiveKept
<1>4. ASSUME NEW old \in Test, NEW new \in Test, Relink(old, new)
      PROVE  IInv' /\ Appending
  BY <1>4, RelinkKept
<1>5. CASE \/ EditSource
           \/ \E t \in Test : EditTest(t)
           \/ \E old, new \in Test : Rename(old, new)
  BY <1>0, <1>5, DeveloperKeeps, EvidenceUnchanged
<1> QED BY <1>1, <1>2, <1>3, <1>4, <1>5 DEF Next

\* The invariant holds throughout.
THEOREM Inductive == Spec => []IInv
<1>1. IInv /\ [Next]_vars => IInv'
  BY StepKeeps
<1> QED BY InitHolds, <1>1, PTL DEF Spec

-----------------------------------------------------------------------------
(* What the validator finds                                                *)

\* The chain has no diagnostics, whatever was interrupted.
LEMMA ChainIsSound ==
    ASSUME IInv
    PROVE  ChainSound
<1> DEFINE n == Len(chain)
           f == [i \in 1..n |-> [chain[i] EXCEPT !.order = 0]]
<1>1. /\ n \in Nat /\ DOMAIN chain = 1..n
      /\ \A i \in 1..n :
            chain[i] \in [cycle : 1..MaxLog, phase : Phase, scope : Scope, order : 1..MaxLog]
  <2> DEFINE Rec == [cycle : 1..MaxLog, phase : Phase, scope : Scope, order : 1..MaxLog]
  <2>1. chain \in Seq(Rec)
    BY DEF IInv, BaseInv, TypeOK
  <2> HIDE DEF Rec
  <2>2. n \in Nat /\ DOMAIN chain = 1..n /\ \A i \in 1..n : chain[i] \in Rec
    BY <2>1
  <2> QED BY <2>2 DEF Rec
<1>2. ASSUME NEW i \in 1..n, NEW j \in 1..n, f[i] = f[j]
      PROVE  i = j
  <2>1. [chain[i] EXCEPT !.order = 0] = [chain[j] EXCEPT !.order = 0]
    BY <1>2
  <2>2. RecordOf(chain[i]) = RecordOf(chain[j])
    BY <1>1, <2>1 DEF RecordOf
  <2> QED BY <1>1, <2>2 DEF IInv, ChainPaired
<1>3. /\ f = [i \in 1..n |-> f[i]]
      /\ {f[i] : i \in 1..n} = {[chain[i] EXCEPT !.order = 0] : i \in DOMAIN chain}
  BY <1>1
<1> HIDE DEF f
<1>4. Cardinality({f[i] : i \in 1..n}) = n
  BY <1>1, <1>2, <1>3, CountsNames
<1> QED BY <1>3, <1>4 DEF ChainSound, IInv, ChainPaired, AllEntries

\* An entry of a cycle is once in the chain, and the log has its record.
LEMMA EntryInFiles ==
    ASSUME IInv, NEW i \in DOMAIN cycles, NEW e \in Entries(cycles[i])
    PROVE  /\ \E k \in DOMAIN chain :
                 chain[k] = e /\ {j \in DOMAIN chain : RecordOf(chain[j]) = RecordOf(e)} = {k}
           /\ e.order \in DOMAIN log /\ log[e.order] = RecordOf(e)
<1>1. PICK k \in DOMAIN chain : chain[k] = e
  BY DEF IInv, ChainPaired, AllEntries
<1>2. \A j \in DOMAIN chain : RecordOf(chain[j]) = RecordOf(e) => j = k
  BY <1>1 DEF IInv, ChainPaired
<1> QED BY <1>1, <1>2 DEF IInv, ChainPaired

\* While the log is valid, every entry but that of a relink is linked.
LEMMA EntryLinked ==
    ASSUME IInv, LogValid, NEW i \in DOMAIN cycles, NEW e \in Entries(cycles[i]), e.scope = <<>>
    PROVE  Linked(e)
<1>1. PICK k \in DOMAIN chain :
          chain[k] = e /\ {j \in DOMAIN chain : RecordOf(chain[j]) = RecordOf(e)} = {k}
  BY EntryInFiles
<1>2. e.order \in DOMAIN log /\ log[e.order] = RecordOf(e)
  BY EntryInFiles
<1>3. IndexKey(log[e.order]) = Key(e.cycle, e.phase, <<>>)
  BY <1>2 DEF RecordOf, IndexKey
<1>4. Indexed(Key(e.cycle, e.phase, e.scope), e.order)
  <2>1. \A j \in DOMAIN log : IndexKey(log[j]) = IndexKey(log[e.order]) => j = e.order
    BY <1>2, ValidLog DEF IInv, BaseInv
  <2>2. e.order <= e.order
    <3>1. DOMAIN log = 1..Len(log)
      BY DEF IInv, BaseInv, TypeOK
    <3> QED BY <1>2, <3>1
  <2> QED BY <1>2, <1>3, <2>1, <2>2 DEF Indexed
<1>5. {j \in DOMAIN chain : /\ chain[j].cycle = e.cycle
                            /\ chain[j].phase = e.phase
                            /\ chain[j].scope = e.scope} = {k}
  BY <1>1 DEF RecordOf
<1>6. Cardinality({k}) = 1
  BY FS_Singleton
<1> QED BY <1>1, <1>4, <1>5, <1>6 DEF Linked

\* A marker is an entry of its cycle.
LEMMA MarkerEntries ==
    ASSUME NEW c, NEW p \in {"void", "archive"}, c[p] # 0
    PROVE  Entry(c, p, <<>>, c[p]) \in Entries(c)
BY EntriesParts DEF MarkEntries

\* A marker that is recorded counts, while the log is valid.
LEMMA MarkersCount ==
    ASSUME IInv, LogValid, NEW i \in DOMAIN cycles
    PROVE  /\ VoidValid(cycles[i]) <=> cycles[i].void # 0
           /\ ArchiveValid(cycles[i]) <=> cycles[i].archive # 0
<1>1. cycles[i].void # 0 => Linked(Entry(cycles[i], "void", <<>>, cycles[i].void))
  <2> DEFINE e == Entry(cycles[i], "void", <<>>, cycles[i].void)
  <2>1. e.scope = <<>>
    BY DEF Entry
  <2>2. cycles[i].void # 0 => e \in Entries(cycles[i])
    BY MarkerEntries
  <2> QED BY <2>1, <2>2, EntryLinked
<1>2. cycles[i].archive # 0 => Linked(Entry(cycles[i], "archive", <<>>, cycles[i].archive))
  <2> DEFINE e == Entry(cycles[i], "archive", <<>>, cycles[i].archive)
  <2>1. e.scope = <<>>
    BY DEF Entry
  <2>2. cycles[i].archive # 0 => e \in Entries(cycles[i])
    BY MarkerEntries
  <2> QED BY <2>1, <2>2, EntryLinked
<1> QED BY <1>1, <1>2 DEF VoidValid, ArchiveValid

\* Run phases are found in the index even when a relink spoilt the log.
LEMMA RunsMatch ==
    ASSUME IInv, NEW i \in DOMAIN cycles
    PROVE  ~RunMismatched(cycles[i]) /\ ~RunInverted(cycles[i])
<1> DEFINE c == cycles[i]
<1>0. /\ BaseInv /\ c \in Cycles /\ SoundCycle(c)
      /\ DOMAIN log = 1..Len(log) /\ Len(log) \in Nat
  BY CyclesType DEF IInv, BaseInv, SoundCycles, TypeOK
<1>1. ASSUME NEW p \in Run, Recorded(c[p])
      PROVE  Indexed(Key(c.id, p, <<>>), c[p].order)
  <2>1. c[p].order \in DOMAIN log /\ log[c[p].order] = [cycle |-> c.id, phase |-> p, scope |-> <<>>]
    BY <1>0, <1>1 DEF BaseInv, RunsPaired, PairedIn
  <2>2. IndexKey(log[c[p].order]) = Key(c.id, p, <<>>)
    BY <2>1 DEF IndexKey
  <2>3. ASSUME NEW j \in DOMAIN log, IndexKey(log[j]) = Key(c.id, p, <<>>), c[p].order < j
        PROVE  FALSE
    <3>1. log[j].scope # <<>>
      BY <2>1, <2>2, <2>3 DEF IInv, LogOrdered
    <3>2. log[j].phase = "migrate"
      BY <3>1 DEF IInv, LogOrdered
    <3>3. <<log[j].cycle, log[j].phase>> = <<c.id, p>>
      BY <2>3, KeyFields DEF IndexKey
    <3> QED BY <3>2, <3>3 DEF Run
  <2>4. \A j \in DOMAIN log : IndexKey(log[j]) = Key(c.id, p, <<>>) => j <= c[p].order
    BY <1>0, <2>1, <2>3
  <2> QED BY <2>1, <2>2, <2>4 DEF Indexed
<1>2. ~RunMismatched(c)
  BY <1>1 DEF RunMismatched
<1>3. c.red.order \in Nat
  BY <1>0 DEF Cycles, Items
<1>4. /\ Recorded(c.green) => c.red.order < c.green.order /\ c.green.order \in Nat
      /\ Recorded(c.refactor) =>
            c.green.order < c.refactor.order /\ c.refactor.order \in Nat /\ c.green.order \in Nat
  BY <1>0, PassedIsRecorded, RunOrders DEF SoundCycle, Run
<1> QED BY <1>2, <1>3, <1>4 DEF RunInverted

\* All the integrity checks together.
LEMMA DisorderFollows ==
    ASSUME IInv
    PROVE  DisorderOnlyByMigration
<1>1. \A i, j \in DOMAIN log :
          i < j /\ IndexKey(log[i]) = IndexKey(log[j]) => log[j].scope # <<>>
  BY DEF IInv, LogOrdered
<1>2. ASSUME NEW i \in DOMAIN cycles, LogValid
      PROVE  ~MarkerMalformed(cycles[i])
  BY <1>2, MarkersCount DEF MarkerMalformed
<1>3. ASSUME NEW i \in DOMAIN cycles, LogValid, Relinks(cycles[i]) = {}
      PROVE  ~MigrationMismatched(cycles[i])
  <2> SUFFICES ASSUME NEW n \in DOMAIN cycles[i].migrations
               PROVE  Linked(Entry(cycles[i], "migrate", cycles[i].migrations[n].scope,
                                   cycles[i].migrations[n].order))
    BY DEF MigrationMismatched
  <2> DEFINE e == Entry(cycles[i], "migrate", cycles[i].migrations[n].scope,
                        cycles[i].migrations[n].order)
  <2>1. e.scope = <<>>
    BY <1>3 DEF Entry, Relinks
  <2>2. e \in Entries(cycles[i])
    BY EntriesParts DEF MigrationEntries
  <2> HIDE DEF e
  <2>3. Linked(e)
    BY <1>3, <2>1, <2>2, EntryLinked
  <2> QED BY <2>3 DEF e
<1>4. ASSUME NEW i \in DOMAIN cycles, ~cycles[i].refactor.valid
      PROVE  ~MigrationInverted(cycles[i])
  <2> DEFINE c == cycles[i]
  <2>0. c \in Cycles /\ SoundCycle(c) /\ BaseInv
    BY CyclesType DEF IInv, BaseInv, SoundCycles
  <2> SUFFICES ASSUME NEW n \in DOMAIN c.migrations
               PROVE  ~(c.migrations[n].order <= c.green.order)
    BY <1>4 DEF MigrationInverted
  <2>1. c.green.valid /\ c.green.order < c.migrations[n].order
    BY <2>0 DEF SoundCycle
  <2>2. c.green.order \in Nat
    BY <2>0, <2>1, PassedIsRecorded, RunOrders DEF Run
  <2>3. c.migrations[n].order \in Nat
    <3>1. c.migrations \in Seq(Migrations)
      BY <2>0 DEF Cycles
    <3>2. c.migrations[n] \in Migrations
      BY <3>1
    <3> QED BY <3>2 DEF Migrations
  <2> QED BY <2>1, <2>2, <2>3
<1> QED BY <1>1, <1>2, <1>3, <1>4, ChainIsSound, RunsMatch DEF DisorderOnlyByMigration

-----------------------------------------------------------------------------
(* Reports that go away                                                    *)

\* The action of SilencedByOwnMarkerOnly.
Silencing ==
    \A i \in DOMAIN cycles :
        MissingReported(i) /\ ~MissingReported(i)' =>
            \/ cycles'[i] # cycles[i]
            \/ \E j \in DOMAIN cycles :
                  i < j /\ Green(cycles'[j]) /\ ~Green(cycles[j])

\* Nothing is recorded once the log is invalid.
LEMMA InvalidIsFinal ==
    ASSUME [Next]_vars, ~LogValid
    PROVE  UNCHANGED <<log, evidence>>
BY DEF Next, vars, RecordRed, RecordGreen, RecordRefactor, MigrateFingerprint, Void, Archive,
       Relink, Record, Appendable, EditTest, EditSource, Rename

\* Whatever name a cycle has is decided by its test and its migrations.
LEMMA SameName ==
    ASSUME NEW c, NEW d, d.test = c.test, d.migrations = c.migrations
    PROVE  EffectiveTest(d) = EffectiveTest(c)
BY DEF EffectiveTest, Relinks

\* The first relink of a cycle gives it its name, and a migration that is no
\* relink leaves it its own.
LEMMA FingerprintName ==
    ASSUME NEW c \in Cycles, NEW m \in Migrations, m.scope = <<>>, c.migrations = <<>>
    PROVE  LET d == [c EXCEPT !.migrations = <<m>>]
           IN EffectiveTest(d) = EffectiveTest(c)
<1> DEFINE d == [c EXCEPT !.migrations = <<m>>]
<1>1. d.test = c.test /\ d.migrations = <<m>>
  BY DEF Cycles
<1>2. Relinks(c) = {} /\ Relinks(d) = {}
  BY <1>1 DEF Relinks
<1> QED BY <1>1, <1>2 DEF EffectiveTest

LEMMA RelinkName ==
    ASSUME NEW c \in Cycles, NEW m \in Migrations, m.scope # <<>>, Relinks(c) = {}
    PROVE  LET d == [c EXCEPT !.migrations = Append(@, m)]
           IN EffectiveTest(d) = m.scope[2]
<1> DEFINE d == [c EXCEPT !.migrations = Append(@, m)]
           n == Len(c.migrations) + 1
<1>1. /\ DOMAIN d.migrations = DOMAIN c.migrations \cup {n}
      /\ d.migrations[n] = m
      /\ \A k \in DOMAIN c.migrations : d.migrations[k] = c.migrations[k]
  BY MigrationsGrow
<1>2. n <= n
  BY DEF Cycles
<1> HIDE DEF d, n
<1>3. Relinks(d) = {n}
  BY <1>1 DEF Relinks
<1>4. EffectiveTest(d) = m.scope[2]
  BY <1>1, <1>2, <1>3 DEF EffectiveTest
<1> QED BY <1>4 DEF d

\* No step makes a cycle that was Green before go by the name of another: a
\* new cycle is not Green, and a relink wants a name that is free.
LEMMA NamesStay ==
    ASSUME IInv, [Next]_vars, NEW i \in DOMAIN cycles, NEW j \in DOMAIN cycles',
           i # j, Green(cycles'[j]), EffectiveTest(cycles'[j]) = EffectiveTest(cycles[i])
    PROVE  j \in DOMAIN cycles /\ EffectiveTest(cycles[j]) = EffectiveTest(cycles[i])
<1> DEFINE Stays == j \in DOMAIN cycles /\ EffectiveTest(cycles[j]) = EffectiveTest(cycles[i])
<1>0. TypeOK /\ \A k \in DOMAIN cycles : cycles[k] \in Cycles
  BY CyclesType DEF IInv, BaseInv
<1>1. CASE cycles' = cycles
  BY <1>1
<1>2. ASSUME NEW k \in DOMAIN cycles, NEW d, cycles' = [cycles EXCEPT ![k] = d],
             EffectiveTest(d) = EffectiveTest(cycles[k])
      PROVE  Stays
  <2>1. j \in DOMAIN cycles
    BY <1>2
  <2>2. CASE j = k
    BY <1>2, <2>1, <2>2
  <2>3. CASE j # k
    BY <1>2, <2>1, <2>3
  <2> QED BY <2>2, <2>3
<1>3. ASSUME NEW t \in Test, NEW q \in Req, NEW failed \in BOOLEAN, RecordRed(t, q, failed)
      PROVE  Stays
  <2> DEFINE c == [id |-> Len(log) + 1, test |-> t, req |-> q, red |-> Item(t, failed),
                   green |-> Unrecorded, refactor |-> Unrecorded,
                   migrations |-> <<>>, void |-> 0, archive |-> 0]
  <2>1. SUFFICES ASSUME cycles' = Append(cycles, c) PROVE Stays
    BY <1>1, <1>3 DEF RecordRed, Record, evidence
  <2>2. ~Green(c)
    BY DEF Green, Unrecorded
  <2> HIDE DEF c
  <2>3. /\ DOMAIN cycles' = 1..(Len(cycles) + 1) /\ DOMAIN cycles = 1..Len(cycles)
        /\ Len(cycles) \in Nat
        /\ cycles'[Len(cycles) + 1] = c
        /\ \A k \in DOMAIN cycles : cycles'[k] = cycles[k]
    BY <1>0, <2>1, CyclesType
  <2>4. j # Len(cycles) + 1
    BY <2>2, <2>3
  <2> QED BY <2>3, <2>4
<1>4. ASSUME NEW t \in Test, NEW q \in Req, NEW passed \in BOOLEAN, RecordGreen(t, q, passed)
      PROVE  Stays
  <2> DEFINE k == Previous(t, q)
             valid == passed /\ cycles[k].red.source # source
             d == [cycles[k] EXCEPT !.green = Item(t, valid)]
  <2>1. k \in DOMAIN cycles
    BY <1>0, <1>4, PreviousIsRecorded DEF RecordGreen, Continues
  <2>2. cycles' = cycles \/ cycles' = [cycles EXCEPT ![k] = d]
    BY <1>4 DEF RecordGreen, Record, evidence
  <2>3. d.test = cycles[k].test /\ d.migrations = cycles[k].migrations
    BY <1>0, <2>1 DEF Cycles
  <2> HIDE DEF k, d
  <2> QED BY <1>1, <1>2, <2>1, <2>2, <2>3, SameName
<1>5. ASSUME NEW t \in Test, NEW q \in Req, NEW passed \in BOOLEAN, RecordRefactor(t, q, passed)
      PROVE  Stays
  <2> DEFINE k == Previous(t, q)
             d == [cycles[k] EXCEPT !.refactor = Item(t, passed)]
  <2>1. k \in DOMAIN cycles
    BY <1>0, <1>5, PreviousIsRecorded DEF RecordRefactor, Continues
  <2>2. cycles' = cycles \/ cycles' = [cycles EXCEPT ![k] = d]
    BY <1>5 DEF RecordRefactor, Record, evidence
  <2>3. d.test = cycles[k].test /\ d.migrations = cycles[k].migrations
    BY <1>0, <2>1 DEF Cycles
  <2> HIDE DEF k, d
  <2> QED BY <1>1, <1>2, <2>1, <2>2, <2>3, SameName
<1>6. ASSUME NEW t \in Test, Void(t)
      PROVE  Stays
  <2> DEFINE k == Latest(t)
             d == [cycles[k] EXCEPT !.void = Len(log) + 1]
  <2>1. k \in DOMAIN cycles
    BY <1>0, <1>6, LatestIsRecorded DEF Void
  <2>2. cycles' = cycles \/ cycles' = [cycles EXCEPT ![k] = d]
    BY <1>6 DEF Void, Record, evidence
  <2>3. d.test = cycles[k].test /\ d.migrations = cycles[k].migrations
    BY <1>0, <2>1 DEF Cycles
  <2> HIDE DEF k, d
  <2> QED BY <1>1, <1>2, <2>1, <2>2, <2>3, SameName
<1>7. ASSUME NEW t \in Test, Archive(t)
      PROVE  Stays
  <2> DEFINE k == Latest(t)
             d == [cycles[k] EXCEPT !.archive = Len(log) + 1]
  <2>1. k \in DOMAIN cycles
    BY <1>0, <1>7, LatestIsRecorded DEF Archive
  <2>2. cycles' = cycles \/ cycles' = [cycles EXCEPT ![k] = d]
    BY <1>7 DEF Archive, Record, evidence
  <2>3. d.test = cycles[k].test /\ d.migrations = cycles[k].migrations
    BY <1>0, <2>1 DEF Cycles
  <2> HIDE DEF k, d
  <2> QED BY <1>1, <1>2, <2>1, <2>2, <2>3, SameName
<1>8. ASSUME NEW t \in Test, MigrateFingerprint(t)
      PROVE  Stays
  <2> DEFINE k == Target(t)
             m == Migration(<<>>, TextOf(t))
             d == [cycles[k] EXCEPT !.migrations = <<m>>]
  <2>1. k \in DOMAIN cycles /\ cycles[k].migrations = <<>> /\ t \in DOMAIN body
    BY <1>0, <1>8, TargetIsRecorded DEF MigrateFingerprint, Migratable
  <2>2. cycles' = cycles \/ cycles' = [cycles EXCEPT ![k] = d]
    BY <1>8 DEF MigrateFingerprint, Record, evidence
  <2>3. m \in Migrations /\ m.scope = <<>>
    BY <1>0, <1>8, <2>1, BoundsType
       DEF MigrateFingerprint, Migration, Migrations, Record, TypeOK, TextOf, Text, Scope
  <2> HIDE DEF k, m
  <2>4. EffectiveTest(d) = EffectiveTest(cycles[k])
    BY <1>0, <2>1, <2>3, FingerprintName
  <2> HIDE DEF d
  <2> QED BY <1>1, <1>2, <2>1, <2>2, <2>4
<1>9. ASSUME NEW old \in Test, NEW new \in Test, Relink(old, new)
      PROVE  Stays
  <2> DEFINE k == Target(old)
             m == Migration(<<old, new>>, TextOf(new))
             d == [cycles[k] EXCEPT !.migrations = Append(@, m)]
  <2>1. /\ k \in DOMAIN cycles /\ Relinks(cycles[k]) = {} /\ new \in DOMAIN body
        /\ \A n \in DOMAIN cycles \ {k} : EffectiveTest(cycles[n]) # new
    BY <1>0, <1>9, TargetIsRecorded DEF Relink, Migratable
  <2>2. cycles' = cycles \/ cycles' = [cycles EXCEPT ![k] = d]
    BY <1>9 DEF Relink, Record, evidence
  <2>3. m \in Migrations /\ m.scope = <<old, new>>
    BY <1>0, <1>9, <2>1, BoundsType
       DEF Relink, Migration, Migrations, Record, TypeOK, TextOf, Text, Scope
  <2> HIDE DEF k, m
  <2>4. EffectiveTest(d) = new
    <3>1. m.scope # <<>> /\ m.scope[2] = new
      BY <2>3
    <3> QED BY <1>0, <2>1, <2>3, <3>1, RelinkName
  <2> HIDE DEF d
  <2>5. CASE cycles' = [cycles EXCEPT ![k] = d]
    <3>1. j \in DOMAIN cycles
      BY <2>5
    <3>2. j # k
      <4>1. SUFFICES ASSUME j = k PROVE FALSE
        OBVIOUS
      <4>2. EffectiveTest(cycles[i]) = new
        BY <2>1, <2>4, <2>5, <4>1
      <4> QED BY <2>1, <4>1, <4>2
    <3>3. cycles'[j] = cycles[j]
      BY <2>5, <3>1, <3>2
    <3> QED BY <3>1, <3>3
  <2> QED BY <1>1, <2>2, <2>5
<1>10. CASE \/ EditSource
            \/ \E t \in Test : EditTest(t)
            \/ \E old, new \in Test : Rename(old, new)
  BY <1>1, <1>10 DEF EditSource, EditTest, Rename, evidence
<1>11. CASE UNCHANGED vars
  BY <1>1, <1>11 DEF vars, evidence
<1> QED BY <1>3, <1>4, <1>5, <1>6, <1>7, <1>8, <1>9, <1>10, <1>11 DEF Next

\* What silences the report of a cycle is that cycle or a later Green.
LEMMA SilencingStep ==
    ASSUME IInv, [Next]_vars
    PROVE  Silencing
<1> SUFFICES ASSUME NEW i \in DOMAIN cycles, MissingReported(i), ~MissingReported(i)',
                    cycles'[i] = cycles[i]
             PROVE  \E j \in DOMAIN cycles : i < j /\ Green(cycles'[j]) /\ ~Green(cycles[j])
  BY DEF Silencing
<1>1. LogValid
  <2>1. SUFFICES ASSUME ~LogValid PROVE FALSE
    OBVIOUS
  <2>2. log' = log /\ cycles' = cycles /\ chain' = chain
    BY <2>1, InvalidIsFinal DEF evidence
  <2> QED BY <2>2 DEF MissingReported, Superseded, VoidValid, ArchiveValid, Linked, LogValid, Indexed
<1>2. cycles[i].void = 0 /\ cycles[i].archive = 0 /\ ~Green(cycles[i]) /\ ~Superseded(i)
  BY <1>1, MarkersCount DEF MissingReported
<1>3. Superseded(i)'
  BY <1>2 DEF MissingReported, VoidValid, ArchiveValid
<1>4. PICK j \in DOMAIN cycles' :
        i < j /\ EffectiveTest(cycles'[i]) = EffectiveTest(cycles'[j]) /\ Green(cycles'[j])
  BY <1>3 DEF Superseded
<1>5. i # j
  BY <1>4, CyclesType DEF IInv, BaseInv
<1>6. j \in DOMAIN cycles /\ EffectiveTest(cycles[j]) = EffectiveTest(cycles[i])
  BY <1>4, <1>5, NamesStay
<1>7. ~Green(cycles[j])
  BY <1>2, <1>4, <1>6 DEF Superseded
<1> QED BY <1>4, <1>6, <1>7

-----------------------------------------------------------------------------
(* A clean report                                                          *)

\* In a clean report no cycle was relinked, so each goes by its own test.
LEMMA CleanNames ==
    ASSUME IInv, Clean, NEW i \in DOMAIN cycles
    PROVE  Relinks(cycles[i]) = {} /\ EffectiveTest(cycles[i]) = cycles[i].test
<1> DEFINE c == cycles[i]
<1>1. ASSUME NEW n \in Relinks(c)
      PROVE  FALSE
  <2> DEFINE e == Entry(c, "migrate", c.migrations[n].scope, c.migrations[n].order)
  <2>1. n \in DOMAIN c.migrations /\ c.migrations[n].scope # <<>>
    BY DEF Relinks
  <2>2. c.migrations[n].scope \in Scope
    <3>1. c.migrations \in Seq(Migrations)
      BY CyclesType DEF IInv, BaseInv, Cycles
    <3>2. c.migrations[n] \in Migrations
      BY <2>1, <3>1
    <3> QED BY <3>2 DEF Migrations
  <2>3. Linked(e)
    BY <2>1 DEF Clean, MigrationMismatched
  <2>4. IndexKey(log[e.order]) = Key(e.cycle, e.phase, e.scope)
    BY <2>3 DEF Linked, Indexed
  <2>5. e.scope = c.migrations[n].scope
    BY DEF Entry
  <2> HIDE DEF e
  <2> QED BY <2>1, <2>2, <2>4, <2>5, RelinkKey
<1>2. Relinks(c) = {}
  BY <1>1
<1> QED BY <1>2 DEF EffectiveTest

\* Without relinks, the text that passed last is the one that was Red and Green.
LEMMA PassedIsGreen ==
    ASSUME IInv, NEW i \in DOMAIN cycles, cycles[i].green.valid, Relinks(cycles[i]) = {}
    PROVE  PassedText(cycles[i]) = cycles[i].green.text
<1> DEFINE c == cycles[i]
           passing == {<<c.green.order, c.green.text>>}
            \cup (IF c.refactor.valid THEN {<<c.refactor.order, c.refactor.text>>} ELSE {})
            \cup {<<c.migrations[n].order, c.migrations[n].text>> : n \in DOMAIN c.migrations}
           orders == {p[1] : p \in passing}
<1>1. c \in Cycles /\ SoundCycle(c) /\ BaseInv
  BY CyclesType DEF IInv, BaseInv, SoundCycles
<1>2. \A n \in DOMAIN c.migrations : c.migrations[n] \in Migrations
  <2>1. c.migrations \in Seq(Migrations)
    BY <1>1 DEF Cycles
  <2> QED BY <2>1
<1>3. \A p \in passing : p[1] \in 0..MaxLog /\ p[2] = c.green.text
  <2>1. c.green.order \in 0..MaxLog /\ c.green.text = c.red.text
    BY <1>1, PassedIsRecorded, BoundsType DEF SoundCycle, Items
  <2>2. c.refactor.valid => c.refactor.order \in 0..MaxLog /\ c.refactor.text = c.red.text
    BY <1>1, PassedIsRecorded, BoundsType DEF SoundCycle, Items
  <2>3. \A n \in DOMAIN c.migrations :
          c.migrations[n].order \in 0..MaxLog /\ c.migrations[n].text = c.red.text
    BY <1>1, <1>2, BoundsType DEF SoundCycle, Migrations
  <2> QED BY <2>1, <2>2, <2>3
<1>4. orders \in SUBSET (0..MaxLog) /\ orders # {}
  BY <1>3
<1>5. PICK m \in orders : \A o \in orders : o <= m
  BY <1>4, HasMaximum, BoundsType
<1>6. \E p \in passing : \A o \in passing : o[1] <= p[1]
  BY <1>5
<1> HIDE DEF orders
<1>7. (CHOOSE p \in passing : \A o \in passing : o[1] <= p[1]) \in passing
  BY <1>6
<1>8. PassedText(c) = (CHOOSE p \in passing : \A o \in passing : o[1] <= p[1])[2]
  BY DEF PassedText
<1> QED BY <1>3, <1>7, <1>8

\* What validation compares, and finds equal, has passed.
LEMMA ComparedHasPassed ==
    ASSUME IInv, Clean, NEW i \in DOMAIN cycles, Green(cycles[i]), StaleTarget(i)
    PROVE  cycles[i].green.text = TextOf(EffectiveTest(cycles[i]))
<1>1. Relinks(cycles[i]) = {}
  BY CleanNames
<1>2. cycles[i].green.valid
  BY DEF Green
<1>3. ~Stale(i)
  BY DEF Clean
<1>4. TextOf(EffectiveTest(cycles[i])) = PassedText(cycles[i])
  BY <1>2, <1>3 DEF Stale
<1> QED BY <1>1, <1>2, <1>4, PassedIsGreen

\* The latest cycle of a name bears that name, and none that does is later.
LEMMA LatestLikeIsLast ==
    ASSUME IInv, NEW i \in DOMAIN cycles
    PROVE  /\ LatestLike(i) \in DOMAIN cycles
           /\ EffectiveTest(cycles[LatestLike(i)]) = EffectiveTest(cycles[i])
           /\ \A k \in DOMAIN cycles :
                 EffectiveTest(cycles[k]) = EffectiveTest(cycles[i]) => k <= LatestLike(i)
<1> DEFINE same == {j \in DOMAIN cycles : EffectiveTest(cycles[j]) = EffectiveTest(cycles[i])}
<1>1. \E j \in same : \A k \in same : k <= j
  <2>1. i \in same
    OBVIOUS
  <2> QED BY <2>1, HasLatest DEF IInv, BaseInv
<1>2. LatestLike(i) \in same /\ \A k \in same : k <= LatestLike(i)
  BY <1>1 DEF LatestLike
<1> QED BY <1>2

\* Cycles of one name have the same latest one.
LEMMA SameLatest ==
    ASSUME NEW i, NEW j, EffectiveTest(cycles[j]) = EffectiveTest(cycles[i])
    PROVE  LatestLike(j) = LatestLike(i)
BY DEF LatestLike

\* In a clean report a voided cycle has another that stands in for it.
LEMMA FallbackExists ==
    ASSUME IInv, LogValid, NEW v \in DOMAIN cycles, cycles[v].void # 0,
           NEW t, t = cycles[v].test
    PROVE  /\ EffectiveLatest(t, v) \in DOMAIN cycles
           /\ EffectiveLatest(t, v) \in Fallbacks(t, v)
<1>0. /\ TypeOK /\ BaseInv /\ DOMAIN cycles = 1..Len(cycles) /\ Len(cycles) \in Nat
      /\ \A k \in DOMAIN cycles : cycles[k] \in Cycles
  BY CyclesType DEF IInv, BaseInv
<1>1. PICK j \in 1..(v - 1) :
        /\ cycles[j].test = t
        /\ Green(cycles[j]) /\ ~Marked(cycles[j])
        /\ cycles[j].green.order < cycles[v].void
  BY DEF IInv, SoundCycles, StandsIn
<1>2. j \in DOMAIN cycles \ {v}
  BY <1>0
<1>3. ~VoidValid(cycles[j]) /\ ~ArchiveValid(cycles[j])
  BY <1>1 DEF Marked, VoidValid, ArchiveValid
<1>4. Linked(Entry(cycles[j], "green", <<>>, cycles[j].green.order))
  <2> DEFINE e == Entry(cycles[j], "green", <<>>, cycles[j].green.order)
  <2>1. Recorded(cycles[j].green)
    BY <1>0, <1>1, <1>2, PassedIsRecorded DEF Green
  <2>2. e \in Entries(cycles[j])
    BY <2>1, EntriesParts DEF RunEntries, Run
  <2>3. e.scope = <<>>
    BY DEF Entry
  <2> HIDE DEF e
  <2>4. Linked(e)
    BY <1>2, <2>2, <2>3, EntryLinked
  <2> QED BY <2>4 DEF e
<1>5. j \in Fallbacks(t, v)
  BY <1>1, <1>2, <1>3, <1>4 DEF Fallbacks
<1> DEFINE fall == Fallbacks(t, v)
           orders == {cycles[i].green.order : i \in fall}
<1>6. fall \subseteq DOMAIN cycles /\ \A i \in fall : Green(cycles[i])
  BY DEF Fallbacks
<1>7. \A i \in fall : cycles[i].green.order \in 0..MaxLog
  BY <1>0, <1>6, PassedIsRecorded, BoundsType DEF Green, Items
<1>8. PICK m \in orders : \A o \in orders : o <= m
  <2>1. orders \in SUBSET (0..MaxLog) /\ orders # {}
    BY <1>5, <1>7
  <2> QED BY <2>1, HasMaximum, BoundsType
<1>9. \E i \in fall : \A k \in fall : cycles[k].green.order <= cycles[i].green.order
  BY <1>8
<1>10. EffectiveLatest(t, v) \in fall
  BY <1>5, <1>9 DEF EffectiveLatest
<1> QED BY <1>6, <1>10

\* A covered requirement in a clean report: its test's latest cycle, or the
\* one that stands in for it, was compared with the declaration.
LEMMA CleanCovers ==
    ASSUME IInv
    PROVE  CleanMeansPassed
<1> SUFFICES ASSUME Clean, NEW q \in Req, NEW i \in DOMAIN cycles, Covers(cycles[i], q),
                    ~ArchiveValid(cycles[LatestLike(i)])
             PROVE  \E j \in DOMAIN cycles :
                       /\ Green(cycles[j])
                       /\ cycles[j].green.text = TextOf(EffectiveTest(cycles[i]))
  BY DEF CleanMeansPassed, Uncovered
<1> DEFINE t == EffectiveTest(cycles[i])
           last == LatestLike(i)
<1>1. /\ last \in DOMAIN cycles
      /\ EffectiveTest(cycles[last]) = t
      /\ \A k \in DOMAIN cycles : EffectiveTest(cycles[k]) = t => k <= last
  BY LatestLikeIsLast
<1>2. LogValid
  BY DEF Clean
<1>3. LatestLike(last) = last
  BY <1>1, SameLatest
<1>4. CASE Green(cycles[last])
  <2>1. StaleTarget(last)
    BY <1>3 DEF StaleTarget
  <2> QED BY <1>1, <1>4, <2>1, ComparedHasPassed
<1>5. CASE ~Green(cycles[last])
  <2>1. ~Superseded(last)
    <3>1. DOMAIN cycles = 1..Len(cycles)
      BY CyclesType DEF IInv, BaseInv
    <3> QED BY <1>1, <3>1 DEF Superseded
  <2>2. VoidValid(cycles[last])
    BY <1>1, <1>5, <2>1 DEF Clean, MissingReported
  <2>3. cycles[last].test = t
    BY <1>1, CleanNames
  <2> DEFINE f == EffectiveLatest(t, last)
  <2>4. f \in DOMAIN cycles /\ f \in Fallbacks(t, last)
    BY <1>1, <1>2, <2>2, <2>3, FallbackExists DEF VoidValid
  <2>5. cycles[f].test = t /\ Green(cycles[f]) /\ ~ArchiveValid(cycles[f])
    BY <2>4 DEF Fallbacks
  <2>6. EffectiveTest(cycles[f]) = t
    BY <2>4, <2>5, CleanNames
  <2>7. LatestLike(f) = last
    BY <2>6, SameLatest
  <2>8. StaleTarget(f)
    BY <2>2, <2>5, <2>6, <2>7 DEF StaleTarget
  <2>9. cycles[f].green.text = TextOf(t)
    BY <2>4, <2>5, <2>6, <2>8, ComparedHasPassed
  <2> QED BY <2>4, <2>5, <2>9
<1> QED BY <1>4, <1>5

-----------------------------------------------------------------------------
(* The theorems                                                            *)

\* Every variable keeps its type, for any tests, requirements and renames.
THEOREM TypeCorrect == Spec => []TypeOK
BY Inductive, PTL DEF IInv, BaseInv

\* No order of voids, archives and interruptions marks a cycle twice
\* (tdd.ts:914, 947).
THEOREM MarkersExclude == Spec => []OneMarker
BY Inductive, PTL DEF IInv, BaseInv

\* Every recorded Red, Green and Refactor names its own record of the order
\* log, for ever.
THEOREM RunsArePaired == Spec => []RunsPaired
BY Inductive, PTL DEF IInv, BaseInv

\* No command, repeated, retried or interrupted, changes what was recorded.
THEOREM RecordsAreKept == Spec => AppendOnly
<1>1. IInv /\ [Next]_vars => [Appending]_<<log, evidence>>
  BY StepKeeps
<1> QED BY <1>1, Inductive, PTL DEF Spec, AppendOnly, Appending

\* Interrupted or not, commands leave nothing for the integrity checks of
\* validateTddEvidence to report but what migrations do (tdd.ts:1389-1405).
THEOREM DisorderHasOneCause == Spec => []DisorderOnlyByMigration
<1>1. IInv => DisorderOnlyByMigration
  BY DisorderFollows
<1> QED BY <1>1, Inductive, PTL

\* A requirement that a clean report calls covered has a verifying test whose
\* declared text has passed, or whose latest cycle a human archived.
THEOREM CleanReportIsTrue == Spec => []CleanMeansPassed
<1>1. IInv => CleanMeansPassed
  BY CleanCovers
<1> QED BY <1>1, Inductive, PTL

\* No marker, relink or new cycle silences the report of another cycle
\* (tdd.ts:1418-1419).
THEOREM ReportsAreSilencedHonestly == Spec => SilencedByOwnMarkerOnly
<1>1. IInv /\ [Next]_vars => [Silencing]_<<log, evidence>>
  BY SilencingStep
<1> QED BY <1>1, Inductive, PTL DEF Spec, SilencedByOwnMarkerOnly, Silencing
=============================================================================
