----------------------------- MODULE TddCycle -----------------------------
(***************************************************************************)
(* The TDD cycles of tdd.ts: Red, Green and Refactor of a test for a       *)
(* requirement, and what a human may do to a recorded cycle afterwards:    *)
(* migrate its fingerprint, relink it to a renamed test, void or archive   *)
(* it.  Every command appends to the order log (order.ts) and then writes  *)
(* tdd.json (cycles and hash chain), under one writer lock.                *)
(*                                                                         *)
(* A text is a test's identifier with a version of its body, which is what *)
(* the fingerprint of a declaration tells apart; the tests are top-level   *)
(* statements of one file, for which the superseded fingerprint algorithm  *)
(* computes the same.  Commands, reports, durations and the change record  *)
(* a phase wants are left out: a command they refuse writes nothing.       *)
(***************************************************************************)
EXTENDS Naturals, Sequences, FiniteSets

CONSTANTS
    Test,       \* test ids, declared now or before or after a rename
    Req,        \* the requirements
    Verifies,   \* which test verifies which requirement
    MaxBody,    \* bound: versions of a test's body
    MaxSource,  \* bound: versions of everything but the tests
    FirstTest,  \* the tests declared at the start
    Renames,    \* bound: the renames the developer makes
    MaxCycles,  \* bound: recorded cycles
    MaxLog,     \* bound: length of the order log
    MaxTorn     \* bound: commands that end between their two writes

ASSUME VerifiesAssumption == Verifies \subseteq Test \X Req
ASSUME FirstTestAssumption == FirstTest \subseteq Test
ASSUME TddBoundAssumption ==
    {MaxBody, MaxSource, MaxCycles, MaxLog, MaxTorn} \subseteq Nat \ {0}

Body == 1..MaxBody
Source == 1..MaxSource

VARIABLES
    body,    \* the work tree: body of each declared test
    source,  \* the work tree: everything else
    log,     \* order.json: [cycle, phase, scope] in append order
    cycles,  \* tdd.json: the cycles in the order of their Red
    chain    \* tdd.json: [cycle, phase, scope, order] in append order

tree == <<body, source>>
evidence == <<cycles, chain>>
vars == <<tree, log, evidence>>

Text == Test \X Body
TextOf(t) == <<t, body[t]>>

Run == {"red", "green", "refactor"}
Phase == Run \cup {"migrate", "void", "archive"}

\* The scope of an order or chain record: the two ids of a relink.
Scope == {<<>>} \cup (Test \X Test)

\* A phase not recorded (yet), and a recorded one.
Unrecorded == [order |-> 0, valid |-> FALSE]
Recorded(item) == item.order # 0

Init ==
    /\ body = [t \in FirstTest |-> 1]
    /\ source = 1
    /\ log = <<>>
    /\ cycles = <<>>
    /\ chain = <<>>

-----------------------------------------------------------------------------
(* The order log                                                           *)

\* recordKey: the scope is part of the key only where it is supplied.
Key(id, phase, scope) == <<id, phase>> \o scope

\* The key of a record in the validator's index, which passes no test ids.
IndexKey(record) == Key(record.cycle, record.phase, <<>>)

\* EVIDENCE_ORDER_DUPLICATE is not reported.
LogValid == Cardinality({IndexKey(log[i]) : i \in DOMAIN log}) = Len(log)

\* evidenceOrderRecord: is a record with this key and this sequence indexed?
Indexed(key, order) ==
    /\ order \in DOMAIN log
    /\ IndexKey(log[order]) = key
    /\ \A i \in DOMAIN log : IndexKey(log[i]) = key => i <= order

\* Wrong variant: an identity may be appended again.
AppendableAgain(id, phase, scope) == LogValid

\* appendEvidenceOrder refuses an invalid log and an indexed key.
Appendable(id, phase, scope) ==
    /\ LogValid
    /\ \A i \in DOMAIN log : IndexKey(log[i]) # Key(id, phase, scope)

-----------------------------------------------------------------------------
(* What a cycle says of itself                                             *)

Green(c) == c.red.valid /\ c.green.valid
Marked(c) == c.void # 0 \/ c.archive # 0

\* The last relink of a cycle renames it: currentEffectiveTestId.
Relinks(c) == {n \in DOMAIN c.migrations : c.migrations[n].scope # <<>>}
EffectiveTest(c) ==
    IF Relinks(c) = {} THEN c.test
    ELSE LET last == CHOOSE n \in Relinks(c) : \A m \in Relinks(c) : m <= n
         IN c.migrations[last].scope[2]

\* currentEffectiveFingerprint and currentEffectiveSourceFingerprint.
EffectiveText(c) ==
    IF c.migrations # <<>> THEN c.migrations[Len(c.migrations)].text
    ELSE IF c.refactor.valid THEN c.refactor.text ELSE c.green.text
EffectiveSource(c) == IF c.refactor.valid THEN c.refactor.source ELSE c.green.source

\* The chain records a cycle calls for.
Entry(c, phase, scope, order) ==
    [cycle |-> c.id, phase |-> phase, scope |-> scope, order |-> order]
Entries(c) ==
    {Entry(c, p, <<>>, c[p].order) : p \in {q \in Run : Recorded(c[q])}}
    \cup {Entry(c, p, <<>>, c[p]) : p \in {q \in {"void", "archive"} : c[q] # 0}}
    \cup {Entry(c, "migrate", c.migrations[n].scope, c.migrations[n].order) :
            n \in DOMAIN c.migrations}

\* phaseLinkageValid and migrationLinkageValid: the log is valid, its index
\* has the entry, and the chain has it exactly once.
Linked(entry) ==
    /\ LogValid
    /\ Indexed(Key(entry.cycle, entry.phase, entry.scope), entry.order)
    /\ Cardinality({i \in DOMAIN chain : /\ chain[i].cycle = entry.cycle
                                         /\ chain[i].phase = entry.phase
                                         /\ chain[i].scope = entry.scope}) = 1
    /\ \E i \in DOMAIN chain : chain[i] = entry

VoidValid(c) == c.void # 0 /\ Linked(Entry(c, "void", <<>>, c.void))
ArchiveValid(c) == c.archive # 0 /\ Linked(Entry(c, "archive", <<>>, c.archive))

\* The latest recorded cycle of a test, 0 if none.
Latest(t) ==
    LET own == {i \in DOMAIN cycles : cycles[i].test = t}
    IN IF own = {} THEN 0 ELSE CHOOSE i \in own : \A j \in own : j <= i

\* effectiveLatestCycle: what may stand in for the voided cycle v.
Fallbacks(t, v) ==
    {i \in DOMAIN cycles \ {v} :
        /\ cycles[i].test = t
        /\ Green(cycles[i])
        /\ ~VoidValid(cycles[i])
        /\ ~ArchiveValid(cycles[i])
        /\ Linked(Entry(cycles[i], "green", <<>>, cycles[i].green.order))
        /\ cycles[i].green.order < cycles[v].void}
EffectiveLatest(t, v) ==
    LET fall == Fallbacks(t, v)
    IN IF fall = {} THEN 0
       ELSE CHOOSE i \in fall : \A j \in fall : cycles[j].green.order <= cycles[i].green.order

\* The cycle `tdd migrate' works on.
Target(t) ==
    LET latest == Latest(t)
    IN IF latest # 0 /\ VoidValid(cycles[latest]) /\ EffectiveLatest(t, latest) # 0
       THEN EffectiveLatest(t, latest) ELSE latest

-----------------------------------------------------------------------------
(* The two writes of a command                                             *)

\* appendEvidenceOrder, then writeJson of tdd.json with its chain record; a
\* kill or an error in between leaves the order record alone.
Record(id, phase, scope, recorded) ==
    /\ Appendable(id, phase, scope)
    /\ Len(log) < MaxLog
    /\ log' = Append(log, [cycle |-> id, phase |-> phase, scope |-> scope])
    /\ \/ /\ cycles' = recorded
          /\ chain' = Append(chain, [cycle |-> id, phase |-> phase,
                                     scope |-> scope, order |-> Len(log) + 1])
       \/ Len(log) - Len(chain) < MaxTorn /\ UNCHANGED evidence
    /\ UNCHANGED tree

\* What a run of test t leaves: valid when the outcome was the one wanted.
Item(t, valid) ==
    [order |-> Len(log) + 1, valid |-> valid, text |-> TextOf(t), source |-> source]

-----------------------------------------------------------------------------
(* The commands                                                            *)

\* tdd red: a new cycle (its id is fresh), whatever the test reported.
RecordRed(t, q, failed) ==
    /\ t \in DOMAIN body
    /\ <<t, q>> \in Verifies
    /\ Len(cycles) < MaxCycles
    /\ Record(Len(log) + 1, "red", <<>>,
              Append(cycles, [id |-> Len(log) + 1, test |-> t, req |-> q,
                              red |-> Item(t, failed),
                              green |-> Unrecorded, refactor |-> Unrecorded,
                              migrations |-> <<>>, void |-> 0, archive |-> 0]))

\* The cycle a Green or Refactor belongs to, 0 if none.
Previous(t, q) ==
    LET own == {i \in DOMAIN cycles : cycles[i].test = t /\ cycles[i].req = q}
    IN IF own = {} THEN 0 ELSE CHOOSE i \in own : \A j \in own : j <= i

\* A later phase wants the text that was Red, of a test still declared.
Continues(t, q, i) ==
    /\ t \in DOMAIN body
    /\ <<t, q>> \in Verifies
    /\ i # 0
    /\ cycles[i].red.valid
    /\ cycles[i].red.text = TextOf(t)

\* tdd green: something but the test must have changed since Red.
RecordGreen(t, q, passed) ==
    LET i == Previous(t, q)
    IN /\ Continues(t, q, i)
       /\ LET valid == passed /\ cycles[i].red.source # source
          IN Record(cycles[i].id, "green", <<>>,
                    [cycles EXCEPT ![i].green = Item(t, valid)])

\* tdd refactor
RecordRefactor(t, q, passed) ==
    LET i == Previous(t, q)
    IN /\ Continues(t, q, i)
       /\ cycles[i].green.valid
       /\ Record(cycles[i].id, "refactor", <<>>,
                 [cycles EXCEPT ![i].refactor = Item(t, passed)])

\* What both migrations want of the cycle they work on.
Migratable(t, i) ==
    /\ i # 0
    /\ ~ArchiveValid(cycles[Latest(t)])
    /\ cycles[i].green.valid

Migration(scope, text) == [scope |-> scope, text |-> text, order |-> Len(log) + 1]

\* tdd migrate <test>: the stored fingerprint is the declaration's under the
\* superseded algorithm, and the cycle was never migrated.
MigrateFingerprint(t) ==
    LET i == Target(t)
    IN /\ Migratable(t, i)
       /\ cycles[i].migrations = <<>>
       /\ t \in DOMAIN body
       /\ EffectiveText(cycles[i]) = TextOf(t)
       /\ Record(cycles[i].id, "migrate", <<>>,
                 [cycles EXCEPT ![i].migrations = <<Migration(<<>>, TextOf(t))>>])

\* tdd migrate <old> <new>: the declaration is the old one but for its id,
\* nothing else changed, and no other cycle goes by the new id.
Relink(old, new) ==
    LET i == Target(old)
    IN /\ old # new
       /\ Migratable(old, i)
       /\ Relinks(cycles[i]) = {}
       /\ \A j \in DOMAIN cycles \ {i} : EffectiveTest(cycles[j]) # new
       /\ old \notin DOMAIN body
       /\ new \in DOMAIN body
       /\ EffectiveSource(cycles[i]) = source
       /\ EffectiveText(cycles[i]) = <<old, body[new]>>
       /\ Record(cycles[i].id, "migrate", <<old, new>>,
                 [cycles EXCEPT ![i].migrations =
                     Append(@, Migration(<<old, new>>, TextOf(new)))])

\* tdd void: the latest cycle dangles, and an earlier one stands in for it.
Void(t) ==
    LET i == Latest(t)
    IN /\ i # 0
       /\ ~Marked(cycles[i])
       /\ ~cycles[i].green.valid
       /\ \E j \in 1..(i - 1) :
             cycles[j].test = t /\ Green(cycles[j]) /\ ~Marked(cycles[j])
       /\ Record(cycles[i].id, "void", <<>>, [cycles EXCEPT ![i].void = Len(log) + 1])

\* tdd archive: the latest cycle, whatever its phases.
Archive(t) ==
    LET i == Latest(t)
    IN /\ i # 0
       /\ ~Marked(cycles[i])
       /\ Record(cycles[i].id, "archive", <<>>, [cycles EXCEPT ![i].archive = Len(log) + 1])

-----------------------------------------------------------------------------
(* The developer                                                           *)

EditTest(t) ==
    /\ t \in DOMAIN body
    /\ body[t] < MaxBody
    /\ body' = [body EXCEPT ![t] = @ + 1]
    /\ UNCHANGED <<source, log, evidence>>

EditSource ==
    /\ source < MaxSource
    /\ source' = source + 1
    /\ UNCHANGED <<body, log, evidence>>

Rename(old, new) ==
    /\ <<old, new>> \in Renames
    /\ old \in DOMAIN body
    /\ new \notin DOMAIN body
    /\ body' = [t \in (DOMAIN body \ {old}) \cup {new} |->
                   IF t = new THEN body[old] ELSE body[t]]
    /\ UNCHANGED <<source, log, evidence>>

Next ==
    \/ \E t \in Test, q \in Req, observed \in BOOLEAN :
          \/ RecordRed(t, q, observed)
          \/ RecordGreen(t, q, observed)
          \/ RecordRefactor(t, q, observed)
    \/ \E t \in Test : MigrateFingerprint(t) \/ Void(t) \/ Archive(t) \/ EditTest(t)
    \/ \E old, new \in Test : Relink(old, new) \/ Rename(old, new)
    \/ EditSource

Spec == Init /\ [][Next]_vars

-----------------------------------------------------------------------------
(* What validateTddEvidence reports                                        *)

\* No TDD_CHAIN diagnostic: the chain is the entries of the cycles, once each.
ChainSound ==
    /\ Cardinality({[chain[i] EXCEPT !.order = 0] : i \in DOMAIN chain}) = Len(chain)
    /\ {chain[i] : i \in DOMAIN chain} = UNION {Entries(cycles[i]) : i \in DOMAIN cycles}

\* TDD_ORDER_MISMATCH of the run phases, and of the migrations.
RunMismatched(c) ==
    \E p \in Run : Recorded(c[p]) /\ ~Indexed(Key(c.id, p, <<>>), c[p].order)
MigrationMismatched(c) ==
    \E n \in DOMAIN c.migrations :
        ~Linked(Entry(c, "migrate", c.migrations[n].scope, c.migrations[n].order))

\* TDD_ORDER_SEQUENCE of the run phases, and of the migrations.
RunInverted(c) ==
    \/ Recorded(c.green) /\ c.green.order <= c.red.order
    \/ Recorded(c.refactor) /\ c.refactor.order <= c.green.order
MigrationInverted(c) ==
    \E n \in DOMAIN c.migrations :
        c.migrations[n].order <=
            (IF c.refactor.valid THEN c.refactor.order ELSE c.green.order)

\* TDD_VOID_EVIDENCE_MALFORMED, TDD_ARCHIVE_EVIDENCE_MALFORMED.
MarkerMalformed(c) ==
    (c.void # 0 /\ ~VoidValid(c)) \/ (c.archive # 0 /\ ~ArchiveValid(c))

\* Wrong variant: a voided cycle supersedes too.
SupersededByVoid(i) ==
    \E j \in DOMAIN cycles :
        /\ i < j
        /\ EffectiveTest(cycles[i]) = EffectiveTest(cycles[j])
        /\ Green(cycles[j]) \/ VoidValid(cycles[j])

\* A later complete cycle of the same test supersedes this one.
Superseded(i) ==
    \E j \in DOMAIN cycles :
        /\ i < j
        /\ EffectiveTest(cycles[i]) = EffectiveTest(cycles[j])
        /\ Green(cycles[j])

\* TDD_RED_MISSING, TDD_GREEN_MISSING.
MissingReported(i) ==
    /\ ~Superseded(i)
    /\ ~VoidValid(cycles[i])
    /\ ~ArchiveValid(cycles[i])
    /\ ~Green(cycles[i])

\* latestCycles: the latest cycle that goes by the effective id of cycle i.
LatestLike(i) ==
    LET same == {j \in DOMAIN cycles : EffectiveTest(cycles[j]) = EffectiveTest(cycles[i])}
    IN CHOOSE j \in same : \A k \in same : k <= j

\* Wrong variant: what stands in for a voided cycle is not compared.
StaleTargetUnvoided(i) == LatestLike(i) = i /\ ~ArchiveValid(cycles[i])

\* isStaleTarget: is the text of cycle i compared with the declaration?
StaleTarget(i) ==
    LET latest == LatestLike(i)
    IN /\ ~ArchiveValid(cycles[i])
       /\ \/ latest = i
          \/ /\ VoidValid(cycles[latest])
             /\ EffectiveLatest(EffectiveTest(cycles[i]), latest) = i

\* The text of the last passing phase or migration, by order.
PassedText(c) ==
    LET passing == {<<c.green.order, c.green.text>>}
            \cup (IF c.refactor.valid THEN {<<c.refactor.order, c.refactor.text>>} ELSE {})
            \cup {<<c.migrations[n].order, c.migrations[n].text>> : n \in DOMAIN c.migrations}
    IN (CHOOSE p \in passing : \A o \in passing : o[1] <= p[1])[2]

\* TDD_TEST_STALE
Stale(i) ==
    LET c == cycles[i]
    IN /\ c.green.valid
       /\ StaleTarget(i)
       /\ ~(EffectiveTest(c) \in DOMAIN body /\ TextOf(EffectiveTest(c)) = PassedText(c))

\* TDD_REQUIREMENT_UNCOVERED
Covers(c, q) ==
    /\ c.req = q
    /\ EffectiveTest(c) \in DOMAIN body
    /\ <<EffectiveTest(c), q>> \in Verifies
    /\ Green(c)
Uncovered(q) == ~\E i \in DOMAIN cycles : Covers(cycles[i], q)

\* `tdd validate' reports nothing, or only that requirements are uncovered.
Clean ==
    /\ LogValid
    /\ ChainSound
    /\ \A i \in DOMAIN cycles :
          LET c == cycles[i]
          IN ~\/ RunMismatched(c) \/ MigrationMismatched(c)
              \/ RunInverted(c) \/ MigrationInverted(c)
              \/ MarkerMalformed(c) \/ MissingReported(i) \/ Stale(i)

-----------------------------------------------------------------------------
(* Properties                                                              *)

Items ==
    [order : 1..MaxLog, valid : BOOLEAN, text : Text, source : Source]
Migrations == [scope : Scope, text : Text, order : 1..MaxLog]
Cycles ==
    [id : 1..MaxLog, test : Test, req : Req, red : Items,
     green : Items \cup {Unrecorded}, refactor : Items \cup {Unrecorded},
     migrations : Seq(Migrations), void : 0..MaxLog, archive : 0..MaxLog]

\* Every variable holds what the modelled files and work trees can hold.
TypeOK ==
    /\ DOMAIN body \subseteq Test /\ body \in [DOMAIN body -> Body]
    /\ source \in Source
    /\ log \in Seq([cycle : 1..MaxLog, phase : Phase, scope : Scope])
    /\ cycles \in Seq(Cycles)
    /\ chain \in Seq([cycle : 1..MaxLog, phase : Phase, scope : Scope, order : 1..MaxLog])

\* Interrupted or not, legal commands leave nothing for the integrity checks of
\* validateTddEvidence to report, but what migrations do: a relink is
\* never found in the index of the log and may duplicate a key in it, and a
\* Refactor after a migration reverses their order (tdd.ts:1389-1405).
DisorderOnlyByMigration ==
    /\ ChainSound
    /\ \A i, j \in DOMAIN log :
          i < j /\ IndexKey(log[i]) = IndexKey(log[j]) => log[j].scope # <<>>
    /\ \A i \in DOMAIN cycles :
          LET c == cycles[i]
          IN /\ ~RunMismatched(c) /\ ~RunInverted(c)
             /\ MarkerMalformed(c) => ~LogValid
             /\ MigrationMismatched(c) => ~LogValid \/ Relinks(c) # {}
             /\ MigrationInverted(c) => c.refactor.valid

\* A cycle is never both voided and archived, in whatever order the two
\* commands come and wherever they are interrupted (tdd.ts:914, 947).
OneMarker == \A i \in DOMAIN cycles : cycles[i].void = 0 \/ cycles[i].archive = 0

\* A requirement about which `tdd validate' has nothing to say has a verifying
\* test whose declared text has passed, or whose latest cycle a human archived.
CleanMeansPassed ==
    Clean => \A q \in Req : ~Uncovered(q) => \E i \in DOMAIN cycles :
        /\ Covers(cycles[i], q)
        /\ \/ ArchiveValid(cycles[LatestLike(i)])
           \/ \E j \in DOMAIN cycles :
                 /\ Green(cycles[j])
                 /\ cycles[j].green.text = TextOf(EffectiveTest(cycles[i]))

\* No command changes or drops what an earlier one recorded: a repeated or
\* retried phase is refused by the order log, not written over the old.
AppendOnly ==
    [][/\ \A i \in DOMAIN log : i \in DOMAIN log' /\ log'[i] = log[i]
       /\ \A i \in DOMAIN chain : i \in DOMAIN chain' /\ chain'[i] = chain[i]
       /\ \A i \in DOMAIN cycles :
             /\ i \in DOMAIN cycles'
             /\ Entries(cycles[i]) \subseteq Entries(cycles'[i])
             /\ \A p \in Run : Recorded(cycles[i][p]) => cycles'[i][p] = cycles[i][p]
      ]_<<log, evidence>>

\* A report of a missing Red or Green goes away only when that very cycle is
\* marked or completed, or a later one becomes complete: no marker silences
\* the report of another cycle (tdd.ts:1418-1419).
SilencedByOwnMarkerOnly ==
    [][\A i \in DOMAIN cycles :
          MissingReported(i) /\ ~MissingReported(i)' =>
              \/ cycles'[i] # cycles[i]
              \/ \E j \in DOMAIN cycles :
                    i < j /\ Green(cycles'[j]) /\ ~Green(cycles[j])
      ]_<<log, evidence>>
=============================================================================
