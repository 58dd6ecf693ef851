------------------------ MODULE EvidenceMergeProofs ------------------------
(***************************************************************************)
(* Theorems about both halves of evidence merge.  First, how its files are *)
(* replaced, of EvidenceTransaction: for any evidence files, any number of *)
(* operations, kills, power losses and repeated recoveries, when every     *)
(* target can be read, readers are never let in to a mixture of two        *)
(* states, recovery rewrites nothing recorded since, and the transactions  *)
(* are the single steps of EvidenceStore, where what was written without   *)
(* an fsync may be torn.  Second, what the files are replaced by, of       *)
(* EvidenceMerge: for any worktrees that start from one recorded history,  *)
(* any batches and lengths of logs, a merge loses nothing, keeps the order *)
(* of either history, appends no work to a checkpoint its author did not   *)
(* know of, can be repeated, and is refused for a reason.  The two share   *)
(* no variable and no definition.                                          *)
(***************************************************************************)
EXTENDS EvidenceTransaction, EvidenceMerge, SequenceTheorems, FiniteSetTheorems,
        WellFoundedInduction, TLAPS

-----------------------------------------------------------------------------
(* The first half, about EvidenceTransaction                               *)
(*                                                                         *)
(* The inductive invariant: what the directory says (m), and what is       *)
(* durable of it (d), of the evidence before and after the last            *)
(* transaction (b and a)                                                   *)

Has(d, state) == \E k \in Kind : d.journal[k].state = state
Clear(d) == \A k \in Kind : d.journal[k] = NoJournal

\* The journal of the last transaction; what it does not cover is the same
\* before and after, and wherever one looks.
Describes(j, m, d, b, a) ==
    /\ j.files \subseteq Target
    /\ \A t \in j.files : j.before[t] = b[t] /\ j.after[t] = a[t]
    /\ \A t \in Target \ j.files :
          a[t] = b[t] /\ m.target[t] = b[t] /\ d.target[t] = b[t]

\* Only one kind has a journal, in the directory or durably, and if both are
\* there, they cover the same files.
OneKind(m, d) ==
    /\ \A k, l \in Kind : k = l
        \/ (m.journal[k] = NoJournal /\ d.journal[k] = NoJournal)
        \/ (m.journal[l] = NoJournal /\ d.journal[l] = NoJournal)
    /\ ~Clear(m) /\ ~Clear(d) => Covered(m) = Covered(d)

Journaled(m, d, b, a) ==
    \A k \in Kind :
        /\ m.journal[k] # NoJournal => Describes(m.journal[k], m, d, b, a)
        /\ d.journal[k] # NoJournal => Describes(d.journal[k], m, d, b, a)

\* Every file has its old or its new content, or is torn, while a prepared
\* journal can be there, the old one if it need not be there; all have the new
\* content, the covered ones for good, while a committed one can be there;
\* without any, they agree.
Recoverable(m, d, b, a) ==
    /\ Has(m, "prepared") \/ Has(d, "prepared") =>
          \A t \in Target : /\ m.target[t] \in {b[t], a[t], Torn}
                            /\ d.target[t] \in {b[t], a[t], Torn}
    /\ (Has(m, "prepared") /\ Clear(d)) \/ (Clear(m) /\ Has(d, "prepared")) =>
          m.target = b /\ d.target = b /\ m.loose = d.loose
    /\ Has(m, "committed") \/ Has(d, "committed") =>
          /\ m.target = a /\ d.target = a
          /\ (Covered(m) \cup Covered(d)) \cap (m.loose \cup d.loose) = {}
    /\ Clear(m) /\ Clear(d) => m.target \in {b, a}

Consistent(m, d, b, a) ==
    OneKind(m, d) /\ Journaled(m, d, b, a) /\ Recoverable(m, d, b, a)

\* What a live process can rely on.
AtStart ==
    /\ op = "write" => disk.journal = mem.journal
    /\ pc = "start" => disk.journal = mem.journal
    /\ pc = "start" /\ op # "write" => disk.target = mem.target /\ disk.loose = mem.loose

Both(j) == mem.journal[kind] = j /\ disk.journal[kind] = j

Replacing ==
    /\ pc \in {"planned", "staged", "linked", "published", "writing", "replacing",
               "committing", "commitStaged"} =>
          /\ tx # NoJournal /\ ops > 0
          /\ tx.after = [t \in tx.files |-> ops]
          /\ tx.state = IF pc \in {"committing", "commitStaged"} THEN "committed" ELSE "prepared"
    /\ pc \in {"planned", "staged"} =>
          /\ Clear(mem) /\ Clear(disk) /\ mem.target = before /\ disk.target = before
          /\ mem.loose = disk.loose
          /\ Describes(tx, mem, disk, before, after)
    /\ pc \in {"linked", "published"} => mem.journal[kind] = tx /\ Clear(disk)
    /\ pc \in {"writing", "replacing"} => Both(tx) /\ todo \subseteq tx.files
    /\ pc = "replacing" => \A t \in tx.files \ todo : mem.target[t] = after[t] /\ t \notin mem.loose
    /\ pc \in {"committing", "commitStaged"} =>
          /\ Both([tx EXCEPT !.state = "prepared"])
          /\ mem.target = after /\ disk.target = after
          /\ \A t \in tx.files : t \notin mem.loose /\ t \notin disk.loose
    /\ pc \in {"committed", "cleanup"} => mem.journal[kind] = tx /\ tx.state = "committed"
    /\ pc = "cleanup" => Both(tx)

Recovering ==
    /\ pc \in {"restoring", "forwarding", "dropping"} => Both(tx) /\ tx # NoJournal
    /\ pc \in {"restoring", "forwarding"} => todo \subseteq tx.files
    /\ pc = "restoring" =>
          /\ tx.state = "prepared"
          /\ \A t \in tx.files \ todo : mem.target[t] = before[t] /\ t \notin mem.loose
    /\ pc = "forwarding" => tx.state = "committed"
    /\ pc = "dropping" /\ tx.state = "prepared" =>
          /\ mem.target = before /\ disk.target = before /\ mem.loose = disk.loose
          /\ \A t \in tx.files : t \notin mem.loose

Process ==
    owner = "live" =>
        /\ AtStart
        /\ op = "replace" => Replacing
        /\ op = "recover" => Recovering

Inv == TypeOK /\ Consistent(mem, disk, before, after) /\ Process

-----------------------------------------------------------------------------
(* Journals and directories                                                *)

LEMMA JournalFacts ==
    /\ NoJournal \in Journal /\ NoJournal.state = "none" /\ NoJournal.files = {}
    /\ \A j \in Journal : j # NoJournal =>
          /\ j.state \in {"prepared", "committed"}
          /\ j.files \subseteq Target
          /\ j.before \in [j.files -> Content]
          /\ j.after \in [j.files -> Val]
          /\ j = [state |-> j.state, files |-> j.files, before |-> j.before, after |-> j.after]
BY DEF Journal, JournalOf, NoJournal

LEMMA MakeJournal ==
    ASSUME NEW files \in SUBSET Target, NEW b \in [files -> Content], NEW a \in [files -> Val],
           NEW state \in {"prepared", "committed"}
    PROVE  /\ [state |-> state, files |-> files, before |-> b, after |-> a] \in Journal
           /\ [state |-> state, files |-> files, before |-> b, after |-> a] # NoJournal
BY DEF Journal, JournalOf, NoJournal

\* The state of a journal can be changed.
LEMMA ChangeState ==
    ASSUME NEW j \in Journal, j # NoJournal, NEW state \in {"prepared", "committed"},
           NEW i, i = [j EXCEPT !.state = state]
    PROVE  /\ i \in Journal /\ i # NoJournal /\ i.state = state
           /\ i.files = j.files /\ i.before = j.before /\ i.after = j.after
           /\ [i EXCEPT !.state = j.state] = j
<1> DEFINE k == [state |-> state, files |-> j.files, before |-> j.before, after |-> j.after]
<1>1. /\ j.state \in {"prepared", "committed"}
      /\ j.files \in SUBSET Target /\ j.before \in [j.files -> Content]
      /\ j.after \in [j.files -> Val]
      /\ j = [state |-> j.state, files |-> j.files, before |-> j.before, after |-> j.after]
  BY JournalFacts
<1>2. k \in Journal /\ k # NoJournal
  BY <1>1, MakeJournal
<1>3. i = k
  BY <1>1
<1>4. [i EXCEPT !.state = j.state] = j
  BY <1>1, <1>3
<1> QED BY <1>2, <1>3, <1>4

\* What is pending is a journal.
LEMMA PendingFacts ==
    ASSUME NEW d \in Directory, NEW k \in Kind
    PROVE  /\ d.journal[k] \in Journal
           /\ d.journal[k].state = "none" <=> d.journal[k] = NoJournal
           /\ d.journal[k].state \in {"none", "prepared", "committed"}
BY JournalFacts DEF Directory

\* Changes of a directory, one entry each.
LEMMA DirectoryFacts ==
    ASSUME NEW d \in Directory
    PROVE  /\ d.target \in [Target -> Content] /\ d.temp \subseteq Target /\ d.loose \subseteq Target
           /\ d.journal \in [Kind -> Journal] /\ d.staging \subseteq Kind
           /\ d = [target |-> d.target, loose |-> d.loose, temp |-> d.temp, journal |-> d.journal,
                   staging |-> d.staging]
BY DEF Directory

LEMMA TargetUpdate ==
    ASSUME NEW d \in Directory, NEW t \in Target, NEW v \in Content
    PROVE  LET e == [SetTarget(d, t, v) EXCEPT !.temp = @ \ {t}] IN
           /\ e \in Directory /\ e.journal = d.journal
           /\ e.target = [d.target EXCEPT ![t] = v] /\ e.loose = d.loose \ {t}
BY DEF Directory, SetTarget

LEMMA RenameUpdate ==
    ASSUME NEW d \in Directory, NEW t \in Target, NEW v \in Content
    PROVE  /\ Rename(d, t, v) \in Directory
           /\ Rename(d, t, v).journal = d.journal
           /\ Rename(d, t, v).target = [d.target EXCEPT ![t] = v]
           /\ Rename(d, t, v).loose = d.loose \cup {t}
BY DEF Directory, Rename

LEMMA JournalUpdate ==
    ASSUME NEW d \in Directory, NEW k \in Kind, NEW j \in Journal
    PROVE  /\ SetJournal(d, k, j) \in Directory
           /\ SetJournal(d, k, j).target = d.target
           /\ SetJournal(d, k, j).loose = d.loose
           /\ SetJournal(d, k, j).journal = [d.journal EXCEPT ![k] = j]
           /\ [SetJournal(d, k, j) EXCEPT !.staging = @ \ {k}] \in Directory
           /\ [SetJournal(d, k, j) EXCEPT !.staging = @ \ {k}].target = d.target
           /\ [SetJournal(d, k, j) EXCEPT !.staging = @ \ {k}].loose = d.loose
           /\ [SetJournal(d, k, j) EXCEPT !.staging = @ \ {k}].journal = [d.journal EXCEPT ![k] = j]
BY DEF Directory, SetJournal

-----------------------------------------------------------------------------
(* Consistency                                                             *)

\* A directory is clear, or has one journal, prepared or committed.
LEMMA ClearOrHas ==
    ASSUME NEW d \in Directory
    PROVE  /\ Clear(d) \/ Has(d, "prepared") \/ Has(d, "committed")
           /\ \A k \in Kind : d.journal[k] # NoJournal =>
                 d.journal[k].state \in {"prepared", "committed"} /\ Has(d, d.journal[k].state)
           /\ Clear(d) => ~Has(d, "prepared") /\ ~Has(d, "committed")
BY PendingFacts, JournalFacts DEF Clear, Has

\* What the journals of a directory cover.
LEMMA CoveredFacts ==
    ASSUME NEW d
    PROVE  /\ Clear(d) => Covered(d) = {}
           /\ \A k \in Kind : /\ d.journal[k].files \subseteq Covered(d)
                              /\ (\A l \in Kind : l = k \/ d.journal[l] = NoJournal)
                                    => Covered(d) = d.journal[k].files
BY JournalFacts DEF Clear, Covered

\* An fsync makes the directory durable as it is.
LEMMA SyncKeeps ==
    ASSUME NEW m \in Directory, NEW d \in Directory, NEW b, NEW a, Consistent(m, d, b, a)
    PROVE  Consistent(m, m, b, a)
<1>1. OneKind(m, m)
  BY DEF Consistent, OneKind
<1>2. Journaled(m, m, b, a)
  BY DEF Consistent, Journaled, Describes
<1>3. Recoverable(m, m, b, a)
  BY ClearOrHas DEF Consistent, Recoverable
<1> QED BY <1>1, <1>2, <1>3 DEF Consistent

\* Temporaries and staging files are no evidence.
LEMMA EvidenceOnly ==
    ASSUME NEW m, NEW d, NEW n, NEW e, NEW b, NEW a, Consistent(m, d, b, a),
           n.target = m.target, n.journal = m.journal, n.loose = m.loose,
           e.target = d.target, e.journal = d.journal, e.loose = d.loose
    PROVE  Consistent(n, e, b, a)
<1>1. Covered(n) = Covered(m) /\ Covered(e) = Covered(d)
  BY DEF Covered
<1>2. OneKind(n, e)
  BY <1>1 DEF Consistent, OneKind, Clear
<1>3. Journaled(n, e, b, a)
  BY DEF Consistent, Journaled, Describes
<1>4. Recoverable(n, e, b, a)
  BY <1>1 DEF Consistent, Recoverable, Clear, Has
<1> QED BY <1>2, <1>3, <1>4 DEF Consistent

\* A power loss leaves of each entry what it is or what is durable of it, and
\* of a content that was never fsynced anything.
Mixed(n, m, d) ==
    /\ n \in Directory
    /\ n.loose = {}
    /\ \A t \in Target : \/ n.target[t] \in {m.target[t], d.target[t]}
                         \/ n.target[t] = Torn /\ t \in m.loose \cup d.loose
    /\ \A k \in Kind : n.journal[k] \in {m.journal[k], d.journal[k]}

\* What is left of the evidence e.
Leaves(f, e, n, m, d) ==
    f = [t \in Target |->
            IF \/ t \in Covered(n)
               \/ t \in Covered(m) \cup Covered(d) /\ n.target[t] # Torn
            THEN e[t] ELSE n.target[t]]

LEMMA LossKeeps ==
    ASSUME NEW m \in Directory, NEW d \in Directory, NEW b \in [Target -> Content],
           NEW a \in [Target -> Content], Consistent(m, d, b, a),
           NEW n, Mixed(n, m, d),
           NEW f, Leaves(f, b, n, m, d), NEW g, Leaves(g, a, n, m, d)
    PROVE  Consistent(n, n, f, g)
<1>1. n \in Directory /\ n.target \in [Target -> Content] /\ n.loose = {}
  BY DirectoryFacts DEF Mixed
<1>2. OneKind(n, n)
  BY DEF Consistent, OneKind, Mixed
<1>3. \A state \in {"prepared", "committed"} : Has(n, state) => Has(m, state) \/ Has(d, state)
  BY DEF Has, Mixed
<1>4. Covered(n) \subseteq Covered(m) \cup Covered(d)
  BY DEF Covered, Mixed
<1>5. /\ \A t \in Target : t \in Covered(n) => f[t] = b[t] /\ g[t] = a[t]
      /\ \A t \in Target : t \notin Covered(n) =>
            /\ f[t] = n.target[t] \/ (f[t] = b[t] /\ n.target[t] # Torn)
            /\ g[t] = n.target[t] \/ (g[t] = a[t] /\ n.target[t] # Torn)
            /\ t \notin Covered(m) \cup Covered(d) => f[t] = n.target[t] /\ g[t] = n.target[t]
  BY DEF Leaves
<1>6. f = [t \in Target |-> f[t]] /\ g = [t \in Target |-> g[t]]
  BY DEF Leaves
<1>7. \A t \in Target : n.target[t] \in {m.target[t], d.target[t]}
                        \/ (n.target[t] = Torn /\ t \in m.loose \cup d.loose)
  BY DEF Mixed
<1>8. Journaled(n, n, f, g)
  <2> SUFFICES ASSUME NEW k \in Kind, n.journal[k] # NoJournal
               PROVE  Describes(n.journal[k], n, n, f, g)
    BY DEF Journaled
  <2>1. Describes(n.journal[k], m, d, b, a)
    BY DEF Consistent, Journaled, Mixed
  <2>2. Covered(n) = n.journal[k].files
    BY <1>2, CoveredFacts DEF OneKind
  <2>3. \A t \in Target \ n.journal[k].files : f[t] = n.target[t] /\ g[t] = n.target[t]
    BY <1>5, <1>7, <2>1, <2>2 DEF Describes
  <2>4. \A t \in n.journal[k].files : f[t] = b[t] /\ g[t] = a[t]
    BY <1>5, <2>1, <2>2 DEF Describes
  <2> QED BY <2>1, <2>3, <2>4 DEF Describes
<1>9. ASSUME Has(n, "prepared"), NEW t \in Target PROVE n.target[t] \in {f[t], g[t], Torn}
  <2>1. m.target[t] \in {b[t], a[t], Torn} /\ d.target[t] \in {b[t], a[t], Torn}
    BY <1>3, <1>9 DEF Consistent, Recoverable
  <2>2. PICK k \in Kind : n.journal[k].state = "prepared"
    BY <1>9 DEF Has
  <2>3. n.journal[k] # NoJournal
    BY <2>2, JournalFacts
  <2>4. t \notin n.journal[k].files => n.target[t] = f[t]
    BY <1>8, <2>3 DEF Journaled, Describes
  <2>5. t \in n.journal[k].files => t \in Covered(n)
    BY CoveredFacts
  <2> QED BY <1>5, <1>7, <2>1, <2>4, <2>5
<1>10. ASSUME Has(m, "committed") \/ Has(d, "committed") PROVE n.target = g
  <2>1. /\ m.target = a /\ d.target = a
        /\ (Covered(m) \cup Covered(d)) \cap (m.loose \cup d.loose) = {}
    BY <1>10 DEF Consistent, Recoverable
  <2>2. \A t \in Target : n.target[t] = g[t]
    BY <1>4, <1>5, <1>7, <2>1
  <2> QED BY <1>1, <1>6, <2>2
<1>11. ASSUME Clear(n) PROVE n.target \in {f, g}
  <2>1. Covered(n) = {}
    BY <1>11, CoveredFacts
  <2>2. CASE Clear(m) /\ Clear(d)
    <3>1. \A t \in Target : n.target[t] = f[t]
      BY <1>5, <2>1, <2>2, CoveredFacts
    <3> QED BY <1>1, <1>6, <3>1
  <2>3. CASE Has(m, "committed") \/ Has(d, "committed")
    BY <1>10, <2>3
  <2>4. CASE ~(Clear(m) /\ Clear(d)) /\ ~(Has(m, "committed") \/ Has(d, "committed"))
    <3>1. Clear(m) \/ Clear(d)
      <4> SUFFICES ASSUME ~Clear(m), ~Clear(d) PROVE FALSE
        OBVIOUS
      <4>1. PICK k \in Kind : m.journal[k] # NoJournal
        BY DEF Clear
      <4>2. PICK l \in Kind : d.journal[l] # NoJournal
        BY DEF Clear
      <4>3. k = l
        BY <4>1, <4>2 DEF Consistent, OneKind
      <4>4. n.journal[k] # NoJournal
        BY <4>1, <4>2, <4>3 DEF Mixed
      <4> QED BY <1>11, <4>4 DEF Clear
    <3>2. (Has(m, "prepared") /\ Clear(d)) \/ (Clear(m) /\ Has(d, "prepared"))
      BY <2>4, <3>1, ClearOrHas
    <3>3. m.target = b /\ d.target = b
      BY <3>2 DEF Consistent, Recoverable
    <3>4. \A t \in Target : n.target[t] = f[t]
      BY <1>5, <1>7, <2>1, <3>3
    <3> QED BY <1>1, <1>6, <3>4
  <2> QED BY <2>2, <2>3, <2>4
<1>12. ~(Has(n, "prepared") /\ Clear(n))
  BY <1>1, ClearOrHas
<1>13. Recoverable(n, n, f, g)
  <2>1. Has(n, "committed") => n.target = g /\ Covered(n) \cap n.loose = {}
    BY <1>1, <1>3, <1>10
  <2> QED BY <1>9, <1>11, <1>12, <2>1 DEF Recoverable
<1> QED BY <1>2, <1>8, <1>13 DEF Consistent

\* After a loss without any journal the evidence is what it is.
LEMMA FreshStart ==
    ASSUME NEW n, Clear(n)
    PROVE  Consistent(n, n, n.target, n.target)
BY JournalFacts DEF Clear, Consistent, OneKind, Journaled, Recoverable, Has

\* A step writes both histories as they are left.
LEMMA LossLeaves ==
    ASSUME LosePower
    PROVE  Leaves(before', before, mem', mem, disk) /\ Leaves(after', after, mem', mem, disk)
BY DEF LosePower, Left, Leaves

-----------------------------------------------------------------------------
(* The lock, kills and power losses                                        *)

LEMMA Typed ==
    ASSUME TypeOK
    PROVE  /\ mem \in Directory /\ disk \in Directory
           /\ mem.target \in [Target -> Content] /\ disk.target \in [Target -> Content]
           /\ mem.journal \in [Kind -> Journal] /\ disk.journal \in [Kind -> Journal]
           /\ before \in [Target -> Content] /\ after \in [Target -> Content]
           /\ tx \in Journal /\ todo \subseteq Target /\ kind \in Kind /\ ops \in 0..MaxOps
BY DirectoryFacts DEF TypeOK

LEMMA InitInv == Init => Inv
<1> SUFFICES ASSUME Init PROVE Inv
  OBVIOUS
<1>1. PICK present \in SUBSET Optional :
        mem = [target  |-> [t \in Target |-> IF t \in Optional \ present THEN Absent ELSE 0],
               loose   |-> {},
               temp    |-> {},
               journal |-> [k \in Kind |-> NoJournal],
               staging |-> {}]
  BY DEF Init
<1>2. /\ mem.target \in [Target -> Content] /\ Clear(mem) /\ mem \in Directory
  BY <1>1, BoundAssumption, JournalFacts DEF Content, Val, Clear, Directory
<1>3. TypeOK
  BY <1>2, BoundAssumption, JournalFacts DEF Init, TypeOK, Commands, Phases, Kind
<1>4. Consistent(mem, disk, before, after)
  BY <1>2, FreshStart DEF Init
<1> QED BY <1>3, <1>4 DEF Inv, Init, Process

LEMMA AcquireInv ==
    ASSUME Inv, NEW command \in Commands, NEW k \in Kind, Acquire(command, k)
    PROVE  Inv'
<1>1. TypeOK'
  BY JournalFacts DEF Inv, TypeOK, Acquire, history, Goto, Phases
<1>2. Consistent(mem, disk, before, after)'
  <2>1. Consistent(mem, mem, before, after)
    BY SyncKeeps, Typed DEF Inv
  <2> QED BY <2>1 DEF Acquire, history
<1>3. Process'
  BY DEF Acquire, Goto, Process, AtStart, Replacing, Recovering
<1> QED BY <1>1, <1>2, <1>3 DEF Inv

\* A lock that is gone: the directory may have been fsynced.
LEMMA UnlockedInv ==
    ASSUME Inv, Release \/ Unlock
    PROVE  Inv'
<1>1. /\ owner' = "none" /\ disk' \in {disk, mem}
      /\ UNCHANGED <<mem, op, kind, tx, todo, pc, ops, before, after>>
  BY DEF Release, Unlock, process, history
<1>2. TypeOK'
  BY <1>1 DEF Inv, TypeOK
<1>3. Consistent(mem, disk, before, after)'
  <2>1. Consistent(mem, mem, before, after) /\ Consistent(mem, disk, before, after)
    BY SyncKeeps, Typed DEF Inv
  <2> QED BY <1>1, <2>1
<1> QED BY <1>1, <1>2, <1>3 DEF Inv, Process

LEMMA CrashInv == ASSUME Inv, Crash PROVE Inv'
<1>1. owner' = "dead" /\ UNCHANGED <<mem, disk, op, kind, tx, todo, pc, ops, before, after>>
  BY DEF Crash, dirs, process, history
<1>2. TypeOK'
  BY <1>1 DEF Inv, TypeOK
<1>3. Consistent(mem, disk, before, after)'
  BY <1>1 DEF Inv
<1> QED BY <1>1, <1>2, <1>3 DEF Inv, Process

LEMMA LossMixes ==
    ASSUME TypeOK, LosePower
    PROVE  Mixed(mem', mem, disk) /\ disk' = mem'
<1>1. mem' \in [target  : {f \in [Target -> Content] :
                              \A t \in Target :
                                 \/ f[t] \in {mem.target[t], disk.target[t]}
                                 \/ f[t] = Torn /\ t \in mem.loose \cup disk.loose},
                loose   : {{}},
                temp    : {s \in SUBSET Target :
                              /\ mem.temp \cap disk.temp \subseteq s
                              /\ s \subseteq mem.temp \cup disk.temp},
                journal : {f \in [Kind -> {mem.journal[k] : k \in Kind}
                                          \cup {disk.journal[k] : k \in Kind}] :
                              \A k \in Kind : f[k] \in {mem.journal[k], disk.journal[k]}},
                staging : {s \in SUBSET Kind :
                              /\ mem.staging \cap disk.staging \subseteq s
                              /\ s \subseteq mem.staging \cup disk.staging}]
  BY DEF LosePower
<1>2. /\ mem'.target \in [Target -> Content] /\ mem'.loose = {}
      /\ \A t \in Target : \/ mem'.target[t] \in {mem.target[t], disk.target[t]}
                           \/ mem'.target[t] = Torn /\ t \in mem.loose \cup disk.loose
      /\ \A k \in Kind : mem'.journal[k] \in {mem.journal[k], disk.journal[k]}
      /\ mem'.temp \in SUBSET Target /\ mem'.staging \in SUBSET Kind
  BY <1>1
<1>3. mem'.journal \in [Kind -> Journal]
  <2>1. mem'.journal \in [Kind -> {mem.journal[k] : k \in Kind} \cup {disk.journal[k] : k \in Kind}]
    BY <1>1
  <2>2. \A k \in Kind : mem'.journal[k] \in Journal
    BY <1>2, Typed
  <2> QED BY <2>1, <2>2
<1>4. mem' = [target |-> mem'.target, loose |-> mem'.loose, temp |-> mem'.temp, journal |-> mem'.journal,
              staging |-> mem'.staging]
  BY <1>1
<1>5. mem' \in Directory
  BY <1>2, <1>3, <1>4 DEF Directory
<1> QED BY <1>2, <1>5 DEF Mixed, LosePower

LEMMA LosePowerInv == ASSUME Inv, LosePower PROVE Inv'
<1>1. Mixed(mem', mem, disk) /\ disk' = mem'
  BY LossMixes DEF Inv
<1>2. mem' \in Directory /\ mem'.target \in [Target -> Content]
  BY <1>1, DirectoryFacts DEF Mixed
<1>3. owner' \in {"none", "dead"} /\ UNCHANGED <<op, kind, tx, todo, pc, ops>>
  BY DEF LosePower, process
<1>4. Leaves(before', before, mem', mem, disk) /\ Leaves(after', after, mem', mem, disk)
  BY LossLeaves
<1>5. before' \in [Target -> Content] /\ after' \in [Target -> Content]
  BY <1>2, <1>4, Typed DEF Inv, Leaves
<1>6. TypeOK'
  BY <1>1, <1>2, <1>3, <1>5 DEF Inv, TypeOK
<1>7. Consistent(mem', mem', before', after')
  BY <1>1, <1>4, LossKeeps, Typed DEF Inv
<1> QED BY <1>1, <1>3, <1>6, <1>7 DEF Inv, Process

-----------------------------------------------------------------------------
(* Ordinary writers, and commands that end                                 *)

LEMMA ClearConsistent ==
    ASSUME NEW m, NEW d, NEW b, NEW a, Clear(m), Clear(d), m.target \in {b, a}
    PROVE  Consistent(m, d, b, a)
BY JournalFacts DEF Clear, Consistent, OneKind, Journaled, Recoverable, Has

LEMMA NothingPendingIsClear ==
    ASSUME TypeOK PROVE NothingPending <=> Clear(mem)
BY PendingFacts, Typed DEF NothingPending, Pending, Clear

LEMMA WriteInv == ASSUME Inv, NEW t \in Target, Write(t) PROVE Inv'
<1>1. /\ owner = "live" /\ op = "write" /\ pc = "start" /\ ops < MaxOps /\ ops' = ops + 1
      /\ mem' = Rename(mem, t, ops + 1)
      /\ before' = [before EXCEPT ![t] = ops + 1] /\ after' = [after EXCEPT ![t] = ops + 1]
      /\ UNCHANGED <<disk, owner, op, kind, tx, todo, pc>>
  BY DEF Write, At, process
<1>2. Clear(mem) /\ Clear(disk) /\ mem.target \in {before, after}
  <2>1. Clear(mem)
    BY NothingPendingIsClear DEF Write, Inv
  <2>2. disk.journal = mem.journal
    BY <1>1 DEF Inv, Process, AtStart
  <2>3. Clear(disk)
    BY <2>1, <2>2 DEF Clear
  <2> QED BY <2>1, <2>3 DEF Inv, Consistent, Recoverable
<1>3. ops + 1 \in Val /\ ops + 1 \in Content /\ ops + 1 \in 0..MaxOps
  BY <1>1, Typed, BoundAssumption DEF Inv, Val, Content
<1>4. /\ mem' \in Directory /\ mem'.journal = mem.journal
      /\ mem'.target = [mem.target EXCEPT ![t] = ops + 1]
  <2>1. mem \in Directory
    BY Typed DEF Inv
  <2>2. /\ Rename(mem, t, ops + 1) \in Directory
        /\ Rename(mem, t, ops + 1).journal = mem.journal
        /\ Rename(mem, t, ops + 1).target = [mem.target EXCEPT ![t] = ops + 1]
    BY <1>3, <2>1, RenameUpdate
  <2> QED BY <1>1, <2>2
<1>5. TypeOK'
  <2>1. before' \in [Target -> Content] /\ after' \in [Target -> Content]
    BY <1>1, <1>3, Typed DEF Inv
  <2> QED BY <1>1, <1>3, <1>4, <2>1 DEF Inv, TypeOK
<1>6. Consistent(mem, disk, before, after)'
  <2>1. Clear(mem')
    BY <1>2, <1>4 DEF Clear
  <2>2. mem'.target \in {before', after'}
    BY <1>1, <1>2, <1>4
  <2> QED BY <1>1, <1>2, <2>1, <2>2, ClearConsistent
<1>7. Process'
  BY <1>1, <1>4 DEF Inv, Process, AtStart
<1> QED BY <1>5, <1>6, <1>7 DEF Inv

\* A command that is refused, or fails and leaves what is there.
LEMMA StopInv ==
    ASSUME Inv, pc' = "done", UNCHANGED <<disk, owner, op, kind, tx, todo, ops, before, after>>,
           mem' \in Directory, mem'.target = mem.target, mem'.journal = mem.journal,
           mem'.loose = mem.loose
    PROVE  Inv'
<1>1. TypeOK'
  BY DEF Inv, TypeOK, Phases
<1>2. Consistent(mem, disk, before, after)'
  BY EvidenceOnly DEF Inv
<1>3. Process'
  BY DEF Inv, Process, AtStart, Replacing, Recovering
<1> QED BY <1>1, <1>2, <1>3 DEF Inv

LEMMA StopsInv ==
    ASSUME Inv, \/ EndWrites \/ RefuseReplace \/ FailReplace
                \/ RefuseRecovery \/ NothingToRecover \/ FailRecovery
    PROVE  Inv'
<1>1. mem \in Directory /\ kind \in Kind
  BY Typed DEF Inv
<1>2. /\ pc' = "done" /\ UNCHANGED <<disk, owner, op, kind, tx, todo, ops, before, after>>
      /\ mem' = mem \/ mem' = [mem EXCEPT !.staging = @ \ {kind}]
  BY DEF EndWrites, RefuseReplace, FailReplace, RefuseRecovery, NothingToRecover, FailRecovery,
         Goto, dirs, process, history
<1>3. /\ mem' \in Directory /\ mem'.target = mem.target /\ mem'.journal = mem.journal
      /\ mem'.loose = mem.loose
  <2>1. /\ [mem EXCEPT !.staging = @ \ {kind}] \in Directory
        /\ [mem EXCEPT !.staging = @ \ {kind}].target = mem.target
        /\ [mem EXCEPT !.staging = @ \ {kind}].loose = mem.loose
        /\ [mem EXCEPT !.staging = @ \ {kind}].journal = mem.journal
    BY <1>1 DEF Directory
  <2> QED BY <1>1, <1>2, <2>1
<1> QED BY <1>2, <1>3, StopInv

-----------------------------------------------------------------------------
(* The transaction                                                         *)

LEMMA PlanInv ==
    ASSUME ~ReadFaults, Inv, NEW files \in SUBSET Target, NEW unread \in SUBSET Target,
           Plan(files, unread)
    PROVE  Inv'
<1> DEFINE b == [t \in files |-> mem.target[t]]
           a == [t \in files |-> ops + 1]
<1>1. /\ owner = "live" /\ op = "replace" /\ pc = "start" /\ NothingPending
      /\ ops < MaxOps /\ ops' = ops + 1 /\ unread = {}
      /\ before' = mem.target
      /\ after' = [t \in Target |-> IF t \in files THEN ops + 1 ELSE mem.target[t]]
      /\ pc' = "planned"
      /\ UNCHANGED <<mem, disk, owner, op, kind, todo>>
  BY DEF Plan, At, Startable, Goto, dirs
<1>2. tx' = [state |-> "prepared", files |-> files, before |-> b, after |-> a]
  BY <1>1 DEF Plan
<1>3. Clear(mem) /\ Clear(disk) /\ disk.target = mem.target /\ disk.loose = mem.loose
  <2>1. Clear(mem)
    BY <1>1, NothingPendingIsClear DEF Inv
  <2>2. disk.journal = mem.journal /\ disk.target = mem.target /\ disk.loose = mem.loose
    BY <1>1 DEF Inv, Process, AtStart
  <2> QED BY <2>1, <2>2 DEF Clear
<1>4. ops \in Nat /\ ops + 1 \in Val /\ ops + 1 \in Content /\ ops + 1 \in 0..MaxOps /\ ops + 1 > 0
  BY <1>1, Typed, BoundAssumption DEF Inv, Val, Content
<1>5. tx' \in Journal /\ tx' # NoJournal
  <2>1. b \in [files -> Content] /\ a \in [files -> Val]
    BY <1>4, Typed DEF Inv
  <2> QED BY <1>2, <2>1, MakeJournal
<1>6. TypeOK'
  <2>1. before' \in [Target -> Content] /\ after' \in [Target -> Content]
    BY <1>1, <1>4, Typed DEF Inv
  <2> QED BY <1>1, <1>4, <1>5, <2>1 DEF Inv, TypeOK, Phases
<1>7. Consistent(mem, disk, before, after)'
  BY <1>1, <1>3, ClearConsistent
<1>8. Describes(tx', mem, disk, before', after')
  BY <1>1, <1>2, <1>3 DEF Describes
<1>9. Process'
  BY <1>1, <1>2, <1>3, <1>4, <1>5, <1>8 DEF Process, AtStart, Replacing, Clear, Describes
<1> QED BY <1>6, <1>7, <1>9 DEF Inv

\* What a replacing command relies on.
LEMMA Live ==
    ASSUME Inv, NEW phase, At("replace", phase)
    PROVE  Replacing /\ pc = phase /\ owner = "live" /\ op = "replace"
BY DEF Inv, Process, At

\* Staging and temporary files are no evidence.
LEMMA NoEvidence ==
    ASSUME Inv, UNCHANGED <<disk, before, after>>,
           \/ mem' = [mem EXCEPT !.staging = @ \cup {kind}]
           \/ mem' = [mem EXCEPT !.staging = @ \ {kind}]
           \/ \E t \in Target : mem' = [mem EXCEPT !.temp = @ \cup {t}]
    PROVE  /\ mem' \in Directory /\ mem'.target = mem.target /\ mem'.journal = mem.journal
           /\ mem'.loose = mem.loose /\ Consistent(mem, disk, before, after)'
<1>1. mem \in Directory /\ kind \in Kind
  BY Typed DEF Inv
<1>2. /\ mem' \in Directory /\ mem'.target = mem.target /\ mem'.journal = mem.journal
      /\ mem'.loose = mem.loose
  BY <1>1 DEF Directory
<1>3. Consistent(mem, disk, before, after)
  BY DEF Inv
<1>4. Consistent(mem', disk', before, after)
  BY <1>2, <1>3, EvidenceOnly
<1> QED BY <1>2, <1>4

LEMMA StageJournalInv == ASSUME Inv, StageJournal PROVE Inv'
<1>1. /\ Replacing /\ owner = "live" /\ op = "replace" /\ pc = "planned" /\ pc' = "staged"
      /\ mem' = [mem EXCEPT !.staging = @ \cup {kind}]
      /\ UNCHANGED <<disk, owner, op, kind, tx, todo, ops, before, after>>
  BY Live DEF StageJournal, Goto, process, history
<1>2. /\ mem' \in Directory /\ mem'.target = mem.target /\ mem'.journal = mem.journal
      /\ mem'.loose = mem.loose /\ Consistent(mem, disk, before, after)'
  BY <1>1, NoEvidence
<1>3. TypeOK'
  BY <1>1, <1>2 DEF Inv, TypeOK, Phases
<1>4. Process'
  BY <1>1, <1>2 DEF Process, AtStart, Replacing, Clear, Describes
<1> QED BY <1>2, <1>3, <1>4 DEF Inv

LEMMA UnstageJournalInv == ASSUME Inv, UnstageJournal PROVE Inv'
<1>1. /\ Replacing /\ owner = "live" /\ op = "replace" /\ pc = "linked" /\ pc' = "published"
      /\ mem' = [mem EXCEPT !.staging = @ \ {kind}]
      /\ UNCHANGED <<disk, owner, op, kind, tx, todo, ops, before, after>>
  BY Live DEF UnstageJournal, Goto, process, history
<1>2. /\ mem' \in Directory /\ mem'.target = mem.target /\ mem'.journal = mem.journal
      /\ mem'.loose = mem.loose /\ Consistent(mem, disk, before, after)'
  BY <1>1, NoEvidence
<1>3. TypeOK'
  BY <1>1, <1>2 DEF Inv, TypeOK, Phases
<1>4. Process'
  BY <1>1, <1>2 DEF Process, AtStart, Replacing
<1> QED BY <1>2, <1>3, <1>4 DEF Inv

LEMMA StageCommitInv == ASSUME Inv, StageCommit PROVE Inv'
<1>1. /\ Replacing /\ owner = "live" /\ op = "replace" /\ pc = "committing" /\ pc' = "commitStaged"
      /\ mem' = [mem EXCEPT !.staging = @ \cup {kind}]
      /\ UNCHANGED <<disk, owner, op, kind, tx, todo, ops, before, after>>
  BY Live DEF StageCommit, Goto, process, history
<1>2. /\ mem' \in Directory /\ mem'.target = mem.target /\ mem'.journal = mem.journal
      /\ mem'.loose = mem.loose /\ Consistent(mem, disk, before, after)'
  BY <1>1, NoEvidence
<1>3. TypeOK'
  BY <1>1, <1>2 DEF Inv, TypeOK, Phases
<1>4. Process'
  BY <1>1, <1>2 DEF Process, AtStart, Replacing, Both
<1> QED BY <1>2, <1>3, <1>4 DEF Inv

LEMMA WriteTemporaryInv == ASSUME Inv, NEW t \in Target, WriteTemporary(t) PROVE Inv'
<1>1. /\ Replacing /\ owner = "live" /\ op = "replace" /\ pc = "writing" /\ todo' = todo \ {t}
      /\ mem' = [mem EXCEPT !.temp = @ \cup {t}]
      /\ UNCHANGED <<disk, owner, op, kind, pc, tx, ops, before, after>>
  BY Live DEF WriteTemporary, history
<1>2. /\ mem' \in Directory /\ mem'.target = mem.target /\ mem'.journal = mem.journal
      /\ mem'.loose = mem.loose /\ Consistent(mem, disk, before, after)'
  BY <1>1, NoEvidence
<1>3. TypeOK'
  BY <1>1, <1>2 DEF Inv, TypeOK, Phases
<1>4. Process'
  BY <1>1, <1>2 DEF Process, AtStart, Replacing, Both
<1> QED BY <1>2, <1>3, <1>4 DEF Inv

LEMMA TemporariesWrittenInv == ASSUME Inv, TemporariesWritten PROVE Inv'
<1>1. /\ Replacing /\ owner = "live" /\ op = "replace" /\ pc = "writing" /\ pc' = "replacing"
      /\ todo' = tx.files
      /\ UNCHANGED <<mem, disk, owner, op, kind, tx, ops, before, after>>
  BY Live DEF TemporariesWritten, Goto, dirs, history
<1>2. tx.files \subseteq Target
  BY <1>1, Typed, JournalFacts DEF Inv, Replacing
<1>3. TypeOK'
  BY <1>1, <1>2 DEF Inv, TypeOK, Phases
<1>4. Process'
  BY <1>1 DEF Process, AtStart, Replacing, Both
<1> QED BY <1>1, <1>3, <1>4 DEF Inv

\* The journal becomes visible, then durable: nothing has been replaced yet.
LEMMA PublishJournalInv == ASSUME Inv, PublishJournal PROVE Inv'
<1>1. /\ Replacing /\ owner = "live" /\ op = "replace" /\ pc = "staged" /\ pc' = "linked"
      /\ mem' = SetJournal(mem, kind, tx)
      /\ UNCHANGED <<disk, owner, op, kind, tx, todo, ops, before, after>>
  BY Live DEF PublishJournal, Goto, process, history
<1>2. /\ Clear(mem) /\ Clear(disk) /\ mem.target = before /\ disk.target = before
      /\ tx # NoJournal /\ tx.state = "prepared" /\ Describes(tx, mem, disk, before, after)
      /\ mem.loose = disk.loose
  BY <1>1 DEF Replacing
<1>3. /\ mem' \in Directory /\ mem'.target = mem.target /\ mem'.loose = mem.loose
      /\ mem'.journal[kind] = tx /\ \A k \in Kind \ {kind} : mem'.journal[k] = NoJournal
  <2>1. /\ SetJournal(mem, kind, tx) \in Directory
        /\ SetJournal(mem, kind, tx).target = mem.target
        /\ SetJournal(mem, kind, tx).loose = mem.loose
        /\ SetJournal(mem, kind, tx).journal = [mem.journal EXCEPT ![kind] = tx]
    <3>1. mem \in Directory /\ kind \in Kind /\ tx \in Journal
      BY Typed DEF Inv
    <3> QED BY <3>1, JournalUpdate
  <2> QED BY <1>1, <1>2, <2>1, Typed DEF Inv, Clear
<1>4. TypeOK'
  BY <1>1, <1>3 DEF Inv, TypeOK, Phases
<1>5. Consistent(mem', disk, before, after)
  <2>1. OneKind(mem', disk)
    BY <1>2, <1>3 DEF OneKind, Clear
  <2>2. Journaled(mem', disk, before, after)
    BY <1>2, <1>3 DEF Journaled, Describes, Clear
  <2>3. ~Has(mem', "committed") /\ ~Has(disk, "committed")
    BY <1>2, <1>3, JournalFacts DEF Has, Clear
  <2>4. Recoverable(mem', disk, before, after)
    BY <1>2, <1>3, <2>3 DEF Recoverable
  <2> QED BY <2>1, <2>2, <2>4 DEF Consistent
<1>6. Process'
  BY <1>1, <1>2, <1>3 DEF Process, AtStart, Replacing
<1> QED BY <1>1, <1>4, <1>5, <1>6 DEF Inv

LEMMA SyncPublicationInv == ASSUME Inv, SyncPublication PROVE Inv'
<1>1. /\ Replacing /\ owner = "live" /\ op = "replace" /\ pc = "published" /\ pc' = "writing"
      /\ disk' = mem /\ todo' = tx.files
      /\ UNCHANGED <<mem, owner, op, kind, tx, ops, before, after>>
  BY Live DEF SyncPublication, Goto, history
<1>2. tx.files \subseteq Target
  BY <1>1, Typed, JournalFacts DEF Inv, Replacing
<1>3. TypeOK'
  BY <1>1, <1>2 DEF Inv, TypeOK, Phases
<1>4. Consistent(mem, mem, before, after)
  BY SyncKeeps, Typed DEF Inv
<1>5. Process'
  BY <1>1 DEF Process, AtStart, Replacing, Both
<1> QED BY <1>1, <1>3, <1>4, <1>5 DEF Inv

\* While a prepared journal is durable, a file of it may become old or new.
LEMMA RewriteKeeps ==
    ASSUME Inv, Both(tx), tx.state = "prepared", NEW t \in tx.files,
           NEW v \in {tx.before[t], tx.after[t]},
           mem' = [SetTarget(mem, t, v) EXCEPT !.temp = @ \ {t}],
           UNCHANGED <<disk, before, after>>
    PROVE  /\ t \in Target /\ v \in {before[t], after[t]}
           /\ tx.before[t] = before[t] /\ tx.after[t] = after[t]
           /\ mem' \in Directory /\ mem'.journal = mem.journal
           /\ mem'.target = [mem.target EXCEPT ![t] = v] /\ mem'.loose = mem.loose \ {t}
           /\ Consistent(mem, disk, before, after)'
<1>1. /\ mem \in Directory /\ tx \in Journal /\ kind \in Kind /\ tx # NoJournal
      /\ mem.target \in [Target -> Content] /\ Consistent(mem, disk, before, after)
  BY Typed, JournalFacts DEF Inv
<1>2. Describes(tx, mem, disk, before, after)
  BY <1>1 DEF Consistent, Journaled, Both
<1>3. t \in Target /\ tx.before[t] = before[t] /\ tx.after[t] = after[t]
  BY <1>2 DEF Describes
<1>4. v \in Content
  BY <1>1, JournalFacts DEF Content
<1>5. /\ mem' \in Directory /\ mem'.journal = mem.journal
      /\ mem'.target = [mem.target EXCEPT ![t] = v] /\ mem'.loose = mem.loose \ {t}
  BY <1>1, <1>3, <1>4, TargetUpdate
<1>6. mem'.target[t] = v /\ \A u \in Target \ {t} : mem'.target[u] = mem.target[u]
  BY <1>1, <1>3, <1>5
<1>7. OneKind(mem', disk)
  BY <1>1, <1>5 DEF Consistent, OneKind, Clear, Covered
<1>8. \A k \in Kind \ {kind} : mem.journal[k] = NoJournal /\ disk.journal[k] = NoJournal
  BY <1>1 DEF Consistent, OneKind, Both
<1>9. Journaled(mem', disk, before, after)
  <2>1. Describes(tx, mem', disk, before, after)
    BY <1>2, <1>6 DEF Describes
  <2> QED BY <1>5, <1>8, <2>1 DEF Journaled, Both
<1>10. Recoverable(mem', disk, before, after)
  <2>1. Has(mem, "prepared") /\ ~Clear(mem') /\ ~Clear(disk)
    BY <1>1, <1>5 DEF Has, Clear, Both
  <2>2. ~Has(mem', "committed") /\ ~Has(disk, "committed")
    BY <1>5, <1>8, JournalFacts DEF Has, Both
  <2>3. \A u \in Target : /\ mem.target[u] \in {before[u], after[u], Torn}
                          /\ disk.target[u] \in {before[u], after[u], Torn}
    BY <1>1, <2>1 DEF Consistent, Recoverable
  <2>4. \A u \in Target : mem'.target[u] \in {before[u], after[u], Torn}
    BY <1>3, <1>6, <2>3
  <2> QED BY <2>1, <2>2, <2>3, <2>4 DEF Recoverable
<1> QED BY <1>3, <1>5, <1>7, <1>9, <1>10 DEF Consistent

LEMMA ReplaceInv == ASSUME Inv, NEW t \in Target, Replace(t) PROVE Inv'
<1>1. /\ Replacing /\ owner = "live" /\ op = "replace" /\ pc = "replacing"
      /\ t \in todo /\ todo' = todo \ {t}
      /\ mem' = [SetTarget(mem, t, tx.after[t]) EXCEPT !.temp = @ \ {t}]
      /\ UNCHANGED <<disk, owner, op, kind, pc, tx, ops, before, after>>
  BY Live DEF Replace, history
<1>2. /\ Both(tx) /\ tx.state = "prepared" /\ t \in tx.files /\ todo \subseteq tx.files
      /\ \A u \in tx.files \ todo : mem.target[u] = after[u] /\ u \notin mem.loose
  BY <1>1 DEF Replacing
<1>3. /\ mem' \in Directory /\ mem'.journal = mem.journal /\ tx.after[t] = after[t]
      /\ mem'.target = [mem.target EXCEPT ![t] = tx.after[t]] /\ mem'.loose = mem.loose \ {t}
      /\ Consistent(mem, disk, before, after)'
  BY <1>1, <1>2, RewriteKeeps
<1>4. TypeOK'
  BY <1>1, <1>3 DEF Inv, TypeOK, Phases
<1>5. \A u \in tx.files \ todo' : mem'.target[u] = after[u] /\ u \notin mem'.loose
  <2>1. mem.target \in [Target -> Content] /\ tx.files \subseteq Target
    BY <1>1, Typed, JournalFacts DEF Inv, Replacing
  <2> QED BY <1>1, <1>2, <1>3, <2>1
<1>6. Process'
  BY <1>1, <1>2, <1>3, <1>5 DEF Process, AtStart, Replacing, Both
<1> QED BY <1>3, <1>4, <1>6 DEF Inv

\* All are replaced, and durably so, when the journal is marked committed.
LEMMA SyncTargetsInv == ASSUME Inv, SyncTargets PROVE Inv'
<1>1. /\ Replacing /\ owner = "live" /\ op = "replace" /\ pc = "replacing" /\ pc' = "committing"
      /\ todo = {} /\ disk' = mem /\ tx' = [tx EXCEPT !.state = "committed"]
      /\ UNCHANGED <<mem, owner, op, kind, todo, ops, before, after>>
  BY Live DEF SyncTargets, Goto, history
<1>2. /\ Both(tx) /\ tx.state = "prepared" /\ tx # NoJournal
      /\ tx.after = [t \in tx.files |-> ops] /\ ops > 0
  BY <1>1 DEF Replacing
<1>9. \A t \in tx.files : mem.target[t] = after[t] /\ t \notin mem.loose
  BY <1>1 DEF Replacing
<1>3. tx \in Journal /\ mem.target \in [Target -> Content] /\ after \in [Target -> Content]
  BY Typed DEF Inv
<1>4. /\ tx' \in Journal /\ tx' # NoJournal /\ tx'.state = "committed"
      /\ tx'.files = tx.files /\ tx'.after = tx.after
      /\ [tx' EXCEPT !.state = "prepared"] = tx
  <2>1. tx.state = "prepared" /\ tx # NoJournal /\ tx \in Journal
    BY <1>2, <1>3
  <2>2. tx' = [tx EXCEPT !.state = "committed"]
    BY <1>1
  <2>3. /\ tx' \in Journal /\ tx' # NoJournal /\ tx'.state = "committed"
        /\ tx'.files = tx.files /\ tx'.after = tx.after
        /\ [tx' EXCEPT !.state = tx.state] = tx
    BY <2>1, <2>2, ChangeState
  <2> QED BY <2>1, <2>3
<1>5. mem.target = after
  <2>1. Describes(tx, mem, disk, before, after)
    BY <1>2, Typed DEF Inv, Consistent, Journaled, Both
  <2>2. \A t \in Target : mem.target[t] = after[t]
    BY <1>9, <2>1 DEF Describes
  <2> QED BY <1>3, <2>2
<1>6. TypeOK'
  BY <1>1, <1>4 DEF Inv, TypeOK, Phases
<1>7. Consistent(mem, mem, before, after)
  BY SyncKeeps, Typed DEF Inv
<1>8. Process'
  BY <1>1, <1>2, <1>4, <1>5, <1>9 DEF Process, AtStart, Replacing, Both
<1> QED BY <1>1, <1>6, <1>7, <1>8 DEF Inv

\* The commit: from the old evidence to the new.
LEMMA CommitInv == ASSUME Inv, Commit PROVE Inv'
<1>1. /\ Replacing /\ owner = "live" /\ op = "replace" /\ pc = "commitStaged" /\ pc' = "committed"
      /\ mem' = [SetJournal(mem, kind, tx) EXCEPT !.staging = @ \ {kind}]
      /\ UNCHANGED <<disk, owner, op, kind, tx, todo, ops, before, after>>
  BY Live DEF Commit, Goto, process, history
<1>2. /\ tx # NoJournal /\ tx.state = "committed" /\ mem.target = after /\ disk.target = after
      /\ Both([tx EXCEPT !.state = "prepared"])
  BY <1>1 DEF Replacing
<1>10. \A t \in tx.files : t \notin mem.loose /\ t \notin disk.loose
  BY <1>1 DEF Replacing
<1>3. /\ mem \in Directory /\ tx \in Journal /\ kind \in Kind /\ mem.journal \in [Kind -> Journal]
      /\ Consistent(mem, disk, before, after)
  BY Typed DEF Inv
<1> DEFINE j == [tx EXCEPT !.state = "prepared"]
<1>4. /\ j \in Journal /\ j # NoJournal
      /\ j.files = tx.files /\ j.before = tx.before /\ j.after = tx.after
  BY <1>2, <1>3, ChangeState
<1>5. /\ mem' \in Directory /\ mem'.target = mem.target /\ mem'.loose = mem.loose
      /\ mem'.journal = [mem.journal EXCEPT ![kind] = tx]
  BY <1>1, <1>3, JournalUpdate
<1>6. /\ mem'.journal[kind] = tx
      /\ \A k \in Kind \ {kind} : mem'.journal[k] = NoJournal /\ disk.journal[k] = NoJournal
  BY <1>2, <1>3, <1>4, <1>5 DEF Consistent, OneKind, Both
<1>7. TypeOK'
  BY <1>1, <1>5 DEF Inv, TypeOK, Phases
<1>8. Consistent(mem', disk, before, after)
  <2>1. Describes(j, mem, disk, before, after)
    BY <1>2, <1>3, <1>4 DEF Consistent, Journaled, Both
  <2>2. Describes(j, mem', disk, before, after) /\ Describes(tx, mem', disk, before, after)
    BY <1>4, <1>5, <2>1 DEF Describes
  <2>0. disk.journal[kind] = j
    BY <1>2 DEF Both
  <2>7. Covered(mem') = tx.files /\ Covered(disk) = tx.files
    <3>1. /\ \A l \in Kind : l = kind \/ mem'.journal[l] = NoJournal
          /\ \A l \in Kind : l = kind \/ disk.journal[l] = NoJournal
      BY <1>6
    <3>2. Covered(mem') = mem'.journal[kind].files
      BY <1>3, <3>1, CoveredFacts
    <3>3. Covered(disk) = disk.journal[kind].files
      BY <1>3, <3>1, CoveredFacts
    <3> QED BY <1>4, <1>6, <2>0, <3>2, <3>3
  <2>3. OneKind(mem', disk)
    BY <1>6, <2>7 DEF OneKind
  <2>4. Journaled(mem', disk, before, after)
    BY <1>2, <1>6, <2>2 DEF Journaled, Both
  <2>5. ~Clear(mem') /\ ~Clear(disk)
    BY <1>2, <1>3, <1>4, <1>6 DEF Clear, Both
  <2>6. Recoverable(mem', disk, before, after)
    BY <1>2, <1>5, <1>10, <2>5, <2>7 DEF Recoverable
  <2> QED BY <2>3, <2>4, <2>6 DEF Consistent
<1>9. Process'
  BY <1>1, <1>2, <1>6 DEF Process, AtStart, Replacing
<1> QED BY <1>1, <1>7, <1>8, <1>9 DEF Inv

LEMMA SyncCommitInv == ASSUME Inv, SyncCommit PROVE Inv'
<1>1. /\ Replacing /\ owner = "live" /\ op = "replace" /\ pc = "committed" /\ pc' = "cleanup"
      /\ disk' = mem
      /\ UNCHANGED <<mem, owner, op, kind, tx, todo, ops, before, after>>
  BY Live DEF SyncCommit, Goto, process, history
<1>2. TypeOK'
  BY <1>1 DEF Inv, TypeOK, Phases
<1>3. Consistent(mem, mem, before, after)
  BY SyncKeeps, Typed DEF Inv
<1>4. Process'
  BY <1>1 DEF Process, AtStart, Replacing, Both
<1> QED BY <1>1, <1>2, <1>3, <1>4 DEF Inv

\* A journal that decides nothing any more is removed.
LEMMA RemovalKeeps ==
    ASSUME Inv, Both(tx), tx # NoJournal,
           tx.state = "prepared" =>
              mem.target = before /\ disk.target = before /\ mem.loose = disk.loose,
           mem' = SetJournal(mem, kind, NoJournal),
           UNCHANGED <<disk, before, after>>
    PROVE  /\ mem' \in Directory /\ mem'.target = mem.target
           /\ Consistent(mem, disk, before, after)'
<1>1. /\ mem \in Directory /\ tx \in Journal /\ kind \in Kind /\ mem.journal \in [Kind -> Journal]
      /\ Consistent(mem, disk, before, after)
  BY Typed DEF Inv
<1>2. /\ mem' \in Directory /\ mem'.target = mem.target /\ mem'.loose = mem.loose
      /\ mem'.journal = [mem.journal EXCEPT ![kind] = NoJournal]
  <2>1. NoJournal \in Journal
    BY JournalFacts
  <2>2. /\ SetJournal(mem, kind, NoJournal) \in Directory
        /\ SetJournal(mem, kind, NoJournal).target = mem.target
        /\ SetJournal(mem, kind, NoJournal).loose = mem.loose
        /\ SetJournal(mem, kind, NoJournal).journal = [mem.journal EXCEPT ![kind] = NoJournal]
    BY <1>1, <2>1 DEF Directory, SetJournal
  <2> QED BY <2>2
<1>3. /\ disk.journal[kind] = tx /\ Clear(mem')
      /\ \A k \in Kind \ {kind} : disk.journal[k] = NoJournal
  BY <1>1, <1>2 DEF Consistent, OneKind, Both, Clear
<1>4. OneKind(mem', disk)
  BY <1>3 DEF OneKind, Clear
<1>5. Journaled(mem', disk, before, after)
  <2>1. Describes(tx, mem, disk, before, after)
    BY <1>1 DEF Consistent, Journaled, Both
  <2>2. Describes(tx, mem', disk, before, after)
    BY <1>2, <2>1 DEF Describes
  <2> QED BY <1>3, <2>2 DEF Journaled, Clear
<1>6. Recoverable(mem', disk, before, after)
  <2>1. ~Has(mem', "prepared") /\ ~Has(mem', "committed") /\ ~Clear(disk)
    BY <1>1, <1>3, JournalFacts DEF Has, Clear
  <2>2. tx.state \in {"prepared", "committed"}
    BY <1>1, JournalFacts
  <2>3. CASE tx.state = "prepared"
    <3>1. ~Has(disk, "committed")
      BY <1>3, <2>3, JournalFacts DEF Has
    <3> QED BY <1>2, <2>1, <2>3, <3>1 DEF Recoverable
  <2>4. CASE tx.state = "committed"
    <3>1. ~Has(disk, "prepared") /\ Has(disk, "committed")
      BY <1>1, <1>3, <2>4, JournalFacts DEF Has
    <3>2. /\ mem.target = after /\ disk.target = after
          /\ (Covered(mem) \cup Covered(disk)) \cap (mem.loose \cup disk.loose) = {}
      BY <1>1, <3>1 DEF Consistent, Recoverable
    <3>3. Covered(mem') = {}
      BY <1>3, CoveredFacts
    <3> QED BY <1>2, <2>1, <3>1, <3>2, <3>3 DEF Recoverable
  <2> QED BY <2>2, <2>3, <2>4
<1> QED BY <1>2, <1>4, <1>5, <1>6 DEF Consistent

LEMMA RemoveJournalInv == ASSUME Inv, RemoveJournal PROVE Inv'
<1>1. /\ Replacing /\ owner = "live" /\ op = "replace" /\ pc = "cleanup" /\ pc' = "done"
      /\ mem' = SetJournal(mem, kind, NoJournal)
      /\ UNCHANGED <<disk, owner, op, kind, tx, todo, ops, before, after>>
  BY Live DEF RemoveJournal, Goto, process, history
<1>2. Both(tx) /\ tx.state = "committed"
  BY <1>1 DEF Replacing
<1>3. mem' \in Directory /\ Consistent(mem, disk, before, after)'
  BY <1>1, <1>2, JournalFacts, RemovalKeeps
<1>4. TypeOK'
  BY <1>1, <1>3 DEF Inv, TypeOK, Phases
<1>5. Process'
  BY <1>1 DEF Process, AtStart, Replacing
<1> QED BY <1>3, <1>4, <1>5 DEF Inv

-----------------------------------------------------------------------------
(* Recovery                                                                *)

LEMMA LiveRecovery ==
    ASSUME Inv, owner = "live", op = "recover"
    PROVE  Recovering /\ AtStart
BY DEF Inv, Process

LEMMA ReadJournalInv == ASSUME Inv, ReadJournal PROVE Inv'
<1>1. /\ AtStart /\ owner = "live" /\ op = "recover" /\ pc = "start"
      /\ mem.journal[kind].state # "none"
      /\ tx' = mem.journal[kind] /\ todo' = mem.journal[kind].files
      /\ pc' = IF mem.journal[kind].state = "prepared" THEN "restoring" ELSE "forwarding"
      /\ UNCHANGED <<mem, disk, owner, op, kind, ops, before, after>>
  BY LiveRecovery DEF ReadJournal, At, Pending, Goto, dirs, history
<1>2. disk.journal = mem.journal
  BY <1>1 DEF AtStart
<1>3. /\ tx' \in Journal /\ tx' # NoJournal /\ tx'.state \in {"prepared", "committed"}
      /\ tx'.files \subseteq Target /\ todo' = tx'.files
  BY <1>1, Typed, JournalFacts DEF Inv
<1>4. TypeOK'
  BY <1>1, <1>3 DEF Inv, TypeOK, Phases
<1>5. Process'
  BY <1>1, <1>2, <1>3 DEF Process, AtStart, Recovering, Both
<1> QED BY <1>1, <1>4, <1>5 DEF Inv

LEMMA RestoreTargetInv == ASSUME Inv, NEW t \in Target, RestoreTarget(t) PROVE Inv'
<1>1. /\ Recovering /\ owner = "live" /\ op = "recover" /\ pc = "restoring"
      /\ t \in todo /\ todo' = todo \ {t}
      /\ mem' = [SetTarget(mem, t, tx.before[t]) EXCEPT !.temp = @ \ {t}]
      /\ UNCHANGED <<disk, owner, op, kind, pc, tx, ops, before, after>>
  BY LiveRecovery DEF RestoreTarget, At, history
<1>2. /\ Both(tx) /\ tx # NoJournal /\ tx.state = "prepared"
      /\ t \in tx.files /\ todo \subseteq tx.files
      /\ \A u \in tx.files \ todo : mem.target[u] = before[u] /\ u \notin mem.loose
  BY <1>1 DEF Recovering
<1>3. /\ mem' \in Directory /\ mem'.journal = mem.journal /\ tx.before[t] = before[t]
      /\ mem'.target = [mem.target EXCEPT ![t] = tx.before[t]] /\ mem'.loose = mem.loose \ {t}
      /\ Consistent(mem, disk, before, after)'
  BY <1>1, <1>2, RewriteKeeps
<1>4. TypeOK'
  BY <1>1, <1>3 DEF Inv, TypeOK, Phases
<1>5. \A u \in tx.files \ todo' : mem'.target[u] = before[u] /\ u \notin mem'.loose
  <2>1. mem.target \in [Target -> Content] /\ tx.files \subseteq Target
    BY <1>2, Typed, JournalFacts DEF Inv
  <2> QED BY <1>1, <1>2, <1>3, <2>1
<1>6. Process'
  BY <1>1, <1>2, <1>3, <1>5 DEF Process, AtStart, Recovering, Both
<1> QED BY <1>3, <1>4, <1>6 DEF Inv

\* While a committed journal is there every target has its new content:
\* rolling forward changes nothing.
LEMMA ForwardIsNoop ==
    ASSUME Inv, NEW t \in Target, ForwardTarget(t)
    PROVE  /\ pc = "forwarding" /\ owner = "live" /\ op = "recover" /\ t \in todo
           /\ todo' = todo \ {t}
           /\ UNCHANGED <<mem, disk, owner, op, kind, pc, tx, ops, before, after>>
<1>1. /\ owner = "live" /\ op = "recover" /\ pc = "forwarding" /\ t \in todo
      /\ UNCHANGED <<owner, op, kind, tx, ops, before, after>>
  BY DEF ForwardTarget, At, history
<1>2. Both(tx) /\ tx # NoJournal /\ tx.state = "committed" /\ t \in tx.files
  BY <1>1, LiveRecovery DEF Recovering
<1>3. /\ mem \in Directory /\ mem.target \in [Target -> Content] /\ kind \in Kind /\ tx \in Journal
      /\ Consistent(mem, disk, before, after)
  BY Typed DEF Inv
<1>4. tx.after[t] = after[t] /\ mem.target = after /\ t \notin mem.loose
  <2>1. Has(mem, "committed") /\ t \in Covered(mem)
    BY <1>2, <1>3 DEF Has, Both, Covered
  <2>2. mem.target = after /\ t \notin mem.loose
    BY <1>3, <2>1 DEF Consistent, Recoverable
  <2>3. tx.after[t] = after[t]
    BY <1>2, <1>3 DEF Consistent, Journaled, Describes, Both
  <2> QED BY <2>2, <2>3
<1>5. SetTarget(mem, t, tx.after[t]) = mem
  BY <1>3, <1>4 DEF SetTarget, Directory
<1>6. mem.target[t] \in {tx.before[t], tx.after[t]}
  BY <1>4
<1> QED BY <1>1, <1>5, <1>6 DEF ForwardTarget, Goto

LEMMA ForwardTargetInv == ASSUME Inv, NEW t \in Target, ForwardTarget(t) PROVE Inv'
<1>1. /\ pc = "forwarding" /\ owner = "live" /\ op = "recover" /\ t \in todo /\ todo' = todo \ {t}
      /\ UNCHANGED <<mem, disk, owner, op, kind, pc, tx, ops, before, after>>
  BY ForwardIsNoop
<1>2. Recovering
  BY <1>1, LiveRecovery
<1>3. TypeOK'
  BY <1>1 DEF Inv, TypeOK, Phases
<1>4. Process'
  BY <1>1, <1>2 DEF Process, AtStart, Recovering, Both
<1> QED BY <1>1, <1>3, <1>4 DEF Inv

LEMMA SyncRecoveredInv == ASSUME Inv, SyncRecovered PROVE Inv'
<1>1. /\ Recovering /\ owner = "live" /\ op = "recover" /\ pc \in {"restoring", "forwarding"}
      /\ pc' = "dropping" /\ todo = {} /\ disk' = mem
      /\ UNCHANGED <<mem, owner, op, kind, tx, todo, ops, before, after>>
  BY LiveRecovery DEF SyncRecovered, Goto, process, history
<1>2. Both(tx) /\ tx # NoJournal
  BY <1>1 DEF Recovering
<1>3. tx.state = "prepared" => mem.target = before /\ \A t \in tx.files : t \notin mem.loose
  <2> SUFFICES ASSUME tx.state = "prepared"
               PROVE  mem.target = before /\ \A t \in tx.files : t \notin mem.loose
    OBVIOUS
  <2>1. \A t \in tx.files : mem.target[t] = before[t] /\ t \notin mem.loose
    BY <1>1 DEF Recovering
  <2>2. Describes(tx, mem, disk, before, after)
    BY <1>2, Typed DEF Inv, Consistent, Journaled, Both
  <2>3. \A t \in Target : mem.target[t] = before[t]
    BY <2>1, <2>2 DEF Describes
  <2> QED BY <2>1, <2>3, Typed DEF Inv
<1>4. TypeOK'
  BY <1>1 DEF Inv, TypeOK, Phases
<1>5. Consistent(mem, mem, before, after)
  BY SyncKeeps, Typed DEF Inv
<1>6. Process'
  BY <1>1, <1>2, <1>3 DEF Process, AtStart, Recovering, Both
<1> QED BY <1>1, <1>4, <1>5, <1>6 DEF Inv

LEMMA DropJournalInv == ASSUME Inv, DropJournal PROVE Inv'
<1>1. /\ Recovering /\ owner = "live" /\ op = "recover" /\ pc = "dropping" /\ pc' = "sweeping"
      /\ mem' = SetJournal(mem, kind, NoJournal)
      /\ UNCHANGED <<disk, owner, op, kind, tx, todo, ops, before, after>>
  BY LiveRecovery DEF DropJournal, At, Goto, process, history
<1>2. /\ Both(tx) /\ tx # NoJournal
      /\ tx.state = "prepared" =>
            mem.target = before /\ disk.target = before /\ mem.loose = disk.loose
  BY <1>1 DEF Recovering
<1>3. mem' \in Directory /\ Consistent(mem, disk, before, after)'
  BY <1>1, <1>2, RemovalKeeps
<1>4. TypeOK'
  BY <1>1, <1>3 DEF Inv, TypeOK, Phases
<1>5. Process'
  BY <1>1 DEF Process, AtStart, Recovering
<1> QED BY <1>3, <1>4, <1>5 DEF Inv

LEMMA SweepInv == ASSUME Inv, Sweep PROVE Inv'
<1>1. /\ owner = "live" /\ op = "recover" /\ pc' = "done"
      /\ mem' = [mem EXCEPT !.staging = @ \ {kind}] /\ disk' \in {mem, mem'}
      /\ UNCHANGED <<owner, op, kind, tx, todo, ops, before, after>>
  BY DEF Sweep, At, Goto, process, history
<1>2. /\ mem \in Directory /\ mem' \in Directory /\ mem'.loose = mem.loose
      /\ mem'.target = mem.target /\ mem'.journal = mem.journal
  BY <1>1, Typed DEF Inv, Directory
<1>3. TypeOK'
  BY <1>1, <1>2 DEF Inv, TypeOK, Phases
<1>4. Consistent(mem, mem, before, after)
  BY SyncKeeps, Typed DEF Inv
<1>5. Consistent(mem', disk', before, after)
  <2>1. Consistent(mem', mem, before, after)
    BY <1>2, <1>4, EvidenceOnly
  <2>2. Consistent(mem', mem', before, after)
    BY <1>2, <2>1, SyncKeeps
  <2> QED BY <1>1, <2>1, <2>2
<1>6. Process'
  BY <1>1 DEF Process, AtStart, Recovering
<1> QED BY <1>1, <1>3, <1>5, <1>6 DEF Inv

-----------------------------------------------------------------------------
(* Every step                                                              *)

LEMMA StepInv == ASSUME ~ReadFaults, Inv, [Next]_vars PROVE Inv'
<1>1. ASSUME NEW command \in Commands, NEW k \in Kind, Acquire(command, k) PROVE Inv'
  BY <1>1, AcquireInv
<1>2. ASSUME NEW t \in Target, Write(t) PROVE Inv'
  BY <1>2, WriteInv
<1>3. CASE EndWrites
  BY <1>3, StopsInv
<1>4. CASE Release \/ Unlock
  BY <1>4, UnlockedInv
<1>5. CASE Transact
  <2>1. ASSUME NEW files \in SUBSET Target, NEW unread \in SUBSET Target, Plan(files, unread)
        PROVE  Inv'
    BY <2>1, PlanInv
  <2>2. ASSUME NEW t \in Target, WriteTemporary(t) \/ Replace(t) PROVE Inv'
    BY <2>2, WriteTemporaryInv, ReplaceInv
  <2> QED BY <1>5, <2>1, <2>2, StopsInv, StageJournalInv, PublishJournalInv, UnstageJournalInv,
             SyncPublicationInv, TemporariesWrittenInv, SyncTargetsInv, StageCommitInv,
             CommitInv, SyncCommitInv, RemoveJournalInv DEF Transact
<1>6. CASE Recovery
  <2>1. ASSUME NEW t \in Target, RestoreTarget(t) \/ ForwardTarget(t) PROVE Inv'
    BY <2>1, RestoreTargetInv, ForwardTargetInv
  <2> QED BY <1>6, <2>1, StopsInv, ReadJournalInv, SyncRecoveredInv, DropJournalInv, SweepInv
          DEF Recovery
<1>7. CASE Failure
  BY <1>7, CrashInv, LosePowerInv, StopsInv DEF Failure
<1>8. CASE UNCHANGED vars
  BY <1>8 DEF vars, Inv, TypeOK, Process, AtStart, Replacing, Recovering, Both
<1> QED BY <1>1, <1>2, <1>3, <1>4, <1>5, <1>6, <1>7, <1>8 DEF Next

THEOREM Inductive == ASSUME ~ReadFaults PROVE Spec => []Inv
<1>1. Inv /\ [Next]_vars => Inv'
  BY StepInv
<1> QED BY InitInv, <1>1, PTL DEF Spec

\* The state keeps its types, whatever is killed, lost or repeated.
THEOREM TypeCorrect == ASSUME ~ReadFaults PROVE Spec => []TypeOK
<1>1. Inv => TypeOK
  BY DEF Inv
<1> QED BY <1>1, Inductive, PTL

\* Readers and writers, let in when no journal is pending, find the evidence
\* as it was before the last transaction or as it is after it
\* (applyCandidates, commitQualityRefresh and their recoveries).
THEOREM NeverAMixture == ASSUME ~ReadFaults PROVE Spec => []AllOrNothing
<1>1. Inv => AllOrNothing
  <2> SUFFICES ASSUME Inv, NothingPending PROVE mem.target \in {before, after}
    BY DEF AllOrNothing
  <2>1. Clear(mem)
    BY NothingPendingIsClear DEF Inv
  <2>2. Clear(disk) \/ Has(disk, "prepared") \/ Has(disk, "committed")
    BY ClearOrHas, Typed DEF Inv
  <2> QED BY <2>1, <2>2 DEF Inv, Consistent, Recoverable
<1> QED BY <1>1, Inductive, PTL

\* The steps that change evidence or its journals; no other does.
Touches ==
    \/ LosePower \/ PublishJournal \/ Commit \/ RemoveJournal \/ DropJournal
    \/ \E t \in Target : Write(t) \/ Replace(t) \/ RestoreTarget(t)

LEMMA OthersKeep ==
    ASSUME Inv, [Next]_vars, ~Touches
    PROVE  /\ mem'.target = mem.target /\ mem'.journal = mem.journal
           /\ mem'.loose = mem.loose
           /\ disk' \in {disk, mem, mem'}
<1>1. mem \in Directory /\ kind \in Kind
  BY Typed DEF Inv
<1>2. \/ mem' = mem
      \/ mem' = [mem EXCEPT !.staging = @ \cup {kind}]
      \/ mem' = [mem EXCEPT !.staging = @ \ {kind}]
      \/ \E t \in Target : mem' = [mem EXCEPT !.temp = @ \cup {t}]
  <2>1. ASSUME NEW t \in Target, ForwardTarget(t) PROVE mem' = mem
    BY <2>1, ForwardIsNoop
  <2> QED BY <2>1 DEF Next, Touches, Acquire, EndWrites, Release, Unlock, Transact, Recovery,
                      Failure, Plan, RefuseReplace, StageJournal, UnstageJournal, SyncPublication,
                      TemporariesWritten, SyncTargets, StageCommit, SyncCommit, WriteTemporary,
                      RefuseRecovery, NothingToRecover, ReadJournal, SyncRecovered, Sweep, Crash,
                      FailReplace, FailRecovery, dirs, vars
<1>3. mem'.target = mem.target /\ mem'.journal = mem.journal /\ mem'.loose = mem.loose
  BY <1>1, <1>2 DEF Directory
<1>4. disk' \in {disk, mem, mem'}
  <2>1. ASSUME NEW t \in Target, ForwardTarget(t) PROVE disk' = disk
    BY <2>1, ForwardIsNoop
  <2> QED BY <2>1 DEF Next, Touches, Acquire, EndWrites, Release, Unlock, Transact, Recovery,
                      Failure, Plan, RefuseReplace, StageJournal, UnstageJournal, SyncPublication,
                      TemporariesWritten, SyncTargets, StageCommit, SyncCommit, WriteTemporary,
                      RefuseRecovery, NothingToRecover, ReadJournal, SyncRecovered, Sweep, Crash,
                      FailReplace, FailRecovery, dirs, vars
<1> QED BY <1>3, <1>4

\* A recovery rewrites only what still is the original or the candidate, or
\* was torn while a prepared journal had the original.
THEOREM RecoveryIsSparing == ASSUME ~ReadFaults PROVE Spec => RecoverySparesLaterEvidence
<1>1. ASSUME Inv, [Next]_vars, NEW t \in Target, op = "recover", owner = "live", owner' = "live",
             mem'.target[t] # mem.target[t]
      PROVE  \/ mem.target[t] \in {tx.before[t], tx.after[t]}
             \/ mem.target[t] = Torn /\ tx.state = "prepared"
  <2>1. Touches
    BY <1>1, OthersKeep
  <2>2. /\ mem \in Directory /\ kind \in Kind /\ tx \in Journal /\ Recovering
        /\ mem.target \in [Target -> Content]
    BY <1>1, Typed, LiveRecovery DEF Inv
  <2>3. ~LosePower /\ ~PublishJournal /\ ~Commit /\ ~RemoveJournal
        /\ \A u \in Target : ~Write(u) /\ ~Replace(u)
    BY <1>1 DEF LosePower, PublishJournal, Commit, RemoveJournal, Write, Replace, At
  <2>4. ~DropJournal
    BY <1>1, <2>2 DEF DropJournal, SetJournal, Directory
  <2>5. PICK u \in Target : RestoreTarget(u)
    BY <2>1, <2>3, <2>4 DEF Touches
  <2>6. /\ pc = "restoring" /\ u \in todo
        /\ mem' = [SetTarget(mem, u, tx.before[u]) EXCEPT !.temp = @ \ {u}]
        /\ UNCHANGED <<disk, before, after>>
    BY <2>5 DEF RestoreTarget, At, history
  <2>7. Both(tx) /\ tx # NoJournal /\ tx.state = "prepared" /\ u \in tx.files
    BY <2>2, <2>6 DEF Recovering
  <2>8. /\ tx.before[u] = before[u] /\ tx.after[u] = after[u]
        /\ mem'.target = [mem.target EXCEPT ![u] = tx.before[u]]
    BY <1>1, <2>6, <2>7, RewriteKeeps
  <2>9. t = u
    BY <1>1, <2>2, <2>8
  <2>10. mem.target[u] \in {before[u], after[u], Torn}
    <3>1. Has(mem, "prepared")
      BY <2>2, <2>7 DEF Has, Both
    <3> QED BY <1>1, <3>1 DEF Inv, Consistent, Recoverable
  <2> QED BY <2>7, <2>8, <2>9, <2>10
<1>2. Inv /\ [Next]_vars =>
         [\A t \in Target : op = "recover" /\ owner = "live" /\ owner' = "live"
                            /\ mem'.target[t] # mem.target[t]
             => \/ mem.target[t] \in {tx.before[t], tx.after[t]}
                \/ mem.target[t] = Torn /\ tx.state = "prepared"]_vars
  BY <1>1
<1> QED BY <1>2, Inductive, PTL DEF Spec, RecoverySparesLaterEvidence

-----------------------------------------------------------------------------
(* The transactions are the single steps of EvidenceStore                  *)

\* What a journal stands for: the old evidence while prepared.
LEMMA ViewIs ==
    ASSUME NEW m \in Directory, NEW d \in Directory, NEW b \in [Target -> Content],
           NEW a \in [Target -> Content], Consistent(m, d, b, a)
    PROVE  View(m) = IF Has(m, "prepared") THEN b ELSE m.target
<1>1. m.target \in [Target -> Content]
  BY DirectoryFacts
<1>2. CASE Clear(m)
  <2>1. ~Has(m, "prepared") /\ \A k \in Kind : m.journal[k].files = {}
    BY <1>2, ClearOrHas, JournalFacts DEF Clear
  <2>2. View(m) = [t \in Target |-> m.target[t]]
    BY <2>1 DEF View
  <2> QED BY <1>1, <2>1, <2>2
<1>3. CASE ~Clear(m)
  <2>1. PICK k \in Kind : m.journal[k] # NoJournal
    BY <1>3 DEF Clear
  <2> DEFINE j == m.journal[k]
  <2>2. /\ j.state \in {"prepared", "committed"}
        /\ \A l \in Kind : l # k => m.journal[l] = NoJournal
        /\ \A l \in Kind : l # k => m.journal[l].files = {} /\ m.journal[l].state = "none"
    BY <2>1, ClearOrHas, JournalFacts DEF Consistent, OneKind
  <2>3. Has(m, "prepared") <=> j.state = "prepared"
    BY <2>2 DEF Has
  <2>4. Describes(j, m, d, b, a)
    BY <2>1 DEF Consistent, Journaled
  <2>5. \A t \in Target : View(m)[t] = IF t \in j.files
                                       THEN IF j.state = "prepared" THEN j.before[t] ELSE j.after[t]
                                       ELSE m.target[t]
    <3> SUFFICES ASSUME NEW t \in Target
                 PROVE  View(m)[t] = IF t \in j.files
                                     THEN IF j.state = "prepared" THEN j.before[t] ELSE j.after[t]
                                     ELSE m.target[t]
      OBVIOUS
    <3>1. CASE t \in j.files
      <4>1. \E l \in Kind : t \in m.journal[l].files
        BY <3>1
      <4>2. (CHOOSE l \in Kind : t \in m.journal[l].files) = k
        BY <2>2, <4>1
      <4> QED BY <3>1, <4>1, <4>2 DEF View
    <3>2. CASE t \notin j.files
      <4>1. ~\E l \in Kind : t \in m.journal[l].files
        BY <2>2, <3>2
      <4> QED BY <3>2, <4>1 DEF View
    <3> QED BY <3>1, <3>2
  <2>6. View(m) = [t \in Target |-> View(m)[t]]
    BY DEF View
  <2>7. CASE j.state = "prepared"
    <3>1. \A t \in Target : View(m)[t] = b[t]
      BY <2>4, <2>5, <2>7 DEF Describes
    <3> QED BY <2>3, <2>6, <2>7, <3>1
  <2>8. CASE j.state = "committed"
    <3>1. m.target = a
      BY <2>8 DEF Consistent, Recoverable, Has
    <3>2. \A t \in Target : View(m)[t] = a[t]
      BY <2>4, <2>5, <2>8, <3>1 DEF Describes
    <3> QED BY <1>1, <2>3, <2>6, <2>8, <3>1, <3>2
  <2> QED BY <2>2, <2>7, <2>8
<1> QED BY <1>2, <1>3

\* The same of what is durable.
LEMMA Mirror ==
    ASSUME NEW m \in Directory, NEW d \in Directory, NEW b, NEW a, Consistent(m, d, b, a),
           ~(Clear(m) /\ Clear(d))
    PROVE  Consistent(d, m, b, a)
<1>1. OneKind(d, m)
  BY DEF Consistent, OneKind
<1>2. Journaled(d, m, b, a)
  BY DEF Consistent, Journaled, Describes
<1>3. Recoverable(d, m, b, a)
  BY DEF Consistent, Recoverable
<1> QED BY <1>1, <1>2, <1>3 DEF Consistent

LEMMA Views ==
    ASSUME NEW m \in Directory, NEW d \in Directory, NEW b \in [Target -> Content],
           NEW a \in [Target -> Content], Consistent(m, d, b, a)
    PROVE  /\ View(m) = IF Has(m, "prepared") THEN b ELSE m.target
           /\ View(d) = IF Has(d, "prepared") THEN b ELSE d.target
<1>1. View(m) = IF Has(m, "prepared") THEN b ELSE m.target
  BY ViewIs
<1>2. CASE Clear(m) /\ Clear(d)
  <2>1. Consistent(d, d, d.target, d.target) /\ d.target \in [Target -> Content]
    BY <1>2, FreshStart, DirectoryFacts
  <2>2. View(d) = IF Has(d, "prepared") THEN d.target ELSE d.target
    BY <2>1, ViewIs
  <2>3. ~Has(d, "prepared")
    BY <1>2, ClearOrHas
  <2> QED BY <1>1, <2>2, <2>3
<1>3. CASE ~(Clear(m) /\ Clear(d))
  <2>1. Consistent(d, m, b, a)
    BY <1>3, Mirror
  <2> QED BY <1>1, <2>1, ViewIs
<1> QED BY <1>2, <1>3

\* Before and after a step.
LEMMA ViewsOfStep ==
    ASSUME Inv, Inv'
    PROVE  /\ View(mem) = IF Has(mem, "prepared") THEN before ELSE mem.target
           /\ View(disk) = IF Has(disk, "prepared") THEN before ELSE disk.target
           /\ View(mem)' = IF Has(mem', "prepared") THEN before' ELSE mem'.target
           /\ View(disk)' = IF Has(disk', "prepared") THEN before' ELSE disk'.target
<1>1. /\ mem \in Directory /\ disk \in Directory
      /\ before \in [Target -> Content] /\ after \in [Target -> Content]
      /\ Consistent(mem, disk, before, after)
  BY Typed DEF Inv
<1>2. /\ mem' \in Directory /\ disk' \in Directory
      /\ before' \in [Target -> Content] /\ after' \in [Target -> Content]
      /\ Consistent(mem', disk', before', after')
  BY DEF Inv, TypeOK
<1>3. View(mem)' = View(mem') /\ View(disk)' = View(disk')
  BY DEF View
<1> QED BY <1>1, <1>2, <1>3, Views

\* The files that the mapping calls loose.
Loose == LooseOf(mem) \cup LooseOf(disk)

\* A step that keeps what a reader would find.
LEMMA SameView ==
    ASSUME View(mem)' = View(mem), View(disk)' \in {View(disk), View(mem)},
           Loose' \subseteq Loose
    PROVE  Store!Sync
BY DEF Store!Sync, Loose

\* Evidence and journals unchanged: nothing happens, or an fsync.
LEMMA QuietSteps ==
    ASSUME mem'.target = mem.target, mem'.journal = mem.journal, mem'.loose = mem.loose,
           disk' \in {disk, mem, mem'}
    PROVE  Store!Sync
<1>1. View(mem)' = View(mem)
  BY DEF View
<1>2. View(disk)' \in {View(disk), View(mem)}
  BY DEF View
<1>3. LooseOf(mem)' = LooseOf(mem)
  BY DEF LooseOf, Covered
<1>4. LooseOf(disk)' \in {LooseOf(disk), LooseOf(mem)}
  BY DEF LooseOf, Covered
<1> QED BY <1>1, <1>2, <1>3, <1>4, SameView DEF Loose

\* The same when only the directory changes, and not what is durable.
LEMMA SameDurable ==
    ASSUME View(mem)' = View(mem), disk' = disk, LooseOf(mem)' \subseteq Loose
    PROVE  Store!Sync
<1>1. View(disk)' = View(disk) /\ LooseOf(disk)' = LooseOf(disk)
  BY DEF View, LooseOf, Covered
<1> QED BY <1>1, SameView DEF Loose

\* File by file.
LEMMA LossOfView ==
    ASSUME PowerLoss, mem'.loose = {}, disk' = mem',
           \A t \in Target : \/ View(mem)'[t] \in {View(mem)[t], View(disk)[t]}
                             \/ View(mem)'[t] = Torn /\ t \in Loose
    PROVE  Store!LosePower
<1> DEFINE torn == {t \in Target : View(mem)'[t] = Torn /\ t \in Loose}
           kept == {t \in Target : View(mem)'[t] = View(mem)[t]}
<1>1. View(mem)' = [t \in Target |-> View(mem)'[t]]
  BY DEF View
<1>2. View(mem)' = [t \in Target |-> IF t \in torn THEN Torn
                                     ELSE IF t \in kept THEN View(mem)[t] ELSE View(disk)[t]]
  <2>1. \A t \in Target : View(mem)'[t] = IF t \in torn THEN Torn
                                     ELSE IF t \in kept THEN View(mem)[t] ELSE View(disk)[t]
    OBVIOUS
  <2> HIDE DEF torn, kept
  <2> QED BY <1>1, <2>1
<1>3. torn \in SUBSET Loose /\ kept \in SUBSET Target
  OBVIOUS
<1>4. View(disk)' = View(mem)' /\ Loose' = {}
  BY DEF View, Loose, LooseOf
<1> HIDE DEF torn, kept
<1> QED BY <1>2, <1>3, <1>4 DEF Store!LosePower, Loose

\* A power loss gives every file what is there or what is durable, and tears
\* no file but a loose one.
LEMMA LossIsLoss ==
    ASSUME Inv, Inv', LosePower
    PROVE  Store!LosePower
<1>1. /\ Mixed(mem', mem, disk) /\ disk' = mem' /\ PowerLoss
      /\ mem \in Directory /\ disk \in Directory /\ mem' \in Directory
      /\ mem.target \in [Target -> Content] /\ disk.target \in [Target -> Content]
      /\ mem'.target \in [Target -> Content]
      /\ Consistent(mem, disk, before, after)
  BY LossMixes, Typed, DirectoryFacts DEF Inv, LosePower, Mixed
<1>2. /\ View(mem) = IF Has(mem, "prepared") THEN before ELSE mem.target
      /\ View(disk) = IF Has(disk, "prepared") THEN before ELSE disk.target
      /\ View(mem)' = IF Has(mem', "prepared") THEN before' ELSE mem'.target
      /\ View(disk)' = View(mem)'
  BY <1>1, ViewsOfStep
<1>3. \A state \in {"prepared", "committed"} :
         Has(mem', state) => Has(mem, state) \/ Has(disk, state)
  BY <1>1 DEF Has, Mixed
<1>4. /\ \A t \in Target : t \in Covered(mem') => before'[t] = before[t]
      /\ \A t \in Target : t \notin Covered(mem') => View(mem)'[t] = mem'.target[t]
  <2>1. \A t \in Target : t \in Covered(mem') => before'[t] = before[t]
    BY LossLeaves DEF Leaves
  <2>2. ASSUME NEW t \in Target, t \notin Covered(mem') PROVE View(mem)'[t] = mem'.target[t]
    <3>1. \A k \in Kind : t \notin mem'.journal[k].files
      BY <2>2, CoveredFacts
    <3> QED BY <3>1 DEF View
  <2> QED BY <2>1, <2>2
<1>5. \A t \in Target : \/ mem'.target[t] \in {mem.target[t], disk.target[t]}
                        \/ mem'.target[t] = Torn /\ t \in mem.loose \cup disk.loose
  BY <1>1 DEF Mixed
<1>6. CASE Clear(mem) /\ Clear(disk)
  <2>1. View(mem) = mem.target /\ View(disk) = disk.target
    BY <1>1, <1>2, <1>6, ClearOrHas
  <2>2. Clear(mem')
    BY <1>1, <1>6 DEF Clear, Mixed
  <2>3. Covered(mem) = {} /\ Covered(disk) = {} /\ Covered(mem') = {}
    BY <1>6, <2>2, CoveredFacts
  <2>4. \A t \in Target : \/ View(mem)'[t] \in {View(mem)[t], View(disk)[t]}
                          \/ View(mem)'[t] = Torn /\ t \in Loose
    BY <1>4, <1>5, <2>1, <2>3 DEF Loose, LooseOf
  <2> QED BY <1>1, <1>2, <2>4, LossOfView DEF Mixed
<1>7. CASE ~(Clear(mem) /\ Clear(disk))
  <2>1. ASSUME NEW t \in Target, t \in Covered(mem')
        PROVE  View(mem)'[t] \in {View(mem)[t], View(disk)[t]}
    <3>1. CASE Has(mem', "prepared")
      BY <1>2, <1>3, <1>4, <2>1, <3>1
    <3>2. CASE ~Has(mem', "prepared")
      <4>1. Has(mem', "committed")
        BY <1>1, <2>1, <3>2, ClearOrHas, CoveredFacts
      <4>2. /\ mem.target = after /\ disk.target = after
            /\ (Covered(mem) \cup Covered(disk)) \cap (mem.loose \cup disk.loose) = {}
        BY <1>1, <1>3, <4>1 DEF Consistent, Recoverable
      <4>3. t \in Covered(mem) \cup Covered(disk)
        BY <1>1, <2>1 DEF Covered, Mixed
      <4>4. View(mem)'[t] = after[t]
        BY <1>2, <1>5, <3>2, <4>2, <4>3
      <4>5. ~Has(mem, "prepared") \/ ~Has(disk, "prepared")
        <5>1. PICK k \in Kind : mem'.journal[k].state = "committed"
          BY <4>1 DEF Has
        <5>2. mem'.journal[k] \in {mem.journal[k], disk.journal[k]}
          BY <1>1 DEF Mixed
        <5>3. ASSUME NEW e \in {mem, disk}, e.journal[k].state = "committed"
              PROVE  ~Has(e, "prepared")
          <6> SUFFICES ASSUME NEW l \in Kind, e.journal[l].state = "prepared" PROVE FALSE
            BY DEF Has
          <6>1. l # k /\ e.journal[l] # NoJournal /\ e.journal[k] # NoJournal
            BY <5>3, JournalFacts
          <6> QED BY <1>1, <6>1 DEF Consistent, OneKind
        <5> QED BY <5>1, <5>2, <5>3
      <4> QED BY <1>2, <4>2, <4>4, <4>5
    <3> QED BY <3>1, <3>2
  <2>2. ASSUME NEW t \in Target, t \notin Covered(mem')
        PROVE  \/ View(mem)'[t] \in {View(mem)[t], View(disk)[t]}
               \/ View(mem)'[t] = Torn /\ t \in Loose
    <3>1. View(mem)'[t] = mem'.target[t]
      BY <1>4, <2>2
    <3>2. CASE ~Clear(mem) /\ ~Clear(disk)
      <4>1. Covered(mem) = Covered(disk)
        BY <1>1, <3>2 DEF Consistent, OneKind
      <4>2. PICK k \in Kind : mem.journal[k] # NoJournal
        BY <3>2 DEF Clear
      <4>3. PICK l \in Kind : disk.journal[l] # NoJournal
        BY <3>2 DEF Clear
      <4>4. k = l
        BY <1>1, <4>2, <4>3 DEF Consistent, OneKind
      <4>5. \A i \in Kind : i = k \/ (mem.journal[i] = NoJournal /\ disk.journal[i] = NoJournal)
        BY <1>1, <4>2 DEF Consistent, OneKind
      <4>6. Covered(mem) = mem.journal[k].files /\ Covered(disk) = disk.journal[k].files
        BY <4>5, CoveredFacts
      <4>7. mem'.journal[k] \in {mem.journal[k], disk.journal[k]}
        BY <1>1 DEF Mixed
      <4>8. t \notin Covered(mem) /\ t \notin Covered(disk)
        <5>1. mem'.journal[k].files \subseteq Covered(mem')
          BY CoveredFacts
        <5> QED BY <2>2, <4>1, <4>6, <4>7, <5>1
      <4>9. /\ View(mem)[t] = mem.target[t] /\ View(disk)[t] = disk.target[t]
        BY <4>8, CoveredFacts DEF View
      <4> QED BY <1>5, <3>1, <4>8, <4>9 DEF Loose, LooseOf
    <3>3. CASE Clear(mem) \/ Clear(disk)
      <4>1. CASE Has(mem, "committed") \/ Has(disk, "committed")
        <5>1. /\ mem.target = after /\ disk.target = after
              /\ (Covered(mem) \cup Covered(disk)) \cap (mem.loose \cup disk.loose) = {}
          BY <1>1, <4>1 DEF Consistent, Recoverable
        <5>2. mem'.target[t] = after[t] \/ (mem'.target[t] = Torn /\ t \in Loose)
          BY <1>5, <5>1 DEF Loose, LooseOf
        <5>3. ~Has(mem, "prepared") \/ ~Has(disk, "prepared")
          BY <1>1, <3>3, ClearOrHas
        <5> QED BY <1>2, <3>1, <5>1, <5>2, <5>3
      <4>2. CASE ~(Has(mem, "committed") \/ Has(disk, "committed"))
        <5>1. (Has(mem, "prepared") /\ Clear(disk)) \/ (Clear(mem) /\ Has(disk, "prepared"))
          BY <1>1, <1>7, <3>3, <4>2, ClearOrHas
        <5>2. mem.target = before /\ disk.target = before /\ mem.loose = disk.loose
          BY <1>1, <5>1 DEF Consistent, Recoverable
        <5>3. Covered(mem) = {} \/ Covered(disk) = {}
          BY <3>3, CoveredFacts
        <5>4. mem'.target[t] = before[t] \/ (mem'.target[t] = Torn /\ t \in Loose)
          BY <1>5, <5>2, <5>3 DEF Loose, LooseOf
        <5> QED BY <1>2, <3>1, <5>2, <5>4
      <4> QED BY <4>1, <4>2
    <3> QED BY <3>2, <3>3
  <2> QED BY <1>1, <1>2, <2>1, <2>2, LossOfView DEF Mixed
<1> QED BY <1>6, <1>7

LEMMA WriteIsRecord ==
    ASSUME Inv, Inv', NEW t \in Target, Write(t)
    PROVE  Store!Next
<1>1. /\ ops < MaxOps /\ mem' = Rename(mem, t, ops + 1) /\ disk' = disk
      /\ NothingPending
  BY DEF Write
<1>2. Clear(mem)
  BY <1>1, NothingPendingIsClear DEF Inv
<1>3. mem \in Directory /\ ops + 1 \in Content /\ ops + 1 \in 1..MaxOps
  BY <1>1, Typed, BoundAssumption DEF Inv, Val, Content
<1>4. /\ mem' \in Directory /\ mem'.journal = mem.journal
      /\ mem'.target = [mem.target EXCEPT ![t] = ops + 1] /\ mem'.loose = mem.loose \cup {t}
  BY <1>1, <1>3, RenameUpdate
<1>5. Clear(mem')
  BY <1>2, <1>4 DEF Clear
<1>6. ~Has(mem, "prepared") /\ ~Has(mem', "prepared")
  BY <1>2, <1>3, <1>4, <1>5, ClearOrHas
<1>7. View(mem) = mem.target /\ View(mem)' = mem'.target
  BY <1>6, ViewsOfStep
<1>8. View(disk)' = View(disk) /\ LooseOf(disk)' = LooseOf(disk)
  BY <1>1 DEF View, LooseOf, Covered
<1>10. LooseOf(mem) = mem.loose /\ LooseOf(mem)' = mem.loose \cup {t}
  <2>1. Covered(mem) = {} /\ Covered(mem') = {}
    BY <1>2, <1>5, CoveredFacts
  <2> QED BY <1>4, <2>1 DEF LooseOf, Covered
<1>9. Store!Record(t, ops + 1)
  BY <1>4, <1>7, <1>8, <1>10 DEF Store!Record
<1> QED BY <1>3, <1>9 DEF Store!Next

\* The journal is there now, and stands for what there was.
LEMMA PublishIsQuiet ==
    ASSUME Inv, Inv', PublishJournal
    PROVE  Store!Sync
<1>1. /\ Replacing /\ pc = "staged" /\ mem' = SetJournal(mem, kind, tx)
      /\ UNCHANGED <<disk, before>>
  BY Live DEF PublishJournal, history
<1>2. Clear(mem) /\ mem.target = before /\ tx.state = "prepared"
  BY <1>1 DEF Replacing
<1>3. mem \in Directory /\ kind \in Kind /\ tx \in Journal /\ mem.journal \in [Kind -> Journal]
  BY Typed DEF Inv
<1>4. mem'.journal = [mem.journal EXCEPT ![kind] = tx] /\ mem'.loose = mem.loose
  BY <1>1, <1>3 DEF SetJournal, Directory
<1>5. Has(mem', "prepared") /\ ~Has(mem, "prepared")
  BY <1>2, <1>3, <1>4, ClearOrHas DEF Has
<1>6. LooseOf(mem)' \subseteq Loose
  BY <1>2, <1>4, CoveredFacts DEF LooseOf, Loose
<1> QED BY <1>1, <1>2, <1>5, <1>6, ViewsOfStep, SameDurable

\* Targets are rewritten while a prepared journal stands for the old evidence.
LEMMA RewriteIsQuiet ==
    ASSUME Inv, Inv', NEW t \in Target, Replace(t) \/ RestoreTarget(t)
    PROVE  Store!Sync
<1>1. /\ owner = "live"
      /\ \/ op = "replace" /\ pc = "replacing"
         \/ op = "recover" /\ pc = "restoring"
      /\ \E v : mem' = [SetTarget(mem, t, v) EXCEPT !.temp = @ \ {t}]
      /\ UNCHANGED <<disk, before>>
  BY DEF Replace, RestoreTarget, At, history
<1>2. Both(tx) /\ tx.state = "prepared"
  <2>1. CASE op = "replace" /\ pc = "replacing"
    BY <1>1, <2>1 DEF Inv, Process, Replacing
  <2>2. CASE op = "recover" /\ pc = "restoring"
    BY <1>1, <2>2 DEF Inv, Process, Recovering
  <2> QED BY <1>1, <2>1, <2>2
<1>3. mem \in Directory /\ kind \in Kind
  BY Typed DEF Inv
<1>4. mem'.journal = mem.journal /\ mem'.loose \subseteq mem.loose
  BY <1>1, <1>3 DEF SetTarget, Directory
<1>5. Has(mem', "prepared") /\ Has(mem, "prepared")
  BY <1>2, <1>3, <1>4 DEF Has, Both
<1>6. LooseOf(mem)' \subseteq Loose
  BY <1>4 DEF LooseOf, Loose, Covered
<1> QED BY <1>1, <1>5, <1>6, ViewsOfStep, SameDurable

\* The rename of the commit marker is the transaction.
LEMMA CommitIsReplacement ==
    ASSUME Inv, Inv', Commit
    PROVE  Store!Next
<1>1. /\ Replacing /\ pc = "commitStaged"
      /\ mem' = [SetJournal(mem, kind, tx) EXCEPT !.staging = @ \ {kind}]
      /\ UNCHANGED <<disk, before>>
  BY Live DEF Commit, history
<1>2. /\ tx # NoJournal /\ tx.state = "committed" /\ mem.target = after /\ disk.target = after
      /\ Both([tx EXCEPT !.state = "prepared"])
      /\ ops > 0 /\ tx.after = [t \in tx.files |-> ops]
  BY <1>1 DEF Replacing
<1>3. /\ mem \in Directory /\ tx \in Journal /\ kind \in Kind /\ mem.journal \in [Kind -> Journal]
      /\ Consistent(mem, disk, before, after) /\ ops \in 0..MaxOps
      /\ before \in [Target -> Content] /\ after \in [Target -> Content]
  BY Typed DEF Inv
<1> DEFINE j == [tx EXCEPT !.state = "prepared"]
<1>4. /\ j \in Journal /\ j # NoJournal /\ j.state = "prepared"
      /\ j.files = tx.files /\ j.before = tx.before /\ j.after = tx.after
  BY <1>2, <1>3, ChangeState
<1>5. /\ mem'.target = mem.target /\ mem'.loose = mem.loose
      /\ mem'.journal = [mem.journal EXCEPT ![kind] = tx]
  BY <1>1, <1>3, JournalUpdate
<1>6. Has(mem, "prepared")
  BY <1>2, <1>3, <1>4 DEF Has, Both
<1>7. \A k \in Kind \ {kind} : mem'.journal[k] = NoJournal
  BY <1>2, <1>3, <1>4, <1>5 DEF Consistent, OneKind, Both
<1>8. ~Has(mem', "prepared")
  BY <1>2, <1>3, <1>5, <1>7, JournalFacts DEF Has
<1>9. View(mem) = before /\ View(mem)' = after
  BY <1>2, <1>5, <1>6, <1>8, ViewsOfStep
<1>10. Describes(j, mem, disk, before, after)
  BY <1>2, <1>3, <1>4 DEF Consistent, Journaled, Both
<1>11. after = [t \in Target |-> IF t \in tx.files THEN ops ELSE before[t]]
  BY <1>2, <1>3, <1>4, <1>10 DEF Describes
<1>12. View(disk)' = View(disk) /\ LooseOf(disk)' = LooseOf(disk)
  BY <1>1 DEF View, LooseOf, Covered
<1>15. LooseOf(mem)' = LooseOf(mem)
  <2>1. \A k \in Kind : mem'.journal[k].files = mem.journal[k].files
    BY <1>2, <1>3, <1>4, <1>5 DEF Both
  <2> QED BY <1>5, <2>1 DEF LooseOf, Covered
<1>13. tx.files \in SUBSET Target /\ ops \in 1..MaxOps
  BY <1>2, <1>3, JournalFacts, BoundAssumption
<1>14. Store!ReplaceAll(tx.files, ops)
  BY <1>9, <1>11, <1>12, <1>15 DEF Store!ReplaceAll
<1> QED BY <1>13, <1>14 DEF Store!Next

\* A journal is removed when the targets are what it stands for.
LEMMA RemovalIsQuiet ==
    ASSUME Inv, Inv', RemoveJournal \/ DropJournal
    PROVE  Store!Sync
<1>1. /\ owner = "live" /\ mem' = SetJournal(mem, kind, NoJournal)
      /\ \/ op = "replace" /\ pc = "cleanup"
         \/ op = "recover" /\ pc = "dropping"
      /\ UNCHANGED <<disk, before>>
  BY DEF RemoveJournal, DropJournal, At, history
<1>2. /\ mem.journal[kind] = tx /\ disk.journal[kind] = tx
      /\ tx.state = "prepared" => mem.target = before /\ \A t \in tx.files : t \notin mem.loose
      /\ tx # NoJournal
  <2>1. CASE op = "replace" /\ pc = "cleanup"
    BY <1>1, <2>1, JournalFacts DEF Inv, Process, Replacing, Both
  <2>2. CASE op = "recover" /\ pc = "dropping"
    BY <1>1, <2>2 DEF Inv, Process, Recovering, Both
  <2> QED BY <1>1, <2>1, <2>2
<1>3. /\ mem \in Directory /\ tx \in Journal /\ kind \in Kind /\ mem.journal \in [Kind -> Journal]
      /\ NoJournal \in Journal /\ Consistent(mem, disk, before, after)
  BY Typed, JournalFacts DEF Inv
<1>4. /\ mem'.target = mem.target /\ mem'.journal = [mem.journal EXCEPT ![kind] = NoJournal]
      /\ mem'.loose = mem.loose
  BY <1>1, <1>3 DEF SetJournal, Directory
<1>5. \A k \in Kind \ {kind} : mem.journal[k] = NoJournal
  BY <1>2, <1>3 DEF Consistent, OneKind
<1>6. ~Has(mem', "prepared")
  BY <1>3, <1>4, <1>5, JournalFacts DEF Has
<1>7. Has(mem, "prepared") => tx.state = "prepared"
  BY <1>2, <1>5, JournalFacts DEF Has
<1>8. Covered(mem) = tx.files
  <2>1. \A l \in Kind : l = kind \/ mem.journal[l] = NoJournal
    BY <1>5
  <2> QED BY <1>2, <1>3, <2>1, CoveredFacts
<1>9. \A t \in tx.files : t \notin mem.loose
  <2>1. CASE tx.state = "prepared"
    BY <1>2, <2>1
  <2>2. CASE tx.state = "committed"
    <3>1. Has(mem, "committed")
      BY <1>2, <1>3, <2>2 DEF Has
    <3> QED BY <1>3, <1>8, <3>1 DEF Consistent, Recoverable
  <2> QED BY <1>2, <1>3, <2>1, <2>2, JournalFacts
<1>10. LooseOf(mem)' \subseteq Loose
  BY <1>4, <1>8, <1>9 DEF LooseOf, Loose
<1> QED BY <1>1, <1>2, <1>4, <1>6, <1>7, <1>10, ViewsOfStep, SameDurable

LEMMA MapsToStore ==
    ASSUME ~ReadFaults, Inv, Inv', [Next]_vars
    PROVE  Store!Next
<1>1. CASE ~Touches
  BY <1>1, OthersKeep, QuietSteps DEF Store!Next
<1>2. CASE Touches
  <2>1. CASE LosePower
    BY <2>1, LossIsLoss DEF Store!Next
  <2>2. ASSUME NEW t \in Target, Write(t) PROVE Store!Next
    BY <2>2, WriteIsRecord
  <2>3. ASSUME NEW t \in Target, Replace(t) \/ RestoreTarget(t) PROVE Store!Next
    BY <2>3, RewriteIsQuiet DEF Store!Next
  <2>4. CASE PublishJournal \/ RemoveJournal \/ DropJournal
    BY <2>4, PublishIsQuiet, RemovalIsQuiet DEF Store!Next
  <2> QED BY <1>2, <2>1, <2>2, <2>3, <2>4, CommitIsReplacement DEF Touches
<1> QED BY <1>1, <1>2

\* A merge or a refresh happens at the rename of its commit marker; whatever is
\* killed, a reader finds single files changed, whole transactions, and
\* after a power loss each file as it was or as it was durable, or torn if an
\* ordinary writer wrote it last.
THEOREM TransactionsAreSteps == ASSUME ~ReadFaults PROVE Spec => ImplementsStore
<1>1. Init => Store!Init
  <2> SUFFICES ASSUME Init PROVE Store!Init
    OBVIOUS
  <2>1. PICK present \in SUBSET Optional :
           mem = [target  |-> [t \in Target |-> IF t \in Optional \ present THEN Absent ELSE 0],
                  loose   |-> {},
                  temp    |-> {},
                  journal |-> [k \in Kind |-> NoJournal],
                  staging |-> {}]
    BY DEF Init
  <2>2. View(mem) = [t \in Target |-> IF t \in Optional \ present THEN Absent ELSE 0]
    <3>1. \A k \in Kind : mem.journal[k].files = {}
      BY <2>1, JournalFacts
    <3> QED BY <2>1, <3>1 DEF View
  <2>3. View(disk) = View(mem)
    BY DEF Init
  <2>4. LooseOf(mem) = {} /\ LooseOf(disk) = {}
    BY <2>1 DEF Init, LooseOf
  <2> QED BY <2>2, <2>3, <2>4 DEF Store!Init
<1>2. Inv /\ Inv' /\ [Next]_vars => [Store!Next]_(Store!vars)
  BY MapsToStore
<1> QED BY <1>1, <1>2, Inductive, PTL DEF Spec, ImplementsStore, Store!Spec

-----------------------------------------------------------------------------
(* The second half, about EvidenceMerge: numbers first                     *)

LEMMA HasMinimum ==
    ASSUME NEW S \in SUBSET Nat, S # {}
    PROVE  \E m \in S : \A n \in S : m <= n
<1> DEFINE less == OpToRel(<, Nat)
<1>1. \A x, y \in Nat : x < y => <<x, y>> \in less
  BY DEF OpToRel
<1>2. PICK m \in S : \A n \in S : ~(<<n, m>> \in less)
  <2>1. IsWellFoundedOn(less, Nat)
    BY NatLessThanWellFounded
  <2> QED BY <2>1, WFMin
<1> HIDE DEF less
<1>3. \A n \in S : m <= n
  <2> SUFFICES ASSUME NEW n \in S, n < m PROVE FALSE
    OBVIOUS
  <2>1. <<n, m>> \in less
    BY <1>1
  <2> QED BY <2>1, <1>2
<1> QED BY <1>3

\* A set of numbers that has with each one all the smaller ones is an interval.
LEMMA DownwardClosed ==
    ASSUME NEW S, NEW N \in Nat, S \subseteq 1..N,
           \A n \in S : 1..n \subseteq S
    PROVE  /\ IsFiniteSet(S)
           /\ Cardinality(S) \in 0..N
           /\ S = 1..Cardinality(S)
<1>1. IsFiniteSet(1..N) /\ Cardinality(1..N) = N
  BY FS_Interval
<1>2. IsFiniteSet(S) /\ Cardinality(S) \in Nat /\ Cardinality(S) <= N
  BY <1>1, FS_Subset, FS_CardinalityType
<1> DEFINE missing == {n \in Nat : n > 0 /\ n \notin S}
<1>3. N + 1 \in missing
  OBVIOUS
<1>4. PICK m \in missing : \A n \in missing : m <= n
  BY <1>3, HasMinimum
<1>5. S = 1..(m - 1)
  <2>1. \A n \in 1..(m - 1) : n \in S
    BY <1>4
  <2>2. \A n \in S : n < m
    <3> SUFFICES ASSUME NEW n \in S, n >= m PROVE FALSE
      BY <1>4
    <3>1. m \in 1..n
      BY <1>4
    <3> QED BY <3>1, <1>4
  <2>3. \A n \in S : n \in Nat /\ n >= 1
    OBVIOUS
  <2>4. m \in Nat
    BY <1>4
  <2> HIDE DEF missing
  <2>5. \A n \in S : n \in 1..(m - 1)
    BY <2>2, <2>3, <2>4
  <2> QED BY <2>1, <2>5
<1>6. Cardinality(1..(m - 1)) = m - 1
  <2>1. m - 1 \in Int /\ 1 \in Int /\ m - 1 >= 0
    BY <1>4
  <2> QED BY <2>1, FS_Interval
<1> QED BY <1>2, <1>5, <1>6

\* How many members of S are at most i.
Rank(S, i) == Cardinality({k \in S : k <= i})

\* Ranks number the members of a finite set in their order.
LEMMA RanksNumber ==
    ASSUME NEW S \in SUBSET Nat, IsFiniteSet(S)
    PROVE  /\ Cardinality(S) \in Nat
           /\ \A i \in S : Rank(S, i) \in 1..Cardinality(S)
           /\ \A i, j \in S : i < j => Rank(S, i) < Rank(S, j)
           /\ \A n \in 1..Cardinality(S) : \E i \in S : Rank(S, i) = n
<1> DEFINE Upto(i) == {k \in S : k <= i}
           size == Cardinality(S)
           rank == [i \in S |-> Rank(S, i)]
<1>1. \A i : IsFiniteSet(Upto(i)) /\ Cardinality(Upto(i)) \in Nat
             /\ Cardinality(Upto(i)) <= Cardinality(S)
  BY FS_Subset, FS_CardinalityType
<1>2. \A i \in S : Cardinality(Upto(i)) # 0
  <2>1. \A i \in S : Upto(i) # {}
    OBVIOUS
  <2> QED BY <2>1, <1>1, FS_EmptySet
<1>3. size \in Nat
  BY FS_CardinalityType
<1>4. ASSUME NEW i \in S, NEW j \in S, i < j
      PROVE  Cardinality(Upto(i)) < Cardinality(Upto(j))
  <2> i \in Nat /\ j \in Nat
    OBVIOUS
  <2>1. Upto(i) \subseteq Upto(j)
    <3>1. \A k \in S : k <= i => k <= j
      BY <1>4
    <3> QED BY <3>1
  <2>2. j \in Upto(j) /\ j \notin Upto(i)
    BY <1>4
  <2>3. Cardinality(Upto(i)) <= Cardinality(Upto(j))
        /\ Cardinality(Upto(i)) # Cardinality(Upto(j))
    BY <2>1, <2>2, <1>1, FS_Subset
  <2> QED BY <2>3, <1>1
<1>5. \A i \in S : Rank(S, i) \in 1..size
  BY <1>1, <1>2, <1>3 DEF Rank
<1>6. \A i, j \in S : i < j => Rank(S, i) < Rank(S, j)
  BY <1>4 DEF Rank
<1>7. \A i, j \in S : Rank(S, i) = Rank(S, j) => i = j
  <2> SUFFICES ASSUME NEW i \in S, NEW j \in S, Rank(S, i) = Rank(S, j), i # j
               PROVE  FALSE
    OBVIOUS
  <2>1. i < j \/ j < i
    OBVIOUS
  <2> QED BY <2>1, <1>5, <1>6
<1>8. rank \in Injection(S, 1..size)
  BY <1>5, <1>7 DEF Injection, IsInjective
<1>9. IsFiniteSet(1..size) /\ Cardinality(1..size) = size
  BY <1>3, FS_Interval
<1>10. rank \in Surjection(S, 1..size)
  BY <1>8, <1>9, FS_Injection
<1>11. \A n \in 1..size : \E i \in S : Rank(S, i) = n
  BY <1>10 DEF Surjection
<1> QED BY <1>3, <1>5, <1>6, <1>11

-----------------------------------------------------------------------------
(* Histories                                                               *)

LEMMA IdKinds ==
    ASSUME NEW id \in Id
    PROVE  /\ IsWaiver(id) <=> id[1] = "waiver"
           /\ id \in QualityId <=> id[1] = "quality"
           /\ id \in TddId <=> id[1] \in TddKind
           /\ id \in BatchId => id[1] \notin TddKind \cup {"quality", "waiver"}
<1>1. CASE id \in TddId
  <2>1. PICK phase \in TddKind, c \in Cycle : id = <<phase, c>>
    BY <1>1 DEF TddId
  <2>2. id[1] \in TddKind /\ id[1] \notin {"quality", "waiver"}
    BY <2>1 DEF TddKind
  <2>3. \A n \in DOMAIN BatchPhases : BatchPhases[n] \notin TddKind
    BY BatchesAssumption
  <2>4. id \notin BatchId
    BY <2>2, <2>3 DEF BatchId, PhaseOf
  <2> QED BY <1>1, <2>2, <2>4 DEF IsWaiver, WaiverId, QualityId
<1>2. CASE id \in BatchId
  <2>1. PICK n \in DOMAIN BatchPhases, b \in Batches : id = <<BatchPhases[n], b>>
    BY <1>2 DEF BatchId, PhaseOf
  <2>2. id[1] \notin TddKind \cup {"quality", "waiver"}
    BY <2>1, BatchesAssumption
  <2> QED BY <2>1, <2>2 DEF TddId, IsWaiver, WaiverId, QualityId
<1>3. CASE id \in QualityId \cup WaiverId
  <2>1. \A n \in DOMAIN BatchPhases : BatchPhases[n] \notin {"quality", "waiver"}
    BY BatchesAssumption
  <2> QED BY <1>3, <2>1 DEF QualityId, WaiverId, IsWaiver, TddId, TddKind, BatchId, PhaseOf
<1> QED BY <1>1, <1>2, <1>3 DEF Id

\* What has a prerequisite is neither a waiver nor a Quality checkpoint, and
\* neither is the prerequisite.
LEMMA PrerequisiteKinds ==
    ASSUME NEW step \in Prerequisite
    PROVE  /\ step[1] \in TddId \cup BatchId /\ step[2] \in TddId \cup BatchId
           /\ step[1] # step[2]
           /\ step[2] # <<"quality", 1>>
           /\ step[2][1] # "tdd:red"
           /\ ~IsWaiver(step[1]) /\ ~IsWaiver(step[2])
<1> DEFINE tdd == {<<<<"tdd:red", c>>, <<phase, c>>>> :
                      phase \in {"tdd:green", "tdd:void", "tdd:archive"}, c \in Cycle}
                  \cup {<<<<"tdd:green", c>>, <<phase, c>>>> :
                      phase \in {"tdd:refactor", "tdd:migrate"}, c \in Cycle}
<1>1. CASE step \in tdd
  <2>1. PICK from \in {"tdd:red", "tdd:green"}, phase \in TddKind, c \in Cycle :
           step = <<<<from, c>>, <<phase, c>>>> /\ phase # from /\ phase # "tdd:red"
    BY <1>1 DEF TddKind
  <2> QED BY <2>1 DEF TddId, TddKind, IsWaiver, WaiverId
<1>2. CASE \E n \in 2..Len(BatchPhases) : \E b \in Batches :
           step = <<<<PhaseOf(n - 1), b>>, <<PhaseOf(n), b>>>>
  <2>1. PICK n \in 2..Len(BatchPhases), b \in Batches :
           step = <<<<PhaseOf(n - 1), b>>, <<PhaseOf(n), b>>>>
    BY <1>2
  <2>2. n \in DOMAIN BatchPhases /\ n - 1 \in DOMAIN BatchPhases /\ n # n - 1
    BY BatchesAssumption
  <2>3. PhaseOf(n) # PhaseOf(n - 1)
    BY <2>2, BatchesAssumption DEF PhaseOf
  <2>4. step[1] \in BatchId /\ step[2] \in BatchId
    BY <2>1, <2>2 DEF BatchId
  <2>5. \A k \in DOMAIN BatchPhases : PhaseOf(k) \notin {"tdd:red", "quality", "waiver"}
    BY BatchesAssumption DEF PhaseOf, TddKind
  <2> QED BY <2>1, <2>2, <2>3, <2>4, <2>5 DEF IsWaiver, WaiverId
<1>3. \/ step \in tdd
      \/ \E n \in 2..Len(BatchPhases) : \E b \in Batches :
           step = <<<<PhaseOf(n - 1), b>>, <<PhaseOf(n), b>>>>
  BY DEF Prerequisite
<1> QED BY <1>1, <1>2, <1>3

\* What `Filed' says of a history, but for the types: a merged log may be longer
\* than the bound.
Placed(h) ==
    /\ \A p \in h.held :
          Paired(h, p) /\ (p.id[1] # "tdd:migrate" => p.listed = p.order)
    /\ \A p, q \in h.held : p.order = q.order => p = q
    /\ \A p, q \in h.held : p.id = q.id /\ p.at = q.at => p = q
    /\ \A i, j \in DOMAIN h.log : h.log[i] = h.log[j] /\ ~IsWaiver(h.log[i]) => i = j

LEMMA FiledIsPlaced ==
    ASSUME NEW h, Filed(h)
    PROVE  Placed(h)
BY DEF Filed, Placed

\* The payload of an identity that is not a waiver's is the only one.
LEMMA OnePayload ==
    ASSUME NEW h, Placed(h), NEW p \in h.held, ~IsWaiver(p.id)
    PROVE  Of(h, p.id) = {p} /\ OrderOf(h, p.id) = p.order
<1>1. \A q \in h.held : q.id = p.id => q = p
  BY DEF Placed, Paired
<1>2. Of(h, p.id) = {p}
  BY <1>1 DEF Of
<1> QED BY <1>2 DEF OrderOf

LEMMA FiledTypes ==
    ASSUME NEW h, Filed(h)
    PROVE  /\ Len(h.log) \in Nat
           /\ DOMAIN h.log = 1..Len(h.log)
           /\ \A i \in DOMAIN h.log : h.log[i] \in Id
           /\ \A p \in h.held : /\ p \in Payload
                                /\ p.id \in Id /\ p.order \in DOMAIN h.log
                                /\ h.log[p.order] = p.id
                                /\ p.order \in Nat /\ p.at \in Authored /\ p.listed \in 1..MaxRecords
BY DEF Filed, Paired, Payload

\* Payloads are at most as many as records up to the last that is paid.
LEMMA HeldIsFinite ==
    ASSUME NEW h, Filed(h), NEW N \in 0..Len(h.log), \A p \in h.held : p.order <= N
    PROVE  /\ IsFiniteSet(h.held) /\ Cardinality(h.held) \in 0..N
           /\ \A id : /\ IsFiniteSet(Of(h, id))
                      /\ Cardinality(Of(h, id)) \in 0..Cardinality(h.held)
           /\ Cardinality(Ordinals(h)) <= Cardinality(h.held)
<1> DEFINE order == [p \in h.held |-> p.order]
<1>1. N \in Nat /\ IsFiniteSet(1..N) /\ Cardinality(1..N) = N
  BY FiledTypes, FS_Interval
<1>2. order \in Injection(h.held, 1..N)
  <2>1. \A p \in h.held : p.order \in 1..N
    BY FiledTypes
  <2> QED BY <2>1 DEF Injection, IsInjective, Filed
<1>3. IsFiniteSet(h.held) /\ Cardinality(h.held) <= N
  BY <1>1, <1>2, FS_Injection
<1>4. Cardinality(h.held) \in Nat
  BY <1>3, FS_CardinalityType
<1>5. \A id : Of(h, id) \subseteq h.held
  BY DEF Of
<1>6. \A id : IsFiniteSet(Of(h, id)) /\ Cardinality(Of(h, id)) <= Cardinality(h.held)
  BY <1>3, <1>5, FS_Subset
<1>7. \A id : Cardinality(Of(h, id)) \in Nat
  BY <1>6, FS_CardinalityType
<1> DEFINE checkpoint == [n \in Ordinals(h) |-> CHOOSE p \in h.held : p.id = <<"quality", n>>]
<1>8. \A n \in Ordinals(h) : \E p \in h.held : p.id = <<"quality", n>>
  BY DEF Ordinals, Holds, Of
<1>9. \A n \in Ordinals(h) : checkpoint[n] \in h.held /\ checkpoint[n].id = <<"quality", n>>
  BY <1>8
<1>10. \A m, n \in Ordinals(h) : checkpoint[m] = checkpoint[n] => m = n
  <2> SUFFICES ASSUME NEW m \in Ordinals(h), NEW n \in Ordinals(h), checkpoint[m] = checkpoint[n]
               PROVE  m = n
    OBVIOUS
  <2>1. <<"quality", m>> = <<"quality", n>>
    BY <1>9
  <2> QED BY <2>1
<1>11. checkpoint \in Injection(Ordinals(h), h.held)
  BY <1>9, <1>10 DEF Injection, IsInjective
<1>12. Cardinality(Ordinals(h)) <= Cardinality(h.held)
  BY <1>3, <1>11, FS_Injection
<1> QED BY <1>1, <1>3, <1>4, <1>6, <1>7, <1>12

LEMMA HeldAreFew ==
    ASSUME NEW h, Filed(h)
    PROVE  /\ IsFiniteSet(h.held) /\ Cardinality(h.held) \in 0..Len(h.log)
           /\ \A id : /\ IsFiniteSet(Of(h, id))
                      /\ Cardinality(Of(h, id)) \in 0..Cardinality(h.held)
           /\ Cardinality(Ordinals(h)) <= Cardinality(h.held)
<1>1. Len(h.log) \in 0..Len(h.log) /\ \A p \in h.held : p.order <= Len(h.log)
  BY FiledTypes
<1> QED BY <1>1, HeldIsFinite

\* A history that knows all payloads of an identity has no fewer of them.
LEMMA KnowingCounts ==
    ASSUME NEW h, Filed(h), NEW g, Filed(g), NEW id,
           \A p \in Of(h, id) : Known(g, id, p.at)
    PROVE  Cardinality(Of(h, id)) <= Cardinality(Of(g, id))
<1> DEFINE same == [p \in Of(h, id) |-> CHOOSE q \in Of(g, id) : q.at = p.at]
<1>1. \A p \in Of(h, id) : same[p] \in Of(g, id) /\ same[p].at = p.at
  BY DEF Known
<1>2. \A p, q \in Of(h, id) : same[p] = same[q] => p = q
  <2> SUFFICES ASSUME NEW p \in Of(h, id), NEW q \in Of(h, id), same[p] = same[q]
               PROVE  p = q
    OBVIOUS
  <2>1. p.at = q.at
    BY <1>1
  <2>2. p \in h.held /\ q \in h.held /\ p.id = q.id
    BY DEF Of
  <2> QED BY <2>1, <2>2 DEF Filed
<1>3. same \in Injection(Of(h, id), Of(g, id))
  BY <1>1, <1>2 DEF Injection, IsInjective
<1> QED BY <1>3, FS_Injection, HeldAreFew

\* The ordinals of Quality have no gap.
LEMMA OrdinalsAreNumbers ==
    ASSUME NEW h, Built(h)
    PROVE  /\ IsFiniteSet(Ordinals(h))
           /\ Cardinality(Ordinals(h)) \in 0..MaxRecords
           /\ Ordinals(h) = 1..Cardinality(Ordinals(h))
<1>1. Ordinals(h) \subseteq 1..MaxRecords
  BY DEF Ordinals
<1>2. ASSUME NEW n \in Ordinals(h), NEW m \in 1..n
      PROVE  m \in Ordinals(h)
  <2>1. n \in 1..MaxRecords /\ Holds(h, <<"quality", n>>)
    BY DEF Ordinals
  <2>2. CASE m = n
    BY <2>2
  <2>3. CASE m < n
    <3>1. m \in 1..MaxRecords
      BY <2>1, BoundsAssumption
    <3>2. Precedes(h, <<"quality", m>>, <<"quality", n>>)
      BY <2>1, <2>3, <3>1 DEF Built
    <3>3. Holds(h, <<"quality", m>>)
      BY <3>2, <2>1 DEF Precedes, Holds
    <3> QED BY <3>1, <3>3 DEF Ordinals
  <2> QED BY <2>1, <2>2, <2>3
<1>3. \A n \in Ordinals(h) : 1..n \subseteq Ordinals(h)
  BY <1>2
<1> HIDE DEF Ordinals
<1> QED BY <1>1, <1>3, BoundsAssumption, DownwardClosed

\* The authoritative checkpoint is the last of the lineage.
LEMMA TheAuthoritative ==
    ASSUME NEW h, Placed(h), Built(h), Ordinals(h) # {}
    PROVE  \E p \in h.held :
               /\ p.id = <<"quality", Cardinality(Ordinals(h))>>
               /\ Cardinality(Ordinals(h)) \in 1..MaxRecords
               /\ Authoritative(h) = p.order
<1> DEFINE n == Cardinality(Ordinals(h))
<1>1. n \in Ordinals(h) /\ n \in 1..MaxRecords
  BY OrdinalsAreNumbers
<1>2. PICK p \in Of(h, <<"quality", n>>) : TRUE
  BY <1>1 DEF Ordinals, Holds
<1>3. p \in h.held /\ p.id = <<"quality", n>>
  BY DEF Of
<1>4. ~IsWaiver(p.id)
  BY <1>3 DEF IsWaiver, WaiverId
<1>5. OrderOf(h, <<"quality", n>>) = p.order
  BY <1>3, <1>4, OnePayload
<1> QED BY <1>1, <1>3, <1>5 DEF Authoritative

-----------------------------------------------------------------------------
(* The plan of a merge                                                     *)

\* Payloads of the same identity, and of waivers the same, match.
LEMMA SharedMatch ==
    ASSUME NEW base, Filed(base), NEW inc, Filed(inc),
           NEW q \in base.held, NEW p \in inc.held, q.id = p.id,
           IsWaiver(p.id) => q.at = p.at
    PROVE  /\ q.order \in Matches(base, inc, p.order)
           /\ q \in Paid(base, q.order) /\ p \in Paid(inc, p.order)
<1>1. /\ q.order \in DOMAIN base.log /\ base.log[q.order] = q.id
      /\ p.order \in DOMAIN inc.log /\ inc.log[p.order] = p.id
  BY FiledTypes
<1>2. q \in Paid(base, q.order) /\ p \in Paid(inc, p.order)
  BY <1>1 DEF Paid, Of
<1> QED BY <1>1, <1>2 DEF Matches, Same

\* A payload is paid for the record of its order, and only one is.
LEMMA PaidOnce ==
    ASSUME NEW h, Filed(h), NEW i \in DOMAIN h.log
    PROVE  /\ \A p \in Paid(h, i) : p \in h.held /\ p.id = h.log[i]
                                    /\ p.order = i
           /\ \A p, q \in Paid(h, i) : p = q
<1>1. \A p \in Paid(h, i) : p \in h.held /\ p.id = h.log[i]
  BY DEF Paid, Of
<1>2. ASSUME NEW p \in Paid(h, i)
      PROVE  p.order = i
  <2>1. CASE IsWaiver(p.id)
    BY <2>1 DEF Paid
  <2>2. CASE ~IsWaiver(p.id)
    BY <2>2, <1>1, FiledTypes DEF Filed
  <2> QED BY <2>1, <2>2
<1> QED BY <1>1, <1>2 DEF Filed

\* A record matches one other at most.
LEMMA MatchesOnce ==
    ASSUME NEW base, Filed(base), NEW inc, Filed(inc), NEW i \in DOMAIN inc.log,
           NEW j \in Matches(base, inc, i), NEW k \in Matches(base, inc, i)
    PROVE  j = k
<1>1. /\ j \in DOMAIN base.log /\ base.log[j] = inc.log[i]
      /\ k \in DOMAIN base.log /\ base.log[k] = inc.log[i]
      /\ Same(base, j, inc, i) /\ Same(base, k, inc, i)
  BY DEF Matches, Same
<1>2. CASE ~IsWaiver(inc.log[i])
  BY <1>1, <1>2 DEF Filed
<1>3. CASE IsWaiver(inc.log[i])
  <2>1. PICK p \in Paid(base, j), q \in Paid(inc, i) : p.at = q.at
    BY <1>1, <1>3 DEF Same
  <2>2. PICK x \in Paid(base, k), y \in Paid(inc, i) : x.at = y.at
    BY <1>1, <1>3 DEF Same
  <2>3. q = y
    BY PaidOnce
  <2>4. p \in base.held /\ x \in base.held /\ p.id = x.id /\ p.at = x.at
        /\ p.order = j /\ x.order = k
    BY <1>1, <2>1, <2>2, <2>3, PaidOnce
  <2> QED BY <2>4 DEF Filed
<1> QED BY <1>2, <1>3

\* Places of fresh records are numbers.
LEMMA FreshPlaces ==
    ASSUME NEW base, NEW inc, Filed(inc)
    PROVE  /\ Fresh(base, inc) \in SUBSET Nat
           /\ IsFiniteSet(Fresh(base, inc))
           /\ Fresh(base, inc) \subseteq DOMAIN inc.log
<1>1. Fresh(base, inc) \subseteq 1..Len(inc.log) /\ Len(inc.log) \in Nat
  BY FiledTypes DEF Fresh
<1>2. IsFiniteSet(1..Len(inc.log))
  BY <1>1, FS_Interval
<1>3. IsFiniteSet(Fresh(base, inc))
  BY <1>1, <1>2, FS_Subset
<1> QED BY <1>1, <1>3, FiledTypes

\* The order map sends a record to the one it matches, and the fresh records to
\* the places behind the base, in their order.
LEMMA MapIs ==
    ASSUME NEW base, Filed(base), NEW inc, Filed(inc)
    PROVE  LET map == OrderMap(base, inc)
               size == Cardinality(Fresh(base, inc))
           IN /\ DOMAIN map = DOMAIN inc.log
              /\ size \in Nat
              /\ \A i \in DOMAIN inc.log :
                    /\ i \notin Fresh(base, inc) =>
                          map[i] \in Matches(base, inc, i) /\ map[i] \in 1..Len(base.log)
                    /\ i \in Fresh(base, inc) =>
                          map[i] \in (Len(base.log) + 1)..(Len(base.log) + size)
                    /\ \A j \in Matches(base, inc, i) : map[i] = j
                    /\ map[i] \in Nat
              /\ \A i, k \in Fresh(base, inc) : i < k => map[i] < map[k]
              /\ \A n \in 1..size : \E i \in Fresh(base, inc) : map[i] = Len(base.log) + n
<1> DEFINE map == OrderMap(base, inc)
           fresh == Fresh(base, inc)
           size == Cardinality(Fresh(base, inc))
<1>1. DOMAIN map = DOMAIN inc.log
  BY DEF OrderMap
<1>2. /\ size \in Nat
      /\ \A i \in fresh : Rank(fresh, i) \in 1..size
      /\ \A i, j \in fresh : i < j => Rank(fresh, i) < Rank(fresh, j)
      /\ \A n \in 1..size : \E i \in fresh : Rank(fresh, i) = n
  BY FreshPlaces, RanksNumber
<1>3. \A i \in fresh : i \in DOMAIN inc.log /\ Matches(base, inc, i) = {}
  BY DEF Fresh
<1>4. \A i \in fresh : map[i] = Len(base.log) + Rank(fresh, i)
  BY <1>3 DEF OrderMap, Rank
<1>5. \A i \in DOMAIN inc.log \ fresh : Matches(base, inc, i) # {}
  BY DEF Fresh
<1>6. \A i \in DOMAIN inc.log \ fresh : map[i] \in Matches(base, inc, i)
  BY <1>5 DEF OrderMap
<1>7. \A i : Matches(base, inc, i) \subseteq 1..Len(base.log)
  BY FiledTypes DEF Matches
<1>8. Len(base.log) \in Nat
  BY FiledTypes
<1>9. \A i \in DOMAIN inc.log : \A j \in Matches(base, inc, i) : map[i] = j
  BY <1>3, <1>6, MatchesOnce
<1> HIDE DEF map, fresh, size
<1>10. \A i \in fresh : map[i] \in (Len(base.log) + 1)..(Len(base.log) + size) /\ map[i] \in Nat
  BY <1>2, <1>4, <1>8
<1>11. \A i \in DOMAIN inc.log \ fresh : map[i] \in 1..Len(base.log) /\ map[i] \in Nat
  BY <1>6, <1>7, <1>8
<1>12. \A i, k \in fresh : i < k => map[i] < map[k]
  BY <1>2, <1>4, <1>8
<1>13. \A n \in 1..size : \E i \in fresh : map[i] = Len(base.log) + n
  BY <1>2, <1>4
<1> QED BY <1>1, <1>2, <1>6, <1>9, <1>10, <1>11, <1>12, <1>13 DEF map, fresh, size

\* A plan without inversion keeps the incoming chronology.
LEMMA MapAscends ==
    ASSUME NEW base, Filed(base), NEW inc, Filed(inc), ~Inverting(base, inc)
    PROVE  \A i, k \in DOMAIN inc.log :
               /\ i < k => OrderMap(base, inc)[i] < OrderMap(base, inc)[k]
               /\ OrderMap(base, inc)[i] = OrderMap(base, inc)[k] => i = k
<1> DEFINE map == OrderMap(base, inc)
           N == Len(inc.log)
<1>1. DOMAIN inc.log = 1..N /\ N \in Nat
  BY FiledTypes
<1>2. \A i \in 1..N : map[i] \in Nat
  BY <1>1, MapIs
<1>3. \A i \in 2..N : map[i - 1] < map[i]
  <2>1. \A i \in 2..N : ~(map[i] <= map[i - 1])
    BY DEF Inverting
  <2>2. \A i \in 2..N : i \in 1..N /\ i - 1 \in 1..N
    BY <1>1
  <2> HIDE DEF map, N
  <2> QED BY <2>1, <2>2, <1>2
<1> HIDE DEF map, N
<1>4. ASSUME NEW i \in 1..N, NEW k \in 1..N, i < k
      PROVE  map[i] < map[k]
  <2> DEFINE bad == {n \in 1..N : i < n /\ ~(map[i] < map[n])}
  <2>1. SUFFICES ASSUME bad # {} PROVE FALSE
    BY <1>4
  <2>2. bad \in SUBSET Nat
    BY <1>1
  <2>3. PICK m \in bad : \A n \in bad : m <= n
    BY <2>1, <2>2, HasMinimum
  <2>4. m \in 2..N /\ i < m /\ ~(map[i] < map[m])
    BY <1>1, <2>3
  <2>5. m - 1 \in 1..N /\ map[m - 1] < map[m] /\ m - 1 \notin bad
    BY <1>1, <1>3, <2>3, <2>4
  <2>6. m - 1 = i \/ map[i] < map[m - 1]
    BY <1>1, <2>4, <2>5
  <2> QED BY <1>2, <2>4, <2>5, <2>6
<1>5. ASSUME NEW i \in 1..N, NEW k \in 1..N, map[i] = map[k]
      PROVE  i = k
  <2>1. i < k \/ k < i \/ i = k
    BY <1>1
  <2> QED BY <2>1, <1>2, <1>4, <1>5
<1> QED BY <1>1, <1>4, <1>5 DEF map

-----------------------------------------------------------------------------
(* What a merge makes of two histories                                     *)

\* The merged log is the base's log, and the fresh records where the map sends
\* them.
LEMMA MergedLog ==
    ASSUME NEW base, Filed(base), NEW inc, Filed(inc)
    PROVE  LET map == OrderMap(base, inc)
               log == Merged(base, inc).log
           IN /\ log \in Seq(Id)
              /\ Len(log) \in Nat /\ Len(base.log) <= Len(log)
              /\ DOMAIN log = 1..Len(log)
              /\ \A j \in DOMAIN base.log : j \in DOMAIN log /\ log[j] = base.log[j]
              /\ \A i \in DOMAIN inc.log : map[i] \in DOMAIN log /\ log[map[i]] = inc.log[i]
              /\ \A n \in DOMAIN log \ DOMAIN base.log :
                    \E i \in Fresh(base, inc) : map[i] = n
              /\ Fresh(base, inc) = {} => log = base.log
<1> DEFINE map == OrderMap(base, inc)
           fresh == Fresh(base, inc)
           size == Cardinality(fresh)
           appended(n) == inc.log[CHOOSE i \in fresh : map[i] = Len(base.log) + n]
           tail == [n \in 1..size |-> appended(n)]
           log == Merged(base, inc).log
           B == Len(base.log)
<1>1. log = base.log \o tail
  BY DEF Merged
<1>2. size \in Nat /\ B \in Nat /\ base.log \in Seq(Id) /\ DOMAIN base.log = 1..B
  BY MapIs, FiledTypes DEF Filed
<1>3. ASSUME NEW i \in fresh
      PROVE  map[i] - B \in 1..size /\ appended(map[i] - B) = inc.log[i]
  <2>1. i \in DOMAIN inc.log /\ map[i] \in (B + 1)..(B + size)
    BY MapIs DEF Fresh
  <2>2. \A k \in fresh : map[k] = map[i] => k = i
    <3>1. \A k \in fresh : k \in Nat /\ i \in Nat
      BY FreshPlaces
    <3>2. \A k \in fresh : (k < i => map[k] < map[i]) /\ (i < k => map[i] < map[k])
      BY MapIs
    <3>3. \A k \in fresh : map[k] \in Nat
      BY MapIs DEF Fresh
    <3> HIDE DEF map, fresh
    <3> QED BY <3>1, <3>2, <3>3
  <2> HIDE DEF map, fresh, B
  <2>3. map[i] - B \in 1..size /\ B + (map[i] - B) = map[i]
    BY <2>1, <1>2
  <2>4. (CHOOSE k \in fresh : map[k] = B + (map[i] - B)) = i
    BY <2>2, <2>3
  <2> USE DEF B
  <2> QED BY <2>3, <2>4
<1>4. \A n \in 1..size : \E i \in fresh : map[i] = B + n
  BY MapIs
<1>5. \A n \in 1..size : appended(n) \in Id
  <2> SUFFICES ASSUME NEW n \in 1..size PROVE appended(n) \in Id
    OBVIOUS
  <2>1. (CHOOSE i \in fresh : map[i] = B + n) \in fresh
    BY <1>4
  <2>2. \A i \in fresh : inc.log[i] \in Id
    BY FiledTypes DEF Fresh
  <2> QED BY <2>1, <2>2
<1> HIDE DEF appended, map, fresh, size
<1>6. tail \in Seq(Id) /\ Len(tail) = size
  <2>1. tail \in [1..size -> Id]
    BY <1>5
  <2> HIDE DEF tail
  <2> QED BY <2>1, <1>2
<1>7. \A n \in 1..size : tail[n] = appended(n)
  OBVIOUS
<1> HIDE DEF tail, log
<1>8. log \in Seq(Id) /\ Len(log) = B + size /\ DOMAIN log = 1..(B + size)
  <2>1. log \in Seq(Id) /\ Len(log) = B + size
    BY <1>1, <1>2, <1>6, ConcatProperties
  <2> QED BY <2>1
<1>15. \A i \in 1..(B + size) : log[i] = IF i <= B THEN base.log[i] ELSE tail[i - B]
  BY <1>1, <1>2, <1>6, ConcatProperties
<1>9. \A j \in 1..B : log[j] = base.log[j]
  BY <1>2, <1>15
<1>10. \A n \in 1..size : log[B + n] = tail[n]
  <2> HIDE DEF B
  <2>2. \A n \in 1..size : B + n \in 1..(B + size) /\ ~(B + n <= B) /\ (B + n) - B = n
    BY <1>2
  <2> QED BY <1>15, <2>2
<1>11. \A i \in fresh : map[i] \in DOMAIN log /\ log[map[i]] = inc.log[i]
  <2> SUFFICES ASSUME NEW i \in fresh
               PROVE  map[i] \in DOMAIN log /\ log[map[i]] = inc.log[i]
    OBVIOUS
  <2>1. map[i] \in (B + 1)..(B + size)
    BY MapIs DEF Fresh, map, fresh, size
  <2>2. PICK n \in 1..size : n = map[i] - B
    BY <1>3
  <2>3. map[i] = B + n
    BY <2>1, <2>2, <1>2
  <2>4. log[map[i]] = appended(n)
    BY <2>3, <1>7, <1>10
  <2>5. appended(n) = inc.log[i]
    BY <1>3, <2>2
  <2> QED BY <2>1, <2>4, <2>5, <1>2, <1>8
<1>12. \A i \in DOMAIN inc.log \ fresh : map[i] \in DOMAIN log /\ log[map[i]] = inc.log[i]
  <2> SUFFICES ASSUME NEW i \in DOMAIN inc.log \ fresh
               PROVE  map[i] \in DOMAIN log /\ log[map[i]] = inc.log[i]
    OBVIOUS
  <2>1. map[i] \in Matches(base, inc, i) /\ map[i] \in 1..B
    BY MapIs DEF map, fresh
  <2>2. base.log[map[i]] = inc.log[i]
    BY <2>1 DEF Matches, Same
  <2> QED BY <2>1, <2>2, <1>2, <1>8, <1>9
<1>13. ASSUME NEW n \in DOMAIN log \ DOMAIN base.log
       PROVE  \E i \in fresh : map[i] = n
  <2>1. n - B \in 1..size /\ B + (n - B) = n
    BY <1>2, <1>8
  <2> QED BY <2>1, <1>4
<1>14. ASSUME fresh = {}
       PROVE  log = base.log
  <2>1. size = 0
    BY <1>14, FS_EmptySet DEF size
  <2>2. tail = <<>>
    BY <2>1, <1>6
  <2> QED BY <2>2, <1>1, <1>2
<1> QED BY <1>2, <1>8, <1>9, <1>11, <1>12, <1>13, <1>14 DEF log, map, fresh

\* A merged payload is one of the base, or a kept one whose order was rewritten.
LEMMA MergedHeld ==
    ASSUME NEW base, NEW inc
    PROVE  LET map == OrderMap(base, inc)
               held == Merged(base, inc).held
           IN /\ Merged(base, inc) = [log |-> Merged(base, inc).log, held |-> held]
              /\ base.held \subseteq held
              /\ \A x \in held \ base.held :
                    \E p \in Kept(base, inc) : x = Rewritten(base, map, p)
              /\ \A p \in Kept(base, inc) : Rewritten(base, map, p) \in held
BY DEF Merged

LEMMA RewrittenIs ==
    ASSUME NEW base, NEW map, NEW p \in Payload
    PROVE  LET x == Rewritten(base, map, p)
           IN /\ x.id = p.id /\ x.at = p.at /\ x.order = map[p.order]
              /\ x.listed = IF IsCloned(base, p) THEN p.listed ELSE map[p.order]
              /\ p.id[1] # "tdd:migrate" => x.listed = x.order
              /\ x.order \in 1..MaxRecords => x \in Payload
<1> DEFINE x == Rewritten(base, map, p)
<1>1. p \in [id : Id, at : Authored, order : 1..MaxRecords, listed : 1..MaxRecords]
  BY DEF Payload
<1>2. x = [p EXCEPT !.order = map[p.order],
              !.listed = IF IsCloned(base, p) THEN p.listed ELSE map[p.order]]
  BY DEF Rewritten
<1> HIDE DEF x
<1>3. /\ x.id = p.id /\ x.at = p.at /\ x.order = map[p.order]
      /\ x.listed = IF IsCloned(base, p) THEN p.listed ELSE map[p.order]
  BY <1>1, <1>2
<1>4. p.id[1] # "tdd:migrate" => x.listed = x.order
  BY <1>3 DEF IsCloned
<1>5. ASSUME x.order \in 1..MaxRecords
      PROVE  x \in Payload
  <2>1. CASE IsCloned(base, p)
    BY <2>1, <1>1, <1>2, <1>3, <1>5 DEF Payload
  <2>2. CASE ~IsCloned(base, p)
    BY <2>2, <1>1, <1>2, <1>3, <1>5 DEF Payload
  <2> QED BY <2>1, <2>2
<1> QED BY <1>3, <1>4, <1>5 DEF x

\* No kept payload takes the place of one of the base.
LEMMA KeptApart ==
    ASSUME NEW base, Filed(base), NEW inc, Filed(inc),
           NEW x \in base.held, NEW p \in Kept(base, inc)
    PROVE  /\ x.order # OrderMap(base, inc)[p.order]
           /\ x.id = p.id => x.at # p.at
<1>1. p \in inc.held /\ ~\E q \in Of(base, p.id) : IsWaiver(p.id) => q.at = p.at
  BY DEF Kept
<1>2. x.id = p.id => IsWaiver(p.id) /\ x.at # p.at
  BY <1>1 DEF Of
<1>3. ASSUME x.order = OrderMap(base, inc)[p.order]
      PROVE  FALSE
  <2>1. p.order \in DOMAIN inc.log /\ inc.log[p.order] = p.id
        /\ x.order \in 1..Len(base.log) /\ base.log[x.order] = x.id /\ Len(base.log) \in Nat
    BY <1>1, FiledTypes
  <2>2. p.order \notin Fresh(base, inc)
    BY <2>1, <1>3, MapIs
  <2>3. x.order \in Matches(base, inc, p.order)
    BY <2>1, <2>2, <1>3, MapIs
  <2>4. Same(base, x.order, inc, p.order)
    BY <2>3 DEF Matches
  <2>5. x.id = p.id
    BY <2>1, <2>4 DEF Same
  <2>6. PICK q \in Paid(base, x.order), r \in Paid(inc, p.order) : q.at = r.at
    BY <2>1, <2>4, <2>5, <1>2 DEF Same
  <2>7. q = x
    BY <2>1, <2>6, PaidOnce, FiledTypes DEF Filed
  <2>8. r = p
    BY <2>1, <2>6, <1>1, PaidOnce DEF Filed
  <2> QED BY <2>5, <2>6, <2>7, <2>8, <1>2
<1> QED BY <1>2, <1>3

\* Where a payload of a merged history comes from.
LEMMA MergedSource ==
    ASSUME NEW base, Filed(base), NEW inc, Filed(inc), NEW x \in Merged(base, inc).held
    PROVE  \/ x \in base.held
           \/ \E p \in Kept(base, inc) :
                 /\ p \in inc.held /\ p \in Payload /\ p.order \in DOMAIN inc.log
                 /\ x = Rewritten(base, OrderMap(base, inc), p)
                 /\ x.id = p.id /\ x.at = p.at
                 /\ x.order = OrderMap(base, inc)[p.order]
                 /\ p.id[1] # "tdd:migrate" => x.listed = x.order
                 /\ ~IsCloned(base, p) => x.listed = x.order
                 /\ x.order \in 1..MaxRecords => x \in Payload
<1>1. SUFFICES ASSUME x \notin base.held
               PROVE  \E p \in Kept(base, inc) :
                         /\ p \in inc.held /\ p \in Payload /\ p.order \in DOMAIN inc.log
                         /\ x = Rewritten(base, OrderMap(base, inc), p)
                         /\ x.id = p.id /\ x.at = p.at
                         /\ x.order = OrderMap(base, inc)[p.order]
                         /\ p.id[1] # "tdd:migrate" => x.listed = x.order
                         /\ ~IsCloned(base, p) => x.listed = x.order
                         /\ x.order \in 1..MaxRecords => x \in Payload
  OBVIOUS
<1>2. PICK p \in Kept(base, inc) : x = Rewritten(base, OrderMap(base, inc), p)
  BY <1>1, MergedHeld
<1>3. p \in inc.held
  BY DEF Kept
<1>4. p \in Payload /\ p.order \in DOMAIN inc.log
  BY <1>3, FiledTypes
<1> QED BY <1>2, <1>3, <1>4, RewrittenIs

\* A merged history has its payloads where their orders say, one for a record.
LEMMA MergedIsPlaced ==
    ASSUME NEW base, Filed(base), NEW inc, Filed(inc), ~Inverting(base, inc)
    PROVE  Placed(Merged(base, inc))
<1> DEFINE M == Merged(base, inc)
           map == OrderMap(base, inc)
<1>2. /\ M.log \in Seq(Id) /\ Len(M.log) \in Nat /\ DOMAIN M.log = 1..Len(M.log)
      /\ \A j \in DOMAIN base.log : j \in DOMAIN M.log /\ M.log[j] = base.log[j]
      /\ \A i \in DOMAIN inc.log : map[i] \in DOMAIN M.log /\ M.log[map[i]] = inc.log[i]
      /\ \A n \in DOMAIN M.log \ DOMAIN base.log : \E i \in Fresh(base, inc) : map[i] = n
  BY MergedLog
<1>3. \A i, k \in DOMAIN inc.log : map[i] = map[k] => i = k
  BY MapAscends
<1>4. ASSUME NEW x \in M.held
      PROVE  /\ x.order \in DOMAIN M.log /\ M.log[x.order] = x.id
             /\ x.id[1] # "tdd:migrate" => x.listed = x.order
  <2>1. CASE x \in base.held
    BY <2>1, <1>2, FiledTypes DEF Filed
  <2>2. CASE \E p \in Kept(base, inc) :
                 /\ p \in inc.held /\ p.order \in DOMAIN inc.log
                 /\ x.id = p.id /\ x.order = map[p.order]
                 /\ p.id[1] # "tdd:migrate" => x.listed = x.order
    <3>1. PICK p \in Kept(base, inc) :
                 /\ p \in inc.held /\ p.order \in DOMAIN inc.log
                 /\ x.id = p.id /\ x.order = map[p.order]
                 /\ p.id[1] # "tdd:migrate" => x.listed = x.order
      BY <2>2
    <3>2. inc.log[p.order] = p.id
      BY <3>1, FiledTypes
    <3>3. x.order \in DOMAIN M.log /\ M.log[x.order] = x.id
      BY <3>1, <3>2, <1>2
    <3> QED BY <3>1, <3>3
  <2> QED BY <2>1, <2>2, MergedSource
<1>5. ASSUME NEW x \in M.held, NEW y \in M.held
      PROVE  /\ x.order = y.order => x = y
             /\ x.id = y.id /\ x.at = y.at => x = y
  <2> DEFINE from(z, p) == /\ p \in Kept(base, inc)
                           /\ p \in inc.held /\ p.order \in DOMAIN inc.log
                           /\ z = Rewritten(base, map, p)
                           /\ z.id = p.id /\ z.at = p.at /\ z.order = map[p.order]
  <2>1. \A z \in M.held : z \in base.held \/ \E p : from(z, p)
    BY MergedSource
  <2>2. \A z \in base.held : \A p, v : from(v, p) => z.order # v.order
                                                /\ (z.id = v.id => z.at # v.at)
    BY KeptApart
  <2>3. CASE x \in base.held /\ y \in base.held
    BY <2>3 DEF Filed
  <2>4. CASE x \in base.held /\ y \notin base.held
    BY <2>4, <2>1, <2>2
  <2>5. CASE x \notin base.held /\ y \in base.held
    BY <2>5, <2>1, <2>2
  <2>6. CASE x \notin base.held /\ y \notin base.held
    <3>1. PICK p : from(x, p)
      BY <2>1, <2>6
    <3>2. PICK q : from(y, q)
      BY <2>1, <2>6
    <3>3. x.order = y.order => p = q
      BY <3>1, <3>2, <1>3 DEF Filed
    <3>4. x.id = y.id /\ x.at = y.at => p = q
      BY <3>1, <3>2 DEF Filed
    <3> QED BY <3>1, <3>2, <3>3, <3>4
  <2> QED BY <2>3, <2>4, <2>5, <2>6
<1>6. ASSUME NEW j \in DOMAIN M.log, NEW k \in DOMAIN M.log,
             M.log[j] = M.log[k], ~IsWaiver(M.log[j])
      PROVE  j = k
  <2>1. \A i \in Fresh(base, inc) : i \in DOMAIN inc.log /\ Matches(base, inc, i) = {}
    BY DEF Fresh
  <2>2. ASSUME NEW m \in DOMAIN base.log, NEW i \in Fresh(base, inc),
               M.log[m] = M.log[map[i]], ~IsWaiver(M.log[m])
        PROVE  FALSE
    <3>1. base.log[m] = inc.log[i] /\ ~IsWaiver(inc.log[i])
      BY <2>1, <2>2, <1>2
    <3>2. m \in Matches(base, inc, i)
      BY <3>1 DEF Matches, Same
    <3> QED BY <3>2, <2>1
  <2>3. CASE j \in DOMAIN base.log /\ k \in DOMAIN base.log
    BY <2>3, <1>2, <1>6 DEF Filed
  <2>4. CASE j \in DOMAIN base.log /\ k \notin DOMAIN base.log
    BY <2>4, <2>2, <1>2, <1>6
  <2>5. CASE j \notin DOMAIN base.log /\ k \in DOMAIN base.log
    BY <2>5, <2>2, <1>2, <1>6
  <2>6. CASE j \notin DOMAIN base.log /\ k \notin DOMAIN base.log
    <3>1. PICK i \in Fresh(base, inc) : map[i] = j
      BY <2>6, <1>2
    <3>2. PICK l \in Fresh(base, inc) : map[l] = k
      BY <2>6, <1>2
    <3>3. inc.log[i] = inc.log[l] /\ ~IsWaiver(inc.log[i])
      BY <3>1, <3>2, <2>1, <1>2, <1>6
    <3>4. i = l
      BY <3>3, <2>1 DEF Filed
    <3> QED BY <3>1, <3>2, <3>4
  <2> QED BY <2>3, <2>4, <2>5, <2>6
<1> HIDE DEF M, map
<1>7. \A x \in M.held : Paired(M, x) /\ (x.id[1] # "tdd:migrate" => x.listed = x.order)
  BY <1>4 DEF Paired
<1>8. Placed(M)
  BY <1>5, <1>6, <1>7 DEF Placed
<1> QED BY <1>8 DEF M

\* A merged history is filed as its inputs are.
LEMMA MergedIsFiled ==
    ASSUME NEW base, Filed(base), NEW inc, Filed(inc), ~Inverting(base, inc),
           Len(Merged(base, inc).log) <= MaxRecords
    PROVE  Filed(Merged(base, inc))
<1> DEFINE M == Merged(base, inc)
<1>1. M = [log |-> M.log, held |-> M.held] /\ M.log \in Seq(Id)
  BY MergedHeld, MergedLog
<1>2. Placed(M)
  BY MergedIsPlaced
<1>3. ASSUME NEW x \in M.held
      PROVE  x \in Payload
  <2>1. x \in base.held \/ (x.order \in 1..MaxRecords => x \in Payload)
    BY MergedSource
  <2>2. x.order \in DOMAIN M.log /\ DOMAIN M.log = 1..Len(M.log) /\ Len(M.log) \in Nat
    BY <1>2, MergedLog DEF Placed, Paired
  <2>3. x.order \in 1..MaxRecords
    BY <2>2, BoundsAssumption
  <2> QED BY <2>1, <2>3, FiledTypes
<1> HIDE DEF M
<1>4. Filed(M)
  BY <1>1, <1>2, <1>3 DEF Filed, Placed
<1> QED BY <1>4 DEF M

\* Every payload of the incoming history is in the merged one, where the map
\* sends its order.
LEMMA Landing ==
    ASSUME NEW base, Filed(base), NEW inc, Filed(inc), ~Divergent(base, inc),
           NEW p \in inc.held
    PROVE  \E x \in Merged(base, inc).held :
               x.id = p.id /\ x.at = p.at /\ x.order = OrderMap(base, inc)[p.order]
<1>1. CASE p \in Kept(base, inc)
  BY <1>1, MergedHeld, RewrittenIs, FiledTypes
<1>2. CASE p \notin Kept(base, inc)
  <2>1. PICK q \in Of(base, p.id) : IsWaiver(p.id) => q.at = p.at
    BY <1>2 DEF Kept
  <2>2. q \in base.held /\ q.id = p.id
    BY DEF Of
  <2>3. q.order \in Matches(base, inc, p.order)
        /\ q \in Paid(base, q.order) /\ p \in Paid(inc, p.order)
    BY <2>1, <2>2, SharedMatch
  <2>4. p.order \in DOMAIN inc.log
    BY FiledTypes
  <2>5. OrderMap(base, inc)[p.order] = q.order
    BY <2>3, <2>4, MapIs
  <2>6. q.at = p.at
    BY <2>3, <2>4 DEF Divergent
  <2> QED BY <2>2, <2>5, <2>6, MergedHeld
<1> QED BY <1>1, <1>2

\* What precedes something in both histories does so in the merged one.
LEMMA MergedPrecedes ==
    ASSUME NEW base, Filed(base), NEW inc, Filed(inc),
           ~Divergent(base, inc), ~Inverting(base, inc), NEW earlier, NEW later,
           Precedes(base, earlier, later), Precedes(inc, earlier, later)
    PROVE  Precedes(Merged(base, inc), earlier, later)
<1> DEFINE M == Merged(base, inc)
           map == OrderMap(base, inc)
<1> SUFFICES ASSUME NEW y \in Of(M, later)
             PROVE  \E x \in Of(M, earlier) : x.order < y.order
  BY DEF Precedes
<1>1. y \in M.held /\ y.id = later
  BY DEF Of
<1>2. CASE y \in base.held
  <2>1. PICK x \in Of(base, earlier) : x.order < y.order
    BY <1>1, <1>2 DEF Precedes, Of
  <2>2. x \in Of(M, earlier)
    BY MergedHeld DEF Of
  <2> QED BY <2>1, <2>2
<1>3. CASE y \notin base.held
  <2>1. PICK q \in inc.held : q.id = later /\ y.order = map[q.order]
    BY <1>1, <1>3, MergedSource
  <2>2. PICK p \in Of(inc, earlier) : p.order < q.order
    BY <2>1 DEF Precedes, Of
  <2>3. p \in inc.held /\ p.id = earlier
    BY DEF Of
  <2>4. map[p.order] < map[q.order]
    BY <2>1, <2>2, <2>3, FiledTypes, MapAscends
  <2>5. PICK x \in M.held : x.id = earlier /\ x.order = map[p.order]
    BY <2>3, Landing
  <2>6. x \in Of(M, earlier)
    BY <2>5 DEF Of
  <2> QED BY <2>1, <2>4, <2>5, <2>6
<1> QED BY <1>2, <1>3

-----------------------------------------------------------------------------
(* What recording and merging make of a sound history                      *)

\* Payloads alone decide what is held and which checkpoint is authoritative.
LEMMA SamePayloads ==
    ASSUME NEW h, NEW g, g.held = h.held
    PROVE  /\ \A id : Of(g, id) = Of(h, id) /\ (Holds(g, id) <=> Holds(h, id))
           /\ Ordinals(g) = Ordinals(h)
           /\ Authoritative(g) = Authoritative(h)
           /\ Built(h) => Built(g)
           /\ LateWorkKnew(h) => LateWorkKnew(g)
<1>1. \A id : Of(g, id) = Of(h, id)
  BY DEF Of
<1>2. \A id : Holds(g, id) <=> Holds(h, id)
  BY <1>1 DEF Holds
<1>3. Ordinals(g) = Ordinals(h)
  BY <1>2 DEF Ordinals
<1>4. Authoritative(g) = Authoritative(h)
  BY <1>1, <1>3 DEF Authoritative, OrderOf
<1>5. Built(h) => Built(g)
  BY <1>1 DEF Built, Precedes
<1>6. LateWorkKnew(h) => LateWorkKnew(g)
  BY <1>3, <1>4 DEF LateWorkKnew
<1> QED BY <1>1, <1>2, <1>3, <1>4, <1>5, <1>6

\* A record for which there is no payload yet.
LEMMA LoggedIsSound ==
    ASSUME NEW h, Sound(h), NEW id \in Id, Logs(h, id) => IsWaiver(id),
           NEW g, g = [h EXCEPT !.log = Append(@, id)]
    PROVE  /\ Sound(g)
           /\ g.held = h.held
           /\ g.log = Append(h.log, id) /\ Len(g.log) = Len(h.log) + 1
           /\ g.log[Len(g.log)] = id
           /\ \A p \in g.held : p.order < Len(g.log)
<1>1. Filed(h) /\ Built(h) /\ LateWorkKnew(h)
  BY DEF Sound
<1>2. g = [log |-> Append(h.log, id), held |-> h.held]
  BY <1>1 DEF Filed
<1>3. g.held = h.held /\ g.log = Append(h.log, id) /\ g = [log |-> g.log, held |-> g.held]
  BY <1>2
<1>4. h.log \in Seq(Id)
  BY <1>1 DEF Filed
<1>5. /\ g.log \in Seq(Id) /\ Len(g.log) = Len(h.log) + 1 /\ Len(h.log) \in Nat
      /\ DOMAIN g.log = 1..(Len(h.log) + 1) /\ DOMAIN h.log = 1..Len(h.log)
      /\ \A i \in DOMAIN h.log : g.log[i] = h.log[i]
      /\ g.log[Len(h.log) + 1] = id
  BY <1>3, <1>4
<1>6. \A p \in g.held : p.order \in DOMAIN h.log /\ h.log[p.order] = p.id
  <2>1. \A p \in h.held : p.order \in DOMAIN h.log /\ h.log[p.order] = p.id
    BY <1>1, FiledTypes
  <2> QED BY <2>1, <1>3
<1>7. \A p \in g.held : Paired(g, p)
  BY <1>5, <1>6 DEF Paired
<1>8. ASSUME NEW i \in DOMAIN g.log, NEW j \in DOMAIN g.log, g.log[i] = g.log[j], ~IsWaiver(g.log[i])
      PROVE  i = j
  <2>1. CASE i \in DOMAIN h.log /\ j \in DOMAIN h.log
    BY <2>1, <1>1, <1>5, <1>8 DEF Filed
  <2>2. CASE i = Len(h.log) + 1 /\ j = Len(h.log) + 1
    BY <2>2
  <2>3. CASE i \in DOMAIN h.log /\ j = Len(h.log) + 1
    BY <2>3, <1>5, <1>8 DEF Logs
  <2>4. CASE i = Len(h.log) + 1 /\ j \in DOMAIN h.log
    BY <2>4, <1>5, <1>8 DEF Logs
  <2> QED BY <2>1, <2>2, <2>3, <2>4, <1>5
<1>9. Filed(g)
  BY <1>1, <1>3, <1>5, <1>7, <1>8 DEF Filed
<1>10. Built(g) /\ LateWorkKnew(g)
  BY <1>1, <1>3, SamePayloads
<1>11. Sound(g)
  BY <1>9, <1>10 DEF Sound
<1>12. \A p \in g.held : p.order < Len(g.log)
  BY <1>5, <1>6
<1> QED BY <1>3, <1>5, <1>11, <1>12

\* The payload of the last record.
LEMMA PaidIsSound ==
    ASSUME NEW h, Sound(h), NEW w \in Payload,
           Len(h.log) > 0, h.log[Len(h.log)] = w.id,
           w.order = Len(h.log), w.listed = Len(h.log),
           \A p \in h.held : p.order < Len(h.log),
           \A step \in Prerequisite : step[2] = w.id => Holds(h, step[1]),
           w.id \in QualityId => w.id[2] = Cardinality(Ordinals(h)) + 1,
           \A p \in Of(h, w.id) : IsWaiver(w.id) => p.at # w.at,
           w.at[3] = Cardinality(Ordinals(h)),
           NEW g, g = [h EXCEPT !.held = @ \cup {w}]
    PROVE  /\ Sound(g)
           /\ g.log = h.log /\ g.held = h.held \cup {w}
           /\ w \notin h.held
<1> DEFINE K == Cardinality(Ordinals(h))
<1>1. Filed(h) /\ Built(h) /\ LateWorkKnew(h)
  BY DEF Sound
<1>2. g = [log |-> h.log, held |-> h.held \cup {w}]
  BY <1>1 DEF Filed
<1>3. g.log = h.log /\ g.held = h.held \cup {w} /\ g = [log |-> g.log, held |-> g.held]
  BY <1>2
<1>4. /\ h.log \in Seq(Id) /\ Len(h.log) \in DOMAIN h.log /\ Len(h.log) \in Nat
      /\ w.id \in Id /\ w.id = h.log[w.order]
  BY <1>1, FiledTypes DEF Filed
<1>5. \A p \in h.held : /\ p \in Payload /\ p.order \in DOMAIN h.log /\ p.order \in Nat
                        /\ h.log[p.order] = p.id /\ p.order < w.order
  BY <1>1, FiledTypes
<1>6. \A p \in h.held : p.id = w.id => IsWaiver(w.id) /\ p.at # w.at
  <2>1. \A p \in h.held : p.id = w.id => IsWaiver(w.id)
    BY <1>1, <1>4, <1>5 DEF Filed
  <2> QED BY <2>1 DEF Of
<1>7. w \notin h.held
  BY <1>5, <1>4
<1>8. Filed(g)
  <2>1. \A p \in g.held : Paired(g, p) /\ (p.id[1] # "tdd:migrate" => p.listed = p.order)
    BY <1>1, <1>3, <1>4 DEF Filed, Paired
  <2>2. \A p, q \in g.held : p.order = q.order => p = q
    BY <1>1, <1>3, <1>4, <1>5 DEF Filed
  <2>3. \A p, q \in g.held : p.id = q.id /\ p.at = q.at => p = q
    BY <1>1, <1>3, <1>6 DEF Filed
  <2>4. g.held \subseteq Payload
    BY <1>3, <1>5
  <2> QED BY <1>1, <1>3, <2>1, <2>2, <2>3, <2>4 DEF Filed
<1>9. \A id : Of(h, id) \subseteq Of(g, id)
  BY <1>3 DEF Of
<1>10. ASSUME NEW earlier, NEW later, Precedes(h, earlier, later),
              later = w.id => Holds(h, earlier)
       PROVE  Precedes(g, earlier, later)
  <2> SUFFICES ASSUME NEW q \in Of(g, later)
               PROVE  \E p \in Of(g, earlier) : p.order < q.order
    BY DEF Precedes
  <2>1. q \in g.held /\ q.id = later
    BY DEF Of
  <2>2. CASE q \in h.held
    <3>1. q \in Of(h, later)
      BY <2>1, <2>2 DEF Of
    <3>2. PICK p \in Of(h, earlier) : p.order < q.order
      BY <3>1, <1>10 DEF Precedes
    <3> QED BY <3>2, <1>9
  <2>3. CASE q = w
    <3>1. PICK p \in Of(h, earlier) : TRUE
      BY <2>1, <2>3, <1>10 DEF Holds
    <3>2. p.order < w.order
      BY <1>5 DEF Of
    <3> QED BY <2>3, <3>1, <3>2, <1>9
  <2> QED BY <2>1, <2>2, <2>3, <1>3
<1>11. K \in 0..MaxRecords /\ Ordinals(h) = 1..K
  BY <1>1, OrdinalsAreNumbers
<1> HIDE DEF K
<1>12. Built(g)
  <2>1. \A step \in Prerequisite : Precedes(g, step[1], step[2])
    BY <1>1, <1>10 DEF Built
  <2>2. ASSUME NEW m \in 1..MaxRecords, NEW n \in 1..MaxRecords, m < n
        PROVE  Precedes(g, <<"quality", m>>, <<"quality", n>>)
    <3>1. ASSUME <<"quality", n>> = w.id
          PROVE  Holds(h, <<"quality", m>>)
      <4>1. w.id \in QualityId /\ w.id[2] = n
        <5>1. <<"quality", n>> \in QualityId /\ <<"quality", n>>[2] = n
          BY <2>2 DEF QualityId
        <5> QED BY <3>1, <5>1
      <4>2. n = K + 1
        BY <4>1 DEF K
      <4>3. m \in 1..K
        BY <4>2, <2>2, <1>11, BoundsAssumption
      <4> QED BY <4>3, <1>11 DEF Ordinals
    <3>2. Precedes(h, <<"quality", m>>, <<"quality", n>>)
      BY <2>2, <1>1 DEF Built
    <3> QED BY <3>1, <3>2, <1>10
  <2> QED BY <2>1, <2>2 DEF Built
<1>13. LateWorkKnew(g)
  <2> SUFFICES ASSUME Ordinals(g) # {}, NEW p \in g.held, p.id \in BatchId,
                      p.order > Authoritative(g)
               PROVE  p.at[3] >= Cardinality(Ordinals(g))
    BY DEF LateWorkKnew
  <2>1. CASE w.id \in QualityId
    <3>1. K + 1 \in 1..MaxRecords /\ w.id = <<"quality", K + 1>>
      BY <2>1 DEF QualityId, K
    <3>2. Ordinals(g) = 1..(K + 1)
      <4>1. \A n \in 1..MaxRecords : Holds(g, <<"quality", n>>) <=>
                Holds(h, <<"quality", n>>) \/ n = K + 1
        BY <3>1, <1>3 DEF Holds, Of
      <4>2. Ordinals(g) = Ordinals(h) \cup {K + 1}
        BY <3>1, <4>1 DEF Ordinals
      <4>3. 1..(K + 1) = (1..K) \cup {K + 1}
        BY <1>11
      <4> QED BY <4>2, <4>3, <1>11
    <3>3. Cardinality(Ordinals(g)) = K + 1
      <4>1. K + 1 \in Int /\ 1 \in Int /\ K + 1 >= 1
        BY <1>11
      <4> QED BY <3>2, <4>1, FS_Interval
    <3>4. PICK q \in g.held : q.id = <<"quality", K + 1>> /\ Authoritative(g) = q.order
      BY <1>8, <1>12, <3>3, FiledIsPlaced, TheAuthoritative
    <3>5. q = w
      <4>1. ~IsWaiver(w.id) /\ w \in g.held
        BY <3>1, <1>3 DEF IsWaiver, WaiverId
      <4>2. Of(g, w.id) = {w}
        BY <4>1, <1>8, FiledIsPlaced, OnePayload
      <4> QED BY <4>2, <3>1, <3>4 DEF Of
    <3> QED BY <3>4, <3>5, <1>3, <1>4, <1>5
  <2>2. CASE w.id \notin QualityId
    <3>1. \A n \in 1..MaxRecords : Of(g, <<"quality", n>>) = Of(h, <<"quality", n>>)
      <4>1. \A n \in 1..MaxRecords : <<"quality", n>> \in QualityId
        BY DEF QualityId
      <4>2. \A n \in 1..MaxRecords : <<"quality", n>> # w.id
        BY <2>2, <4>1
      <4> QED BY <4>2, <1>3 DEF Of
    <3>2. Ordinals(g) = Ordinals(h)
      BY <3>1 DEF Ordinals, Holds
    <3>3. K \in 1..MaxRecords
      BY <3>2, <1>11
    <3>4. Authoritative(g) = Authoritative(h)
      BY <3>1, <3>2, <3>3 DEF Authoritative, OrderOf, K
    <3>5. CASE p \in h.held
      BY <3>5, <3>2, <3>4, <1>1 DEF LateWorkKnew
    <3>6. CASE p = w
      BY <3>6, <3>2, <3>3 DEF K
    <3> QED BY <3>5, <3>6, <1>3
  <2> QED BY <2>1, <2>2
<1>14. Sound(g)
  BY <1>8, <1>12, <1>13 DEF Sound
<1> QED BY <1>3, <1>7, <1>14

\* A merge that is accepted.
LEMMA MergedIsSound ==
    ASSUME NEW base, Sound(base), NEW inc, Sound(inc), Mergeable(base, inc),
           Len(Merged(base, inc).log) <= MaxRecords
    PROVE  Sound(Merged(base, inc))
<1> DEFINE M == Merged(base, inc)
<1>1. /\ Filed(base) /\ Built(base) /\ Filed(inc) /\ Built(inc)
      /\ ~Divergent(base, inc) /\ ~Inverting(base, inc) /\ QualityLast(M)
  BY DEF Sound, Mergeable, ValidCandidate
<1>2. Filed(M)
  BY <1>1, MergedIsFiled
<1>3. Built(M)
  <2>1. \A earlier, later : Precedes(base, earlier, later) /\ Precedes(inc, earlier, later)
            => Precedes(M, earlier, later)
    BY <1>1, MergedPrecedes
  <2> HIDE DEF M
  <2> QED BY <2>1, <1>1 DEF Built
<1> HIDE DEF M
<1>4. LateWorkKnew(M)
  <2> SUFFICES ASSUME Ordinals(M) # {}, NEW p \in M.held, p.id \in BatchId,
                      p.order > Authoritative(M)
               PROVE  FALSE
    BY DEF LateWorkKnew
  <2>1. OrderOf(M, p.id) < Authoritative(M)
    BY <1>1 DEF QualityLast, Holds, Of
  <2>2. p.id \in Id
    BY DEF Id
  <2>3. OrderOf(M, p.id) = p.order
    BY <2>2, <1>2, IdKinds, FiledIsPlaced, OnePayload
  <2>4. PICK q \in M.held : Authoritative(M) = q.order
    BY <1>2, <1>3, FiledIsPlaced, TheAuthoritative
  <2>5. p.order \in Nat /\ q.order \in Nat
    BY <1>2, FiledTypes
  <2> QED BY <2>1, <2>3, <2>4, <2>5
<1> QED BY <1>2, <1>3, <1>4 DEF Sound, M

-----------------------------------------------------------------------------
(* The inductive invariant                                                 *)

NoneOf(h) == {p \in h.held : p.at[1] = None}

\* Every history goes back to one trunk, and is sound.
HistoriesInv ==
    /\ DOMAIN hist = Root
    /\ \A r \in Root : Sound(hist[r]) /\ Len(hist[r].log) <= MaxRecords
    /\ \E trunk \in Trunks : \A r \in Root : NoneOf(hist[r]) = trunk.held

\* What is known of a root's payloads anywhere, the root knows, and it numbers
\* them by how many it knew.
HomeInv ==
    \A r \in Root : \A p \in hist[r].held :
        /\ p.at[1] \in Root => Known(hist[p.at[1]], p.id, p.at)
        /\ p.at[1] = r => p.at[2] <= Cardinality(Of(hist[r], p.id))

\* A record that waits for its payload is the last of the log, and has its
\* prerequisite.
Waiting(h, id) ==
    /\ id \in Id
    /\ Len(h.log) > 0 /\ h.log[Len(h.log)] = id
    /\ \A p \in h.held : p.order < Len(h.log)
    /\ \A step \in Prerequisite : step[2] = id => Holds(h, step[1])
    /\ id \in QualityId => id[2] = 1
PendingInv ==
    /\ pending \in [Root -> Id \cup {None}]
    /\ \A r \in Root : pending[r] # None => Waiting(hist[r], pending[r])

MInv == HistoriesInv /\ HomeInv /\ PendingInv

\* A step in which one root's history gains payloads that others know of.
LEMMA GainKeeps ==
    ASSUME HistoriesInv, HomeInv, NEW r \in Root, NEW g, Sound(g), Len(g.log) <= MaxRecords,
           hist' = [hist EXCEPT ![r] = g],
           hist[r].held \subseteq g.held,
           \A p \in g.held \ hist[r].held :
               /\ p.at[1] # None
               /\ p.at[1] = r => p.at[2] <= Cardinality(Of(g, p.id))
               /\ p.at[1] \in Root \ {r} => Known(hist[p.at[1]], p.id, p.at)
    PROVE  /\ HistoriesInv' /\ HomeInv'
           /\ \A s \in Root : \A p \in hist[s].held : Known(hist'[s], p.id, p.at)
<1>1. /\ hist'[r] = g /\ DOMAIN hist' = Root
      /\ \A s \in Root \ {r} : hist'[s] = hist[s]
  BY DEF HistoriesInv
<1>2. \A s \in Root : hist[s].held \subseteq hist'[s].held
  BY <1>1
<1>3. \A s \in Root : \A id, at : Known(hist[s], id, at) => Known(hist'[s], id, at)
  BY <1>2 DEF Known, Of
<1>4. \A s \in Root : \A p \in hist[s].held : Known(hist'[s], p.id, p.at)
  BY <1>2 DEF Known, Of
<1>5. PICK trunk \in Trunks : \A s \in Root : NoneOf(hist[s]) = trunk.held
  BY DEF HistoriesInv
<1>6. NoneOf(g) = NoneOf(hist[r])
  BY DEF NoneOf
<1>7. \A s \in Root : NoneOf(hist'[s]) = trunk.held
  BY <1>1, <1>5, <1>6
<1>8. \A s \in Root : Sound(hist'[s]) /\ Len(hist'[s].log) <= MaxRecords
  BY <1>1 DEF HistoriesInv
<1>9. HistoriesInv'
  BY <1>1, <1>7, <1>8 DEF HistoriesInv
<1>10. ASSUME NEW s \in Root, NEW p \in hist'[s].held
       PROVE  /\ p.at[1] \in Root => Known(hist'[p.at[1]], p.id, p.at)
              /\ p.at[1] = s => p.at[2] <= Cardinality(Of(hist'[s], p.id))
  <2>1. CASE p \in hist[s].held
    <3>1. p.at[1] \in Root => Known(hist'[p.at[1]], p.id, p.at)
      BY <2>1, <1>3 DEF HomeInv
    <3>2. ASSUME p.at[1] = s
          PROVE  p.at[2] <= Cardinality(Of(hist'[s], p.id))
      <4>1. p.at[2] <= Cardinality(Of(hist[s], p.id))
        BY <2>1, <3>2 DEF HomeInv
      <4>2. Of(hist[s], p.id) \subseteq Of(hist'[s], p.id)
        BY <1>2 DEF Of
      <4>3. Filed(hist[s]) /\ Filed(hist'[s])
        BY <1>8 DEF HistoriesInv, Sound
      <4>4. Cardinality(Of(hist[s], p.id)) <= Cardinality(Of(hist'[s], p.id))
        BY <4>2, <4>3, HeldAreFew, FS_Subset
      <4>5. /\ Cardinality(Of(hist[s], p.id)) \in Nat
            /\ Cardinality(Of(hist'[s], p.id)) \in Nat
        BY <4>3, HeldAreFew
      <4>6. p.at[2] \in Nat
        BY <2>1, <4>3, FiledTypes DEF Authored
      <4> QED BY <4>1, <4>4, <4>5, <4>6
    <3> QED BY <3>1, <3>2
  <2>2. CASE p \notin hist[s].held
    <3>1. s = r /\ p \in g.held \ hist[r].held
      BY <2>2, <1>1
    <3>2. p.at[1] = r => Known(g, p.id, p.at)
      BY <3>1 DEF Known, Of
    <3>3. p.at[1] \in Root => Known(hist'[p.at[1]], p.id, p.at)
      BY <3>1, <3>2, <1>1
    <3>4. p.at[1] = s => p.at[2] <= Cardinality(Of(hist'[s], p.id))
      BY <3>1, <1>1
    <3> QED BY <3>3, <3>4
  <2> QED BY <2>1, <2>2
<1>11. HomeInv'
  BY <1>10 DEF HomeInv
<1> QED BY <1>4, <1>9, <1>11

\* There is room in a log to which a record may be appended.
LEMMA RoomForRecord ==
    ASSUME HistoriesInv, NEW r \in Root, NEW id, Appendable(hist[r], id)
    PROVE  Len(hist[r].log) + 1 <= MaxRecords /\ Len(hist[r].log) \in Nat
<1> DEFINE h == hist[r]
<1>1. PICK trunk \in Trunks : NoneOf(h) = trunk.held
  BY DEF HistoriesInv
<1>2. Filed(h)
  BY DEF HistoriesInv, Sound
<1>3. Len(h.log) \in Nat
  BY <1>2, FiledTypes
<1>4. Cardinality(NoneOf(h)) + MaxAhead <= MaxRecords
  BY <1>1, TrunksAssumption
<1>5. NoneOf(h) \subseteq h.held
  BY DEF NoneOf
<1>6. Cardinality(NoneOf(h)) \in Nat
  BY <1>2, <1>5, HeldAreFew, FS_Subset, FS_CardinalityType
<1>7. Len(h.log) - Cardinality(NoneOf(h)) < MaxAhead
  BY DEF Appendable, NoneOf
<1> HIDE DEF h
<1>8. Len(h.log) + 1 <= MaxRecords
  BY <1>3, <1>4, <1>6, <1>7, BoundsAssumption
<1> QED BY <1>3, <1>8 DEF h

\* A root that records nothing, or waits no longer, has nothing to show for it.
LEMMA OthersWait ==
    ASSUME PendingInv, pending' \in [Root -> Id \cup {None}],
           \A s \in Root : pending'[s] # None =>
               pending'[s] = pending[s] /\ hist'[s] = hist[s]
    PROVE  PendingInv'
BY DEF PendingInv

-----------------------------------------------------------------------------
(* The actions                                                             *)

LEMMA MergeInitInv == MergeInit => MInv
<1> SUFFICES ASSUME MergeInit PROVE MInv
  OBVIOUS
<1>1. PICK trunk \in Trunks : hist = [r \in Root |-> trunk]
  BY DEF MergeInit
<1>2. /\ Sound(trunk) /\ Len(trunk.log) <= MaxRecords
      /\ \A p \in trunk.held : p.at[1] = None
  BY TrunksAssumption
<1>3. NoneOf(trunk) = trunk.held
  BY <1>2 DEF NoneOf
<1>4. HistoriesInv
  BY <1>1, <1>2, <1>3 DEF HistoriesInv
<1>5. HomeInv
  BY <1>1, <1>2, RootAssumption DEF HomeInv
<1>6. PendingInv
  BY DEF MergeInit, PendingInv
<1> QED BY <1>4, <1>5, <1>6 DEF MInv

LEMMA LogRecordKeeps ==
    ASSUME MInv, NEW r \in Root, NEW id \in Id, LogRecord(r, id)
    PROVE  MInv' /\ \A s \in Root : \A p \in hist[s].held : Known(hist'[s], p.id, p.at)
<1> DEFINE h == hist[r]
           g == [h EXCEPT !.log = Append(@, id)]
<1>1. /\ Sound(h) /\ DOMAIN hist = Root /\ DOMAIN pending = Root
  BY DEF MInv, HistoriesInv, PendingInv
<1>2. /\ pending[r] = None /\ Acceptable(r, id) /\ Appendable(h, id)
      /\ hist' = [hist EXCEPT ![r] = g]
      /\ pending' = [pending EXCEPT ![r] = id]
  BY DEF LogRecord, Recordable
<1>3. Logs(h, id) => IsWaiver(id)
  BY <1>2 DEF Appendable
<1>4. /\ Sound(g) /\ g.held = h.held
      /\ g.log = Append(h.log, id) /\ Len(g.log) = Len(h.log) + 1
      /\ g.log[Len(g.log)] = id
      /\ \A p \in g.held : p.order < Len(g.log)
  BY <1>1, <1>3, LoggedIsSound
<1>5. Len(g.log) <= MaxRecords /\ Len(h.log) \in Nat
  BY <1>2, <1>4, RoomForRecord DEF MInv
<1>6. /\ \A step \in Prerequisite : step[2] = id => Holds(h, step[1])
      /\ id \in QualityId => id[2] = 1
  BY <1>2, IdKinds DEF Acceptable
<1>7. \A x : Holds(g, x) <=> Holds(h, x)
  BY <1>4 DEF Holds, Of
<1>8. Len(g.log) > 0
  BY <1>4, <1>5
<1> HIDE DEF g
<1>9. Waiting(g, id)
  BY <1>4, <1>6, <1>7, <1>8 DEF Waiting
<1>10. HistoriesInv' /\ HomeInv'
       /\ \A s \in Root : \A p \in hist[s].held : Known(hist'[s], p.id, p.at)
  BY <1>2, <1>4, <1>5, GainKeeps DEF MInv
<1>11. hist'[r] = g /\ \A s \in Root \ {r} : hist'[s] = hist[s]
  BY <1>1, <1>2
<1>12. /\ pending' \in [Root -> Id \cup {None}] /\ pending'[r] = id
       /\ \A s \in Root \ {r} : pending'[s] = pending[s]
  BY <1>1, <1>2 DEF MInv, PendingInv
<1>13. \A s \in Root : pending'[s] # None => Waiting(hist'[s], pending'[s])
  BY <1>9, <1>11, <1>12 DEF MInv, PendingInv
<1>14. PendingInv'
  BY <1>12, <1>13 DEF PendingInv
<1> QED BY <1>10, <1>14 DEF MInv

\* The payload that a root is about to write.
LEMMA WrittenIs ==
    ASSUME NEW r \in Root, NEW h, Filed(h), Built(h), NEW id \in Id, Len(h.log) > 0,
           Len(h.log) <= MaxRecords, \A p \in h.held : p.order < Len(h.log)
    PROVE  LET w == Written(h, r, id)
           IN /\ w.id = id /\ w.order = Len(h.log) /\ w.listed = Len(h.log)
              /\ w.at[1] = r /\ w.at[2] = Cardinality(Of(h, id)) + 1
              /\ w.at[3] = Cardinality(Ordinals(h))
              /\ w \in Payload
<1>1. Len(h.log) \in Nat
  BY FiledTypes
<1>2. Len(h.log) - 1 \in 0..Len(h.log) /\ \A p \in h.held : p.order <= Len(h.log) - 1
  BY <1>1, FiledTypes
<1>3. Cardinality(Of(h, id)) \in 0..(Len(h.log) - 1)
  BY <1>1, <1>2, HeldIsFinite
<1>4. Cardinality(Of(h, id)) + 1 \in 1..MaxRecords /\ Len(h.log) \in 1..MaxRecords
  BY <1>1, <1>3, BoundsAssumption
<1>5. Cardinality(Ordinals(h)) \in 0..MaxRecords
  BY OrdinalsAreNumbers
<1>6. <<r, Cardinality(Of(h, id)) + 1, Cardinality(Ordinals(h))>> \in Authored
  BY <1>4, <1>5 DEF Authored
<1> QED BY <1>4, <1>6 DEF Written, Payload

\* Writing it.
LEMMA WritingKeeps ==
    ASSUME HistoriesInv, HomeInv, NEW r \in Root, NEW h, Sound(h), NEW id,
           h.held = hist[r].held, Len(h.log) <= MaxRecords, id \in Id, Len(h.log) > 0,
           h.log[Len(h.log)] = id, \A p \in h.held : p.order < Len(h.log),
           \A step \in Prerequisite : step[2] = id => Holds(h, step[1]),
           id \in QualityId => id[2] = Cardinality(Ordinals(h)) + 1,
           hist' = [hist EXCEPT ![r] = [h EXCEPT !.held = @ \cup {Written(h, r, id)}]]
    PROVE  /\ HistoriesInv' /\ HomeInv'
           /\ \A s \in Root : \A p \in hist[s].held : Known(hist'[s], p.id, p.at)
<1> DEFINE w == Written(h, r, id)
           g == [h EXCEPT !.held = @ \cup {w}]
<1>1. Filed(h) /\ Built(h)
  BY DEF Sound
<1>2. /\ w.id = id /\ w.order = Len(h.log) /\ w.listed = Len(h.log)
      /\ w.at[1] = r /\ w.at[2] = Cardinality(Of(h, id)) + 1
      /\ w.at[3] = Cardinality(Ordinals(h))
      /\ w \in Payload
  BY <1>1, WrittenIs
<1>3. /\ IsFiniteSet(Of(h, id)) /\ Cardinality(Of(h, id)) \in Nat
  BY <1>1, HeldAreFew
<1> HIDE DEF w
<1>4. Of(h, id) = Of(hist[r], id)
  BY DEF Of
<1>5. \A p \in Of(h, id) : p.at # w.at
  <2> SUFFICES ASSUME NEW p \in Of(h, id), p.at = w.at PROVE FALSE
    OBVIOUS
  <2>1. p \in hist[r].held /\ p.id = id
    BY DEF Of
  <2>2. p.at[2] <= Cardinality(Of(h, id))
    BY <2>1, <1>2, <1>4 DEF HomeInv
  <2> QED BY <2>2, <1>2, <1>3
<1>6. /\ Sound(g) /\ g.log = h.log /\ g.held = h.held \cup {w} /\ w \notin h.held
  BY <1>2, <1>5, PaidIsSound
<1>7. hist' = [hist EXCEPT ![r] = g]
  BY DEF w
<1> HIDE DEF g
<1>8. Cardinality(Of(g, id)) = Cardinality(Of(h, id)) + 1
  <2>1. Of(g, id) = Of(h, id) \cup {w}
    BY <1>2, <1>6 DEF Of
  <2>2. w \notin Of(h, id)
    BY <1>6 DEF Of
  <2> QED BY <2>1, <2>2, <1>3, FS_AddElement
<1>9. \A p \in g.held \ hist[r].held :
          /\ p.at[1] # None
          /\ p.at[1] = r => p.at[2] <= Cardinality(Of(g, p.id))
          /\ p.at[1] \in Root \ {r} => Known(hist[p.at[1]], p.id, p.at)
  <2>1. \A p \in g.held \ hist[r].held : p = w
    BY <1>6
  <2>2. w.at[2] <= Cardinality(Of(g, w.id))
    BY <1>2, <1>3, <1>8
  <2> QED BY <2>1, <2>2, <1>2, RootAssumption
<1>10. hist[r].held \subseteq g.held /\ Len(g.log) <= MaxRecords
  BY <1>6
<1> QED BY <1>6, <1>7, <1>9, <1>10, GainKeeps

LEMMA WritePayloadKeeps ==
    ASSUME MInv, NEW r \in Root, WritePayload(r)
    PROVE  MInv' /\ \A s \in Root : \A p \in hist[s].held : Known(hist'[s], p.id, p.at)
<1>0. PICK h, id : h = hist[r] /\ id = pending[r]
  OBVIOUS
<1>1. /\ Sound(h) /\ Len(h.log) <= MaxRecords
      /\ DOMAIN hist = Root /\ DOMAIN pending = Root
      /\ HistoriesInv /\ HomeInv
  BY <1>0 DEF MInv, HistoriesInv, PendingInv
<1>2. /\ id # None
      /\ hist' = [hist EXCEPT ![r].held = @ \cup {Written(hist[r], r, pending[r])}]
      /\ pending' = [pending EXCEPT ![r] = None]
  BY <1>0 DEF WritePayload
<1>3. Waiting(h, id)
  BY <1>0, <1>2 DEF MInv, PendingInv
<1>4. hist' = [hist EXCEPT ![r] = [h EXCEPT !.held = @ \cup {Written(h, r, id)}]]
  BY <1>0, <1>1, <1>2
<1>5. ASSUME id \in QualityId
      PROVE  id[2] = Cardinality(Ordinals(h)) + 1
  <2>1. id = <<"quality", 1>>
    BY <1>3, <1>5 DEF Waiting, QualityId
  <2>2. ~IsWaiver(id)
    BY <2>1 DEF IsWaiver, WaiverId
  <2>3. Filed(h) /\ Built(h)
    BY <1>1 DEF Sound
  <2>4. \A p \in h.held : p.id # id
    BY <1>3, <2>2, <2>3, FiledTypes DEF Waiting, Filed
  <2>5. 1 \notin Ordinals(h)
    BY <2>1, <2>4 DEF Ordinals, Holds, Of
  <2>6. Ordinals(h) = 1..Cardinality(Ordinals(h)) /\ Cardinality(Ordinals(h)) \in Nat
    BY <2>3, BoundsAssumption, OrdinalsAreNumbers
  <2>7. Cardinality(Ordinals(h)) = 0
    BY <2>5, <2>6
  <2> QED BY <2>1, <2>7
<1>9. h.held = hist[r].held
  BY <1>0
<1>10. /\ id \in Id /\ Len(h.log) > 0 /\ h.log[Len(h.log)] = id
       /\ \A p \in h.held : p.order < Len(h.log)
       /\ \A step \in Prerequisite : step[2] = id => Holds(h, step[1])
  BY <1>3 DEF Waiting
<1>6. HistoriesInv' /\ HomeInv'
      /\ \A s \in Root : \A p \in hist[s].held : Known(hist'[s], p.id, p.at)
  <2>1. id \in QualityId => id[2] = Cardinality(Ordinals(h)) + 1
    BY <1>5
  <2>2. hist' = [hist EXCEPT ![r] = [h EXCEPT !.held = @ \cup {Written(h, r, id)}]]
    BY <1>4
  <2>3. Sound(h) /\ Len(h.log) <= MaxRecords /\ HistoriesInv /\ HomeInv
    BY <1>1
  <2> QED BY <2>1, <2>2, <2>3, <1>9, <1>10, WritingKeeps, ZenonT(60)
<1>7. /\ pending' \in [Root -> Id \cup {None}]
      /\ \A s \in Root : pending'[s] # None => pending'[s] = pending[s] /\ hist'[s] = hist[s]
  BY <1>1, <1>2 DEF MInv, PendingInv
<1>8. PendingInv'
  BY <1>7, OthersWait DEF MInv
<1> QED BY <1>6, <1>8 DEF MInv

LEMMA LosePayloadKeeps ==
    ASSUME MInv, NEW r \in Root, LosePayload(r)
    PROVE  MInv' /\ \A s \in Root : \A p \in hist[s].held : Known(hist'[s], p.id, p.at)
<1>1. hist' = hist /\ pending' = [pending EXCEPT ![r] = None]
  BY DEF LosePayload
<1>2. HistoriesInv' /\ HomeInv'
  BY <1>1 DEF MInv, HistoriesInv, HomeInv
<1>3. pending' \in [Root -> Id \cup {None}]
      /\ \A s \in Root : pending'[s] # None => pending'[s] = pending[s] /\ hist'[s] = hist[s]
  BY <1>1 DEF MInv, PendingInv
<1>4. PendingInv'
  BY <1>3, OthersWait DEF MInv
<1>5. \A s \in Root : \A p \in hist[s].held : Known(hist'[s], p.id, p.at)
  BY <1>1 DEF Known, Of
<1> QED BY <1>2, <1>4, <1>5 DEF MInv

LEMMA RefreshQualityKeeps ==
    ASSUME MInv, NEW r \in Root, RefreshQuality(r)
    PROVE  MInv' /\ \A s \in Root : \A p \in hist[s].held : Known(hist'[s], p.id, p.at)
<1> DEFINE h == hist[r]
           K == Cardinality(Ordinals(h))
           id == <<"quality", K + 1>>
           logged == [h EXCEPT !.log = Append(@, id)]
<1>1. /\ Sound(h) /\ Filed(h) /\ Built(h)
      /\ DOMAIN hist = Root /\ DOMAIN pending = Root
      /\ HistoriesInv /\ HomeInv
  BY DEF MInv, HistoriesInv, PendingInv, Sound
<1>2. /\ pending[r] = None /\ pending' = pending /\ Appendable(h, id)
      /\ hist' = [hist EXCEPT ![r] = [logged EXCEPT !.held = @ \cup {Written(logged, r, id)}]]
  BY DEF RefreshQuality
<1>3. Len(h.log) + 1 <= MaxRecords /\ Len(h.log) \in Nat
  BY <1>1, <1>2, RoomForRecord
<1>4. K \in Nat /\ K <= Len(h.log) /\ Ordinals(h) = 1..K
  <2>1. K \in 0..MaxRecords /\ Ordinals(h) = 1..K
    BY <1>1, OrdinalsAreNumbers
  <2>2. Cardinality(h.held) \in 0..Len(h.log) /\ K <= Cardinality(h.held)
    BY <1>1, HeldAreFew
  <2> HIDE DEF K, h
  <2> QED BY <2>1, <2>2, <1>3, BoundsAssumption
<1>5. id \in QualityId /\ id \in Id
  <2>1. K + 1 \in 1..MaxRecords
    BY <1>3, <1>4, BoundsAssumption
  <2> HIDE DEF K
  <2> QED BY <2>1 DEF QualityId, Id
<1>6. Logs(h, id) => IsWaiver(id)
  BY <1>2 DEF Appendable
<1>7. /\ Sound(logged) /\ logged.held = h.held
      /\ Len(logged.log) = Len(h.log) + 1
      /\ logged.log[Len(logged.log)] = id
      /\ \A p \in logged.held : p.order < Len(logged.log)
  BY <1>1, <1>5, <1>6, LoggedIsSound
<1>8. Len(logged.log) > 0 /\ Len(logged.log) <= MaxRecords
  BY <1>3, <1>7
<1>9. Ordinals(logged) = Ordinals(h)
  BY <1>7, SamePayloads
<1>10. id[2] = Cardinality(Ordinals(logged)) + 1
  BY <1>9
<1>11. \A step \in Prerequisite : step[2] # id
  <2>1. id[1] = "quality" /\ id \notin TddId /\ id \notin BatchId
    BY <1>5, IdKinds DEF TddKind
  <2>2. \A step \in Prerequisite : step[2] \in TddId \cup BatchId
    BY PrerequisiteKinds
  <2> QED BY <2>1, <2>2
<1>15. logged.held = hist[r].held
  BY <1>7
<1>16. \A step \in Prerequisite : step[2] = id => Holds(logged, step[1])
  BY <1>11
<1> HIDE DEF logged, id, h, K
<1>12. HistoriesInv' /\ HomeInv'
       /\ \A s \in Root : \A p \in hist[s].held : Known(hist'[s], p.id, p.at)
  BY <1>1, <1>2, <1>5, <1>7, <1>8, <1>10, <1>15, <1>16, WritingKeeps
<1>13. \A s \in Root : pending'[s] # None => pending'[s] = pending[s] /\ hist'[s] = hist[s]
  BY <1>1, <1>2
<1>14. PendingInv'
  BY <1>1, <1>2, <1>13, OthersWait DEF MInv, PendingInv
<1> QED BY <1>12, <1>14 DEF MInv

LEMMA MergeKeeps ==
    ASSUME MInv, NEW r \in Root, NEW s \in Root, Merge(r, s)
    PROVE  MInv' /\ \A x \in Root : \A p \in hist[x].held : Known(hist'[x], p.id, p.at)
<1>0. PICK base, inc : base = hist[r] /\ inc = hist[s]
  OBVIOUS
<1> DEFINE M == Merged(base, inc)
<1>1. /\ Sound(base) /\ Sound(inc) /\ Filed(base) /\ Filed(inc)
      /\ DOMAIN hist = Root /\ DOMAIN pending = Root
      /\ HistoriesInv /\ HomeInv
  BY <1>0 DEF MInv, HistoriesInv, PendingInv, Sound
<1>2. /\ pending[r] = None /\ pending' = pending /\ s # r
      /\ Mergeable(base, inc) /\ Len(M.log) <= MaxRecords
      /\ hist' = [hist EXCEPT ![r] = M]
  BY <1>0 DEF Merge, Sources
<1>3. Sound(M)
  BY <1>1, <1>2, MergedIsSound
<1>4. base.held \subseteq M.held
  BY MergedHeld
<1>5. ASSUME NEW x \in M.held \ base.held
      PROVE  /\ x.at[1] # None
             /\ x.at[1] # r
             /\ x.at[1] \in Root \ {r} => Known(hist[x.at[1]], x.id, x.at)
  <2>1. PICK p \in Kept(base, inc) : p \in inc.held /\ x.id = p.id /\ x.at = p.at
    BY <1>1, <1>5, MergedSource
  <2>2. ~Known(base, p.id, p.at)
    BY <2>1 DEF Kept, Known
  <2>3. ASSUME p.at[1] = None
        PROVE  FALSE
    <3>1. NoneOf(base) = NoneOf(inc)
      BY <1>0, <1>1 DEF HistoriesInv
    <3>2. p \in base.held
      BY <3>1, <2>1, <2>3 DEF NoneOf
    <3> QED BY <3>2, <2>2 DEF Known, Of
  <2>4. p.at[1] \in Root => Known(hist[p.at[1]], p.id, p.at)
    BY <2>1, <1>0, <1>1 DEF HomeInv
  <2> QED BY <2>1, <2>2, <2>3, <2>4, <1>0
<1> HIDE DEF M
<1>6. HistoriesInv' /\ HomeInv'
      /\ \A x \in Root : \A p \in hist[x].held : Known(hist'[x], p.id, p.at)
  <2>1. hist[r].held \subseteq M.held
    BY <1>0, <1>4
  <2>2. \A p \in M.held \ hist[r].held :
               /\ p.at[1] # None
               /\ p.at[1] = r => p.at[2] <= Cardinality(Of(M, p.id))
               /\ p.at[1] \in Root \ {r} => Known(hist[p.at[1]], p.id, p.at)
    BY <1>0, <1>5
  <2> QED BY <2>1, <2>2, <1>1, <1>2, <1>3, GainKeeps
<1>7. \A x \in Root : pending'[x] # None => pending'[x] = pending[x] /\ hist'[x] = hist[x]
  BY <1>1, <1>2
<1>8. PendingInv'
  BY <1>1, <1>2, <1>7, OthersWait DEF MInv, PendingInv
<1> QED BY <1>6, <1>8 DEF MInv

LEMMA AdoptKeeps ==
    ASSUME MInv, NEW r \in Root, NEW s \in Root, Adopt(s, r)
    PROVE  MInv' /\ \A x \in Root : \A p \in hist[x].held : Known(hist'[x], p.id, p.at)
<1>1. /\ DOMAIN hist = Root /\ DOMAIN pending = Root
      /\ \A x \in Root : Sound(hist[x]) /\ Filed(hist[x]) /\ Len(hist[x].log) <= MaxRecords
  BY DEF MInv, HistoriesInv, PendingInv, Sound
<1>2. /\ pending[s] = None /\ pending' = pending /\ r # s
      /\ hist' = [hist EXCEPT ![s] = hist[r]]
      /\ \A p \in hist[s].held : \E q \in Of(hist[r], p.id) : p.at = q.at
  BY DEF Adopt, Descendants
<1>3. hist'[s] = hist[r] /\ DOMAIN hist' = Root /\ \A x \in Root \ {s} : hist'[x] = hist[x]
  BY <1>1, <1>2
<1>4. \A id, at : Known(hist[s], id, at) => Known(hist[r], id, at)
  BY <1>2 DEF Known, Of
<1>5. \A x \in Root : \A id, at : Known(hist[x], id, at) => Known(hist'[x], id, at)
  BY <1>3, <1>4
<1>6. \A x \in Root : \A p \in hist[x].held : Known(hist'[x], p.id, p.at)
  <2>1. \A x \in Root : \A p \in hist[x].held : Known(hist[x], p.id, p.at)
    BY DEF Known, Of
  <2> QED BY <2>1, <1>5
<1>7. HistoriesInv'
  <2>1. PICK trunk \in Trunks : \A x \in Root : NoneOf(hist[x]) = trunk.held
    BY DEF MInv, HistoriesInv
  <2>2. \A x \in Root : NoneOf(hist'[x]) = trunk.held
    BY <2>1, <1>3
  <2>3. \A x \in Root : Sound(hist'[x]) /\ Len(hist'[x].log) <= MaxRecords
    BY <1>1, <1>3
  <2> QED BY <2>2, <2>3, <1>3 DEF HistoriesInv
<1>8. ASSUME NEW p \in hist[r].held, p.at[1] = s
      PROVE  p.at[2] <= Cardinality(Of(hist[r], p.id))
  <2>1. Known(hist[s], p.id, p.at)
    BY <1>8 DEF MInv, HomeInv
  <2>2. PICK q \in hist[s].held : q.id = p.id /\ q.at = p.at
    BY <2>1 DEF Known, Of
  <2>3. p.at[2] <= Cardinality(Of(hist[s], p.id))
    BY <2>2, <1>8 DEF MInv, HomeInv
  <2>4. \A x \in Of(hist[s], p.id) : Known(hist[r], p.id, x.at)
    BY <1>2 DEF Known, Of
  <2>5. Cardinality(Of(hist[s], p.id)) <= Cardinality(Of(hist[r], p.id))
    BY <2>4, <1>1, KnowingCounts
  <2>6. /\ Cardinality(Of(hist[s], p.id)) \in Nat
        /\ Cardinality(Of(hist[r], p.id)) \in Nat
    BY <1>1, HeldAreFew
  <2>7. p.at[2] \in Nat
    BY <1>1, FiledTypes DEF Authored
  <2> QED BY <2>3, <2>5, <2>6, <2>7
<1>9. HomeInv'
  <2> SUFFICES ASSUME NEW x \in Root, NEW p \in hist'[x].held
               PROVE  /\ p.at[1] \in Root => Known(hist'[p.at[1]], p.id, p.at)
                      /\ p.at[1] = x => p.at[2] <= Cardinality(Of(hist'[x], p.id))
    BY DEF HomeInv
  <2>1. CASE x = s
    <3>1. p \in hist[r].held
      BY <2>1, <1>3
    <3>2. p.at[1] \in Root => Known(hist'[p.at[1]], p.id, p.at)
      BY <3>1, <1>5 DEF MInv, HomeInv
    <3>3. p.at[1] = x => p.at[2] <= Cardinality(Of(hist'[x], p.id))
      BY <2>1, <3>1, <1>3, <1>8
    <3> QED BY <3>2, <3>3
  <2>2. CASE x # s
    <3>1. hist'[x] = hist[x]
      BY <2>2, <1>3
    <3> QED BY <3>1, <1>5 DEF MInv, HomeInv
  <2> QED BY <2>1, <2>2
<1>10. \A x \in Root : pending'[x] # None => pending'[x] = pending[x] /\ hist'[x] = hist[x]
  BY <1>1, <1>2
<1>11. PendingInv'
  BY <1>1, <1>2, <1>10, OthersWait DEF MInv, PendingInv
<1> QED BY <1>6, <1>7, <1>9, <1>11 DEF MInv

\* No step breaks the invariant or takes anything from a root.
LEMMA StepKeeps ==
    ASSUME MInv, [MergeNext]_mergeVars
    PROVE  MInv' /\ \A x \in Root : \A p \in hist[x].held : Known(hist'[x], p.id, p.at)
<1>1. CASE UNCHANGED mergeVars
  <2>1. hist' = hist /\ pending' = pending
    BY <1>1 DEF mergeVars
  <2>2. MInv'
    BY <2>1 DEF MInv, HistoriesInv, HomeInv, PendingInv
  <2>3. \A x \in Root : \A p \in hist[x].held : Known(hist'[x], p.id, p.at)
    BY <2>1 DEF Known, Of
  <2> QED BY <2>2, <2>3
<1>2. CASE MergeNext
  <2>1. PICK r \in Root :
           \/ \E id \in Id : LogRecord(r, id)
           \/ WritePayload(r) \/ LosePayload(r) \/ RefreshQuality(r)
           \/ \E s \in Root : Merge(r, s) \/ Adopt(r, s)
    BY <1>2 DEF MergeNext
  <2>2. CASE \E id \in Id : LogRecord(r, id)
    BY <2>2, LogRecordKeeps
  <2>3. CASE WritePayload(r)
    BY <2>3, WritePayloadKeeps
  <2>4. CASE LosePayload(r)
    BY <2>4, LosePayloadKeeps
  <2>5. CASE RefreshQuality(r)
    BY <2>5, RefreshQualityKeeps
  <2>6. CASE \E s \in Root : Merge(r, s)
    BY <2>6, MergeKeeps
  <2>7. CASE \E s \in Root : Adopt(r, s)
    BY <2>7, AdoptKeeps
  <2> QED BY <2>1, <2>2, <2>3, <2>4, <2>5, <2>6, <2>7
<1> QED BY <1>1, <1>2

LEMMA MergeInvariant == MergeSpec => []MInv
<1>1. MInv /\ [MergeNext]_mergeVars => MInv'
  BY StepKeeps
<1> QED BY <1>1, MergeInitInv, PTL DEF MergeSpec

-----------------------------------------------------------------------------
(* The theorems                                                            *)

\* Histories are logs of identities and sets of payloads, of bounded length,
\* and a root waits for a payload of an identity or for none.
THEOREM MergeTypeCorrect == MergeSpec => []MergeTypeOK
<1>1. MInv => MergeTypeOK
  BY DEF MInv, HistoriesInv, PendingInv, Sound, Filed, MergeTypeOK
<1> QED BY <1>1, MergeInvariant, PTL

\* Batch work behind the authoritative Quality was recorded by a root that had
\* this checkpoint: validateQualityOrder lets no merge append work to a
\* checkpoint its author did not know of.
THEOREM LateWorkIsInformed == MergeSpec => []LateWorkKnewQuality
<1>1. MInv => LateWorkKnewQuality
  BY DEF MInv, HistoriesInv, Sound, LateWorkKnewQuality
<1> QED BY <1>1, MergeInvariant, PTL

\* What a merge of two sound histories is accepted for.
LEMMA MergeIs ==
    ASSUME MInv, NEW r \in Root, NEW s \in Root, Merge(r, s)
    PROVE  \E base, inc :
               /\ base = hist[r] /\ inc = hist[s] /\ r # s
               /\ Sound(base) /\ Filed(base) /\ Built(base)
               /\ Sound(inc) /\ Filed(inc) /\ Built(inc)
               /\ Mergeable(base, inc) /\ ~Divergent(base, inc) /\ ~Inverting(base, inc)
               /\ Len(Merged(base, inc).log) <= MaxRecords
               /\ hist'[r] = Merged(base, inc)
               /\ Sound(Merged(base, inc)) /\ Filed(Merged(base, inc))
<1>1. PICK base, inc : base = hist[r] /\ inc = hist[s]
  OBVIOUS
<1>2. /\ r # s /\ Mergeable(base, inc) /\ Len(Merged(base, inc).log) <= MaxRecords
      /\ hist'[r] = Merged(base, inc)
  BY <1>1 DEF Merge, Sources, MInv, HistoriesInv
<1>3. /\ Sound(base) /\ Filed(base) /\ Built(base)
      /\ Sound(inc) /\ Filed(inc) /\ Built(inc)
  BY <1>1 DEF MInv, HistoriesInv, Sound
<1>4. ~Divergent(base, inc) /\ ~Inverting(base, inc)
  BY <1>2 DEF Mergeable
<1>5. Sound(Merged(base, inc)) /\ Filed(Merged(base, inc))
  BY <1>2, <1>3, MergedIsSound DEF Sound
<1> QED BY <1>1, <1>2, <1>3, <1>4, <1>5

\* A merge (mergeTdd, mergeChanges, mergeWaivers) keeps the base's payloads and
\* takes every other, and no step takes anything from a root.
THEOREM MergesLoseNothing == MergeSpec => NothingLost
<1> DEFINE KeepsAll ==
      \A r \in Root :
          /\ \A p \in hist[r].held : Known(hist'[r], p.id, p.at)
          /\ \A s \in Root \ {r} : Merge(r, s) =>
                /\ hist[r].held \subseteq hist'[r].held
                /\ \A p \in hist[s].held : Known(hist'[r], p.id, p.at)
<1>1. ASSUME MInv, [MergeNext]_mergeVars
      PROVE  KeepsAll
  <2>1. \A r \in Root : \A p \in hist[r].held : Known(hist'[r], p.id, p.at)
    BY <1>1, StepKeeps
  <2>2. ASSUME NEW r \in Root, NEW s \in Root \ {r}, Merge(r, s)
        PROVE  /\ hist[r].held \subseteq hist'[r].held
               /\ \A p \in hist[s].held : Known(hist'[r], p.id, p.at)
    <3>1. PICK base, inc :
             /\ base = hist[r] /\ inc = hist[s]
             /\ Filed(base) /\ Filed(inc) /\ ~Divergent(base, inc)
             /\ hist'[r] = Merged(base, inc)
      BY <1>1, <2>2, MergeIs
    <3>2. base.held \subseteq Merged(base, inc).held
      BY MergedHeld
    <3>3. \A p \in inc.held : Known(Merged(base, inc), p.id, p.at)
      BY <3>1, Landing DEF Known, Of
    <3> QED BY <3>1, <3>2, <3>3
  <2> QED BY <2>1, <2>2
<1>2. MInv /\ [MergeNext]_mergeVars => [KeepsAll]_mergeVars
  BY <1>1
<1>3. []MInv /\ [][MergeNext]_mergeVars => [][KeepsAll]_mergeVars
  BY <1>2, PTL
<1>4. MergeSpec => [][KeepsAll]_mergeVars
  BY <1>3, MergeInvariant, PTL DEF MergeSpec
<1> QED BY <1>4 DEF NothingLost

\* A payload of the base is itself in the merged history.
LEMMA BaseStays ==
    ASSUME NEW base, NEW inc, Filed(Merged(base, inc)),
           NEW p \in base.held, NEW x \in Merged(base, inc).held, x.id = p.id, x.at = p.at
    PROVE  x = p
BY MergedHeld DEF Filed

\* A payload of the incoming history is where the map sends its order.
LEMMA IncomingLands ==
    ASSUME NEW base, Filed(base), NEW inc, Filed(inc), ~Divergent(base, inc),
           Filed(Merged(base, inc)),
           NEW p \in inc.held, NEW x \in Merged(base, inc).held, x.id = p.id, x.at = p.at
    PROVE  x.order = OrderMap(base, inc)[p.order]
<1>1. PICK y \in Merged(base, inc).held :
          y.id = p.id /\ y.at = p.at /\ y.order = OrderMap(base, inc)[p.order]
  BY Landing
<1>2. x = y
  BY <1>1 DEF Filed
<1> QED BY <1>1, <1>2

\* Of two payloads of either history, the earlier is the earlier in what the
\* merge makes of them: incomingOrderMap ascends, and rewritePhase follows it.
THEOREM MergesKeepChronology == MergeSpec => ChronologyKept
<1> DEFINE KeepsOrder ==
      \A r, s \in Root : Merge(r, s) =>
          \A h \in {hist[r], hist[s]} : \A p, q \in h.held : p.order < q.order =>
              \A x \in Of(hist'[r], p.id), y \in Of(hist'[r], q.id) :
                  x.at = p.at /\ y.at = q.at => x.order < y.order
<1>1. ASSUME MInv
      PROVE  KeepsOrder
  <2> SUFFICES ASSUME NEW r \in Root, NEW s \in Root, Merge(r, s),
                      NEW h \in {hist[r], hist[s]},
                      NEW p \in h.held, NEW q \in h.held, p.order < q.order,
                      NEW x \in Of(hist'[r], p.id), NEW y \in Of(hist'[r], q.id),
                      x.at = p.at, y.at = q.at
               PROVE  x.order < y.order
    OBVIOUS
  <2>1. PICK base, inc :
           /\ base = hist[r] /\ inc = hist[s]
           /\ Filed(base) /\ Filed(inc) /\ ~Divergent(base, inc) /\ ~Inverting(base, inc)
           /\ hist'[r] = Merged(base, inc) /\ Filed(Merged(base, inc))
    BY <1>1, MergeIs
  <2>2. /\ x \in Merged(base, inc).held /\ x.id = p.id /\ x.at = p.at
        /\ y \in Merged(base, inc).held /\ y.id = q.id /\ y.at = q.at
    BY <2>1 DEF Of
  <2>3. CASE h = base
    <3>1. p \in base.held /\ q \in base.held
      BY <2>3
    <3>2. x = p
      BY <3>1, <2>1, <2>2, BaseStays
    <3>3. y = q
      BY <3>1, <2>1, <2>2, BaseStays
    <3> QED BY <3>2, <3>3
  <2>4. CASE h = inc
    <3>1. p \in inc.held /\ q \in inc.held
      BY <2>4
    <3>2. x.order = OrderMap(base, inc)[p.order]
      BY <3>1, <2>1, <2>2, IncomingLands
    <3>3. y.order = OrderMap(base, inc)[q.order]
      BY <3>1, <2>1, <2>2, IncomingLands
    <3>4. p.order \in DOMAIN inc.log /\ q.order \in DOMAIN inc.log
      BY <3>1, <2>1, FiledTypes
    <3> QED BY <3>2, <3>3, <3>4, <2>1, MapAscends
  <2> QED BY <2>1, <2>3, <2>4
<1>2. MInv /\ [MergeNext]_mergeVars => [KeepsOrder]_mergeVars
  BY <1>1
<1>3. []MInv /\ [][MergeNext]_mergeVars => [][KeepsOrder]_mergeVars
  BY <1>2, PTL
<1>4. MergeSpec => [][KeepsOrder]_mergeVars
  BY <1>3, MergeInvariant, PTL DEF MergeSpec
<1> QED BY <1>4 DEF ChronologyKept

\* A merge that is repeated finds every record of the incoming history where the
\* first has put it.
LEMMA MergedAgain ==
    ASSUME NEW base, Filed(base), NEW inc, Filed(inc), Mergeable(base, inc),
           Filed(Merged(base, inc)),
           \A i \in DOMAIN inc.log : ~Orphan(inc, i),
           \A p \in Merged(base, inc).held : ListedPaired(Merged(base, inc), p)
    PROVE  LET M == Merged(base, inc)
           IN Mergeable(M, inc) /\ Merged(M, inc) = M
<1> DEFINE map == OrderMap(base, inc)
<1>0. PICK M : M = Merged(base, inc)
  OBVIOUS
<1>1. /\ ~Divergent(base, inc) /\ ~Inverting(base, inc) /\ Filed(M) /\ ValidCandidate(M)
      /\ ValidInput(base) /\ ValidInput(inc)
  BY <1>0 DEF Mergeable
<1>2. \A i \in DOMAIN inc.log : map[i] \in DOMAIN M.log /\ M.log[map[i]] = inc.log[i]
  BY <1>0, MergedLog
<1>3. \A p \in inc.held : \E x \in M.held :
          x.id = p.id /\ x.at = p.at /\ x.order = map[p.order]
  BY <1>0, <1>1, Landing
<1> HIDE DEF map
<1>4. ASSUME NEW i \in DOMAIN inc.log
      PROVE  map[i] \in Matches(M, inc, i)
  <2>1. ASSUME IsWaiver(inc.log[i])
        PROVE  \E x \in Paid(M, map[i]), q \in Paid(inc, i) : x.at = q.at
    <3>1. PICK q \in Paid(inc, i) : TRUE
      BY <2>1 DEF Orphan
    <3>2. q \in inc.held /\ q.id = inc.log[i] /\ q.order = i
      BY PaidOnce
    <3>3. PICK x \in M.held : x.id = q.id /\ x.at = q.at /\ x.order = map[i]
      BY <3>2, <1>3
    <3>4. x \in Paid(M, map[i])
      BY <3>2, <3>3, <1>2 DEF Paid, Of
    <3> QED BY <3>3, <3>4
  <2>2. Same(M, map[i], inc, i)
    BY <2>1, <1>2 DEF Same
  <2> QED BY <2>2, <1>2 DEF Matches
<1>5. Fresh(M, inc) = {}
  BY <1>4 DEF Fresh
<1>6. \A i \in DOMAIN inc.log : OrderMap(M, inc)[i] = map[i]
  BY <1>1, <1>4, MapIs
<1>7. ~Inverting(M, inc)
  <2>1. \A i \in 2..Len(inc.log) : i \in DOMAIN inc.log /\ i - 1 \in DOMAIN inc.log
    BY FiledTypes
  <2>2. \A i \in 2..Len(inc.log) : ~(map[i] <= map[i - 1])
    BY <1>1 DEF Inverting, map
  <2> QED BY <2>1, <2>2, <1>6 DEF Inverting
<1>8. Kept(M, inc) = {}
  <2> SUFFICES ASSUME NEW p \in Kept(M, inc) PROVE FALSE
    OBVIOUS
  <2>1. p \in inc.held /\ ~\E q \in Of(M, p.id) : IsWaiver(p.id) => q.at = p.at
    BY DEF Kept
  <2>2. PICK x \in M.held : x.id = p.id /\ x.at = p.at
    BY <2>1, <1>3
  <2> QED BY <2>1, <2>2 DEF Of
<1>9. Merged(M, inc) = M
  <2>1. Merged(M, inc).log = M.log
    BY <1>1, <1>5, MergedLog
  <2>2. Merged(M, inc).held = M.held
    BY <1>8, MergedHeld
  <2>3. M = [log |-> M.log, held |-> M.held]
    BY <1>1 DEF Filed
  <2> QED BY <2>1, <2>2, <2>3, MergedHeld
<1>10. ~Divergent(M, inc)
  <2> SUFFICES ASSUME NEW i \in DOMAIN inc.log, NEW j \in Matches(M, inc, i),
                      NEW p \in Paid(M, j), NEW q \in Paid(inc, i)
               PROVE  p.at = q.at
    BY DEF Divergent
  <2>1. j = map[i] /\ j \in DOMAIN M.log /\ M.log[j] = inc.log[i]
    <3>1. j = map[i]
      BY <1>1, <1>4, MatchesOnce
    <3> QED BY <3>1, <1>2
  <2>2. q \in inc.held /\ q.id = inc.log[i] /\ q.order = i
    BY PaidOnce
  <2>3. PICK x \in M.held : x.id = q.id /\ x.at = q.at /\ x.order = map[i]
    BY <2>2, <1>3
  <2>4. p \in M.held /\ p.order = j
    BY <2>1, <1>1, PaidOnce
  <2>5. p = x
    BY <2>1, <2>3, <2>4, <1>1 DEF Filed
  <2> QED BY <2>3, <2>5
<1>11. ValidInput(M)
  <2>1. \A id : Holds(base, id) => Holds(M, id)
    BY <1>0, MergedHeld DEF Holds, Of
  <2>2. \E id \in TddId : Holds(M, id)
    BY <2>1, <1>1 DEF ValidInput
  <2>3. \E id \in BatchId \cup QualityId : Holds(M, id)
    BY <2>1, <1>1 DEF ValidInput
  <2>4. \A p \in M.held : Paired(M, p) /\ ListedPaired(M, p)
    BY <1>0, <1>1 DEF ValidCandidate
  <2> QED BY <2>2, <2>3, <2>4, <1>1 DEF ValidInput, ValidCandidate
<1>12. Mergeable(M, inc)
  BY <1>1, <1>7, <1>9, <1>10, <1>11 DEF Mergeable
<1> QED BY <1>0, <1>9, <1>12

\* A merge that is repeated is accepted and changes nothing, if the incoming root
\* has no orphan waiver record and every order of the result can be read:
\* planEvidenceMerge matches each record with what it made of it before.
THEOREM RepeatedMergeIsHarmless == MergeSpec => RepeatHarmless
<1> DEFINE Repeats ==
      \A r, s \in Root :
          /\ Merge(r, s)
          /\ \A i \in DOMAIN hist[s].log : ~Orphan(hist[s], i)
          /\ \A p \in hist'[r].held : ListedPaired(hist'[r], p)
          =>
              Mergeable(hist'[r], hist[s]) /\ Merged(hist'[r], hist[s]) = hist'[r]
<1>1. ASSUME MInv
      PROVE  Repeats
  <2> SUFFICES ASSUME NEW r \in Root, NEW s \in Root, Merge(r, s),
                      \A i \in DOMAIN hist[s].log : ~Orphan(hist[s], i),
                      \A p \in hist'[r].held : ListedPaired(hist'[r], p)
               PROVE  Mergeable(hist'[r], hist[s]) /\ Merged(hist'[r], hist[s]) = hist'[r]
    OBVIOUS
  <2>1. PICK base, inc :
           /\ base = hist[r] /\ inc = hist[s]
           /\ Filed(base) /\ Filed(inc) /\ Mergeable(base, inc)
           /\ hist'[r] = Merged(base, inc) /\ Filed(Merged(base, inc))
    BY <1>1, MergeIs
  <2>2. /\ \A i \in DOMAIN inc.log : ~Orphan(inc, i)
        /\ \A p \in Merged(base, inc).held : ListedPaired(Merged(base, inc), p)
    BY <2>1
  <2>3. Mergeable(Merged(base, inc), inc) /\ Merged(Merged(base, inc), inc) = Merged(base, inc)
    BY <2>1, <2>2, MergedAgain
  <2> QED BY <2>1, <2>3
<1>2. MInv /\ [MergeNext]_mergeVars => [Repeats]_mergeVars
  BY <1>1
<1>3. []MInv /\ [][MergeNext]_mergeVars => [][Repeats]_mergeVars
  BY <1>2, PTL
<1>4. MergeSpec => [][Repeats]_mergeVars
  BY <1>3, MergeInvariant, PTL DEF MergeSpec
<1> QED BY <1>4 DEF RepeatHarmless

-----------------------------------------------------------------------------
(* Which merges are refused                                                *)

\* A record is matched by one other at most.
LEMMA MatchedOnce ==
    ASSUME NEW base, Filed(base), NEW inc, Filed(inc),
           NEW i \in DOMAIN inc.log, NEW k \in DOMAIN inc.log,
           NEW j \in Matches(base, inc, i), j \in Matches(base, inc, k)
    PROVE  i = k
<1>1. /\ j \in DOMAIN base.log /\ base.log[j] = inc.log[i] /\ base.log[j] = inc.log[k]
      /\ Same(base, j, inc, i) /\ Same(base, j, inc, k)
  BY DEF Matches, Same
<1>2. CASE ~IsWaiver(inc.log[i])
  BY <1>1, <1>2 DEF Filed
<1>3. CASE IsWaiver(inc.log[i])
  <2>1. PICK p \in Paid(base, j), q \in Paid(inc, i) : p.at = q.at
    BY <1>1, <1>3 DEF Same
  <2>2. PICK x \in Paid(base, j), y \in Paid(inc, k) : x.at = y.at
    BY <1>1, <1>3 DEF Same
  <2>3. p = x
    BY <1>1, PaidOnce
  <2>4. q \in inc.held /\ y \in inc.held /\ q.id = y.id /\ q.at = y.at
        /\ q.order = i /\ y.order = k
    BY <1>1, <2>1, <2>2, <2>3, PaidOnce
  <2> QED BY <2>4 DEF Filed
<1> QED BY <1>2, <1>3

\* Without orphans, records with equal entries match, and the other way round.
LEMMA EqualEntriesMatch ==
    ASSUME NEW base, Filed(base), NEW inc, Filed(inc),
           NEW j \in DOMAIN base.log, NEW i \in DOMAIN inc.log, ~Orphan(inc, i)
    PROVE  Entry(base, j) = Entry(inc, i) <=> j \in Matches(base, inc, i)
<1> DEFINE contents(h, n) == {p.at : p \in {x \in Paid(h, n) : IsWaiver(x.id)}}
<1>1. Entry(base, j) = <<base.log[j], contents(base, j)>>
      /\ Entry(inc, i) = <<inc.log[i], contents(inc, i)>>
  BY DEF Entry
<1>2. CASE ~IsWaiver(inc.log[i])
  <2>1. base.log[j] = inc.log[i] => contents(base, j) = {} /\ contents(inc, i) = {}
    BY <1>2, PaidOnce
  <2>2. j \in Matches(base, inc, i) <=> base.log[j] = inc.log[i]
    BY <1>2 DEF Matches, Same
  <2> HIDE DEF contents
  <2> QED BY <1>1, <2>1, <2>2
<1>3. CASE IsWaiver(inc.log[i])
  <2>1. PICK q \in Paid(inc, i) : TRUE
    BY <1>3 DEF Orphan
  <2>2. contents(inc, i) = {q.at}
    <3>1. {x \in Paid(inc, i) : IsWaiver(x.id)} = {q}
      BY <1>3, <2>1, PaidOnce
    <3> QED BY <3>1
  <2>3. ASSUME base.log[j] = inc.log[i], contents(base, j) = {q.at}
        PROVE  j \in Matches(base, inc, i)
    <3>1. \E p \in Paid(base, j) : p.at = q.at
      BY <2>3
    <3> QED BY <3>1, <2>1, <2>3 DEF Matches, Same
  <2>4. ASSUME j \in Matches(base, inc, i)
        PROVE  base.log[j] = inc.log[i] /\ contents(base, j) = {q.at}
    <3>1. base.log[j] = inc.log[i]
      BY <2>4 DEF Matches, Same
    <3>2. PICK p \in Paid(base, j), y \in Paid(inc, i) : p.at = y.at
      BY <2>4, <1>3 DEF Matches, Same
    <3>3. y = q
      BY <2>1, PaidOnce
    <3>4. {x \in Paid(base, j) : IsWaiver(x.id)} = {p}
      BY <1>3, <3>1, <3>2, PaidOnce
    <3>5. contents(base, j) = {p.at}
      BY <3>4
    <3> QED BY <3>1, <3>2, <3>3, <3>5
  <2> HIDE DEF contents
  <2> QED BY <1>1, <2>2, <2>3, <2>4
<1> QED BY <1>2, <1>3

\* What makes two sound histories agree that nobody recorded alone.
LEMMA NoConflictNoDivergence ==
    ASSUME NEW base, Filed(base), NEW inc, Filed(inc), ~Conflicts(base, inc)
    PROVE  ~Divergent(base, inc)
<1> SUFFICES ASSUME NEW i \in DOMAIN inc.log, NEW j \in Matches(base, inc, i),
                    NEW p \in Paid(base, j), NEW q \in Paid(inc, i)
             PROVE  p.at = q.at
  BY DEF Divergent
<1>1. j \in DOMAIN base.log /\ base.log[j] = inc.log[i] /\ Same(base, j, inc, i)
  BY DEF Matches, Same
<1>2. p \in base.held /\ q \in inc.held /\ p.id = inc.log[i] /\ q.id = inc.log[i]
  BY <1>1, PaidOnce
<1>3. CASE ~IsWaiver(inc.log[i])
  BY <1>2, <1>3 DEF Conflicts
<1>4. CASE IsWaiver(inc.log[i])
  <2>1. PICK x \in Paid(base, j), y \in Paid(inc, i) : x.at = y.at
    BY <1>1, <1>4 DEF Same
  <2> QED BY <2>1, <1>1, PaidOnce
<1> QED BY <1>3, <1>4

\* Only an inversion of what both have makes the plan inverting.
LEMMA NoInversion ==
    ASSUME NEW base, Filed(base), NEW inc, Filed(inc), ~Inverts(base, inc),
           \A i \in DOMAIN inc.log : ~Orphan(inc, i)
    PROVE  ~Inverting(base, inc)
<1> DEFINE map == OrderMap(base, inc)
<1>1. SUFFICES ASSUME NEW i \in 2..Len(inc.log), map[i] <= map[i - 1]
               PROVE  FALSE
  BY DEF Inverting
<1>2. i \in DOMAIN inc.log /\ i - 1 \in DOMAIN inc.log /\ i - 1 < i /\ i # i - 1
      /\ Len(base.log) \in Nat
  BY FiledTypes
<1>3. i \notin Fresh(base, inc)
  <2> SUFFICES ASSUME i \in Fresh(base, inc) PROVE FALSE
    OBVIOUS
  <2>1. map[i] \in Nat /\ map[i] > Len(base.log)
    BY <1>2, MapIs
  <2>2. CASE i - 1 \in Fresh(base, inc)
    <3>1. map[i - 1] < map[i] /\ map[i - 1] \in Nat
      BY <2>2, <1>2, MapIs
    <3> QED BY <3>1, <2>1, <1>1
  <2>3. CASE i - 1 \notin Fresh(base, inc)
    <3>1. map[i - 1] \in Nat /\ map[i - 1] <= Len(base.log)
      BY <2>3, <1>2, MapIs
    <3> QED BY <3>1, <2>1, <1>1, <1>2
  <2> QED BY <2>2, <2>3
<1>4. PICK j \in Matches(base, inc, i) : map[i] = j
  BY <1>2, <1>3, MapIs
<1>5. j \in DOMAIN base.log /\ DOMAIN base.log = 1..Len(base.log)
  BY FiledTypes DEF Matches
<1>6. Entry(base, j) = Entry(inc, i)
  BY <1>2, <1>5, EqualEntriesMatch
<1>7. PICK m \in 1..j : Entry(base, m) = Entry(inc, i - 1)
  BY <1>2, <1>5, <1>6 DEF Inverts
<1>8. m \in DOMAIN base.log /\ m <= j /\ m \in Nat /\ j \in Nat
  BY <1>5
<1>9. m \in Matches(base, inc, i - 1)
  BY <1>2, <1>7, <1>8, EqualEntriesMatch
<1>10. map[i - 1] = m
  BY <1>2, <1>9, MapIs
<1>11. m = j
  BY <1>1, <1>4, <1>8, <1>10
<1> QED BY <1>2, <1>4, <1>9, <1>11, MatchedOnce

\* Nothing that is merged has another order in migrateHistory than its own.
LEMMA ListedIsOrder ==
    ASSUME NEW base, Filed(base), NEW inc, Filed(inc),
           \A p \in base.held : ListedPaired(base, p),
           \A p \in Kept(base, inc) : ~Displaced(base, inc, p),
           NEW q \in Merged(base, inc).held, ~IsWaiver(q.id)
    PROVE  q.listed = q.order
<1>1. CASE q \in base.held
  <2>1. /\ q.listed \in DOMAIN base.log /\ base.log[q.listed] = q.id
        /\ q.order \in DOMAIN base.log /\ base.log[q.order] = q.id
    BY <1>1, FiledTypes DEF ListedPaired
  <2> QED BY <2>1 DEF Filed
<1>2. CASE q \notin base.held
  <2>1. PICK y \in Kept(base, inc) :
           /\ y \in Payload /\ q = Rewritten(base, OrderMap(base, inc), y)
           /\ q.order = OrderMap(base, inc)[y.order]
           /\ ~IsCloned(base, y) => q.listed = q.order
    BY <1>2, MergedSource
  <2>2. IsCloned(base, y) => q.listed = y.listed
    BY <2>1, RewrittenIs
  <2> QED BY <2>1, <2>2 DEF Displaced
<1> QED BY <1>1, <1>2

\* A phase in a merged history is behind what had to be there first.
LEMMA MergedAscends ==
    ASSUME NEW base, Filed(base), Built(base), NEW inc, Filed(inc), Built(inc),
           ~Divergent(base, inc), ~Inverting(base, inc),
           \A p \in base.held : ListedPaired(base, p),
           \A p \in Kept(base, inc) : ~Displaced(base, inc, p),
           NEW step \in Prerequisite
    PROVE  Ascends(Merged(base, inc), step[1], step[2])
<1> DEFINE M == Merged(base, inc)
<1> SUFFICES ASSUME NEW p \in Of(M, step[1]), NEW q \in Of(M, step[2])
             PROVE  p.order < q.listed
  BY DEF Ascends
<1>1. p \in M.held /\ p.id = step[1] /\ q \in M.held /\ q.id = step[2]
  BY DEF Of
<1>2. ~IsWaiver(step[1]) /\ ~IsWaiver(step[2])
  BY PrerequisiteKinds
<1>3. Placed(M)
  BY MergedIsPlaced
<1>4. Precedes(M, step[1], step[2])
  <2>1. Precedes(base, step[1], step[2]) /\ Precedes(inc, step[1], step[2])
    BY DEF Built
  <2> QED BY <2>1, MergedPrecedes
<1>5. PICK x \in Of(M, step[1]) : x.order < q.order
  BY <1>4 DEF Precedes
<1>6. x = p
  <2>1. Of(M, step[1]) = {p}
    BY <1>1, <1>2, <1>3, OnePayload
  <2> QED BY <2>1
<1>7. q.listed = q.order
  BY <1>1, <1>2, ListedIsOrder
<1> QED BY <1>5, <1>6, <1>7

\* No Refactor comes to lie behind a relink that it did not outrun.
LEMMA MergedRefactors ==
    ASSUME NEW base, Filed(base), NEW inc, Filed(inc),
           ~Inverting(base, inc), ~Outruns(base, inc),
           \A p \in base.held : ListedPaired(base, p),
           \A p \in Kept(base, inc) : ~Displaced(base, inc, p),
           NEW c \in Cycle
    PROVE  Ascends(Merged(base, inc), <<"tdd:refactor", c>>, <<"tdd:migrate", c>>)
<1>0. PICK M : M = Merged(base, inc)
  OBVIOUS
<1> DEFINE map == OrderMap(base, inc)
           refactor == <<"tdd:refactor", c>>
           relink == <<"tdd:migrate", c>>
<1> SUFFICES ASSUME NEW p \in Of(M, refactor), NEW q \in Of(M, relink)
             PROVE  p.order < q.listed
  BY <1>0 DEF Ascends
<1>1. p \in M.held /\ p.id = refactor /\ q \in M.held /\ q.id = relink
  BY DEF Of
<1>2. ~IsWaiver(refactor) /\ ~IsWaiver(relink) /\ refactor # relink
  BY DEF IsWaiver, WaiverId
<1>3. q.listed = q.order
  BY <1>0, <1>1, <1>2, ListedIsOrder
<1>4. \A h : h \in {base, inc} => \A x \in h.held : \A i \in DOMAIN h.log :
           x.id = refactor /\ h.log[i] = relink => ~(i < x.order)
  BY DEF Outruns, Of
<1>5. \A x \in inc.held : x.id = refactor /\ Logs(base, relink) => Known(base, x.id, x.at)
  BY DEF Outruns, Of
<1>6. /\ p.order \in Nat /\ p.order \in DOMAIN M.log /\ M.log[p.order] = refactor
      /\ q.order \in Nat /\ q.order \in DOMAIN M.log /\ M.log[q.order] = relink
      /\ p.order # q.order /\ q.order >= 1
  <2>1. Placed(M) /\ DOMAIN M.log = 1..Len(M.log) /\ Len(M.log) \in Nat
    BY <1>0, MergedIsPlaced, MergedLog
  <2> QED BY <1>1, <1>2, <2>1 DEF Placed, Paired
<1>7. /\ DOMAIN base.log = 1..Len(base.log) /\ Len(base.log) \in Nat
      /\ \A j \in DOMAIN base.log : M.log[j] = base.log[j]
  BY <1>0, FiledTypes, MergedLog
<1>8. p \in base.held
      \/ \E x \in Kept(base, inc) : x \in inc.held /\ x.id = p.id /\ p.order = map[x.order]
  BY <1>0, <1>1, MergedSource
<1>9. q \in base.held
      \/ \E y \in Kept(base, inc) : y \in inc.held /\ y.id = q.id /\ q.order = map[y.order]
  BY <1>0, <1>1, MergedSource
<1> HIDE DEF map, refactor, relink
<1>10. CASE p \in base.held
  <2>1. p.order \in DOMAIN base.log /\ p.order <= Len(base.log)
    BY <1>10, FiledTypes
  <2>2. CASE q.order \in DOMAIN base.log
    <3>1. ~(q.order < p.order)
      BY <1>1, <1>4, <1>6, <1>7, <1>10, <2>2
    <3> QED BY <1>3, <1>6, <3>1
  <2>3. CASE q.order \notin DOMAIN base.log
    BY <1>3, <1>6, <1>7, <2>1, <2>3
  <2> QED BY <2>2, <2>3
<1>11. CASE p \notin base.held
  <2>1. PICK x \in Kept(base, inc) : x \in inc.held /\ x.id = refactor /\ p.order = map[x.order]
    BY <1>1, <1>8, <1>11
  <2>2. ~Known(base, x.id, x.at)
    BY <2>1 DEF Kept, Known
  <2>3. ~Logs(base, relink)
    BY <1>5, <2>1, <2>2
  <2>4. q \notin base.held
    <3>1. q \in base.held => q.order \in DOMAIN base.log /\ base.log[q.order] = q.id
      BY FiledTypes
    <3> QED BY <1>1, <2>3, <3>1 DEF Logs
  <2>5. PICK y \in inc.held : y.id = relink /\ q.order = map[y.order]
    BY <1>1, <1>9, <2>4
  <2>6. /\ x.order \in DOMAIN inc.log /\ x.order \in Nat /\ inc.log[x.order] = refactor
        /\ y.order \in DOMAIN inc.log /\ y.order \in Nat /\ inc.log[y.order] = relink
    BY <2>1, <2>5, FiledTypes
  <2>7. ~(y.order < x.order) /\ y.order # x.order
    BY <1>2, <1>4, <2>1, <2>6
  <2>8. map[x.order] < map[y.order]
    BY <2>6, <2>7, MapAscends DEF map
  <2> QED BY <1>3, <2>1, <2>5, <2>8
<1> QED BY <1>10, <1>11

\* The checkpoints of a merged history are those of the two.
LEMMA MergedOrdinals ==
    ASSUME NEW base, Filed(base), NEW inc, Filed(inc), ~Divergent(base, inc)
    PROVE  Ordinals(Merged(base, inc)) = Ordinals(base) \cup Ordinals(inc)
<1> DEFINE M == Merged(base, inc)
<1>1. ASSUME NEW id
      PROVE  Holds(M, id) <=> Holds(base, id) \/ Holds(inc, id)
  <2>1. Holds(base, id) => Holds(M, id)
    BY MergedHeld DEF Holds, Of
  <2>2. Holds(inc, id) => Holds(M, id)
    BY Landing DEF Holds, Of
  <2>3. Holds(M, id) => Holds(base, id) \/ Holds(inc, id)
    BY MergedSource DEF Holds, Of
  <2> QED BY <2>1, <2>2, <2>3
<1> HIDE DEF M
<1>2. Ordinals(M) = Ordinals(base) \cup Ordinals(inc)
  BY <1>1 DEF Ordinals
<1> QED BY <1>2 DEF M

\* Unless the base or what it would append has work behind the last Quality, the
\* merged history has none.
LEMMA MergedQualityLast ==
    ASSUME NEW base, Filed(base), Built(base), NEW inc, Filed(inc), Built(inc),
           ~Divergent(base, inc), ~Inverting(base, inc), ~Overtakes(base, inc),
           QualityPaired(base), \E id \in BatchId \cup QualityId : Holds(base, id)
    PROVE  QualityLast(Merged(base, inc))
<1>0. PICK M : M = Merged(base, inc)
  OBVIOUS
<1> DEFINE map == OrderMap(base, inc)
           last(h) == Cardinality(Ordinals(h))
<1>1. Placed(M) /\ Placed(base) /\ Placed(inc)
  BY <1>0, FiledIsPlaced, MergedIsPlaced
<1>2. Built(M)
  <2>1. \A earlier, later : Precedes(base, earlier, later) /\ Precedes(inc, earlier, later)
            => Precedes(M, earlier, later)
    BY <1>0, MergedPrecedes
  <2> QED BY <2>1 DEF Built
<1>3. Ordinals(M) = Ordinals(base) \cup Ordinals(inc)
  BY <1>0, MergedOrdinals
<1>4. \A h : h \in {base, inc, M} => last(h) \in 0..MaxRecords /\ Ordinals(h) = 1..last(h)
  BY <1>2, OrdinalsAreNumbers
<1>5. \A h : h \in {base, inc} /\ Ordinals(h) # {} =>
          \A p \in h.held : p.id \in BatchId => ~(p.order > Authoritative(h))
  BY DEF Overtakes
<1> SUFFICES ASSUME Ordinals(M) # {}, NEW id \in BatchId, Holds(M, id)
             PROVE  OrderOf(M, id) < Authoritative(M)
  BY <1>0 DEF QualityLast
<1>6. PICK x \in M.held : x.id = id
  BY DEF Holds, Of
<1>7. id \in Id /\ ~IsWaiver(id) /\ id \notin QualityId
  <2>1. id \in Id
    BY DEF Id
  <2> QED BY <2>1, IdKinds
<1>8. OrderOf(M, id) = x.order
  BY <1>1, <1>6, <1>7, OnePayload
<1>9. PICK a \in M.held : a.id = <<"quality", last(M)>> /\ last(M) \in 1..MaxRecords
                          /\ Authoritative(M) = a.order
  BY <1>1, <1>2, TheAuthoritative
<1>10. x.order \in Nat /\ a.order \in Nat
  <2>1. DOMAIN M.log = 1..Len(M.log) /\ Len(M.log) \in Nat
    BY <1>0, MergedLog
  <2> QED BY <2>1, <1>1 DEF Placed, Paired
<1>11. x \in base.held
       \/ \E p \in Kept(base, inc) : p \in inc.held /\ p.id = x.id /\ x.order = map[p.order]
  BY <1>0, <1>6, MergedSource
<1>12. \A h : h \in {base, inc} => \A p, q \in h.held :
           p.id \in BatchId /\ q.id \in QualityId => p.order # q.order
  <2>1. \A p : p \in base.held \cup inc.held => p.id \in Id
    BY FiledTypes
  <2>2. \A p : p \in base.held \cup inc.held /\ p.id \in BatchId => p.id \notin QualityId
    BY <2>1, IdKinds
  <2> QED BY <2>2 DEF Filed
<1>13. CASE Ordinals(inc) \subseteq Ordinals(base)
  <2>1. Ordinals(M) = Ordinals(base) /\ Ordinals(base) # {}
    BY <1>3, <1>13
  <2>2. PICK b \in base.held : b.id = <<"quality", last(base)>> /\ last(base) \in 1..MaxRecords
                               /\ Authoritative(base) = b.order
    BY <1>1, <2>1, TheAuthoritative
  <2>3. b \in M.held /\ b.id = a.id /\ ~IsWaiver(b.id) /\ b.id \in QualityId
    <3>1. b \in M.held /\ b.id = a.id
      BY <1>0, <1>9, <2>1, <2>2, MergedHeld
    <3>2. b.id \in QualityId
      BY <2>2 DEF QualityId
    <3>3. ~IsWaiver(b.id)
      BY <2>2 DEF IsWaiver, WaiverId
    <3> QED BY <3>1, <3>2, <3>3
  <2>4. a = b
    <3>1. Of(M, b.id) = {b}
      BY <2>3, <1>1, OnePayload
    <3> QED BY <3>1, <2>3 DEF Of
  <2>5. x \in base.held
    <3> SUFFICES ASSUME x \notin base.held PROVE FALSE
      OBVIOUS
    <3>1. PICK p \in Kept(base, inc) : p \in inc.held /\ p.id = x.id
      BY <1>11
    <3>2. Known(base, p.id, p.at)
      BY <1>6, <1>13, <2>1, <3>1 DEF Overtakes
    <3> QED BY <3>2 DEF Kept, Known
  <2>6. ~(x.order > b.order) /\ x.order # b.order
    BY <1>5, <1>6, <1>12, <2>1, <2>2, <2>3, <2>5
  <2> QED BY <1>8, <1>9, <1>10, <2>4, <2>6
<1>14. CASE ~(Ordinals(inc) \subseteq Ordinals(base))
  <2>1. /\ last(inc) \notin Ordinals(base) /\ last(M) = last(inc)
        /\ Ordinals(inc) # {}
    <3>1. PICK n \in Ordinals(inc) : n \notin Ordinals(base)
      BY <1>14
    <3>2. /\ Ordinals(base) = 1..last(base) /\ Ordinals(inc) = 1..last(inc)
          /\ last(base) \in Nat /\ last(inc) \in Nat
      BY <1>4, BoundsAssumption
    <3> HIDE DEF last
    <3>3. last(base) < last(inc)
      BY <3>1, <3>2
    <3>4. Ordinals(M) = Ordinals(inc)
      BY <1>3, <3>2, <3>3
    <3> USE DEF last
    <3> QED BY <3>1, <3>2, <3>3, <3>4
  <2>2. PICK c \in inc.held : c.id = <<"quality", last(inc)>> /\ last(inc) \in 1..MaxRecords
                              /\ Authoritative(inc) = c.order
    BY <1>1, <2>1, TheAuthoritative
  <2>3. /\ c.id \in QualityId /\ ~IsWaiver(c.id) /\ c.id = a.id
        /\ ~Holds(base, c.id) /\ c.order \in DOMAIN inc.log /\ inc.log[c.order] = c.id
    <3>1. c.id \in QualityId
      BY <2>2 DEF QualityId
    <3>2. ~IsWaiver(c.id)
      BY <2>2 DEF IsWaiver, WaiverId
    <3>3. ~Holds(base, c.id)
      BY <2>1, <2>2 DEF Ordinals
    <3>4. c.order \in DOMAIN inc.log /\ inc.log[c.order] = c.id
      BY FiledTypes
    <3> QED BY <3>1, <3>2, <3>3, <3>4, <1>9, <2>1, <2>2
  <2>4. PICK y \in M.held : y.id = c.id /\ y.order = map[c.order]
    BY <1>0, Landing
  <2>5. a = y
    <3>1. Of(M, a.id) = {a}
      BY <1>1, <2>3, OnePayload
    <3> QED BY <3>1, <2>3, <2>4 DEF Of
  <2>6. CASE x \in base.held
    <3>1. \A j \in DOMAIN base.log : base.log[j] # c.id
      BY <2>3 DEF QualityPaired
    <3>2. c.order \in Fresh(base, inc)
      BY <2>3, <3>1 DEF Fresh, Matches, Same
    <3>3. map[c.order] > Len(base.log) /\ Len(base.log) \in Nat
      BY <2>3, <3>2, MapIs, FiledTypes
    <3>4. x.order <= Len(base.log)
      BY <2>6, FiledTypes
    <3> QED BY <1>8, <1>9, <1>10, <2>4, <2>5, <3>3, <3>4
  <2>7. CASE x \notin base.held
    <3>1. PICK p \in inc.held : p.id = x.id /\ x.order = map[p.order]
      BY <1>11, <2>7
    <3>2. p.id \in BatchId
      BY <1>6, <3>1
    <3>3. p.order \in DOMAIN inc.log /\ p.order \in Nat /\ c.order \in Nat
      BY FiledTypes
    <3>4. ~(p.order > c.order) /\ p.order # c.order
      BY <1>5, <1>12, <2>1, <2>2, <2>3, <3>2
    <3>5. p.order < c.order
      BY <3>3, <3>4
    <3>6. map[p.order] < map[c.order]
      BY <3>3, <3>5, <2>3, MapAscends
    <3> QED BY <1>8, <1>9, <2>4, <2>5, <3>1, <3>6
  <2> QED BY <2>6, <2>7
<1> QED BY <1>13, <1>14

\* A merge of two sound histories that can be read has one of six reasons to
\* be refused.
LEMMA NoReasonToRefuse ==
    ASSUME NEW base, Sound(base), ValidInput(base), NEW inc, Sound(inc), ValidInput(inc),
           \A i \in DOMAIN inc.log : ~Orphan(inc, i),
           \A p \in Kept(base, inc) : ~Displaced(base, inc, p),
           ~Inverts(base, inc), ~Conflicts(base, inc), ~Overtakes(base, inc),
           ~Outruns(base, inc)
    PROVE  Mergeable(base, inc)
<1>0. PICK M : M = Merged(base, inc)
  OBVIOUS
<1>1. /\ Filed(base) /\ Built(base) /\ Filed(inc) /\ Built(inc)
      /\ QualityPaired(base) /\ QualityPaired(inc)
      /\ \E id \in BatchId \cup QualityId : Holds(base, id)
      /\ \E id \in BatchId \cup QualityId : Holds(inc, id)
      /\ \A p \in base.held : ListedPaired(base, p)
  BY DEF Sound, ValidInput
<1>2. ~Divergent(base, inc)
  BY <1>1, NoConflictNoDivergence
<1>3. ~Inverting(base, inc)
  BY <1>1, NoInversion
<1>4. \A p \in M.held : Paired(M, p)
  BY <1>0, <1>1, <1>3, MergedIsPlaced DEF Placed
<1>5. QualityPaired(M)
  <2> SUFFICES ASSUME NEW n \in DOMAIN M.log, M.log[n] \in QualityId
               PROVE  Holds(M, M.log[n])
    BY DEF QualityPaired
  <2>1. CASE n \in DOMAIN base.log
    <3>1. M.log[n] = base.log[n]
      BY <1>0, <1>1, <2>1, MergedLog
    <3>2. Holds(base, M.log[n])
      BY <1>1, <2>1, <3>1 DEF QualityPaired
    <3> QED BY <1>0, <3>2, MergedHeld DEF Holds, Of
  <2>2. CASE n \notin DOMAIN base.log
    <3>1. PICK i \in DOMAIN inc.log : M.log[n] = inc.log[i]
      BY <1>0, <1>1, <2>2, MergedLog DEF Fresh
    <3>2. Holds(inc, M.log[n])
      BY <1>1, <3>1 DEF QualityPaired
    <3>3. PICK p \in inc.held : p.id = M.log[n]
      BY <3>2 DEF Holds, Of
    <3>4. \E x \in M.held : x.id = p.id
      BY <1>0, <1>1, <1>2, Landing
    <3> QED BY <3>3, <3>4 DEF Holds, Of
  <2> QED BY <2>1, <2>2
<1>6. \A step \in Prerequisite : Ascends(M, step[1], step[2])
  BY <1>0, <1>1, <1>2, <1>3, MergedAscends
<1>7. TddInOrder(M)
  <2>1. \A c \in Cycle : <<<<"tdd:red", c>>, <<"tdd:green", c>>>> \in Prerequisite
    BY DEF Prerequisite
  <2>2. \A c \in Cycle : \A phase \in {"tdd:refactor", "tdd:migrate"} :
            <<<<"tdd:green", c>>, <<phase, c>>>> \in Prerequisite
    BY DEF Prerequisite
  <2>3. \A c \in Cycle : Ascends(M, <<"tdd:red", c>>, <<"tdd:green", c>>)
    BY <1>6, <2>1
  <2>4. \A c \in Cycle : Ascends(M, <<"tdd:green", c>>, <<"tdd:refactor", c>>)
    BY <1>6, <2>2
  <2>5. \A c \in Cycle : Ascends(M, <<"tdd:green", c>>, <<"tdd:migrate", c>>)
    BY <1>6, <2>2
  <2>6. \A c \in Cycle : Ascends(M, <<"tdd:refactor", c>>, <<"tdd:migrate", c>>)
    BY <1>0, <1>1, <1>3, MergedRefactors
  <2> QED BY ONLY <2>3, <2>4, <2>5, <2>6, Zenon DEF TddInOrder
<1>8. PhasesInOrder(M)
  <2>1. \A b \in Batches : \A n \in 2..Len(BatchPhases) :
            <<<<PhaseOf(n - 1), b>>, <<PhaseOf(n), b>>>> \in Prerequisite
    BY DEF Prerequisite
  <2> QED BY <1>6, <2>1 DEF PhasesInOrder
<1>9. QualityLast(M)
  BY <1>0, <1>1, <1>2, <1>3, MergedQualityLast
<1> QED BY <1>0, <1>2, <1>3, <1>4, <1>5, <1>7, <1>8, <1>9 DEF Mergeable, ValidCandidate

\* Two histories that can be read merge, but for one of six reasons: an orphan
\* waiver record, a relink whose migrateHistory is not rewritten, an inversion, a
\* conflict, work behind a Quality, or a Refactor behind a relink of its cycle.
\* Of the checks of planEvidenceMerge and buildCandidates that the model has, no
\* other refuses what commands have recorded.
THEOREM RefusalHasReason == MergeSpec => []RefusedForReason
<1>1. ASSUME MInv
      PROVE  RefusedForReason
  <2> SUFFICES ASSUME NEW r \in Root, NEW s \in Root,
                      ValidInput(hist[r]), ValidInput(hist[s]), ~Mergeable(hist[r], hist[s])
               PROVE  \/ \E i \in DOMAIN hist[s].log : Orphan(hist[s], i)
                      \/ \E p \in Kept(hist[r], hist[s]) : Displaced(hist[r], hist[s], p)
                      \/ Inverts(hist[r], hist[s])
                      \/ Conflicts(hist[r], hist[s])
                      \/ Overtakes(hist[r], hist[s])
                      \/ Outruns(hist[r], hist[s])
    BY DEF RefusedForReason
  <2>1. Sound(hist[r]) /\ Sound(hist[s])
    BY <1>1 DEF MInv, HistoriesInv
  <2> QED BY <2>1, NoReasonToRefuse
<1> QED BY <1>1, MergeInvariant, PTL

=============================================================================
