--------------------------- MODULE ChangeWaiver ---------------------------
(***************************************************************************)
(* Waivers of change evidence (change-waiver.ts), composed with the record *)
(* of the change they are about (module ChangeRecord) and the TDD cycles   *)
(* of its requirements.  A waiver approves one diagnostic of one scope as  *)
(* the evidence was when it was recorded: it holds a snapshot, and counts  *)
(* only while the snapshot is what the evidence says now and the           *)
(* diagnostic would still be reported.                                     *)
(*                                                                         *)
(* `change waiver' appends an order record and then writes the waiver, in  *)
(* two writes under the writer lock like every recorder.  The codes about  *)
(* fingerprints and about evidence without order numbers are left out:     *)
(* their snapshots are the values that their conditions compare.  TDD      *)
(* commands are one step here, and their Reds and Greens valid (module     *)
(* TddCycle has their two writes and what makes them valid).               *)
(***************************************************************************)
EXTENDS ChangeRecord, FiniteSets

CONSTANTS
    Text,       \* contents of the change document, but for approval notes
    Waived,     \* the scopes a human may ask a waiver for
    MaxCycles,  \* bound: TDD cycles
    MaxWaivers  \* bound: recorded waivers

VARIABLES
    document,   \* the change document: [text, notes], notes by waiver
    cycles,     \* tdd.json: [req, red, green, void], the last three orders
    waivers,    \* change-waivers.json: [scope, snapshot, order]
    draft       \* a waiver whose order record alone is written, as <<waiver>>

human == <<document, cycles, waivers, draft>>
allVars == <<vars, human>>

SinglePhase == {"impact", "requirements", "design", "quality"}
Unproven == {"RED_UNPROVEN", "GREEN_UNPROVEN", "COMPLETENESS_TDD"}
WaiverScope ==
    {<<"RECORD_MISSING">>}
    \cup ({"PHASE_MISSING"} \X (SinglePhase \cup BatchPhase))
    \cup (Unproven \X Req)

ASSUME WaivedAssumption == Waived \subseteq WaiverScope

WaiverInit ==
    /\ Init
    /\ document \in [text : Text, notes : {<<>>}]
    /\ cycles = <<>>
    /\ waivers = <<>>
    /\ draft = <<>>

\* An order record of a waiver; its sequence number is part of its key.
WaiverEntry(scope) == <<"other", <<"waiver", scope, Len(log) + 1>>>>
CycleEntry(n, phase) == <<"other", <<"tdd", n, phase>>>>

-----------------------------------------------------------------------------
(* What a diagnostic depends on                                            *)

\* The change has an entry in changes.json.
ChangeExists == quality # 0 \/ \E slot \in Slot : at[slot] # 0

\* batchFor, as a set of one batch or none.
Current(q) == {reqs \in Batch : IsCurrent(q, reqs)}
Order0(phase, q) ==
    IF Current(q) = {} THEN 0 ELSE Order(phase, CHOOSE reqs \in Current(q) : TRUE)

\* currentTddOrderWindow: from the Red before it to the Red of the batch of q.
InWindow(q, order) ==
    /\ Recorded("requirements", Req) /\ Order0("red", q) # 0
    /\ Order("requirements", Req) < order /\ order <= Order0("red", q)
    /\ \A reqs \in Batch :
          q \in reqs /\ Order("red", reqs) < Order0("red", q) => Order("red", reqs) < order

OfReq(q) == {n \in DOMAIN cycles : cycles[n].req = q}
VoidedInWindow(q) ==
    {cycles[n].void : n \in {m \in OfReq(q) : cycles[m].void # 0 /\ InWindow(q, cycles[m].red)}}

\* hasValidTddCycle.
Proven(q) ==
    \E n \in OfReq(q) :
        /\ cycles[n].void = 0 /\ InWindow(q, cycles[n].red)
        /\ Order0("implementation", q) # 0
        /\ Order0("implementation", q) < cycles[n].green
        /\ cycles[n].green <= Order0("green", q)

Uncovered(phase) ==
    {q \in Req : ~\E reqs \in Batch : q \in reqs /\ Recorded(phase, reqs)}
OrderOfPhase(phase) == IF phase = "quality" THEN quality ELSE Order(phase, Req)

\* evaluateWaiverCondition: is the diagnostic reported?
Reported(scope) ==
    LET code == scope[1]
    IN IF code = "RECORD_MISSING" THEN ~ChangeExists
       ELSE /\ ChangeExists
            /\ code = "PHASE_MISSING" =>
                  IF scope[2] \in BatchPhase THEN Uncovered(scope[2]) # {}
                  ELSE OrderOfPhase(scope[2]) = 0
            /\ code \in Unproven => ~Proven(scope[2])
            /\ code \in {"RED_UNPROVEN", "GREEN_UNPROVEN"} => history = <<>>
            /\ code = "RED_UNPROVEN" => Order0("red", scope[2]) # 0
            /\ code = "GREEN_UNPROVEN" => Order0("green", scope[2]) # 0

\* normalizeChangeRecordMissingDocument, for the nth waiver: a last note that
\* documents this very waiver does not count.
Normalized(n) ==
    LET notes == document.notes
    IN IF notes # <<>> /\ notes[Len(notes)] = n
       THEN [document EXCEPT !.notes = SubSeq(notes, 1, Len(notes) - 1)]
       ELSE document

\* Has any phase of the change been logged, whether or not it was written?
EverRecorded == \E i \in DOMAIN log : log[i] \in Slot \/ log[i][1] = "quality"

\* Wrong variant: only the change's own phases.
SnapshotOfPhases(scope, n) ==
    LET code == scope[1]
    IN CASE code = "RECORD_MISSING" -> <<Normalized(n), EverRecorded>>
         [] code = "PHASE_MISSING" ->
                IF scope[2] \in BatchPhase THEN <<Uncovered(scope[2])>>
                ELSE <<OrderOfPhase(scope[2])>>
         [] OTHER ->
                <<Order("requirements", Req), Order0("red", scope[2]),
                  Order0("implementation", scope[2]), Order0("green", scope[2])>>

\* Wrong variant: only where the window begins.
SnapshotOfWindow(scope, n) == <<Order("requirements", Req)>>

\* snapshotPayload, for the nth waiver (0 for one not yet recorded).
Snapshot(scope, n) ==
    LET code == scope[1]
    IN CASE code = "RECORD_MISSING" ->
                <<Normalized(n), EverRecorded, <<at, quality, history>>>>
         [] code = "PHASE_MISSING" ->
                IF scope[2] \in BatchPhase THEN <<Uncovered(scope[2])>>
                ELSE <<OrderOfPhase(scope[2])>>
         [] OTHER ->
                <<Order("requirements", Req), Order0("red", scope[2]),
                  Order0("implementation", scope[2]), Order0("green", scope[2]),
                  {<<cycles[m].red, cycles[m].green>> : m \in OfReq(scope[2])},
                  VoidedInWindow(scope[2])>>

\* waiverLinkage, of waivers nobody tampers with.
Linked(n) ==
    LET waiver == waivers[n]
    IN /\ waiver.order \in DOMAIN log
       /\ log[waiver.order] = <<"other", <<"waiver", waiver.scope, waiver.order>>>>
       /\ \A m \in DOMAIN waivers : waivers[m].order = waiver.order => m = n

\* authoritativeWaiverIndex: the last of the scope.
Authoritative(scope, n) ==
    /\ n \in DOMAIN waivers /\ waivers[n].scope = scope /\ Linked(n)
    /\ \A m \in DOMAIN waivers :
          waivers[m].scope = scope /\ Linked(m) => waivers[m].order <= waivers[n].order

\* isWaiverStale.
Stale(n) ==
    waivers[n].snapshot # Snapshot(waivers[n].scope, n) \/ ~Reported(waivers[n].scope)

\* waivedDiagnostic and activeWaivers.
Active(scope) == \E n \in DOMAIN waivers : Authoritative(scope, n) /\ ~Stale(n)

-----------------------------------------------------------------------------
(* `change waiver'                                                         *)

\* recordChangeWaiverUnlocked refuses a diagnostic not reported or waived.
Waivable(scope) == Reported(scope) /\ ~Active(scope)

\* The snapshot is taken before the order record is appended.
DraftWaiver(scope) ==
    /\ draft = <<>>
    /\ Len(waivers) < MaxWaivers
    /\ scope \in {s \in Waived : Waivable(s)}
    /\ Push(WaiverEntry(scope))
    /\ draft' = <<[scope |-> scope, snapshot |-> Snapshot(scope, 0), order |-> Len(log) + 1]>>
    /\ UNCHANGED <<at, quality, history, pending, document, cycles, waivers>>

WriteWaiver ==
    /\ draft # <<>>
    /\ waivers' = waivers \o draft
    /\ draft' = <<>>
    /\ UNCHANGED <<vars, document, cycles>>

LoseWaiver ==
    /\ Crashes
    /\ draft # <<>>
    /\ draft' = <<>>
    /\ UNCHANGED <<vars, document, cycles, waivers>>

-----------------------------------------------------------------------------
(* The rest of the project                                                 *)

\* recordChangePhase, quality refresh.
ChangeStep ==
    /\ draft = <<>>
    /\ Next
    /\ UNCHANGED human

\* tdd red wants the change's design.
RecordRed(q) ==
    /\ draft = <<>>
    /\ Recorded("design", Req)
    /\ Len(cycles) < MaxCycles
    /\ Push(CycleEntry(Len(cycles) + 1, "red"))
    /\ cycles' = Append(cycles, [req |-> q, red |-> Len(log) + 1, green |-> 0, void |-> 0])
    /\ UNCHANGED <<at, quality, history, pending, document, waivers, draft>>

\* tdd green wants the Red and Implementation of the change's batch.
RecordGreen(n) ==
    /\ draft = <<>>
    /\ cycles[n].green = 0
    /\ Order0("implementation", cycles[n].req) # 0
    /\ Push(CycleEntry(n, "green"))
    /\ cycles' = [cycles EXCEPT ![n].green = Len(log) + 1]
    /\ UNCHANGED <<at, quality, history, pending, document, waivers, draft>>

VoidCycle(n) ==
    /\ draft = <<>>
    /\ cycles[n].void = 0
    /\ Push(CycleEntry(n, "void"))
    /\ cycles' = [cycles EXCEPT ![n].void = Len(log) + 1]
    /\ UNCHANGED <<at, quality, history, pending, document, waivers, draft>>

\* A human edits the document, or adds the approval note of a waiver to it.
EditDocument ==
    /\ document' \in {[document EXCEPT !.text = text] : text \in Text \ {document.text}}
         \cup {[document EXCEPT !.notes = Append(@, n)] :
                  n \in {m \in DOMAIN waivers : /\ waivers[m].scope = <<"RECORD_MISSING">>
                                                /\ \A i \in DOMAIN document.notes :
                                                       document.notes[i] # m}}
    /\ UNCHANGED <<vars, cycles, waivers, draft>>

WaiverNext ==
    \/ ChangeStep
    \/ \E scope \in Waived : DraftWaiver(scope)
    \/ WriteWaiver \/ LoseWaiver
    \/ \E q \in Req : RecordRed(q)
    \/ \E n \in DOMAIN cycles : RecordGreen(n) \/ VoidCycle(n)
    \/ EditDocument

WaiverSpec == WaiverInit /\ [][WaiverNext]_allVars

-----------------------------------------------------------------------------
\* The last place in the log of what says something about q.
CycleOrders(q) ==
    (UNION {{cycles[n].red, cycles[n].green} : n \in OfReq(q)}) \cup VoidedInWindow(q)
BatchOrders(q) == {Order0(phase, q) : phase \in BatchPhase}

\* An active waiver was approved by someone who could have seen everything the
\* diagnostic is about: no phase of the batch and no cycle of the requirement
\* is behind the waiver in the order log, and where the whole record is missing
\* no phase was even logged behind it.
NothingUnseen ==
    \A n \in DOMAIN waivers :
        LET scope == waivers[n].scope
        IN Authoritative(scope, n) /\ ~Stale(n) =>
              /\ scope[1] \in Unproven =>
                    \A order \in CycleOrders(scope[2]) \cup BatchOrders(scope[2]) :
                        order < waivers[n].order
              /\ scope[1] = "RECORD_MISSING" =>
                    \A i \in DOMAIN log : i > waivers[n].order => log[i][1] = "other"

\* A stale waiver about recorded evidence is stale for good: no later command,
\* such as a void that takes back what disproved the diagnostic, brings an old
\* approval into force again.  (An edited document can be edited back.)
StaleForGood ==
    [][\A n \in 1..MaxWaivers :
          n \in DOMAIN waivers /\ waivers[n].scope # <<"RECORD_MISSING">> /\ Stale(n)
              => Stale(n)']_allVars
=============================================================================
