--------------------------- MODULE ScanLifecycle ---------------------------
(***************************************************************************)
(* The life of the scans of ONE cloud account: the start transaction       *)
(* (backend/app/scan/orchestrator.py), the Step Functions execution it     *)
(* launches (infra/modules/scan/scan_workflow.asl.json), the worker Lambda *)
(* that runs one unit per region (backend/handlers/scan_worker_handler.py) *)
(* and finally closes the scan.  What a unit does to the status of the     *)
(* account row is the subject of AccountStatus; it never feeds back into   *)
(* the scan, because an on-demand scan starts whatever the status is.      *)
(*                                                                         *)
(* A database transaction that spans a network call is split where the     *)
(* other actors can get in between: what it read is kept in the unit or in *)
(* `doomed`, and its writes happen in the action that commits.             *)
(*                                                                         *)
(* Timestamps.  The only comparison the code makes is                      *)
(* resource.last_seen_at < scan.started_at, so the clock is the number of  *)
(* start transactions begun so far: scan s has started_at = s, and         *)
(* last_seen_at is the number of scans begun when the row was stamped.     *)
(* (The daily trigger starts the scans of all accounts in one transaction, *)
(* whose timestamp is a little older: its sweeps delete less, never more.) *)
(***************************************************************************)
EXTENDS Naturals, FiniteSets

CONSTANTS
    MaxScans,        \* bound: start transactions in a behaviour
    Regions,         \* the AWS regions an account may list
    Resources,       \* resource identifiers (ARNs)
    VisibleFrom,     \* [Resources -> SUBSET Regions]: where a sweep can list it
    Supplementary,   \* the resources only Cloud Control lists
    MaxTries,        \* attempts of one unit: 1 + MaxAttempts of the ASL
    MaxConcurrency,  \* units of one execution that run at the same time
    NoRegion         \* the region of a resource that has no row

ASSUME ScanAssumption ==
    /\ MaxScans \in Nat
    /\ VisibleFrom \in [Resources -> SUBSET Regions]
    /\ Supplementary \subseteq Resources
    /\ MaxTries \in Nat \ {0}
    /\ MaxConcurrency \in Nat \ {0}
    /\ NoRegion \notin Regions

Scans == 1..MaxScans

VARIABLES
    begun,        \* number of start transactions begun: the clock
    scanRegions,  \* the account row: scan_regions
    row,          \* the scan rows: absent, open (uncommitted) or a status
    exec,         \* the Step Functions execution of each scan
    unit,         \* the Map iteration of each scan and region
    lastSeen,     \* resource.last_seen_at; 0 when there is no row
    homeRegion,   \* resource.region
    live,         \* the resource rows with deleted_at NULL
    doomed,       \* what an uncommitted finalize is marking deleted
    sent,         \* the governance messages sent to SQS
    present,      \* the cloud itself: which resource is in which region
    found,        \* history: what the committed attempts of a scan persisted
    overlapped    \* history: the scans that were alive beside another one

scanVars == <<row, exec, unit, doomed, sent, found>>
invVars == <<lastSeen, homeRegion, live>>
vars == <<begun, scanRegions, row, exec, unit, lastSeen, homeRegion,
          live, doomed, sent, present, found, overlapped>>

Terminal == {"succeeded", "partial", "failed"}
RowStates == {"absent", "open", "running", "rolledback"} \cup Terminal
Closing == {"swept", "half", "notified"}
Ended == {"none", "done", "aborted"}
ExecStates == {"mapping"} \cup Closing \cup Ended
Phases == {"out", "queued", "swept", "succeeded", "failed"}
Queues == {"compliance", "ownership"}

\* A unit that is not inside an attempt remembers only its failed attempts.
AtRest(phase, tries) == [phase |-> phase, tries |-> tries, since |-> 0, report |-> {}]

Units == [phase : Phases, tries : 0..MaxTries, since : 0..MaxScans,
          report : SUBSET Resources]

InAttempt(s) == {g \in Regions : unit[s][g].phase = "swept"}
\* Fault: a unit without the Catch of the state machine never lets the Map end.
SettledWithoutCatch(s) == \A g \in Regions : unit[s][g].phase \in {"out", "succeeded"}
Settled(s) == \A g \in Regions : unit[s][g].phase \in {"out", "succeeded", "failed"}
CompletedRegions(s) == {g \in Regions : unit[s][g].phase = "succeeded"}
FailedRegions(s) == {g \in Regions : unit[s][g].phase = "failed"}

\* A scan another start transaction or another execution can meet.
Alive(s) == row[s] = "open" \/ exec[s] \notin Ended

(***************************************************************************)
(* Starting a scan.                                                        *)
(***************************************************************************)

\* Fault: a running scan whose execution has ended is not counted as running.
NoRunningScanIgnoringStuck == \A t \in Scans : row[t] # "running" \/ exec[t] = "aborted"

\* What start_scan's query sees: committed rows only.
NoRunningScan == \A t \in Scans : row[t] # "running"

\* The transaction begins, finds no committed running scan, inserts its row and
\* starts the execution, one Map item per region of the account row.  Nobody
\* else sees the row before CommitStart, but the execution already runs.
StartScan ==
    LET s == begun + 1
        others == {t \in Scans : Alive(t)}
    IN  /\ begun < MaxScans
        /\ NoRunningScan
        /\ begun' = s
        /\ row' = [row EXCEPT ![s] = "open"]
        /\ exec' = [exec EXCEPT ![s] = "mapping"]
        /\ unit' = [unit EXCEPT ![s] =
                      [g \in Regions |-> AtRest(IF g \in scanRegions THEN "queued" ELSE "out", 0)]]
        /\ overlapped' = IF others = {} THEN overlapped
                         ELSE overlapped \cup others \cup {s}
        /\ UNCHANGED <<scanRegions, invVars, doomed, sent, present, found>>

CommitStart(s) ==
    /\ row[s] = "open"
    /\ row' = [row EXCEPT ![s] = "running"]
    /\ UNCHANGED <<begun, scanRegions, exec, unit, invVars, doomed, sent,
                   present, found, overlapped>>

\* The audit write, the commit or, in the daily trigger, the start of another
\* account's scan fails: the row goes, the started execution stays.  (A start
\* whose start_execution fails rolls back and leaves nothing behind.)
RollbackStart(s) ==
    /\ row[s] = "open"
    /\ row' = [row EXCEPT ![s] = "rolledback"]
    /\ UNCHANGED <<begun, scanRegions, exec, unit, invVars, doomed, sent,
                   present, found, overlapped>>

(***************************************************************************)
(* One unit of work: a region.                                             *)
(***************************************************************************)
\* The attempt begins and reads both discovery surfaces.  A failure of the
\* role or of the tagging sweep fails the attempt (FailUnit); a failing Cloud
\* Control type is skipped, and what it would have listed is missing.
SweepRegion(s, g, missed) ==
    /\ exec[s] = "mapping"
    /\ unit[s][g].phase = "queued"
    /\ Cardinality(InAttempt(s)) < MaxConcurrency
    /\ missed \subseteq Supplementary
    /\ unit' = [unit EXCEPT ![s][g] =
                  [phase |-> "swept", tries |-> @.tries, since |-> begun,
                   report |-> {r \in Resources : <<r, g>> \in present} \ missed]]
    /\ UNCHANGED <<begun, scanRegions, row, exec, invVars, doomed, sent, present,
                   found, overlapped>>

\* Fault: one retry too many.
AfterFailureOneMore(u) ==
    IF u.tries < MaxTries THEN AtRest("queued", u.tries + 1)
                          ELSE AtRest("failed", u.tries + 1)

\* Retry until the attempts are used up, then Catch (UnitFailed).
AfterFailure(u) ==
    IF u.tries + 1 < MaxTries THEN AtRest("queued", u.tries + 1)
                              ELSE AtRest("failed", u.tries + 1)

\* persist_unit_result: a row is refreshed with the Lambda's clock, read at some
\* moment of the attempt; a new row takes now() of the transaction.  The stamp is
\* flushed, and the row locked, at once, so the stamps of a row never go back.
StampLastSeen(u, now) ==
    [r \in Resources |-> IF r \notin u.report THEN lastSeen[r]
                         ELSE IF lastSeen[r] = 0 THEN u.since
                         ELSE IF lastSeen[r] < now THEN now ELSE lastSeen[r]]

\* The attempt commits: deleted_at of everything reported is cleared.  (A unit
\* that meets the row locks of a finalize waits, and its UPDATE then leaves the
\* deleted_at it read as NULL alone: what committing before the finalize gives.)
\* The state machine may not learn of the commit (the Lambda dies after it) and
\* then runs the unit once more.
CommitUnit(s, g, now, delivered) ==
    LET u == unit[s][g]
    IN  /\ u.phase = "swept"
        /\ now \in u.since..begun
        /\ lastSeen' = StampLastSeen(u, now)
        /\ homeRegion' = [r \in Resources |->
                            IF r \in u.report /\ lastSeen[r] = 0 THEN g ELSE homeRegion[r]]
        /\ live' = live \cup u.report
        /\ found' = [found EXCEPT ![s] = @ \cup u.report]
        /\ unit' = [unit EXCEPT ![s][g] = IF delivered THEN AtRest("succeeded", u.tries)
                                                       ELSE AfterFailure(u)]
        /\ UNCHANGED <<begun, scanRegions, row, exec, doomed, sent, present, overlapped>>

\* The role is refused, or any other error: nothing of the attempt is kept.
FailUnit(s, g) ==
    /\ unit[s][g].phase = "swept"
    /\ unit' = [unit EXCEPT ![s][g] = AfterFailure(@)]
    /\ UNCHANGED <<begun, scanRegions, row, exec, invVars, doomed, sent, present,
                   found, overlapped>>

(***************************************************************************)
(* FinalizeScan: one transaction, no Retry and no Catch in the ASL.        *)
(***************************************************************************)
\* Fault: the sweep is not scoped to the completed regions.
UnconfirmedAnywhere(s) == {r \in live : lastSeen[r] < s}

\* Fault: a resource stamped at the very start of the scan counts as missed.
UnconfirmedInclusive(s) ==
    {r \in live : homeRegion[r] \in CompletedRegions(s) /\ lastSeen[r] <= s}

\* Fault: a resource is marked deleted only when the scan before missed it too.
UnconfirmedTwice(s) ==
    {r \in live : homeRegion[r] \in CompletedRegions(s) /\ lastSeen[r] + 1 < s}

Unconfirmed(s) == {r \in live : homeRegion[r] \in CompletedRegions(s) /\ lastSeen[r] < s}

FinalStatus(s) ==
    IF CompletedRegions(s) = {} THEN "failed"
    ELSE IF FailedRegions(s) = {} THEN "succeeded" ELSE "partial"

\* The scan row is read, the status decided and the sweep flushed; a scan
\* with no completed region skips the sweep and the messages.
BeginFinalize(s) ==
    /\ exec[s] = "mapping"
    /\ Settled(s)
    /\ row[s] = "running"
    /\ exec' = [exec EXCEPT ![s] = IF FinalStatus(s) = "failed" THEN "notified" ELSE "swept"]
    /\ doomed' = [doomed EXCEPT ![s] = Unconfirmed(s)]
    /\ UNCHANGED <<begun, scanRegions, row, unit, invVars, sent, present,
                   found, overlapped>>

\* scalar_one() finds no committed scan row: the execution fails.
FinalizeWithoutRow(s) ==
    /\ exec[s] = "mapping"
    /\ Settled(s)
    /\ row[s] # "running"
    /\ exec' = [exec EXCEPT ![s] = "aborted"]
    /\ UNCHANGED <<begun, scanRegions, row, unit, invVars, doomed, sent,
                   present, found, overlapped>>

\* One message per queue, in this order, while the transaction is open.
Enqueue(s, queue, from, to) ==
    /\ exec[s] = from
    /\ sent' = sent \cup {<<queue, s>>}
    /\ exec' = [exec EXCEPT ![s] = to]
    /\ UNCHANGED <<begun, scanRegions, row, unit, invVars, doomed, present,
                   found, overlapped>>

EnqueueCompliance(s) == Enqueue(s, "compliance", "swept", "half")
EnqueueOwnership(s) == Enqueue(s, "ownership", "half", "notified")

\* Fault: the transaction commits before the second message is sent.
CommitFinalizeHalfSent(s) ==
    /\ exec[s] \in {"half", "notified"}
    /\ row' = [row EXCEPT ![s] = FinalStatus(s)]
    /\ live' = live \ doomed[s]
    /\ doomed' = [doomed EXCEPT ![s] = {}]
    /\ exec' = [exec EXCEPT ![s] = "done"]
    /\ UNCHANGED <<begun, scanRegions, unit, lastSeen, homeRegion, sent,
                   present, found, overlapped>>

CommitFinalize(s) ==
    /\ exec[s] = "notified"
    /\ row' = [row EXCEPT ![s] = FinalStatus(s)]
    /\ live' = live \ doomed[s]
    /\ doomed' = [doomed EXCEPT ![s] = {}]
    /\ exec' = [exec EXCEPT ![s] = "done"]
    /\ UNCHANGED <<begun, scanRegions, unit, lastSeen, homeRegion, sent,
                   present, found, overlapped>>

\* The Lambda dies or a send fails: rolled back, and nobody tries again.
CrashFinalize(s) ==
    /\ exec[s] \in Closing
    /\ exec' = [exec EXCEPT ![s] = "aborted"]
    /\ doomed' = [doomed EXCEPT ![s] = {}]
    /\ UNCHANGED <<begun, scanRegions, row, unit, invVars, sent, present,
                   found, overlapped>>

(***************************************************************************)
(* The administrator and the cloud.                                        *)
(***************************************************************************)
\* Only a later start reads the list, so the bound on starts bounds the edits.
UpdateAccountRegions(regions) ==
    /\ begun < MaxScans
    /\ regions # {}
    /\ scanRegions' = regions
    /\ UNCHANGED <<begun, scanVars, invVars, present, overlapped>>

\* External: somebody creates or deletes a resource.
CloudChange(r, g) ==
    /\ g \in VisibleFrom[r]
    /\ present' = IF <<r, g>> \in present THEN present \ {<<r, g>>}
                                          ELSE present \cup {<<r, g>>}
    /\ UNCHANGED <<begun, scanRegions, scanVars, invVars, overlapped>>

(***************************************************************************)
(* The specification.                                                      *)
(***************************************************************************)
Init ==
    /\ begun = 0
    /\ scanRegions \in (SUBSET Regions) \ {{}}
    /\ row = [s \in Scans |-> "absent"]
    /\ exec = [s \in Scans |-> "none"]
    /\ unit = [s \in Scans |-> [g \in Regions |-> AtRest("out", 0)]]
    /\ lastSeen = [r \in Resources |-> 0]
    /\ homeRegion = [r \in Resources |-> NoRegion]
    /\ live = {}
    /\ doomed = [s \in Scans |-> {}]
    /\ sent = {}
    /\ present \in SUBSET {p \in Resources \X Regions : p[2] \in VisibleFrom[p[1]]}
    /\ found = [s \in Scans |-> {}]
    /\ overlapped = {}

StartStep(s) == CommitStart(s) \/ RollbackStart(s)

UnitStep(s, g) ==
    \/ \E missed \in SUBSET Supplementary : SweepRegion(s, g, missed)
    \/ \E now \in Scans, delivered \in BOOLEAN : CommitUnit(s, g, now, delivered)
    \/ FailUnit(s, g)

FinalizeStep(s) ==
    \/ BeginFinalize(s)
    \/ FinalizeWithoutRow(s)
    \/ EnqueueCompliance(s)
    \/ EnqueueOwnership(s)
    \/ CommitFinalize(s)
    \/ CrashFinalize(s)

Next ==
    \/ StartScan
    \/ \E s \in Scans : StartStep(s)
    \/ \E s \in Scans, g \in Regions : UnitStep(s, g)
    \/ \E s \in Scans : FinalizeStep(s)
    \/ \E regions \in SUBSET Regions : UpdateAccountRegions(regions)
    \/ \E r \in Resources, g \in Regions : CloudChange(r, g)

\* Step Functions keeps a started execution going and a Lambda transaction
\* ends; nothing obliges an administrator, the schedule or the cloud to act.
Fairness ==
    /\ \A s \in Scans : WF_vars(StartStep(s))
    /\ \A s \in Scans, g \in Regions : WF_vars(UnitStep(s, g))
    /\ \A s \in Scans : WF_vars(FinalizeStep(s))

Spec == Init /\ [][Next]_vars
FairSpec == Spec /\ Fairness

\* The same account in a cloud where nothing is ever created or deleted: there,
\* whatever a scan marks deleted still exists.
StillNext == Next /\ UNCHANGED present
StillSpec == Init /\ [][StillNext]_vars

(***************************************************************************)
(* Properties.                                                             *)
(***************************************************************************)

\* Every variable keeps its type, and a unit never fails more often than the
\* Retry of the state machine allows (scan_workflow.asl.json).
TypeOK ==
    /\ begun \in 0..MaxScans
    /\ scanRegions \in (SUBSET Regions) \ {{}}
    /\ row \in [Scans -> RowStates]
    /\ exec \in [Scans -> ExecStates]
    /\ unit \in [Scans -> [Regions -> Units]]
    /\ lastSeen \in [Resources -> 0..MaxScans]
    /\ homeRegion \in [Resources -> Regions \cup {NoRegion}]
    /\ live \subseteq Resources
    /\ doomed \in [Scans -> SUBSET Resources]
    /\ sent \subseteq Queues \X Scans
    /\ present \subseteq Resources \X Regions
    /\ found \in [Scans -> SUBSET Resources]
    /\ overlapped \subseteq Scans

\* sweep_deleted_resources: what a finalize in flight is about to mark deleted is
\* nothing that a committed attempt of its own scan found, and only resources of
\* regions the scan completed -- still when another scan commits in between.
SweepSafe ==
    \A s \in Scans : \A r \in doomed[s] :
        /\ exec[s] \in Closing
        /\ r \notin found[s]
        /\ homeRegion[r] \in CompletedRegions(s)

\* The hand-off of finalize_scan to the governance workers: a scan recorded
\* succeeded or partial has sent both its messages, a scan recorded failed has
\* sent none, and neither has the orphaned execution of a start that was
\* rolled back -- wherever the finalize crashed.
GovernanceHandoff ==
    \A s \in Scans :
        /\ row[s] \in {"succeeded", "partial"} => \A q \in Queues : <<q, s>> \in sent
        /\ row[s] \in {"failed", "rolledback"} => \A q \in Queues : <<q, s>> \notin sent

\* persist_unit_result and sweep_deleted_resources together implement the
\* contract: no scan marks deleted what one of its own committed attempts
\* found (even when the result was lost and the unit ran again), nor anything
\* of a region it did not complete, nor anything twice.
Contract == INSTANCE InventoryContract WITH
    home <- homeRegion,
    covered <- {p \in Scans \X Regions : unit[p[1]][p[2]].phase = "succeeded"},
    closed <- {s \in Scans : exec[s] = "done"}

ImplementsContract == Contract!Spec

\* The converse (SC-003 of spec 002): when a scan that met no other one is
\* recorded succeeded or partial, the live inventory of the regions it
\* completed is exactly what it found there.
CompletedRegionsMirrorScan ==
    [][\A s \in Scans \ overlapped :
          row'[s] \in {"succeeded", "partial"} /\ row[s] = "running" =>
             \A g \in CompletedRegions(s) :
                {r \in live' : homeRegion[r] = g} = {r \in found[s] : homeRegion[r] = g}]_vars

\* A finalize that died leaves the row running, and nothing ever repairs it:
\* start_scan refuses every later scan of the account.
StuckScan(s) == row[s] = "running" /\ exec[s] = "aborted"

StuckScanBlocksAccount ==
    [][\A s \in Scans : StuckScan(s) => StuckScan(s)' /\ begun' = begun]_vars

\* A scan whose row is committed reaches a terminal status unless its finalize
\* was lost: no failed unit, lost result or other scan can hang it.
RunningScanSettles ==
    \A s \in Scans : row[s] = "running" ~> row[s] \in Terminal \/ exec[s] = "aborted"

\* start_scan's docstring (orchestrator.py:53-55) and FR-027: at most one scan
\* of the account is running.
OneRunningScan ==
    \A s, t \in Scans : row[s] = "running" /\ row[t] = "running" => s = t

\* persist_unit_result's docstring (orchestrator.py:223-225) and the edge case
\* of spec 002 on partial scans, for a cloud that stands still: a resource that
\* exists in the region of its row is never marked deleted, whatever units
\* failed, were repeated or ran beside another scan.
PartialViewDeletesNothing ==
    \A r \in Resources, g \in Regions :
        <<r, g>> \in present /\ homeRegion[r] = g => r \in live
=============================================================================
