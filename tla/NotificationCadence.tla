------------------------- MODULE NotificationCadence -------------------------
(***************************************************************************)
(* The emails about open findings: the daily pass of the notification      *)
(* worker (backend/handlers/notification_worker_handler.py) over the rules *)
(* of backend/app/governance/notifications.py.  A pass sends the day-0     *)
(* email, then the day-2 and the day-4 reminders, and then flags           *)
(* escalations, all in one READ COMMITTED transaction; an email leaves     *)
(* when it is sent, its row appears when the pass commits.  The scheduler  *)
(* retries and the platform may deliver an invocation twice, so passes     *)
(* repeat and overlap.  Meanwhile findings open, are resolved              *)
(* (FindingLifecycle's subject) and are acknowledged by operators.         *)
(***************************************************************************)
EXTENDS Naturals

CONSTANTS
    Findings,  \* the finding rows; a reopened violation is another finding
    Workers,   \* invocations of the worker that may run at the same time
    Day,       \* ticks in a day; an invocation lasts less than a tick
    MaxTime    \* bound: the clock

ASSUME CadenceAssumption == Day \in Nat \ {0} /\ MaxTime \in Nat

Points == {"day_0", "day_2", "day_4"}
Outcomes == {"sent", "withheld_no_owner_email", "suppressed_finding_closed"}
Stages == Points \cup {"idle", "flag"}
Times == 0..MaxTime

\* _DAY0_LOOKBACK and _REMINDER_OFFSETS.
Lookback == 2 * Day
Offset == [p \in {"day_2", "day_4"} |-> IF p = "day_2" THEN 2 * Day ELSE 4 * Day]

\* at is attempted_at, the time the transaction began; no query asks for that of a
\* reminder, so it is kept for the day-0 rows only.
Notifications == [finding : Findings, point : Points, outcome : Outcomes, at : Times]

VARIABLES
    now,           \* the clock
    status,        \* what a finding's status is, "none" before it opens
    openedAt,
    acknowledged,  \* the findings somebody acknowledged
    escalated,     \* the findings with an escalated_at
    rows,          \* the committed notification rows
    pass,          \* the transaction each worker has open
    emailed,       \* history: <<finding, point>> that the mail service accepted
    troubled,      \* history: <<finding, point>> whose send raised or was rolled back
    covered        \* history: findings whose lookback some committed pass fell into

vars == <<now, status, openedAt, acknowledged, escalated, rows, pass, emailed, troubled, covered>>

NoPass == [stage |-> "idle", began |-> 0, todo |-> {}, chase |-> {}, added |-> {},
           flushed |-> {}, flagged |-> {}, quiet |-> {}]
Active(w) == pass[w].stage # "idle"

Has(table, f, p) == \E n \in table : n.finding = f /\ n.point = p

\* What the queries of a pass see: what is committed, and what it recorded itself.
View(w) == rows \cup pass[w].flushed \cup pass[w].added

\* History: what a pass could know when it began.
DealtWith == acknowledged \cup {f \in Findings : status[f] = "resolved"}

\* Fault: an acknowledged finding is still open.
ChasesWhileOpen(f) == status[f] = "open"

\* _still_needs_chasing
NeedsChasing(f) == status[f] = "open" /\ f \notin acknowledged

(***************************************************************************)
(* The findings and the clock.                                             *)
(***************************************************************************)
OpenFinding(f) ==
    /\ status[f] = "none"
    /\ status' = [status EXCEPT ![f] = "open"]
    /\ openedAt' = [openedAt EXCEPT ![f] = now]
    /\ UNCHANGED <<now, acknowledged, escalated, rows, pass, emailed, troubled, covered>>

ResolveFinding(f) ==
    /\ status[f] = "open"
    /\ status' = [status EXCEPT ![f] = "resolved"]
    /\ UNCHANGED <<now, openedAt, acknowledged, escalated, rows, pass, emailed, troubled, covered>>

\* acknowledge_finding: whatever the status, and only once.
AcknowledgeFinding(f) ==
    /\ status[f] # "none"
    /\ f \notin acknowledged
    /\ acknowledged' = acknowledged \cup {f}
    /\ UNCHANGED <<now, status, openedAt, escalated, rows, pass, emailed, troubled, covered>>

\* A pass may see the clock move once.
Tick ==
    /\ now < MaxTime
    /\ \A w \in Workers : Active(w) => pass[w].began = now
    /\ now' = now + 1
    /\ UNCHANGED <<status, openedAt, acknowledged, escalated, rows, pass, emailed, troubled, covered>>

(***************************************************************************)
(* The transaction of a pass flushes what it has recorded before its next  *)
(* query.                                                                  *)
(***************************************************************************)

\* Fault: nothing keeps a second row out.
NothingInTheWay(w) == TRUE

\* uq_notification_tenant_finding_cadence: a row another pass has flushed makes the
\* insert wait for that pass, and a committed one makes it fail.
MayFlush(w) ==
    \A n \in pass[w].added :
        /\ ~Has(rows, n.finding, n.point)
        /\ \A v \in Workers \ {w} : ~Has(pass[v].flushed, n.finding, n.point)

Flushed(p) == [p EXCEPT !.flushed = @ \cup p.added, !.added = {}]

(***************************************************************************)
(* The queries of a pass.                                                  *)
(***************************************************************************)

\* Fault: only what opened on the very day of the pass.
DueOfToday == {f \in Findings : status[f] = "open" /\ openedAt[f] = now /\ ~Has(rows, f, "day_0")}

\* due_day0_findings; it is the first query, so nothing is flushed yet.
DueDay0 ==
    {f \in Findings : status[f] = "open" /\ openedAt[f] + Lookback >= now /\ ~Has(rows, f, "day_0")}

\* Fault: of two reminders that are due only the later one goes out.
DueLastReminders(w, p) ==
    {f \in Findings :
        /\ \E n \in View(w) :
              /\ n.finding = f /\ n.point = "day_0" /\ n.at + Offset[p] <= now
              /\ p = "day_2" => n.at + Offset["day_4"] > now
        /\ ~Has(View(w), f, p)}

\* Fault: the age of the finding is taken for that of its day-0 row.
DueSinceOpening(w, p) ==
    {f \in Findings :
        /\ status[f] = "open" /\ openedAt[f] + Offset[p] <= now
        /\ ~Has(View(w), f, p)}

\* due_reminder_findings: whatever the status.
DueReminders(w, p) ==
    {f \in Findings :
        /\ \E n \in View(w) : n.finding = f /\ n.point = "day_0" /\ n.at + Offset[p] <= now
        /\ ~Has(View(w), f, p)}

\* send_due_day0_notifications begins.  Its findings are sent to without a further
\* look at whether they need chasing.
BeginPass(w) ==
    /\ ~Active(w)
    /\ pass' = [pass EXCEPT ![w] =
                  [NoPass EXCEPT !.stage = "day_0", !.began = now, !.todo = DueDay0,
                                 !.chase = DueDay0]]
    /\ UNCHANGED <<now, status, openedAt, acknowledged, escalated, rows, emailed, troubled, covered>>

StageIsDone(w) == Active(w) /\ pass[w].todo = {} /\ MayFlush(w)

\* send_due_reminders: day 2 after day 0, day 4 after day 2.
QueryReminders(w, p) ==
    /\ StageIsDone(w)
    /\ <<pass[w].stage, p>> \in {<<"day_0", "day_2">>, <<"day_2", "day_4">>}
    /\ pass' = [pass EXCEPT ![w] =
                  [Flushed(@) EXCEPT !.stage = p, !.todo = DueReminders(w, p),
                                     !.chase = {f \in DueReminders(w, p) : NeedsChasing(f)},
                                     !.quiet = IF p = "day_2" THEN DealtWith ELSE pass[w].quiet]]
    /\ UNCHANGED <<now, status, openedAt, acknowledged, escalated, rows, emailed, troubled, covered>>

\* Fault: the flags go by the rows of earlier passes, as if they were set first.
StaleBefore(w) ==
    {f \in Findings : status[f] = "open" /\ f \notin escalated /\ Has(rows, f, "day_4")}

\* The findings flag_stale_escalations finds: a day-4 row of any outcome will do.
Stale(w) ==
    {f \in Findings : status[f] = "open" /\ f \notin escalated /\ Has(View(w), f, "day_4")}

FlagStaleEscalations(w) ==
    /\ StageIsDone(w)
    /\ pass[w].stage = "day_4"
    /\ pass' = [pass EXCEPT ![w] = [Flushed(@) EXCEPT !.stage = "flag", !.flagged = Stale(w)]]
    /\ UNCHANGED <<now, status, openedAt, acknowledged, escalated, rows, emailed, troubled, covered>>

(***************************************************************************)
(* One finding at one cadence point.                                       *)
(***************************************************************************)
Row(w, f, outcome) ==
    [finding |-> f, point |-> pass[w].stage, outcome |-> outcome,
     at |-> IF pass[w].stage = "day_0" THEN pass[w].began ELSE 0]

Handled(p, f) == [p EXCEPT !.todo = @ \ {f}, !.chase = @ \ {f}]
Recorded(p, f, n) == [Handled(p, f) EXCEPT !.added = @ \cup {n}]

\* _attempt looks the owner up, which flushes what was recorded before.
MayAttempt(w, f) == f \in pass[w].chase /\ MayFlush(w)

Send(w, f) ==
    /\ MayAttempt(w, f)
    /\ emailed' = emailed \cup {<<f, pass[w].stage>>}
    /\ pass' = [pass EXCEPT ![w] = Recorded(Flushed(@), f, Row(w, f, "sent"))]
    /\ UNCHANGED <<now, status, openedAt, acknowledged, escalated, rows, troubled, covered>>

\* No owner, or a name that is no address.
Withhold(w, f) ==
    /\ MayAttempt(w, f)
    /\ pass' = [pass EXCEPT ![w] = Recorded(Flushed(@), f, Row(w, f, "withheld_no_owner_email"))]
    /\ UNCHANGED <<now, status, openedAt, acknowledged, escalated, rows, emailed, troubled, covered>>

\* Fault: a failed send is recorded like one that succeeded.
RecordFailedSend(w, f, accepted) ==
    /\ MayAttempt(w, f)
    /\ emailed' = IF accepted THEN emailed \cup {<<f, pass[w].stage>>} ELSE emailed
    /\ pass' = [pass EXCEPT ![w] = Recorded(Flushed(@), f, Row(w, f, "sent"))]
    /\ UNCHANGED <<now, status, openedAt, acknowledged, escalated, rows, troubled, covered>>

\* The call raises, and nothing is recorded; the mail service may have accepted the
\* email all the same, when it was the answer that was lost.
SendFails(w, f, accepted) ==
    /\ MayAttempt(w, f)
    /\ emailed' = IF accepted THEN emailed \cup {<<f, pass[w].stage>>} ELSE emailed
    /\ troubled' = troubled \cup {<<f, pass[w].stage>>}
    /\ pass' = [pass EXCEPT ![w] = Handled(Flushed(@), f)]
    /\ UNCHANGED <<now, status, openedAt, acknowledged, escalated, rows, covered>>

\* A reminder that came due for a finding already dealt with.
SuppressReminder(w, f) ==
    /\ f \in pass[w].todo \ pass[w].chase
    /\ pass' = [pass EXCEPT ![w] = Recorded(@, f, Row(w, f, "suppressed_finding_closed"))]
    /\ UNCHANGED <<now, status, openedAt, acknowledged, escalated, rows, emailed, troubled, covered>>

(***************************************************************************)
(* The transaction.                                                        *)
(***************************************************************************)

\* The findings for which this pass was a chance of a day-0 email.
CoveredBy(w) ==
    {f \in Findings : /\ status[f] # "none"
                      /\ openedAt[f] < pass[w].began /\ pass[w].began <= openedAt[f] + Lookback}

CommitPass(w) ==
    /\ pass[w].stage = "flag"
    /\ rows' = rows \cup pass[w].flushed
    /\ escalated' = escalated \cup pass[w].flagged
    /\ covered' = covered \cup CoveredBy(w)
    /\ pass' = [pass EXCEPT ![w] = NoPass]
    /\ UNCHANGED <<now, status, openedAt, acknowledged, emailed, troubled>>

SentRows(w) == {n \in pass[w].flushed \cup pass[w].added : n.outcome = "sent"}

\* The unique index, a lost connection or the Lambda's timeout; the emails are sent.
RollbackPass(w) ==
    /\ Active(w)
    /\ troubled' = troubled \cup {<<n.finding, n.point>> : n \in SentRows(w)}
    /\ pass' = [pass EXCEPT ![w] = NoPass]
    /\ UNCHANGED <<now, status, openedAt, acknowledged, escalated, rows, emailed, covered>>

(***************************************************************************)
(* The specification.                                                      *)
(***************************************************************************)
Init ==
    /\ now = 0
    /\ status = [f \in Findings |-> "none"]
    /\ openedAt = [f \in Findings |-> 0]
    /\ acknowledged = {}
    /\ escalated = {}
    /\ rows = {}
    /\ pass = [w \in Workers |-> NoPass]
    /\ emailed = {}
    /\ troubled = {}
    /\ covered = {}

FindingStep(f) == OpenFinding(f) \/ ResolveFinding(f) \/ AcknowledgeFinding(f)

AttemptStep(w, f) ==
    \/ Send(w, f)
    \/ Withhold(w, f)
    \/ \E accepted \in BOOLEAN : SendFails(w, f, accepted)
    \/ SuppressReminder(w, f)

PassStep(w) ==
    \/ BeginPass(w)
    \/ \E p \in Points : QueryReminders(w, p)
    \/ FlagStaleEscalations(w)
    \/ \E f \in Findings : AttemptStep(w, f)
    \/ CommitPass(w)
    \/ RollbackPass(w)

Next ==
    \/ Tick
    \/ \E f \in Findings : FindingStep(f)
    \/ \E w \in Workers : PassStep(w)

Spec == Init /\ [][Next]_vars

(***************************************************************************)
(* Properties.                                                             *)
(***************************************************************************)
Passes == [stage : Stages, began : Times, todo : SUBSET Findings, chase : SUBSET Findings,
           added : SUBSET Notifications, flushed : SUBSET Notifications,
           flagged : SUBSET Findings, quiet : SUBSET Findings]

UniqueRows == \A m, n \in rows : m.finding = n.finding /\ m.point = n.point => m = n

\* Every variable keeps its type, no pass began after the present, and there is at
\* most one row per finding and cadence point, ever (core.py, class Notification).
TypeOK ==
    /\ now \in Times
    /\ status \in [Findings -> {"none", "open", "resolved"}]
    /\ openedAt \in [Findings -> Times]
    /\ acknowledged \subseteq Findings
    /\ escalated \subseteq Findings
    /\ rows \subseteq Notifications
    /\ UniqueRows
    /\ pass \in [Workers -> Passes]
    /\ \A w \in Workers : pass[w].began <= now
    /\ emailed \subseteq Findings \X Points
    /\ troubled \subseteq Findings \X Points
    /\ covered \subseteq Findings

\* FR-008 and SC-004 of spec 005, and the handler's "order matters": from the moment
\* a day-4 row is visible its finding is escalated or no longer open, and nothing
\* without a day-4 row ever is -- whichever of several passes wrote the row.
EscalatedWithItsDay4Row ==
    \A f \in Findings :
        /\ f \in escalated => Has(rows, f, "day_4")
        /\ Has(rows, f, "day_4") /\ status[f] = "open" => f \in escalated

InProgress(f, p) ==
    \E w \in Workers : Has(SentRows(w), f, p)

RecordedOutcomes(f, p) == {n.outcome : n \in {n \in rows : n.finding = f /\ n.point = p}}

\* FR-013: the history an admin audits is true.  Sent is what is recorded exactly when
\* the mail service accepted an email at that point, once the passes that sent it
\* are over and unless one of them failed -- also when two attempt the same.
AuditTrailIsTrue ==
    \A f \in Findings, p \in Points : <<f, p>> \notin troubled /\ ~InProgress(f, p) =>
        (<<f, p>> \in emailed <=> RecordedOutcomes(f, p) = {"sent"})

\* FR-006 and send_due_reminders' "in cadence order rather than out of it": a day-4
\* row without a day-2 row exists only where the day-2 email failed, even if a pass
\* finds both due or overlaps with the pass that wrote the day-0 row.
CadenceInOrder ==
    \A f \in Findings :
        Has(rows, f, "day_4") => Has(rows, f, "day_2") \/ <<f, "day_2">> \in troubled

\* The 48 hours of _DAY0_LOOKBACK: a finding that stays open has its day-0 row as
\* soon as ONE pass that began within its lookback has committed, unless that email
\* failed.
OnePassOfTheLookbackIsEnough ==
    \A f \in covered :
        status[f] = "open" => Has(rows, f, "day_0") \/ <<f, "day_0">> \in troubled

\* FR-007, as far as the code keeps it: a finding that was resolved or acknowledged before
\* a pass asked for its first reminders gets neither of the two from that pass, although
\* the reminder query does not look at the status, the day-0 emails of the pass may have
\* taken their time, and a second query is made later.
NoReminderIfDealtWithBefore ==
    [][\A w \in Workers : \A f \in pass[w].quiet : ~Send(w, f) /\ ~SendFails(w, f, TRUE)]_vars

\* An edge case of spec 005: a reminder is guaranteed not to fire after an acknowledgement
\* has taken effect, at the moment the send executes.
NoReminderOnceDealtWith ==
    [][\A w \in Workers : \A f \in DealtWith :
          pass[w].stage # "day_0" => ~Send(w, f) /\ ~SendFails(w, f, TRUE)]_vars

\* notifications.py: the unique constraint makes a re-run idempotent rather than a second
\* email.
NoSecondEmail ==
    [][\A w \in Workers : \A f \in Findings :
          Send(w, f) => <<f, pass[w].stage>> \notin emailed]_vars

\* Overlapping and repeated passes, emails that fail and sessions that roll back
\* amount to a table of one row per finding and point, filled a batch at a time: the
\* first row in the lookback, the reminders after it in order and old enough, and the
\* escalation together with its day-4 row.  (core.py, class Notification; FR-006 to
\* FR-008 of spec 005.)
Contract == INSTANCE CadenceContract WITH failed <- troubled

ImplementsContract == Contract!Spec
=============================================================================
