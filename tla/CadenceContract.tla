-------------------------- MODULE CadenceContract --------------------------
(***************************************************************************)
(* What the notification worker promises about its table, without passes,  *)
(* sessions, queries or email: rows are recorded a batch at a time, one    *)
(* row per finding and point for ever.  The first is recorded within the   *)
(* lookback of the finding, a reminder once the first is there and old     *)
(* enough, the second reminder after the first one unless that one failed. *)
(* A finding is escalated in the very step that records its second         *)
(* reminder, unless it is no longer open.                                  *)
(***************************************************************************)
EXTENDS Naturals

CONSTANTS Findings, Points, Notifications, Lookback, Offset

VARIABLES
    now,
    status,
    openedAt,
    acknowledged,
    escalated,
    rows,
    failed        \* the findings and points for which an email was lost or repeated

contractVars == <<now, status, openedAt, acknowledged, escalated, rows, failed>>

Row(table, f, p) == {n \in table : n.finding = f /\ n.point = p}

Init ==
    /\ now = 0
    /\ status = [f \in Findings |-> "none"]
    /\ openedAt = [f \in Findings |-> 0]
    /\ acknowledged = {} /\ escalated = {} /\ rows = {} /\ failed = {}

Tick ==
    /\ now' = now + 1
    /\ UNCHANGED <<status, openedAt, acknowledged, escalated, rows, failed>>

Open(f) ==
    /\ status[f] = "none"
    /\ status' = [status EXCEPT ![f] = "open"]
    /\ openedAt' = [openedAt EXCEPT ![f] = now]
    /\ UNCHANGED <<now, acknowledged, escalated, rows, failed>>

Resolve(f) ==
    /\ status[f] = "open"
    /\ status' = [status EXCEPT ![f] = "resolved"]
    /\ UNCHANGED <<now, openedAt, acknowledged, escalated, rows, failed>>

Acknowledge(f) ==
    /\ status[f] # "none"
    /\ acknowledged' = acknowledged \cup {f}
    /\ UNCHANGED <<now, status, openedAt, escalated, rows, failed>>

Fail(lost) ==
    /\ failed' = failed \cup lost
    /\ UNCHANGED <<now, status, openedAt, acknowledged, escalated, rows>>

InTime(n) == openedAt[n.finding] <= n.at /\ n.at <= openedAt[n.finding] + Lookback /\ n.at <= now

OldEnough(n) ==
    \E first \in Row(rows, n.finding, "day_0") : first.at + Offset[n.point] <= now

InOrder(n, batch) ==
    Row(rows \cup batch, n.finding, "day_2") # {} \/ <<n.finding, "day_2">> \in failed

Suppressible(n) == n.finding \in acknowledged \/ status[n.finding] = "resolved"

MayRecord(n, batch) ==
    /\ status[n.finding] # "none"
    /\ Row(rows, n.finding, n.point) = {}
    /\ Row(batch, n.finding, n.point) = {n}
    /\ IF n.point = "day_0" THEN InTime(n) ELSE OldEnough(n)
    /\ n.point = "day_4" => InOrder(n, batch)
    /\ n.outcome = "suppressed_finding_closed" => n.point # "day_0" /\ Suppressible(n)

Record(batch) ==
    /\ batch \subseteq Notifications
    /\ \A n \in batch : MayRecord(n, batch)
    /\ rows' = rows \cup batch
    /\ escalated \subseteq escalated'
    /\ \A f \in escalated' \ escalated : Row(rows', f, "day_4") # {}
    /\ \A f \in Findings : status[f] = "open" /\ Row(rows', f, "day_4") # {} => f \in escalated'
    /\ UNCHANGED <<now, status, openedAt, acknowledged, failed>>

Next ==
    \/ Tick
    \/ \E f \in Findings : Open(f) \/ Resolve(f) \/ Acknowledge(f)
    \/ \E lost \in SUBSET (Findings \X Points) : Fail(lost)
    \/ Record(rows' \ rows)

Spec == Init /\ [][Next]_contractVars
=============================================================================
