---------------------- MODULE NotificationCadenceProofs ----------------------
(***************************************************************************)
(* Machine-checked theorems about NotificationCadence, for any findings,   *)
(* any number of overlapping passes, any length of a day and any clock.    *)
(*                                                                         *)
(* Everything rests on RowsApart: what the transactions have flushed and   *)
(* what is committed never share a finding and a cadence point, so a       *)
(* commit never adds a second row.                                         *)
(***************************************************************************)
EXTENDS NotificationCadence, TLAPS

\* The rows a pass has recorded, flushed or not.
Mine(w) == pass[w].flushed \cup pass[w].added

Same(m, n) == m.finding = n.finding /\ m.point = n.point

\* The stages of a pass and what it holds in each.
PassShape ==
    \A w \in Workers :
        /\ pass[w].stage = "idle" => pass[w] = NoPass
        /\ pass[w].stage \in {"idle", "flag"} => pass[w].todo = {} /\ pass[w].added = {}
        /\ pass[w].chase \subseteq pass[w].todo
        /\ Active(w) => now <= pass[w].began + 1
        /\ \A n \in Mine(w) : n.point = "day_0" => n.at = pass[w].began

\* No two rows of a finding and a point, among the committed and the flushed ones
\* and among those of one pass; and none yet of what a pass still has to do.
RowsApart ==
    /\ \A w \in Workers :
          /\ \A n \in Mine(w) : n.finding \in pass[w].todo => n.point # pass[w].stage
          /\ \A m, n \in Mine(w) : Same(m, n) => m = n
          /\ \A n \in pass[w].flushed : \A m \in rows : ~Same(m, n)
    /\ \A v, w \in Workers : v # w =>
          \A m \in pass[v].flushed, n \in pass[w].flushed : ~Same(m, n)

TInv == TypeOK /\ PassShape /\ RowsApart

(***************************************************************************)
(* What a step makes of a pass.                                            *)
(***************************************************************************)
LEMMA NoPassType == NoPass \in Passes
BY CadenceAssumption DEF NoPass, Passes, Stages, Times

LEMMA FlushedFields ==
    ASSUME NEW p \in Passes
    PROVE  /\ Flushed(p) \in Passes
           /\ Flushed(p).stage = p.stage /\ Flushed(p).began = p.began
           /\ Flushed(p).todo = p.todo /\ Flushed(p).chase = p.chase
           /\ Flushed(p).flushed = p.flushed \cup p.added /\ Flushed(p).added = {}
           /\ Flushed(p).flagged = p.flagged /\ Flushed(p).quiet = p.quiet
BY DEF Flushed, Passes

LEMMA HandledFields ==
    ASSUME NEW p \in Passes, NEW f \in Findings
    PROVE  /\ Handled(p, f) \in Passes
           /\ Handled(p, f).stage = p.stage /\ Handled(p, f).began = p.began
           /\ Handled(p, f).todo = p.todo \ {f} /\ Handled(p, f).chase = p.chase \ {f}
           /\ Handled(p, f).flushed = p.flushed /\ Handled(p, f).added = p.added
           /\ Handled(p, f).flagged = p.flagged /\ Handled(p, f).quiet = p.quiet
BY DEF Handled, Passes

LEMMA RecordedFields ==
    ASSUME NEW p \in Passes, NEW f \in Findings, NEW n \in Notifications
    PROVE  /\ Recorded(p, f, n) \in Passes
           /\ Recorded(p, f, n).stage = p.stage /\ Recorded(p, f, n).began = p.began
           /\ Recorded(p, f, n).todo = p.todo \ {f} /\ Recorded(p, f, n).chase = p.chase \ {f}
           /\ Recorded(p, f, n).flushed = p.flushed
           /\ Recorded(p, f, n).added = p.added \cup {n}
           /\ Recorded(p, f, n).flagged = p.flagged /\ Recorded(p, f, n).quiet = p.quiet
BY HandledFields DEF Recorded, Passes

LEMMA RowType ==
    ASSUME TypeOK, NEW w \in Workers, NEW f \in Findings, NEW outcome \in Outcomes,
           pass[w].stage \in Points
    PROVE  /\ Row(w, f, outcome) \in Notifications
           /\ Row(w, f, outcome).finding = f /\ Row(w, f, outcome).point = pass[w].stage
           /\ Row(w, f, outcome).outcome = outcome
           /\ pass[w].stage = "day_0" => Row(w, f, outcome).at = pass[w].began
BY CadenceAssumption DEF Row, Notifications, TypeOK, Passes, Times

(***************************************************************************)
(* The steps inside a transaction: what all of them have in common, and    *)
(* the four kinds there are.                                               *)
(***************************************************************************)
Works(w) ==
    /\ pass[w].stage \in Points
    /\ pass' \in [Workers -> Passes]
    /\ \A v \in Workers \ {w} : pass'[v] = pass[v]
    /\ pass'[w].began = pass[w].began
    /\ \/ pass'[w].flushed = pass[w].flushed
       \/ pass'[w].flushed = Mine(w) /\ MayFlush(w)
    /\ UNCHANGED <<now, status, openedAt, acknowledged, escalated, rows, covered>>

Records(w, f, n) ==
    /\ Works(w)
    /\ f \in pass[w].todo
    /\ n \in Notifications /\ n.finding = f /\ n.point = pass[w].stage
    /\ n.point = "day_0" => n.at = pass[w].began
    /\ n.outcome = "suppressed_finding_closed" => f \notin pass[w].chase
    /\ pass'[w].stage = pass[w].stage
    /\ pass'[w].todo = pass[w].todo \ {f} /\ pass'[w].chase = pass[w].chase \ {f}
    /\ pass'[w].quiet = pass[w].quiet
    /\ pass'[w].flushed \cup pass'[w].added = Mine(w) \cup {n}
    /\ n \in pass'[w].added
    /\ emailed' = IF n.outcome = "sent" THEN emailed \cup {<<f, n.point>>} ELSE emailed
    /\ troubled' = troubled

Fails(w, f) ==
    /\ Works(w)
    /\ f \in pass[w].todo
    /\ pass'[w].stage = pass[w].stage
    /\ pass'[w].todo = pass[w].todo \ {f} /\ pass'[w].chase = pass[w].chase \ {f}
    /\ pass'[w].quiet = pass[w].quiet
    /\ pass'[w].flushed = Mine(w) /\ pass'[w].added = {}
    /\ emailed' \in {emailed, emailed \cup {<<f, pass[w].stage>>}}
    /\ troubled' = troubled \cup {<<f, pass[w].stage>>}

Queries(w, p) ==
    /\ Works(w)
    /\ pass[w].todo = {}
    /\ <<pass[w].stage, p>> \in {<<"day_0", "day_2">>, <<"day_2", "day_4">>}
    /\ pass'[w].stage = p
    /\ pass'[w].todo = DueReminders(w, p)
    /\ pass'[w].chase = {f \in DueReminders(w, p) : NeedsChasing(f)}
    /\ pass'[w].quiet = IF p = "day_2" THEN DealtWith ELSE pass[w].quiet
    /\ pass'[w].flushed = Mine(w) /\ pass'[w].added = {}
    /\ UNCHANGED <<emailed, troubled>>

Flags(w) ==
    /\ Works(w)
    /\ pass[w].todo = {}
    /\ pass[w].stage = "day_4" /\ pass'[w].stage = "flag"
    /\ pass'[w].todo = {} /\ pass'[w].chase = {} /\ pass'[w].quiet = pass[w].quiet
    /\ pass'[w].flushed = Mine(w) /\ pass'[w].added = {}
    /\ pass'[w].flagged = Stale(w)
    /\ UNCHANGED <<emailed, troubled>>

LEMMA StageOfWork ==
    ASSUME TypeOK, PassShape, NEW w \in Workers, pass[w].todo # {}
    PROVE  pass[w].stage \in Points /\ pass[w] \in Passes
BY DEF TypeOK, PassShape, Passes, Stages

LEMMA RecordsStep ==
    ASSUME TypeOK, PassShape, NEW w \in Workers, NEW f \in Findings,
           Send(w, f) \/ Withhold(w, f) \/ SuppressReminder(w, f)
    PROVE  \E n \in Notifications : Records(w, f, n)
<1>1. f \in pass[w].todo
  BY DEF Send, Withhold, SuppressReminder, MayAttempt, PassShape
<1>2. pass[w].stage \in Points /\ pass[w] \in Passes
  BY <1>1, StageOfWork
<1>3. pass \in [Workers -> Passes]
  BY DEF TypeOK
<1>4. Flushed(pass[w]) \in Passes
  BY <1>2, FlushedFields
<1>5. CASE Send(w, f)
  <2>. DEFINE n == Row(w, f, "sent")
  <2>1. /\ n \in Notifications /\ n.finding = f /\ n.point = pass[w].stage
        /\ n.outcome = "sent" /\ (n.point = "day_0" => n.at = pass[w].began)
    BY <1>2, RowType DEF Outcomes
  <2>. HIDE DEF n
  <2>2. pass' = [pass EXCEPT ![w] = Recorded(Flushed(pass[w]), f, n)]
    BY <1>5 DEF Send, n
  <2>3. Recorded(Flushed(pass[w]), f, n) \in Passes
    BY <1>4, <2>1, RecordedFields
  <2>4. Records(w, f, n)
    BY <1>1, <1>2, <1>3, <1>4, <1>5, <2>1, <2>2, <2>3, FlushedFields, RecordedFields
       DEF Records, Works, Send, MayAttempt, Mine
  <2>. QED
    BY <2>1, <2>4
<1>6. CASE Withhold(w, f)
  <2>. DEFINE n == Row(w, f, "withheld_no_owner_email")
  <2>1. /\ n \in Notifications /\ n.finding = f /\ n.point = pass[w].stage
        /\ n.outcome = "withheld_no_owner_email" /\ (n.point = "day_0" => n.at = pass[w].began)
    BY <1>2, RowType DEF Outcomes
  <2>. HIDE DEF n
  <2>2. pass' = [pass EXCEPT ![w] = Recorded(Flushed(pass[w]), f, n)]
    BY <1>6 DEF Withhold, n
  <2>3. Recorded(Flushed(pass[w]), f, n) \in Passes
    BY <1>4, <2>1, RecordedFields
  <2>4. Records(w, f, n)
    BY <1>1, <1>2, <1>3, <1>4, <1>6, <2>1, <2>2, <2>3, FlushedFields, RecordedFields
       DEF Records, Works, Withhold, MayAttempt, Mine
  <2>. QED
    BY <2>1, <2>4
<1>7. CASE SuppressReminder(w, f)
  <2>. DEFINE n == Row(w, f, "suppressed_finding_closed")
  <2>1. /\ n \in Notifications /\ n.finding = f /\ n.point = pass[w].stage
        /\ n.outcome # "sent" /\ (n.point = "day_0" => n.at = pass[w].began)
    BY <1>2, RowType DEF Outcomes
  <2>. HIDE DEF n
  <2>2. pass' = [pass EXCEPT ![w] = Recorded(pass[w], f, n)]
    BY <1>7 DEF SuppressReminder, n
  <2>3. Recorded(pass[w], f, n) \in Passes
    BY <1>2, <2>1, RecordedFields
  <2>4. Records(w, f, n)
    BY <1>1, <1>2, <1>3, <1>7, <2>1, <2>2, <2>3, RecordedFields
       DEF Records, Works, SuppressReminder, Mine
  <2>. QED
    BY <2>1, <2>4
<1>. QED
  BY <1>5, <1>6, <1>7

LEMMA FailsStep ==
    ASSUME TypeOK, PassShape, NEW w \in Workers, NEW f \in Findings,
           NEW accepted \in BOOLEAN, SendFails(w, f, accepted)
    PROVE  Fails(w, f)
<1>1. f \in pass[w].todo
  BY DEF SendFails, MayAttempt, PassShape
<1>2. pass[w].stage \in Points /\ pass[w] \in Passes
  BY <1>1, StageOfWork
<1>3. Flushed(pass[w]) \in Passes /\ Handled(Flushed(pass[w]), f) \in Passes
  BY <1>2, FlushedFields, HandledFields
<1>4. pass \in [Workers -> Passes] /\ MayFlush(w)
      /\ pass' = [pass EXCEPT ![w] = Handled(Flushed(pass[w]), f)]
  BY DEF TypeOK, SendFails, MayAttempt
<1>5. Works(w)
  BY <1>2, <1>3, <1>4, FlushedFields, HandledFields DEF Works, SendFails, Mine
<1>6. emailed' \in {emailed, emailed \cup {<<f, pass[w].stage>>}}
      /\ troubled' = troubled \cup {<<f, pass[w].stage>>}
  BY DEF SendFails
<1>. QED
  BY <1>1, <1>2, <1>3, <1>4, <1>5, <1>6, FlushedFields, HandledFields DEF Fails, Mine

LEMMA QueriesStep ==
    ASSUME TypeOK, PassShape, NEW w \in Workers, NEW p \in Points, QueryReminders(w, p)
    PROVE  Queries(w, p)
<1>. DEFINE chased == {f \in DueReminders(w, p) : NeedsChasing(f)}
            hushed == IF p = "day_2" THEN DealtWith ELSE pass[w].quiet
            q == [Flushed(pass[w]) EXCEPT !.stage = p, !.todo = DueReminders(w, p), !.chase = chased,
                                          !.quiet = hushed]
<1>1. pass[w].stage \in Points /\ pass[w] \in Passes
  BY DEF QueryReminders, TypeOK, Points
<1>2. Flushed(pass[w]) \in Passes
  BY <1>1, FlushedFields
<1>3. /\ DueReminders(w, p) \in SUBSET Findings /\ chased \in SUBSET Findings /\ p \in Stages
      /\ hushed \in SUBSET Findings
  BY <1>1 DEF DueReminders, Stages, DealtWith, TypeOK, Passes
<1>4. /\ q \in Passes /\ q.stage = p /\ q.todo = DueReminders(w, p) /\ q.chase = chased
      /\ q.began = Flushed(pass[w]).began /\ q.quiet = hushed
      /\ q.flushed = Flushed(pass[w]).flushed /\ q.added = Flushed(pass[w]).added
  <2>. HIDE DEF chased, hushed
  <2>. QED
    BY <1>2, <1>3 DEF Passes
<1>5. pass' = [pass EXCEPT ![w] = q]
  BY DEF QueryReminders
<1>6. pass'[w] = q /\ \A v \in Workers \ {w} : pass'[v] = pass[v]
  BY <1>5 DEF TypeOK
<1>7. pass'[w].quiet = IF p = "day_2" THEN DealtWith ELSE pass[w].quiet
  <2>. HIDE DEF q
  <2>. QED
    BY <1>4, <1>6
<1>. HIDE DEF q, hushed
<1>8. /\ q.flushed = Mine(w) /\ q.added = {} /\ q.began = pass[w].began
      /\ pass' \in [Workers -> Passes]
  BY <1>1, <1>4, <1>5, FlushedFields DEF Mine, TypeOK
<1>9. /\ pass[w].todo = {} /\ MayFlush(w)
      /\ <<pass[w].stage, p>> \in {<<"day_0", "day_2">>, <<"day_2", "day_4">>}
      /\ UNCHANGED <<now, status, openedAt, acknowledged, escalated, rows, emailed, troubled, covered>>
  BY DEF QueryReminders, StageIsDone
<1>10. Works(w)
  BY <1>1, <1>6, <1>8, <1>9 DEF Works
<1>. QED
  BY <1>4, <1>6, <1>7, <1>8, <1>9, <1>10 DEF Queries

LEMMA FlagsStep ==
    ASSUME TypeOK, PassShape, NEW w \in Workers, FlagStaleEscalations(w)
    PROVE  Flags(w)
<1>. DEFINE q == [Flushed(pass[w]) EXCEPT !.stage = "flag", !.flagged = Stale(w)]
<1>1. pass[w].stage \in Points /\ pass[w] \in Passes
  BY DEF FlagStaleEscalations, TypeOK, Points
<1>2. Flushed(pass[w]) \in Passes
  BY <1>1, FlushedFields
<1>3. Stale(w) \in SUBSET Findings /\ "flag" \in Stages
  BY DEF Stale, Stages
<1>4. /\ q \in Passes /\ q.stage = "flag" /\ q.flagged = Stale(w)
      /\ q.todo = Flushed(pass[w]).todo /\ q.chase = Flushed(pass[w]).chase
      /\ q.began = Flushed(pass[w]).began /\ q.quiet = Flushed(pass[w]).quiet
      /\ q.flushed = Flushed(pass[w]).flushed /\ q.added = Flushed(pass[w]).added
  BY <1>2, <1>3 DEF Passes
<1>5. pass' = [pass EXCEPT ![w] = q]
  BY DEF FlagStaleEscalations
<1>6. pass[w].chase = {}
  BY DEF FlagStaleEscalations, StageIsDone, PassShape
<1>. HIDE DEF q
<1>. QED
  BY <1>1, <1>2, <1>4, <1>5, <1>6, FlushedFields
     DEF Flags, Works, FlagStaleEscalations, StageIsDone, Mine, TypeOK

\* A step of a pass is the beginning or the end of its transaction, or one of the
\* four kinds of work inside it.
LEMMA KindsOfStep ==
    ASSUME TypeOK, PassShape, NEW w \in Workers, PassStep(w)
    PROVE  \/ BeginPass(w) \/ CommitPass(w) \/ RollbackPass(w) \/ Flags(w)
           \/ \E f \in Findings : Fails(w, f) \/ \E n \in Notifications : Records(w, f, n)
           \/ \E p \in Points : Queries(w, p)
BY RecordsStep, FailsStep, QueriesStep, FlagsStep DEF PassStep, AttemptStep

(***************************************************************************)
(* Types, and one row per finding and point.                               *)
(***************************************************************************)
LEMMA BeginsStep ==
    ASSUME TypeOK, NEW w \in Workers, BeginPass(w)
    PROVE  /\ pass' \in [Workers -> Passes]
           /\ \A v \in Workers \ {w} : pass'[v] = pass[v]
           /\ pass[w].stage = "idle"
           /\ pass'[w].stage = "day_0" /\ pass'[w].began = now
           /\ pass'[w].todo = DueDay0 /\ pass'[w].chase = DueDay0
           /\ pass'[w].added = {} /\ pass'[w].flushed = {} /\ pass'[w].flagged = {}
           /\ pass'[w].quiet = {}
<1>. DEFINE q == [NoPass EXCEPT !.stage = "day_0", !.began = now, !.todo = DueDay0,
                                !.chase = DueDay0]
<1>1. DueDay0 \in SUBSET Findings /\ now \in Times
  BY DEF DueDay0, TypeOK
<1>2. /\ q \in Passes /\ q.stage = "day_0" /\ q.began = now /\ q.todo = DueDay0
      /\ q.chase = DueDay0 /\ q.added = {} /\ q.flushed = {} /\ q.flagged = {}
      /\ q.quiet = {}
  BY <1>1 DEF NoPass, Passes, Stages, Points
<1>3. pass' = [pass EXCEPT ![w] = q]
  BY DEF BeginPass
<1>. HIDE DEF q
<1>. QED
  BY <1>2, <1>3 DEF TypeOK, BeginPass, Active

LEMMA EndsStep ==
    ASSUME TypeOK, NEW w \in Workers, CommitPass(w) \/ RollbackPass(w)
    PROVE  /\ pass' \in [Workers -> Passes]
           /\ \A v \in Workers \ {w} : pass'[v] = pass[v]
           /\ pass'[w] = NoPass
BY NoPassType DEF TypeOK, CommitPass, RollbackPass

\* No pass began after the present, whatever becomes of one of them.
LEMMA BeganStep ==
    ASSUME TypeOK, NEW w \in Workers, now' = now,
           \A v \in Workers \ {w} : pass'[v] = pass[v],
           pass'[w] = NoPass \/ pass'[w].began = now
    PROVE  \A v \in Workers : pass'[v].began <= now'
<1>1. now \in Nat
  BY CadenceAssumption DEF TypeOK, Times
<1>2. \A v \in Workers : pass[v].began <= now
  BY DEF TypeOK
<1>3. pass'[w].began <= now
  BY <1>1 DEF NoPass
<1>. QED
  BY <1>2, <1>3

LEMMA TInvInit == Init => TInv
<1>. SUFFICES ASSUME Init PROVE TInv
  OBVIOUS
<1>1. pass \in [Workers -> Passes] /\ \A w \in Workers : pass[w] = NoPass
  BY NoPassType DEF Init
<1>2. TypeOK
  BY <1>1, CadenceAssumption DEF Init, TypeOK, Times, UniqueRows, NoPass
<1>. QED
  BY <1>1, <1>2 DEF Init, TInv, PassShape, RowsApart, NoPass, Mine, Active

LEMMA TypeStep == TInv /\ [Next]_vars => TypeOK'
<1>. SUFFICES ASSUME TInv, [Next]_vars PROVE TypeOK'
  OBVIOUS
<1>. USE DEF TInv
<1>1. CASE UNCHANGED vars
  BY <1>1 DEF vars, TypeOK, UniqueRows
<1>2. CASE Tick
  BY <1>2, CadenceAssumption DEF Tick, TypeOK, UniqueRows, Passes, Times
<1>3. ASSUME NEW f \in Findings, FindingStep(f) PROVE TypeOK'
  BY <1>3 DEF FindingStep, OpenFinding, ResolveFinding, AcknowledgeFinding, TypeOK, UniqueRows
<1>4. ASSUME NEW w \in Workers, PassStep(w) PROVE TypeOK'
  <2>1. CASE BeginPass(w)
    <3>1. pass' \in [Workers -> Passes] /\ \A v \in Workers : pass'[v].began <= now'
      BY <2>1, BeginsStep, BeganStep DEF BeginPass
    <3>. QED
      BY <2>1, <3>1 DEF BeginPass, TypeOK, UniqueRows
  <2>2. CASE CommitPass(w)
    <3>1. rows' \subseteq Notifications /\ escalated' \subseteq Findings
      BY <2>2 DEF CommitPass, TypeOK, Passes
    <3>2. UniqueRows'
      BY <2>2 DEF CommitPass, TypeOK, UniqueRows, RowsApart, Mine, Same
    <3>3. covered' \subseteq Findings
      BY <2>2 DEF CommitPass, CoveredBy, TypeOK
    <3>4. pass' \in [Workers -> Passes] /\ \A v \in Workers : pass'[v].began <= now'
      BY <2>2, EndsStep, BeganStep DEF CommitPass
    <3>. QED
      BY <2>2, <3>1, <3>2, <3>3, <3>4 DEF CommitPass, TypeOK
  <2>3. CASE RollbackPass(w)
    <3>1. troubled' \subseteq Findings \X Points
      BY <2>3 DEF RollbackPass, TypeOK, SentRows, Passes, Notifications
    <3>2. pass' \in [Workers -> Passes] /\ \A v \in Workers : pass'[v].began <= now'
      BY <2>3, EndsStep, BeganStep DEF RollbackPass
    <3>. QED
      BY <2>3, <3>1, <3>2 DEF RollbackPass, TypeOK, UniqueRows
  <2>4. CASE Flags(w)
    BY <2>4 DEF Flags, Works, TypeOK, UniqueRows
  <2>5. ASSUME NEW f \in Findings, Fails(w, f) PROVE TypeOK'
    BY <2>5 DEF Fails, Works, TypeOK, UniqueRows
  <2>6. ASSUME NEW f \in Findings, NEW n \in Notifications, Records(w, f, n) PROVE TypeOK'
    BY <2>6 DEF Records, Works, TypeOK, UniqueRows
  <2>7. ASSUME NEW p \in Points, Queries(w, p) PROVE TypeOK'
    BY <2>7 DEF Queries, Works, TypeOK, UniqueRows
  <2>. QED
    BY <1>4, <2>1, <2>2, <2>3, <2>4, <2>5, <2>6, <2>7, KindsOfStep
<1>. QED
  BY <1>1, <1>2, <1>3, <1>4 DEF Next

LEMMA ShapeStep == TInv /\ [Next]_vars => PassShape'
<1>. SUFFICES ASSUME TInv, [Next]_vars PROVE PassShape'
  OBVIOUS
<1>. USE DEF TInv
<1>1. CASE UNCHANGED vars
  BY <1>1 DEF vars, PassShape, Mine, Active
<1>2. CASE Tick
  BY <1>2 DEF Tick, TypeOK, PassShape, Mine, Active, Times
<1>3. ASSUME NEW f \in Findings, FindingStep(f) PROVE PassShape'
  BY <1>3 DEF FindingStep, OpenFinding, ResolveFinding, AcknowledgeFinding, PassShape, Mine, Active
<1>4. ASSUME NEW w \in Workers, PassStep(w) PROVE PassShape'
  <2>1. CASE BeginPass(w)
    <3>1. now' = now /\ now \in Nat
      BY <2>1, CadenceAssumption DEF BeginPass, TypeOK, Times
    <3>2. ASSUME NEW v \in Workers \ {w}
          PROVE  /\ pass'[v].stage = "idle" => pass'[v] = NoPass
                 /\ pass'[v].stage \in {"idle", "flag"} => pass'[v].todo = {} /\ pass'[v].added = {}
                 /\ pass'[v].chase \subseteq pass'[v].todo
                 /\ Active(v)' => now' <= pass'[v].began + 1
                 /\ \A n \in Mine(v)' : n.point = "day_0" => n.at = pass'[v].began
      BY <2>1, <3>1, <3>2, BeginsStep DEF PassShape, Mine, Active
    <3>3. /\ pass'[w].stage = "day_0" /\ pass'[w].chase \subseteq pass'[w].todo
          /\ now' <= pass'[w].began + 1 /\ Mine(w)' = {}
      BY <2>1, <3>1, BeginsStep DEF Mine
    <3>. QED
      BY <3>2, <3>3 DEF PassShape
  <2>2. CASE CommitPass(w) \/ RollbackPass(w)
    BY <2>2, EndsStep DEF CommitPass, RollbackPass, PassShape, Mine, Active, NoPass
  <2>3. CASE Flags(w)
    BY <2>3 DEF Flags, Works, Points, PassShape, Mine, Active
  <2>4. ASSUME NEW f \in Findings, Fails(w, f) PROVE PassShape'
    BY <2>4 DEF Fails, Works, Points, PassShape, Mine, Active
  <2>5. ASSUME NEW f \in Findings, NEW n \in Notifications, Records(w, f, n) PROVE PassShape'
    BY <2>5 DEF Records, Works, Points, PassShape, Mine, Active
  <2>6. ASSUME NEW p \in Points, Queries(w, p) PROVE PassShape'
    BY <2>6 DEF Queries, Works, Points, PassShape, Mine, Active
  <2>. QED
    BY <1>4, <2>1, <2>2, <2>3, <2>4, <2>5, <2>6, KindsOfStep
<1>. QED
  BY <1>1, <1>2, <1>3, <1>4 DEF Next

\* What may be flushed is apart from what others wrote.
LEMMA FlushIsApart ==
    ASSUME TInv, NEW w \in Workers, Works(w)
    PROVE  \A n \in pass'[w].flushed :
              /\ \A m \in rows : ~Same(m, n)
              /\ \A v \in Workers \ {w} : \A m \in pass[v].flushed : ~Same(m, n)
<1>1. \A n \in pass[w].flushed :
         /\ \A m \in rows : ~Same(m, n)
         /\ \A v \in Workers \ {w} : \A m \in pass[v].flushed : ~Same(m, n)
  BY DEF TInv, RowsApart
<1>2. MayFlush(w) =>
         \A n \in pass[w].added :
            /\ \A m \in rows : ~Same(m, n)
            /\ \A v \in Workers \ {w} : \A m \in pass[v].flushed : ~Same(m, n)
  BY DEF MayFlush, Has, Same
<1>. QED
  BY <1>1, <1>2 DEF Works, Mine

\* So a step of work keeps the rows apart if it does within the pass itself.
LEMMA WorkKeepsApart ==
    ASSUME TInv, NEW w \in Workers, Works(w),
           \A n \in Mine(w)' : n.finding \in pass'[w].todo => n.point # pass'[w].stage,
           \A m, n \in Mine(w)' : Same(m, n) => m = n
    PROVE  RowsApart'
<1>1. \A v \in Workers \ {w} : pass'[v] = pass[v] /\ Mine(v)' = Mine(v)
  BY DEF Works, Mine
<1>2. rows' = rows
  BY DEF Works
<1>3. ASSUME NEW v \in Workers
      PROVE  /\ \A n \in Mine(v)' : n.finding \in pass'[v].todo => n.point # pass'[v].stage
             /\ \A m, n \in Mine(v)' : Same(m, n) => m = n
             /\ \A n \in pass'[v].flushed : \A m \in rows' : ~Same(m, n)
  BY <1>1, <1>2, <1>3, FlushIsApart DEF TInv, RowsApart
<1>4. ASSUME NEW u \in Workers, NEW v \in Workers, u # v
      PROVE  \A m \in pass'[u].flushed, n \in pass'[v].flushed : ~Same(m, n)
  <2>1. CASE u = w
    BY <1>1, <1>4, <2>1, FlushIsApart DEF Same
  <2>2. CASE v = w
    BY <1>1, <1>4, <2>2, FlushIsApart
  <2>3. CASE u # w /\ v # w
    BY <1>1, <1>4, <2>3 DEF TInv, RowsApart
  <2>. QED
    BY <2>1, <2>2, <2>3
<1>. QED
  BY <1>3, <1>4 DEF RowsApart

LEMMA ApartStep == TInv /\ [Next]_vars => RowsApart'
<1>. SUFFICES ASSUME TInv, [Next]_vars PROVE RowsApart'
  OBVIOUS
<1>1. CASE UNCHANGED vars
  BY <1>1 DEF vars, TInv, RowsApart, Mine
<1>2. CASE Tick \/ \E f \in Findings : FindingStep(f)
  BY <1>2 DEF Tick, FindingStep, OpenFinding, ResolveFinding, AcknowledgeFinding,
              TInv, RowsApart, Mine
<1>3. ASSUME NEW w \in Workers, PassStep(w) PROVE RowsApart'
  <2>1. CASE BeginPass(w)
    <3>1. rows' = rows /\ Mine(w)' = {} /\ pass'[w].flushed = {}
          /\ \A v \in Workers \ {w} : pass'[v] = pass[v] /\ Mine(v)' = Mine(v)
      BY <2>1, BeginsStep DEF TInv, BeginPass, Mine
    <3>. QED
      BY <3>1 DEF TInv, RowsApart
  <2>2. CASE RollbackPass(w)
    <3>1. rows' = rows /\ Mine(w)' = {} /\ pass'[w].flushed = {}
          /\ \A v \in Workers \ {w} : pass'[v] = pass[v] /\ Mine(v)' = Mine(v)
      BY <2>2, EndsStep DEF TInv, RollbackPass, Mine, NoPass
    <3>. QED
      BY <3>1 DEF TInv, RowsApart
  <2>3. CASE CommitPass(w)
    <3>1. rows' = rows \cup pass[w].flushed /\ Mine(w)' = {} /\ pass'[w].flushed = {}
          /\ \A v \in Workers \ {w} : pass'[v] = pass[v] /\ Mine(v)' = Mine(v)
      BY <2>3, EndsStep DEF TInv, CommitPass, Mine, NoPass
    <3>. QED
      BY <3>1 DEF TInv, RowsApart
  <2>4. CASE Flags(w)
    <3>1. Mine(w)' = Mine(w) /\ pass'[w].todo = {} /\ Works(w)
      BY <2>4 DEF Flags, Mine
    <3>. QED
      BY <3>1, WorkKeepsApart DEF TInv, RowsApart
  <2>5. ASSUME NEW f \in Findings, Fails(w, f) PROVE RowsApart'
    <3>1. Mine(w)' = Mine(w) /\ pass'[w].todo \subseteq pass[w].todo
          /\ pass'[w].stage = pass[w].stage /\ Works(w)
      BY <2>5 DEF Fails, Mine
    <3>. QED
      BY <3>1, WorkKeepsApart DEF TInv, RowsApart
  <2>6. ASSUME NEW f \in Findings, NEW n \in Notifications, Records(w, f, n) PROVE RowsApart'
    <3>1. /\ Mine(w)' = Mine(w) \cup {n} /\ n.finding = f /\ n.point = pass[w].stage
          /\ f \in pass[w].todo /\ pass'[w].todo = pass[w].todo \ {f}
          /\ pass'[w].stage = pass[w].stage /\ Works(w)
      BY <2>6 DEF Records, Mine
    <3>2. \A m \in Mine(w) : ~Same(m, n)
      BY <3>1 DEF TInv, RowsApart, Same
    <3>3. \A l, m \in Mine(w)' : Same(l, m) => l = m
      BY <3>1, <3>2 DEF TInv, RowsApart, Same
    <3>. QED
      BY <3>1, <3>3, WorkKeepsApart DEF TInv, RowsApart
  <2>7. ASSUME NEW p \in Points, Queries(w, p) PROVE RowsApart'
    <3>1. /\ Mine(w)' = Mine(w) /\ pass'[w].todo = DueReminders(w, p)
          /\ pass'[w].stage = p /\ Works(w)
      BY <2>7 DEF Queries, Mine
    <3>2. \A n \in Mine(w) : n.finding \in DueReminders(w, p) => n.point # p
      BY DEF DueReminders, Has, View, Mine
    <3>. QED
      BY <3>1, <3>2, WorkKeepsApart DEF TInv, RowsApart
  <2>. QED
    BY <1>3, <2>1, <2>2, <2>3, <2>4, <2>5, <2>6, <2>7, KindsOfStep DEF TInv
<1>. QED
  BY <1>1, <1>2, <1>3 DEF Next

LEMMA TInvStep == TInv /\ [Next]_vars => TInv'
BY TypeStep, ShapeStep, ApartStep DEF TInv

LEMMA TInvAlways == Spec => []TInv
BY TInvInit, TInvStep, PTL DEF Spec

\* Every variable keeps its type, and there is never a second row for a finding and
\* a cadence point, however many passes overlap.
THEOREM TypeCorrect == Spec => []TypeOK
BY TInvAlways, PTL DEF TInv

(***************************************************************************)
(* What a commit and a rollback do, and steps outside the passes.          *)
(***************************************************************************)
LEMMA CommitFields ==
    ASSUME TInv, NEW w \in Workers, CommitPass(w)
    PROVE  /\ pass[w].stage = "flag" /\ pass[w].added = {} /\ Mine(w) = pass[w].flushed
           /\ \A v \in Workers \ {w} : pass'[v] = pass[v]
           /\ pass'[w] = NoPass
           /\ rows' = rows \cup pass[w].flushed
           /\ escalated' = escalated \cup pass[w].flagged
           /\ covered' = covered \cup CoveredBy(w)
           /\ UNCHANGED <<now, status, openedAt, acknowledged, emailed, troubled>>
BY EndsStep DEF CommitPass, TInv, PassShape, Mine

LEMMA RollbackFields ==
    ASSUME TInv, NEW w \in Workers, RollbackPass(w)
    PROVE  /\ \A v \in Workers \ {w} : pass'[v] = pass[v]
           /\ pass'[w] = NoPass
           /\ troubled' = troubled \cup {<<n.finding, n.point>> : n \in SentRows(w)}
           /\ UNCHANGED <<now, status, openedAt, acknowledged, escalated, rows, emailed, covered>>
BY EndsStep DEF RollbackPass, TInv

(***************************************************************************)
(* Escalation.  What has a row, a pass or a cover has opened, so it never  *)
(* becomes open again; and a pass flags in its last step whatever it wrote *)
(* a day-4 row for.                                                        *)
(***************************************************************************)
Opened ==
    /\ \A n \in rows : status[n.finding] # "none"
    /\ \A w \in Workers :
          /\ \A n \in Mine(w) : status[n.finding] # "none"
          /\ \A f \in pass[w].todo : status[f] # "none"
    /\ \A f \in covered : status[f] # "none"

FlaggedByPass ==
    \A w \in Workers : pass[w].stage = "flag" =>
        /\ \A f \in pass[w].flagged : Has(rows \cup pass[w].flushed, f, "day_4")
        /\ \A f \in Findings : Has(pass[w].flushed, f, "day_4") /\ status[f] = "open" =>
              f \in pass[w].flagged \/ f \in escalated

EInv == Opened /\ FlaggedByPass /\ EscalatedWithItsDay4Row

LEMMA EInvInit == Init => EInv
BY DEF Init, EInv, Opened, FlaggedByPass, EscalatedWithItsDay4Row, NoPass, Mine, Has

LEMMA OpenedStep == TInv /\ Opened /\ [Next]_vars => Opened'
<1>. SUFFICES ASSUME TInv, Opened, [Next]_vars PROVE Opened'
  OBVIOUS
<1>1. CASE UNCHANGED vars
  BY <1>1 DEF vars, Opened, Mine
<1>2. CASE Tick
  BY <1>2 DEF Tick, Opened, Mine
<1>3. ASSUME NEW f \in Findings, FindingStep(f) PROVE Opened'
  <2>1. \A g \in Findings : status[g] # "none" => status'[g] # "none"
    BY <1>3 DEF FindingStep, OpenFinding, ResolveFinding, AcknowledgeFinding, TInv, TypeOK
  <2>2. rows' = rows /\ pass' = pass /\ covered' = covered
    BY <1>3 DEF FindingStep, OpenFinding, ResolveFinding, AcknowledgeFinding
  <2>3. \A n \in rows : n.finding \in Findings
    BY DEF TInv, TypeOK, Notifications
  <2>4. \A w \in Workers : (\A n \in Mine(w) : n.finding \in Findings) /\ pass[w].todo \subseteq Findings
    BY DEF TInv, TypeOK, Passes, Notifications, Mine
  <2>5. covered \subseteq Findings
    BY DEF TInv, TypeOK
  <2>. QED
    BY <2>1, <2>2, <2>3, <2>4, <2>5 DEF Opened, Mine
<1>4. ASSUME NEW w \in Workers, PassStep(w) PROVE Opened'
  <2>0. ASSUME Works(w), \A n \in Mine(w)' : status[n.finding] # "none",
               \A f \in pass'[w].todo : status[f] # "none"
        PROVE  Opened'
    BY <2>0 DEF Works, Opened, Mine
  <2>1. CASE BeginPass(w)
    <3>1. /\ \A v \in Workers \ {w} : pass'[v] = pass[v] /\ Mine(v)' = Mine(v)
          /\ Mine(w)' = {} /\ pass'[w].todo = DueDay0
          /\ rows' = rows /\ covered' = covered /\ status' = status
      BY <2>1, BeginsStep DEF TInv, BeginPass, Mine
    <3>. QED
      BY <3>1 DEF Opened, DueDay0
  <2>2. CASE CommitPass(w)
    <3>1. pass'[w].todo = {} /\ Mine(w)' = {}
      BY <2>2, CommitFields DEF NoPass, Mine
    <3>. QED
      BY <2>2, <3>1, CommitFields DEF Opened, Mine, CoveredBy
  <2>3. CASE RollbackPass(w)
    <3>1. pass'[w].todo = {} /\ Mine(w)' = {}
      BY <2>3, RollbackFields DEF NoPass, Mine
    <3>. QED
      BY <2>3, <3>1, RollbackFields DEF Opened, Mine
  <2>4. CASE Flags(w)
    BY <2>0, <2>4 DEF Flags, Opened, Mine
  <2>5. ASSUME NEW f \in Findings, Fails(w, f) PROVE Opened'
    BY <2>0, <2>5 DEF Fails, Opened, Mine
  <2>6. ASSUME NEW f \in Findings, NEW n \in Notifications, Records(w, f, n) PROVE Opened'
    BY <2>0, <2>6 DEF Records, Opened, Mine
  <2>7. ASSUME NEW p \in Points, Queries(w, p) PROVE Opened'
    <3>1. Mine(w)' = Mine(w) /\ pass'[w].todo = DueReminders(w, p) /\ Works(w)
      BY <2>7 DEF Queries, Mine
    <3>2. \A f \in DueReminders(w, p) : status[f] # "none"
      BY DEF DueReminders, View, Opened, Mine
    <3>. QED
      BY <2>0, <3>1, <3>2 DEF Opened
  <2>. QED
    BY <1>4, <2>1, <2>2, <2>3, <2>4, <2>5, <2>6, <2>7, KindsOfStep DEF TInv
<1>. QED
  BY <1>1, <1>2, <1>3, <1>4 DEF Next

LEMMA EscalationStep == TInv /\ EInv /\ [Next]_vars => FlaggedByPass' /\ EscalatedWithItsDay4Row'
<1>. SUFFICES ASSUME TInv, EInv, [Next]_vars PROVE FlaggedByPass' /\ EscalatedWithItsDay4Row'
  OBVIOUS
<1>. USE DEF EInv
<1>1. CASE UNCHANGED vars
  BY <1>1 DEF vars, FlaggedByPass, EscalatedWithItsDay4Row, Has
<1>2. CASE Tick
  BY <1>2 DEF Tick, FlaggedByPass, EscalatedWithItsDay4Row, Has
<1>3. ASSUME NEW f \in Findings, FindingStep(f) PROVE FlaggedByPass' /\ EscalatedWithItsDay4Row'
  <2>1. rows' = rows /\ pass' = pass /\ escalated' = escalated
    BY <1>3 DEF FindingStep, OpenFinding, ResolveFinding, AcknowledgeFinding
  <2>2. \A g \in Findings : status'[g] = "open" => status[g] \in {"none", "open"}
    BY <1>3 DEF FindingStep, OpenFinding, ResolveFinding, AcknowledgeFinding, TInv, TypeOK
  <2>3. \A g \in Findings : Has(rows, g, "day_4") => status[g] # "none"
    BY DEF Opened, Has
  <2>4. \A w \in Workers, g \in Findings : Has(pass[w].flushed, g, "day_4") => status[g] # "none"
    BY DEF Opened, Has, Mine
  <2>. QED
    BY <2>1, <2>2, <2>3, <2>4 DEF FlaggedByPass, EscalatedWithItsDay4Row, Has
<1>4. ASSUME NEW w \in Workers, PassStep(w) PROVE FlaggedByPass' /\ EscalatedWithItsDay4Row'
  <2>0. ASSUME rows' = rows, escalated' = escalated, status' = status,
               \A v \in Workers \ {w} : pass'[v] = pass[v], pass'[w].stage # "flag"
        PROVE  FlaggedByPass' /\ EscalatedWithItsDay4Row'
    BY <2>0 DEF FlaggedByPass, EscalatedWithItsDay4Row, Has
  <2>1. CASE BeginPass(w)
    BY <2>0, <2>1, BeginsStep DEF TInv, BeginPass
  <2>2. CASE RollbackPass(w)
    BY <2>0, <2>2, RollbackFields DEF NoPass
  <2>3. CASE CommitPass(w)
    <3>1. EscalatedWithItsDay4Row'
      <4>1. \A f \in pass[w].flagged : Has(rows', f, "day_4")
        BY <2>3, CommitFields DEF FlaggedByPass
      <4>2. \A f \in Findings : Has(rows', f, "day_4") <=>
                Has(rows, f, "day_4") \/ Has(pass[w].flushed, f, "day_4")
        BY <2>3, CommitFields DEF Has
      <4>3. \A f \in Findings : Has(pass[w].flushed, f, "day_4") /\ status[f] = "open" =>
                f \in escalated'
        BY <2>3, CommitFields DEF FlaggedByPass
      <4>. QED
        BY <2>3, <4>1, <4>2, <4>3, CommitFields DEF EscalatedWithItsDay4Row
    <3>2. pass'[w].stage # "flag"
      BY <2>3, CommitFields DEF NoPass
    <3>3. ASSUME NEW v \in Workers, pass'[v].stage = "flag"
          PROVE  /\ \A f \in pass'[v].flagged : Has(rows' \cup pass'[v].flushed, f, "day_4")
                 /\ \A f \in Findings : Has(pass'[v].flushed, f, "day_4") /\ status'[f] = "open" =>
                       f \in pass'[v].flagged \/ f \in escalated'
      <4>1. pass'[v] = pass[v] /\ rows \subseteq rows' /\ escalated \subseteq escalated'
            /\ status' = status
        BY <2>3, <3>2, <3>3, CommitFields
      <4>. QED
        BY <3>3, <4>1 DEF FlaggedByPass, Has
    <3>. QED
      BY <3>1, <3>3 DEF FlaggedByPass
  <2>4. CASE Flags(w)
    <3>1. /\ Mine(w) = pass'[w].flushed /\ pass'[w].flagged = Stale(w)
          /\ rows' = rows /\ escalated' = escalated /\ status' = status
          /\ \A v \in Workers \ {w} : pass'[v] = pass[v]
      BY <2>4 DEF Flags, Works
    <3>2. View(w) = rows \cup pass'[w].flushed
      BY <3>1 DEF View, Mine
    <3>3. \A f \in pass'[w].flagged : Has(rows \cup pass'[w].flushed, f, "day_4")
      BY <3>1, <3>2 DEF Stale
    <3>4. \A f \in Findings : Has(pass'[w].flushed, f, "day_4") /\ status[f] = "open" =>
              f \in pass'[w].flagged \/ f \in escalated
      BY <3>1, <3>2 DEF Stale, Has
    <3>. QED
      BY <3>1, <3>3, <3>4 DEF FlaggedByPass, EscalatedWithItsDay4Row, Has
  <2>5. ASSUME NEW f \in Findings, Fails(w, f) PROVE FlaggedByPass' /\ EscalatedWithItsDay4Row'
    BY <2>0, <2>5 DEF Fails, Works, Points
  <2>6. ASSUME NEW f \in Findings, NEW n \in Notifications, Records(w, f, n)
        PROVE  FlaggedByPass' /\ EscalatedWithItsDay4Row'
    BY <2>0, <2>6 DEF Records, Works, Points
  <2>7. ASSUME NEW p \in Points, Queries(w, p) PROVE FlaggedByPass' /\ EscalatedWithItsDay4Row'
    BY <2>0, <2>7 DEF Queries, Works, Points
  <2>. QED
    BY <1>4, <2>1, <2>2, <2>3, <2>4, <2>5, <2>6, <2>7, KindsOfStep DEF TInv
<1>. QED
  BY <1>1, <1>2, <1>3, <1>4 DEF Next

\* A finding is escalated from the moment its day-4 row is visible, unless it is no
\* longer open, and nothing else ever is.
THEOREM EscalationCorrect == Spec => []EscalatedWithItsDay4Row
<1>1. TInv /\ EInv /\ [Next]_vars => (TInv /\ EInv)'
  BY TInvStep, OpenedStep, EscalationStep DEF EInv
<1>2. Init => TInv /\ EInv
  BY TInvInit, EInvInit
<1>. QED
  BY <1>1, <1>2, PTL DEF Spec, EInv

(***************************************************************************)
(* Reminders.  Nothing undoes a resolution or an acknowledgement, so what  *)
(* a pass could know at its first reminder query still holds at the second *)
(* and at every email.                                                     *)
(***************************************************************************)
QuietInv ==
    \A w \in Workers :
        /\ pass[w].quiet \subseteq DealtWith
        /\ pass[w].chase \cap pass[w].quiet = {}

LEMMA DealtWithStep == TInv /\ [Next]_vars => DealtWith \subseteq DealtWith'
<1>. SUFFICES ASSUME TInv, [Next]_vars PROVE DealtWith \subseteq DealtWith'
  OBVIOUS
<1>1. CASE UNCHANGED vars \/ Tick
  BY <1>1 DEF vars, Tick, DealtWith
<1>2. ASSUME NEW f \in Findings, FindingStep(f) PROVE DealtWith \subseteq DealtWith'
  BY <1>2 DEF FindingStep, OpenFinding, ResolveFinding, AcknowledgeFinding, DealtWith, TInv, TypeOK
<1>3. ASSUME NEW w \in Workers, PassStep(w) PROVE DealtWith \subseteq DealtWith'
  <2>1. status' = status /\ acknowledged' = acknowledged
    BY <1>3, KindsOfStep
       DEF TInv, BeginPass, CommitPass, RollbackPass, Flags, Fails, Records, Queries, Works
  <2>. QED
    BY <2>1 DEF DealtWith
<1>. QED
  BY <1>1, <1>2, <1>3 DEF Next

LEMMA QuietStep == TInv /\ QuietInv /\ [Next]_vars => QuietInv'
<1>. SUFFICES ASSUME TInv, QuietInv, [Next]_vars PROVE QuietInv'
  OBVIOUS
<1>0. DealtWith \subseteq DealtWith'
  BY DealtWithStep
<1>1. CASE UNCHANGED vars \/ Tick \/ \E f \in Findings : FindingStep(f)
  <2>1. pass' = pass
    BY <1>1 DEF vars, Tick, FindingStep, OpenFinding, ResolveFinding, AcknowledgeFinding
  <2>. QED
    BY <1>0, <2>1 DEF QuietInv
<1>2. ASSUME NEW w \in Workers, PassStep(w) PROVE QuietInv'
  <2>0. ASSUME \A v \in Workers \ {w} : pass'[v] = pass[v],
               pass'[w].quiet \subseteq DealtWith,
               pass'[w].chase \cap pass'[w].quiet = {}
        PROVE  QuietInv'
    BY <1>0, <2>0 DEF QuietInv
  <2>1. CASE BeginPass(w)
    BY <2>0, <2>1, BeginsStep DEF TInv
  <2>2. CASE CommitPass(w) \/ RollbackPass(w)
    BY <2>0, <2>2, EndsStep DEF TInv, NoPass
  <2>3. CASE Flags(w)
    BY <2>0, <2>3 DEF Flags, Works, QuietInv
  <2>4. ASSUME NEW f \in Findings, Fails(w, f) PROVE QuietInv'
    BY <2>0, <2>4 DEF Fails, Works, QuietInv
  <2>5. ASSUME NEW f \in Findings, NEW n \in Notifications, Records(w, f, n) PROVE QuietInv'
    BY <2>0, <2>5 DEF Records, Works, QuietInv
  <2>6. ASSUME NEW p \in Points, Queries(w, p) PROVE QuietInv'
    <3>1. pass'[w].quiet \in {pass[w].quiet, DealtWith} /\ \A f \in pass'[w].chase : NeedsChasing(f)
      BY <2>6 DEF Queries, Works
    <3>2. \A f \in DealtWith : ~NeedsChasing(f)
      BY DEF DealtWith, NeedsChasing
    <3>. QED
      BY <2>0, <2>6, <3>1, <3>2 DEF Queries, Works, QuietInv
  <2>. QED
    BY <1>2, <2>1, <2>2, <2>3, <2>4, <2>5, <2>6, KindsOfStep DEF TInv
<1>. QED
  BY <1>1, <1>2 DEF Next

\* A pass sends no reminder about a finding that was resolved or acknowledged before it
\* asked for its first reminders; one acknowledged later may still get them.
THEOREM ReminderCorrect == Spec => NoReminderIfDealtWithBefore
<1>1. QuietInv =>
        \A w \in Workers : \A f \in pass[w].quiet : ~Send(w, f) /\ ~SendFails(w, f, TRUE)
  BY DEF QuietInv, Send, SendFails, MayAttempt
<1>2. Init => QuietInv
  BY DEF Init, QuietInv, NoPass
<1>. QED
  BY <1>1, <1>2, TInvInit, TInvStep, QuietStep, PTL DEF Spec, NoReminderIfDealtWithBefore

(***************************************************************************)
(* The lookback.  A pass that began within the lookback of a finding still *)
(* has it to do, has recorded it, or failed to send the email.             *)
(***************************************************************************)
Within(w, f) ==
    /\ status[f] = "open"
    /\ openedAt[f] < pass[w].began /\ pass[w].began <= openedAt[f] + Lookback

Attempted(w, f, p) ==
    \/ Has(rows, f, p) \/ Has(Mine(w), f, p)
    \/ <<f, p>> \in troubled

LookbackByPass ==
    \A w \in Workers, f \in Findings :
        Active(w) /\ Within(w, f) =>
            Attempted(w, f, "day_0") \/ (pass[w].stage = "day_0" /\ f \in pass[w].todo)

LInv == LookbackByPass /\ OnePassOfTheLookbackIsEnough

LEMMA TroubledGrows == TInv /\ [Next]_vars => troubled \subseteq troubled' /\ rows \subseteq rows'
<1>. SUFFICES ASSUME TInv, [Next]_vars PROVE troubled \subseteq troubled' /\ rows \subseteq rows'
  OBVIOUS
<1>1. CASE UNCHANGED vars \/ Tick \/ \E f \in Findings : FindingStep(f)
  BY <1>1 DEF vars, Tick, FindingStep, OpenFinding, ResolveFinding, AcknowledgeFinding
<1>2. ASSUME NEW w \in Workers, PassStep(w) PROVE troubled \subseteq troubled' /\ rows \subseteq rows'
  BY <1>2, KindsOfStep
     DEF TInv, BeginPass, CommitPass, RollbackPass, Flags, Fails, Records, Queries, Works
<1>. QED
  BY <1>1, <1>2 DEF Next

LEMMA LookbackStep == TInv /\ Opened /\ LInv /\ [Next]_vars => LInv'
<1>. SUFFICES ASSUME TInv, Opened, LInv, [Next]_vars PROVE LInv'
  OBVIOUS
<1>0. troubled \subseteq troubled' /\ rows \subseteq rows'
  BY TroubledGrows
<1>T. \A f \in Findings : openedAt[f] \in Nat
  BY CadenceAssumption DEF TInv, TypeOK, Times
<1>. USE DEF LInv
<1>1. CASE UNCHANGED vars \/ Tick
  BY <1>1 DEF vars, Tick, LookbackByPass, OnePassOfTheLookbackIsEnough, Within, Attempted, Has,
              Mine, Active
<1>2. ASSUME NEW f \in Findings, FindingStep(f) PROVE LInv'
  <2>1. /\ rows' = rows /\ pass' = pass /\ covered' = covered /\ troubled' = troubled
    BY <1>2 DEF FindingStep, OpenFinding, ResolveFinding, AcknowledgeFinding
  <2>2. \A g \in Findings : status'[g] = "open" =>
            \/ status[g] = "open" /\ openedAt'[g] = openedAt[g]
            \/ status[g] = "none" /\ openedAt'[g] = now
    BY <1>2 DEF FindingStep, OpenFinding, ResolveFinding, AcknowledgeFinding, TInv, TypeOK
  <2>3. \A w \in Workers : pass[w].began <= now /\ pass[w].began \in Nat /\ now \in Nat
    BY CadenceAssumption DEF TInv, TypeOK, Passes, Times
  <2>4. OnePassOfTheLookbackIsEnough'
    BY <2>1, <2>2 DEF OnePassOfTheLookbackIsEnough, Opened, TInv, TypeOK, Has
  <2>5. ASSUME NEW w \in Workers, NEW g \in Findings, Active(w)', Within(w, g)'
        PROVE  Attempted(w, g, "day_0")' \/ (pass'[w].stage = "day_0" /\ g \in pass'[w].todo)
    <3>1. Within(w, g)
      BY <2>1, <2>2, <2>3, <2>5 DEF Within
    <3>. QED
      BY <2>1, <2>5, <3>1 DEF LookbackByPass, Attempted, Has, Mine, Active
  <2>. QED
    BY <2>4, <2>5 DEF LookbackByPass
<1>3. ASSUME NEW w \in Workers, PassStep(w) PROVE LInv'
  <2>0. status' = status /\ openedAt' = openedAt
    BY <1>3, KindsOfStep
       DEF TInv, BeginPass, CommitPass, RollbackPass, Flags, Fails, Records, Queries, Works
  <2>1. ASSUME NEW v \in Workers, NEW f \in Findings, pass'[v] = pass[v], Active(v)', Within(v, f)'
        PROVE  Attempted(v, f, "day_0")' \/ (pass'[v].stage = "day_0" /\ f \in pass'[v].todo)
    <3>1. Active(v) /\ Within(v, f) /\ Mine(v)' = Mine(v)
      BY <2>0, <2>1 DEF Active, Within, Mine
    <3>. QED
      BY <1>0, <2>1, <3>1 DEF LookbackByPass, Attempted, Has
  <2>2. ASSUME Works(w), Mine(w) \subseteq Mine(w)', covered' = covered,
               \A f \in Findings : pass[w].stage = "day_0" /\ f \in pass[w].todo =>
                  \/ Attempted(w, f, "day_0")'
                  \/ pass'[w].stage = "day_0" /\ f \in pass'[w].todo
        PROVE  LInv'
    <3>1. OnePassOfTheLookbackIsEnough'
      BY <1>0, <2>0, <2>2 DEF OnePassOfTheLookbackIsEnough, Has
    <3>2. ASSUME NEW f \in Findings, Active(w)', Within(w, f)'
          PROVE  Attempted(w, f, "day_0")' \/ (pass'[w].stage = "day_0" /\ f \in pass'[w].todo)
      <4>1. Active(w) /\ Within(w, f)
        BY <2>0, <2>2, <3>2 DEF Works, Active, Within, Points
      <4>2. Attempted(w, f, "day_0") => Attempted(w, f, "day_0")'
        BY <1>0, <2>2 DEF Attempted, Has
      <4>. QED
        BY <2>2, <4>1, <4>2 DEF LookbackByPass
    <3>. QED
      BY <2>1, <2>2, <3>1, <3>2 DEF LookbackByPass, Works
  <2>3. CASE BeginPass(w)
    <3>1. covered' = covered /\ rows' = rows
      BY <2>3 DEF BeginPass
    <3>2. OnePassOfTheLookbackIsEnough'
      BY <1>0, <2>0, <3>1 DEF OnePassOfTheLookbackIsEnough, Has
    <3>3. ASSUME NEW f \in Findings, Within(w, f)'
          PROVE  Attempted(w, f, "day_0")' \/ (pass'[w].stage = "day_0" /\ f \in pass'[w].todo)
      BY <2>0, <2>3, <3>1, <3>3, BeginsStep DEF TInv, Within, DueDay0, Attempted
    <3>. QED
      BY <2>1, <2>3, <3>2, <3>3, BeginsStep DEF LookbackByPass, TInv
  <2>4. CASE RollbackPass(w)
    <3>1. OnePassOfTheLookbackIsEnough'
      BY <1>0, <2>0, <2>4, RollbackFields DEF OnePassOfTheLookbackIsEnough, Has
    <3>2. ~Active(w)'
      BY <2>4, RollbackFields DEF Active, NoPass
    <3>. QED
      BY <2>1, <2>4, <3>1, <3>2, RollbackFields DEF LookbackByPass
  <2>5. CASE CommitPass(w)
    <3>1. ~Active(w)' /\ Active(w) /\ pass[w].stage # "day_0" /\ Mine(w) = pass[w].flushed
      BY <2>5, CommitFields DEF Active, NoPass
    <3>2. \A f \in CoveredBy(w) : status[f] = "open" => Within(w, f)
      BY DEF CoveredBy, Within
    <3>3. \A f \in CoveredBy(w) : status[f] = "open" => Attempted(w, f, "day_0")
      BY <3>1, <3>2 DEF LookbackByPass, CoveredBy
    <3>4. OnePassOfTheLookbackIsEnough'
      BY <1>0, <2>0, <2>5, <3>1, <3>3, CommitFields
         DEF OnePassOfTheLookbackIsEnough, Attempted, Has
    <3>. QED
      BY <2>1, <2>5, <3>1, <3>4, CommitFields DEF LookbackByPass
  <2>6. CASE Flags(w)
    BY <2>2, <2>6 DEF Flags, Works, Mine
  <2>7. ASSUME NEW f \in Findings, Fails(w, f) PROVE LInv'
    <3>1. \A g \in Findings : pass[w].stage = "day_0" /\ g \in pass[w].todo =>
             Attempted(w, g, "day_0")' \/ (pass'[w].stage = "day_0" /\ g \in pass'[w].todo)
      BY <2>7 DEF Fails, Attempted
    <3>. QED
      BY <2>2, <2>7, <3>1 DEF Fails, Works, Mine
  <2>8. ASSUME NEW f \in Findings, NEW n \in Notifications, Records(w, f, n) PROVE LInv'
    <3>1. n \in Mine(w)' /\ n.finding = f /\ n.point = pass[w].stage
      BY <2>8 DEF Records, Mine
    <3>2. \A g \in Findings : pass[w].stage = "day_0" /\ g \in pass[w].todo =>
             Attempted(w, g, "day_0")' \/ (pass'[w].stage = "day_0" /\ g \in pass'[w].todo)
      BY <2>8, <3>1 DEF Records, Attempted, Has
    <3>. QED
      BY <2>2, <2>8, <3>2 DEF Records, Works, Mine
  <2>9. ASSUME NEW p \in Points, Queries(w, p) PROVE LInv'
    BY <2>2, <2>9 DEF Queries, Works, Mine
  <2>. QED
    BY <1>3, <2>3, <2>4, <2>5, <2>6, <2>7, <2>8, <2>9, KindsOfStep DEF TInv
<1>. QED
  BY <1>1, <1>2, <1>3 DEF Next

\* One committed pass within the lookback is enough for the day-0 row of a finding
\* that stays open, unless its email failed.
THEOREM LookbackCorrect == Spec => []OnePassOfTheLookbackIsEnough
<1>1. Init => LInv /\ Opened
  BY EInvInit DEF Init, EInv, LInv, LookbackByPass, OnePassOfTheLookbackIsEnough, Active, NoPass
<1>. QED
  BY <1>1, TInvInit, TInvStep, OpenedStep, LookbackStep, PTL DEF Spec, LInv

(***************************************************************************)
(* The history.  An email is sent before its row is recorded, and the row  *)
(* stays with its pass until that commits.                                 *)
(***************************************************************************)
SentIsEmailed(table) ==
    \A n \in table : n.outcome = "sent" => <<n.finding, n.point>> \in emailed

AInv ==
    /\ SentIsEmailed(rows)
    /\ \A w \in Workers : SentIsEmailed(Mine(w))
    /\ \A f \in Findings, p \in Points :
          <<f, p>> \in emailed /\ <<f, p>> \notin troubled =>
             InProgress(f, p) \/ \E n \in rows : n.finding = f /\ n.point = p /\ n.outcome = "sent"

LEMMA AuditFromRows == TypeOK /\ AInv => AuditTrailIsTrue
<1>. SUFFICES ASSUME TypeOK, AInv, NEW f \in Findings, NEW p \in Points,
                     <<f, p>> \notin troubled, ~InProgress(f, p)
              PROVE  <<f, p>> \in emailed <=> RecordedOutcomes(f, p) = {"sent"}
  BY DEF AuditTrailIsTrue
<1>1. ASSUME <<f, p>> \in emailed PROVE RecordedOutcomes(f, p) = {"sent"}
  <2>1. PICK n \in rows : n.finding = f /\ n.point = p /\ n.outcome = "sent"
    BY <1>1 DEF AInv
  <2>2. \A m \in rows : m.finding = f /\ m.point = p => m = n
    BY <2>1 DEF TypeOK, UniqueRows
  <2>. QED
    BY <2>1, <2>2 DEF RecordedOutcomes
<1>2. ASSUME RecordedOutcomes(f, p) = {"sent"} PROVE <<f, p>> \in emailed
  <2>1. PICK n \in rows : n.finding = f /\ n.point = p /\ n.outcome = "sent"
    BY <1>2 DEF RecordedOutcomes
  <2>. QED
    BY <2>1 DEF AInv, SentIsEmailed
<1>. QED
  BY <1>1, <1>2

LEMMA AuditStep == TInv /\ AInv /\ [Next]_vars => AInv'
<1>. SUFFICES ASSUME TInv, AInv, [Next]_vars PROVE AInv'
  OBVIOUS
<1>0. troubled \subseteq troubled' /\ rows \subseteq rows'
  BY TroubledGrows
<1>. DEFINE Covers(f, p) == InProgress(f, p)
               \/ \E n \in rows : n.finding = f /\ n.point = p /\ n.outcome = "sent"
<1>1. CASE UNCHANGED vars \/ Tick \/ \E f \in Findings : FindingStep(f)
  <2>1. UNCHANGED <<rows, pass, emailed, troubled>>
    BY <1>1 DEF vars, Tick, FindingStep, OpenFinding, ResolveFinding, AcknowledgeFinding
  <2>. QED
    BY <2>1 DEF AInv, SentIsEmailed, InProgress, SentRows, Has, Mine
<1>2. ASSUME NEW w \in Workers, PassStep(w) PROVE AInv'
  <2>0. ASSUME \A v \in Workers \ {w} : pass'[v] = pass[v], rows' = rows,
               emailed \subseteq emailed',
               \A n \in Mine(w)' \ Mine(w) : n.outcome = "sent" => <<n.finding, n.point>> \in emailed',
               \A f \in Findings, p \in Points : <<f, p>> \notin troubled' =>
                  /\ Has(SentRows(w), f, p) => Has(SentRows(w)', f, p)
                  /\ <<f, p>> \in emailed' \ emailed => Has(SentRows(w)', f, p)
        PROVE  AInv'
    <3>1. \A v \in Workers \ {w} : SentRows(v)' = SentRows(v) /\ Mine(v)' = Mine(v)
      BY <2>0 DEF SentRows, Mine
    <3>2. SentIsEmailed(rows)' /\ \A v \in Workers : SentIsEmailed(Mine(v))'
      BY <2>0, <3>1 DEF AInv, SentIsEmailed
    <3>3. ASSUME NEW f \in Findings, NEW p \in Points, <<f, p>> \in emailed', <<f, p>> \notin troubled'
          PROVE  Covers(f, p)'
      <4>1. CASE <<f, p>> \notin emailed
        BY <2>0, <3>3, <4>1 DEF InProgress
      <4>2. CASE <<f, p>> \in emailed
        <5>1. Covers(f, p)
          BY <1>0, <3>3, <4>2 DEF AInv
        <5>2. InProgress(f, p) => InProgress(f, p)'
          BY <2>0, <3>1, <3>3 DEF InProgress, Has
        <5>. QED
          BY <2>0, <5>1, <5>2
      <4>. QED
        BY <4>1, <4>2
    <3>. QED
      BY <3>2, <3>3 DEF AInv
  <2>1. CASE BeginPass(w)
    <3>1. pass[w] = NoPass /\ Mine(w)' = {} /\ rows' = rows /\ emailed' = emailed
      BY <2>1, BeginsStep DEF TInv, PassShape, BeginPass, Mine
    <3>2. SentRows(w) = {}
      BY <3>1 DEF SentRows, NoPass
    <3>. QED
      BY <2>0, <2>1, <3>1, <3>2, BeginsStep DEF TInv, Has
  <2>2. CASE RollbackPass(w)
    <3>1. Mine(w)' = {} /\ rows' = rows /\ emailed' = emailed
      BY <2>2, RollbackFields DEF Mine, NoPass
    <3>2. \A f \in Findings, p \in Points : Has(SentRows(w), f, p) => <<f, p>> \in troubled'
      BY <2>2, RollbackFields DEF Has
    <3>. QED
      BY <2>0, <2>2, <3>1, <3>2, RollbackFields
  <2>3. CASE CommitPass(w)
    <3>1. /\ Mine(w)' = {} /\ rows' = rows \cup Mine(w)
          /\ UNCHANGED <<emailed, troubled>>
          /\ \A v \in Workers \ {w} : SentRows(v)' = SentRows(v) /\ Mine(v)' = Mine(v)
      BY <2>3, CommitFields DEF Mine, NoPass, SentRows
    <3>2. SentIsEmailed(rows)' /\ \A v \in Workers : SentIsEmailed(Mine(v))'
      BY <3>1 DEF AInv, SentIsEmailed
    <3>3. ASSUME NEW f \in Findings, NEW p \in Points, <<f, p>> \in emailed', <<f, p>> \notin troubled'
          PROVE  Covers(f, p)'
      <4>1. Covers(f, p)
        BY <3>1, <3>3 DEF AInv
      <4>2. CASE \E v \in Workers \ {w} : Has(SentRows(v), f, p)
        BY <3>1, <4>2 DEF InProgress
      <4>3. CASE Has(SentRows(w), f, p)
        BY <3>1, <4>3 DEF Has, SentRows, Mine
      <4>. QED
        BY <3>1, <4>1, <4>2, <4>3 DEF InProgress
    <3>. QED
      BY <3>2, <3>3 DEF AInv
  <2>4. CASE Flags(w)
    BY <2>0, <2>4 DEF Flags, Works, Mine, SentRows
  <2>5. ASSUME NEW f \in Findings, Fails(w, f) PROVE AInv'
    BY <2>0, <2>5 DEF Fails, Works, Mine, SentRows
  <2>6. ASSUME NEW f \in Findings, NEW n \in Notifications, Records(w, f, n) PROVE AInv'
    <3>1. /\ Mine(w)' = Mine(w) \cup {n} /\ n.finding = f /\ rows' = rows
          /\ \A v \in Workers \ {w} : pass'[v] = pass[v]
          /\ emailed' = IF n.outcome = "sent" THEN emailed \cup {<<f, n.point>>} ELSE emailed
      BY <2>6 DEF Records, Works, Mine
    <3>2. SentRows(w)' = SentRows(w) \cup {m \in {n} : m.outcome = "sent"}
      BY <3>1 DEF SentRows, Mine
    <3>3. \A g \in Findings, p \in Points :
             /\ Has(SentRows(w), g, p) => Has(SentRows(w)', g, p)
             /\ <<g, p>> \in emailed' \ emailed => Has(SentRows(w)', g, p)
      BY <3>1, <3>2 DEF Has
    <3>4. emailed \subseteq emailed'
          /\ \A m \in Mine(w)' \ Mine(w) : m.outcome = "sent" => <<m.finding, m.point>> \in emailed'
      BY <3>1
    <3>. QED
      BY <2>0, <3>1, <3>3, <3>4
  <2>7. ASSUME NEW p \in Points, Queries(w, p) PROVE AInv'
    BY <2>0, <2>7 DEF Queries, Works, Mine, SentRows
  <2>. QED
    BY <1>2, <2>1, <2>2, <2>3, <2>4, <2>5, <2>6, <2>7, KindsOfStep DEF TInv
<1>. QED
  BY <1>1, <1>2 DEF Next

\* What is recorded as sent was accepted by the mail service, and the other way
\* round, once the passes that sent it are over and unless one of them failed.
THEOREM AuditCorrect == Spec => []AuditTrailIsTrue
<1>1. Init => AInv
  BY DEF Init, AInv, SentIsEmailed, Mine, NoPass
<1>2. TInv /\ AInv => AuditTrailIsTrue
  BY AuditFromRows DEF TInv
<1>. QED
  BY <1>1, <1>2, TInvInit, TInvStep, AuditStep, PTL DEF Spec

(***************************************************************************)
(* The cadence.  A day-0 row two days older than a pass was there when the *)
(* pass asked for the day-2 reminders: a row committed since then belongs  *)
(* to a pass that began at most a tick before this one.                    *)
(***************************************************************************)
CInv ==
    /\ CadenceInOrder
    /\ \A w \in Workers, f \in Findings :
          /\ Has(Mine(w), f, "day_4") => Attempted(w, f, "day_2")
          /\ pass[w].stage = "day_4" /\ f \in pass[w].todo => Attempted(w, f, "day_2")
          /\ pass[w].stage = "day_2" =>
                \A n \in rows \cup Mine(w) :
                   n.finding = f /\ n.point = "day_0" /\ n.at + 2 * Day <= pass[w].began =>
                      f \in pass[w].todo \/ Attempted(w, f, "day_2")

LEMMA CadenceStep == TInv /\ CInv /\ [Next]_vars => CInv'
<1>. SUFFICES ASSUME TInv, CInv, [Next]_vars PROVE CInv'
  OBVIOUS
<1>0. troubled \subseteq troubled' /\ rows \subseteq rows'
  BY TroubledGrows
<1>T. /\ now \in Nat /\ Day \in Nat \ {0}
       /\ \A w \in Workers : pass[w].began \in Nat /\ pass[w].began <= now
       /\ \A n \in Notifications : n.at \in Nat
  BY CadenceAssumption DEF TInv, TypeOK, Passes, Times, Notifications
<1>1. CASE UNCHANGED vars \/ Tick \/ \E f \in Findings : FindingStep(f)
  <2>1. UNCHANGED <<rows, pass, troubled>>
    BY <1>1 DEF vars, Tick, FindingStep, OpenFinding, ResolveFinding, AcknowledgeFinding
  <2>. QED
    BY <2>1 DEF CInv, CadenceInOrder, Attempted, Has, Mine
<1>2. ASSUME NEW w \in Workers, PassStep(w) PROVE CInv'
  <2>1. ASSUME NEW v \in Workers, NEW f \in Findings, pass'[v] = pass[v], rows' = rows
        PROVE  /\ Has(Mine(v)', f, "day_4") => Attempted(v, f, "day_2")'
               /\ pass'[v].stage = "day_4" /\ f \in pass'[v].todo => Attempted(v, f, "day_2")'
               /\ pass'[v].stage = "day_2" =>
                     \A n \in rows' \cup Mine(v)' :
                        n.finding = f /\ n.point = "day_0" /\ n.at + 2 * Day <= pass'[v].began =>
                           f \in pass'[v].todo \/ Attempted(v, f, "day_2")'
    <3>1. Mine(v)' = Mine(v)
      BY <2>1 DEF Mine
    <3>2. Attempted(v, f, "day_2") => Attempted(v, f, "day_2")'
      BY <1>0, <3>1 DEF Attempted, Has
    <3>. QED
      BY <2>1, <3>1, <3>2 DEF CInv
  <2>2. ASSUME \A v \in Workers \ {w} : pass'[v] = pass[v], rows' = rows,
               \A f \in Findings :
                  /\ Has(Mine(w)', f, "day_4") => Attempted(w, f, "day_2")'
                  /\ pass'[w].stage = "day_4" /\ f \in pass'[w].todo => Attempted(w, f, "day_2")'
                  /\ pass'[w].stage = "day_2" =>
                        \A n \in rows' \cup Mine(w)' :
                           n.finding = f /\ n.point = "day_0" /\ n.at + 2 * Day <= pass'[w].began =>
                              f \in pass'[w].todo \/ Attempted(w, f, "day_2")'
        PROVE  CInv'
    <3>1. CadenceInOrder'
      BY <1>0, <2>2 DEF CInv, CadenceInOrder, Has
    <3>. QED
      BY <2>1, <2>2, <3>1 DEF CInv
  <2>3. CASE BeginPass(w)
    <3>1. Mine(w)' = {} /\ pass'[w].stage = "day_0" /\ rows' = rows
      BY <2>3, BeginsStep DEF TInv, BeginPass, Mine
    <3>. QED
      BY <2>2, <2>3, <3>1, BeginsStep DEF TInv, Has
  <2>4. CASE RollbackPass(w)
    <3>1. Mine(w)' = {} /\ pass'[w].stage = "idle" /\ rows' = rows
      BY <2>4, RollbackFields DEF Mine, NoPass
    <3>. QED
      BY <2>2, <2>4, <3>1, RollbackFields DEF Has
  <2>5. CASE CommitPass(w)
    <3>1. /\ rows' = rows \cup Mine(w) /\ troubled' = troubled
          /\ \A v \in Workers \ {w} : pass'[v] = pass[v] /\ Mine(v)' = Mine(v)
          /\ Mine(w)' = {} /\ pass'[w].stage = "idle"
      BY <2>5, CommitFields DEF Mine, NoPass
    <3>2. CadenceInOrder'
      BY <1>0, <3>1 DEF CInv, CadenceInOrder, Attempted, Has
    <3>3. ASSUME NEW v \in Workers \ {w}, NEW f \in Findings
          PROVE  /\ Has(Mine(v)', f, "day_4") => Attempted(v, f, "day_2")'
                 /\ pass'[v].stage = "day_4" /\ f \in pass'[v].todo => Attempted(v, f, "day_2")'
      <4>1. Attempted(v, f, "day_2") => Attempted(v, f, "day_2")'
        BY <1>0, <3>1 DEF Attempted, Has
      <4>. QED
        BY <3>1, <4>1 DEF CInv
    <3>4. ASSUME NEW v \in Workers \ {w}, NEW f \in Findings, pass'[v].stage = "day_2",
                 NEW n \in rows' \cup Mine(v)', n.finding = f, n.point = "day_0",
                 n.at + 2 * Day <= pass'[v].began
          PROVE  f \in pass'[v].todo \/ Attempted(v, f, "day_2")'
      <4>1. pass'[v] = pass[v] /\ Mine(v)' = Mine(v)
        BY <3>1
      <4>2. now <= pass[w].began + 1
        BY <2>5, CommitFields DEF TInv, PassShape, Active
      <4>3. ASSUME n \in Mine(w) PROVE FALSE
        <5>1. n.at = pass[w].began
          BY <3>4, <4>3 DEF TInv, PassShape
        <5>. QED
          BY <1>T, <3>4, <4>1, <4>2, <5>1
      <4>4. n \in rows \cup Mine(v)
        BY <3>1, <4>1, <4>3
      <4>5. Attempted(v, f, "day_2") => Attempted(v, f, "day_2")'
        BY <1>0, <4>1 DEF Attempted, Has
      <4>. QED
        BY <3>4, <4>1, <4>4, <4>5 DEF CInv
    <3>5. \A f \in Findings : ~Has(Mine(w)', f, "day_4")
      BY <3>1 DEF Has
    <3>. QED
      BY <3>1, <3>2, <3>3, <3>4, <3>5 DEF CInv
  <2>6. CASE Flags(w)
    <3>1. Mine(w)' = Mine(w) /\ pass'[w].stage = "flag" /\ rows' = rows
          /\ \A v \in Workers \ {w} : pass'[v] = pass[v]
      BY <2>6 DEF Flags, Works, Mine
    <3>2. \A f \in Findings : Attempted(w, f, "day_2") => Attempted(w, f, "day_2")'
      BY <1>0, <3>1 DEF Attempted, Has
    <3>. QED
      BY <2>2, <3>1, <3>2 DEF CInv
  <2>7. ASSUME NEW f \in Findings, Fails(w, f) PROVE CInv'
    <3>1. /\ Mine(w)' = Mine(w) /\ pass'[w].stage = pass[w].stage /\ rows' = rows
          /\ pass'[w].todo = pass[w].todo \ {f} /\ pass'[w].began = pass[w].began
          /\ troubled' = troubled \cup {<<f, pass[w].stage>>}
          /\ \A v \in Workers \ {w} : pass'[v] = pass[v]
      BY <2>7 DEF Fails, Works, Mine
    <3>2. \A g \in Findings : Attempted(w, g, "day_2") => Attempted(w, g, "day_2")'
      BY <1>0, <3>1 DEF Attempted, Has
    <3>3. pass[w].stage = "day_2" => Attempted(w, f, "day_2")'
      BY <3>1 DEF Attempted
    <3>. QED
      BY <2>2, <3>1, <3>2, <3>3 DEF CInv
  <2>8. ASSUME NEW f \in Findings, NEW n \in Notifications, Records(w, f, n) PROVE CInv'
    <3>1. /\ Mine(w)' = Mine(w) \cup {n} /\ pass'[w].stage = pass[w].stage /\ rows' = rows
          /\ pass'[w].todo = pass[w].todo \ {f} /\ pass'[w].began = pass[w].began
          /\ n.finding = f /\ n.point = pass[w].stage /\ f \in pass[w].todo
          /\ \A v \in Workers \ {w} : pass'[v] = pass[v]
      BY <2>8 DEF Records, Works, Mine
    <3>2. \A g \in Findings : Attempted(w, g, "day_2") => Attempted(w, g, "day_2")'
      BY <1>0, <3>1 DEF Attempted, Has
    <3>3. pass[w].stage = "day_2" => Attempted(w, f, "day_2")'
      BY <3>1 DEF Attempted, Has
    <3>4. \A g \in Findings : Has(Mine(w)', g, "day_4") =>
             Has(Mine(w), g, "day_4") \/ (g = f /\ pass[w].stage = "day_4")
      BY <3>1 DEF Has
    <3>. QED
      BY <2>2, <3>1, <3>2, <3>3, <3>4 DEF CInv
  <2>9. ASSUME NEW p \in Points, Queries(w, p) PROVE CInv'
    <3>1. /\ Mine(w)' = Mine(w) /\ pass'[w].stage = p /\ rows' = rows
          /\ pass'[w].todo = DueReminders(w, p) /\ pass'[w].began = pass[w].began
          /\ pass[w].todo = {} /\ Active(w)
          /\ <<pass[w].stage, p>> \in {<<"day_0", "day_2">>, <<"day_2", "day_4">>}
          /\ \A v \in Workers \ {w} : pass'[v] = pass[v]
      BY <2>9 DEF Queries, Works, Mine, Active, Points
    <3>2. \A f \in Findings : Attempted(w, f, "day_2") => Attempted(w, f, "day_2")'
      BY <1>0, <3>1 DEF Attempted, Has
    <3>3. View(w) = rows \cup Mine(w) /\ View(w) \subseteq Notifications
      BY DEF View, Mine, TInv, TypeOK, Passes
    <3>4. ASSUME p = "day_2", NEW f \in Findings, NEW n \in rows' \cup Mine(w)',
                 n.finding = f, n.point = "day_0", n.at + 2 * Day <= pass'[w].began
          PROVE  f \in pass'[w].todo \/ Attempted(w, f, "day_2")'
      <4>1. n \in View(w) /\ n.at + Offset[p] <= now
        BY <1>T, <3>1, <3>3, <3>4 DEF Offset
      <4>2. f \in DueReminders(w, p) \/ Has(View(w), f, "day_2")
        BY <3>4, <4>1 DEF DueReminders
      <4>. QED
        BY <3>1, <3>2, <3>3, <4>2 DEF Attempted, Has
    <3>5. ASSUME p = "day_4", NEW f \in Findings, f \in DueReminders(w, p)
          PROVE  Attempted(w, f, "day_2")'
      <4>1. PICK n \in View(w) : n.finding = f /\ n.point = "day_0" /\ n.at + Offset[p] <= now
        BY <3>5 DEF DueReminders
      <4>2. now <= pass[w].began + 1 /\ n.at + 4 * Day <= now
        BY <3>1, <3>5, <4>1 DEF TInv, PassShape, Offset
      <4>3. n.at + 2 * Day <= pass[w].began
        BY <1>T, <3>3, <4>2
      <4>4. pass[w].stage = "day_2"
        BY <3>1, <3>5
      <4>. QED
        BY <3>1, <3>2, <3>3, <4>1, <4>3, <4>4 DEF CInv
    <3>. QED
      BY <2>2, <3>1, <3>2, <3>4, <3>5 DEF CInv
  <2>. QED
    BY <1>2, <2>3, <2>4, <2>5, <2>6, <2>7, <2>8, <2>9, KindsOfStep DEF TInv
<1>. QED
  BY <1>1, <1>2 DEF Next

\* A day-4 row without a day-2 row exists only where the day-2 email failed.
THEOREM CadenceCorrect == Spec => []CadenceInOrder
<1>1. Init => CInv
  BY DEF Init, CInv, CadenceInOrder, Mine, NoPass, Has
<1>. QED
  BY <1>1, TInvInit, TInvStep, CadenceStep, PTL DEF Spec, CInv

(***************************************************************************)
(* The contract.  Everything a pass has to do or has recorded was due when *)
(* it asked, and stays so: the day-0 email by the lookback of the finding, *)
(* a reminder by a day-0 row that is COMMITTED -- its own is too young for *)
(* that -- and what it does not chase had been dealt with.                 *)
(***************************************************************************)
InLookback(w, f) ==
    openedAt[f] <= pass[w].began /\ pass[w].began <= openedAt[f] + Lookback

OldFirstRow(f, p) ==
    \E m \in rows : m.finding = f /\ m.point = "day_0" /\ m.at + Offset[p] <= now

Due(w, f, p) == IF p = "day_0" THEN InLookback(w, f) ELSE OldFirstRow(f, p)

AllDue ==
    \A w \in Workers :
        /\ \A f \in pass[w].todo :
              /\ Due(w, f, pass[w].stage)
              /\ f \notin pass[w].chase => pass[w].stage # "day_0" /\ f \in DealtWith
        /\ \A n \in Mine(w) :
              /\ Due(w, n.finding, n.point)
              /\ n.outcome = "suppressed_finding_closed" =>
                    n.point # "day_0" /\ n.finding \in DealtWith

OpenedBefore == \A f \in Findings : status[f] # "none" => openedAt[f] <= now

DueInv == AllDue /\ OpenedBefore

\* The clock, the findings and the table only ever make more due.
LEMMA DueGrows ==
    ASSUME TInv, [Next]_vars, NEW w \in Workers, NEW f \in Findings, NEW p \in Points,
           status[f] # "none", pass'[w].began = pass[w].began, Due(w, f, p)
    PROVE  Due(w, f, p)'
<1>1. rows \subseteq rows'
  BY TroubledGrows
<1>2. now <= now' /\ openedAt'[f] = openedAt[f]
  <2>1. now \in Nat
    BY CadenceAssumption DEF TInv, TypeOK, Times
  <2>2. CASE UNCHANGED vars \/ Tick
    BY <2>1, <2>2 DEF vars, Tick
  <2>3. ASSUME NEW g \in Findings, FindingStep(g) PROVE now <= now' /\ openedAt'[f] = openedAt[f]
    BY <2>1, <2>3 DEF FindingStep, OpenFinding, ResolveFinding, AcknowledgeFinding, TInv, TypeOK
  <2>4. ASSUME NEW v \in Workers, PassStep(v) PROVE now <= now' /\ openedAt'[f] = openedAt[f]
    BY <2>1, <2>4, KindsOfStep
       DEF TInv, BeginPass, CommitPass, RollbackPass, Flags, Fails, Records, Queries, Works
  <2>. QED
    BY <2>2, <2>3, <2>4 DEF Next
<1>3. CASE p = "day_0"
  BY <1>2, <1>3 DEF Due, InLookback
<1>4. CASE p # "day_0"
  <2>1. PICK m \in rows : m.finding = f /\ m.point = "day_0" /\ m.at + Offset[p] <= now
    BY <1>4 DEF Due, OldFirstRow
  <2>2. m.at \in Nat /\ Offset[p] \in Nat /\ now \in Nat /\ now' \in Nat
    <3>1. p \in {"day_2", "day_4"} /\ m.at \in Nat /\ now \in Nat
      BY <1>4, CadenceAssumption DEF Points, TInv, TypeOK, Notifications, Times
    <3>2. now' \in Nat
      BY TypeStep, CadenceAssumption DEF TypeOK, Times
    <3>. QED
      BY <3>1, <3>2, CadenceAssumption DEF Offset
  <2>3. m.at + Offset[p] <= now'
    BY <1>2, <2>1, <2>2
  <2>. QED
    BY <1>1, <1>4, <2>1, <2>3 DEF Due, OldFirstRow, Offset
<1>. QED
  BY <1>3, <1>4

\* What a pass held before a step is still due after it.
LEMMA StillDue ==
    ASSUME TInv, Opened, AllDue, [Next]_vars, NEW w \in Workers,
           pass'[w].began = pass[w].began, NEW p, p = pass[w].stage
    PROVE  /\ \A f \in pass[w].todo :
                 /\ Due(w, f, p)'
                 /\ f \notin pass[w].chase => p # "day_0" /\ f \in DealtWith'
           /\ \A n \in Mine(w) :
                 /\ Due(w, n.finding, n.point)'
                 /\ n.outcome = "suppressed_finding_closed" =>
                       n.point # "day_0" /\ n.finding \in DealtWith'
<1>1. \A f \in pass[w].todo : f \in Findings /\ p \in Points /\ status[f] # "none"
  BY StageOfWork DEF TInv, TypeOK, Passes, Opened
<1>2. \A n \in Mine(w) : n.finding \in Findings /\ n.point \in Points /\ status[n.finding] # "none"
  BY DEF TInv, TypeOK, Passes, Notifications, Mine, Opened
<1>3. DealtWith \subseteq DealtWith'
  BY DealtWithStep
<1>4. ASSUME NEW f \in pass[w].todo PROVE Due(w, f, p)'
  BY <1>1, <1>4, DueGrows DEF AllDue
<1>5. ASSUME NEW n \in Mine(w) PROVE Due(w, n.finding, n.point)'
  BY <1>2, <1>5, DueGrows DEF AllDue
<1>. QED
  BY <1>3, <1>4, <1>5 DEF AllDue

LEMMA DueInvInit == Init => DueInv
BY DEF Init, DueInv, AllDue, OpenedBefore, NoPass, Mine

LEMMA OpenedBeforeStep == TInv /\ OpenedBefore /\ [Next]_vars => OpenedBefore'
<1>. SUFFICES ASSUME TInv, OpenedBefore, [Next]_vars PROVE OpenedBefore'
  OBVIOUS
<1>0. now \in Nat /\ \A f \in Findings : openedAt[f] \in Nat
  BY CadenceAssumption DEF TInv, TypeOK, Times
<1>1. CASE UNCHANGED vars \/ Tick
  BY <1>0, <1>1 DEF vars, Tick, OpenedBefore
<1>2. ASSUME NEW f \in Findings, FindingStep(f) PROVE OpenedBefore'
  BY <1>0, <1>2 DEF FindingStep, OpenFinding, ResolveFinding, AcknowledgeFinding, OpenedBefore,
                    TInv, TypeOK
<1>3. ASSUME NEW w \in Workers, PassStep(w) PROVE OpenedBefore'
  <2>1. UNCHANGED <<now, status, openedAt>>
    BY <1>3, KindsOfStep
       DEF TInv, BeginPass, CommitPass, RollbackPass, Flags, Fails, Records, Queries, Works
  <2>. QED
    BY <2>1 DEF OpenedBefore
<1>. QED
  BY <1>1, <1>2, <1>3 DEF Next

LEMMA AllDueStep == TInv /\ Opened /\ DueInv /\ [Next]_vars => AllDue'
<1>. SUFFICES ASSUME TInv, Opened, DueInv, [Next]_vars PROVE AllDue'
  OBVIOUS
<1>. USE DEF DueInv
<1>. DEFINE Todo(w) == \A f \in pass[w].todo :
                          /\ Due(w, f, pass[w].stage)
                          /\ f \notin pass[w].chase => pass[w].stage # "day_0" /\ f \in DealtWith
            Made(w) == \A n \in Mine(w) :
                          /\ Due(w, n.finding, n.point)
                          /\ n.outcome = "suppressed_finding_closed" =>
                                n.point # "day_0" /\ n.finding \in DealtWith
<1>0. ASSUME NEW w \in Workers, pass'[w].began = pass[w].began
      PROVE  /\ /\ pass'[w].stage = pass[w].stage /\ pass'[w].todo \subseteq pass[w].todo
                /\ pass'[w].todo \cap pass[w].chase \subseteq pass'[w].chase
                => Todo(w)'
             /\ Mine(w)' \subseteq Mine(w) => Made(w)'
  <2>1. PICK q : q = pass[w].stage
    OBVIOUS
  <2>2. /\ \A f \in pass[w].todo :
              Due(w, f, q)' /\ (f \notin pass[w].chase => q # "day_0" /\ f \in DealtWith')
        /\ \A n \in Mine(w) :
              /\ Due(w, n.finding, n.point)'
              /\ n.outcome = "suppressed_finding_closed" => n.point # "day_0" /\ n.finding \in DealtWith'
    BY <1>0, <2>1, StillDue
  <2>3. Mine(w)' \subseteq Mine(w) => Made(w)'
    BY <2>2
  <2>4. ASSUME pass'[w].stage = pass[w].stage, pass'[w].todo \subseteq pass[w].todo,
               pass'[w].todo \cap pass[w].chase \subseteq pass'[w].chase
        PROVE  Todo(w)'
    <3>1. pass'[w].stage = q
      BY <2>1, <2>4
    <3>. QED
      BY <2>2, <2>4, <3>1
  <2>. QED
    BY <2>3, <2>4
<1>1. ASSUME NEW w \in Workers, pass'[w] = pass[w] PROVE Todo(w)' /\ Made(w)'
  <2>1. Mine(w)' = Mine(w)
    BY <1>1 DEF Mine
  <2>2. pass[w].chase \subseteq pass'[w].chase /\ pass'[w].began = pass[w].began
        /\ pass'[w].stage = pass[w].stage /\ pass'[w].todo = pass[w].todo
    BY <1>1
  <2>. HIDE DEF Todo, Made
  <2>. QED
    BY <1>0, <2>1, <2>2
<1>2. ASSUME NEW w \in Workers, \A v \in Workers \ {w} : pass'[v] = pass[v], Todo(w)', Made(w)'
      PROVE  AllDue'
  <2>1. \A v \in Workers : Todo(v)' /\ Made(v)'
    <3>. HIDE DEF Todo, Made
    <3>. QED
      BY <1>1, <1>2
  <2>. QED
    BY <2>1 DEF AllDue
<1>3. CASE UNCHANGED vars \/ Tick \/ \E f \in Findings : FindingStep(f)
  <2>1. pass' = pass
    BY <1>3 DEF vars, Tick, FindingStep, OpenFinding, ResolveFinding, AcknowledgeFinding
  <2>2. \A v \in Workers : Todo(v)' /\ Made(v)'
    <3>. HIDE DEF Todo, Made
    <3>. QED
      BY <1>1, <2>1
  <2>. QED
    BY <2>2 DEF AllDue
<1>4. ASSUME NEW w \in Workers, PassStep(w) PROVE AllDue'
  <2>1. CASE BeginPass(w)
    <3>1. Mine(w)' = {}
      BY <2>1, BeginsStep DEF TInv, Mine
    <3>2. \A f \in DueDay0 : Due(w, f, "day_0")'
      <4>1. UNCHANGED <<openedAt, status>> /\ pass'[w].began = now
        BY <2>1, BeginsStep DEF TInv, BeginPass
      <4>2. \A f \in DueDay0 : f \in Findings /\ openedAt[f] <= now /\ openedAt[f] + Lookback >= now
        BY DEF DueDay0, OpenedBefore
      <4>. QED
        BY <4>1, <4>2 DEF Due, InLookback
    <3>3. Todo(w)'
      BY <2>1, <3>2, BeginsStep DEF TInv
    <3>. QED
      BY <1>2, <2>1, <3>1, <3>3, BeginsStep DEF TInv
  <2>2. CASE CommitPass(w) \/ RollbackPass(w)
    <3>1. Mine(w)' = {} /\ pass'[w].todo = {} /\ \A v \in Workers \ {w} : pass'[v] = pass[v]
      BY <2>2, EndsStep DEF TInv, NoPass, Mine
    <3>. QED
      BY <1>2, <3>1
  <2>3. CASE Flags(w)
    <3>1. Mine(w)' = Mine(w) /\ pass'[w].todo = {} /\ pass'[w].began = pass[w].began
          /\ \A v \in Workers \ {w} : pass'[v] = pass[v]
      BY <2>3 DEF Flags, Works, Mine
    <3>2. Todo(w)'
      BY <3>1
    <3>3. Made(w)'
      BY <1>0, <3>1
    <3>. HIDE DEF Todo, Made
    <3>. QED
      BY <1>2, <3>1, <3>2, <3>3
  <2>4. ASSUME NEW f \in Findings, Fails(w, f) PROVE AllDue'
    <3>1. /\ Mine(w)' = Mine(w) /\ pass'[w].began = pass[w].began /\ pass'[w].stage = pass[w].stage
          /\ pass'[w].todo = pass[w].todo \ {f} /\ pass'[w].chase = pass[w].chase \ {f}
          /\ \A v \in Workers \ {w} : pass'[v] = pass[v]
      BY <2>4 DEF Fails, Works, Mine
    <3>2. pass'[w].todo \cap pass[w].chase \subseteq pass'[w].chase
      BY <3>1
    <3>. HIDE DEF Todo, Made
    <3>3. Todo(w)' /\ Made(w)'
      BY <1>0, <3>1, <3>2
    <3>. QED
      BY <1>2, <3>1, <3>3
  <2>5. ASSUME NEW f \in Findings, NEW n \in Notifications, Records(w, f, n) PROVE AllDue'
    <3>1. /\ Mine(w)' = Mine(w) \cup {n} /\ pass'[w].began = pass[w].began
          /\ pass'[w].stage = pass[w].stage /\ n.finding = f /\ n.point = pass[w].stage
          /\ f \in pass[w].todo
          /\ n.outcome = "suppressed_finding_closed" => f \notin pass[w].chase
          /\ pass'[w].todo = pass[w].todo \ {f} /\ pass'[w].chase = pass[w].chase \ {f}
          /\ \A v \in Workers \ {w} : pass'[v] = pass[v]
      BY <2>5 DEF Records, Works, Mine
    <3>2. pass'[w].todo \cap pass[w].chase \subseteq pass'[w].chase
      BY <3>1
    <3>3. Todo(w)'
      <4>. HIDE DEF Todo, Made
      <4>. QED
        BY <1>0, <3>1, <3>2
    <3>4. /\ Due(w, n.finding, n.point)'
          /\ n.outcome = "suppressed_finding_closed" => n.point # "day_0" /\ n.finding \in DealtWith'
      BY <3>1, StillDue
    <3>5. \A m \in Mine(w) :
             /\ Due(w, m.finding, m.point)'
             /\ m.outcome = "suppressed_finding_closed" => m.point # "day_0" /\ m.finding \in DealtWith'
      BY <3>1, StillDue
    <3>6. Made(w)'
      BY <3>1, <3>4, <3>5
    <3>. HIDE DEF Todo, Made
    <3>. QED
      BY <1>2, <3>1, <3>3, <3>6
  <2>6. ASSUME NEW p \in Points, Queries(w, p) PROVE AllDue'
    <3>1. /\ Mine(w)' = Mine(w) /\ pass'[w].began = pass[w].began /\ pass'[w].stage = p
          /\ pass'[w].todo = DueReminders(w, p)
          /\ pass'[w].chase = {f \in DueReminders(w, p) : NeedsChasing(f)}
          /\ p \in {"day_2", "day_4"} /\ Active(w)
          /\ UNCHANGED <<now, rows, status, acknowledged>>
          /\ \A v \in Workers \ {w} : pass'[v] = pass[v]
      BY <2>6 DEF Queries, Works, Mine, Active, Points
    <3>2. ASSUME NEW f \in DueReminders(w, p) PROVE OldFirstRow(f, p)'
      <4>1. PICK n \in View(w) : n.finding = f /\ n.point = "day_0" /\ n.at + Offset[p] <= now
        BY <3>2 DEF DueReminders
      <4>2. n \in rows
        <5>1. now <= pass[w].began + 1 /\ Offset[p] >= 2 /\ Offset[p] \in Nat
          BY <3>1, CadenceAssumption DEF TInv, PassShape, Offset
        <5>2. ASSUME n \in Mine(w) PROVE FALSE
          <6>1. n.at = pass[w].began /\ pass[w].began \in Nat /\ now \in Nat
            BY <4>1, <5>2, CadenceAssumption DEF TInv, PassShape, TypeOK, Passes, Times
          <6>. QED
            BY <4>1, <5>1, <6>1
        <5>. QED
          BY <5>2 DEF View, Mine
      <4>. QED
        BY <3>1, <4>1, <4>2 DEF OldFirstRow
    <3>3. ASSUME NEW f \in DueReminders(w, p), f \notin pass'[w].chase PROVE f \in DealtWith'
      <4>1. f \in Findings /\ status[f] # "none"
        BY <3>3 DEF DueReminders, View, Opened, Mine
      <4>. QED
        BY <3>1, <3>3, <4>1 DEF NeedsChasing, DealtWith, TInv, TypeOK
    <3>4. Todo(w)'
      BY <3>1, <3>2, <3>3 DEF Due
    <3>5. Made(w)'
      BY <1>0, <3>1
    <3>. HIDE DEF Todo, Made
    <3>. QED
      BY <1>2, <3>1, <3>4, <3>5
  <2>. QED
    BY <1>4, <2>1, <2>2, <2>3, <2>4, <2>5, <2>6, KindsOfStep DEF TInv
<1>. QED
  BY <1>3, <1>4 DEF Next

(***************************************************************************)
(* A commit is the step that records a batch; a failed email and a rolled  *)
(* back pass are the steps that fail; all other work is invisible.         *)
(***************************************************************************)
CadenceInv == TInv /\ EInv /\ CInv /\ DueInv

LEMMA CadenceInvAlways == Spec => []CadenceInv
<1>1. Init => CadenceInv
  BY TInvInit, EInvInit, DueInvInit DEF Init, CadenceInv, CInv, CadenceInOrder, Mine, NoPass, Has
<1>2. CadenceInv /\ [Next]_vars => CadenceInv'
  BY TInvStep, OpenedStep, EscalationStep, CadenceStep, AllDueStep, OpenedBeforeStep
     DEF CadenceInv, EInv, DueInv
<1>. QED
  BY <1>1, <1>2, PTL DEF Spec

\* Every row a pass commits is one the contract lets it record.
LEMMA CommitMayRecord ==
    ASSUME CadenceInv, NEW w \in Workers, CommitPass(w), NEW n \in pass[w].flushed
    PROVE  Contract!MayRecord(n, pass[w].flushed)
<1>. DEFINE batch == pass[w].flushed
<1>1. /\ n \in Mine(w) /\ n \in Notifications /\ n.finding \in Findings /\ n.point \in Points
      /\ Mine(w) = batch
  BY CommitFields DEF CadenceInv, Mine, TInv, TypeOK, Passes, Notifications
<1>2. status[n.finding] # "none"
  BY <1>1 DEF CadenceInv, EInv, Opened
<1>3. Contract!Row(rows, n.finding, n.point) = {} /\ Contract!Row(batch, n.finding, n.point) = {n}
  BY <1>1 DEF CadenceInv, TInv, RowsApart, Same, Contract!Row
<1>4. CASE n.point = "day_0"
  <2>1. n.at = pass[w].began /\ InLookback(w, n.finding) /\ pass[w].began <= now
    BY <1>1, <1>4 DEF CadenceInv, TInv, TypeOK, PassShape, DueInv, AllDue, Due
  <2>2. Contract!InTime(n)
    BY <2>1 DEF InLookback, Contract!InTime
  <2>3. n.outcome # "suppressed_finding_closed"
    BY <1>1, <1>4 DEF CadenceInv, DueInv, AllDue
  <2>. QED
    BY <1>2, <1>3, <1>4, <2>2, <2>3 DEF Contract!MayRecord
<1>5. CASE n.point # "day_0"
  <2>1. OldFirstRow(n.finding, n.point)
    BY <1>1, <1>5 DEF CadenceInv, DueInv, AllDue, Due
  <2>2. Contract!OldEnough(n)
    BY <2>1 DEF OldFirstRow, Contract!OldEnough, Contract!Row
  <2>3. n.outcome = "suppressed_finding_closed" => Contract!Suppressible(n)
    BY <1>1 DEF CadenceInv, DueInv, AllDue, DealtWith, Contract!Suppressible
  <2>4. ASSUME n.point = "day_4" PROVE Contract!InOrder(n, batch)
    <3>1. Attempted(w, n.finding, "day_2")
      BY <1>1, <2>4 DEF CadenceInv, CInv, Has
    <3>. QED
      BY <1>1, <3>1 DEF Attempted, Has, Contract!InOrder, Contract!Row
  <2>. QED
    BY <1>2, <1>3, <1>5, <2>2, <2>3, <2>4 DEF Contract!MayRecord
<1>. QED
  BY <1>4, <1>5

LEMMA CommitRecords ==
    ASSUME CadenceInv, EscalatedWithItsDay4Row', NEW w \in Workers, CommitPass(w)
    PROVE  Contract!Record(rows' \ rows)
<1>1. rows' = rows \cup pass[w].flushed /\ escalated' = escalated \cup pass[w].flagged
      /\ UNCHANGED <<now, status, openedAt, acknowledged, troubled>>
  BY CommitFields DEF CadenceInv
<1>2. rows' \ rows = pass[w].flushed
  <2>1. ASSUME NEW n \in pass[w].flushed PROVE n \notin rows
    BY <2>1 DEF CadenceInv, TInv, RowsApart, Same
  <2>. QED
    BY <1>1, <2>1
<1>3. pass[w].flushed \subseteq Notifications
  BY DEF CadenceInv, TInv, TypeOK, Passes
<1>4. \A n \in pass[w].flushed : Contract!MayRecord(n, pass[w].flushed)
  BY CommitMayRecord
<1>5. \A f \in Findings : Has(rows', f, "day_4") <=> Contract!Row(rows', f, "day_4") # {}
  BY DEF Has, Contract!Row
<1>6. /\ \A f \in escalated' \ escalated : Contract!Row(rows', f, "day_4") # {}
      /\ \A f \in Findings :
            status[f] = "open" /\ Contract!Row(rows', f, "day_4") # {} => f \in escalated'
  <2>1. escalated' \subseteq Findings
    BY <1>1 DEF CadenceInv, TInv, TypeOK, Passes
  <2>2. \A f \in Findings :
           /\ f \in escalated' => Has(rows', f, "day_4")
           /\ Has(rows', f, "day_4") /\ status[f] = "open" => f \in escalated'
    BY <1>1 DEF EscalatedWithItsDay4Row, Has
  <2>. QED
    BY <1>5, <2>1, <2>2
<1>7. Contract!Record(pass[w].flushed)
  BY <1>1, <1>3, <1>4, <1>6 DEF Contract!Record
<1>. QED
  BY <1>2, <1>7

LEMMA ContractStep ==
    ASSUME CadenceInv, CadenceInv', [Next]_vars
    PROVE  [Contract!Next]_(Contract!contractVars)
<1>. USE DEF Contract!contractVars
<1>0. TInv /\ TypeOK' /\ EscalatedWithItsDay4Row'
  BY DEF CadenceInv, TInv, EInv
<1>1. CASE UNCHANGED vars
  BY <1>1 DEF vars
<1>2. CASE Tick
  BY <1>2 DEF Tick, Contract!Next, Contract!Tick
<1>3. ASSUME NEW f \in Findings, FindingStep(f) PROVE Contract!Next
  BY <1>3 DEF FindingStep, OpenFinding, ResolveFinding, AcknowledgeFinding,
              Contract!Next, Contract!Open, Contract!Resolve, Contract!Acknowledge
<1>4. ASSUME NEW lost \in SUBSET (Findings \X Points), troubled' = troubled \cup lost,
             UNCHANGED <<now, status, openedAt, acknowledged, escalated, rows>>
      PROVE  Contract!Next
  <2>1. Contract!Fail(lost)
    BY <1>4 DEF Contract!Fail
  <2>. QED
    BY <2>1 DEF Contract!Next
<1>5. ASSUME NEW w \in Workers, PassStep(w) PROVE [Contract!Next]_(Contract!contractVars)
  <2>1. CASE BeginPass(w)
    BY <2>1 DEF BeginPass
  <2>2. CASE CommitPass(w)
    BY <1>0, <2>2, CommitRecords DEF Contract!Next
  <2>3. CASE RollbackPass(w)
    <3>1. {<<n.finding, n.point>> : n \in SentRows(w)} \in SUBSET (Findings \X Points)
      BY <1>0 DEF TInv, TypeOK, SentRows, Passes, Notifications
    <3>. QED
      BY <1>0, <1>4, <2>3, <3>1, RollbackFields
  <2>4. CASE Flags(w)
    BY <2>4 DEF Flags, Works
  <2>5. ASSUME NEW f \in Findings, Fails(w, f) PROVE Contract!Next
    <3>1. {<<f, pass[w].stage>>} \in SUBSET (Findings \X Points)
      BY <2>5 DEF Fails, Works
    <3>. QED
      BY <1>4, <2>5, <3>1 DEF Fails, Works
  <2>6. ASSUME NEW f \in Findings, NEW n \in Notifications, Records(w, f, n)
        PROVE  UNCHANGED Contract!contractVars
    BY <2>6 DEF Records, Works
  <2>7. ASSUME NEW p \in Points, Queries(w, p) PROVE UNCHANGED Contract!contractVars
    BY <2>7 DEF Queries, Works
  <2>. QED
    BY <1>0, <1>5, <2>1, <2>2, <2>3, <2>4, <2>5, <2>6, <2>7, KindsOfStep DEF TInv
<1>. QED
  BY <1>1, <1>2, <1>3, <1>5 DEF Next

\* Whatever passes overlap, repeat, fail or roll back, the table is filled as the
\* contract says: one row per finding and point, in time, in order, old enough, and
\* the escalation in the step that shows the day-4 row.
THEOREM CadenceRefinement == Spec => ImplementsContract
<1>1. Init => Contract!Init
  BY DEF Init, Contract!Init
<1>2. CadenceInv /\ CadenceInv' /\ [Next]_vars => [Contract!Next]_(Contract!contractVars)
  BY ContractStep
<1>. QED
  BY <1>1, <1>2, CadenceInvAlways, PTL DEF Spec, ImplementsContract, Contract!Spec
=============================================================================
