--------------------------- MODULE InsightDigest ---------------------------
(***************************************************************************)
(* The daily digest: what a run computes before it asks the agent, what it *)
(* stores of the answer (backend/app/governance/digest.py and              *)
(* backend/handlers/digest_worker_handler.py) and what the insight surface *)
(* serves (backend/app/api/routers/insights.py).                           *)
(*                                                                         *)
(* Spend and the compliance score are small numbers that change under the  *)
(* runs; a finding is its position in the digest's order of urgency.       *)
(***************************************************************************)
EXTENDS AgentRuntime

CONSTANTS
    Candidates,        \* findings, 1 the most urgent
    DigestLimit,       \* DIGEST_FINDING_LIMIT
    CitedBy,           \* what may be cited of a finding: itself, its resource, its project
    Totals,            \* what the platform may have spent in a day
    Scores,            \* compliance scores, in percent
    SpendPercent,      \* CLOUDPULSE_DIGEST_SPEND_NOTABLE_PERCENT
    SpendAbsolute,     \* CLOUDPULSE_DIGEST_SPEND_NOTABLE_USD
    CompliancePoints,  \* CLOUDPULSE_DIGEST_COMPLIANCE_NOTABLE_POINTS
    LastDay,           \* bound: the last day of the model
    Writers,           \* digest runs that may overlap
    MaxWrites          \* bound: how many digest runs begin

ASSUME DigestAssumption ==
    /\ Candidates \subseteq Nat
    /\ CitedBy \in [Candidates -> SUBSET References]
    /\ Totals \subseteq Nat /\ Scores \subseteq Nat /\ Scores # {}
    /\ SpendPercent \in Nat \ {0} /\ SpendAbsolute \in Nat \ {0} /\ CompliancePoints \in Nat \ {0}
    /\ LastDay \in Nat /\ MaxWrites \in Nat

Periods == 1..LastDay
Absent == [stored |-> FALSE, is_empty |-> FALSE, cites |-> {}, names |-> {}, states |-> {},
           compliance |-> 0,
           allowed |-> [cites |-> {}, states |-> {}], notable |-> FALSE]
NoInputs == [period |-> 0, selected |-> {}, figures |-> {}, compliance |-> 0, notable |-> FALSE]
IdleWriter == [stage |-> "idle", inputs |-> NoInputs]
NoDigestRow == [status |-> "succeeded", cost_units |-> 0, end |-> "none", is_empty |-> TRUE]

VARIABLES
    calendar,     \* the current day; digests are about the days before it
    spent,        \* the total of the spend rows of each day
    score,        \* the compliance score of the tenant
    openOnes,     \* the open findings
    digest,       \* the digest of each day, with history: what it was allowed to say
    writer,       \* the transaction of each run
    writesBegun,  \* how many runs have begun
    digestRow     \* the latest agent_run row, with history: how the conversation ended

digestVars == <<calendar, spent, score, openOnes, digest, writer, writesBegun, digestRow>>
digestWorld == <<calendar, spent, score, openOnes>>

Stored == {d \in Periods : digest[d].stored}
Latest(days) == CHOOSE d \in days : \A e \in days : e <= d
Distance(a, b) == IF a < b THEN b - a ELSE a - b

(***************************************************************************)
(* What changes under the runs.                                            *)
(***************************************************************************)

DayPasses(total) ==
    /\ calendar < LastDay + 1
    /\ spent' = [spent EXCEPT ![calendar] = total]
    /\ calendar' = calendar + 1
    /\ UNCHANGED <<score, openOnes, digest, writer, writesBegun, digestRow>>

GovernanceMoves(open, compliance) ==
    /\ <<open, compliance>> # <<openOnes, score>>
    /\ openOnes' = open
    /\ score' = compliance
    /\ UNCHANGED <<calendar, spent, digest, writer, writesBegun, digestRow>>

(***************************************************************************)
(* What the platform computes.                                             *)
(***************************************************************************)

\* select_digest_findings, the first DIGEST_FINDING_LIMIT of the order.
Selected == {f \in openOnes : Cardinality({g \in openOnes : g < f}) < DigestLimit}

\* last_recorded_compliance; without one there is no movement.
Baseline(d) ==
    LET earlier == {e \in Stored : e < d}
    IN IF earlier = {} THEN score ELSE digest[Latest(earlier)].compliance

\* spend_totals; the day before the first has no rows.
SpentOn(d) == IF d = 0 THEN 0 ELSE spent[d]

\* is_spend_change_notable: either bar, and no percentage of nothing.
SpendNotable(previous, current) ==
    \/ Distance(previous, current) >= SpendAbsolute
    \/ previous > 0 /\ Distance(previous, current) * 100 >= SpendPercent * previous

\* is_compliance_move_notable
ComplianceNotable(previous, current) == Distance(previous, current) >= CompliancePoints

\* has_anything_notable
Notable(d) ==
    \/ Selected # {}
    \/ SpendNotable(SpentOn(d - 1), SpentOn(d))
    \/ ComplianceNotable(Baseline(d), score)

\* known_figures: both days, their difference and its size, for spend and for the score.
KnownFigures(d) ==
    {SpentOn(d - 1), SpentOn(d), SpentOn(d) - SpentOn(d - 1), Distance(SpentOn(d), SpentOn(d - 1)),
     Baseline(d), score, score - Baseline(d), Distance(score, Baseline(d))}

\* build_inputs, for yesterday or for a day the event names.
BuildInputs(w, d) ==
    /\ writer[w].stage = "idle"
    /\ writesBegun < MaxWrites
    /\ d < calendar
    /\ writer' = [writer EXCEPT ![w] =
          [stage |-> "built",
           inputs |-> [period |-> d, selected |-> Selected, figures |-> KnownFigures(d),
                       compliance |-> score, notable |-> Notable(d)]]]
    /\ writesBegun' = writesBegun + 1
    /\ UNCHANGED <<digestWorld, digest, digestRow>>

\* Only what was selected may be cited.
KnownReferences(inputs) == UNION {CitedBy[f] : f \in inputs.selected}

(***************************************************************************)
(* The run: ask, check, store, commit.                                     *)
(***************************************************************************)

\* Fault: a digest is stored whatever the check says, and only the status tells.
StoredAnyway(w, s, grounded) == TRUE

\* A digest that is rejected is not stored.
StoresDraft(w, s, grounded) == grounded

\* _store_digest: one per day, a re-run replaces it.
StoreDigest(inputs, empty, cites, names, states) ==
    digest' = [digest EXCEPT ![inputs.period] =
        [stored |-> TRUE, is_empty |-> empty, cites |-> cites, names |-> names, states |-> states,
         compliance |-> inputs.compliance,
         allowed |-> [cites |-> KnownReferences(inputs), states |-> inputs.figures],
         notable |-> inputs.notable]]

\* _record_run
RecordRun(status, cost, end, empty) ==
    digestRow' = [status |-> status, cost_units |-> cost, end |-> end, is_empty |-> empty]

EndRun(w) ==
    /\ writer' = [writer EXCEPT ![w] = IdleWriter]
    /\ UNCHANGED <<digestWorld, writesBegun>>

\* FR-010: an explicit empty digest, and no model call.
NothingNotable(w) ==
    /\ writer[w].stage = "built" /\ ~writer[w].inputs.notable
    /\ StoreDigest(writer[w].inputs, TRUE, {}, {}, {})
    /\ RecordRun("succeeded", 0, "none", TRUE)
    /\ EndRun(w)

Asks(w) == writer[w].stage = "built" /\ writer[w].inputs.notable

\* Unreachable, or an answer parse_sections refuses: an error, and nothing is charged.
DraftFails(w, c) ==
    /\ Asks(w)
    /\ Unreachable(c) \/ c.end = "end_turn"
    /\ RecordRun(Outcome(0, FALSE, TRUE, FALSE), 0, c.end, FALSE)
    /\ UNCHANGED digest
    /\ EndRun(w)

\* A draft that was cut off is charged and discarded.
DraftIsCutOff(w, c) ==
    /\ Asks(w) /\ CutOff(c)
    /\ RecordRun(Outcome(Cost(c), FALSE, FALSE, FALSE), Cost(c), c.end, FALSE)
    /\ UNCHANGED digest
    /\ EndRun(w)

DraftArrives(w, c, s) ==
    /\ Asks(w) /\ c.end = "end_turn"
    /\ LET inputs == writer[w].inputs
           grounded == Grounded(s, KnownReferences(inputs), inputs.figures)
       IN /\ RecordRun(IF grounded THEN Outcome(Cost(c), TRUE, FALSE, FALSE) ELSE "failed",
                       Cost(c), c.end, FALSE)
          /\ IF StoresDraft(w, s, grounded)
             THEN StoreDigest(inputs, FALSE, s.cites, s.names, s.states)
             ELSE UNCHANGED digest
    /\ EndRun(w)

\* The Lambda dies before the commit.
RollbackRun(w) ==
    /\ writer[w].stage = "built"
    /\ UNCHANGED <<digest, digestRow>>
    /\ EndRun(w)

-----------------------------------------------------------------------------
DigestInit ==
    /\ calendar = 1
    /\ spent = [d \in Periods |-> 0]
    /\ score = CHOOSE s \in Scores : TRUE
    /\ openOnes = {}
    /\ digest = [d \in Periods |-> Absent]
    /\ writer = [w \in Writers |-> IdleWriter]
    /\ writesBegun = 0
    /\ digestRow = NoDigestRow

DigestNext ==
    \/ \E total \in Totals : DayPasses(total)
    \/ \E open \in SUBSET Candidates, s \in Scores : GovernanceMoves(open, s)
    \/ \E w \in Writers :
          \/ \E d \in Periods : BuildInputs(w, d)
          \/ NothingNotable(w) \/ RollbackRun(w)
          \/ \E c \in Conversations :
                \/ DraftFails(w, c) \/ DraftIsCutOff(w, c)
                \/ \E s \in Sections : DraftArrives(w, c, s)

DigestSpec == DigestInit /\ [][DigestNext]_digestVars

(***************************************************************************)
(* What is shown.                                                          *)
(***************************************************************************)

\* get_insight_digest: the latest period, whenever it was written.
ShownDigest == IF Stored = {} THEN Absent ELSE digest[Latest(Stored)]
ShownPeriod == IF Stored = {} THEN 0 ELSE Latest(Stored)

(***************************************************************************)
(* Properties.                                                             *)
(***************************************************************************)
Digests == [stored : BOOLEAN, is_empty : BOOLEAN, cites : SUBSET References,
            names : SUBSET References, states : SUBSET Int, compliance : Nat,
            allowed : [cites : SUBSET References, states : SUBSET Int], notable : BOOLEAN]

DigestTypeOK ==
    /\ calendar \in 1..(LastDay + 1)
    /\ spent \in [Periods -> Nat]
    /\ score \in Nat
    /\ openOnes \subseteq Candidates
    /\ digest \in [Periods -> Digests]
    /\ writer \in [Writers -> [stage : {"idle", "built"},
          inputs : [period : 0..LastDay, selected : SUBSET Candidates, figures : SUBSET Int,
                    compliance : Nat, notable : BOOLEAN]]]
    /\ writesBegun \in 0..MaxWrites
    /\ digestRow \in [status : {"succeeded", "truncated", "failed"}, cost_units : Nat,
                      end : {"none", "end_turn", "max_tokens", "max_iterations", "failed"},
                      is_empty : BOOLEAN]

\* FR-001, FR-004a, FR-010, as far as they are enforced: whatever overlaps, repeats or
\* dies, the references a stored digest declares and the amounts and percentages it states
\* are those its own run was given, and it is empty exactly when that run found nothing
\* notable.
DigestIsGrounded ==
    \A d \in Stored :
        /\ digest[d].cites \subseteq digest[d].allowed.cites
        /\ digest[d].states \subseteq digest[d].allowed.states
        /\ digest[d].is_empty <=> ~digest[d].notable

\* FR-001, FR-001a: a stored digest names nothing its run was not given, declared or not.
DigestNamesTheKnown ==
    \A d \in Stored : digest[d].names \subseteq digest[d].allowed.cites

\* FR-007a, FR-009: a failed run or a backfill of an older day never takes the current
\* digest away or displaces it by an older one.
CurrentDigestStays ==
    [][/\ ShownPeriod' >= ShownPeriod
       /\ ShownDigest' # ShownDigest =>
             digestRow'.status = "succeeded" /\ \E w \in Writers : writer[w].inputs.period = ShownPeriod'
      ]_digestVars

\* SC-008, and backend/handlers/digest_worker_handler.py: a digest the model was cut off
\* writing is recorded as truncated.
CutOffDigestIsTruncated ==
    digestRow.end \in {"max_tokens", "max_iterations"} => digestRow.status = "truncated"

=============================================================================
