----------------------------- MODULE Suggester -----------------------------
(***************************************************************************)
(* Remediation suggestions: the daily pass that drafts one for every open  *)
(* finding without (backend/handlers/suggester_worker_handler.py and       *)
(* backend/app/governance/suggester.py), the two writers of the table      *)
(* (backend/app/governance/suggestions.py) and the endpoints that seed and *)
(* show a suggestion (backend/app/api/routers/findings.py).                *)
(*                                                                         *)
(* A pass is one transaction, open through all of its model calls.  A      *)
(* finding is numbered in the order of opening.                            *)
(***************************************************************************)
EXTENDS AgentRuntime

CONSTANTS
    NumFindings,   \* how many findings there are
    Rank,          \* the urgency of a finding's severity
    Own,           \* what a suggestion for a finding may cite
    Passes,        \* passes that may overlap
    MaxPasses      \* bound: how many passes begin

Findings == 1..NumFindings

ASSUME SuggesterAssumption ==
    /\ NumFindings \in Nat
    /\ Rank \in [Findings -> Nat]
    /\ Own \in [Findings -> SUBSET References]
    /\ MaxPasses \in Nat

\* A text is the identifiers it declares and those its prose names beside them.
NoText == [cites |-> {}, names |-> {}]
TextOf(s) == [cites |-> s.cites, names |-> s.names]

NoSuggestion == [source |-> "none", text |-> NoText]
AdminSeeded == [source |-> "admin_seeded", text |-> NoText]
AiGenerated(text) == [source |-> "ai_generated", text |-> text]

NoDraft == [finding |-> 0, text |-> NoText]

NoPassRow == [status |-> "succeeded", cost_units |-> 0, spent |-> 0, error |-> FALSE,
              unfinished |-> {}]

IdlePass == [stage |-> "idle", left |-> {}, urgent |-> {}, consumed |-> 0,
             spent |-> 0, error |-> FALSE, cut |-> {}, draft |-> NoDraft,
             wrote |-> {}, texts |-> [f \in Findings |-> NoText]]

VARIABLES
    finding,      \* the status of each finding
    escalated,    \* the findings with an escalated_at
    suggestion,   \* the suggestion of each finding
    pass,         \* the transaction of each pass
    passesBegun,  \* how many passes have begun
    passRow       \* the latest agent_run row, with history: what was really left and spent

suggesterVars == <<finding, escalated, suggestion, pass, passesBegun, passRow>>

Written(f) == \E p \in Passes : f \in pass[p].wrote

(***************************************************************************)
(* Findings and administrators.                                            *)
(***************************************************************************)

EscalateFinding(f) ==
    /\ finding[f] = "open" /\ f \notin escalated
    /\ escalated' = escalated \cup {f}
    /\ UNCHANGED <<finding, suggestion, pass, passesBegun, passRow>>

CloseFinding(f) ==
    /\ finding[f] = "open"
    /\ finding' = [finding EXCEPT ![f] = "resolved"]
    /\ UNCHANGED <<escalated, suggestion, pass, passesBegun, passRow>>

\* seed_suggestion: an upsert, which waits for a pass that has written the row.
SeedSuggestion(f) ==
    /\ ~Written(f)
    /\ suggestion' = [suggestion EXCEPT ![f] = AdminSeeded]
    /\ UNCHANGED <<finding, escalated, pass, passesBegun, passRow>>

\* get_suggestion, getFindingSuggestion: whatever the status of the finding.
Shown(f) == suggestion[f].source

(***************************************************************************)
(* The pass.                                                               *)
(***************************************************************************)

\* select_digest_findings: severity, then escalated first, then oldest first.
Before(urgent, f, g) ==
    \/ Rank[f] > Rank[g]
    \/ Rank[f] = Rank[g] /\ f \in urgent /\ g \notin urgent
    \/ Rank[f] = Rank[g] /\ (f \in urgent <=> g \in urgent) /\ f < g

\* targets_needing_suggestions
BeginPass(p) ==
    /\ pass[p].stage = "idle"
    /\ passesBegun < MaxPasses
    /\ LET targets == {f \in Findings : finding[f] = "open" /\ suggestion[f] = NoSuggestion}
       IN pass' = [pass EXCEPT ![p] = [IdlePass EXCEPT !.stage = "drafting", !.left = targets,
                                                        !.urgent = escalated \cap targets]]
    /\ passesBegun' = passesBegun + 1
    /\ UNCHANGED <<finding, escalated, suggestion, passRow>>

\* Fault: the whole tenant's identifiers count as known.
KnownAnywhere(f) == UNION {Own[g] : g \in Findings}

\* known_references_for
KnownFor(f) == Own[f]

IsNextTarget(p, f) == \A g \in pass[p].left \ {f} : Before(pass[p].urgent, f, g)

\* One model call.  A draft that is cut off or does not parse is charged and skipped, a
\* rejected one too; an unreachable model ends the pass.
DraftSuggestion(p) ==
    /\ pass[p].stage = "drafting" /\ pass[p].draft = NoDraft
    /\ ~Exhausted(pass[p].consumed)
    /\ \E f \in pass[p].left, c \in Conversations :
          LET paid == [pass[p] EXCEPT !.spent = @ + Cost(c)]
              charged == [paid EXCEPT !.consumed = @ + Cost(c), !.left = @ \ {f}, !.urgent = @ \ {f}]
          IN
          /\ IsNextTarget(p, f)
          /\ \/ /\ Unreachable(c)
                /\ pass' = [pass EXCEPT ![p] = [paid EXCEPT !.error = TRUE, !.stage = "ending"]]
             \/ /\ CutOff(c)
                /\ pass' = [pass EXCEPT ![p] = [charged EXCEPT !.cut = @ \cup {f}]]
             \/ /\ c.end = "end_turn"     \* unparseable, or rejected
                /\ pass' = [pass EXCEPT ![p] = charged]
             \/ /\ c.end = "end_turn"
                /\ \E s \in Sections :
                      /\ Grounded(s, KnownFor(f), {})
                      /\ pass' = [pass EXCEPT ![p] =
                            [charged EXCEPT !.draft = [finding |-> f, text |-> TextOf(s)]]]
    /\ UNCHANGED <<finding, escalated, suggestion, passesBegun, passRow>>

\* Fault: the suggestion is looked for when the pass begins, and then written.
MayWriteTarget(f) == TRUE

\* The conflict clause: only over an AI suggestion.
MayWrite(f) == suggestion[f].source # "admin_seeded"

\* write_ai_suggestion: waits for another pass that has written the row.
WriteSuggestion(p) ==
    /\ pass[p].draft # NoDraft
    /\ LET f == pass[p].draft.finding
       IN /\ \A q \in Passes \ {p} : f \notin pass[q].wrote
          /\ pass' = [pass EXCEPT ![p].draft = NoDraft,
                        ![p].wrote = IF MayWrite(f) THEN @ \cup {f} ELSE @,
                        ![p].texts[f] = IF MayWrite(f) THEN pass[p].draft.text ELSE @]
    /\ UNCHANGED <<finding, escalated, suggestion, passesBegun, passRow>>

\* outcome_for, _record_run, and the commit of everything the pass wrote.
CommitPass(p) ==
    /\ pass[p].draft = NoDraft
    /\ \/ pass[p].stage = "ending"
       \/ pass[p].stage = "drafting" /\ (pass[p].left = {} \/ Exhausted(pass[p].consumed))
    /\ LET r == pass[p] IN
       /\ suggestion' = [f \in Findings |-> IF f \in r.wrote THEN AiGenerated(r.texts[f])
                                                             ELSE suggestion[f]]
       /\ passRow' = [status |-> Outcome(r.consumed, r.left = {}, r.error, r.cut # {}),
                      cost_units |-> r.consumed, spent |-> r.spent, error |-> r.error,
                      unfinished |-> r.left \cup r.cut]
    /\ pass' = [pass EXCEPT ![p] = IdlePass]
    /\ UNCHANGED <<finding, escalated, passesBegun>>

\* The Lambda times out, the database aborts a deadlock, or the commit fails.
RollbackPass(p) ==
    /\ pass[p].stage # "idle"
    /\ pass' = [pass EXCEPT ![p] = IdlePass]
    /\ UNCHANGED <<finding, escalated, suggestion, passesBegun, passRow>>

-----------------------------------------------------------------------------
SuggesterInit ==
    /\ finding = [f \in Findings |-> "open"]
    /\ escalated = {}
    /\ suggestion = [f \in Findings |-> NoSuggestion]
    /\ pass = [p \in Passes |-> IdlePass]
    /\ passesBegun = 0
    /\ passRow = NoPassRow

SuggesterNext ==
    \/ \E f \in Findings : EscalateFinding(f) \/ CloseFinding(f) \/ SeedSuggestion(f)
    \/ \E p \in Passes : \/ BeginPass(p) \/ DraftSuggestion(p) \/ WriteSuggestion(p)
                         \/ CommitPass(p) \/ RollbackPass(p)

SuggesterSpec == SuggesterInit /\ [][SuggesterNext]_suggesterVars

(***************************************************************************)
(* Properties.                                                             *)
(***************************************************************************)
Texts == [cites : SUBSET References, names : SUBSET References]
Suggestions == [source : {"none", "admin_seeded", "ai_generated"}, text : Texts]

PassRecords == [stage : {"idle", "drafting", "ending"},
                left : SUBSET Findings, urgent : SUBSET Findings,
                consumed : 0..(CostCap + MaxIterations - 1), spent : Nat,
                error : BOOLEAN, cut : SUBSET Findings,
                draft : [finding : Findings \cup {0}, text : Texts],
                wrote : SUBSET Findings, texts : [Findings -> Texts]]

PassRows == [status : {"succeeded", "truncated", "failed"}, cost_units : Nat, spent : Nat,
             error : BOOLEAN, unfinished : SUBSET Findings]

SuggesterTypeOK ==
    /\ finding \in [Findings -> {"open", "resolved"}]
    /\ escalated \subseteq Findings
    /\ suggestion \in [Findings -> Suggestions]
    /\ pass \in [Passes -> PassRecords]
    /\ passesBegun \in 0..MaxPasses
    /\ passRow \in PassRows

\* FR-013: no interleaving of a pass with an administrator ends with an agent's text over
\* one an administrator has seeded, the passes that queried before the seed included.
AdminSuggestionStands ==
    [][\A f \in Findings : suggestion[f] = AdminSeeded => suggestion'[f] = AdminSeeded]_suggesterVars

\* FR-001, FR-011, as far as they are enforced: every reference a stored suggestion
\* declares belongs to its own finding, whichever pass wrote it over which other.  What
\* its prose names without declaring it is not checked (SuggestionNamesItsOwn).
SuggestionIsOwn ==
    \A f \in Findings : suggestion[f].text.cites \subseteq Own[f]

\* FR-001, FR-001a, and suggester.py on a fabricated identifier in either half of the
\* text: a stored suggestion names nothing but what belongs to its finding.
SuggestionNamesItsOwn ==
    \A f \in Findings : suggestion[f].text.names \subseteq Own[f]

\* FR-004: a run that says succeeded left no target without a complete answer, one that
\* says truncated really stopped short without an error, and no run passes its cap by
\* more than its last call.  What a failed call had cost is the one thing not charged.
PassRowIsTrue ==
    /\ passRow.status = "succeeded" <=> passRow.unfinished = {} /\ ~passRow.error
    /\ passRow.status = "failed" <=> passRow.error
    /\ passRow.cost_units < CostCap + MaxIterations
    /\ passRow.spent - passRow.cost_units \in (IF passRow.error THEN 0..MaxIterations ELSE {0})

=============================================================================
