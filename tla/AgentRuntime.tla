---------------------------- MODULE AgentRuntime ----------------------------
(***************************************************************************)
(* What the agent workers share: one invocation of the hosted agent        *)
(* (agents/runtime/main.py behind connectors/aws.py), the grounding check  *)
(* of what it answers (backend/app/governance/grounding.py) and the        *)
(* accounting of a run (backend/app/governance/agent_runs.py).             *)
(*                                                                         *)
(* A conversation is the number of model calls it took and how it ended;   *)
(* the tools it called in between only read, and a lookup that fails is    *)
(* an answer too, so they show only in what the model may say.  A section  *)
(* is what it declares -- references it cites, figures -- and what its     *)
(* prose says beside that: identifiers it names and does not declare, and  *)
(* amounts of money and percentages it states.                             *)
(***************************************************************************)
EXTENDS Integers, FiniteSets

CONSTANTS
    MaxIterations,   \* maxToolIterations of an agent definition
    CostCap,         \* CLOUDPULSE_AGENT_COST_CAP_UNITS; a model call costs 1
    References,      \* what a model may cite, invented identifiers included
    InProse,         \* those it may name in its prose and not declare
    Figures          \* what a model may state, invented quantities included

ASSUME RuntimeAssumption ==
    /\ MaxIterations \in Nat \ {0}
    /\ InProse \subseteq References
    /\ CostCap \in Nat \ {0}

(***************************************************************************)
(* The invocation.                                                         *)
(***************************************************************************)

\* converse_loop: call the model until it stops asking for tools, is cut off, or the
\* bound is reached.  Any call can fail, after the earlier ones have been paid for.
Conversations ==
    [calls : 1..MaxIterations, end : {"end_turn", "max_tokens"}]
        \cup [calls : {MaxIterations}, end : {"max_iterations"}]
        \cup [calls : 0..MaxIterations, end : {"failed"}]

\* invoke_agent raises, also when the runtime answers with an error.
Unreachable(c) == c.end = "failed"

CutOff(c) == c.end \in {"max_tokens", "max_iterations"}

\* input_tokens + output_tokens
Cost(c) == c.calls

Sections ==
    {s \in [cites : SUBSET References, names : SUBSET InProse,
            declares : SUBSET Figures, states : SUBSET Figures] : s.names \cap s.cites = {}}

(***************************************************************************)
(* The grounding check.                                                    *)
(***************************************************************************)

\* Fault: what the prose states is not swept, only what is declared is looked up.
DeclaredAreKnown(s, knownReferences, knownFigures) ==
    s.cites \subseteq knownReferences /\ s.declares \subseteq knownFigures

\* validate_output: what is declared is looked up, and the prose is searched for amounts
\* and percentages that are not; what it names is not looked at.
Grounded(s, knownReferences, knownFigures) ==
    /\ s.cites \subseteq knownReferences
    /\ s.declares \subseteq knownFigures
    /\ s.states \subseteq s.declares

(***************************************************************************)
(* The accounting.                                                         *)
(***************************************************************************)

\* Fault: at the cap there is still something to spend.
PastCap(consumed) == consumed > CostCap

\* RunBudget.exhausted: at the cap is spent.
Exhausted(consumed) == consumed >= CostCap

\* Fault: an item that was cut off does not show in the outcome of the run.
OutcomeOfBudget(consumed, completed, error, cut) ==
    CASE error -> "failed"
      [] ~error /\ completed -> "succeeded"
      [] ~error /\ ~completed /\ Exhausted(consumed) -> "truncated"
      [] OTHER -> "failed"

\* outcome_for: an error outranks everything, a cut-off item outranks completion.
Outcome(consumed, completed, error, cut) ==
    CASE error -> "failed"
      [] ~error /\ cut -> "truncated"
      [] ~error /\ ~cut /\ completed -> "succeeded"
      [] ~error /\ ~cut /\ ~completed /\ Exhausted(consumed) -> "truncated"
      [] OTHER -> "failed"

=============================================================================
