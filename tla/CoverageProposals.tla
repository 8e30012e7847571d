------------------------- MODULE CoverageProposals -------------------------
(***************************************************************************)
(* Coverage gaps: the daily advisor pass that turns the resource types     *)
(* nobody enriches into pending proposals or advisory rows                 *)
(* (backend/app/governance/advisor.py, coverage_advisor.py), and the       *)
(* decision an administrator takes on a proposal                           *)
(* (backend/app/api/routers/coverage_proposals.py).                        *)
(*                                                                         *)
(* Passes and decisions are transactions at READ COMMITTED: each statement *)
(* of a pass sees what was committed before it, and none of its own writes *)
(* are seen by others before its commit.                                   *)
(***************************************************************************)
EXTENDS Integers, FiniteSets, SequencesExt

CONSTANTS
    Types,          \* resource types
    Shipped,        \* those coverage_definitions.json covers
    Advisors,       \* passes that may overlap
    Admins,         \* decisions that may overlap
    MaxProposals,   \* bound: rows of coverage_proposal
    MaxPassesBegun, \* bound: how many advisor passes begin
    MaxChanges      \* bound: changes of the inventory or of the build

ASSUME CoverageAssumption ==
    /\ IsFiniteSet(Types) /\ Shipped \subseteq Types
    /\ MaxProposals \in Nat /\ MaxPassesBegun \in Nat /\ MaxChanges \in Nat

ProposalIds == 1..MaxProposals

IdleAdvisor == [stage |-> "idle", proposable |-> {}, advisory |-> {}, decided |-> {},
                wanted |-> {}, existing |-> {}, before |-> {}]
NoDecision == [id |-> 0, accept |-> FALSE, alone |-> TRUE]

VARIABLES
    inventory,    \* types with a resource that is not deleted
    build,        \* types for which this build has a candidate enricher
    proposal,     \* the rows of coverage_proposal, in the order of insertion
    gaps,         \* the types in coverage_advisory_gap
    advisor,      \* the transaction of each pass; with history, what was decided before it
    undisturbed,  \* history: passes since whose first read nothing else was committed
    advised,      \* how many passes have begun
    changes,      \* how many changes of the inventory or of the build
    decision      \* the decision each administrator has read a proposal for; history: whether
                  \* nobody else held that proposal with it

coverageVars ==
    <<inventory, build, proposal, gaps, advisor, undisturbed, advised, changes, decision>>

TypesIn(states) == {proposal[i].type : i \in {j \in DOMAIN proposal : proposal[j].state \in states}}

\* accepted_coverage_overrides
Accepted == TypesIn({"accepted"})

\* Fault: only what was accepted counts as decided.
AcceptedTypes == TypesIn({"accepted"})

\* already_decided_types
AlreadyDecided == TypesIn({"accepted", "rejected"})

Pending == TypesIn({"pending"})

\* load_coverage_definitions, with the overrides laid over the file
Covered == Shipped \cup Accepted

(***************************************************************************)
(* What changes under a pass.                                              *)
(***************************************************************************)

InventoryChanges(types) ==
    /\ types # inventory
    /\ changes < MaxChanges /\ changes' = changes + 1
    /\ inventory' = types
    /\ undisturbed' = {}
    /\ UNCHANGED <<build, proposal, gaps, advisor, advised, decision>>

\* A release adds or drops enrichers, or the candidates that name them.
ReleaseBuild(types) ==
    /\ types # build
    /\ changes < MaxChanges /\ changes' = changes + 1
    /\ build' = types
    /\ undisturbed' = {}
    /\ UNCHANGED <<inventory, proposal, gaps, advisor, advised, decision>>

(***************************************************************************)
(* The pass.                                                               *)
(***************************************************************************)

\* The gaps that accepting could close: a candidate that the build really has.
Proposable == (inventory \ Covered) \cap build

\* inventory_types, detect_gaps
DetectGaps(w) ==
    /\ advisor[w].stage = "idle"
    /\ advised < MaxPassesBegun
    /\ advisor' = [advisor EXCEPT ![w] =
          [IdleAdvisor EXCEPT !.stage = "detected", !.proposable = Proposable,
                              !.advisory = (inventory \ Covered) \ Proposable,
                              !.before = TypesIn({"accepted", "rejected"})]]
    /\ advised' = advised + 1
    /\ undisturbed' = undisturbed \cup {w}
    /\ UNCHANGED <<inventory, build, proposal, gaps, changes, decision>>

ReadDecided(w) ==
    /\ advisor[w].stage = "detected"
    /\ advisor' = [advisor EXCEPT ![w].stage = "decided", ![w].decided = AlreadyDecided]
    /\ UNCHANGED <<inventory, build, proposal, gaps, undisturbed, advised, changes, decision>>

\* record_proposals, the second read; the one after it is of the advisory rows.
ReadPending(w) ==
    /\ advisor[w].stage = "decided"
    /\ LET wanted == (advisor[w].proposable \ advisor[w].decided) \ Pending
       IN advisor' = [advisor EXCEPT ![w].stage = "pending", ![w].wanted = wanted,
                                     ![w].proposable = {}, ![w].decided = {}]
    /\ UNCHANGED <<inventory, build, proposal, gaps, undisturbed, advised, changes, decision>>

\* The inserts of record_proposals wait for those of another pass and then fail on
\* uq_coverage_proposal_pending: the types still wanted must have no pending row.
InsertProposals(w) ==
    /\ advisor[w].stage = "pending"
    /\ advisor[w].wanted \cap Pending = {}
    /\ \A v \in Advisors \ {w} :
          advisor[v].stage = "inserted" => advisor[v].wanted \cap advisor[w].wanted = {}
    /\ advisor' = [advisor EXCEPT ![w].stage = "inserted", ![w].existing = gaps]
    /\ UNCHANGED <<inventory, build, proposal, gaps, undisturbed, advised, changes, decision>>

\* Fault: what this pass no longer observes is kept.
AppendedGaps(w) == gaps \cup advisor[w].advisory

\* record_advisory_gaps: the rows that were read and are not observed any more go.
ReplacedGaps(w) ==
    (gaps \ (advisor[w].existing \ advisor[w].advisory)) \cup advisor[w].advisory

\* An insert of a type another pass has added, or an update of one it has deleted, fails.
AdvisoryWritable(w) ==
    /\ advisor[w].advisory \cap advisor[w].existing \subseteq gaps
    /\ (advisor[w].advisory \ advisor[w].existing) \cap gaps = {}

NewRow(type) == [type |-> type, state |-> "pending", applied |-> FALSE, decisions |-> 0]

CommitAdvisor(w) ==
    /\ advisor[w].stage = "inserted"
    /\ AdvisoryWritable(w)
    /\ Len(proposal) + Cardinality(advisor[w].wanted) <= MaxProposals
    /\ proposal' = proposal \o SetToSeq({NewRow(t) : t \in advisor[w].wanted})
    /\ gaps' = ReplacedGaps(w)
    /\ advisor' = [advisor EXCEPT ![w] = IdleAdvisor]
    /\ undisturbed' = {}
    /\ UNCHANGED <<inventory, build, advised, changes, decision>>

\* A unique violation, a stale row, a deadlock or a timeout: nothing of the pass remains.
RollbackAdvisor(w) ==
    /\ advisor[w].stage # "idle"
    /\ advisor' = [advisor EXCEPT ![w] = IdleAdvisor]
    /\ UNCHANGED <<inventory, build, proposal, gaps, undisturbed, advised, changes, decision>>

(***************************************************************************)
(* The decision: decide reads the row without a lock and updates it by id. *)
(***************************************************************************)

Deciding(i) == {a \in Admins : decision[a].id = i}

\* Fault: what was decided is decided again.
MayDecideAgain(i) == TRUE

MayDecide(i) == proposal[i].state = "pending"

ReadProposal(a, i, accept) ==
    /\ decision[a] = NoDecision
    /\ MayDecide(i)
    /\ decision' = [b \in Admins |->
          IF b = a THEN [id |-> i, accept |-> accept, alone |-> Deciding(i) = {}]
                   ELSE [decision[b] EXCEPT !.alone = @ /\ decision[b].id # i]]
    /\ UNCHANGED <<inventory, build, proposal, gaps, advisor, undisturbed, advised, changes>>

\* A rejection leaves applied_at as it read it, which is to say out of the UPDATE.
CommitDecision(a) ==
    /\ decision[a] # NoDecision
    /\ LET i == decision[a].id  accept == decision[a].accept
       IN proposal' = [proposal EXCEPT ![i].state = IF accept THEN "accepted" ELSE "rejected",
                                       ![i].applied = @ \/ accept,
                                       ![i].decisions = @ + 1]
    /\ decision' = [decision EXCEPT ![a] = NoDecision]
    /\ undisturbed' = {}
    /\ UNCHANGED <<inventory, build, gaps, advisor, advised, changes>>

-----------------------------------------------------------------------------
CoverageInit ==
    /\ inventory \in SUBSET Types
    /\ build \in SUBSET Types
    /\ proposal = <<>>
    /\ gaps = {}
    /\ advisor = [w \in Advisors |-> IdleAdvisor]
    /\ undisturbed = {}
    /\ advised = 0
    /\ changes = 0
    /\ decision = [a \in Admins |-> NoDecision]

CoverageNext ==
    \/ \E types \in SUBSET Types : InventoryChanges(types) \/ ReleaseBuild(types)
    \/ \E w \in Advisors : \/ DetectGaps(w) \/ ReadDecided(w) \/ ReadPending(w)
                           \/ InsertProposals(w) \/ CommitAdvisor(w) \/ RollbackAdvisor(w)
    \/ \E a \in Admins : \/ CommitDecision(a)
                         \/ \E i \in DOMAIN proposal, accept \in BOOLEAN :
                               ReadProposal(a, i, accept)

CoverageSpec == CoverageInit /\ [][CoverageNext]_coverageVars

(***************************************************************************)
(* Properties.                                                             *)
(***************************************************************************)
ProposalRows == [type : Types, state : {"pending", "accepted", "rejected"}, applied : BOOLEAN,
                 decisions : Nat]

AdvisorRecords == [stage : {"idle", "detected", "decided", "pending", "inserted"},
                   proposable : SUBSET Types, advisory : SUBSET Types, decided : SUBSET Types,
                   wanted : SUBSET Types, existing : SUBSET Types, before : SUBSET Types]

Decisions == [id : 0..MaxProposals, accept : BOOLEAN, alone : BOOLEAN]

CoverageTypeOK ==
    /\ inventory \subseteq Types /\ build \subseteq Types /\ gaps \subseteq Types
    /\ proposal \in Seq(ProposalRows) /\ Len(proposal) <= MaxProposals
    /\ advisor \in [Advisors -> AdvisorRecords]
    /\ undisturbed \subseteq Advisors
    /\ advised \in 0..MaxPassesBegun /\ changes \in 0..MaxChanges
    /\ decision \in [Admins -> Decisions]

Inserted(i) == i \in DOMAIN proposal' \ DOMAIN proposal

\* FR-018: a pass proposes no type that had been decided when it began.  What it may
\* still repeat is a type decided while it was running.
ReproposedOnlyByRace ==
    [][\A w \in Advisors : \A i \in ProposalIds :
          Inserted(i) /\ advisor'[w] # advisor[w] => proposal'[i].type \notin advisor[w].before]_coverageVars

\* FR-015, FR-015a, as far as the code keeps them: after a pass that nothing overlapped, the
\* advisory rows are exactly the uncovered types of the inventory for which this build has
\* no enricher -- none is missing and none outlives its gap, whatever earlier passes left
\* behind -- and every other uncovered type has been proposed.  A proposal of an earlier
\* build may be pending beside its advisory row (AdvisoryIsNotOffered).
GapsAreAccountedFor ==
    [][\A w \in Advisors :
          w \in undisturbed /\ CommitAdvisor(w) =>
             /\ gaps' = inventory \ (Covered \cup build)
             /\ (inventory \cap build) \ Covered \subseteq (Pending \cup AlreadyDecided)']_coverageVars

\* FR-015a: a type that accepting could not cover is read-only advisory content, and is not
\* offered as a proposal.
AdvisoryIsNotOffered == gaps \cap Pending = {}

\* decide's docstring, as far as the code keeps it: a decision that no other one overlapped
\* on the same proposal is the first, however long ago the proposal was read.
DecidedAgainOnlyByRace ==
    [][\A a \in Admins :
          CommitDecision(a) /\ decision[a].alone =>
             proposal[decision[a].id].state = "pending"]_coverageVars

\* decide's docstring: a decision on an already-decided proposal is refused rather than
\* silently re-applied.
DecidedOnce == \A i \in DOMAIN proposal : proposal[i].decisions <= 1

\* FR-018, record_proposals' docstring: what is already decided is skipped, so that a type
\* that was rejected has no other row.
RejectedStaysRejected ==
    \A i, j \in DOMAIN proposal :
        proposal[i].type = proposal[j].type /\ i # j => "rejected" \notin {proposal[i].state, proposal[j].state}

=============================================================================
