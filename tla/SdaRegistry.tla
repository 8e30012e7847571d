---------------------------- MODULE SdaRegistry ----------------------------
(***************************************************************************)
(* Projects (SDAs) and the resources attached to them: administrators      *)
(* register, edit and remove projects (backend/app/api/routers/sdas.py),   *)
(* and every scan's governance pass attaches the resources of an account   *)
(* to the project whose mapping their tags satisfy                         *)
(* (backend/app/governance/sda_matching.py).                               *)
(*                                                                         *)
(* Mappings and tags are functions from tag keys to values.                *)
(***************************************************************************)
EXTENDS Integers, FiniteSets

CONSTANTS
    Projects,          \* identifiers of projects, never used twice
    NoProject,         \* the "No SDA" bucket
    Mappings,          \* mappings an administrator may enter
    TagSets,           \* the tags a resource may carry
    Holders,           \* the top-level resources of an account
    Editors,           \* administrative transactions that may overlap
    Classifiers,       \* passes that may overlap
    MaxEdits,          \* bound: how many administrative transactions begin
    MaxClassifications \* bound: how many passes begin

ASSUME RegistryAssumption ==
    /\ NoProject \notin Projects
    /\ << >> \in Mappings
    /\ Editors \cap Classifiers = {}
    /\ MaxEdits \in Nat /\ MaxClassifications \in Nat

Absentee == [listed |-> FALSE, mapping |-> << >>]
NoEdit == [project |-> NoProject, mapping |-> << >>]
IdleClassifier == [stage |-> "idle", seen |-> [p \in Projects |-> Absentee],
                   moves |-> [r \in Holders |-> {}]]

VARIABLES
    registry,    \* the rows of sda
    retired,     \* identifiers that have been used
    tags,        \* the tags of each resource
    attached,    \* resource.sda_id
    edit,        \* the mapping each administrative transaction has checked
    calm,        \* history: edits since whose check no mapping, and passes since whose
                 \* first read nothing else was committed
    raced,       \* history: projects whose mapping was checked against an older registry
    classifier,  \* the transaction of each pass
    edits,       \* how many administrative transactions have begun
    passes       \* how many passes have begun

registryVars ==
    <<registry, retired, tags, attached, edit, calm, raced, classifier, edits, passes>>

Listed == {p \in Projects : registry[p].listed}

(***************************************************************************)
(* sda_matching.py                                                         *)
(***************************************************************************)

\* matches: a mapping without criteria matches nothing.
Matches(carried, mapping) ==
    /\ mapping # << >>
    /\ \A k \in DOMAIN mapping : k \in DOMAIN carried /\ carried[k] = mapping[k]

\* mappings_overlap: they agree on every key they share, and share one.
Overlap(m, n) ==
    LET shared == DOMAIN m \cap DOMAIN n
    IN shared # {} /\ \A k \in shared : m[k] = n[k]

\* find_matching_sda takes the first in an order the query does not fix.
Candidates(rows, carried) == {p \in Projects : rows[p].listed /\ Matches(carried, rows[p].mapping)}
MatchesOf(rows, carried) ==
    IF Candidates(rows, carried) = {} THEN {NoProject} ELSE Candidates(rows, carried)

(***************************************************************************)
(* Administrators.                                                         *)
(***************************************************************************)

\* Fault: only a registration is compared, an edit is not.
RejectedIfNew(p, mapping) ==
    p \notin Listed /\ \E q \in Listed : Overlap(mapping, registry[q].mapping)

\* _reject_overlap: against every other project that is committed.
Rejected(p, mapping) == \E q \in Listed \ {p} : Overlap(mapping, registry[q].mapping)

Checks(e, p, mapping) ==
    /\ edit[e] = NoEdit
    /\ edits < MaxEdits
    /\ ~Rejected(p, mapping)
    /\ edit' = [edit EXCEPT ![e] = [project |-> p, mapping |-> mapping]]
    /\ calm' = calm \cup {e}
    /\ edits' = edits + 1
    /\ UNCHANGED <<registry, retired, tags, attached, raced, classifier, passes>>

\* register_sda, up to the insert
CheckRegistration(e, p, mapping) ==
    /\ p \notin retired
    /\ \A f \in Editors : edit[f].project # p
    /\ Checks(e, p, mapping)

\* update_sda, up to the write
CheckUpdate(e, p, mapping) == p \in Listed /\ Checks(e, p, mapping)

CommitEdit(e) ==
    /\ edit[e] # NoEdit
    /\ LET p == edit[e].project IN
       /\ p \in Listed \/ p \notin retired
       /\ registry' = [registry EXCEPT ![p] = [listed |-> TRUE, mapping |-> edit[e].mapping]]
       /\ retired' = retired \cup {p}
       /\ raced' = IF e \in calm THEN raced \ {p} ELSE raced \cup {p}
    /\ edit' = [edit EXCEPT ![e] = NoEdit]
    /\ calm' = {}
    /\ UNCHANGED <<tags, attached, classifier, edits, passes>>

\* A row removed meanwhile, or a failure.
AbandonEdit(e) ==
    /\ edit[e] # NoEdit
    /\ edit' = [edit EXCEPT ![e] = NoEdit]
    /\ UNCHANGED <<registry, retired, tags, attached, calm, raced, classifier, edits, passes>>

\* remove_sda: ON DELETE SET NULL.
RemoveProject(p) ==
    /\ p \in Listed
    /\ registry' = [registry EXCEPT ![p] = Absentee]
    /\ attached' = [r \in Holders |-> IF attached[r] = p THEN NoProject ELSE attached[r]]
    /\ raced' = raced \ {p}
    /\ calm' = calm \cap Editors
    /\ UNCHANGED <<retired, tags, edit, classifier, edits, passes>>

(***************************************************************************)
(* Passes.                                                                 *)
(***************************************************************************)

\* A later scan finds other tags.
Retag(r, carried) ==
    /\ carried # tags[r]
    /\ tags' = [tags EXCEPT ![r] = carried]
    /\ calm' = calm \cap Editors
    /\ UNCHANGED <<registry, retired, attached, edit, raced, classifier, edits, passes>>

\* reclassify_account_resources reads the projects, ...
ReadProjects(c) ==
    /\ classifier[c].stage = "idle"
    /\ passes < MaxClassifications
    /\ classifier' = [classifier EXCEPT ![c] = [IdleClassifier EXCEPT !.stage = "projects",
                                                                      !.seen = registry]]
    /\ passes' = passes + 1
    /\ calm' = calm \cup {c}
    /\ UNCHANGED <<registry, retired, tags, attached, edit, raced, edits>>

\* Fault: a resource that has a project keeps it.
OnlyUnattached(r, p) == IF attached[r] # NoProject THEN {} ELSE {p}

\* Only a project that differs from the one that was read is written.
Move(r, p) == IF attached[r] = p THEN {} ELSE {p}

\* ... and then the resources.
ReadHolders(c) ==
    /\ classifier[c].stage = "projects"
    /\ \E found \in [Holders -> Projects \cup {NoProject}] :
          /\ \A r \in Holders : found[r] \in MatchesOf(classifier[c].seen, tags[r])
          /\ classifier' = [classifier EXCEPT ![c].stage = "matched",
                ![c].moves = [r \in Holders |-> Move(r, found[r])]]
    /\ UNCHANGED <<registry, retired, tags, attached, edit, calm, raced, edits, passes>>

\* A project removed meanwhile violates the foreign key.
CommitMoves(c) ==
    /\ classifier[c].stage = "matched"
    /\ \A r \in Holders : classifier[c].moves[r] \subseteq Listed \cup {NoProject}
    /\ attached' = [r \in Holders |-> IF classifier[c].moves[r] = {} THEN attached[r]
                                      ELSE CHOOSE p \in classifier[c].moves[r] : TRUE]
    /\ classifier' = [classifier EXCEPT ![c] = IdleClassifier]
    /\ calm' = calm \cap Editors
    /\ UNCHANGED <<registry, retired, tags, edit, raced, edits, passes>>

\* The failed message comes back as a pass of its own.
AbandonPass(c) ==
    /\ classifier[c].stage # "idle"
    /\ classifier' = [classifier EXCEPT ![c] = IdleClassifier]
    /\ UNCHANGED <<registry, retired, tags, attached, edit, calm, raced, edits, passes>>

-----------------------------------------------------------------------------
RegistryInit ==
    /\ registry = [p \in Projects |-> Absentee]
    /\ retired = {}
    /\ tags \in [Holders -> TagSets]
    /\ attached = [r \in Holders |-> NoProject]
    /\ edit = [e \in Editors |-> NoEdit]
    /\ calm = {}
    /\ raced = {}
    /\ classifier = [c \in Classifiers |-> IdleClassifier]
    /\ edits = 0
    /\ passes = 0

RegistryNext ==
    \/ \E e \in Editors :
          \/ CommitEdit(e) \/ AbandonEdit(e)
          \/ \E p \in Projects, m \in Mappings : CheckRegistration(e, p, m) \/ CheckUpdate(e, p, m)
    \/ \E p \in Projects : RemoveProject(p)
    \/ \E r \in Holders, carried \in TagSets : Retag(r, carried)
    \/ \E c \in Classifiers : ReadProjects(c) \/ ReadHolders(c) \/ CommitMoves(c) \/ AbandonPass(c)

RegistrySpec == RegistryInit /\ [][RegistryNext]_registryVars

\* listUnmatchedResources
Unmatched == {r \in Holders : attached[r] = NoProject}

(***************************************************************************)
(* Properties.                                                             *)
(***************************************************************************)
Rows == [listed : BOOLEAN, mapping : Mappings]

\* Every variable keeps its type, and a resource is attached to a registered project.
RegistryTypeOK ==
    /\ registry \in [Projects -> Rows]
    /\ Listed \subseteq retired /\ retired \subseteq Projects
    /\ tags \in [Holders -> TagSets]
    /\ attached \in [Holders -> Listed \cup {NoProject}]
    /\ edit \in [Editors -> [project : Projects \cup {NoProject}, mapping : Mappings]]
    /\ calm \subseteq Editors \cup Classifiers
    /\ raced \subseteq Listed
    /\ classifier \in [Classifiers ->
          [stage : {"idle", "projects", "matched"}, seen : [Projects -> Rows],
           moves : [Holders -> SUBSET (Projects \cup {NoProject})]]]
    /\ edits \in 0..MaxEdits /\ passes \in 0..MaxClassifications

\* FR-010a: two registered mappings overlap only if one of them was checked while
\* another administrator was committing; every quiet registration, edit or removal keeps
\* them apart, and a quiet edit of a raced project sets it right again.
OverlapOnlyByRace ==
    \A p, q \in Listed : p # q /\ Overlap(registry[p].mapping, registry[q].mapping)
                         => p \in raced \/ q \in raced

\* FR-010a: no two registered mappings overlap.
MappingsKeptApart ==
    \A p, q \in Listed : p # q => ~Overlap(registry[p].mapping, registry[q].mapping)

\* FR-008, FR-009, FR-010: a pass during which nothing was committed leaves each resource
\* with a project its tags satisfy, and in the "No SDA" bucket only if there is none,
\* whatever it was attached to before.
AttachmentIsCurrent ==
    [][\A c \in Classifiers : c \in calm /\ CommitMoves(c) =>
          \A r \in Holders : attached'[r] \in MatchesOf(registry, tags[r])]_registryVars

\* find_matching_sda: at most one match exists by construction.
AtMostOneMatch == \A r \in Holders : Cardinality(Candidates(registry, tags[r])) <= 1

=============================================================================
